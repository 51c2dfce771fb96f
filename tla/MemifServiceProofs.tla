------------------------- MODULE MemifServiceProofs -------------------------
(***************************************************************************)
(* No request is lost or duplicated, for any number of user threads, and   *)
(* with one thread the device implements MemifService, as far as safety    *)
(* goes: it reports requests in order, each once.                          *)
(***************************************************************************)
EXTENDS MemifProofs, FiniteSetTheorems, SequenceTheorems

\* A program has finitely many threads, a driver finitely many tables.
Finite == IsFiniteSet(User) /\ IsFiniteSet(Table)

-----------------------------------------------------------------------------
(***************************************************************************)
(* Counting the places of a request.                                       *)
(***************************************************************************)
\* 1 if the request that moves is r.
Is(e, r) == IF e = r THEN 1 ELSE 0

LEMMA IsNat == \A e, r : Is(e, r) \in Nat
    BY DEF Is

LEMMA QueueFinite ==
    ASSUME NEW q \in Seq(Req), NEW r
    PROVE  IsFiniteSet(InQueue(q, r)) /\ Cardinality(InQueue(q, r)) \in Nat
<1>1. InQueue(q, r) \subseteq 1 .. Len(q) /\ Len(q) \in Int
    BY LenProperties DEF InQueue
<1>2. IsFiniteSet(1 .. Len(q))
    BY <1>1, FS_Interval
<1> QED BY <1>1, <1>2, FS_Subset, FS_CardinalityType

LEMMA PushCount ==
    ASSUME NEW q \in Seq(Req), NEW e \in Req, NEW r
    PROVE  Cardinality(InQueue(Append(q, e), r))
              = Cardinality(InQueue(q, r)) + Is(e, r)
<1>1. IsFiniteSet(InQueue(q, r)) /\ Cardinality(InQueue(q, r)) \in Nat
    BY QueueFinite
<1>2. /\ Len(q) \in Nat /\ DOMAIN q = 1 .. Len(q) /\ DOMAIN Append(q, e) = 1 .. Len(q) + 1
      /\ Append(q, e)[Len(q) + 1] = e /\ \A i \in 1 .. Len(q) : Append(q, e)[i] = q[i]
    BY LenProperties
<1>3. CASE e = r
    <2>1. InQueue(Append(q, e), r) = InQueue(q, r) \cup {Len(q) + 1} /\ Len(q) + 1 \notin InQueue(q, r)
        BY <1>2, <1>3 DEF InQueue
    <2> QED BY <1>1, <1>3, <2>1, FS_AddElement DEF Is
<1>4. CASE e # r
    <2>1. InQueue(Append(q, e), r) = InQueue(q, r)
        BY <1>2, <1>4 DEF InQueue
    <2> QED BY <1>1, <1>4, <2>1 DEF Is
<1> QED BY <1>3, <1>4

LEMMA PopCount ==
    ASSUME NEW q \in Seq(Req), q # <<>>, NEW r
    PROVE  Cardinality(InQueue(q, r))
              = Cardinality(InQueue(Tail(q), r)) + Is(Head(q), r)
<1> DEFINE later == InQueue(q, r) \ {1}
           shift == [i \in InQueue(Tail(q), r) |-> i + 1]
<1>1. /\ Len(q) \in Nat \ {0} /\ DOMAIN q = 1 .. Len(q) /\ DOMAIN Tail(q) = 1 .. Len(q) - 1
      /\ Tail(q) \in Seq(Req) /\ Head(q) = q[1] /\ \A i \in 1 .. Len(q) - 1 : Tail(q)[i] = q[i + 1]
    BY EmptySeq, LenProperties
<1>2. shift \in Bijection(InQueue(Tail(q), r), later)
    <2>1. shift \in Injection(InQueue(Tail(q), r), later)
        BY <1>1 DEF InQueue, Injection, IsInjective
    <2>2. \A j \in later : \E i \in InQueue(Tail(q), r) : shift[i] = j
        <3> SUFFICES ASSUME NEW j \in later PROVE j - 1 \in InQueue(Tail(q), r) /\ (j - 1) + 1 = j
            OBVIOUS
        <3>1. j \in 2 .. Len(q) /\ q[j] = r
            BY <1>1 DEF InQueue
        <3> QED BY <1>1, <3>1 DEF InQueue
    <2>3. shift \in Surjection(InQueue(Tail(q), r), later)
        BY <2>1, <2>2 DEF Surjection, Injection
    <2> QED BY <2>1, <2>3 DEF Bijection
<1>3. IsFiniteSet(InQueue(q, r)) /\ IsFiniteSet(InQueue(Tail(q), r))
      /\ Cardinality(InQueue(q, r)) \in Nat /\ Cardinality(InQueue(Tail(q), r)) \in Nat
    BY <1>1, QueueFinite
<1>4. Cardinality(later) = Cardinality(InQueue(Tail(q), r))
    BY <1>2, <1>3, FS_Bijection DEF ExistsBijection
<1>5. Cardinality(later) = IF 1 \in InQueue(q, r) THEN Cardinality(InQueue(q, r)) - 1
                           ELSE Cardinality(InQueue(q, r))
    BY <1>3, FS_RemoveElement
<1>6. 1 \in InQueue(q, r) <=> Head(q) = r
    BY <1>1 DEF InQueue
<1> QED BY <1>3, <1>4, <1>5, <1>6 DEF Is

\* The holders of a request among a finite set of threads or tables.
Holders(S, f, r) == {s \in S : f[s] = r}

LEMMA HoldersFinite ==
    ASSUME NEW S, IsFiniteSet(S), NEW f, NEW r
    PROVE  IsFiniteSet(Holders(S, f, r)) /\ Cardinality(Holders(S, f, r)) \in Nat
<1>1. Holders(S, f, r) \subseteq S
    BY DEF Holders
<1> QED BY <1>1, FS_Subset, FS_CardinalityType

\* One of them drops the request it has.
LEMMA PutDown ==
    ASSUME NEW S, IsFiniteSet(S), NEW f \in [S -> Req \cup {None}], NEW g, NEW s \in S, NEW r \in Req,
           g = [f EXCEPT ![s] = None]
    PROVE  /\ Cardinality(Holders(S, f, r)) = Cardinality(Holders(S, g, r)) + Is(f[s], r)
           /\ Cardinality(Holders(S, g, r)) \in Nat
<1> DEFINE m == Cardinality(Holders(S, f, r))  n == Cardinality(Holders(S, g, r))
<1>1. IsFiniteSet(Holders(S, f, r)) /\ m \in Nat /\ n \in Nat
    BY HoldersFinite
<1>2. Holders(S, g, r) = Holders(S, f, r) \ {s}
    BY MemifAssumption DEF Holders
<1>3. s \in Holders(S, f, r) <=> f[s] = r
    BY DEF Holders
<1>4. n = IF s \in Holders(S, f, r) THEN m - 1 ELSE m
    BY <1>1, <1>2, FS_RemoveElement
<1> HIDE DEF m, n
<1>5. m = n + Is(f[s], r)
    BY <1>1, <1>3, <1>4 DEF Is
<1> QED BY <1>1, <1>5 DEF m, n

LEMMA FreeCount ==
    ASSUME NEW S, NEW r
    PROVE  Cardinality(S \cap {r}) = IF r \in S THEN 1 ELSE 0
<1>1. CASE r \in S
    <2>1. S \cap {r} = {r}
        BY <1>1
    <2> QED BY <1>1, <2>1, FS_Singleton
<1>2. CASE r \notin S
    <2>1. S \cap {r} = {}
        BY <1>2
    <2> QED BY <1>2, <2>1, FS_EmptySet
<1> QED BY <1>1, <1>2

-----------------------------------------------------------------------------
(***************************************************************************)
(* A request is always in one place.                                       *)
(***************************************************************************)
Total(r) == Cardinality(InQueue(qreq, r)) + Cardinality(InQueue(qissued, r))
                + Cardinality(InQueue(qcomp, r)) + (IF r \in free THEN 1 ELSE 0)
                + Cardinality(Holders(User, held, r)) + Cardinality(Holders(Table, treq, r))

Once == \A r \in Req : Total(r) = 1

LEMMA OnceMeansOnePlace == Once => OnePlace
<1>1. \A r : Cardinality(free \cap {r}) = IF r \in free THEN 1 ELSE 0
    BY FreeCount
<1> QED BY <1>1 DEF Once, Total, Holders, OnePlace

\* The terms of the sum are numbers.
LEMMA Terms ==
    ASSUME Finite, TypeOK, NEW r
    PROVE  /\ Cardinality(InQueue(qreq, r)) \in Nat /\ Cardinality(InQueue(qissued, r)) \in Nat
           /\ Cardinality(InQueue(qcomp, r)) \in Nat /\ Cardinality(Holders(User, held, r)) \in Nat
           /\ Cardinality(Holders(Table, treq, r)) \in Nat
BY QueueFinite, HoldersFinite DEF TypeOK, Finite

\* The same for the threads and for the tables.
LEMMA ThreadTakes ==
    ASSUME Finite, TypeOK, NEW u \in User, held[u] = None, NEW e \in Req, NEW r \in Req,
           held' = [held EXCEPT ![u] = e]
    PROVE  Cardinality(Holders(User, held', r)) = Cardinality(Holders(User, held, r)) + Is(e, r)
<1>1. /\ held \in [User -> Req \cup {None}]
      /\ IsFiniteSet(Holders(User, held, r)) /\ Cardinality(Holders(User, held, r)) \in Nat
    BY HoldersFinite DEF TypeOK, Finite
<1>2. u \notin Holders(User, held, r)
    BY MemifAssumption DEF Holders
<1>3. CASE e = r
    <2>1. Holders(User, held', r) = Holders(User, held, r) \cup {u}
        BY <1>1, <1>3 DEF Holders
    <2> QED BY <1>1, <1>2, <1>3, <2>1, FS_AddElement DEF Is
<1>4. CASE e # r
    <2>1. Holders(User, held', r) = Holders(User, held, r)
        BY <1>1, <1>2, <1>4 DEF Holders
    <2> QED BY <1>1, <1>4, <2>1 DEF Is
<1> QED BY <1>3, <1>4

LEMMA TableTakes ==
    ASSUME Finite, TypeOK, NEW t \in Table, treq[t] = None, NEW e \in Req, NEW r \in Req,
           treq' = [treq EXCEPT ![t] = e]
    PROVE  Cardinality(Holders(Table, treq', r)) = Cardinality(Holders(Table, treq, r)) + Is(e, r)
<1>1. /\ treq \in [Table -> Req \cup {None}]
      /\ IsFiniteSet(Holders(Table, treq, r)) /\ Cardinality(Holders(Table, treq, r)) \in Nat
    BY HoldersFinite DEF TypeOK, Finite
<1>2. t \notin Holders(Table, treq, r)
    BY MemifAssumption DEF Holders
<1>3. CASE e = r
    <2>1. Holders(Table, treq', r) = Holders(Table, treq, r) \cup {t}
        BY <1>1, <1>3 DEF Holders
    <2> QED BY <1>1, <1>2, <1>3, <2>1, FS_AddElement DEF Is
<1>4. CASE e # r
    <2>1. Holders(Table, treq', r) = Holders(Table, treq, r)
        BY <1>1, <1>2, <1>4 DEF Holders
    <2> QED BY <1>1, <1>4, <2>1 DEF Is
<1> QED BY <1>3, <1>4

LEMMA ThreadDrops ==
    ASSUME Finite, TypeOK, NEW u \in User, NEW r \in Req, held' = [held EXCEPT ![u] = None]
    PROVE  /\ Cardinality(Holders(User, held, r)) = Cardinality(Holders(User, held', r)) + Is(held[u], r)
           /\ Cardinality(Holders(User, held', r)) \in Nat
<1>1. held \in [User -> Req \cup {None}] /\ IsFiniteSet(User)
    BY DEF TypeOK, Finite
<1> QED BY <1>1, PutDown

LEMMA TableDrops ==
    ASSUME Finite, TypeOK, NEW t \in Table, NEW r \in Req, treq' = [treq EXCEPT ![t] = None]
    PROVE  /\ Cardinality(Holders(Table, treq, r)) = Cardinality(Holders(Table, treq', r)) + Is(treq[t], r)
           /\ Cardinality(Holders(Table, treq', r)) \in Nat
<1>1. treq \in [Table -> Req \cup {None}] /\ IsFiniteSet(Table)
    BY DEF TypeOK, Finite
<1> QED BY <1>1, PutDown

LEMMA OnceInit ==
    ASSUME Finite, Init
    PROVE  Once
<1> SUFFICES ASSUME NEW r \in Req PROVE Total(r) = 1
    BY DEF Once
<1>1. InQueue(qreq, r) = {} /\ InQueue(qissued, r) = {} /\ InQueue(qcomp, r) = {}
    BY DEF Init, InQueue
<1>2. Holders(User, held, r) = {} /\ Holders(Table, treq, r) = {}
    BY MemifAssumption DEF Init, Holders
<1>3. r \in free
    BY DEF Init
<1> QED BY <1>1, <1>2, <1>3, FS_EmptySet DEF Total


LEMMA OnceUser ==
    ASSUME Finite, TypeOK, Once, NEW u \in User, UserStep(u)
    PROVE  Once'
<1> SUFFICES ASSUME NEW r \in Req PROVE Total(r)' = 1
    BY DEF Once
<1>1. Total(r) = 1
    BY DEF Once
<1>2. /\ qreq \in Seq(Req) /\ qissued \in Seq(Req) /\ qcomp \in Seq(Req)
      /\ held \in [User -> Req \cup {None}] /\ treq \in [Table -> Req \cup {None}]
      /\ IsFiniteSet(User) /\ IsFiniteSet(Table)
    BY DEF TypeOK, Finite
<1>3. /\ Cardinality(InQueue(qreq, r)) \in Nat /\ Cardinality(InQueue(qissued, r)) \in Nat
      /\ Cardinality(InQueue(qcomp, r)) \in Nat /\ Cardinality(Holders(User, held, r)) \in Nat
      /\ Cardinality(Holders(Table, treq, r)) \in Nat
    BY Terms
<1>4. ASSUME UNCHANGED <<free, qreq, qissued, qcomp, held, treq>> PROVE Total(r)' = 1
    BY <1>1, <1>4 DEF Total
<1>5. ASSUME NEW e \in Req, Submit(u, e) PROVE Total(r)' = 1
    <2>1. /\ qreq' = Append(qreq, e) /\ e \in free /\ free' = free \ {e}
          /\ UNCHANGED <<qissued, qcomp, held, treq>>
        BY <1>5 DEF Submit, chains
    <2>2. Cardinality(InQueue(qreq', r)) = Cardinality(InQueue(qreq, r)) + Is(e, r)
        BY <1>2, <2>1, PushCount
    <2>3. (IF r \in free THEN 1 ELSE 0) = (IF r \in free' THEN 1 ELSE 0) + Is(e, r)
        BY <2>1 DEF Is
    <2> QED BY <1>1, <1>3, <2>1, <2>2, <2>3, IsNat DEF Total
<1>6. CASE Collect(u)
    <2> DEFINE e == Head(qcomp)
    <2>1. /\ qcomp # <<>> /\ qcomp' = Tail(qcomp) /\ free' = free \cup {e}
          /\ UNCHANGED <<qreq, qissued, held, treq>>
        BY <1>6 DEF Collect, chains, users
    <2>2. Cardinality(InQueue(qcomp, r)) = Cardinality(InQueue(qcomp', r)) + Is(e, r)
        BY <1>2, <2>1, PopCount
    <2>3. Cardinality(InQueue(qcomp', r)) \in Nat
        BY <1>2, <2>1, QueueFinite, Pop
    <2> HIDE DEF e
    <2>4. CASE e # r
        <3>1. r \in free' <=> r \in free
            BY <2>1, <2>4
        <3> QED BY <1>1, <1>3, <2>1, <2>2, <2>3, <2>4, <3>1 DEF Total, Is
    <2>5. CASE e = r
        <3>1. r \notin free
            BY <1>1, <1>3, <2>2, <2>3, <2>5 DEF Total, Is
        <3>2. r \in free'
            BY <2>1, <2>5
        <3> QED BY <1>1, <1>3, <2>1, <2>2, <2>3, <2>5, <3>1, <3>2 DEF Total, Is
    <2> QED BY <2>4, <2>5
<1>7. CASE FlushTake(u)
    <2>1. CASE qreq = <<>>
        BY <1>4, <1>7, <2>1 DEF FlushTake, chains
    <2>2. CASE qreq # <<>>
        <3>1. /\ held' = [held EXCEPT ![u] = Head(qreq)] /\ qreq' = Tail(qreq) /\ held[u] = None
              /\ UNCHANGED <<free, qissued, qcomp, treq>>
            BY <1>7, <2>2 DEF FlushTake, chains, TypeOK
        <3>2. Head(qreq) \in Req /\ qreq' \in Seq(Req)
            BY <1>2, <2>2, <3>1, Pop
        <3>3. Cardinality(InQueue(qreq, r)) = Cardinality(InQueue(qreq', r)) + Is(Head(qreq), r)
            BY <1>2, <2>2, <3>1, PopCount
        <3>4. Cardinality(Holders(User, held', r)) = Cardinality(Holders(User, held, r)) + Is(Head(qreq), r)
            BY <3>1, <3>2, ThreadTakes
        <3>5. Cardinality(InQueue(qreq', r)) \in Nat
            BY <3>2, QueueFinite
        <3> QED BY <1>1, <1>3, <3>1, <3>3, <3>4, <3>5, IsNat DEF Total
    <2> QED BY <2>1, <2>2
<1>8. CASE FlushMove(u)
    <2>1. /\ qissued' = Append(qissued, held[u]) /\ held' = [held EXCEPT ![u] = None] /\ held[u] \in Req
          /\ UNCHANGED <<free, qreq, qcomp, treq>>
        BY <1>8 DEF FlushMove, chains, TypeOK
    <2>2. Cardinality(InQueue(qissued', r)) = Cardinality(InQueue(qissued, r)) + Is(held[u], r)
        BY <1>2, <2>1, PushCount
    <2>3. /\ Cardinality(Holders(User, held, r)) = Cardinality(Holders(User, held', r)) + Is(held[u], r)
          /\ Cardinality(Holders(User, held', r)) \in Nat
        BY <2>1, ThreadDrops
    <2> QED BY <1>1, <1>3, <2>1, <2>2, <2>3, IsNat DEF Total
<1>9. CASE FlushPick(u)
    <2>1. CASE qissued = <<>>
        BY <1>4, <1>9, <2>1 DEF FlushPick, chains
    <2>2. CASE qissued # <<>>
        <3>1. /\ held' = [held EXCEPT ![u] = Head(qissued)] /\ qissued' = Tail(qissued) /\ held[u] = None
              /\ UNCHANGED <<free, qreq, qcomp, treq>>
            BY <1>9, <2>2 DEF FlushPick, chains, TypeOK
        <3>2. Head(qissued) \in Req /\ qissued' \in Seq(Req)
            BY <1>2, <2>2, <3>1, Pop
        <3>3. Cardinality(InQueue(qissued, r)) = Cardinality(InQueue(qissued', r)) + Is(Head(qissued), r)
            BY <1>2, <2>2, <3>1, PopCount
        <3>4. Cardinality(Holders(User, held', r)) = Cardinality(Holders(User, held, r)) + Is(Head(qissued), r)
            BY <3>1, <3>2, ThreadTakes
        <3>5. Cardinality(InQueue(qissued', r)) \in Nat
            BY <3>2, QueueFinite
        <3> QED BY <1>1, <1>3, <3>1, <3>3, <3>4, <3>5, IsNat DEF Total
    <2> QED BY <2>1, <2>2
<1>10. ASSUME NEW t \in Table, FlushIssue(u, t) PROVE Total(r)' = 1
    <2>1. /\ treq' = [treq EXCEPT ![t] = held[u]] /\ held' = [held EXCEPT ![u] = None]
          /\ held[u] \in Req /\ treq[t] = None /\ UNCHANGED <<free, qreq, qissued, qcomp>>
        BY <1>10 DEF FlushIssue, queues, TypeOK
    <2>2. Cardinality(Holders(Table, treq', r)) = Cardinality(Holders(Table, treq, r)) + Is(held[u], r)
        BY <2>1, TableTakes
    <2>3. /\ Cardinality(Holders(User, held, r)) = Cardinality(Holders(User, held', r)) + Is(held[u], r)
          /\ Cardinality(Holders(User, held', r)) \in Nat
        BY <2>1, ThreadDrops
    <2> QED BY <1>1, <1>3, <2>1, <2>2, <2>3, IsNat DEF Total
<1>11. CASE PollBegin(u) \/ PollLook(u) \/ PollWoken(u) \/ Kick(u) \/ FlushPaint(u) \/ FlushFull(u)
    BY <1>4, <1>11 DEF PollBegin, PollLook, PollWoken, Kick, FlushPaint, FlushFull, queues, users, chains
<1> QED BY <1>5, <1>6, <1>7, <1>8, <1>9, <1>10, <1>11 DEF UserStep, InKick

LEMMA OnceTable ==
    ASSUME Finite, TypeOK, Once, NEW t \in Table, TableStep(t)
    PROVE  Once'
<1> SUFFICES ASSUME NEW r \in Req PROVE Total(r)' = 1
    BY DEF Once
<1>1. Total(r) = 1
    BY DEF Once
<1>2. /\ qreq \in Seq(Req) /\ qissued \in Seq(Req) /\ qcomp \in Seq(Req)
      /\ treq \in [Table -> Req \cup {None}] /\ IsFiniteSet(Table)
    BY DEF TypeOK, Finite
<1>3. /\ Cardinality(InQueue(qreq, r)) \in Nat /\ Cardinality(InQueue(qissued, r)) \in Nat
      /\ Cardinality(InQueue(qcomp, r)) \in Nat /\ Cardinality(Holders(User, held, r)) \in Nat
      /\ Cardinality(Holders(Table, treq, r)) \in Nat
    BY Terms
<1>4. ASSUME UNCHANGED <<free, qreq, qissued, qcomp, held, treq>> PROVE Total(r)' = 1
    BY <1>1, <1>4 DEF Total
<1>5. CASE CallbackPost(t) \/ WorkPost(t)
    <2>1. /\ qcomp' = Append(qcomp, treq[t]) /\ treq' = [treq EXCEPT ![t] = None] /\ treq[t] \in Req
          /\ UNCHANGED <<free, qreq, qissued, held>>
        BY <1>5 DEF CallbackPost, WorkPost, users, TypeOK
    <2>2. Cardinality(InQueue(qcomp', r)) = Cardinality(InQueue(qcomp, r)) + Is(treq[t], r)
        BY <1>2, <2>1, PushCount
    <2>3. /\ Cardinality(Holders(Table, treq, r)) = Cardinality(Holders(Table, treq', r)) + Is(treq[t], r)
          /\ Cardinality(Holders(Table, treq', r)) \in Nat
        BY <2>1, TableDrops
    <2> QED BY <1>1, <1>3, <2>1, <2>2, <2>3, IsNat DEF Total
<1>6. CASE WorkScan(t)
    <2>1. CASE qissued = <<>>
        BY <1>4, <1>6, <2>1 DEF WorkScan, users
    <2>2. CASE qissued # <<>>
        <3>1. /\ treq' = [treq EXCEPT ![t] = Head(qissued)] /\ qissued' = Tail(qissued) /\ treq[t] = None
              /\ UNCHANGED <<free, qreq, qcomp, held>>
            BY <1>6, <2>2 DEF WorkScan, users, TypeOK
        <3>2. Head(qissued) \in Req /\ qissued' \in Seq(Req)
            BY <1>2, <2>2, <3>1, Pop
        <3>3. Cardinality(InQueue(qissued, r)) = Cardinality(InQueue(qissued', r)) + Is(Head(qissued), r)
            BY <1>2, <2>2, <3>1, PopCount
        <3>4. Cardinality(Holders(Table, treq', r)) = Cardinality(Holders(Table, treq, r)) + Is(Head(qissued), r)
            BY <3>1, <3>2, TableTakes
        <3>5. Cardinality(InQueue(qissued', r)) \in Nat
            BY <3>2, QueueFinite
        <3> QED BY <1>1, <1>3, <3>1, <3>3, <3>4, <3>5, IsNat DEF Total
    <2> QED BY <2>1, <2>2
<1>7. CASE WorkTake(t)
    <2>1. CASE qreq = <<>>
        BY <1>4, <1>7, <2>1 DEF WorkTake, users
    <2>2. CASE qreq # <<>>
        <3>1. /\ treq' = [treq EXCEPT ![t] = Head(qreq)] /\ qreq' = Tail(qreq) /\ treq[t] = None
              /\ UNCHANGED <<free, qissued, qcomp, held>>
            BY <1>7, <2>2 DEF WorkTake, users, TypeOK
        <3>2. Head(qreq) \in Req /\ qreq' \in Seq(Req)
            BY <1>2, <2>2, <3>1, Pop
        <3>3. Cardinality(InQueue(qreq, r)) = Cardinality(InQueue(qreq', r)) + Is(Head(qreq), r)
            BY <1>2, <2>2, <3>1, PopCount
        <3>4. Cardinality(Holders(Table, treq', r)) = Cardinality(Holders(Table, treq, r)) + Is(Head(qreq), r)
            BY <3>1, <3>2, TableTakes
        <3>5. Cardinality(InQueue(qreq', r)) \in Nat
            BY <3>2, QueueFinite
        <3> QED BY <1>1, <1>3, <3>1, <3>3, <3>4, <3>5, IsNat DEF Total
    <2> QED BY <2>1, <2>2
<1>8. CASE \/ CallbackNotify(t) \/ WorkBegin(t) \/ WorkLook(t) \/ WorkRepaint(t)
           \/ WorkStart(t) \/ WorkFull(t) \/ WorkWait(t) \/ WorkWake(t)
    BY <1>4, <1>8 DEF CallbackNotify, WorkBegin, WorkLook, WorkRepaint, WorkStart, WorkFull, WorkWait,
                      WorkWake, queues, users
<1> QED BY <1>5, <1>6, <1>7, <1>8 DEF TableStep

LEMMA OnceStep ==
    ASSUME Finite, TypeInv, Once, [Next]_vars
    PROVE  Once'
<1>1. TypeOK
    BY DEF TypeInv
<1>2. CASE DmaDone \/ UNCHANGED vars
    <2>1. UNCHANGED <<free, qreq, qissued, qcomp, held, treq>>
        BY <1>2 DEF DmaDone, vars, queues, users
    <2> QED BY <2>1 DEF Once, Total
<1> QED BY <1>1, <1>2, OnceUser, OnceTable DEF Next

LEMMA OnceInvariant == ASSUME Finite PROVE Spec => []Once
<1>1. Init => Once
    BY OnceInit
<1>2. TypeInv /\ Once /\ [Next]_vars => Once'
    BY OnceStep
<1> QED BY <1>1, <1>2, TypeInit, TypeStep, PTL DEF Spec

\* However many threads kick the driver at the same time, no request is lost, and none is in
\* two hands: mig_enqueue and mig_dequeue, the kick, softirq and worker pass it on.
THEOREM NoneLostOrDoubled == ASSUME Finite PROVE Spec => []OnePlace
BY OnceInvariant, OnceMeansOnePlace, PTL

-----------------------------------------------------------------------------
(***************************************************************************)
(* The request that starts a chain is done when its softirq runs.          *)
(***************************************************************************)
\* Two chains, or a chain and a kick, never have the same request in hand.
LEMMA HandsApart ==
    ASSUME Finite, TypeOK, Once, NEW t \in Table, treq[t] # None
    PROVE  /\ \A s \in Table : treq[s] = treq[t] => s = t
           /\ \A u \in User : held[u] # treq[t]
<1> DEFINE r == treq[t]
           n == Cardinality(Holders(Table, treq, r))
           m == Cardinality(Holders(User, held, r))
<1>1. r \in Req /\ Total(r) = 1
    BY DEF Once, TypeOK
<1>2. /\ IsFiniteSet(Holders(Table, treq, r)) /\ t \in Holders(Table, treq, r) /\ n \in Nat
      /\ IsFiniteSet(Holders(User, held, r)) /\ m \in Nat
    <2>1. t \in Holders(Table, treq, r)
        BY DEF Holders
    <2> QED BY <2>1, HoldersFinite DEF Finite
<1>3. n # 0
    BY <1>2, FS_EmptySet
<1>4. n = 1 /\ m = 0
    <2>1. /\ Cardinality(InQueue(qreq, r)) \in Nat /\ Cardinality(InQueue(qissued, r)) \in Nat
          /\ Cardinality(InQueue(qcomp, r)) \in Nat
        BY Terms
    <2> HIDE DEF n, m, r
    <2>2. Cardinality(InQueue(qreq, r)) + Cardinality(InQueue(qissued, r)) + Cardinality(InQueue(qcomp, r))
             + (IF r \in free THEN 1 ELSE 0) + m + n = 1
        BY <1>1, Zenon DEF Total, n, m
    <2> QED BY <1>2, <1>3, <2>1, <2>2
<1>5. Holders(User, held, r) = {}
    BY <1>2, <1>4, FS_EmptySet
<1>6. Holders(Table, treq, r) \ {t} = {}
    <2>1. Cardinality(Holders(Table, treq, r) \ {t}) = 0 /\ IsFiniteSet(Holders(Table, treq, r) \ {t})
        BY <1>2, <1>4, FS_RemoveElement
    <2> QED BY <2>1, FS_EmptySet
<1> QED BY <1>5, <1>6 DEF Holders

\* No later transfer of the channel carries out the request of one that will raise an interrupt.
FirstOfItsRequest ==
    \A i, j \in DOMAIN chan : chan[i].irq /\ i < j => chan[j].req # chan[i].req

Carried == InterruptedIsDone /\ FirstOfItsRequest

\* A transfer is put behind the others, of a request that no chain waiting for its interrupt has.
LEMMA CarriedIssue ==
    ASSUME TypeInv, Carried, NEW r \in Req, NEW t \in Table, NEW do_irq \in BOOLEAN, Issue(r, t, do_irq),
           \A s \in Table : tpc[s] \in {"dma", "callback"} => treq[s] # r,
           \A s \in Table : tpc'[s] = "callback" => tpc[s] = "callback" /\ treq'[s] = treq[s]
    PROVE  Carried'
<1> DEFINE n == Len(chan)
<1>1. /\ n \in Nat /\ DOMAIN chan = 1 .. n /\ DOMAIN chan' = 1 .. n + 1
      /\ chan'[n + 1].req = r /\ \A i \in 1 .. n : chan'[i] = chan[i]
    BY DEF Issue, TypeInv, TypeOK
<1>2. \A i \in 1 .. n : chan[i].irq => chan[i].req # r
    <2>1. \A i \in DOMAIN chan : chan[i] \in Transfer
        BY DEF TypeInv, TypeOK
    <2>2. \A i \in DOMAIN chan : chan[i].table \in Table
        BY <2>1 DEF Transfer
    <2> QED BY <1>1, <2>2 DEF TypeInv, Interrupts
<1> HIDE DEF n
<1>3. InterruptedIsDone'
    BY <1>1 DEF Carried, InterruptedIsDone
<1>4. FirstOfItsRequest'
    BY <1>1, <1>2 DEF Carried, FirstOfItsRequest
<1> QED BY <1>3, <1>4 DEF Carried

LEMMA CarriedDma ==
    ASSUME TypeInv, Carried, DmaDone
    PROVE  Carried'
<1>1. /\ chan[1] \in Transfer /\ 1 \in DOMAIN chan /\ Head(chan) = chan[1]
      /\ \A i \in DOMAIN chan' : i + 1 \in DOMAIN chan /\ chan'[i] = chan[i + 1] /\ i \in Nat /\ i # 0
    BY Pop DEF DmaDone, TypeInv, TypeOK
<1>2. FirstOfItsRequest'
    BY <1>1 DEF Carried, FirstOfItsRequest
<1>3. ASSUME NEW t \in Table, tpc'[t] = "callback", NEW i \in DOMAIN chan'
      PROVE  chan'[i].req # treq'[t]
    <2>1. treq' = treq
        BY DEF DmaDone
    <2>2. CASE tpc[t] = "callback"
        BY <1>1, <2>1, <2>2 DEF Carried, InterruptedIsDone
    <2>3. CASE tpc[t] # "callback"
        <3>1. chan[1].irq /\ chan[1].table = t
            BY <1>1, <1>3, <2>3 DEF DmaDone, TypeInv, TypeOK
        <3>2. treq[t] = chan[1].req
            BY <1>1, <3>1 DEF TypeInv, Interrupts
        <3>3. chan[i + 1].req # chan[1].req
            BY <1>1, <3>1 DEF Carried, FirstOfItsRequest
        <3> QED BY <1>1, <2>1, <3>2, <3>3
    <2> QED BY <2>2, <2>3
<1> QED BY <1>2, <1>3 DEF Carried, InterruptedIsDone

LEMMA CarriedStep ==
    ASSUME Finite, TypeInv, Once, Carried, [Next]_vars
    PROVE  Carried'
<1>1. TypeOK
    BY DEF TypeInv
<1>2. ASSUME UNCHANGED chan,
             \A s \in Table : tpc'[s] = "callback" => tpc[s] = "callback" /\ treq'[s] = treq[s]
      PROVE  Carried'
    BY <1>2 DEF Carried, InterruptedIsDone, FirstOfItsRequest
<1>3. ASSUME NEW u \in User, NEW t \in Table, FlushIssue(u, t) PROVE Carried'
    <2>1. /\ Issue(held[u], t, TRUE) /\ held[u] \in Req
          /\ treq' = [treq EXCEPT ![t] = held[u]] /\ tpc' = [tpc EXCEPT ![t] = "dma"]
        BY <1>1, <1>3 DEF FlushIssue, TableGoto, TypeOK
    <2>2. \A s \in Table : tpc[s] \in {"dma", "callback"} => treq[s] # held[u]
        BY <1>1, HandsApart DEF TypeOK
    <2>3. \A s \in Table : tpc'[s] = "callback" => tpc[s] = "callback" /\ treq'[s] = treq[s]
        BY <1>1, <2>1 DEF TypeOK
    <2> QED BY <2>1, <2>2, <2>3, CarriedIssue
<1>4. ASSUME NEW t \in Table, WorkStart(t) PROVE Carried'
    <2>1. /\ Issue(treq[t], t, FALSE) /\ treq[t] \in Req /\ treq[t] # None /\ tpc[t] = "start"
          /\ treq' = treq /\ tpc' = [tpc EXCEPT ![t] = "wait"]
        BY <1>1, <1>4, MemifAssumption DEF WorkStart, TableGoto, TypeOK
    <2>2. \A s \in Table : tpc[s] \in {"dma", "callback"} => treq[s] # treq[t]
        BY <1>1, <2>1, HandsApart
    <2>3. \A s \in Table : tpc'[s] = "callback" => tpc[s] = "callback" /\ treq'[s] = treq[s]
        BY <1>1, <2>1 DEF TypeOK
    <2> QED BY <2>1, <2>2, <2>3, CarriedIssue
<1>5. ASSUME NEW u \in User, UserStep(u), ~\E t \in Table : FlushIssue(u, t) PROVE Carried'
    <2>1. UNCHANGED <<chan, tpc, treq>>
        BY <1>5 DEF UserStep, InKick, Submit, Collect, PollBegin, PollLook, PollWoken, Kick, FlushTake,
                    FlushMove, FlushPaint, FlushPick, FlushFull, chains
    <2> QED BY <1>2, <2>1
<1>6. ASSUME NEW t \in Table, TableStep(t), ~WorkStart(t) PROVE Carried'
    <2>1. /\ UNCHANGED chan /\ tpc'[t] # "callback"
          /\ tpc' = [tpc EXCEPT ![t] = tpc'[t]] /\ treq' = [treq EXCEPT ![t] = treq'[t]]
        <3>1. CASE CallbackPost(t) \/ CallbackNotify(t) \/ WorkPost(t) \/ WorkWake(t) \/ WorkWait(t)
            BY <1>1, <3>1 DEF CallbackPost, CallbackNotify, WorkPost, WorkWake, WorkWait, TableGoto, TypeOK
        <3>2. CASE WorkBegin(t) \/ WorkLook(t) \/ WorkRepaint(t) \/ WorkFull(t)
            BY <1>1, <3>2 DEF WorkBegin, WorkLook, WorkRepaint, WorkFull, TableGoto, TypeOK
        <3>3. CASE WorkScan(t) \/ WorkTake(t)
            BY <1>1, <3>3 DEF WorkScan, WorkTake, TableGoto, TypeOK
        <3> QED BY <1>6, <3>1, <3>2, <3>3 DEF TableStep
    <2>2. \A s \in Table : s # t => tpc'[s] = tpc[s] /\ treq'[s] = treq[s]
        BY <1>1, <2>1 DEF TypeOK
    <2> QED BY <1>2, <2>1, <2>2
<1>7. CASE UNCHANGED vars
    BY <1>2, <1>7 DEF vars
<1> QED BY <1>3, <1>4, <1>5, <1>6, <1>7, CarriedDma DEF Next

\* The softirq reports a request that has been carried out, however many chains and
\* users there are, and although the worker leaves transfers of reported requests in
\* the channel and their owners may submit them again (dma_callback_kthread).
THEOREM FirstIsDone == ASSUME Finite PROVE Spec => []InterruptedIsDone
<1>1. Init => Carried
    BY DEF Init, Carried, InterruptedIsDone, FirstOfItsRequest
<1>2. TypeInv /\ Once /\ Carried /\ [Next]_vars => Carried'
    BY CarriedStep
<1>3. Carried => InterruptedIsDone
    BY DEF Carried
<1> QED BY <1>1, <1>2, <1>3, OnceInvariant, TypeInit, TypeStep, PTL DEF Spec

-----------------------------------------------------------------------------
(***************************************************************************)
(* The requests of the device in the order of the pipeline: the chain's,   *)
(* the one a user is about to issue, qissued, the one a user moves, qreq.  *)
(***************************************************************************)
Pipe(c, a, q, b, p) == c \o a \o q \o b \o p

LEMMA Single == \A e \in Req : <<e>> \in Seq(Req) /\ <<e>> # <<>> /\ Head(<<e>>) = e /\ Tail(<<e>>) = <<>>
    OBVIOUS

LEMMA HeadTail ==
    ASSUME NEW s \in Seq(Req), s # <<>>
    PROVE  Head(s) \in Req /\ Tail(s) \in Seq(Req) /\ s = <<Head(s)>> \o Tail(s)
<1>1. Head(s) \in Req /\ Tail(s) \in Seq(Req)
    BY Pop
<1>2. Len(s) \in Nat \ {0} /\ DOMAIN s = 1 .. Len(s) /\ Len(Tail(s)) = Len(s) - 1
      /\ Head(s) = s[1] /\ \A i \in 1 .. Len(s) - 1 : Tail(s)[i] = s[i + 1]
    BY EmptySeq, LenProperties
<1>3. Len(<<Head(s)>> \o Tail(s)) = Len(s) /\ <<Head(s)>> \o Tail(s) \in Seq(Req)
    BY <1>1, <1>2
<1>4. \A i \in 1 .. Len(s) : (<<Head(s)>> \o Tail(s))[i] = s[i]
    BY <1>1, <1>2
<1> QED BY <1>1, <1>3, <1>4, SeqEqual

\* A request enters the pipeline at one end and leaves it at the other.
LEMMA PipeIn ==
    ASSUME NEW f \in Seq(Req), NEW p \in Seq(Req), NEW e \in Req
    PROVE  f \o Append(p, e) = Append(f \o p, e)
<1>1. f \o p \in Seq(Req)
    BY ConcatProperties
<1>2. Append(p, e) = p \o <<e>> /\ Append(f \o p, e) = (f \o p) \o <<e>>
    BY <1>1, AppendIsConcat
<1>3. f \o (p \o <<e>>) = (f \o p) \o <<e>>
    BY Single, ConcatAssociative
<1> QED BY <1>2, <1>3

LEMMA PipeOut ==
    ASSUME NEW q \in Seq(Req), NEW p \in Seq(Req), NEW e \in Req
    PROVE  /\ Pipe(<<e>>, <<>>, q, <<>>, p) # <<>>
           /\ Head(Pipe(<<e>>, <<>>, q, <<>>, p)) = e
           /\ Tail(Pipe(<<e>>, <<>>, q, <<>>, p)) = Pipe(<<>>, <<>>, q, <<>>, p)
<1> DEFINE r == q \o p
<1>1. r \in Seq(Req) /\ <<e>> \in Seq(Req) /\ <<e>> \o q \in Seq(Req)
      /\ \A s \in Seq(Req) : s \o <<>> = s /\ <<>> \o s = s
    BY Single, ConcatProperties, ConcatEmptySeq
<1>2. Pipe(<<>>, <<>>, q, <<>>, p) = r
    BY <1>1, EmptySeq, Zenon DEF Pipe
<1>3. Pipe(<<e>>, <<>>, q, <<>>, p) = <<e>> \o r
    <2>1. (<<e>> \o q) \o p = <<e>> \o r
        BY <1>1, ConcatAssociative
    <2> QED BY <1>1, <2>1, Zenon DEF Pipe
<1> HIDE DEF r
<1>4. <<e>> \o r # <<>> /\ Head(<<e>> \o r) = e /\ Tail(<<e>> \o r) = r
    <2>1. <<e>> \o r \in Seq(Req) /\ Len(<<e>> \o r) = Len(r) + 1 /\ Len(r) \in Nat
          /\ (<<e>> \o r)[1] = e /\ \A i \in 1 .. Len(r) : (<<e>> \o r)[i + 1] = r[i]
        BY <1>1
    <2>2. <<e>> \o r # <<>>
        BY <2>1, EmptySeq
    <2>3. Tail(<<e>> \o r) \in Seq(Req) /\ Len(Tail(<<e>> \o r)) = Len(r)
          /\ \A i \in 1 .. Len(r) : Tail(<<e>> \o r)[i] = r[i]
        BY <2>1, <2>2
    <2> QED BY <1>1, <2>1, <2>2, <2>3, SeqEqual
<1> QED BY <1>2, <1>3, <1>4

\* Inside it a request only moves on.
LEMMA PipeTake ==
    ASSUME NEW c \in Seq(Req), NEW q \in Seq(Req), NEW p \in Seq(Req), p # <<>>
    PROVE  Pipe(c, <<>>, q, <<Head(p)>>, Tail(p)) = Pipe(c, <<>>, q, <<>>, p)
<1>1. /\ <<>> \in Seq(Req) /\ \A s \in Seq(Req) : s \o <<>> = s /\ <<>> \o s = s
    BY ConcatEmptySeq
<1>2. Tail(p) \in Seq(Req) /\ <<Head(p)>> \in Seq(Req) /\ p = <<Head(p)>> \o Tail(p)
    BY HeadTail, Single
<1>3. c \o q \in Seq(Req)
    BY ConcatProperties
<1>4. ((c \o q) \o <<Head(p)>>) \o Tail(p) = (c \o q) \o (<<Head(p)>> \o Tail(p))
    BY <1>2, <1>3, ConcatAssociative
<1> QED BY <1>1, <1>2, <1>3, <1>4, Zenon DEF Pipe

LEMMA PipeMove ==
    ASSUME NEW c \in Seq(Req), NEW q \in Seq(Req), NEW p \in Seq(Req), NEW e \in Req
    PROVE  Pipe(c, <<>>, Append(q, e), <<>>, p) = Pipe(c, <<>>, q, <<e>>, p)
<1>1. /\ <<>> \in Seq(Req) /\ \A s \in Seq(Req) : s \o <<>> = s /\ <<>> \o s = s
    BY ConcatEmptySeq
<1>2. Append(q, e) = q \o <<e>> /\ Append(q, e) \in Seq(Req)
    BY AppendIsConcat, AppendProperties
<1>3. c \o (q \o <<e>>) = (c \o q) \o <<e>> /\ c \o (q \o <<e>>) \in Seq(Req)
    BY <1>2, Single, ConcatAssociative, ConcatProperties
<1> QED BY <1>1, <1>2, <1>3, Zenon DEF Pipe

LEMMA PipePick ==
    ASSUME NEW c \in Seq(Req), NEW q \in Seq(Req), NEW p \in Seq(Req), q # <<>>
    PROVE  Pipe(c, <<Head(q)>>, Tail(q), <<>>, p) = Pipe(c, <<>>, q, <<>>, p)
<1>1. /\ <<>> \in Seq(Req) /\ \A s \in Seq(Req) : s \o <<>> = s /\ <<>> \o s = s
    BY ConcatEmptySeq
<1>2. Tail(q) \in Seq(Req) /\ <<Head(q)>> \in Seq(Req) /\ q = <<Head(q)>> \o Tail(q)
    BY HeadTail, Single
<1>3. (c \o <<Head(q)>>) \o Tail(q) = c \o (<<Head(q)>> \o Tail(q))
    BY <1>2, ConcatAssociative
<1> QED BY <1>1, <1>2, <1>3, Zenon DEF Pipe

LEMMA PipeIssue ==
    ASSUME NEW q \in Seq(Req), NEW p \in Seq(Req), NEW e \in Req
    PROVE  Pipe(<<e>>, <<>>, q, <<>>, p) = Pipe(<<>>, <<e>>, q, <<>>, p)
<1>1. /\ <<>> \in Seq(Req) /\ \A s \in Seq(Req) : s \o <<>> = s /\ <<>> \o s = s
    BY ConcatEmptySeq
<1> QED BY <1>1, Single, Zenon DEF Pipe

LEMMA PipeScan ==
    ASSUME NEW q \in Seq(Req), NEW p \in Seq(Req), q # <<>>
    PROVE  Pipe(<<Head(q)>>, <<>>, Tail(q), <<>>, p) = Pipe(<<>>, <<>>, q, <<>>, p)
<1>1. /\ <<>> \in Seq(Req) /\ \A s \in Seq(Req) : s \o <<>> = s /\ <<>> \o s = s
    BY ConcatEmptySeq
<1>2. Tail(q) \in Seq(Req) /\ <<Head(q)>> \in Seq(Req) /\ q = <<Head(q)>> \o Tail(q)
    BY HeadTail, Single
<1> QED BY <1>1, <1>2, Zenon DEF Pipe

LEMMA PipeTakeOne ==
    ASSUME NEW p \in Seq(Req), p # <<>>
    PROVE  Pipe(<<Head(p)>>, <<>>, <<>>, <<>>, Tail(p)) = Pipe(<<>>, <<>>, <<>>, <<>>, p)
<1>1. /\ <<>> \in Seq(Req) /\ \A s \in Seq(Req) : s \o <<>> = s /\ <<>> \o s = s
    BY ConcatEmptySeq
<1>2. Tail(p) \in Seq(Req) /\ <<Head(p)>> \in Seq(Req) /\ p = <<Head(p)>> \o Tail(p)
    BY HeadTail, Single
<1> QED BY <1>1, <1>2, Zenon DEF Pipe

\* A request that is free is nowhere in it.
LEMMA PipeWithout ==
    ASSUME NEW T, NEW c \in Seq(T), NEW a \in Seq(T), NEW q \in Seq(T), NEW b \in Seq(T), NEW p \in Seq(T)
    PROVE  Pipe(c, a, q, b, p) \in Seq(T)
BY ConcatProperties DEF Pipe

\* The terms of the refinement mapping, before and after a step.
LEMMA HeldIs ==
    ASSUME OneUser, NEW u \in User, NEW l
    PROVE  /\ HeldAt(l) = (IF upc[u] \in l THEN <<held[u]>> ELSE <<>>)
           /\ HeldAt(l)' = (IF upc'[u] \in l THEN <<held'[u]>> ELSE <<>>)
<1>1. upc[u] \in l => (CHOOSE v \in User : upc[v] \in l) = u
    BY DEF OneUser
<1>2. upc'[u] \in l => (CHOOSE v \in User : upc'[v] \in l) = u
    BY DEF OneUser
<1>3. (\E v \in User : upc[v] \in l) <=> upc[u] \in l
    BY DEF OneUser
<1>4. (\E v \in User : upc'[v] \in l) <=> upc'[u] \in l
    BY DEF OneUser
<1> QED BY <1>1, <1>2, <1>3, <1>4, Zenon DEF HeldAt

LEMMA ChainIs ==
    ASSUME NEW t \in Table
    PROVE  /\ (\A s \in Table : treq[s] # None => s = t) =>
                 InChain = (IF treq[t] # None THEN <<treq[t]>> ELSE <<>>)
           /\ (\A s \in Table : treq'[s] # None => s = t) =>
                 InChain' = (IF treq'[t] # None THEN <<treq'[t]>> ELSE <<>>)
<1>1. ASSUME \A s \in Table : treq[s] # None => s = t
      PROVE InChain = (IF treq[t] # None THEN <<treq[t]>> ELSE <<>>)
    <2>1. treq[t] # None => (CHOOSE s \in Table : treq[s] # None) = t
        BY <1>1
    <2> QED BY <1>1, <2>1, Zenon DEF InChain
<1>2. ASSUME \A s \in Table : treq'[s] # None => s = t
      PROVE InChain' = (IF treq'[t] # None THEN <<treq'[t]>> ELSE <<>>)
    <2>1. treq'[t] # None => (CHOOSE s \in Table : treq'[s] # None) = t
        BY <1>2
    <2> QED BY <1>2, <2>1, Zenon DEF InChain
<1> QED BY <1>1, <1>2

-----------------------------------------------------------------------------
(***************************************************************************)
(* With one user every step is a step of the service, or a stutter.        *)
(***************************************************************************)
pipe == Pipe(InChain, HeldAt({"issue", "full"}), qissued, HeldAt({"move"}), qreq)

ServiceStep == [Service!Next]_(Service!vars)

\* The mapping written with Pipe.
LEMMA Mapping ==
    /\ pipe' = pipe /\ qcomp' = qcomp => ServiceStep
    /\ pipe # <<>> /\ qcomp' = Append(qcomp, Head(pipe)) /\ pipe' = Tail(pipe) => ServiceStep
    /\ qcomp # <<>> /\ qcomp' = Tail(qcomp) /\ pipe' = pipe => ServiceStep
    /\ \A r \in Req : /\ \A i \in DOMAIN pipe : pipe[i] # r
                      /\ \A i \in DOMAIN qcomp : qcomp[i] # r
                      /\ pipe' = Append(pipe, r) /\ qcomp' = qcomp
                      => ServiceStep
<1>1. pipe' = pipe /\ qcomp' = qcomp => ServiceStep
    BY DEF ServiceStep, Service!vars, pipe, Pipe
<1>2. pipe # <<>> /\ qcomp' = Append(qcomp, Head(pipe)) /\ pipe' = Tail(pipe) => ServiceStep
    BY Zenon DEF ServiceStep, Service!Next, Service!Complete, pipe, Pipe
<1>3. qcomp # <<>> /\ qcomp' = Tail(qcomp) /\ pipe' = pipe => ServiceStep
    BY Zenon DEF ServiceStep, Service!Next, Service!Collect, pipe, Pipe
<1>4. ASSUME NEW r \in Req, \A i \in DOMAIN pipe : pipe[i] # r, \A i \in DOMAIN qcomp : qcomp[i] # r,
             pipe' = Append(pipe, r), qcomp' = qcomp
      PROVE  ServiceStep
    <2>1. r \notin Service!Outstanding
        BY <1>4, Zenon DEF Service!Outstanding, pipe, Pipe
    <2>2. Service!Submit(r)
        BY <1>4, <2>1, Zenon DEF Service!Submit, pipe, Pipe
    <2> QED BY <2>2, Zenon DEF ServiceStep, Service!Next
<1> QED BY <1>1, <1>2, <1>3, <1>4, Zenon

\* A sequence in which r does not occur.
LEMMA Without ==
    ASSUME NEW q \in Seq(Req), NEW r, Cardinality(InQueue(q, r)) = 0
    PROVE  q \in Seq(Req \ {r}) /\ \A i \in DOMAIN q : q[i] # r
<1>1. InQueue(q, r) = {}
    BY QueueFinite, FS_EmptySet
<1>2. Len(q) \in Nat /\ DOMAIN q = 1 .. Len(q) /\ \A i \in 1 .. Len(q) : q[i] \in Req \ {r}
    BY <1>1, LenProperties, ElementOfSeq DEF InQueue
<1>3. q \in Seq(Req \ {r})
    BY <1>2, SeqDef
<1> QED BY <1>2, <1>3

\* What a step that moves no request leaves alone.
LEMMA InChainStays == UNCHANGED treq => InChain' = InChain
    BY DEF InChain

LEMMA PipeTypes ==
    ASSUME TypeOK
    PROVE  /\ InChain \in Seq(Req) /\ HeldAt({"issue", "full"}) \in Seq(Req) /\ HeldAt({"move"}) \in Seq(Req)
           /\ qreq \in Seq(Req) /\ qissued \in Seq(Req) /\ qcomp \in Seq(Req)
<1>1. \A t \in Table : treq[t] # None => <<treq[t]>> \in Seq(Req)
    BY Single DEF TypeOK
<1>2. InChain \in Seq(Req)
    BY <1>1, ConcatEmptySeq DEF InChain
<1>3. \A u \in User : upc[u] \in {"move", "issue", "full"} => <<held[u]>> \in Seq(Req)
    BY Single DEF TypeOK
<1>4. HeldAt({"issue", "full"}) \in Seq(Req)
    BY <1>3 DEF HeldAt
<1>5. HeldAt({"move"}) \in Seq(Req)
    BY <1>3 DEF HeldAt
<1> QED BY <1>2, <1>4, <1>5 DEF TypeOK

\* A request in the freelist is nowhere in the pipeline, and not in qcomp.
LEMMA FreeIsNowhere ==
    ASSUME Finite, TypeOK, Once, NEW r \in free
    PROVE  (\A i \in DOMAIN pipe : pipe[i] # r) /\ (\A i \in DOMAIN qcomp : qcomp[i] # r)
<1>1. r \in Req /\ Total(r) = 1
    BY DEF Once, TypeOK
<1>2. /\ Cardinality(InQueue(qreq, r)) = 0 /\ Cardinality(InQueue(qissued, r)) = 0
      /\ Cardinality(InQueue(qcomp, r)) = 0
      /\ Cardinality(Holders(User, held, r)) = 0 /\ Cardinality(Holders(Table, treq, r)) = 0
    <2>1. /\ Cardinality(InQueue(qreq, r)) \in Nat /\ Cardinality(InQueue(qissued, r)) \in Nat
          /\ Cardinality(InQueue(qcomp, r)) \in Nat /\ Cardinality(Holders(User, held, r)) \in Nat
          /\ Cardinality(Holders(Table, treq, r)) \in Nat
        BY Terms
    <2>2. Cardinality(InQueue(qreq, r)) + Cardinality(InQueue(qissued, r)) + Cardinality(InQueue(qcomp, r))
             + 1 + Cardinality(Holders(User, held, r)) + Cardinality(Holders(Table, treq, r)) = 1
        BY <1>1, Zenon DEF Total
    <2> QED BY <2>1, <2>2
<1>3. Holders(User, held, r) = {} /\ Holders(Table, treq, r) = {}
    BY <1>2, HoldersFinite, FS_EmptySet DEF Finite
<1>4. /\ qreq \in Seq(Req \ {r}) /\ qissued \in Seq(Req \ {r}) /\ \A i \in DOMAIN qcomp : qcomp[i] # r
    BY <1>2, PipeTypes, Without
<1>5. <<>> \in Seq(Req \ {r}) /\ \A e \in Req \ {r} : <<e>> \in Seq(Req \ {r})
    OBVIOUS
<1>6. InChain \in Seq(Req \ {r})
    <2>1. \A t \in Table : treq[t] # None => treq[t] \in Req \ {r}
        BY <1>3 DEF TypeOK, Holders
    <2> QED BY <1>5, <2>1 DEF InChain
<1>7. HeldAt({"issue", "full"}) \in Seq(Req \ {r}) /\ HeldAt({"move"}) \in Seq(Req \ {r})
    <2>1. \A u \in User : upc[u] \in {"move", "issue", "full"} => held[u] \in Req \ {r}
        BY <1>3 DEF TypeOK, Holders
    <2>2. HeldAt({"issue", "full"}) \in Seq(Req \ {r})
        BY <1>5, <2>1 DEF HeldAt
    <2>3. HeldAt({"move"}) \in Seq(Req \ {r})
        BY <1>5, <2>1 DEF HeldAt
    <2> QED BY <2>2, <2>3
<1>8. pipe \in Seq(Req \ {r})
    BY <1>4, <1>6, <1>7, PipeWithout DEF pipe
<1>9. \A i \in DOMAIN pipe : pipe[i] \in Req \ {r}
    BY <1>8, ElementOfSeq, LenProperties
<1> QED BY <1>4, <1>9

LEMMA ServiceUser ==
    ASSUME Finite, OneUser, TypeOK, Handover, Once, NEW u \in User, UserStep(u)
    PROVE  ServiceStep
<1>1. /\ InChain \in Seq(Req) /\ HeldAt({"issue", "full"}) \in Seq(Req) /\ HeldAt({"move"}) \in Seq(Req)
      /\ qreq \in Seq(Req) /\ qissued \in Seq(Req) /\ qcomp \in Seq(Req)
    BY PipeTypes
<1>2. /\ HeldAt({"issue", "full"}) = (IF upc[u] \in {"issue", "full"} THEN <<held[u]>> ELSE <<>>)
      /\ HeldAt({"move"}) = (IF upc[u] = "move" THEN <<held[u]>> ELSE <<>>)
      /\ HeldAt({"issue", "full"})' = (IF upc'[u] \in {"issue", "full"} THEN <<held'[u]>> ELSE <<>>)
      /\ HeldAt({"move"})' = (IF upc'[u] = "move" THEN <<held'[u]>> ELSE <<>>)
    <2>1. \A l : upc[u] \in {l} <=> upc[u] = l
        OBVIOUS
    <2>2. \A l : upc'[u] \in {l} <=> upc'[u] = l
        OBVIOUS
    <2> QED BY HeldIs, <2>1, <2>2
<1>3. ASSUME UNCHANGED <<qreq, qissued, qcomp, treq>>,
             upc[u] \notin {"move", "issue", "full"}, upc'[u] \notin {"move", "issue", "full"}
      PROVE  ServiceStep
    <2>1. pipe' = pipe
        BY <1>2, <1>3, InChainStays, Zenon DEF pipe, Pipe
    <2> QED BY <1>3, <2>1, Mapping
<1>4. ASSUME NEW r \in Req, Submit(u, r) PROVE ServiceStep
    <2>1. /\ r \in free /\ qreq' = Append(qreq, r) /\ UNCHANGED <<qissued, qcomp, held, treq>>
          /\ upc[u] = "idle" /\ upc'[u] \in {"kick", "idle"}
        BY <1>4 DEF Submit, chains, TypeOK, UserGoto
    <2>2. pipe' = Pipe(InChain, HeldAt({"issue", "full"}), qissued, HeldAt({"move"}), Append(qreq, r))
        <3>1. HeldAt({"issue", "full"})' = HeldAt({"issue", "full"}) /\ HeldAt({"move"})' = HeldAt({"move"})
            BY <1>2, <2>1
        <3> QED BY <2>1, <3>1, InChainStays, Zenon DEF pipe, Pipe
    <2>3. LET f == InChain \o HeldAt({"issue", "full"}) \o qissued \o HeldAt({"move"}) IN
          f \o Append(qreq, r) = Append(f \o qreq, r)
        BY <1>1, ConcatProperties, PipeIn
    <2>4. pipe' = Append(pipe, r)
        BY <2>2, <2>3, Zenon DEF pipe, Pipe
    <2> QED BY <2>1, <2>4, FreeIsNowhere, Mapping
<1>5. CASE Collect(u)
    <2>1. /\ qcomp # <<>> /\ qcomp' = Tail(qcomp) /\ UNCHANGED <<qreq, qissued, upc, held, treq>>
        BY <1>5 DEF Collect, chains, users
    <2>2. pipe' = pipe
        BY <1>2, <2>1, InChainStays, Zenon DEF pipe, Pipe
    <2> QED BY <2>1, <2>2, Mapping
<1>6. CASE FlushTake(u)
    <2>1. CASE qreq = <<>>
        BY <1>3, <1>6, <2>1 DEF FlushTake, chains, UserGoto, TypeOK
    <2>2. CASE qreq # <<>>
        <3>1. /\ qreq' = Tail(qreq) /\ UNCHANGED <<qissued, qcomp, treq>>
              /\ upc[u] = "drain" /\ upc'[u] = "move" /\ held'[u] = Head(qreq)
            BY <1>6, <2>2 DEF FlushTake, chains, UserGoto, TypeOK
        <3>2. pipe = Pipe(InChain, <<>>, qissued, <<>>, qreq)
            BY <1>2, <3>1 DEF pipe
        <3>3. pipe' = Pipe(InChain, <<>>, qissued, <<Head(qreq)>>, Tail(qreq))
            <4>1. HeldAt({"issue", "full"})' = <<>> /\ HeldAt({"move"})' = <<Head(qreq)>>
                BY <1>2, <3>1
            <4> QED BY <3>1, <4>1, InChainStays, Zenon DEF pipe, Pipe
        <3>4. Head(qreq) \in Req
            BY <1>1, <2>2, Pop
        <3>5. pipe' = pipe
            BY <1>1, <2>2, <3>2, <3>3, <3>4, PipeTake, EmptySeq
        <3> QED BY <3>1, <3>5, Mapping
    <2> QED BY <2>1, <2>2
<1>7. CASE FlushMove(u)
    <2>1. /\ held[u] \in Req /\ qissued' = Append(qissued, held[u]) /\ UNCHANGED <<qreq, qcomp, treq>>
          /\ upc[u] = "move" /\ upc'[u] = "drain"
        BY <1>7 DEF FlushMove, chains, UserGoto, TypeOK
    <2>2. pipe = Pipe(InChain, <<>>, qissued, <<held[u]>>, qreq)
        BY <1>2, <2>1 DEF pipe
    <2>3. pipe' = Pipe(InChain, <<>>, Append(qissued, held[u]), <<>>, qreq)
        <3>1. HeldAt({"issue", "full"})' = <<>> /\ HeldAt({"move"})' = <<>>
            BY <1>2, <2>1
        <3> QED BY <2>1, <3>1, InChainStays, Zenon DEF pipe, Pipe
    <2>4. pipe' = pipe
        BY <1>1, <2>1, <2>2, <2>3, PipeMove
    <2> QED BY <2>1, <2>4, Mapping
<1>8. CASE FlushPick(u)
    <2>1. CASE qissued = <<>>
        BY <1>3, <1>8, <2>1 DEF FlushPick, chains, UserGoto, TypeOK
    <2>2. CASE qissued # <<>>
        <3>1. /\ qissued' = Tail(qissued) /\ UNCHANGED <<qreq, qcomp, treq>>
              /\ upc[u] = "pick" /\ upc'[u] = "issue" /\ held'[u] = Head(qissued)
            BY <1>8, <2>2 DEF FlushPick, chains, UserGoto, TypeOK
        <3>2. pipe = Pipe(InChain, <<>>, qissued, <<>>, qreq)
            BY <1>2, <3>1 DEF pipe
        <3>3. pipe' = Pipe(InChain, <<Head(qissued)>>, Tail(qissued), <<>>, qreq)
            <4>1. HeldAt({"issue", "full"})' = <<Head(qissued)>> /\ HeldAt({"move"})' = <<>>
                BY <1>2, <3>1
            <4> QED BY <3>1, <4>1, InChainStays, Zenon DEF pipe, Pipe
        <3>4. Head(qissued) \in Req /\ <<>> \in Seq(Req)
            BY <1>1, <2>2, Pop, EmptySeq
        <3>5. pipe' = pipe
            BY <1>1, <2>2, <3>2, <3>3, <3>4, PipePick
        <3> QED BY <3>1, <3>5, Mapping
    <2> QED BY <2>1, <2>2
<1>9. ASSUME NEW t \in Table, FlushIssue(u, t) PROVE ServiceStep
    <2>1. /\ held[u] \in Req /\ UNCHANGED <<qreq, qissued, qcomp>>
          /\ upc[u] = "issue" /\ upc'[u] = "idle"
          /\ treq' = [treq EXCEPT ![t] = held[u]] /\ treq'[t] = held[u]
        BY <1>9 DEF FlushIssue, queues, UserGoto, TypeOK
    <2>2. \A s \in Table : treq[s] = None
        BY <2>1 DEF Handover, KickIsAlone, Kicking, Active, TypeOK
    <2>3. InChain = <<>> /\ InChain' = <<held[u]>>
        BY <2>1, <2>2, ChainIs, MemifAssumption DEF TypeOK
    <2>4. pipe = Pipe(<<>>, <<held[u]>>, qissued, <<>>, qreq)
        BY <1>2, <2>1, <2>3 DEF pipe
    <2>5. pipe' = Pipe(<<held[u]>>, <<>>, qissued, <<>>, qreq)
        <3>1. HeldAt({"issue", "full"})' = <<>> /\ HeldAt({"move"})' = <<>>
            BY <1>2, <2>1
        <3> QED BY <2>1, <2>3, <3>1, Zenon DEF pipe, Pipe
    <2>6. pipe' = pipe
        BY <1>1, <2>1, <2>4, <2>5, PipeIssue, EmptySeq
    <2> QED BY <2>1, <2>6, Mapping
<1>10. CASE PollBegin(u) \/ PollLook(u) \/ PollWoken(u) \/ Kick(u) \/ FlushPaint(u)
    <2>1. /\ UNCHANGED <<qreq, qissued, qcomp, treq>>
          /\ upc[u] \notin {"move", "issue", "full"} /\ upc'[u] \notin {"move", "issue", "full"}
        BY <1>10 DEF PollBegin, PollLook, PollWoken, Kick, FlushPaint, queues, users, chains, UserGoto, TypeOK
    <2> QED BY <1>3, <2>1
<1>11. CASE FlushFull(u)
    <2>1. /\ UNCHANGED <<qreq, qissued, qcomp, treq, held>>
          /\ upc[u] = "issue" /\ upc'[u] = "full"
        BY <1>11 DEF FlushFull, queues, chains, UserGoto, TypeOK
    <2>2. pipe' = pipe
        <3>1. HeldAt({"issue", "full"})' = HeldAt({"issue", "full"}) /\ HeldAt({"move"})' = HeldAt({"move"})
            BY <1>2, <2>1
        <3> QED BY <2>1, <3>1, InChainStays, Zenon DEF pipe, Pipe
    <2> QED BY <2>1, <2>2, Mapping
<1> QED BY <1>4, <1>5, <1>6, <1>7, <1>8, <1>9, <1>10, <1>11 DEF UserStep, InKick

LEMMA ServiceTable ==
    ASSUME OneUser, TypeOK, Handover, NEW t \in Table, TableStep(t)
    PROVE  ServiceStep
<1>1. qreq \in Seq(Req) /\ qissued \in Seq(Req) /\ qcomp \in Seq(Req) /\ <<>> \in Seq(Req)
    BY PipeTypes, EmptySeq
<1>2. Active(t)
    BY DEF TableStep, Active, CallbackPost, CallbackNotify, WorkBegin, WorkScan, WorkLook, WorkTake,
           WorkRepaint, WorkStart, WorkFull, WorkWait, WorkPost, WorkWake
<1>3. \A s \in Table : treq[s] # None => s = t
    BY <1>2 DEF Handover, ChainOwnsColor, Active, TypeOK
<1>4. InChain = (IF treq[t] # None THEN <<treq[t]>> ELSE <<>>)
    BY <1>3, ChainIs
<1>5. ASSUME treq' = [treq EXCEPT ![t] = treq'[t]]
      PROVE  InChain' = (IF treq'[t] # None THEN <<treq'[t]>> ELSE <<>>)
    BY <1>3, <1>5, ChainIs DEF TypeOK
<1>6. HeldAt({"issue", "full"}) = <<>> /\ HeldAt({"move"}) = <<>>
    BY <1>2 DEF Handover, KickIsAlone, Kicking, HeldAt
<1>7. UNCHANGED <<upc, held>> => HeldAt({"issue", "full"})' = <<>> /\ HeldAt({"move"})' = <<>>
    BY <1>6 DEF HeldAt
<1>8. pipe = Pipe(InChain, <<>>, qissued, <<>>, qreq)
    BY <1>6 DEF pipe
<1>9. ASSUME UNCHANGED <<upc, held>> PROVE pipe' = Pipe(InChain', <<>>, qissued', <<>>, qreq')
    BY <1>7, <1>9, Zenon DEF pipe, Pipe
<1>10. CASE CallbackPost(t) \/ WorkPost(t)
    <2>1. /\ qcomp' = Append(qcomp, treq[t]) /\ treq' = [treq EXCEPT ![t] = None] /\ treq[t] \in Req
          /\ treq[t] # None /\ treq'[t] = None /\ UNCHANGED <<qreq, qissued, upc, held>>
        BY <1>10, MemifAssumption DEF CallbackPost, WorkPost, users, TypeOK
    <2>2. pipe = Pipe(<<treq[t]>>, <<>>, qissued, <<>>, qreq)
        BY <1>4, <1>8, <2>1
    <2>3. pipe' = Pipe(<<>>, <<>>, qissued, <<>>, qreq)
        BY <1>5, <1>9, <2>1
    <2>4. pipe # <<>> /\ Head(pipe) = treq[t] /\ Tail(pipe) = pipe'
        <3>1. LET r == treq[t] IN
              /\ Pipe(<<r>>, <<>>, qissued, <<>>, qreq) # <<>>
              /\ Head(Pipe(<<r>>, <<>>, qissued, <<>>, qreq)) = r
              /\ Tail(Pipe(<<r>>, <<>>, qissued, <<>>, qreq)) = Pipe(<<>>, <<>>, qissued, <<>>, qreq)
            BY <1>1, <2>1, PipeOut
        <3> QED BY <2>2, <2>3, <3>1, Zenon
    <2> QED BY <2>1, <2>4, Mapping
<1>11. CASE WorkScan(t)
    <2>1. CASE qissued = <<>>
        <3>1. UNCHANGED <<qreq, qissued, qcomp, treq, upc, held>>
            BY <1>11, <2>1 DEF WorkScan, users
        <3> QED BY <1>8, <1>9, <3>1, InChainStays, Mapping
    <2>2. CASE qissued # <<>>
        <3>1. /\ treq' = [treq EXCEPT ![t] = Head(qissued)] /\ treq'[t] = Head(qissued)
              /\ qissued' = Tail(qissued) /\ treq[t] = None /\ UNCHANGED <<qreq, qcomp, upc, held>>
            BY <1>11, <2>2 DEF WorkScan, users, TypeOK
        <3>2. Head(qissued) \in Req /\ Head(qissued) # None
            BY <1>1, <2>2, Pop, MemifAssumption
        <3>3. pipe = Pipe(<<>>, <<>>, qissued, <<>>, qreq)
            BY <1>4, <1>8, <3>1
        <3>4. pipe' = Pipe(<<Head(qissued)>>, <<>>, Tail(qissued), <<>>, qreq)
            BY <1>5, <1>9, <3>1, <3>2
        <3>5. pipe' = pipe
            BY <1>1, <2>2, <3>2, <3>3, <3>4, PipeScan
        <3> QED BY <3>1, <3>5, Mapping
    <2> QED BY <2>1, <2>2
<1>12. CASE WorkTake(t)
    <2>1. CASE qreq = <<>>
        <3>1. UNCHANGED <<qreq, qissued, qcomp, treq, upc, held>>
            BY <1>12, <2>1 DEF WorkTake, users
        <3> QED BY <1>8, <1>9, <3>1, InChainStays, Mapping
    <2>2. CASE qreq # <<>>
        <3>1. /\ treq' = [treq EXCEPT ![t] = Head(qreq)] /\ treq'[t] = Head(qreq)
              /\ qreq' = Tail(qreq) /\ treq[t] = None /\ UNCHANGED <<qissued, qcomp, upc, held>>
            BY <1>12, <2>2 DEF WorkTake, users, TypeOK
        <3>2. Head(qreq) \in Req /\ Head(qreq) # None
            BY <1>1, <2>2, Pop, MemifAssumption
        <3>3. qissued = <<>>
            BY <1>12 DEF WorkTake, Handover, ChainLeavesNone
        <3>4. pipe = Pipe(<<>>, <<>>, <<>>, <<>>, qreq)
            BY <1>4, <1>8, <3>1, <3>3
        <3>5. pipe' = Pipe(<<Head(qreq)>>, <<>>, <<>>, <<>>, Tail(qreq))
            BY <1>5, <1>9, <3>1, <3>2, <3>3
        <3>6. pipe' = pipe
            BY <1>1, <2>2, <3>2, <3>4, <3>5, PipeTakeOne
        <3> QED BY <3>1, <3>6, Mapping
    <2> QED BY <2>1, <2>2
<1>13. CASE \/ CallbackNotify(t) \/ WorkBegin(t) \/ WorkLook(t) \/ WorkRepaint(t)
            \/ WorkStart(t) \/ WorkFull(t) \/ WorkWait(t) \/ WorkWake(t)
    <2>1. UNCHANGED <<qreq, qissued, qcomp, treq, upc, held>>
        BY <1>13 DEF CallbackNotify, WorkBegin, WorkLook, WorkRepaint, WorkStart, WorkFull, WorkWait, WorkWake,
                     queues, users
    <2> QED BY <1>8, <1>9, <2>1, InChainStays, Mapping
<1> QED BY <1>10, <1>11, <1>12, <1>13 DEF TableStep

\* The device in the state it starts in, and in every step, is the service.
LEMMA ServiceInit == Init => Service!Init
<1> SUFFICES ASSUME Init PROVE Service!Init
    OBVIOUS
<1>1. InChain = <<>> /\ HeldAt({"issue", "full"}) = <<>> /\ HeldAt({"move"}) = <<>> /\ qissued = <<>> /\ qreq = <<>>
      /\ qcomp = <<>>
    BY DEF Init, InChain, HeldAt
<1>2. <<>> \o <<>> = <<>>
    BY EmptySeq, ConcatEmptySeq
<1> QED BY <1>1, <1>2, Zenon DEF Service!Init

LEMMA ServiceNext ==
    ASSUME Finite, OneUser, TypeInv, Handover, Once, [Next]_vars
    PROVE  ServiceStep
<1>1. TypeOK
    BY DEF TypeInv
<1>2. CASE DmaDone \/ UNCHANGED vars
    <2>1. UNCHANGED <<qreq, qissued, qcomp, treq, upc, held>>
        BY <1>2 DEF DmaDone, vars, queues, users
    <2>2. HeldAt({"issue", "full"})' = HeldAt({"issue", "full"}) /\ HeldAt({"move"})' = HeldAt({"move"})
        BY <2>1 DEF HeldAt
    <2>3. pipe' = pipe
        BY <2>1, <2>2, InChainStays, Zenon DEF pipe, Pipe
    <2> QED BY <2>1, <2>3, Mapping
<1> QED BY <1>1, <1>2, ServiceUser, ServiceTable DEF Next

\* With one user the device reports each request once and in the order in which the
\* user submitted them, and never one that was not submitted: every step of the kick, the softirq
\* and the worker is a step of MemifService, or one the program does not see.
THEOREM ServiceIsSafe == ASSUME Finite, OneUser PROVE Spec => Service!Safety
<1>1. TypeInv /\ Handover /\ Once /\ [Next]_vars => [Service!Next]_(Service!vars)
    BY ServiceNext DEF ServiceStep
<1>2. Spec => []TypeInv
    BY TypeInit, TypeStep, PTL DEF Spec
<1> QED BY <1>1, <1>2, HandoverInvariant, OnceInvariant, ServiceInit, PTL DEF Spec, Service!Safety
=============================================================================
