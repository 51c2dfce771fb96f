-------------------------- MODULE MoveSingleProofs --------------------------
(***************************************************************************)
(* The chain of MIG_MOVE_SINGLE, for any number of tables, pages and       *)
(* requests: it is one chain, it finds the colours and the requests it     *)
(* expects, and the mm that it uses is there and given back; no write of   *)
(* the program is lost, and what is reported has been moved.               *)
(***************************************************************************)
EXTENDS MoveSingle, FiniteSetTheorems, TLAPS

Flushing == {"take", "isolate", "issue", "paint", "move"}

\* The chain is here: a flush that has not given it up, or a transfer.
Active(f) == pc[f] \in Flushing \cup TransferLabels

\* The pages whose transfer table t is to complete.
MigPages(t) == {migs[t][i].page : i \in DOMAIN migs[t]}

Holders == {f \in Flusher : Holds(f)}

-----------------------------------------------------------------------------
(***************************************************************************)
(* The inductive invariant.                                                *)
(***************************************************************************)
\* Where the chain is, and who owns which table.
Chain ==
    /\ \A f, g \in Flusher : Active(f) /\ Active(g) => f = g
    /\ pc[Usr] \notin TransferLabels \cup {"built", "free"}
    /\ \A t \in Table : pc[t] \notin {"idle", "kick"}
    /\ \A f \in Flusher : pc[f] \in {"isolate", "issue", "move"} => new[f] \in Table
    /\ \A f \in Flusher : pc[f] \in {"isolate", "issue"} => desc[f] \in Req
    /\ \A f \in Flusher : new[f] # None =>
           pc[f] \in Flushing \cup BugLabels /\ pc[new[f]] = "built"
    /\ \A f, g \in Flusher : new[f] # None /\ new[f] = new[g] => f = g
    /\ \A t \in Table : pc[t] = "paint" => new[t] = None
    /\ chan # <<>> => Len(chan) = 1 /\ pc[chan[1]] = "dma"

\* Who may change the colour of the queue.
Colors ==
    /\ \A t \in Table : Active(t) => color = KER
    /\ pc[Usr] \in {"kick", "take", "isolate", "issue", "paint"} => color = USR
    /\ pc[Usr] = "move" => color = KER

\* qissued holds the requests of the chain's table, and nothing when it has none.
Issued ==
    /\ \A t \in Table : pc[t] \in TransferLabels => qissued = descs[t]
    /\ \A f \in Flusher : pc[f] \in Flushing /\ new[f] # None => qissued = descs[new[f]]
    /\ \A f \in Flusher : pc[f] \in Flushing /\ new[f] = None => qissued = <<>>
    /\ color = USR /\ pc[Usr] \notin Flushing \cup BugLabels => qissued = <<>>
    /\ \A t \in Table : pc[t] \in {"free", "look", "put", "unlock"} \cup Flushing => descs[t] = <<>>

\* Nothing waits to be unmapped but in a table that is being filled, and a table
\* that is done has nothing to map.
Tables ==
    /\ \A t \in Table : todo[t] # <<>> => pc[t] = "built"
    /\ \A t \in Table : migs[t] # <<>> => pc[t] \in {"built", "dma", "callback", "remap"}

\* A table has a slot for every page it has to unmap or has unmapped.
Slots ==
    /\ \A t \in Table : \A i, j \in DOMAIN migs[t] : migs[t][i].page = migs[t][j].page => i = j
    /\ \A s, t \in Table : s # t => MigPages(s) \cap MigPages(t) = {}
    /\ \A t \in Table : MigPages(t) \cap mapped = {}
    /\ \A t \in Table :
           Cardinality(MigPages(t) \cup Elems(list[t]) \cup Elems(todo[t])) <= Len(slots[t])

\* The chain has a reference to the mm.
Referenced == mmUsers >= One(alive) + Cardinality(Holders)

IInv == TypeOK /\ Chain /\ Colors /\ ColorsExpected /\ Issued /\ Tables /\ Slots /\ Referenced

-----------------------------------------------------------------------------
(***************************************************************************)
(* What is used in many places.                                            *)
(***************************************************************************)
LEMMA Popped ==
    ASSUME NEW S, NEW s \in Seq(S), s # <<>>
    PROVE  /\ Len(s) \in Nat /\ Len(s) >= 1 /\ DOMAIN s = 1 .. Len(s) /\ 1 \in DOMAIN s
           /\ Head(s) = s[1] /\ s[1] \in S
           /\ Tail(s) \in Seq(S) /\ Len(Tail(s)) = Len(s) - 1
           /\ DOMAIN Tail(s) = 1 .. Len(s) - 1
           /\ \A i \in 1 .. Len(s) - 1 : Tail(s)[i] = s[i + 1]
           /\ Len(s) = 1 => Tail(s) = <<>>
    OBVIOUS

LEMMA Appended ==
    ASSUME NEW S, NEW s \in Seq(S), NEW x \in S
    PROVE  /\ Append(s, x) \in Seq(S)
           /\ Len(s) \in Nat /\ DOMAIN s = 1 .. Len(s)
           /\ Append(s, x) # <<>> /\ Len(Append(s, x)) = Len(s) + 1
           /\ DOMAIN Append(s, x) = 1 .. Len(s) + 1
           /\ Append(s, x)[Len(s) + 1] = x
           /\ \A i \in 1 .. Len(s) : Append(s, x)[i] = s[i]
    OBVIOUS

LEMMA Joined ==
    ASSUME NEW S, NEW s \in Seq(S), NEW more \in Seq(S)
    PROVE  /\ s \o more \in Seq(S)
           /\ Len(s) \in Nat /\ Len(more) \in Nat /\ Len(s \o more) = Len(s) + Len(more)
    OBVIOUS

\* Without takes an element out, and nothing else comes in.
LEMMA WithoutOne ==
    ASSUME NEW S, NEW s \in Seq(S), NEW p
    PROVE  Without(s, p) \in Seq(S) /\ Elems(Without(s, p)) \subseteq Elems(s)
<1>1. CASE p \notin Elems(s)
    BY <1>1 DEF Without
<1>2. CASE p \in Elems(s)
    <2> DEFINE k == CHOOSE i \in DOMAIN s : s[i] = p
               w == [i \in 1 .. Len(s) - 1 |-> IF i < k THEN s[i] ELSE s[i + 1]]
    <2>1. Len(s) \in Nat /\ DOMAIN s = 1 .. Len(s)
        OBVIOUS
    <2>2. k \in DOMAIN s
        BY <1>2 DEF Elems
    <2>3. Len(s) - 1 \in Nat /\ k \in Nat
        BY <2>1, <2>2
    <2> HIDE DEF k
    <2>4. \A i \in 1 .. Len(s) - 1 : \E j \in DOMAIN s : w[i] = s[j]
        BY <2>1, <2>3
    <2>5. \A j \in DOMAIN s : s[j] \in S
        BY <2>1
    <2>6. \A i \in 1 .. Len(s) - 1 : w[i] \in S
        BY <2>4, <2>5
    <2>7. w \in [1 .. Len(s) - 1 -> S]
        BY <2>6
    <2>8. w \in Seq(S) /\ DOMAIN w = 1 .. Len(s) - 1
        BY <2>3, <2>7
    <2> HIDE DEF w
    <2>9. Elems(w) \subseteq Elems(s)
        BY <2>4, <2>8 DEF Elems
    <2>10. Without(s, p) = w
        BY <1>2 DEF Without, k, w
    <2> QED BY <2>8, <2>9, <2>10
<1> QED BY <1>1, <1>2

\* A sequence has no more elements than entries.
LEMMA ElemsCard ==
    ASSUME NEW S, NEW s \in Seq(S)
    PROVE  IsFiniteSet(Elems(s)) /\ Cardinality(Elems(s)) <= Len(s)
<1>1. Len(s) \in Nat /\ DOMAIN s = 1 .. Len(s) /\ 1 \in Int /\ Len(s) \in Int
    OBVIOUS
<1>2. IsFiniteSet(1 .. Len(s)) /\ Cardinality(1 .. Len(s)) = Len(s)
    BY <1>1, FS_Interval
<1> DEFINE f == [i \in 1 .. Len(s) |-> s[i]]
<1>3. f \in Surjection(1 .. Len(s), Elems(s))
    BY <1>1 DEF Surjection, Elems
<1> HIDE DEF f
<1>4. IsFiniteSet(Elems(s)) /\ Cardinality(Elems(s)) <= Cardinality(1 .. Len(s))
    BY <1>2, <1>3, FS_Surjection
<1> QED BY <1>2, <1>4

\* Transfers of different pages are as many as their pages.
LEMMA DistinctCard ==
    ASSUME NEW s \in Seq(Mig), \A i, j \in DOMAIN s : s[i].page = s[j].page => i = j
    PROVE  /\ IsFiniteSet({s[i].page : i \in DOMAIN s})
           /\ Cardinality({s[i].page : i \in DOMAIN s}) = Len(s)
<1>1. Len(s) \in Nat /\ DOMAIN s = 1 .. Len(s) /\ 1 \in Int /\ Len(s) \in Int
    OBVIOUS
<1>2. IsFiniteSet(1 .. Len(s)) /\ Cardinality(1 .. Len(s)) = Len(s)
    BY <1>1, FS_Interval
<1> DEFINE f == [i \in 1 .. Len(s) |-> s[i].page]
           I == {s[i].page : i \in DOMAIN s}
<1>3. f \in [1 .. Len(s) -> I] /\ \A t \in I : \E i \in 1 .. Len(s) : f[i] = t
    BY <1>1
<1>4. \A i, j \in 1 .. Len(s) : f[i] = f[j] => i = j
    BY <1>1
<1> HIDE DEF f, I
<1>5. f \in Surjection(1 .. Len(s), I)
    BY <1>3 DEF Surjection
<1>6. f \in Injection(1 .. Len(s), I)
    BY <1>3, <1>4 DEF Injection, IsInjective
<1>7. IsFiniteSet(I) /\ Cardinality(I) = Cardinality(1 .. Len(s))
    BY <1>2, <1>5, <1>6, FS_Surjection
<1> QED BY <1>2, <1>7 DEF I

LEMMA HoldersFinite ==
    /\ IsFiniteSet(Holders) /\ Cardinality(Holders) \in Nat
    /\ IsFiniteSet(Holders') /\ Cardinality(Holders') \in Nat
<1>1. IsFiniteSet(Flusher)
    BY MoveSingleAssumption, FS_Singleton, FS_Union DEF Flusher
<1> QED BY <1>1, FS_Subset, FS_CardinalityType DEF Holders

\* No flush and no transfer begins to use the mm.
LEMMA ReferencedKept ==
    ASSUME IInv, \A f \in Flusher : Holds(f)' => Holds(f), UNCHANGED mm
    PROVE  Referenced'
<1>1. Holders' \subseteq Holders
    BY DEF Holders
<1>2. Cardinality(Holders') <= Cardinality(Holders)
    BY <1>1, HoldersFinite, FS_Subset
<1>3. mmUsers' = mmUsers /\ mmUsers \in Nat /\ One(alive)' = One(alive) /\ One(alive) \in Nat
    BY DEF mm, IInv, TypeOK, One
<1> QED BY <1>2, <1>3, HoldersFinite DEF IInv, Referenced

LEMMA SlotsKept ==
    ASSUME IInv, UNCHANGED <<migs, list, todo, slots, mapped>>
    PROVE  Slots'
<1>1. \A t \in Table : /\ MigPages(t)' = MigPages(t)
                       /\ Elems(list[t])' = Elems(list[t]) /\ Elems(todo[t])' = Elems(todo[t])
    BY DEF MigPages, Elems
<1> QED BY <1>1 DEF IInv, Slots

\* Everything but the pages and the region.
LEMMA ControlKept ==
    ASSUME IInv, UNCHANGED <<pc, filling, moving, chan, mapped, color, qissued>>
    PROVE  Chain' /\ Colors' /\ ColorsExpected' /\ Issued' /\ Tables' /\ Slots'
<1> USE DEF filling, moving
<1>1. \A f \in Flusher : Active(f)' <=> Active(f)
    BY DEF Active
<1>2. Chain' /\ Colors' /\ ColorsExpected'
    BY <1>1 DEF IInv, Chain, Colors, ColorsExpected, Flusher
<1>3. Issued' /\ Tables'
    BY DEF IInv, Issued, Tables
<1> QED BY <1>2, <1>3, SlotsKept

\* The one that has the chain: nobody else is active, and if it is a table's work
\* the queue has the kernel's colour.
LEMMA OnlyOne ==
    ASSUME IInv, NEW f \in Flusher, Active(f)
    PROVE  /\ \A g \in Flusher : g # f => ~Active(g)
           /\ f # Usr => color = KER
    BY DEF IInv, Chain, Colors, Flusher

\* The table a flush is filling.
LEMMA Filled ==
    ASSUME IInv, NEW f \in Flusher, new[f] # None
    PROVE  /\ new[f] \in Table /\ new[f] \in Flusher
           /\ pc[new[f]] = "built" /\ pc[f] \in Flushing \cup BugLabels
<1>1. new[f] \in Table
    BY DEF IInv, TypeOK
<1> QED BY <1>1 DEF IInv, Chain, Flusher

LEMMA InChan ==
    ASSUME IInv, chan # <<>>
    PROVE  chan[1] \in Table /\ chan[1] \in Flusher /\ pc[chan[1]] = "dma" /\ Len(chan) = 1
<1>1. chan[1] \in Table
    BY Popped DEF IInv, TypeOK
<1> QED BY <1>1 DEF IInv, Chain, Flusher

LEMMA InitInv == Init => IInv
<1> SUFFICES ASSUME Init PROVE IInv
    OBVIOUS
<1> USE MoveSingleAssumption
<1>1. TypeOK
    BY DEF Init, TypeOK, Labels, Nodes, USR, KER
<1>2. Chain
    BY DEF Init, Chain, Active, Flushing, TransferLabels, Flusher, BugLabels
<1>3. Colors /\ ColorsExpected
    BY DEF Init, Colors, ColorsExpected, Active, Flushing, TransferLabels, Flusher, USR, KER
<1>4. Issued /\ Tables
    BY DEF Init, Issued, Tables, Flushing, TransferLabels, Flusher
<1>5. Slots
    <2>1. \A t \in Table : MigPages(t) = {} /\ Elems(list[t]) = {} /\ Elems(todo[t]) = {}
                           /\ migs[t] = <<>> /\ Len(slots[t]) = 0
        BY DEF Init, MigPages, Elems
    <2>2. Cardinality({}) = 0
        BY FS_EmptySet
    <2>3. \A t \in Table : MigPages(t) \cup Elems(list[t]) \cup Elems(todo[t]) = {}
        BY <2>1
    <2>4. \A t \in Table : \A i \in DOMAIN migs[t] : FALSE
        BY <2>1
    <2>5. \A t \in Table :
              Cardinality(MigPages(t) \cup Elems(list[t]) \cup Elems(todo[t])) <= Len(slots[t])
        <3> SUFFICES ASSUME NEW t \in Table
                     PROVE  Cardinality(MigPages(t) \cup Elems(list[t]) \cup Elems(todo[t]))
                                <= Len(slots[t])
            OBVIOUS
        <3>1. Cardinality(MigPages(t) \cup Elems(list[t]) \cup Elems(todo[t])) = 0
            BY <2>2, <2>3, Zenon
        <3> QED BY <2>1, <3>1
    <2> QED BY <2>1, <2>4, <2>5 DEF Slots
<1>6. Referenced
    <2>1. Holders = {}
        BY DEF Init, Holders, Holds, FlushLabels, TransferLabels, Flusher
    <2>2. Cardinality({}) = 0
        BY FS_EmptySet
    <2> QED BY <2>1, <2>2 DEF Init, Referenced, One
<1> QED BY <1>1, <1>2, <1>3, <1>4, <1>5, <1>6 DEF IInv

-----------------------------------------------------------------------------
(***************************************************************************)
(* The program and the rest of the kernel.                                 *)
(***************************************************************************)
LEMMA SubmitInv ==
    ASSUME IInv, NEW r \in Req, Submit(r)
    PROVE  IInv'
<1>1. /\ pc[Usr] = "idle" /\ qreq' = Append(qreq, r) /\ free' = free \ {r}
      /\ pc' = [pc EXCEPT ![Usr] = IF color = USR THEN "kick" ELSE "idle"]
      /\ UNCHANGED <<qissued, qcomp, color, filling, moving, chan, pages, contents, mm>>
    BY DEF Submit, Goto
<1>2. Append(qreq, r) \in Seq(Req)
    BY DEF IInv, TypeOK
<1>3. /\ pc' \in [Flusher -> Labels] /\ \A t \in Table : pc'[t] = pc[t]
      /\ pc'[Usr] = IF color = USR THEN "kick" ELSE "idle"
    BY <1>1, MoveSingleAssumption DEF IInv, TypeOK, Labels, Flusher
<1>4. TypeOK'
    BY <1>1, <1>2, <1>3 DEF IInv, TypeOK, filling, moving, pages, contents, mm
<1>5. \A f \in Flusher : Active(f)' <=> Active(f)
    BY <1>1, <1>3 DEF Active, Flusher, Flushing, TransferLabels
<1>6. Chain'
    <2>1. /\ chan' = chan /\ new' = new /\ desc' = desc
        BY <1>1 DEF filling
    <2>2. \A f \in Flusher : pc'[f] # pc[f] => f = Usr /\ pc'[f] = "kick"
        BY <1>1, <1>3 DEF Flusher
    <2>3. \A f \in Flusher : new[f] # None => pc[f] # "idle" /\ new[f] \in Table
        BY <1>1, Filled DEF Flushing, BugLabels
    <2>4. "kick" \notin Flushing \cup TransferLabels
        BY DEF Flushing, TransferLabels
    <2>5. chan # <<>> => Len(chan) = 1 /\ pc'[chan[1]] = "dma"
        BY <1>1, <1>3, InChan
    <2>6. \A f \in Flusher : new[f] # None =>
              pc'[f] \in Flushing \cup BugLabels /\ pc'[new[f]] = "built"
        BY <1>1, <1>3, <2>2, <2>3 DEF IInv, Chain
    <2>7. \A f, g \in Flusher : Active(f)' /\ Active(g)' => f = g
        BY <1>5 DEF IInv, Chain
    <2>8. pc'[Usr] \notin TransferLabels \cup {"built", "free"}
        BY <1>3 DEF TransferLabels
    <2>9. \A t \in Table : pc'[t] \notin {"idle", "kick"} /\ (pc'[t] = "paint" => new[t] = None)
        BY <1>3 DEF IInv, Chain
    <2>10. /\ \A f \in Flusher : pc'[f] \in {"isolate", "issue", "move"} => new[f] \in Table
           /\ \A f \in Flusher : pc'[f] \in {"isolate", "issue"} => desc[f] \in Req
        BY <2>2 DEF IInv, Chain
    <2>11. \A f, g \in Flusher : new[f] # None /\ new[f] = new[g] => f = g
        BY DEF IInv, Chain
    <2> QED BY <2>1, <2>5, <2>6, <2>7, <2>8, <2>9, <2>10, <2>11 DEF Chain
<1>7. Colors' /\ ColorsExpected'
    BY <1>1, <1>3, <1>5 DEF IInv, Colors, ColorsExpected, Flusher
<1>8. Issued' /\ Tables'
    BY <1>1, <1>3 DEF IInv, Issued, Tables, Flusher, filling, moving, Flushing, BugLabels
<1>9. Slots'
    BY <1>1, SlotsKept DEF filling, moving, pages
<1>10. Referenced'
    BY <1>1, <1>3, ReferencedKept DEF Holds, Flusher, FlushLabels, TransferLabels
<1> QED BY <1>4, <1>6, <1>7, <1>8, <1>9, <1>10 DEF IInv

LEMMA CollectInv ==
    ASSUME IInv, Collect
    PROVE  IInv'
<1>1. /\ qcomp \in Seq(Req) /\ qcomp # <<>> /\ qcomp' = Tail(qcomp)
      /\ free' = free \cup {Head(qcomp)}
      /\ UNCHANGED <<qreq, qissued, color, pc, filling, moving, chan, pages, contents, mm>>
    BY DEF IInv, TypeOK, Collect
<1>2. qcomp' \in Seq(Req) /\ Head(qcomp) \in Req
    BY <1>1, Popped
<1>3. TypeOK'
    BY <1>1, <1>2 DEF IInv, TypeOK, filling, moving, pages, contents, mm
<1>4. Referenced'
    BY <1>1, ReferencedKept DEF Holds
<1> QED BY <1>1, <1>3, <1>4, ControlKept DEF IInv, pages

\* Writes, and what other parts of the kernel do to a page.
LEMMA OutsideInv ==
    ASSUME IInv, (\E p \in Page : Write(p)) \/ Kernel
    PROVE  IInv'
<1>1. UNCHANGED <<region, pc, filling, moving, chan, node, mapped, locked, lost, mm>>
    BY DEF Write, Kernel, LetGo, Use, Drain, pages, contents
<1>2. /\ where' \in [Page -> {"lru", "pagevec", "isolated"}]
      /\ other' \in [Page -> {"none", "ref", "lock"}]
      /\ same' \in SUBSET Page
    <2>1. CASE \E p \in Page : Write(p)
        BY <2>1 DEF IInv, TypeOK, Write, pages
    <2>2. CASE \E p \in Busy : LetGo(p) \/ \E what \in {"ref", "lock"} : Use(p, what)
        <3>1. PICK p \in Page, w \in {"none", "ref", "lock"} : other' = [other EXCEPT ![p] = w]
            BY <2>2, MoveSingleAssumption DEF LetGo, Use
        <3>2. where' = where /\ same' = same
            BY <2>2 DEF LetGo, Use, contents
        <3> QED BY <3>1, <3>2 DEF IInv, TypeOK
    <2>3. CASE \E p \in Page : Drain(p)
        BY <2>3 DEF IInv, TypeOK, Drain, contents
    <2> QED BY <2>1, <2>2, <2>3 DEF Kernel
<1>3. TypeOK'
    BY <1>1, <1>2 DEF IInv, TypeOK, region, filling, moving, mm
<1>4. Referenced'
    BY <1>1, ReferencedKept DEF Holds
<1> QED BY <1>1, <1>3, <1>4, ControlKept DEF IInv, region

LEMMA ExitInv ==
    ASSUME IInv, Exit
    PROVE  IInv'
<1>1. /\ alive /\ alive' = FALSE /\ mmUsers' = mmUsers - 1
      /\ UNCHANGED <<region, pc, filling, moving, chan, pages, contents>>
    BY DEF Exit
<1>2. Holders' = Holders
    BY <1>1 DEF Holders, Holds
<1>3. mmUsers \in Nat /\ mmUsers >= 1 + Cardinality(Holders)
    BY <1>1 DEF IInv, TypeOK, Referenced, One
<1>4. mmUsers' \in Nat /\ mmUsers' >= Cardinality(Holders)
    BY <1>1, <1>3, HoldersFinite
<1>5. Referenced'
    BY <1>1, <1>2, <1>4, HoldersFinite DEF Referenced, One
<1>6. TypeOK'
    BY <1>1, <1>4 DEF IInv, TypeOK, region, filling, moving, pages, contents
<1> QED BY <1>1, <1>5, <1>6, ControlKept DEF IInv, region, pages

\* The chain begins: nobody else has it, for the queue has the user's colour.
LEMMA KickInv ==
    ASSUME IInv, Kick
    PROVE  IInv'
<1> USE MoveSingleAssumption
<1>1. /\ pc[Usr] = "kick" /\ mmUsers' = mmUsers + 1 /\ pc' = [pc EXCEPT ![Usr] = "take"]
      /\ UNCHANGED <<region, filling, moving, chan, pages, contents, alive>>
    BY DEF Kick, Goto
<1>2. /\ pc' \in [Flusher -> Labels] /\ \A t \in Table : pc'[t] = pc[t]
      /\ pc'[Usr] = "take"
    BY <1>1 DEF IInv, TypeOK, Labels, Flusher, FlushLabels
<1>3. TypeOK'
    BY <1>1, <1>2 DEF IInv, TypeOK, region, filling, moving, pages, contents
<1>4. color = USR /\ \A t \in Table : ~Active(t)
    BY <1>1 DEF IInv, Colors, USR, KER
<1>5. \A t \in Table : ~Active(t)'
    BY <1>2, <1>4 DEF Active
<1>6. new[Usr] = None /\ qissued = <<>>
    BY <1>1, <1>4 DEF IInv, Chain, Issued, Flusher, Flushing, BugLabels
<1>7. Chain'
    BY <1>1, <1>2, <1>5, <1>6
    DEF IInv, TypeOK, Chain, Flusher, filling, TransferLabels, Flushing, BugLabels
<1>8. Colors' /\ ColorsExpected'
    BY <1>1, <1>2, <1>4, <1>5 DEF IInv, Colors, ColorsExpected, Flusher, region
<1>9. Issued' /\ Tables'
    BY <1>1, <1>2, <1>6 DEF IInv, Issued, Tables, Flusher, filling, moving, region, Flushing
<1>10. Slots'
    BY <1>1, SlotsKept DEF filling, moving, pages
<1>11. Referenced'
    <2>1. Usr \notin Holders /\ Holders' = Holders \cup {Usr}
        BY <1>1, <1>2 DEF Holders, Holds, Flusher, FlushLabels, TransferLabels
    <2>2. Cardinality(Holders') = Cardinality(Holders) + 1
        BY <2>1, HoldersFinite, FS_AddElement
    <2> QED BY <1>1, <2>2, HoldersFinite DEF IInv, TypeOK, Referenced, One
<1> QED BY <1>3, <1>7, <1>8, <1>9, <1>10, <1>11 DEF IInv

LEMMA DmaDoneInv ==
    ASSUME IInv, DmaDone
    PROVE  IInv'
<1> USE MoveSingleAssumption
<1>1. PICK t \in Table : t = Head(chan)
    BY Popped DEF IInv, TypeOK, DmaDone
<1>2. /\ chan = <<t>> /\ pc[t] = "dma" /\ Tail(chan) = <<>>
    <2>1. chan # <<>> /\ chan \in Seq(Table)
        BY DEF IInv, TypeOK, DmaDone
    <2>2. Len(chan) = 1 /\ pc[chan[1]] = "dma"
        BY <2>1 DEF IInv, Chain
    <2>3. \A s \in Seq(Table) : Len(s) = 1 => s = <<s[1]>>
        OBVIOUS
    <2>4. \A x \in Table : Head(<<x>>) = x /\ Tail(<<x>>) = <<>>
        OBVIOUS
    <2>5. chan[1] \in Table
        BY <2>1, Popped
    <2> QED BY <1>1, <2>1, <2>2, <2>3, <2>4, <2>5
<1>3. /\ pc' = [pc EXCEPT ![t] = "callback"] /\ chan' = <<>>
      /\ same' = same \cup {migs[t][i].page : i \in DOMAIN migs[t]}
      /\ UNCHANGED <<region, filling, moving, pages, lost, mm>>
    BY <1>1, <1>2 DEF DmaDone, Goto
<1>4. /\ pc' \in [Flusher -> Labels] /\ pc'[t] = "callback"
      /\ \A f \in Flusher : f # t => pc'[f] = pc[f]
    BY <1>3 DEF IInv, TypeOK, Labels, TransferLabels, Flusher
<1>5. same' \in SUBSET Page
    <2>1. migs[t] \in Seq(Mig) /\ same \in SUBSET Page
        BY DEF IInv, TypeOK
    <2>2. \A i \in DOMAIN migs[t] : migs[t][i] \in Mig
        BY <2>1
    <2> QED BY <1>3, <2>1, <2>2 DEF Mig
<1>6. TypeOK'
    BY <1>3, <1>4, <1>5 DEF IInv, TypeOK, region, filling, moving, pages, mm
<1>7. \A f \in Flusher : Active(f)' <=> Active(f)
    BY <1>2, <1>4 DEF Active, TransferLabels
<1>8. Chain'
    BY <1>2, <1>3, <1>4, <1>7
    DEF IInv, TypeOK, Chain, Flusher, filling, TransferLabels, Flushing, BugLabels
<1>9. Colors' /\ ColorsExpected'
    BY <1>3, <1>4, <1>7 DEF IInv, Colors, ColorsExpected, Flusher, region
<1>10. Issued' /\ Tables'
    BY <1>2, <1>3, <1>4
    DEF IInv, Issued, Tables, Flusher, filling, moving, region, Flushing, TransferLabels
<1>11. Slots'
    BY <1>3, SlotsKept DEF filling, moving, pages
<1>12. Referenced'
    BY <1>2, <1>3, <1>4, ReferencedKept DEF Holds, TransferLabels
<1> QED BY <1>6, <1>8, <1>9, <1>10, <1>11, <1>12 DEF IInv

-----------------------------------------------------------------------------
(***************************************************************************)
(* flush_single_qreq.                                                      *)
(***************************************************************************)
LEMMA FlushTakeInv ==
    ASSUME IInv, NEW f \in Flusher, FlushTake(f)
    PROVE  IInv'
<1> USE MoveSingleAssumption
<1>1. /\ pc[f] = "take" /\ qreq # <<>> /\ qreq \in Seq(Req)
      /\ desc' = [desc EXCEPT ![f] = Head(qreq)] /\ qreq' = Tail(qreq)
      /\ UNCHANGED <<free, qissued, qcomp, color, descs, slots, moving, chan, pages, contents, mm>>
    BY DEF FlushTake, IInv, TypeOK
<1>2. Head(qreq) \in Req /\ Tail(qreq) \in Seq(Req)
    BY <1>1, Popped
<1>3. desc' \in [Flusher -> Req \cup {None}] /\ desc'[f] \in Req
      /\ \A g \in Flusher : g # f => desc'[g] = desc[g]
    BY <1>1, <1>2 DEF IInv, TypeOK
<1>4. /\ Active(f) /\ \A g \in Flusher : g # f => ~Active(g)
    BY <1>1, OnlyOne DEF Active, Flushing
<1>5. CASE new[f] # None
    <2>1. new' = new /\ pc' = [pc EXCEPT ![f] = "isolate"]
        BY <1>5 DEF FlushTake, Goto
    <2>2. /\ pc' \in [Flusher -> Labels] /\ pc'[f] = "isolate"
          /\ \A g \in Flusher : g # f => pc'[g] = pc[g]
        BY <2>1 DEF IInv, TypeOK, Labels, FlushLabels
    <2>3. TypeOK'
        BY <1>1, <1>2, <1>3, <2>1, <2>2 DEF IInv, TypeOK, moving, pages, contents, mm
    <2>4. \A g \in Flusher : Active(g)' <=> Active(g)
        BY <1>1, <2>2 DEF Active, Flushing
    <2>5. \A g \in Flusher : new[g] # None => new[g] \in Table /\ new[g] # f /\ new[g] \in Flusher
        BY <1>1, Filled
    <2>6. Chain'
        <3>1. \A g, h \in Flusher : Active(g)' /\ Active(h)' => g = h
            BY <2>4 DEF IInv, Chain
        <3>2. pc'[Usr] \notin TransferLabels \cup {"built", "free"}
            BY <2>2 DEF IInv, Chain, Flusher, TransferLabels
        <3>3. \A t \in Table : pc'[t] \notin {"idle", "kick"}
            BY <2>2 DEF IInv, Chain, Flusher
        <3>4. \A g \in Flusher : pc'[g] \in {"isolate", "issue", "move"} => new[g] \in Table
            BY <1>5, <2>2, <2>5 DEF IInv, Chain
        <3>5. \A g \in Flusher : pc'[g] \in {"isolate", "issue"} => desc'[g] \in Req
            BY <1>3, <2>2 DEF IInv, Chain
        <3>6. \A g \in Flusher : new[g] # None =>
                  pc'[g] \in Flushing \cup BugLabels /\ pc'[new[g]] = "built"
            BY <2>2, <2>5 DEF IInv, Chain, Flushing
        <3>7. \A g, h \in Flusher : new[g] # None /\ new[g] = new[h] => g = h
            BY DEF IInv, Chain
        <3>8. \A t \in Table : pc'[t] = "paint" => new[t] = None
            BY <2>2 DEF IInv, Chain, Flusher
        <3>9. chan' # <<>> => Len(chan') = 1 /\ pc'[chan'[1]] = "dma"
            BY <1>1, <2>2, InChan
        <3> QED BY <2>1, <3>1, <3>2, <3>3, <3>4, <3>5, <3>6, <3>7, <3>8, <3>9 DEF Chain
    <2>7. Colors' /\ ColorsExpected'
        BY <1>1, <2>2, <2>4 DEF IInv, Colors, ColorsExpected, Flusher
    <2>8. Issued'
        BY <1>1, <1>5, <2>1, <2>2 DEF IInv, Issued, Flusher, Flushing, BugLabels, TransferLabels
    <2>9. Tables'
        BY <1>1, <2>2 DEF IInv, Tables, Flusher, moving
    <2>10. Slots'
        BY <1>1, SlotsKept DEF moving, pages
    <2>11. Referenced'
        BY <1>1, <2>2, ReferencedKept DEF Holds, FlushLabels
    <2> QED BY <2>3, <2>6, <2>7, <2>8, <2>9, <2>10, <2>11 DEF IInv
<1>6. CASE new[f] = None
    <2>1. PICK t \in Table : t = Fresh /\ pc[t] = "free"
        BY <1>6 DEF FlushTake, Fresh
    <2>2. new' = [new EXCEPT ![f] = t]
          /\ pc' = [pc EXCEPT ![f] = "isolate", ![t] = "built"]
        BY <1>6, <2>1 DEF FlushTake
    <2>3. t # f /\ t \in Flusher /\ t # None
        BY <1>1, <2>1 DEF Flusher
    <2>4. /\ pc' \in [Flusher -> Labels] /\ pc'[f] = "isolate" /\ pc'[t] = "built"
          /\ \A g \in Flusher : g # f /\ g # t => pc'[g] = pc[g]
        BY <2>2, <2>3 DEF IInv, TypeOK, Labels, FlushLabels
    <2>5. /\ new' \in [Flusher -> Table \cup {None}] /\ new'[f] = t
          /\ \A g \in Flusher : g # f => new'[g] = new[g]
        BY <2>2 DEF IInv, TypeOK
    <2>6. TypeOK'
        BY <1>1, <1>2, <1>3, <2>4, <2>5 DEF IInv, TypeOK, moving, pages, contents, mm
    <2>7. \A g \in Flusher : Active(g)' <=> Active(g)
        BY <1>1, <2>1, <2>4 DEF Active, Flushing, TransferLabels
    <2>8. \A g \in Flusher : new[g] # None => new[g] \in Table /\ new[g] # f /\ new[g] # t
                                             /\ new[g] \in Flusher /\ pc[new[g]] = "built"
        BY <1>1, <2>1, Filled
    <2>9. new[t] = None
        BY <2>1, <2>3 DEF IInv, Chain, Flushing, BugLabels
    <2>10. Chain'
        <3>1. \A g \in Flusher : new'[g] # None =>
                  pc'[g] \in Flushing \cup BugLabels /\ pc'[new'[g]] = "built"
            BY <2>3, <2>4, <2>5, <2>8, <2>9 DEF IInv, Chain, Flushing
        <3>2. \A g, h \in Flusher : new'[g] # None /\ new'[g] = new'[h] => g = h
            BY <2>5, <2>8 DEF IInv, Chain
        <3>3. \A g \in Flusher : pc'[g] \in {"isolate", "issue", "move"} => new'[g] \in Table
            BY <2>4, <2>5 DEF IInv, Chain
        <3>4. \A g \in Flusher : pc'[g] \in {"isolate", "issue"} => desc'[g] \in Req
            BY <1>3, <2>4 DEF IInv, Chain
        <3>5. chan' # <<>> => Len(chan') = 1 /\ pc'[chan'[1]] = "dma"
            BY <1>1, <2>1, <2>4, InChan
        <3>6. \A g, h \in Flusher : Active(g)' /\ Active(h)' => g = h
            BY <2>7 DEF IInv, Chain
        <3>7. pc'[Usr] \notin TransferLabels \cup {"built", "free"}
            BY <1>1, <2>1, <2>4 DEF IInv, Chain, Flusher, TransferLabels
        <3>8. \A s \in Table : pc'[s] \notin {"idle", "kick"}
            BY <2>4 DEF IInv, Chain, Flusher
        <3>9. \A s \in Table : pc'[s] = "paint" => new'[s] = None
            BY <2>4, <2>5 DEF IInv, Chain, Flusher
        <3> QED BY <3>1, <3>2, <3>3, <3>4, <3>5, <3>6, <3>7, <3>8, <3>9 DEF Chain
    <2>11. Colors' /\ ColorsExpected'
        BY <1>1, <2>1, <2>4, <2>7 DEF IInv, Colors, ColorsExpected, Flusher
    <2>12. Issued'
        <3>1. qissued = <<>> /\ descs[t] = <<>>
            BY <1>1, <1>6, <2>1 DEF IInv, Issued, Flushing
        <3>2. \A g \in Flusher : pc'[g] \in Flushing => g = f
            BY <1>4, <2>7 DEF Active
        <3>3. \A s \in Table : pc'[s] \in {"free", "look", "put", "unlock"} \cup Flushing
                               => descs[s] = <<>>
            BY <1>1, <2>4 DEF IInv, Issued, Flushing, Flusher
        <3>4. \A s \in Table : pc'[s] \in TransferLabels => pc[s] \in TransferLabels
            BY <2>4 DEF Flusher, TransferLabels
        <3>5. color = USR /\ pc'[Usr] \notin Flushing \cup BugLabels => qissued = <<>>
            BY <3>1
        <3> QED BY <1>1, <2>3, <2>5, <3>1, <3>2, <3>3, <3>4 DEF IInv, Issued
    <2>13. Tables'
        BY <1>1, <2>1, <2>4 DEF IInv, Tables, Flusher, moving
    <2>14. Slots'
        BY <1>1, SlotsKept DEF moving, pages
    <2>15. Referenced'
        BY <1>1, <2>1, <2>4, ReferencedKept DEF Holds, FlushLabels, TransferLabels
    <2> QED BY <2>6, <2>10, <2>11, <2>12, <2>13, <2>14, <2>15 DEF IInv
<1> QED BY <1>5, <1>6

LEMMA FlushEmptyInv ==
    ASSUME IInv, NEW f \in Flusher, FlushEmpty(f)
    PROVE  IInv'
<1> USE MoveSingleAssumption
<1>1. /\ pc[f] = "take" /\ pc' = [pc EXCEPT ![f] = IF f # Usr /\ new[f] # None THEN "move" ELSE "paint"]
      /\ UNCHANGED <<region, filling, moving, chan, pages, contents, mm>>
    BY DEF FlushEmpty, Goto
<1>2. /\ pc' \in [Flusher -> Labels]
      /\ pc'[f] = IF f # Usr /\ new[f] # None THEN "move" ELSE "paint"
      /\ \A g \in Flusher : g # f => pc'[g] = pc[g]
    BY <1>1 DEF IInv, TypeOK, Labels, FlushLabels
<1>3. TypeOK'
    BY <1>1, <1>2 DEF IInv, TypeOK, region, filling, moving, pages, contents, mm
<1>4. \A g \in Flusher : Active(g)' <=> Active(g)
    BY <1>1, <1>2 DEF Active, Flushing
<1>5. \A g \in Flusher : new[g] # None => new[g] \in Table /\ new[g] # f /\ new[g] \in Flusher
    BY <1>1, Filled
<1>6. new[f] # None => new[f] \in Table
    BY DEF IInv, TypeOK
<1>7. Chain'
    <2>1. \A g \in Flusher : pc'[g] \in {"isolate", "issue", "move"} => new[g] \in Table
        BY <1>2, <1>6 DEF IInv, Chain
    <2>2. chan # <<>> => chan[1] \in Flusher /\ pc[chan[1]] = "dma" /\ Len(chan) = 1
        BY InChan
    <2>3. \A g \in Flusher : new[g] # None =>
                  pc'[g] \in Flushing \cup BugLabels /\ pc'[new[g]] = "built"
        BY <1>2, <1>5 DEF IInv, Chain, Flushing
    <2>4. \A t \in Table : pc'[t] = "paint" => new[t] = None
        BY <1>2 DEF IInv, Chain, Flusher
    <2>5. new' = new /\ desc' = desc /\ chan' = chan
        BY <1>1 DEF filling
    <2>6. \A g, h \in Flusher : Active(g)' /\ Active(h)' => g = h
        BY <1>4 DEF IInv, Chain
    <2>7. pc'[Usr] \notin TransferLabels \cup {"built", "free"}
        BY <1>2 DEF IInv, Chain, Flusher, TransferLabels
    <2>8. \A t \in Table : pc'[t] \notin {"idle", "kick"}
        BY <1>2 DEF IInv, Chain, Flusher
    <2>9. \A g \in Flusher : pc'[g] \in {"isolate", "issue"} => desc[g] \in Req
        BY <1>2 DEF IInv, Chain
    <2>10. \A g, h \in Flusher : new[g] # None /\ new[g] = new[h] => g = h
        BY DEF IInv, Chain
    <2>11. chan # <<>> => Len(chan) = 1 /\ pc'[chan[1]] = "dma"
        BY <1>1, <1>2, <2>2
    <2> QED BY <2>1, <2>3, <2>4, <2>5, <2>6, <2>7, <2>8, <2>9, <2>10, <2>11 DEF Chain
<1>8. Colors' /\ ColorsExpected'
    BY <1>1, <1>2, <1>4 DEF IInv, Colors, ColorsExpected, Flusher, region
<1>9. Issued' /\ Tables'
    BY <1>1, <1>2 DEF IInv, Issued, Tables, Flusher, filling, moving, region, Flushing,
                      TransferLabels, BugLabels
<1>10. Slots'
    BY <1>1, SlotsKept DEF filling, moving, pages
<1>11. Referenced'
    BY <1>1, <1>2, ReferencedKept DEF Holds, FlushLabels
<1> QED BY <1>3, <1>7, <1>8, <1>9, <1>10, <1>11 DEF IInv

\* A flusher goes on to x, and nothing else changes of the chain.
LEMMA Onward ==
    ASSUME IInv, NEW f \in Flusher, NEW x \in Labels,
           pc' = [pc EXCEPT ![f] = x],
           pc[f] \notin {"dma", "built"},
           x \in Flushing \cup TransferLabels => Active(f),
           UNCHANGED <<new, chan>>,
           \A g \in Flusher : g # f => desc'[g] = desc[g],
           x \in {"isolate", "issue", "move"} => new[f] \in Table,
           x \in {"isolate", "issue"} => desc'[f] \in Req,
           new[f] # None => x \in Flushing \cup BugLabels,
           f # Usr => x \notin {"idle", "kick"} /\ (x = "paint" => new[f] = None),
           f = Usr => x \notin TransferLabels \cup {"built", "free"}
    PROVE  /\ Chain' /\ pc' \in [Flusher -> Labels] /\ pc'[f] = x
           /\ \A g \in Flusher : g # f => pc'[g] = pc[g]
           /\ \A g \in Flusher : Active(g)' => Active(g)
<1> USE MoveSingleAssumption
<1>1. /\ pc' \in [Flusher -> Labels] /\ pc'[f] = x
      /\ \A g \in Flusher : g # f => pc'[g] = pc[g]
    BY DEF IInv, TypeOK
<1>2. \A g \in Flusher : Active(g)' => Active(g)
    BY <1>1 DEF Active
<1>3. \A g \in Flusher : new[g] # None => new[g] \in Table /\ new[g] # f /\ new[g] \in Flusher
    BY Filled
<1>4. \A g, h \in Flusher : Active(g)' /\ Active(h)' => g = h
    BY <1>2 DEF IInv, Chain
<1>5. pc'[Usr] \notin TransferLabels \cup {"built", "free"}
    BY <1>1 DEF IInv, Chain, Flusher
<1>6. \A t \in Table : pc'[t] \notin {"idle", "kick"}
    BY <1>1 DEF IInv, Chain, Flusher
<1>7. \A g \in Flusher : pc'[g] \in {"isolate", "issue", "move"} => new'[g] \in Table
    BY <1>1 DEF IInv, Chain
<1>8. \A g \in Flusher : pc'[g] \in {"isolate", "issue"} => desc'[g] \in Req
    BY <1>1 DEF IInv, Chain
<1>9. \A g \in Flusher : new'[g] # None =>
           pc'[g] \in Flushing \cup BugLabels /\ pc'[new'[g]] = "built"
    BY <1>1, <1>3 DEF IInv, Chain
<1>10. \A g, h \in Flusher : new'[g] # None /\ new'[g] = new'[h] => g = h
    BY DEF IInv, Chain
<1>11. \A t \in Table : pc'[t] = "paint" => new'[t] = None
    BY <1>1 DEF IInv, Chain, Flusher
<1>12. chan' # <<>> => Len(chan') = 1 /\ pc'[chan'[1]] = "dma"
    BY <1>1, InChan
<1> QED BY <1>1, <1>2, <1>4, <1>5, <1>6, <1>7, <1>8, <1>9, <1>10, <1>11, <1>12 DEF Chain

\* Appended to a table: its pages, and a slot for each.
LEMMA SlotsGrow ==
    ASSUME IInv, NEW t \in Table, NEW r \in Req,
           list' = [list EXCEPT ![t] = @ \o PagesOf[r]],
           todo' = [todo EXCEPT ![t] = @ \o PagesOf[r]],
           slots' = [slots EXCEPT ![t] = @ \o [i \in DOMAIN PagesOf[r] |-> r]],
           UNCHANGED <<migs, mapped>>
    PROVE  /\ Slots'
           /\ list' \in [Table -> Seq(Page)] /\ todo' \in [Table -> Seq(Page)]
           /\ slots' \in [Table -> Seq(Req)]
<1> DEFINE more == PagesOf[r]
           tags == [i \in DOMAIN more |-> r]
<1>1. more \in Seq(Page) /\ Len(more) \in Nat /\ DOMAIN more = 1 .. Len(more)
    BY MoveSingleAssumption
<1>2. tags \in Seq(Req) /\ Len(tags) = Len(more)
    BY <1>1
<1>3. list[t] \in Seq(Page) /\ todo[t] \in Seq(Page) /\ slots[t] \in Seq(Req) /\ migs[t] \in Seq(Mig)
    BY DEF IInv, TypeOK
<1> HIDE DEF more, tags
<1>4. /\ list[t] \o more \in Seq(Page) /\ todo[t] \o more \in Seq(Page)
      /\ slots[t] \o tags \in Seq(Req)
      /\ Len(slots[t] \o tags) = Len(slots[t]) + Len(more) /\ Len(slots[t]) \in Nat
    <2>1. list[t] \o more \in Seq(Page)
        BY <1>1, <1>3, Joined
    <2>2. todo[t] \o more \in Seq(Page)
        BY <1>1, <1>3, Joined
    <2>3. /\ slots[t] \o tags \in Seq(Req) /\ Len(slots[t]) \in Nat
          /\ Len(slots[t] \o tags) = Len(slots[t]) + Len(tags)
        BY <1>2, <1>3, Joined
    <2> QED BY <1>2, <2>1, <2>2, <2>3
<1>5. /\ list' = [list EXCEPT ![t] = list[t] \o more]
      /\ todo' = [todo EXCEPT ![t] = todo[t] \o more]
      /\ slots' = [slots EXCEPT ![t] = slots[t] \o tags]
    BY DEF more, tags
<1>6. /\ list' \in [Table -> Seq(Page)] /\ todo' \in [Table -> Seq(Page)]
      /\ slots' \in [Table -> Seq(Req)]
    <2>1. ASSUME NEW S, NEW g \in [Table -> S], NEW x \in S
          PROVE  [g EXCEPT ![t] = x] \in [Table -> S]
        OBVIOUS
    <2>2. list \in [Table -> Seq(Page)] /\ todo \in [Table -> Seq(Page)]
        BY DEF IInv, TypeOK
    <2>3. slots \in [Table -> Seq(Req)]
        BY DEF IInv, TypeOK
    <2>4. [list EXCEPT ![t] = list[t] \o more] \in [Table -> Seq(Page)]
        BY <1>4, <2>1, <2>2, Zenon
    <2>5. [todo EXCEPT ![t] = todo[t] \o more] \in [Table -> Seq(Page)]
        BY <1>4, <2>1, <2>2, Zenon
    <2>6. [slots EXCEPT ![t] = slots[t] \o tags] \in [Table -> Seq(Req)]
        BY <1>4, <2>1, <2>3, Zenon
    <2> QED BY <1>5, <2>4, <2>5, <2>6, Zenon
<1>7. Elems(list[t] \o more) \subseteq Elems(list[t]) \cup Elems(more)
      /\ Elems(todo[t] \o more) \subseteq Elems(todo[t]) \cup Elems(more)
    <2>1. ASSUME NEW s \in Seq(Page)
          PROVE  Elems(s \o more) \subseteq Elems(s) \cup Elems(more)
        <3>1. /\ Len(s) \in Nat /\ DOMAIN s = 1 .. Len(s) /\ DOMAIN (s \o more) = 1 .. Len(s) + Len(more)
              /\ \A i \in 1 .. Len(s) : (s \o more)[i] = s[i]
              /\ \A i \in 1 .. Len(s) + Len(more) : i > Len(s) => (s \o more)[i] = more[i - Len(s)]
            BY <1>1
        <3>2. \A i \in DOMAIN (s \o more) : i \in DOMAIN s \/ i - Len(s) \in DOMAIN more
            BY <1>1, <3>1
        <3>3. \A i \in DOMAIN (s \o more) : (s \o more)[i] \in Elems(s) \cup Elems(more)
            BY <1>1, <3>1, <3>2 DEF Elems
        <3> QED BY <3>3 DEF Elems
    <2> QED BY <1>3, <2>1
<1>8. \A s \in Table : MigPages(s)' = MigPages(s)
    BY DEF MigPages
<1>9. ASSUME NEW s \in Table
      PROVE  Cardinality(MigPages(s)' \cup Elems(list'[s]) \cup Elems(todo'[s])) <= Len(slots'[s])
    <2>1. CASE s # t
        <3>1. list'[s] = list[s] /\ todo'[s] = todo[s] /\ slots'[s] = slots[s]
            BY <1>5, <2>1 DEF IInv, TypeOK
        <3>2. MigPages(s)' \cup Elems(list'[s]) \cup Elems(todo'[s])
              = MigPages(s) \cup Elems(list[s]) \cup Elems(todo[s])
            BY <1>8, <3>1
        <3> QED BY <3>1, <3>2 DEF IInv, Slots
    <2>2. CASE s = t
        <3> DEFINE A == MigPages(t) \cup Elems(list[t]) \cup Elems(todo[t])
                   B == MigPages(t)' \cup Elems(list'[t]) \cup Elems(todo'[t])
        <3>1. list'[t] = list[t] \o more /\ todo'[t] = todo[t] \o more /\ slots'[t] = slots[t] \o tags
            BY <1>5 DEF IInv, TypeOK
        <3>2. B \subseteq A \cup Elems(more)
            BY <1>7, <1>8, <3>1
        <3>3. IsFiniteSet(A) /\ IsFiniteSet(Elems(more)) /\ Cardinality(Elems(more)) <= Len(more)
            <4>1. IsFiniteSet(MigPages(t))
                BY <1>3, DistinctCard DEF IInv, Slots, MigPages
            <4> QED BY <1>1, <1>3, <4>1, ElemsCard, FS_Union
        <3>4. Cardinality(A) <= Len(slots[t])
            BY DEF IInv, Slots
        <3> HIDE DEF A, B
        <3>5. /\ IsFiniteSet(A \cup Elems(more))
              /\ Cardinality(A \cup Elems(more)) <= Cardinality(A) + Cardinality(Elems(more))
            <4>1. /\ IsFiniteSet(A \cup Elems(more)) /\ IsFiniteSet(A \cap Elems(more))
                  /\ Cardinality(A \cup Elems(more)) =
                         Cardinality(A) + Cardinality(Elems(more)) - Cardinality(A \cap Elems(more))
                BY <3>3, FS_Union, FS_Subset
            <4>2. Cardinality(A \cap Elems(more)) \in Nat /\ Cardinality(A) \in Nat
                  /\ Cardinality(Elems(more)) \in Nat
                BY <3>3, <4>1, FS_CardinalityType
            <4> QED BY <4>1, <4>2
        <3>6. IsFiniteSet(B) /\ Cardinality(B) <= Cardinality(A \cup Elems(more))
            BY <3>2, <3>5, FS_Subset
        <3>7. /\ Cardinality(A) \in Nat /\ Cardinality(B) \in Nat
              /\ Cardinality(Elems(more)) \in Nat /\ Cardinality(A \cup Elems(more)) \in Nat
            BY <3>3, <3>5, <3>6, FS_CardinalityType
        <3>8. Cardinality(B) <= Len(slots[t]) + Len(more)
            BY <1>1, <1>4, <3>3, <3>4, <3>5, <3>6, <3>7
        <3> QED BY <1>4, <2>2, <3>1, <3>8 DEF B
    <2> QED BY <2>1, <2>2
<1>10. Slots'
    BY <1>8, <1>9 DEF IInv, Slots
<1> QED BY <1>6, <1>10

LEMMA FlushIsolateInv ==
    ASSUME IInv, NEW f \in Flusher, FlushIsolate(f)
    PROVE  IInv'
<1> USE MoveSingleAssumption
<1> DEFINE t == new[f]
           r == desc[f]
<1>1. /\ pc[f] = "isolate" /\ t \in Table /\ r \in Req /\ pc[t] = "built" /\ t # None
      /\ UNCHANGED <<region, desc, new, descs, migs, pass, retry, gone, chan,
                     node, other, mapped, locked, contents, mm>>
    BY Filled DEF FlushIsolate, IInv, Chain
<1>2. Active(f) /\ \A g \in Flusher : g # f => ~Active(g)
    BY <1>1, OnlyOne DEF Active, Flushing
<1>3. PICK x \in {"bug_page", "bug_sg", "issue"} :
          /\ pc' = [pc EXCEPT ![f] = x]
          /\ x # "issue" => UNCHANGED <<slots, list, todo, where>>
          /\ x = "issue" =>
                 /\ list' = [list EXCEPT ![t] = @ \o PagesOf[r]]
                 /\ todo' = [todo EXCEPT ![t] = @ \o PagesOf[r]]
                 /\ slots' = [slots EXCEPT ![t] = @ \o [i \in DOMAIN PagesOf[r] |-> r]]
                 /\ where' = [p \in Page |-> IF p \in Elems(PagesOf[r]) THEN "isolated" ELSE where[p]]
    BY DEF FlushIsolate, Goto
<1>4. x \in Labels /\ x \in Flushing \cup BugLabels
      /\ x \notin {"idle", "kick", "paint", "built", "free", "bug_color", "bug_desc", "move", "isolate"}
      /\ x \notin TransferLabels
    BY DEF Labels, Flushing, BugLabels, FlushLabels, TransferLabels
<1>5. /\ Chain' /\ pc' \in [Flusher -> Labels] /\ pc'[f] = x
      /\ \A g \in Flusher : g # f => pc'[g] = pc[g]
      /\ \A g \in Flusher : Active(g)' => Active(g)
    BY <1>1, <1>2, <1>3, <1>4, Onward
<1> HIDE DEF t, r
<1>6. /\ Slots'
      /\ list' \in [Table -> Seq(Page)] /\ todo' \in [Table -> Seq(Page)]
      /\ slots' \in [Table -> Seq(Req)]
    <2>1. CASE x = "issue"
        BY <1>1, <1>3, <2>1, SlotsGrow
    <2>2. CASE x # "issue"
        BY <1>1, <1>3, <2>2, SlotsKept DEF IInv, TypeOK
    <2> QED BY <2>1, <2>2
<1>7. where' \in [Page -> {"lru", "pagevec", "isolated"}]
    <2>1. where \in [Page -> {"lru", "pagevec", "isolated"}]
        BY DEF IInv, TypeOK
    <2>2. CASE x = "issue"
        BY <1>3, <2>1, <2>2
    <2>3. CASE x # "issue"
        BY <1>3, <2>1, <2>3
    <2> QED BY <2>2, <2>3
<1>8. TypeOK'
    BY <1>1, <1>5, <1>6, <1>7 DEF IInv, TypeOK, region, contents, mm
<1>9. Colors' /\ ColorsExpected'
    BY <1>1, <1>4, <1>5 DEF IInv, Colors, ColorsExpected, Flusher, region
<1>10. Issued'
    BY <1>1, <1>4, <1>5 DEF IInv, Issued, Flusher, region, Flushing, TransferLabels, BugLabels
<1>11. Tables'
    <2>1. \A s \in Table : todo'[s] # <<>> => s = t \/ todo[s] # <<>>
        BY <1>3 DEF IInv, TypeOK
    <2>2. \A s \in Table : pc[s] = "built" => pc'[s] = "built"
        BY <1>1, <1>5 DEF Flusher
    <2>3. \A s \in Table : pc[s] \in {"built", "dma", "callback", "remap"} => pc'[s] = pc[s]
        BY <1>1, <1>5 DEF Flusher
    <2> QED BY <1>1, <2>1, <2>2, <2>3 DEF IInv, Tables
<1>12. Referenced'
    BY <1>1, <1>4, <1>5, ReferencedKept DEF Holds, FlushLabels
<1> QED BY <1>5, <1>6, <1>8, <1>9, <1>10, <1>11, <1>12 DEF IInv

LEMMA FlushIssueInv ==
    ASSUME IInv, NEW f \in Flusher, FlushIssue(f)
    PROVE  IInv'
<1> USE MoveSingleAssumption
<1>1. /\ pc[f] = "issue" /\ new[f] \in Table /\ desc[f] \in Req /\ pc[new[f]] = "built"
      /\ new[f] # None
      /\ pc' = [pc EXCEPT ![f] = "take"] /\ desc' = [desc EXCEPT ![f] = None]
      /\ UNCHANGED <<free, qreq, qcomp, color, new, slots, moving, chan, pages, contents, mm>>
    BY Filled DEF FlushIssue, Goto, IInv, Chain
<1>2. PICK t \in Table : t = new[f]
    BY <1>1
<1>3. PICK r \in Req : r = desc[f]
    BY <1>1
<1>4. qissued' = Append(qissued, r) /\ descs' = [descs EXCEPT ![t] = Append(@, r)]
    BY <1>2, <1>3 DEF FlushIssue
<1>5. Active(f) /\ \A g \in Flusher : g # f => ~Active(g)
    BY <1>1, OnlyOne DEF Active, Flushing
<1>6. qissued' \in Seq(Req) /\ Append(descs[t], r) \in Seq(Req)
    BY <1>4 DEF IInv, TypeOK
<1>7. /\ Chain' /\ pc' \in [Flusher -> Labels] /\ pc'[f] = "take"
      /\ \A g \in Flusher : g # f => pc'[g] = pc[g]
      /\ \A g \in Flusher : Active(g)' => Active(g)
    <2>1. "take" \in Labels /\ "take" \in Flushing
        BY DEF Labels, FlushLabels, Flushing
    <2>2. \A g \in Flusher : g # f => desc'[g] = desc[g]
        BY <1>1 DEF IInv, TypeOK
    <2> QED BY <1>1, <1>5, <2>1, <2>2, Onward DEF TransferLabels
<1>8. TypeOK'
    <2>1. desc' \in [Flusher -> Req \cup {None}]
        BY <1>1 DEF IInv, TypeOK
    <2>2. descs' \in [Table -> Seq(Req)]
        BY <1>4, <1>6 DEF IInv, TypeOK
    <2> QED BY <1>1, <1>6, <1>7, <2>1, <2>2 DEF IInv, TypeOK, moving, pages, contents, mm
<1>9. Colors' /\ ColorsExpected'
    BY <1>1, <1>7 DEF IInv, Colors, ColorsExpected, Flusher
<1>10. Issued'
    <2>1. qissued = descs[t]
        BY <1>1, <1>2 DEF IInv, Issued, Flushing
    <2>2. descs'[t] = qissued' /\ \A s \in Table : s # t => descs'[s] = descs[s]
        BY <1>4, <2>1 DEF IInv, TypeOK
    <2>3. \A g \in Flusher : pc'[g] \in Flushing \cup TransferLabels => g = f
        BY <1>5, <1>7 DEF Active
    <2>4. pc'[t] = "built" /\ new'[f] = t /\ t # f /\ t \in Flusher
        BY <1>1, <1>2, <1>7 DEF Flusher
    <2>5. color = USR => pc'[Usr] \in Flushing
        <3>1. f # Usr => color = KER
            BY <1>5, OnlyOne
        <3> QED BY <1>7, <3>1 DEF USR, KER, Flushing
    <2>6. \A s \in Table : pc'[s] \in TransferLabels => FALSE
        BY <1>7, <2>3 DEF Flusher, TransferLabels
    <2>7. \A s \in Table : pc'[s] \in {"free", "look", "put", "unlock"} \cup Flushing => descs'[s] = <<>>
        <3>1. \A s \in Table : pc'[s] \in {"free", "look", "put", "unlock"} \cup Flushing
                   => s # t /\ pc[s] \in {"free", "look", "put", "unlock"} \cup Flushing
            BY <1>1, <1>7, <2>4 DEF Flusher, Flushing
        <3> QED BY <2>2, <3>1 DEF IInv, Issued
    <2>8. \A g \in Flusher : pc'[g] \in Flushing => new'[g] = t /\ t # None /\ qissued' = descs'[t]
        BY <1>1, <2>2, <2>3, <2>4
    <2>9. \A g \in Flusher : pc'[g] \in Flushing /\ new'[g] # None => qissued' = descs'[new'[g]]
        BY <2>8
    <2>10. \A g \in Flusher : pc'[g] \in Flushing /\ new'[g] = None => qissued' = <<>>
        BY <2>8
    <2> QED BY <1>1, <2>5, <2>6, <2>7, <2>9, <2>10 DEF Issued
<1>11. Tables'
    BY <1>1, <1>7 DEF IInv, Tables, Flusher, moving
<1>12. Slots'
    BY <1>1, SlotsKept DEF moving, pages
<1>13. Referenced'
    BY <1>1, <1>7, ReferencedKept DEF Holds, FlushLabels
<1> QED BY <1>7, <1>8, <1>9, <1>10, <1>11, <1>12, <1>13 DEF IInv

\* The queue has the colour that is expected, and no table is being filled or
\* completed when it goes back to the user.
LEMMA FlushPaintInv ==
    ASSUME IInv, NEW f \in Flusher, FlushPaint(f)
    PROVE  IInv'
<1> USE MoveSingleAssumption
<1>1. /\ pc[f] = "paint"
      /\ color' = IF qreq = <<>> THEN NewColor(f) ELSE color
      /\ UNCHANGED <<free, qreq, qissued, qcomp, filling, moving, chan, pages, contents, mm>>
    BY DEF FlushPaint
<1>2. Active(f) /\ (\A g \in Flusher : g # f => ~Active(g)) /\ (f # Usr => color = KER)
    BY <1>1, OnlyOne DEF Active, Flushing
<1>3. color = OldColor(f) /\ (f # Usr => new[f] = None)
    BY <1>1, <1>2 DEF IInv, Colors, Chain, Flusher, OldColor
<1>4. PICK x \in {"take", "put", "move"} :
          /\ pc' = [pc EXCEPT ![f] = x]
          /\ x = "take" => color' = color
          /\ x # "take" => color' = NewColor(f)
          /\ x = "move" <=> qreq = <<>> /\ new[f] # None
          /\ x = "put" => new[f] = None
    <2>1. CASE qreq # <<>>
        BY <1>1, <2>1 DEF FlushPaint, Goto
    <2>2. CASE qreq = <<>> /\ new[f] = None
        BY <1>1, <1>3, <2>2 DEF FlushPaint, Goto
    <2>3. CASE qreq = <<>> /\ new[f] # None
        BY <1>1, <1>3, <2>3 DEF FlushPaint, Goto
    <2> QED BY <2>1, <2>2, <2>3
<1>5. x \in Labels /\ (x # "put" => x \in Flushing) /\ (x = "put" => x \notin Flushing)
      /\ x \notin {"isolate", "issue", "paint", "idle", "kick", "built", "free", "bug_color", "bug_desc"}
      /\ x \notin TransferLabels \cup BugLabels
    BY DEF Labels, Flushing, FlushLabels, TransferLabels, BugLabels
<1>6. new[f] # None => new[f] \in Table
    BY DEF IInv, TypeOK
<1>7. /\ Chain' /\ pc' \in [Flusher -> Labels] /\ pc'[f] = x
      /\ \A g \in Flusher : g # f => pc'[g] = pc[g]
      /\ \A g \in Flusher : Active(g)' => Active(g)
    BY <1>1, <1>2, <1>4, <1>5, <1>6, Onward DEF filling
<1>8. TypeOK'
    <2>1. color' \in {USR, KER}
        BY <1>1 DEF NewColor, IInv, TypeOK
    <2> QED BY <1>1, <1>7, <2>1 DEF IInv, TypeOK, filling, moving, pages, contents, mm
<1>9. \A g \in Flusher : Active(g)' => g = f
    BY <1>2, <1>7
<1>10. Colors' /\ ColorsExpected'
    <2>1. \A t \in Table : Active(t)' => t = f /\ x = "take" /\ color' = KER
        BY <1>2, <1>3, <1>4, <1>7, <1>9 DEF Active, Flushing, TransferLabels, Flusher
    <2>2. pc'[Usr] \in {"kick", "take", "isolate", "issue", "paint"} => color' = USR
        <3>1. CASE f = Usr
            BY <1>3, <1>4, <1>5, <1>7, <3>1 DEF OldColor
        <3>2. CASE f # Usr
            BY <1>2, <1>7, <3>2 DEF IInv, Colors, Flusher, USR, KER
        <3> QED BY <3>1, <3>2
    <2>3. pc'[Usr] = "move" => color' = KER
        <3>1. CASE f = Usr
            BY <1>4, <1>7, <3>1 DEF NewColor
        <3>2. CASE f # Usr
            BY <1>7, <1>9, <3>2 DEF Active, Flushing, Flusher
        <3> QED BY <3>1, <3>2
    <2>4. ColorsExpected'
        BY <1>5, <1>7 DEF IInv, ColorsExpected
    <2> QED BY <2>1, <2>2, <2>3, <2>4 DEF Colors
<1>11. Issued'
    <2>1. new' = new /\ qissued' = qissued /\ descs' = descs
        BY <1>1 DEF filling
    <2>2. new[f] = None => qissued = <<>>
        BY <1>1 DEF IInv, Issued, Flushing
    <2>3. new[f] # None => qissued = descs[new[f]]
        BY <1>1 DEF IInv, Issued, Flushing
    <2>4. \A g \in Flusher : pc'[g] \in Flushing => g = f
        BY <1>9 DEF Active
    <2>5. \A s \in Table : pc'[s] \notin TransferLabels
        BY <1>5, <1>7, <1>9 DEF Active, Flusher
    <2>6. color' = USR /\ pc'[Usr] \notin Flushing \cup BugLabels => qissued = <<>>
        <3>1. CASE f = Usr
            BY <1>4, <1>5, <1>7, <2>2, <3>1 DEF NewColor, Flusher
        <3>2. CASE f # Usr
            BY <1>3, <2>2, <3>2
        <3> QED BY <3>1, <3>2
    <2>7. \A s \in Table : pc'[s] \in {"free", "look", "put", "unlock"} \cup Flushing => descs[s] = <<>>
        BY <1>1, <1>7 DEF IInv, Issued, Flusher, Flushing
    <2> QED BY <2>1, <2>2, <2>3, <2>4, <2>5, <2>6, <2>7 DEF Issued
<1>12. Tables'
    BY <1>1, <1>7 DEF IInv, Tables, Flusher, moving
<1>13. Slots'
    BY <1>1, SlotsKept DEF filling, moving, pages
<1>14. Referenced'
    BY <1>1, <1>5, <1>7, ReferencedKept DEF Holds, FlushLabels
<1> QED BY <1>7, <1>8, <1>10, <1>11, <1>12, <1>13, <1>14 DEF IInv

LEMMA FlushPutInv ==
    ASSUME IInv, NEW f \in Flusher, FlushPut(f)
    PROVE  IInv'
<1> USE MoveSingleAssumption
<1>1. /\ pc[f] = "put" /\ mmUsers' = mmUsers - 1 /\ pc' = [pc EXCEPT ![f] = "unlock"]
      /\ UNCHANGED <<region, filling, moving, chan, pages, contents, alive>>
    BY DEF FlushPut, Goto
<1>2. "unlock" \in Labels /\ "unlock" \notin Flushing \cup TransferLabels \cup BugLabels \cup FlushLabels
    BY DEF Labels, Flushing, TransferLabels, BugLabels, FlushLabels
<1>3. new[f] = None
    BY <1>1, Filled DEF Flushing, BugLabels
<1>4. /\ Chain' /\ pc' \in [Flusher -> Labels] /\ pc'[f] = "unlock"
      /\ \A g \in Flusher : g # f => pc'[g] = pc[g]
      /\ \A g \in Flusher : Active(g)' => Active(g)
    BY <1>1, <1>2, <1>3, Onward DEF filling
<1>5. f \in Holders /\ Holders' = Holders \ {f}
    BY <1>1, <1>2, <1>4 DEF Holders, Holds, FlushLabels
<1>6. Cardinality(Holders') = Cardinality(Holders) - 1
    BY <1>5, HoldersFinite, FS_RemoveElement
<1>7. mmUsers \in Nat /\ mmUsers >= One(alive) + Cardinality(Holders) /\ One(alive) \in Nat
    BY DEF IInv, TypeOK, Referenced, One
<1>8. mmUsers' \in Nat /\ mmUsers' >= One(alive) + Cardinality(Holders')
    BY <1>1, <1>6, <1>7, HoldersFinite
<1>9. TypeOK'
    BY <1>1, <1>4, <1>8 DEF IInv, TypeOK, region, filling, moving, pages, contents
<1>10. Referenced'
    BY <1>1, <1>8 DEF Referenced, One
<1>11. Colors' /\ ColorsExpected'
    BY <1>1, <1>4 DEF IInv, Colors, ColorsExpected, Flusher, region
<1>12. Issued' /\ Tables'
    BY <1>1, <1>2, <1>3, <1>4 DEF IInv, Issued, Tables, Flusher, filling, moving, region, Flushing, BugLabels
<1>13. Slots'
    BY <1>1, SlotsKept DEF filling, moving, pages
<1> QED BY <1>4, <1>9, <1>10, <1>11, <1>12, <1>13 DEF IInv

\* A table that is freed has nothing left in it.
LEMMA Cleared ==
    ASSUME IInv, NEW t \in Table, migs[t] = <<>>, todo[t] = <<>>, ClearTable(t),
           UNCHANGED <<migs, todo, mapped>>
    PROVE  /\ Slots'
           /\ list' \in [Table -> Seq(Page)] /\ slots' \in [Table -> Seq(Req)]
<1>1. <<>> \in Seq(Page) /\ <<>> \in Seq(Req) /\ Len(<<>>) = 0
    OBVIOUS
<1>2. /\ list' \in [Table -> Seq(Page)] /\ list'[t] = <<>>
      /\ \A s \in Table : s # t => list'[s] = list[s]
    BY <1>1 DEF ClearTable, IInv, TypeOK
<1>3. /\ slots' \in [Table -> Seq(Req)] /\ slots'[t] = <<>>
      /\ \A s \in Table : s # t => slots'[s] = slots[s]
    BY <1>1 DEF ClearTable, IInv, TypeOK
<1>4. \A s \in Table : MigPages(s)' = MigPages(s)
    BY DEF MigPages
<1>5. ASSUME NEW s \in Table
      PROVE  Cardinality(MigPages(s)' \cup Elems(list'[s]) \cup Elems(todo'[s])) <= Len(slots'[s])
    <2>1. CASE s # t
        <3>1. MigPages(s)' \cup Elems(list'[s]) \cup Elems(todo'[s])
              = MigPages(s) \cup Elems(list[s]) \cup Elems(todo[s])
            BY <1>2, <1>4, <2>1
        <3> QED BY <1>3, <2>1, <3>1 DEF IInv, Slots
    <2>2. CASE s = t
        <3>1. MigPages(s)' \cup Elems(list'[s]) \cup Elems(todo'[s]) = {}
            BY <1>2, <2>2 DEF MigPages, Elems
        <3>2. Cardinality(MigPages(s)' \cup Elems(list'[s]) \cup Elems(todo'[s])) = 0
            BY <3>1, FS_EmptySet, Zenon
        <3> QED BY <1>1, <1>3, <2>2, <3>2
    <2> QED BY <2>1, <2>2
<1>6. Slots'
    BY <1>4, <1>5 DEF IInv, Slots
<1> QED BY <1>2, <1>3, <1>6

LEMMA FlushUnlockInv ==
    ASSUME IInv, NEW f \in Flusher, FlushUnlock(f)
    PROVE  IInv'
<1> USE MoveSingleAssumption
<1> DEFINE x == IF f = Usr THEN "idle" ELSE "free"
<1>1. /\ pc[f] = "unlock" /\ pc' = [pc EXCEPT ![f] = x]
      /\ f = Usr => UNCHANGED <<slots, list>>
      /\ f # Usr => ClearTable(f)
      /\ UNCHANGED <<region, desc, new, descs, todo, migs, pass, retry, gone, chan, pages, contents, mm>>
    BY DEF FlushUnlock, Goto
<1>2. x \in Labels /\ x \notin Flushing \cup TransferLabels \cup BugLabels \cup FlushLabels
      /\ x \notin {"kick", "paint", "built"}
    BY DEF Labels, Flushing, TransferLabels, BugLabels, FlushLabels
<1>3. new[f] = None
    BY <1>1, Filled DEF Flushing, BugLabels
<1>4. /\ Chain' /\ pc' \in [Flusher -> Labels] /\ pc'[f] = x
      /\ \A g \in Flusher : g # f => pc'[g] = pc[g]
      /\ \A g \in Flusher : Active(g)' => Active(g)
    BY <1>1, <1>2, <1>3, Onward
<1>5. Slots' /\ list' \in [Table -> Seq(Page)] /\ slots' \in [Table -> Seq(Req)]
    <2>1. CASE f = Usr
        BY <1>1, <2>1, SlotsKept DEF IInv, TypeOK, pages
    <2>2. CASE f # Usr
        <3>1. f \in Table /\ migs[f] = <<>> /\ todo[f] = <<>>
            BY <1>1, <2>2 DEF Flusher, IInv, Tables
        <3> QED BY <1>1, <2>2, <3>1, Cleared DEF pages
    <2> QED BY <2>1, <2>2
<1>6. TypeOK'
    BY <1>1, <1>4, <1>5 DEF IInv, TypeOK, region, pages, contents, mm
<1>7. Colors' /\ ColorsExpected'
    BY <1>1, <1>2, <1>4 DEF IInv, Colors, ColorsExpected, Flusher, region, BugLabels
<1>8. Issued'
    BY <1>1, <1>2, <1>4 DEF IInv, Issued, Flusher, region, Flushing, TransferLabels, BugLabels
<1>9. Tables'
    BY <1>1, <1>4 DEF IInv, Tables, Flusher
<1>10. Referenced'
    BY <1>1, <1>2, <1>4, ReferencedKept DEF Holds
<1> QED BY <1>4, <1>5, <1>6, <1>7, <1>8, <1>9, <1>10 DEF IInv

-----------------------------------------------------------------------------
(***************************************************************************)
(* migrate_pages_ks2.                                                      *)
(***************************************************************************)
\* The pages a table has slots for, once again or fewer of them.
LEMMA ColumnShrinks ==
    ASSUME IInv, NEW t \in Table,
           MigPages(t)' \cup Elems(list'[t]) \cup Elems(todo'[t])
               \subseteq MigPages(t) \cup Elems(list[t]) \cup Elems(todo[t]),
           slots'[t] = slots[t]
    PROVE  Cardinality(MigPages(t)' \cup Elems(list'[t]) \cup Elems(todo'[t])) <= Len(slots'[t])
<1> DEFINE A == MigPages(t) \cup Elems(list[t]) \cup Elems(todo[t])
           B == MigPages(t)' \cup Elems(list'[t]) \cup Elems(todo'[t])
<1>1. migs[t] \in Seq(Mig) /\ list[t] \in Seq(Page) /\ todo[t] \in Seq(Page) /\ slots[t] \in Seq(Req)
    BY DEF IInv, TypeOK
<1>2. IsFiniteSet(MigPages(t))
    BY <1>1, DistinctCard DEF IInv, Slots, MigPages
<1>3. IsFiniteSet(A)
    BY <1>1, <1>2, ElemsCard, FS_Union
<1>4. Cardinality(A) <= Len(slots[t])
    BY DEF IInv, Slots
<1>5. B \subseteq A
    OBVIOUS
<1> HIDE DEF A, B
<1>6. IsFiniteSet(B) /\ Cardinality(B) <= Cardinality(A)
    BY <1>3, <1>5, FS_Subset
<1>7. Cardinality(A) \in Nat /\ Cardinality(B) \in Nat /\ Len(slots[t]) \in Nat
    BY <1>1, <1>3, <1>6, FS_CardinalityType
<1>8. Cardinality(B) <= Len(slots[t])
    BY <1>4, <1>6, <1>7
<1> QED BY <1>8 DEF B

\* The chain stays where it is.
LEMMA MoveKept ==
    ASSUME IInv, UNCHANGED <<region, pc, filling, chan, mm>>
    PROVE  Chain' /\ Colors' /\ ColorsExpected' /\ Issued' /\ Referenced'
<1> USE DEF filling, region
<1>1. \A f \in Flusher : Active(f)' <=> Active(f)
    BY DEF Active
<1>2. Chain' /\ Colors' /\ ColorsExpected'
    BY <1>1 DEF IInv, Chain, Colors, ColorsExpected, Flusher
<1>3. Issued'
    BY DEF IInv, Issued
<1> QED BY <1>2, <1>3, ReferencedKept DEF Holds

\* The table that migrate_pages_ks2 works on.
LEMMA Moving ==
    ASSUME IInv, NEW f \in Flusher, pc[f] = "move"
    PROVE  /\ new[f] \in Table /\ new[f] # None /\ new[f] \in Flusher /\ pc[new[f]] = "built"
           /\ todo[new[f]] \in Seq(Page) /\ list[new[f]] \in Seq(Page)
           /\ migs[new[f]] \in Seq(Mig) /\ slots[new[f]] \in Seq(Req)
<1>1. new[f] \in Table /\ new[f] # None
    BY MoveSingleAssumption DEF IInv, Chain
<1> QED BY <1>1, Filled DEF IInv, TypeOK

LEMMA PageGoneInv ==
    ASSUME IInv, NEW f \in Flusher, PageGone(f)
    PROVE  IInv'
<1>1. pc[f] = "move" /\ todo[new[f]] # <<>>
    BY DEF PageGone
<1>2. PICK t \in Table : t = new[f]
    BY <1>1, Moving
<1>3. /\ pc[t] = "built" /\ todo[t] \in Seq(Page) /\ list[t] \in Seq(Page)
    BY <1>1, <1>2, Moving
<1>4. PICK p \in Page : p = Head(todo[t])
    BY <1>1, <1>2, <1>3, Popped
<1>5. /\ list' = [list EXCEPT ![t] = Without(@, p)]
      /\ where' = [where EXCEPT ![p] = "pagevec"]
      /\ gone' = [gone EXCEPT ![t] = TRUE]
      /\ todo' = [todo EXCEPT ![t] = Tail(@)]
      /\ UNCHANGED <<region, pc, filling, migs, pass, retry, chan, node, other, mapped,
                     locked, contents, mm>>
    BY <1>2, <1>4 DEF PageGone
<1>6. Without(list[t], p) \in Seq(Page) /\ Elems(Without(list[t], p)) \subseteq Elems(list[t])
    BY <1>3, WithoutOne
<1>7. Tail(todo[t]) \in Seq(Page) /\ Elems(Tail(todo[t])) \subseteq Elems(todo[t])
    BY <1>1, <1>2, <1>3, Popped DEF Elems
<1>8. /\ list' \in [Table -> Seq(Page)] /\ todo' \in [Table -> Seq(Page)]
      /\ where' \in [Page -> {"lru", "pagevec", "isolated"}] /\ gone' \in [Table -> BOOLEAN]
    <2>1. list' \in [Table -> Seq(Page)]
        BY <1>5, <1>6 DEF IInv, TypeOK
    <2>2. todo' \in [Table -> Seq(Page)]
        BY <1>5, <1>7 DEF IInv, TypeOK
    <2>3. where' \in [Page -> {"lru", "pagevec", "isolated"}] /\ gone' \in [Table -> BOOLEAN]
        BY <1>5 DEF IInv, TypeOK
    <2> QED BY <2>1, <2>2, <2>3
<1>9. TypeOK'
    BY <1>5, <1>8 DEF IInv, TypeOK, region, filling, contents, mm
<1>10. Tables'
    BY <1>3, <1>5 DEF IInv, Tables
<1>11. Slots'
    <2>1. \A s \in Table : Elems(list'[s]) \subseteq Elems(list[s])
        BY <1>5, <1>6 DEF IInv, TypeOK
    <2>2. \A s \in Table : Elems(todo'[s]) \subseteq Elems(todo[s])
        BY <1>5, <1>7 DEF IInv, TypeOK
    <2>3. \A s \in Table : MigPages(s)' = MigPages(s)
        BY <1>5 DEF MigPages
    <2>4. \A s \in Table :
              Cardinality(MigPages(s)' \cup Elems(list'[s]) \cup Elems(todo'[s])) <= Len(slots'[s])
        <3> SUFFICES ASSUME NEW s \in Table
                     PROVE  Cardinality(MigPages(s)' \cup Elems(list'[s]) \cup Elems(todo'[s]))
                                <= Len(slots'[s])
            OBVIOUS
        <3>1. MigPages(s)' \cup Elems(list'[s]) \cup Elems(todo'[s])
                  \subseteq MigPages(s) \cup Elems(list[s]) \cup Elems(todo[s])
            BY <2>1, <2>2, <2>3
        <3>2. slots'[s] = slots[s]
            BY <1>5 DEF filling
        <3> QED BY <3>1, <3>2, ColumnShrinks
    <2> QED BY <1>5, <2>3, <2>4 DEF IInv, Slots
<1> QED BY <1>5, <1>9, <1>10, <1>11, MoveKept DEF IInv

LEMMA TryAgainInv ==
    ASSUME IInv, NEW f \in Flusher, TryAgain(f)
    PROVE  IInv'
<1>1. pc[f] = "move" /\ todo[new[f]] # <<>>
    BY DEF TryAgain
<1>2. PICK t \in Table : t = new[f]
    BY <1>1, Moving
<1>3. /\ pc[t] = "built" /\ todo[t] \in Seq(Page)
    BY <1>1, <1>2, Moving
<1>4. /\ retry' = [retry EXCEPT ![t] = TRUE]
      /\ todo' = [todo EXCEPT ![t] = Tail(@)]
      /\ UNCHANGED <<region, pc, filling, list, migs, pass, gone, chan, pages, contents, mm>>
    BY <1>2 DEF TryAgain
<1>5. Tail(todo[t]) \in Seq(Page) /\ Elems(Tail(todo[t])) \subseteq Elems(todo[t])
    BY <1>1, <1>2, <1>3, Popped DEF Elems
<1>6. todo' \in [Table -> Seq(Page)] /\ retry' \in [Table -> BOOLEAN]
    BY <1>4, <1>5 DEF IInv, TypeOK
<1>7. TypeOK'
    BY <1>4, <1>6 DEF IInv, TypeOK, region, filling, pages, contents, mm
<1>8. Tables'
    BY <1>3, <1>4 DEF IInv, Tables
<1>9. Slots'
    <2>1. \A s \in Table : Elems(todo'[s]) \subseteq Elems(todo[s])
        BY <1>4, <1>5 DEF IInv, TypeOK
    <2>2. \A s \in Table : MigPages(s)' = MigPages(s)
        BY <1>4 DEF MigPages
    <2>3. \A s \in Table :
              Cardinality(MigPages(s)' \cup Elems(list'[s]) \cup Elems(todo'[s])) <= Len(slots'[s])
        <3> SUFFICES ASSUME NEW s \in Table
                     PROVE  Cardinality(MigPages(s)' \cup Elems(list'[s]) \cup Elems(todo'[s]))
                                <= Len(slots'[s])
            OBVIOUS
        <3>1. MigPages(s)' \cup Elems(list'[s]) \cup Elems(todo'[s])
                  \subseteq MigPages(s) \cup Elems(list[s]) \cup Elems(todo[s])
            BY <1>4, <2>1, <2>2
        <3>2. slots'[s] = slots[s]
            BY <1>4 DEF filling
        <3> QED BY <3>1, <3>2, ColumnShrinks
    <2> QED BY <1>4, <2>2, <2>3 DEF IInv, Slots, pages
<1> QED BY <1>4, <1>7, <1>8, <1>9, MoveKept DEF IInv

LEMMA NextPassInv ==
    ASSUME IInv, NEW f \in Flusher, NextPass(f)
    PROVE  IInv'
<1>1. pc[f] = "move"
    BY DEF NextPass
<1>2. PICK t \in Table : t = new[f]
    BY <1>1, Moving
<1>3. pc[t] = "built" /\ list[t] \in Seq(Page)
    BY <1>1, <1>2, Moving
<1>4. /\ pass' = [pass EXCEPT ![t] = @ + 1]
      /\ retry' = [retry EXCEPT ![t] = FALSE]
      /\ todo' = [todo EXCEPT ![t] = list[t]]
      /\ UNCHANGED <<region, pc, filling, list, migs, gone, chan, pages, contents, mm>>
    BY <1>2 DEF NextPass
<1>5. /\ todo' \in [Table -> Seq(Page)] /\ retry' \in [Table -> BOOLEAN]
      /\ pass' \in [Table -> Nat]
    BY <1>3, <1>4 DEF IInv, TypeOK
<1>6. TypeOK'
    BY <1>4, <1>5 DEF IInv, TypeOK, region, filling, pages, contents, mm
<1>7. Tables'
    BY <1>3, <1>4 DEF IInv, Tables
<1>8. Slots'
    <2>1. \A s \in Table : todo'[s] = todo[s] \/ todo'[s] = list[s]
        BY <1>4 DEF IInv, TypeOK
    <2>2. \A s \in Table : MigPages(s)' = MigPages(s)
        BY <1>4 DEF MigPages
    <2>3. \A s \in Table :
              Cardinality(MigPages(s)' \cup Elems(list'[s]) \cup Elems(todo'[s])) <= Len(slots'[s])
        <3> SUFFICES ASSUME NEW s \in Table
                     PROVE  Cardinality(MigPages(s)' \cup Elems(list'[s]) \cup Elems(todo'[s]))
                                <= Len(slots'[s])
            OBVIOUS
        <3>1. MigPages(s)' \cup Elems(list'[s]) \cup Elems(todo'[s])
                  \subseteq MigPages(s) \cup Elems(list[s]) \cup Elems(todo[s])
            BY <1>4, <2>1, <2>2
        <3>2. slots'[s] = slots[s]
            BY <1>4 DEF filling
        <3> QED BY <3>1, <3>2, ColumnShrinks
    <2> QED BY <1>4, <2>2, <2>3 DEF IInv, Slots, pages
<1> QED BY <1>4, <1>6, <1>7, <1>8, MoveKept DEF IInv

\* There is a slot left for a page that is still mapped.
LEMMA SlotLeft ==
    ASSUME IInv, NEW t \in Table, todo[t] # <<>>, Head(todo[t]) \in mapped
    PROVE  Len(migs[t]) + 1 \in DOMAIN slots[t]
<1> DEFINE M == MigPages(t)
           A == MigPages(t) \cup Elems(list[t]) \cup Elems(todo[t])
           p == Head(todo[t])
<1>1. migs[t] \in Seq(Mig) /\ list[t] \in Seq(Page) /\ todo[t] \in Seq(Page) /\ slots[t] \in Seq(Req)
    BY DEF IInv, TypeOK
<1>2. IsFiniteSet(M) /\ Cardinality(M) = Len(migs[t])
    BY <1>1, DistinctCard DEF IInv, Slots, MigPages
<1>3. IsFiniteSet(A)
    BY <1>1, <1>2, ElemsCard, FS_Union
<1>4. Cardinality(A) <= Len(slots[t])
    BY DEF IInv, Slots
<1>5. p \notin M
    BY DEF IInv, Slots
<1>6. p \in Elems(todo[t])
    BY <1>1, Popped DEF Elems
<1>7. M \cup {p} \subseteq A
    BY <1>6
<1>8. /\ Len(migs[t]) \in Nat /\ Len(slots[t]) \in Nat /\ DOMAIN slots[t] = 1 .. Len(slots[t])
    BY <1>1
<1> HIDE DEF M, A, p
<1>9. Cardinality(M \cup {p}) = Cardinality(M) + 1
    BY <1>2, <1>5, FS_AddElement
<1>10. IsFiniteSet(M \cup {p}) /\ Cardinality(M \cup {p}) <= Cardinality(A)
    BY <1>3, <1>7, FS_Subset
<1>11. Cardinality(A) \in Nat
    BY <1>3, FS_CardinalityType
<1>12. Len(migs[t]) + 1 <= Len(slots[t])
    BY <1>2, <1>4, <1>8, <1>9, <1>10, <1>11
<1> QED BY <1>8, <1>12

LEMMA PagePendingInv ==
    ASSUME IInv, NEW f \in Flusher, PagePending(f)
    PROVE  IInv'
<1>1. pc[f] = "move" /\ todo[new[f]] # <<>>
    BY DEF PagePending
<1>2. PICK t \in Table : t = new[f]
    BY <1>1, Moving
<1>3. /\ pc[t] = "built" /\ todo[t] \in Seq(Page) /\ list[t] \in Seq(Page)
      /\ migs[t] \in Seq(Mig) /\ slots[t] \in Seq(Req)
    BY <1>1, <1>2, Moving
<1>4. PICK p \in Page : p = Head(todo[t])
    BY <1>1, <1>2, <1>3, Popped
<1>5. p \in mapped
    BY <1>2, <1>4 DEF PagePending, Alone
<1>6. Len(migs[t]) + 1 \in DOMAIN slots[t]
    BY <1>1, <1>2, <1>4, <1>5, SlotLeft
<1>7. PICK n \in Nodes : n = NodeOf[slots[t][Len(migs[t]) + 1]]
    BY <1>3, <1>6, MoveSingleAssumption
<1>8. PICK mig \in Mig : mig = [page |-> p, node |-> n]
    BY DEF Mig
<1>9. mig.page = p
    BY <1>8
<1>10. /\ migs' = [migs EXCEPT ![t] = Append(@, mig)]
       /\ mapped' = mapped \ {p} /\ locked' = locked \cup {p}
       /\ same' = same \ {p}
       /\ todo' = [todo EXCEPT ![t] = Tail(@)]
       /\ UNCHANGED <<region, pc, filling, list, pass, retry, gone, chan, where, node, other,
                      lost, mm>>
    BY <1>2, <1>4, <1>7, <1>8 DEF PagePending
<1>11. Tail(todo[t]) \in Seq(Page) /\ Elems(Tail(todo[t])) \subseteq Elems(todo[t])
       /\ p \in Elems(todo[t])
    BY <1>1, <1>2, <1>3, <1>4, Popped DEF Elems
<1>12. /\ Append(migs[t], mig) \in Seq(Mig)
       /\ Len(migs[t]) \in Nat /\ DOMAIN migs[t] = 1 .. Len(migs[t])
       /\ DOMAIN Append(migs[t], mig) = 1 .. Len(migs[t]) + 1
       /\ Append(migs[t], mig)[Len(migs[t]) + 1] = mig
       /\ \A i \in 1 .. Len(migs[t]) : Append(migs[t], mig)[i] = migs[t][i]
    BY <1>3, Appended
<1>13. todo' \in [Table -> Seq(Page)]
    BY <1>10, <1>11 DEF IInv, TypeOK
<1>14. /\ migs' \in [Table -> Seq(Mig)] /\ migs'[t] = Append(migs[t], mig)
       /\ \A s \in Table : s # t => migs'[s] = migs[s]
    BY <1>10, <1>12 DEF IInv, TypeOK
<1>15. TypeOK'
    BY <1>10, <1>13, <1>14 DEF IInv, TypeOK, region, filling, mm
<1>16. Tables'
    BY <1>3, <1>10, <1>14 DEF IInv, Tables
<1>17. MigPages(t)' = MigPages(t) \cup {p} /\ \A s \in Table : s # t => MigPages(s)' = MigPages(s)
    <2>1. \A i \in 1 .. Len(migs[t]) + 1 : i = Len(migs[t]) + 1 \/ i \in 1 .. Len(migs[t])
        BY <1>12
    <2>2. \A i \in DOMAIN migs'[t] : migs'[t][i].page \in MigPages(t) \cup {p}
        BY <1>9, <1>12, <1>14, <2>1 DEF MigPages
    <2>3. 1 .. Len(migs[t]) \subseteq 1 .. Len(migs[t]) + 1
          /\ Len(migs[t]) + 1 \in 1 .. Len(migs[t]) + 1
        BY <1>12
    <2>4. \A i \in DOMAIN migs[t] : \E j \in DOMAIN migs'[t] : migs'[t][j].page = migs[t][i].page
        BY <1>12, <1>14, <2>3
    <2>5. \E j \in DOMAIN migs'[t] : migs'[t][j].page = p
        BY <1>9, <1>12, <1>14, <2>3
    <2>6. MigPages(t)' \subseteq MigPages(t) \cup {p}
        BY <2>2 DEF MigPages
    <2>7. MigPages(t) \cup {p} \subseteq MigPages(t)'
        BY <2>4, <2>5 DEF MigPages
    <2>8. \A s \in Table : s # t => MigPages(s)' = MigPages(s)
        BY <1>14 DEF MigPages
    <2> QED BY <2>6, <2>7, <2>8
<1>18. \A s \in Table : p \notin MigPages(s)
    BY <1>5 DEF IInv, Slots
<1>19. \A s \in Table : \A i, j \in DOMAIN migs'[s] : migs'[s][i].page = migs'[s][j].page => i = j
    <2>1. \A i \in DOMAIN migs[t] : migs[t][i].page # p
        BY <1>18 DEF MigPages
    <2>2. \A i \in 1 .. Len(migs[t]) + 1 : i = Len(migs[t]) + 1 \/ i \in 1 .. Len(migs[t])
        BY <1>12
    <2>3. \A i, j \in DOMAIN migs[t] : migs[t][i].page = migs[t][j].page => i = j
        BY DEF IInv, Slots
    <2>4. \A i, j \in DOMAIN migs'[t] : migs'[t][i].page = migs'[t][j].page => i = j
        BY <1>9, <1>12, <1>14, <2>1, <2>2, <2>3
    <2>5. \A s \in Table : s # t =>
              \A i, j \in DOMAIN migs'[s] : migs'[s][i].page = migs'[s][j].page => i = j
        BY <1>14 DEF IInv, Slots
    <2> QED BY <2>4, <2>5
<1>20. Slots'
    <2>1. \A s \in Table : Elems(todo'[s]) \subseteq Elems(todo[s])
        BY <1>10, <1>11 DEF IInv, TypeOK
    <2>2. ASSUME NEW s \in Table
          PROVE  Cardinality(MigPages(s)' \cup Elems(list'[s]) \cup Elems(todo'[s])) <= Len(slots'[s])
        <3>1. MigPages(s)' \cup Elems(list'[s]) \cup Elems(todo'[s])
                  \subseteq MigPages(s) \cup Elems(list[s]) \cup Elems(todo[s])
            BY <1>10, <1>11, <1>17, <2>1
        <3>2. slots'[s] = slots[s]
            BY <1>10 DEF filling
        <3> QED BY <3>1, <3>2, ColumnShrinks
    <2>3. \A r, s \in Table : r # s => MigPages(r)' \cap MigPages(s)' = {}
        BY <1>17, <1>18 DEF IInv, Slots
    <2>4. \A s \in Table : MigPages(s)' \cap mapped' = {}
        BY <1>10, <1>17 DEF IInv, Slots
    <2> QED BY <1>19, <2>2, <2>3, <2>4 DEF Slots
<1> QED BY <1>10, <1>15, <1>16, <1>20, MoveKept DEF IInv

\* The chain goes on with the transfer, or it ends.
LEMMA TransferInv ==
    ASSUME IInv, NEW f \in Flusher, Transfer(f)
    PROVE  IInv'
<1> USE MoveSingleAssumption
<1>1. pc[f] = "move" /\ todo[new[f]] = <<>>
    BY DEF Transfer
<1>2. PICK t \in Table : t = new[f]
    BY <1>1, Moving
<1>3. /\ pc[t] = "built" /\ t # None /\ t \in Flusher /\ t # f /\ todo[t] = <<>>
      /\ migs[t] \in Seq(Mig)
    BY <1>1, <1>2, Moving
<1>4. /\ pass' = [pass EXCEPT ![t] = 0] /\ retry' = [retry EXCEPT ![t] = FALSE]
      /\ gone' = [gone EXCEPT ![t] = FALSE]
      /\ UNCHANGED <<region, desc, descs, slots, list, todo, migs, pages, contents, mm>>
    BY <1>2 DEF Transfer
<1>5. /\ Active(f) /\ (\A g \in Flusher : g # f => ~Active(g)) /\ color = KER
    <2>1. Active(f)
        BY <1>1 DEF Active, Flushing
    <2>2. f = Usr => color = KER
        BY <1>1 DEF IInv, Colors
    <2> QED BY <2>1, <2>2, OnlyOne
<1>6. chan = <<>>
    BY <1>1, <1>5, InChan DEF Active, TransferLabels
<1>7. /\ qissued = descs[t]
      /\ f \in Table => descs[f] = <<>>
    BY <1>1, <1>2, <1>3 DEF IInv, Issued, Flushing
<1>8. Slots'
    BY <1>4, SlotsKept DEF pages
<1>9. /\ pass' \in [Table -> Nat] /\ retry' \in [Table -> BOOLEAN] /\ gone' \in [Table -> BOOLEAN]
    BY <1>4 DEF IInv, TypeOK
<1>10. CASE gone[t] /\ migs[t] # <<>>
    <2>1. pc' = [pc EXCEPT ![f] = "bug_retry"] /\ UNCHANGED <<chan, new>>
        BY <1>2, <1>10 DEF Transfer, Goto
    <2>2. "bug_retry" \in Labels /\ "bug_retry" \in BugLabels
          /\ "bug_retry" \notin Flushing \cup TransferLabels \cup FlushLabels
        BY DEF Labels, BugLabels, Flushing, TransferLabels, FlushLabels
    <2>3. /\ Chain' /\ pc' \in [Flusher -> Labels] /\ pc'[f] = "bug_retry"
          /\ \A g \in Flusher : g # f => pc'[g] = pc[g]
          /\ \A g \in Flusher : Active(g)' => Active(g)
        BY <1>1, <1>4, <2>1, <2>2, Onward
    <2>4. TypeOK'
        BY <1>4, <1>9, <2>1, <2>3 DEF IInv, TypeOK, region, pages, contents, mm
    <2>5. Colors' /\ ColorsExpected'
        BY <1>4, <2>3 DEF IInv, Colors, ColorsExpected, Flusher, region
    <2>6. Issued' /\ Tables'
        <3>1. qissued' = qissued /\ descs' = descs /\ color' = KER /\ new' = new
            BY <1>4, <1>5, <2>1 DEF region
        <3>2. \A g \in Flusher : pc'[g] \in Flushing \cup TransferLabels => pc'[g] = pc[g]
            BY <2>2, <2>3
        <3>3. \A s \in Table : pc'[s] \in {"free", "look", "put", "unlock"} \cup Flushing => pc'[s] = pc[s]
            BY <2>2, <2>3 DEF Flusher
        <3>4. Issued'
            BY <3>1, <3>2, <3>3 DEF IInv, Issued, Flusher, USR, KER
        <3>5. Tables'
            BY <1>1, <1>4, <2>3 DEF IInv, Tables, Flusher
        <3> QED BY <3>4, <3>5
    <2>7. Referenced'
        BY <1>4, <2>2, <2>3, ReferencedKept DEF Holds
    <2> QED BY <1>8, <2>3, <2>4, <2>5, <2>6, <2>7 DEF IInv
<1>11. CASE ~(gone[t] /\ migs[t] # <<>>)
    <2>1. PICK x \in {"bug_busy", "unlock"}, y \in {"dma", "built"} :
              /\ pc' = [pc EXCEPT ![t] = y, ![f] = x]
              /\ y = "dma" <=> migs[t] # <<>>
        BY <1>2, <1>3, <1>11 DEF Transfer
    <2>2. /\ new' = [new EXCEPT ![f] = None]
          /\ chan' = IF y = "dma" THEN Append(chan, t) ELSE chan
        BY <1>2, <1>11, <2>1 DEF Transfer
    <2>3. x \in Labels /\ y \in Labels /\ x \notin Flushing \cup TransferLabels \cup FlushLabels
          /\ y \notin Flushing \cup FlushLabels \cup BugLabels /\ (y # "built" => y \in TransferLabels)
          /\ "built" \notin TransferLabels
        BY DEF Labels, BugLabels, Flushing, TransferLabels, FlushLabels
    <2>4. /\ pc' \in [Flusher -> Labels] /\ pc'[f] = x /\ pc'[t] = y
          /\ \A g \in Flusher : g # f /\ g # t => pc'[g] = pc[g]
        BY <1>3, <2>1, <2>3 DEF IInv, TypeOK
    <2>5. /\ new' \in [Flusher -> Table \cup {None}] /\ new'[f] = None
          /\ \A g \in Flusher : g # f => new'[g] = new[g]
        BY <2>2 DEF IInv, TypeOK
    <2>6. chan' \in Seq(Table) /\ (y = "dma" => chan' = <<t>>) /\ (y # "dma" => chan' = <<>>)
        BY <1>6, <2>2
    <2>7. TypeOK'
        BY <1>4, <1>9, <2>4, <2>5, <2>6 DEF IInv, TypeOK, region, pages, contents, mm
    <2>8. \A g \in Flusher : Active(g)' => g = t /\ y = "dma"
        BY <1>5, <2>3, <2>4 DEF Active
    <2>9. \A g \in Flusher : g # f => new[g] # t
        BY <1>2, <1>3 DEF IInv, Chain
    <2>10. Chain'
        <3>1. \A g, h \in Flusher : Active(g)' /\ Active(h)' => g = h
            BY <2>8
        <3>2. pc'[Usr] \notin TransferLabels \cup {"built", "free"}
            BY <1>3, <2>1, <2>3, <2>4 DEF IInv, Chain, Flusher
        <3>3. \A s \in Table : pc'[s] \notin {"idle", "kick"}
            BY <2>1, <2>4 DEF IInv, Chain, Flusher
        <3>4. \A g \in Flusher : pc'[g] \in {"isolate", "issue", "move"} => new'[g] \in Table
            BY <2>1, <2>4, <2>5 DEF IInv, Chain
        <3>5. \A g \in Flusher : pc'[g] \in {"isolate", "issue"} => desc'[g] \in Req
            BY <1>4, <2>1, <2>4 DEF IInv, Chain
        <3>6. ASSUME NEW g \in Flusher, new'[g] # None
              PROVE  pc'[g] \in Flushing \cup BugLabels /\ pc'[new'[g]] = "built"
            <4>1. g # f /\ new'[g] = new[g] /\ new[g] # None
                BY <2>5, <3>6
            <4>2. /\ new[g] \in Flusher /\ pc[new[g]] = "built" /\ pc[g] \in Flushing \cup BugLabels
                BY <4>1, Filled
            <4>3. new[g] # t /\ new[g] # f /\ g # t
                BY <1>1, <1>3, <2>9, <4>1, <4>2 DEF Flushing, BugLabels
            <4> QED BY <2>4, <4>1, <4>2, <4>3
        <3>7. \A g, h \in Flusher : new'[g] # None /\ new'[g] = new'[h] => g = h
            BY <2>5 DEF IInv, Chain
        <3>8. \A s \in Table : pc'[s] = "paint" => new'[s] = None
            BY <2>1, <2>4, <2>5 DEF IInv, Chain, Flusher
        <3>9. chan' # <<>> => Len(chan') = 1 /\ pc'[chan'[1]] = "dma"
            BY <2>4, <2>6
        <3> QED BY <3>1, <3>2, <3>3, <3>4, <3>5, <3>6, <3>7, <3>8, <3>9 DEF Chain
    <2>11. Colors'
        <3>1. color' = KER
            BY <1>4, <1>5 DEF region
        <3>2. pc'[Usr] \notin {"kick", "take", "isolate", "issue", "paint"}
            <4>1. CASE f = Usr
                BY <2>1, <2>4, <4>1
            <4>2. CASE f # Usr
                BY <1>5, <2>4, <4>2 DEF IInv, Colors, Flusher, USR, KER
            <4> QED BY <4>1, <4>2
        <3> QED BY <3>1, <3>2 DEF Colors
    <2>12. ColorsExpected'
        BY <2>1, <2>4 DEF IInv, ColorsExpected
    <2>13. Issued'
        <3>1. qissued' = qissued /\ descs' = descs /\ color' = KER
            BY <1>4, <1>5 DEF region
        <3>2. \A s \in Table : pc'[s] \in TransferLabels => s = t
            BY <2>8 DEF Active, Flusher
        <3>3. \A g \in Flusher : pc'[g] \notin Flushing
            BY <2>3, <2>4, <2>8 DEF Active
        <3>4. \A s \in Table : pc'[s] \in {"free", "look", "put", "unlock"} \cup Flushing => descs[s] = <<>>
            BY <1>7, <2>1, <2>3, <2>4 DEF IInv, Issued, Flusher
        <3> QED BY <1>7, <3>1, <3>2, <3>3, <3>4 DEF Issued, USR, KER
    <2>14. Tables'
        <3>1. \A s \in Table : todo[s] # <<>> => s # t /\ s # f /\ pc[s] = "built"
            BY <1>1, <1>3 DEF IInv, Tables
        <3>2. \A s \in Table : migs[s] # <<>> => s # f /\ pc[s] \in {"built", "dma", "callback", "remap"}
            BY <1>1 DEF IInv, Tables
        <3> QED BY <1>4, <2>1, <2>4, <3>1, <3>2 DEF Tables, Flusher
    <2>15. Referenced'
        <3>1. f \in Holders /\ t \notin Holders
            BY <1>1, <1>3 DEF Holders, Holds, FlushLabels, TransferLabels
        <3>2. Holders' \subseteq (Holders \ {f}) \cup {t}
            BY <2>3, <2>4 DEF Holders, Holds
        <3>3. /\ IsFiniteSet(Holders \ {f}) /\ Cardinality(Holders \ {f}) = Cardinality(Holders) - 1
            BY <3>1, HoldersFinite, FS_RemoveElement
        <3>4. t \notin Holders \ {f}
            BY <3>1
        <3>5. /\ IsFiniteSet((Holders \ {f}) \cup {t})
              /\ Cardinality((Holders \ {f}) \cup {t}) = Cardinality(Holders \ {f}) + 1
            BY <3>3, <3>4, FS_AddElement
        <3>6. Cardinality(Holders') <= Cardinality((Holders \ {f}) \cup {t})
            BY <3>2, <3>5, FS_Subset
        <3>7. Cardinality(Holders') <= Cardinality(Holders)
            BY <3>3, <3>5, <3>6, HoldersFinite
        <3>8. mmUsers' = mmUsers /\ mmUsers \in Nat /\ One(alive)' = One(alive) /\ One(alive) \in Nat
            BY <1>4 DEF mm, IInv, TypeOK, One
        <3> QED BY <3>7, <3>8, HoldersFinite DEF IInv, Referenced
    <2> QED BY <1>8, <2>7, <2>10, <2>11, <2>12, <2>13, <2>14, <2>15 DEF IInv
<1> QED BY <1>10, <1>11

-----------------------------------------------------------------------------
(***************************************************************************)
(* The transfer.                                                           *)
(***************************************************************************)
\* The work of a table goes on; nothing but its label changes.
LEMMA WorkOnward ==
    ASSUME IInv, NEW t \in Table, NEW x \in {"remap", "report", "look", "take"},
           pc[t] \in {"callback", "remap", "report", "look"},
           pc' = [pc EXCEPT ![t] = x],
           x \in {"report", "look", "take"} => migs[t] = <<>>,
           x \in {"look", "take"} => descs[t] = <<>>,
           UNCHANGED <<region, filling, moving, chan, pages, contents, mm>>
    PROVE  IInv'
<1> USE MoveSingleAssumption
<1>1. t \in Flusher /\ t # Usr
    BY DEF Flusher
<1>2. x \in Labels /\ (x # "take" <=> x \in TransferLabels) /\ (x = "take" <=> x \in Flushing)
      /\ x \notin BugLabels /\ (x \in {"free", "look", "put", "unlock"} => x = "look")
    BY DEF Labels, Flushing, FlushLabels, TransferLabels, BugLabels
<1>3. pc[t] \in TransferLabels /\ pc[t] \notin Flushing \cup BugLabels /\ pc[t] \notin {"dma", "built"}
    BY DEF TransferLabels, Flushing, BugLabels
<1>4. Active(t) /\ color = KER
    BY <1>1, <1>3, OnlyOne DEF Active
<1>5. new[t] = None
    BY <1>1, <1>3, Filled
<1>6. /\ Chain' /\ pc' \in [Flusher -> Labels] /\ pc'[t] = x
      /\ \A g \in Flusher : g # t => pc'[g] = pc[g]
      /\ \A g \in Flusher : Active(g)' => Active(g)
    BY <1>1, <1>2, <1>3, <1>4, <1>5, Onward DEF filling
<1>7. TypeOK'
    BY <1>6 DEF IInv, TypeOK, region, filling, moving, pages, contents, mm
<1>8. Colors' /\ ColorsExpected'
    BY <1>1, <1>2, <1>4, <1>6 DEF IInv, Colors, ColorsExpected, Flusher, region
<1>9. Issued'
    <2>1. qissued' = qissued /\ descs' = descs /\ color' = KER /\ new' = new
        BY <1>4 DEF region, filling
    <2>2. qissued = descs[t]
        BY <1>3 DEF IInv, Issued
    <2>3. \A g \in Flusher : pc'[g] \in Flushing => (g = t /\ x = "take") \/ pc[g] \in Flushing
        BY <1>2, <1>6
    <2>4. \A s \in Table : pc'[s] \in TransferLabels => s = t \/ pc[s] \in TransferLabels
        BY <1>6 DEF Flusher
    <2>5. \A s \in Table : pc'[s] \in {"free", "look", "put", "unlock"} \cup Flushing
              => (s = t /\ x \in {"look", "take"}) \/ pc[s] \in {"free", "look", "put", "unlock"} \cup Flushing
        BY <1>2, <1>6 DEF Flusher, TransferLabels
    <2>6. \A s \in Table : pc'[s] \in TransferLabels => qissued = descs[s]
        BY <2>2, <2>4 DEF IInv, Issued
    <2>7. \A g \in Flusher : pc'[g] \in Flushing /\ new[g] # None => qissued = descs[new[g]]
        BY <1>5, <2>3 DEF IInv, Issued
    <2>8. \A g \in Flusher : pc'[g] \in Flushing /\ new[g] = None => qissued = <<>>
        BY <2>2, <2>3 DEF IInv, Issued
    <2>9. \A s \in Table : pc'[s] \in {"free", "look", "put", "unlock"} \cup Flushing => descs[s] = <<>>
        BY <2>5 DEF IInv, Issued
    <2> QED BY <2>1, <2>6, <2>7, <2>8, <2>9 DEF Issued, USR, KER
<1>10. Tables'
    <2>1. todo[t] = <<>>
        BY DEF IInv, Tables
    <2> QED BY <1>6, <2>1 DEF IInv, Tables, Flusher, moving
<1>11. Slots'
    BY SlotsKept DEF filling, moving, pages
<1>12. Referenced'
    BY <1>2, <1>3, <1>6, ReferencedKept DEF Holds, Flushing, FlushLabels
<1> QED BY <1>6, <1>7, <1>8, <1>9, <1>10, <1>11, <1>12 DEF IInv

LEMMA LabelsInv ==
    ASSUME IInv, NEW t \in Table, Callback(t) \/ Remapped(t) \/ Reported(t) \/ Look(t)
    PROVE  IInv'
<1>1. CASE Callback(t)
    BY <1>1, WorkOnward DEF Callback, Goto
<1>2. CASE Remapped(t)
    BY <1>2, WorkOnward DEF Remapped, Goto
<1>3. CASE Reported(t)
    <2>1. migs[t] = <<>>
        BY <1>3 DEF Reported, IInv, Tables
    <2> QED BY <1>3, <2>1, WorkOnward DEF Reported, Goto
<1>4. CASE Look(t)
    <2>1. pc[t] = "look" /\ migs[t] = <<>> /\ descs[t] = <<>> /\ color = KER
        BY <1>4 DEF Look, IInv, Tables, Issued, Colors, Active, TransferLabels
    <2>2. /\ pc' = [pc EXCEPT ![t] = "take"]
          /\ UNCHANGED <<region, filling, moving, chan, pages, contents, mm>>
        BY <1>4, <2>1 DEF Look, Goto, filling, moving
    <2> QED BY <2>1, <2>2, WorkOnward
<1> QED BY <1>1, <1>2, <1>3, <1>4

\* There is a request in qissued for every one that the table has.
LEMMA ReportInv ==
    ASSUME IInv, NEW t \in Table, Report(t)
    PROVE  IInv'
<1> USE MoveSingleAssumption
<1>1. /\ pc[t] = "report" /\ descs[t] # <<>> /\ t \in Flusher /\ t # Usr
    BY DEF Report, Flusher
<1>2. /\ qissued = descs[t] /\ qissued # <<>> /\ qissued \in Seq(Req) /\ qcomp \in Seq(Req)
    BY <1>1 DEF IInv, Issued, TransferLabels, TypeOK
<1>3. /\ qcomp' = Append(qcomp, Head(qissued)) /\ qissued' = Tail(qissued)
      /\ descs' = [descs EXCEPT ![t] = Tail(@)]
      /\ UNCHANGED <<pc, free, qreq, color, desc, new, slots, moving, chan, pages, contents, mm>>
    BY <1>2 DEF Report
<1>4. Head(qissued) \in Req /\ Tail(qissued) \in Seq(Req)
    BY <1>2, Popped
<1>5. qcomp' \in Seq(Req)
    BY <1>2, <1>3, <1>4
<1>6. /\ descs' \in [Table -> Seq(Req)] /\ descs'[t] = qissued'
      /\ \A s \in Table : s # t => descs'[s] = descs[s]
    BY <1>2, <1>3, <1>4 DEF IInv, TypeOK
<1>7. TypeOK'
    BY <1>3, <1>4, <1>5, <1>6 DEF IInv, TypeOK, moving, pages, contents, mm
<1>8. \A f \in Flusher : Active(f)' <=> Active(f)
    BY <1>3 DEF Active
<1>9. Active(t) /\ (\A g \in Flusher : g # t => ~Active(g)) /\ color = KER
    BY <1>1, OnlyOne DEF Active, TransferLabels
<1>10. Chain' /\ Colors' /\ ColorsExpected'
    BY <1>3, <1>8 DEF IInv, Chain, Colors, ColorsExpected, Flusher
<1>11. Issued'
    <2>1. \A s \in Table : pc[s] \in TransferLabels => s = t
        BY <1>9 DEF Active, Flusher
    <2>2. \A g \in Flusher : pc[g] \notin Flushing
        BY <1>1, <1>9 DEF Active, Flushing
    <2>3. \A s \in Table : pc[s] \in {"free", "look", "put", "unlock"} \cup Flushing
              => s # t /\ descs[s] = <<>>
        BY <1>1 DEF IInv, Issued, Flushing
    <2>4. \A s \in Table : pc'[s] \in TransferLabels => qissued' = descs'[s]
        BY <1>3, <1>6, <2>1
    <2>5. \A s \in Table : pc'[s] \in {"free", "look", "put", "unlock"} \cup Flushing => descs'[s] = <<>>
        BY <1>3, <1>6, <2>3
    <2>6. color' # USR /\ \A g \in Flusher : pc'[g] \notin Flushing
        BY <1>3, <1>9, <2>2 DEF USR, KER
    <2> QED BY <2>4, <2>5, <2>6 DEF Issued
<1>12. Tables' /\ Slots'
    BY <1>3, SlotsKept DEF IInv, Tables, moving, pages
<1>13. Referenced'
    BY <1>3, ReferencedKept DEF Holds
<1> QED BY <1>7, <1>10, <1>11, <1>12, <1>13 DEF IInv

LEMMA RemapInv ==
    ASSUME IInv, NEW t \in Table, Remap(t)
    PROVE  IInv'
<1>1. pc[t] = "remap" /\ migs[t] # <<>> /\ migs[t] \in Seq(Mig) /\ list[t] \in Seq(Page)
    BY DEF Remap, IInv, TypeOK
<1>2. /\ Len(migs[t]) \in Nat /\ DOMAIN migs[t] = 1 .. Len(migs[t]) /\ 1 \in DOMAIN migs[t]
      /\ Head(migs[t]) = migs[t][1] /\ migs[t][1] \in Mig
      /\ Tail(migs[t]) \in Seq(Mig) /\ DOMAIN Tail(migs[t]) = 1 .. Len(migs[t]) - 1
      /\ \A i \in 1 .. Len(migs[t]) - 1 : Tail(migs[t])[i] = migs[t][i + 1]
    BY <1>1, Popped
<1>3. PICK p \in Page : p = migs[t][1].page
    BY <1>2 DEF Mig
<1>4. PICK n \in Nodes : n = migs[t][1].node
    BY <1>2 DEF Mig
<1>5. /\ mapped' = mapped \cup {p} /\ locked' = locked \ {p}
      /\ where' = [where EXCEPT ![p] = "pagevec"]
      /\ node' = [node EXCEPT ![p] = n]
      /\ lost' \in {lost, lost \cup {p}}
      /\ same' = same \ {p}
      /\ list' = [list EXCEPT ![t] = Without(@, p)]
      /\ migs' = [migs EXCEPT ![t] = Tail(@)]
      /\ UNCHANGED <<region, pc, filling, todo, pass, retry, gone, chan, other, mm>>
    BY <1>2, <1>3, <1>4 DEF Remap
<1>6. Without(list[t], p) \in Seq(Page) /\ Elems(Without(list[t], p)) \subseteq Elems(list[t])
    BY <1>1, WithoutOne
<1>7. list' \in [Table -> Seq(Page)] /\ \A s \in Table : Elems(list'[s]) \subseteq Elems(list[s])
    BY <1>5, <1>6 DEF IInv, TypeOK
<1>8. /\ migs' \in [Table -> Seq(Mig)] /\ migs'[t] = Tail(migs[t])
      /\ \A s \in Table : s # t => migs'[s] = migs[s]
    BY <1>2, <1>5 DEF IInv, TypeOK
<1>9. TypeOK'
    <2>1. /\ where' \in [Page -> {"lru", "pagevec", "isolated"}] /\ node' \in [Page -> Nodes]
          /\ mapped' \in SUBSET Page /\ locked' \in SUBSET Page
          /\ same' \in SUBSET Page /\ lost' \in SUBSET Page
        BY <1>5 DEF IInv, TypeOK
    <2> QED BY <1>5, <1>7, <1>8, <2>1 DEF IInv, TypeOK, region, filling, mm
<1>10. Tables'
    BY <1>1, <1>5, <1>8 DEF IInv, Tables
<1>11. \A i \in 1 .. Len(migs[t]) - 1 : i + 1 \in DOMAIN migs[t] /\ i + 1 # 1
    BY <1>2
<1>12. /\ MigPages(t)' \subseteq MigPages(t) \ {p}
       /\ \A s \in Table : s # t => MigPages(s)' = MigPages(s)
    <2>1. \A i \in DOMAIN migs[t] : i # 1 => migs[t][i].page # p
        BY <1>2, <1>3 DEF IInv, Slots
    <2>2. \A i \in DOMAIN migs'[t] : migs'[t][i].page \in MigPages(t) \ {p}
        <3>1. \A i \in DOMAIN migs'[t] : i \in 1 .. Len(migs[t]) - 1 /\ migs'[t][i] = migs[t][i + 1]
            BY <1>2, <1>8
        <3>2. \A i \in DOMAIN migs[t] : i # 1 => migs[t][i].page \in MigPages(t) \ {p}
            BY <2>1 DEF MigPages
        <3> QED BY <1>11, <3>1, <3>2
    <2>3. MigPages(t)' \subseteq MigPages(t) \ {p}
        BY <2>2 DEF MigPages
    <2>4. \A s \in Table : s # t => MigPages(s)' = MigPages(s)
        BY <1>8 DEF MigPages
    <2> QED BY <2>3, <2>4
<1>13. Slots'
    <2>1. \A s \in Table : \A i, j \in DOMAIN migs'[s] : migs'[s][i].page = migs'[s][j].page => i = j
        <3>1. \A i, j \in DOMAIN migs'[t] : migs'[t][i].page = migs'[t][j].page => i + 1 = j + 1
            BY <1>2, <1>8, <1>11 DEF IInv, Slots
        <3>2. \A i, j \in DOMAIN migs'[t] : i + 1 = j + 1 => i = j
            BY <1>2, <1>8
        <3>3. \A i, j \in DOMAIN migs'[t] : migs'[t][i].page = migs'[t][j].page => i = j
            BY <3>1, <3>2
        <3>4. \A s \in Table : s # t =>
                  \A i, j \in DOMAIN migs'[s] : migs'[s][i].page = migs'[s][j].page => i = j
            BY <1>8 DEF IInv, Slots
        <3> QED BY <3>3, <3>4
    <2>2. ASSUME NEW s \in Table
          PROVE  Cardinality(MigPages(s)' \cup Elems(list'[s]) \cup Elems(todo'[s])) <= Len(slots'[s])
        <3>1. MigPages(s)' \cup Elems(list'[s]) \cup Elems(todo'[s])
                  \subseteq MigPages(s) \cup Elems(list[s]) \cup Elems(todo[s])
            BY <1>5, <1>7, <1>12
        <3>2. slots'[s] = slots[s]
            BY <1>5 DEF filling
        <3> QED BY <3>1, <3>2, ColumnShrinks
    <2>3. \A r, s \in Table : r # s => MigPages(r)' \cap MigPages(s)' = {}
        BY <1>12 DEF IInv, Slots
    <2>4. p \in MigPages(t)
        BY <1>2, <1>3 DEF MigPages
    <2>5. \A s \in Table : p \notin MigPages(s)'
        BY <1>12, <2>4 DEF IInv, Slots
    <2>6. \A s \in Table : MigPages(s)' \cap mapped' = {}
        BY <1>5, <1>12, <2>5 DEF IInv, Slots
    <2> QED BY <2>1, <2>2, <2>3, <2>6 DEF Slots
<1> QED BY <1>5, <1>9, <1>10, <1>13, MoveKept DEF IInv

-----------------------------------------------------------------------------
(***************************************************************************)
(* What holds of every behaviour.                                          *)
(***************************************************************************)
LEMMA StutterInv ==
    ASSUME IInv, UNCHANGED vars
    PROVE  IInv'
<1>1. TypeOK'
    BY DEF vars, region, filling, moving, pages, contents, mm, IInv, TypeOK
<1>2. Referenced'
    BY ReferencedKept DEF vars, Holds
<1> QED BY <1>1, <1>2, ControlKept DEF vars, region, pages, IInv

LEMMA StepInv == IInv /\ [Next]_vars => IInv'
<1> SUFFICES ASSUME IInv, [Next]_vars PROVE IInv'
    OBVIOUS
<1>1. CASE Program
    BY <1>1, SubmitInv, CollectInv, OutsideInv, ExitInv DEF Program
<1>2. CASE Kick
    BY <1>2, KickInv
<1>3. CASE DmaDone
    BY <1>3, DmaDoneInv
<1>4. CASE Kernel
    BY <1>4, OutsideInv
<1>5. ASSUME NEW f \in Flusher, FlushStep(f)
      PROVE  IInv'
    <2>1. CASE FlushTake(f) \/ FlushEmpty(f) \/ FlushIsolate(f) \/ FlushIssue(f)
        BY <2>1, FlushTakeInv, FlushEmptyInv, FlushIsolateInv, FlushIssueInv
    <2>2. CASE FlushPaint(f) \/ FlushPut(f) \/ FlushUnlock(f)
        BY <2>2, FlushPaintInv, FlushPutInv, FlushUnlockInv
    <2>3. CASE PageGone(f) \/ TryAgain(f) \/ PagePending(f) \/ NextPass(f) \/ Transfer(f)
        BY <2>3, PageGoneInv, TryAgainInv, PagePendingInv, NextPassInv, TransferInv
    <2> QED BY <1>5, <2>1, <2>2, <2>3 DEF FlushStep
<1>6. ASSUME NEW t \in Table, WorkStep(t)
      PROVE  IInv'
    BY <1>6, LabelsInv, RemapInv, ReportInv DEF WorkStep
<1>7. CASE UNCHANGED vars
    BY <1>7, StutterInv
<1> QED BY <1>1, <1>2, <1>3, <1>4, <1>5, <1>6, <1>7 DEF Next

LEMMA Invariance == Spec => []IInv
<1> QED BY InitInv, StepInv, PTL DEF Spec

\* Every variable keeps its type, so that a page has always a slot that says to
\* which node it goes.
THEOREM TypeCorrect == Spec => []TypeOK
<1>1. IInv => TypeOK
    BY DEF IInv
<1> QED BY <1>1, Invariance, PTL

\* migqueue_set_color_if_empty finds the colour that flush_single_qreq expects, and
\* do_dma_complete a request in qissued: those BUG()s are not reached.
THEOREM NoSurprise == Spec => []ColorsExpected
<1>1. IInv => ColorsExpected
    BY DEF IInv
<1> QED BY <1>1, Invariance, PTL

\* The requests that a transfer completes are those at the head of qissued.
THEOREM HeadsAreCompleted == Spec => []HeadsMatch
<1>1. IInv => HeadsMatch
    <2> SUFFICES ASSUME IInv, NEW t \in Table, pc[t] \in TransferLabels
                 PROVE  /\ Len(qissued) >= Len(descs[t])
                        /\ SubSeq(qissued, 1, Len(descs[t])) = descs[t]
        BY DEF HeadsMatch
    <2>1. qissued = descs[t] /\ qissued \in Seq(Req)
        BY DEF IInv, Issued, TypeOK
    <2>2. \A s \in Seq(Req) : Len(s) >= Len(s) /\ SubSeq(s, 1, Len(s)) = s
        OBVIOUS
    <2> QED BY <2>1, <2>2
<1> QED BY <1>1, Invariance, PTL

\* There is one chain: one flush with requests, or one transfer that is not
\* completed, whoever began it.
OneChain == \A f, g \in Flusher : Active(f) /\ Active(g) => f = g

THEOREM OneChainAtATime == Spec => []OneChain
<1>1. IInv => OneChain
    BY DEF IInv, Chain, OneChain
<1> QED BY <1>1, Invariance, PTL

\* The chain never uses an mm that is gone, also when the program has exited.
MmHeld == \A f \in Flusher : Holds(f) => mmUsers > 0

THEOREM MmIsHeld == Spec => []MmHeld
<1>1. IInv => MmHeld
    <2> SUFFICES ASSUME IInv, NEW f \in Flusher, Holds(f)
                 PROVE  mmUsers > 0
        BY DEF MmHeld
    <2>1. f \in Holders
        BY DEF Holders
    <2>2. Cardinality(Holders) # 0
        BY <2>1, HoldersFinite, FS_EmptySet
    <2>3. mmUsers \in Nat /\ mmUsers >= One(alive) + Cardinality(Holders) /\ One(alive) \in Nat
        BY DEF IInv, TypeOK, Referenced, One
    <2> QED BY <2>2, <2>3, HoldersFinite
<1> QED BY <1>1, Invariance, PTL

-----------------------------------------------------------------------------
(***************************************************************************)
(* Pages, slots and requests.  A second pass over the list of a table      *)
(* would take the pages it finds pending for pages that are gone.  So the  *)
(* pages of a table are Tidy: unmapped in the order of their slots so far, *)
(* or Waiting: none of them is unmapped, or Doomed: a BUG() is certain.    *)
(* Only a Tidy table is transferred without a BUG().                       *)
(***************************************************************************)
\* A page that is unmapped is not disturbed, and the transfer copies it.
Untouched ==
    /\ \A t \in Table : \A p \in MigPages(t) : other[p] = "none"
    /\ \A t \in Table : pc[t] \in {"callback", "remap"} => MigPages(t) \subseteq same
    /\ lost = {}

\* The page p is where the request r wants it.
Moved(p, r) == node[p] = NodeOf[r] /\ p \in mapped /\ p \notin locked
Once(s) == \A i, j \in DOMAIN s : s[i] = s[j] => i = j
\* The requests that a flush has dequeued and not issued yet.
Hand == {desc[f] : f \in Flusher} \ {None}

\* A request is in one place, and the requests under way ask for different pages.
Places ==
    /\ Once(qreq) /\ Once(qissued) /\ Once(qcomp)
    /\ Elems(qreq) \cap Elems(qissued) = {} /\ Elems(qreq) \cap Elems(qcomp) = {}
    /\ Elems(qissued) \cap Elems(qcomp) = {}
    /\ Hand \cap (Elems(qreq) \cup Elems(qissued) \cup Elems(qcomp)) = {}
    /\ free \cap (Elems(qreq) \cup Elems(qissued) \cup Elems(qcomp) \cup Hand) = {}
    /\ \A f \in Flusher : desc[f] # None => pc[f] \in {"isolate", "issue"}
    /\ \A q, r \in Req \ free : q # r => Elems(PagesOf[q]) \cap Elems(PagesOf[r]) = {}

\* What is left over in a table that nobody fills, and where a page is that is
\* unmapped.
Settled ==
    /\ \A t \in Table : pc[t] # "built" => ~gone[t] /\ ~retry[t]
    /\ \A t \in Table : pc[t] = "free" => list[t] = <<>> /\ slots[t] = <<>>
    /\ \A t \in Table : pc[t] = "built" /\ migs[t] # <<>> => \E f \in Flusher : new[f] = t
    /\ \A p \in Page \ mapped : \E t \in Table : p \in MigPages(t)

\* The requests whose pages are collected in table t, f's current one included.
Wanted(f, t) == Elems(descs[t]) \cup (IF pc[f] = "issue" THEN {desc[f]} ELSE {})

\* The pages of t are unmapped in the order of its list, that of the slots.
Tidy(t) ==
    /\ ~gone[t] /\ ~retry[t] /\ Len(migs[t]) + Len(todo[t]) = Len(list[t])
    /\ \A i \in DOMAIN migs[t] : migs[t][i].page = list[t][i] /\ migs[t][i].node = NodeOf[slots[t][i]]
    /\ \A j \in DOMAIN todo[t] : todo[t][j] = list[t][Len(migs[t]) + j]
\* No page of t could be unmapped so far, and there will be another pass.
Waiting(t) == ~gone[t] /\ retry[t] /\ migs[t] = <<>>
\* Some page of t is pending, and another one is not or the same one is in the list
\* again: a BUG() follows, for what is pending is taken for gone by a second pass.
Doomed(t) == migs[t] # <<>> /\ (gone[t] \/ retry[t] \/ Elems(todo[t]) \cap MigPages(t) # {})

\* f is filling table t.
Fills(f, t) ==
    /\ Elems(slots[t]) \subseteq Wanted(f, t)
    /\ \A p \in Elems(list[t]) \cup Elems(todo[t]) : \E r \in Wanted(f, t) : p \in Elems(PagesOf[r])
    /\ ~gone[t] =>
        /\ Len(list[t]) = Len(slots[t])
        /\ \A i \in DOMAIN list[t] : list[t][i] \in Elems(PagesOf[slots[t][i]])
        /\ \A r \in Wanted(f, t) : Elems(PagesOf[r]) \subseteq Elems(list[t])
        /\ MigPages(t) \cup Elems(todo[t]) \subseteq Elems(list[t])
    /\ pc[f] # "move" => ~gone[t] /\ ~retry[t] /\ migs[t] = <<>> /\ todo[t] = list[t]
    /\ pc[f] = "move" => Tidy(t) \/ Waiting(t) \/ Doomed(t)
    /\ pc[f] \in {"take", "paint", "move"} => descs[t] # <<>>

Sending == {"dma", "callback", "remap", "report"}

\* A page of t is on its way to the node its request asked for, or it has arrived.
Sent(t) ==
    /\ \A i \in DOMAIN migs[t] : \A r \in Elems(descs[t]) :
           migs[t][i].page \in Elems(PagesOf[r]) => migs[t][i].node = NodeOf[r]
    /\ \A r \in Elems(descs[t]) : \A p \in Elems(PagesOf[r]) : p \in MigPages(t) \/ Moved(p, r)

\* What has been reported, and not collected, is where it was to be.
Completed == \A r \in Elems(qcomp) : \A p \in Elems(PagesOf[r]) : Moved(p, r)

\* While no BUG() is reached, slots, pages and requests match.
Matched ==
    /\ Places /\ Settled
    /\ \A f \in Flusher, t \in Table : new[f] = t => Fills(f, t)
    /\ \A t \in Table : pc[t] \in Sending => Sent(t)
    /\ Completed

MatchedUnlessBug == ~Bugged => Matched

-----------------------------------------------------------------------------
LEMMA ElemsTail ==
    ASSUME NEW S, NEW s \in Seq(S), s # <<>>
    PROVE  /\ Head(s) \in S /\ Tail(s) \in Seq(S)
           /\ Elems(s) = Elems(Tail(s)) \cup {Head(s)}
           /\ Once(s) => Once(Tail(s)) /\ Head(s) \notin Elems(Tail(s))
<1>1. /\ Len(s) \in Nat /\ Len(s) >= 1 /\ DOMAIN s = 1 .. Len(s)
      /\ Head(s) = s[1] /\ s[1] \in S /\ Tail(s) \in Seq(S)
      /\ DOMAIN Tail(s) = 1 .. Len(s) - 1
      /\ \A i \in 1 .. Len(s) - 1 : Tail(s)[i] = s[i + 1]
    BY Popped
<1>2. \A i \in 1 .. Len(s) - 1 : i + 1 \in DOMAIN s /\ i + 1 # 1
    BY <1>1
<1>3. \A i \in DOMAIN s : i # 1 => i - 1 \in 1 .. Len(s) - 1 /\ s[i] = Tail(s)[i - 1]
  <2> SUFFICES ASSUME NEW i \in DOMAIN s, i # 1
               PROVE  i - 1 \in 1 .. Len(s) - 1 /\ s[i] = Tail(s)[i - 1]
      OBVIOUS
  <2>1. i - 1 \in 1 .. Len(s) - 1 /\ (i - 1) + 1 = i
      BY <1>1
  <2> QED BY <1>1, <2>1
<1>4. Elems(s) \subseteq Elems(Tail(s)) \cup {Head(s)}
    BY <1>1, <1>3 DEF Elems
<1>5. Elems(Tail(s)) \cup {Head(s)} \subseteq Elems(s)
    BY <1>1, <1>2 DEF Elems
<1>6. ASSUME Once(s) PROVE Once(Tail(s)) /\ Head(s) \notin Elems(Tail(s))
  <2>1. \A i, j \in 1 .. Len(s) - 1 : i + 1 = j + 1 => i = j
      BY <1>1
  <2>2. Once(Tail(s))
      BY <1>1, <1>2, <1>6, <2>1 DEF Once
  <2>3. \A i \in 1 .. Len(s) - 1 : s[i + 1] # s[1]
      BY <1>1, <1>2, <1>6 DEF Once
  <2> QED BY <1>1, <2>2, <2>3 DEF Elems
<1> QED BY <1>1, <1>4, <1>5, <1>6

LEMMA ElemsAppend ==
    ASSUME NEW S, NEW s \in Seq(S), NEW x \in S
    PROVE  /\ Elems(Append(s, x)) = Elems(s) \cup {x}
           /\ Once(s) /\ x \notin Elems(s) => Once(Append(s, x))
<1>1. /\ Len(s) \in Nat /\ DOMAIN s = 1 .. Len(s)
      /\ DOMAIN Append(s, x) = 1 .. Len(s) + 1
      /\ Append(s, x)[Len(s) + 1] = x
      /\ \A i \in 1 .. Len(s) : Append(s, x)[i] = s[i]
    BY Appended
<1>2. \A i \in 1 .. Len(s) + 1 : i = Len(s) + 1 \/ i \in 1 .. Len(s)
    BY <1>1
<1>3. /\ \A i \in 1 .. Len(s) : i \in 1 .. Len(s) + 1 /\ i # Len(s) + 1
      /\ Len(s) + 1 \in 1 .. Len(s) + 1
    BY <1>1
<1>4. Elems(Append(s, x)) = Elems(s) \cup {x}
    BY <1>1, <1>2, <1>3 DEF Elems
<1>5. ASSUME Once(s), x \notin Elems(s), NEW i \in DOMAIN Append(s, x), NEW j \in DOMAIN Append(s, x),
             Append(s, x)[i] = Append(s, x)[j]
      PROVE  i = j
    BY <1>1, <1>2, <1>3, <1>5 DEF Once, Elems
<1> QED BY <1>4, <1>5 DEF Once

\* With no bug reached, there is nobody else with a table to fill.
LEMMA OnlyFiller ==
    ASSUME IInv, ~Bugged, NEW f \in Flusher
    PROVE  /\ new[f] # None => Active(f) /\ pc[f] \in Flushing
           /\ Active(f) => \A g \in Flusher : g # f => new[g] = None
<1>1. \A g \in Flusher : new[g] # None => Active(g) /\ pc[g] \in Flushing
    BY Filled DEF Active, Bugged
<1> QED BY <1>1 DEF IInv, Chain

\* A page that is unmapped while a table is being filled is pending in that table.
LEMMA PendingHere ==
    ASSUME IInv, ~Bugged, Settled, NEW f \in Flusher, new[f] # None, NEW p \in Page, p \notin mapped
    PROVE  p \in MigPages(new[f])
<1>1. PICK s \in Table : p \in MigPages(s)
    BY DEF Settled
<1>2. migs[s] # <<>>
    BY <1>1 DEF MigPages
<1>3. pc[s] \in {"built", "dma", "callback", "remap"}
    BY <1>2 DEF IInv, Tables
<1>4. Active(f) /\ pc[f] \in Flushing
    BY OnlyFiller
<1>5. pc[s] = "built"
  <2>1. s \in Flusher
      BY DEF Flusher
  <2>2. pc[s] # "built" => Active(s)
      BY <1>3 DEF Active, TransferLabels
  <2> QED BY <1>3, <1>4, <2>1, <2>2 DEF IInv, Chain, Flushing
<1>6. PICK g \in Flusher : new[g] = s
    BY <1>2, <1>5 DEF Settled
<1>7. new[g] # None
    BY <1>6, MoveSingleAssumption
<1> QED BY <1>1, <1>4, <1>6, <1>7, OnlyFiller

\* The table that f fills stays as it is, and f goes on with it.
LEMMA FillsKept ==
    ASSUME NEW f \in Flusher, NEW t \in Table, Fills(f, t),
           \/ pc'[f] = pc[f] /\ desc'[f] = desc[f]
           \/ pc[f] \in {"take", "paint"} /\ pc'[f] \in {"take", "paint", "isolate", "move"},
           descs'[t] = descs[t], slots'[t] = slots[t], list'[t] = list[t],
           todo'[t] = todo[t], migs'[t] = migs[t], gone'[t] = gone[t], retry'[t] = retry[t],
           list[t] \in Seq(Page)
    PROVE  Fills(f, t)'
<1>1. MigPages(t)' = MigPages(t) /\ Elems(list[t])' = Elems(list[t]) /\ Elems(todo[t])' = Elems(todo[t])
      /\ Elems(slots[t])' = Elems(slots[t])
    BY DEF MigPages, Elems
<1>2. Wanted(f, t)' = Wanted(f, t)
    BY DEF Wanted, Elems
<1>3. Tidy(t)' <=> Tidy(t)
    BY DEF Tidy
<1>4. Waiting(t)' <=> Waiting(t)
    BY DEF Waiting
<1>5. Doomed(t)' <=> Doomed(t)
    BY <1>1 DEF Doomed
<1>6. CASE pc'[f] = pc[f]
    BY <1>1, <1>2, <1>3, <1>4, <1>5, <1>6 DEF Fills
<1>7. CASE pc[f] \in {"take", "paint"} /\ pc'[f] \in {"take", "paint", "isolate", "move"}
  <2>1. ~gone[t] /\ ~retry[t] /\ migs[t] = <<>> /\ todo[t] = list[t] /\ descs[t] # <<>>
      BY <1>7 DEF Fills
  <2>2. Tidy(t)
      BY <2>1 DEF Tidy
  <2> QED BY <1>1, <1>2, <1>3, <1>7, <2>1, <2>2 DEF Fills
<1> QED BY <1>6, <1>7

LEMMA SentKept ==
    ASSUME NEW t \in Table, Sent(t), UNCHANGED <<migs, node, mapped, locked>>,
           \A r \in Elems(descs'[t]) : r \in Elems(descs[t])
    PROVE  Sent(t)'
<1>1. MigPages(t)' = MigPages(t)
    BY DEF MigPages
<1>2. \A p \in Page, r \in Req : Moved(p, r)' <=> Moved(p, r)
    BY DEF Moved
<1> QED BY <1>1, <1>2 DEF Sent, Moved

\* Steps that leave alone what the requests and the tables say.
LEMMA MatchedKept ==
    ASSUME IInv, Matched,
           UNCHANGED <<region, pc, filling, list, todo, migs, gone, retry, node, mapped, locked>>
    PROVE  Matched'
<1> USE DEF region, filling
<1>1. Places'
    BY DEF Matched, Places, Once, Elems, Hand
<1>2. Settled'
    BY DEF Matched, Settled, MigPages
<1>3. \A f \in Flusher, t \in Table : new'[f] = t => Fills(f, t)'
    BY FillsKept DEF Matched, IInv, TypeOK
<1>4. \A t \in Table : pc'[t] \in Sending => Sent(t)'
    BY SentKept DEF Matched
<1>5. Completed'
    BY DEF Matched, Completed, Moved
<1> QED BY <1>1, <1>2, <1>3, <1>4, <1>5 DEF Matched

-----------------------------------------------------------------------------
\* The pages of a table are those of its transfers.
LEMMA MigOf == \A t \in Table : MigPages(t) = {m.page : m \in Elems(migs[t])}
    BY DEF MigPages, Elems

LEMMA PlacesKept ==
    ASSUME Places, UNCHANGED <<free, qreq, qissued, qcomp, desc>>,
           \A g \in Flusher : desc[g] # None => pc'[g] \in {"isolate", "issue"}
    PROVE  Places'
    BY DEF Places, Once, Elems, Hand

LEMMA CompletedKept ==
    ASSUME Completed, UNCHANGED <<qcomp, node, mapped, locked>>
    PROVE  Completed'
    BY DEF Completed, Moved, Elems

\* A request in qreq, in a hand, in qissued or in qcomp is not free.
LEMMA NotFree ==
    ASSUME Places, IInv
    PROVE  /\ Elems(qreq) \cup Elems(qissued) \cup Elems(qcomp) \cup Hand \subseteq Req \ free
           /\ \A q, r \in Req \ free : \A p \in Elems(PagesOf[q]) : p \in Elems(PagesOf[r]) => q = r
<1>1. Elems(qreq) \cup Elems(qissued) \cup Elems(qcomp) \cup Hand \subseteq Req
    BY DEF IInv, TypeOK, Elems, Hand
<1> QED BY <1>1 DEF Places

\* Nothing is sent while somebody fills a table, and nobody fills one while
\* something is sent.
LEMMA OneActive ==
    ASSUME IInv, ~Bugged, NEW f \in Flusher, Active(f)
    PROVE  /\ \A g \in Flusher, t \in Table : new[g] = t => g = f
           /\ pc[f] \in Flushing => \A t \in Table : pc[t] \notin Sending
           /\ pc[f] \in TransferLabels => \A g \in Flusher, t \in Table : new[g] # t
           /\ \A t \in Table : t # f => pc[t] \notin Sending
<1>1. \A t \in Table : t \in Flusher /\ t # None
    BY MoveSingleAssumption DEF Flusher
<1>2. \A t \in Table : pc[t] \in Sending => Active(t)
    BY DEF Sending, Active, TransferLabels
<1>3. \A g \in Flusher : new[g] # None => Active(g) /\ pc[g] \in Flushing
    BY OnlyFiller
<1>4. \A g \in Flusher : Active(g) => g = f
    BY DEF IInv, Chain
<1>5. Flushing \cap (TransferLabels \cup Sending) = {}
    BY DEF Flushing, TransferLabels, Sending
<1> QED BY <1>1, <1>2, <1>3, <1>4, <1>5

\* Only the label of f changes.
LEMMA LabelMatched ==
    ASSUME IInv, Matched, NEW f \in Flusher, NEW x,
           pc' = [pc EXCEPT ![f] = x],
           pc[f] \notin {"isolate", "issue", "built", "free"}, x \notin {"isolate", "issue", "built", "free"},
           new[f] # None => pc[f] \in {"take", "paint"} /\ x \in {"take", "paint", "move"},
           x \in Sending => pc[f] \in Sending,
           UNCHANGED <<free, qreq, qissued, qcomp, filling, list, todo, migs, gone, retry, node,
                       mapped, locked>>
    PROVE  Matched'
<1> USE DEF filling
<1>1. pc'[f] = x /\ \A g \in Flusher : g # f => pc'[g] = pc[g]
    BY DEF IInv, TypeOK
<1>2. Places'
    BY <1>1, PlacesKept DEF Matched, Places
<1>3. Settled'
  <2>1. \A t \in Table : t \in Flusher /\ MigPages(t)' = MigPages(t)
      BY DEF Flusher, MigPages
  <2> QED BY <1>1, <2>1 DEF Matched, Settled
<1>4. ASSUME NEW g \in Flusher, NEW t \in Table, new'[g] = t PROVE Fills(g, t)'
  <2>1. Fills(g, t) /\ new[g] # None /\ list[t] \in Seq(Page)
      BY <1>4, MoveSingleAssumption DEF Matched, IInv, TypeOK
  <2>2. \/ pc'[g] = pc[g] /\ desc'[g] = desc[g]
        \/ pc[g] \in {"take", "paint"} /\ pc'[g] \in {"take", "paint", "isolate", "move"}
      BY <1>1, <2>1
  <2> QED BY <2>1, <2>2, FillsKept
<1>5. ASSUME NEW t \in Table, pc'[t] \in Sending PROVE Sent(t)'
  <2>1. pc[t] \in Sending
      BY <1>1, <1>5 DEF Flusher
  <2> QED BY <2>1, SentKept DEF Matched
<1>6. Completed'
    BY CompletedKept DEF Matched
<1> QED BY <1>2, <1>3, <1>4, <1>5, <1>6 DEF Matched

\* The steps that only change labels.
LEMMA LabelsMatched ==
    ASSUME IInv, Matched, ~Bugged, ~Bugged',
           \/ Kick \/ DmaDone
           \/ \E f \in Flusher : FlushEmpty(f) \/ FlushPaint(f) \/ FlushPut(f)
           \/ pc[Usr] = "unlock" /\ FlushUnlock(Usr)
           \/ \E t \in Table : Callback(t) \/ Remapped(t) \/ Reported(t) \/ Look(t)
    PROVE  Matched'
<1> USE DEF Goto, region
<1>1. \A f \in Flusher : new[f] # None => pc[f] \in Flushing
    BY OnlyFiller
<1>2. Usr \in Flusher /\ Table \subseteq Flusher
    BY DEF Flusher
<1>3. CASE Kick
    BY <1>1, <1>2, <1>3, LabelMatched DEF Kick, Flushing, Sending, moving, pages
<1>4. CASE DmaDone
  <2>1. PICK t \in Table : t = Head(chan) /\ pc[t] = "dma"
      BY <1>4, InChan, Popped DEF DmaDone, IInv, TypeOK
  <2> QED BY <1>1, <1>2, <1>4, <2>1, LabelMatched DEF DmaDone, Flushing, Sending, moving, pages
<1>5. ASSUME NEW f \in Flusher, FlushEmpty(f) PROVE Matched'
  <2>1. PICK x \in {"move", "paint"} : x = IF f # Usr /\ new[f] # None THEN "move" ELSE "paint"
      OBVIOUS
  <2> QED BY <1>5, <2>1, LabelMatched DEF FlushEmpty, Sending, moving, pages
<1>6. ASSUME NEW f \in Flusher, FlushPaint(f) PROVE Matched'
  <2>1. PICK x : x = CASE qreq # <<>> -> "take"
                       [] qreq = <<>> /\ color # OldColor(f) -> "bug_color"
                       [] OTHER -> IF new[f] = None THEN "put" ELSE "move"
      OBVIOUS
  <2>2. pc' = [pc EXCEPT ![f] = x] /\ pc'[f] = x
      BY <1>6, <2>1 DEF FlushPaint, IInv, TypeOK
  <2>3. x # "bug_color"
      BY <2>2 DEF Bugged, BugLabels
  <2>4. x \in {"take", "put", "move"} /\ (new[f] # None => x \in {"take", "move"})
      BY <2>1, <2>3
  <2> QED BY <1>6, <2>2, <2>4, LabelMatched DEF FlushPaint, Sending, moving, pages
<1>7. ASSUME NEW f \in Flusher, FlushPut(f) PROVE Matched'
    BY <1>1, <1>7, LabelMatched DEF FlushPut, Flushing, Sending, moving, pages
<1>8. CASE pc[Usr] = "unlock" /\ FlushUnlock(Usr)
    BY <1>1, <1>2, <1>8, LabelMatched DEF FlushUnlock, Flushing, Sending, moving, pages, filling
<1>9. ASSUME NEW t \in Table, Callback(t) PROVE Matched'
    BY <1>1, <1>2, <1>9, LabelMatched DEF Callback, Flushing, Sending, moving, pages
<1>10. ASSUME NEW t \in Table, Remapped(t) PROVE Matched'
    BY <1>1, <1>2, <1>10, LabelMatched DEF Remapped, Flushing, Sending, moving, pages
<1>11. ASSUME NEW t \in Table, Reported(t) PROVE Matched'
    BY <1>1, <1>2, <1>11, LabelMatched DEF Reported, Flushing, Sending, moving, pages
<1>12. ASSUME NEW t \in Table, Look(t) PROVE Matched'
  <2>1. color = KER
      BY <1>2, <1>12, OnlyOne DEF Look, IInv, Colors, Active, TransferLabels
  <2> QED BY <1>1, <1>2, <1>12, <2>1, LabelMatched DEF Look, Flushing, Sending, moving, pages, filling
<1> QED BY <1>3, <1>4, <1>5, <1>6, <1>7, <1>8, <1>9, <1>10, <1>11, <1>12

-----------------------------------------------------------------------------
LEMMA Primed ==
    /\ Elems(qreq)' = Elems(qreq') /\ Elems(qissued)' = Elems(qissued') /\ Elems(qcomp)' = Elems(qcomp')
    /\ Once(qreq)' <=> Once(qreq')
    /\ Once(qissued)' <=> Once(qissued')
    /\ Once(qcomp)' <=> Once(qcomp')
    BY DEF Elems, Once

\* What is filled and what is sent stays as it is.
LEMMA TablesMatched ==
    ASSUME IInv, Matched, UNCHANGED <<new, descs, slots, list, todo, migs, gone, retry, node, mapped, locked>>,
           \A f \in Flusher : new[f] # None => pc'[f] = pc[f] /\ desc'[f] = desc[f],
           \A t \in Table : pc'[t] \in Sending => pc[t] \in Sending
    PROVE  /\ \A f \in Flusher, t \in Table : new'[f] = t => Fills(f, t)'
           /\ \A t \in Table : pc'[t] \in Sending => Sent(t)'
<1>1. ASSUME NEW g \in Flusher, NEW t \in Table, new'[g] = t PROVE Fills(g, t)'
  <2>1. Fills(g, t) /\ new[g] # None /\ list[t] \in Seq(Page)
      BY <1>1, MoveSingleAssumption DEF Matched, IInv, TypeOK
  <2> QED BY <2>1, FillsKept
<1>2. ASSUME NEW t \in Table, pc'[t] \in Sending PROVE Sent(t)'
    BY <1>2, SentKept DEF Matched
<1> QED BY <1>1, <1>2

LEMMA SubmitMatched == ASSUME IInv, Matched, ~Bugged, NEW r \in Req, Submit(r) PROVE Matched'
<1>1. /\ pc[Usr] = "idle" /\ r \in free /\ qreq' = Append(qreq, r) /\ free' = free \ {r}
      /\ Elems(PagesOf[r]) \cap PagesIn(Req \ free) = {}
      /\ UNCHANGED <<qissued, qcomp, desc, new, descs, slots, list, todo, migs, gone, retry,
                     node, mapped, locked>>
    BY DEF Submit, filling, moving, pages
<1>2. /\ pc'[Usr] \in {"kick", "idle"} /\ Usr \in Flusher
      /\ \A f \in Flusher : f # Usr => pc'[f] = pc[f]
      /\ \A t \in Table : t \in Flusher /\ pc'[t] = pc[t]
    BY MoveSingleAssumption DEF Submit, Goto, IInv, TypeOK, Flusher
<1>3. Places'
  <2>1. /\ Elems(qreq') = Elems(qreq) \cup {r} /\ (Once(qreq) /\ r \notin Elems(qreq) => Once(qreq'))
      BY <1>1, ElemsAppend DEF IInv, TypeOK
  <2>2. r \notin Elems(qreq) \cup Elems(qissued) \cup Elems(qcomp) \cup Hand
      BY <1>1 DEF Matched, Places
  <2>3. Once(qreq)' /\ Once(qissued)' /\ Once(qcomp)' /\ Hand' = Hand
        /\ Elems(qreq)' = Elems(qreq) \cup {r} /\ Elems(qissued)' = Elems(qissued) /\ Elems(qcomp)' = Elems(qcomp)
      BY <1>1, <2>1, <2>2, Primed DEF Matched, Places, Hand
  <2>4. \A q \in Req \ free : Elems(PagesOf[r]) \cap Elems(PagesOf[q]) = {}
      BY <1>1 DEF PagesIn
  <2>5. \A q, s \in Req \ free' : q # s => Elems(PagesOf[q]) \cap Elems(PagesOf[s]) = {}
    <3>1. Req \ free' \subseteq (Req \ free) \cup {r}
        BY <1>1
    <3> QED BY <2>4, <3>1 DEF Matched, Places
  <2>6. \A f \in Flusher : desc'[f] # None => pc'[f] \in {"isolate", "issue"}
      BY <1>1, <1>2 DEF Matched, Places
  <2>7. /\ (Elems(qreq) \cup {r}) \cap Elems(qissued) = {} /\ (Elems(qreq) \cup {r}) \cap Elems(qcomp) = {}
        /\ Hand \cap ((Elems(qreq) \cup {r}) \cup Elems(qissued) \cup Elems(qcomp)) = {}
      BY <2>2 DEF Matched, Places
  <2>8. free' \cap ((Elems(qreq) \cup {r}) \cup Elems(qissued) \cup Elems(qcomp) \cup Hand) = {}
      BY <1>1, <2>2 DEF Matched, Places
  <2>9. Elems(qissued) \cap Elems(qcomp) = {}
      BY DEF Matched, Places
  <2> QED BY <2>3, <2>5, <2>6, <2>7, <2>8, <2>9 DEF Places
<1>4. Settled'
    BY <1>1, <1>2 DEF Matched, Settled, MigPages
<1>5. new[Usr] = None
    BY <1>1, <1>2, OnlyFiller DEF Flushing
<1> QED BY <1>1, <1>2, <1>3, <1>4, <1>5, TablesMatched, CompletedKept DEF Matched

LEMMA CollectMatched == ASSUME IInv, Matched, ~Bugged, Collect PROVE Matched'
<1>1. /\ qcomp \in Seq(Req) /\ qcomp # <<>> /\ qcomp' = Tail(qcomp) /\ free' = free \cup {Head(qcomp)}
      /\ UNCHANGED <<qreq, qissued, pc, desc, new, descs, slots, list, todo, migs, gone, retry,
                     node, mapped, locked>>
    BY DEF Collect, IInv, TypeOK, filling, moving, pages
<1>2. PICK r \in Req : r = Head(qcomp)
    BY <1>1, ElemsTail
<1>3. /\ Elems(qcomp) = Elems(qcomp') \cup {r}
      /\ Once(qcomp) => Once(qcomp') /\ r \notin Elems(qcomp')
    BY <1>1, <1>2, ElemsTail
<1>4. Places'
  <2>1. Once(qreq)' /\ Once(qissued)' /\ Once(qcomp)' /\ Hand' = Hand /\ r \notin Elems(qcomp)'
        /\ Elems(qreq)' = Elems(qreq) /\ Elems(qissued)' = Elems(qissued)
        /\ Elems(qcomp) = Elems(qcomp)' \cup {r}
      BY <1>1, <1>3, Primed DEF Matched, Places, Hand
  <2>2. \A q, s \in Req \ free' : q # s => Elems(PagesOf[q]) \cap Elems(PagesOf[s]) = {}
      BY <1>1 DEF Matched, Places
  <2>3. \A f \in Flusher : desc'[f] # None => pc'[f] \in {"isolate", "issue"}
      BY <1>1 DEF Matched, Places
  <2> QED BY <1>1, <1>2, <2>1, <2>2, <2>3 DEF Matched, Places
<1>5. Settled'
    BY <1>1 DEF Matched, Settled, MigPages
<1>6. Completed'
    BY <1>1, <1>3 DEF Matched, Completed, Moved
<1> QED BY <1>1, <1>4, <1>5, <1>6, TablesMatched DEF Matched

\* do_dma_complete frees its table.
LEMMA UnlockMatched ==
    ASSUME IInv, Matched, ~Bugged, NEW t \in Table, pc[t] = "unlock", FlushUnlock(t) PROVE Matched'
<1>1. /\ t \in Flusher /\ t # Usr
      /\ pc' = [pc EXCEPT ![t] = "free"]
      /\ slots' = [slots EXCEPT ![t] = <<>>] /\ list' = [list EXCEPT ![t] = <<>>]
      /\ UNCHANGED <<free, qreq, qissued, qcomp, desc, new, descs, todo, migs, gone, retry,
                     node, mapped, locked>>
    BY MoveSingleAssumption DEF FlushUnlock, ClearTable, Goto, Flusher, filling, moving, pages, region
<1>2. /\ pc'[t] = "free" /\ \A g \in Flusher : g # t => pc'[g] = pc[g]
      /\ slots'[t] = <<>> /\ list'[t] = <<>>
      /\ \A s \in Table : s # t => slots'[s] = slots[s] /\ list'[s] = list[s] /\ pc'[s] = pc[s]
    BY <1>1 DEF IInv, TypeOK, Flusher
<1>3. \A f \in Flusher : new[f] # t
    BY Filled, MoveSingleAssumption
<1>4. Places'
    BY <1>1, <1>2, PlacesKept DEF Matched, Places
<1>5. Settled'
    BY <1>1, <1>2 DEF Matched, Settled, MigPages
<1>6. new[t] = None
    BY <1>1, OnlyFiller DEF Flushing
<1>7. ASSUME NEW g \in Flusher, NEW s \in Table, new'[g] = s PROVE Fills(g, s)'
  <2>1. Fills(g, s) /\ s # t /\ g # t /\ list[s] \in Seq(Page)
      BY <1>1, <1>3, <1>6, <1>7, MoveSingleAssumption DEF Matched, IInv, TypeOK
  <2> QED BY <1>1, <1>2, <2>1, FillsKept
<1>8. ASSUME NEW s \in Table, pc'[s] \in Sending PROVE Sent(s)'
    BY <1>1, <1>2, <1>8, SentKept DEF Matched, Sending
<1>9. Completed'
    BY <1>1, CompletedKept DEF Matched
<1> QED BY <1>4, <1>5, <1>7, <1>8, <1>9 DEF Matched

LEMMA TakeMatched == ASSUME IInv, Matched, ~Bugged, NEW f \in Flusher, FlushTake(f) PROVE Matched'
<1>1. /\ pc[f] = "take" /\ qreq \in Seq(Req) /\ qreq # <<>> /\ qreq' = Tail(qreq)
      /\ desc' = [desc EXCEPT ![f] = Head(qreq)]
      /\ UNCHANGED <<free, qissued, qcomp, descs, slots, list, todo, migs, gone, retry, node, mapped, locked>>
    BY DEF FlushTake, IInv, TypeOK, moving, pages
<1>2. PICK r \in Req : r = Head(qreq)
    BY <1>1, ElemsTail
<1>3. Elems(qreq) = Elems(qreq') \cup {r} /\ (Once(qreq) => Once(qreq') /\ r \notin Elems(qreq'))
    BY <1>1, <1>2, ElemsTail
<1>4. desc'[f] = r /\ \A g \in Flusher : g # f => desc'[g] = desc[g]
    BY <1>1, <1>2 DEF IInv, TypeOK
<1>5. Active(f) /\ pc[f] \in Flushing
    BY <1>1 DEF Active, Flushing
<1>6. Hand' \subseteq Hand \cup {r}
    BY <1>4 DEF Hand
<1>7. ASSUME pc'[f] = "isolate", \A g \in Flusher : g # f => pc'[g] = pc[g] \/ pc[g] = "free"
      PROVE  Places'
  <2>1. Once(qreq)' /\ Once(qissued)' /\ Once(qcomp)' /\ r \notin Elems(qreq)'
        /\ Elems(qreq) = Elems(qreq)' \cup {r} /\ Elems(qissued)' = Elems(qissued)
        /\ Elems(qcomp)' = Elems(qcomp) /\ free' = free
      BY <1>1, <1>3, Primed DEF Matched, Places
  <2>2. \A g \in Flusher : desc'[g] # None => pc'[g] \in {"isolate", "issue"}
      BY <1>4, <1>7 DEF Matched, Places
  <2>3. r \notin free /\ r \notin Elems(qissued) \cup Elems(qcomp)
      BY <2>1 DEF Matched, Places
  <2>4. \A q, s \in Req \ free' : q # s => Elems(PagesOf[q]) \cap Elems(PagesOf[s]) = {}
      BY <1>1 DEF Matched, Places
  <2>5. Hand' \cap (Elems(qreq)' \cup Elems(qissued)' \cup Elems(qcomp)' \cup free') = {}
      BY <1>6, <2>1, <2>3 DEF Matched, Places
  <2> QED BY <2>1, <2>2, <2>4, <2>5 DEF Matched, Places
<1>8. Completed'
    BY <1>1, CompletedKept DEF Matched
<1>9. CASE new[f] # None
  <2>1. /\ pc'[f] = "isolate" /\ new' = new /\ (\A g \in Flusher : g # f => pc'[g] = pc[g])
        /\ Table \subseteq Flusher
      BY <1>9 DEF FlushTake, Goto, IInv, TypeOK, Flusher
  <2>2. Settled'
      BY <1>1, <2>1 DEF Matched, Settled, MigPages
  <2>3. ASSUME NEW g \in Flusher, NEW s \in Table, new'[g] = s PROVE Fills(g, s)'
    <3>1. Fills(g, s) /\ list[s] \in Seq(Page)
        BY <2>1, <2>3 DEF Matched, IInv, TypeOK
    <3>2. \/ pc'[g] = pc[g] /\ desc'[g] = desc[g]
          \/ pc[g] \in {"take", "paint"} /\ pc'[g] \in {"take", "paint", "isolate", "move"}
        BY <1>1, <1>4, <2>1
    <3> QED BY <1>1, <3>1, <3>2, FillsKept
  <2>4. ASSUME NEW s \in Table, pc'[s] \in Sending PROVE Sent(s)'
      BY <1>1, <2>1, <2>4, SentKept DEF Matched, Sending
  <2> QED BY <1>7, <1>8, <2>1, <2>2, <2>3, <2>4 DEF Matched
<1>10. CASE new[f] = None
  <2>1. PICK t \in Table : t = Fresh /\ pc[t] = "free"
      BY <1>10 DEF FlushTake, Fresh
  <2>2. t \in Flusher /\ t # f /\ Table \subseteq Flusher
      BY <1>1, <2>1 DEF Flusher
  <2>3. /\ pc'[f] = "isolate" /\ pc'[t] = "built"
        /\ \A g \in Flusher : g # f /\ g # t => pc'[g] = pc[g]
        /\ new'[f] = t /\ \A g \in Flusher : g # f => new'[g] = new[g]
      BY <1>10, <2>1, <2>2 DEF FlushTake, IInv, TypeOK
  <2>4. /\ list[t] = <<>> /\ slots[t] = <<>> /\ todo[t] = <<>> /\ migs[t] = <<>> /\ descs[t] = <<>>
        /\ ~gone[t] /\ ~retry[t]
      BY <2>1 DEF Matched, Settled, IInv, Tables, Issued
  <2>5. Settled'
    <3>1. /\ \A s \in Table : s # t /\ s # f => pc'[s] = pc[s]
          /\ \A s \in Table : MigPages(s)' = MigPages(s)
        BY <1>1, <2>2, <2>3 DEF MigPages
    <3>2. ASSUME NEW s \in Table, pc'[s] = "built", migs'[s] # <<>> PROVE \E g \in Flusher : new'[g] = s
      <4>1. pc[s] = "built" /\ migs[s] # <<>> /\ s # t
          BY <1>1, <2>3, <2>4, <3>1, <3>2
      <4>2. PICK g \in Flusher : new[g] = s
          BY <4>1 DEF Matched, Settled
      <4>3. g # f
          BY <1>10, <4>2, MoveSingleAssumption
      <4> QED BY <2>3, <4>2, <4>3
    <3>3. \A s \in Table : pc'[s] # "built" => ~gone'[s] /\ ~retry'[s]
        BY <1>1, <2>3, <3>1 DEF Matched, Settled
    <3>4. \A s \in Table : pc'[s] = "free" => list'[s] = <<>> /\ slots'[s] = <<>>
        BY <1>1, <2>3, <3>1 DEF Matched, Settled
    <3>5. \A p \in Page \ mapped' : \E s \in Table : p \in MigPages(s)'
        BY <1>1, <3>1 DEF Matched, Settled
    <3> QED BY <3>2, <3>3, <3>4, <3>5 DEF Settled
  <2>6. ASSUME NEW g \in Flusher, NEW s \in Table, new'[g] = s PROVE Fills(g, s)'
    <3>1. g = f /\ s = t
        BY <1>5, <2>3, <2>6, OneActive
    <3>2. Wanted(f, t)' = {}
        BY <1>1, <2>3, <2>4 DEF Wanted, Elems
    <3>3. MigPages(t)' = {} /\ Elems(list[t])' = {} /\ Elems(todo[t])' = {} /\ Elems(slots[t])' = {}
        BY <1>1, <2>4 DEF MigPages, Elems
    <3> QED BY <1>1, <2>3, <2>4, <3>1, <3>2, <3>3 DEF Fills
  <2>7. ASSUME NEW s \in Table, pc'[s] \in Sending PROVE Sent(s)'
      BY <1>1, <2>2, <2>3, <2>7, SentKept DEF Matched, Sending
  <2> QED BY <1>7, <1>8, <2>1, <2>3, <2>5, <2>6, <2>7 DEF Matched
<1> QED BY <1>9, <1>10

-----------------------------------------------------------------------------
LEMMA IssueMatched == ASSUME IInv, Matched, ~Bugged, NEW f \in Flusher, FlushIssue(f) PROVE Matched'
<1>1. PICK t \in Table, r \in Req : t = new[f] /\ r = desc[f]
    BY DEF FlushIssue, IInv, Chain
<1>2. /\ pc[f] = "issue" /\ qissued' = Append(qissued, r) /\ pc' = [pc EXCEPT ![f] = "take"]
      /\ descs' = [descs EXCEPT ![t] = Append(descs[t], r)] /\ desc' = [desc EXCEPT ![f] = None]
      /\ UNCHANGED <<free, qreq, qcomp, new, slots, list, todo, migs, gone, retry, node, mapped, locked>>
    BY <1>1 DEF FlushIssue, Goto, moving, pages
<1>3. /\ pc'[f] = "take" /\ desc'[f] = None
      /\ \A g \in Flusher : g # f => pc'[g] = pc[g] /\ desc'[g] = desc[g]
      /\ descs[t] \in Seq(Req) /\ descs'[t] = Append(descs[t], r)
      /\ Table \subseteq Flusher
    BY <1>2 DEF IInv, TypeOK, Flusher
<1>4. Active(f) /\ pc[f] \in Flushing
    BY <1>2 DEF Active, Flushing
<1>5. \A g \in Flusher : g # f => desc[g] = None
  <2> SUFFICES ASSUME NEW g \in Flusher, desc[g] # None PROVE g = f
      OBVIOUS
  <2>1. Active(g)
      BY DEF Matched, Places, Active, Flushing
  <2> QED BY <1>4, <2>1 DEF IInv, Chain
<1>6. Elems(qissued') = Elems(qissued) \cup {r} /\ (Once(qissued) /\ r \notin Elems(qissued) => Once(qissued'))
    BY <1>2, ElemsAppend DEF IInv, TypeOK
<1>7. Elems(descs'[t]) = Elems(descs[t]) \cup {r} /\ descs'[t] # <<>>
    BY <1>3, ElemsAppend, Appended
<1>8. Places'
  <2>1. r \in Hand /\ Hand' = {}
      BY <1>1, <1>3, <1>5, MoveSingleAssumption DEF Hand
  <2>2. r \notin free /\ r \notin Elems(qreq) \cup Elems(qissued) \cup Elems(qcomp)
      BY <2>1 DEF Matched, Places
  <2>3. Once(qreq)' /\ Once(qissued)' /\ Once(qcomp)' /\ Elems(qreq)' = Elems(qreq)
        /\ Elems(qissued)' = Elems(qissued) \cup {r} /\ Elems(qcomp)' = Elems(qcomp)
      BY <1>2, <1>6, <2>2, Primed DEF Matched, Places
  <2>4. \A g \in Flusher : desc'[g] # None => pc'[g] \in {"isolate", "issue"}
      BY <1>3, <1>5
  <2>5. \A q, s \in Req \ free' : q # s => Elems(PagesOf[q]) \cap Elems(PagesOf[s]) = {}
      BY <1>2 DEF Matched, Places
  <2>6. /\ Elems(qreq) \cap (Elems(qissued) \cup {r}) = {} /\ (Elems(qissued) \cup {r}) \cap Elems(qcomp) = {}
        /\ free \cap (Elems(qreq) \cup (Elems(qissued) \cup {r}) \cup Elems(qcomp)) = {}
        /\ Elems(qreq) \cap Elems(qcomp) = {}
      BY <2>2 DEF Matched, Places
  <2> QED BY <1>2, <2>1, <2>3, <2>4, <2>5, <2>6 DEF Places
<1>9. Settled'
    BY <1>2, <1>3 DEF Matched, Settled, MigPages
<1>10. ASSUME NEW g \in Flusher, NEW s \in Table, new'[g] = s PROVE Fills(g, s)'
  <2>1. g = f /\ s = t
      BY <1>1, <1>2, <1>4, <1>10, OneActive
  <2>2. Fills(f, t)
      BY <1>1 DEF Matched
  <2>3. Wanted(f, t) = Elems(descs[t]) \cup {r}
      BY <1>1, <1>2 DEF Wanted
  <2>4. Wanted(f, t)' = Elems(descs'[t])
    <3>1. Wanted(f, t)' = Elems(descs[t])' \cup {}
        BY <1>3 DEF Wanted
    <3> QED BY <3>1 DEF Elems
  <2>5. /\ MigPages(t)' = MigPages(t) /\ Elems(list[t])' = Elems(list[t]) /\ Elems(todo[t])' = Elems(todo[t])
        /\ Elems(slots[t])' = Elems(slots[t])
      BY <1>2 DEF MigPages, Elems
  <2>6. Wanted(f, t)' = Wanted(f, t)
      BY <1>7, <2>3, <2>4
  <2> QED BY <1>2, <1>3, <1>7, <2>1, <2>2, <2>5, <2>6 DEF Fills
<1>11. ASSUME NEW s \in Table, pc'[s] \in Sending PROVE Sent(s)'
  <2>1. pc[s] \in Sending
      BY <1>3, <1>11 DEF Sending
  <2> QED BY <1>4, <2>1, OneActive
<1> QED BY <1>2, <1>8, <1>9, <1>10, <1>11, CompletedKept DEF Matched

\* The entries of a sequence that two are joined to.
LEMMA ElemsJoined ==
    ASSUME NEW S, NEW s \in Seq(S), NEW more \in Seq(S)
    PROVE  /\ Elems(s \o more) = Elems(s) \cup Elems(more)
           /\ DOMAIN (s \o more) = 1 .. Len(s) + Len(more)
           /\ \A i \in 1 .. Len(s) : (s \o more)[i] = s[i]
           /\ \A i \in 1 .. Len(s) + Len(more) : i \notin 1 .. Len(s) =>
                  i - Len(s) \in 1 .. Len(more) /\ (s \o more)[i] = more[i - Len(s)]
<1>1. /\ Len(s) \in Nat /\ Len(more) \in Nat /\ DOMAIN s = 1 .. Len(s) /\ DOMAIN more = 1 .. Len(more)
      /\ DOMAIN (s \o more) = 1 .. Len(s) + Len(more)
    OBVIOUS
<1>2. \A i \in 1 .. Len(s) : (s \o more)[i] = s[i]
    BY <1>1
<1>3. \A i \in 1 .. Len(s) + Len(more) : i \notin 1 .. Len(s) =>
          i - Len(s) \in 1 .. Len(more) /\ (s \o more)[i] = more[i - Len(s)]
  <2> SUFFICES ASSUME NEW i \in 1 .. Len(s) + Len(more), i \notin 1 .. Len(s)
               PROVE  i - Len(s) \in 1 .. Len(more) /\ (s \o more)[i] = more[i - Len(s)]
      OBVIOUS
  <2>1. i - Len(s) \in 1 .. Len(more)
      BY <1>1
  <2> QED BY <1>1, <2>1
<1>4. Elems(s \o more) \subseteq Elems(s) \cup Elems(more)
    BY <1>1, <1>2, <1>3 DEF Elems
<1>5. \A j \in 1 .. Len(more) : j + Len(s) \in 1 .. Len(s) + Len(more) /\ (s \o more)[j + Len(s)] = more[j]
  <2> SUFFICES ASSUME NEW j \in 1 .. Len(more)
               PROVE  j + Len(s) \in 1 .. Len(s) + Len(more) /\ (s \o more)[j + Len(s)] = more[j]
      OBVIOUS
  <2>1. j + Len(s) \in 1 .. Len(s) + Len(more) /\ j + Len(s) \notin 1 .. Len(s) /\ (j + Len(s)) - Len(s) = j
      BY <1>1
  <2> QED BY <1>3, <2>1
<1>6. \A i \in 1 .. Len(s) : i \in 1 .. Len(s) + Len(more)
    BY <1>1
<1>7. Elems(s) \cup Elems(more) \subseteq Elems(s \o more)
    BY <1>1, <1>2, <1>5, <1>6 DEF Elems
<1> QED BY <1>1, <1>2, <1>3, <1>4, <1>7

\* Its pages are appended to the list, and as many slots that say its number.
LEMMA IsolateMatched ==
    ASSUME IInv, Matched, ~Bugged, ~Bugged', NEW f \in Flusher, FlushIsolate(f) PROVE Matched'
<1>1. PICK t \in Table, r \in Req : t = new[f] /\ r = desc[f]
    BY DEF FlushIsolate, IInv, Chain
<1>2. PICK more \in Seq(Page) : more = PagesOf[r]
    BY MoveSingleAssumption
<1>3. PICK tags : tags = [i \in DOMAIN more |-> r]
    OBVIOUS
<1>4. pc'[f] \notin BugLabels /\ pc[f] = "isolate"
    BY DEF Bugged, FlushIsolate
<1>5. /\ pc' = [pc EXCEPT ![f] = "issue"]
      /\ list' = [list EXCEPT ![t] = list[t] \o more] /\ todo' = [todo EXCEPT ![t] = todo[t] \o more]
      /\ slots' = [slots EXCEPT ![t] = slots[t] \o tags]
  <2>1. "bug_page" \in BugLabels /\ "bug_sg" \in BugLabels /\ pc \in [Flusher -> Labels]
      BY DEF BugLabels, IInv, TypeOK
  <2>2. ~\E p \in Elems(PagesOf[r]) : where[p] # "lru" \/ node[p] = NodeOf[r]
      BY <1>1, <1>4, <2>1 DEF FlushIsolate, Goto
  <2>3. ~(Len(slots[t]) + Len(PagesOf[r]) > MaxSG)
      BY <1>1, <1>4, <2>1, <2>2 DEF FlushIsolate, Goto
  <2> QED BY <1>1, <1>2, <1>3, <2>2, <2>3 DEF FlushIsolate, Goto
<1>6. UNCHANGED <<free, qreq, qissued, qcomp, desc, new, descs, migs, gone, retry, node, mapped, locked>>
    BY DEF FlushIsolate, region
<1>7. /\ pc'[f] = "issue" /\ \A g \in Flusher : g # f => pc'[g] = pc[g]
      /\ list[t] \in Seq(Page) /\ todo[t] \in Seq(Page) /\ slots[t] \in Seq(Req)
      /\ list'[t] = list[t] \o more /\ todo'[t] = todo[t] \o more /\ slots'[t] = slots[t] \o tags
      /\ \A s \in Table : s # t => list'[s] = list[s] /\ todo'[s] = todo[s] /\ slots'[s] = slots[s]
      /\ Table \subseteq Flusher
    BY <1>5 DEF IInv, TypeOK, Flusher
<1>8. Active(f) /\ pc[f] \in Flushing
    BY <1>4 DEF Active, Flushing
<1>9. pc[t] = "built" /\ pc'[t] = "built"
    BY <1>1, <1>4, <1>7, Filled, MoveSingleAssumption
<1>10. Places'
    BY <1>6, <1>7, PlacesKept DEF Matched, Places
<1>11. Settled'
  <2>1. \A s \in Table : MigPages(s)' = MigPages(s)
      BY <1>6 DEF MigPages
  <2>2. \A s \in Table : pc'[s] = "built" => pc[s] = "built"
      BY <1>7
  <2>3. \A s \in Table : pc'[s] = "free" => pc[s] = "free" /\ s # t
      BY <1>7, <1>9
  <2>4. \A s \in Table : pc'[s] # "built" => pc[s] # "built"
      BY <1>4, <1>7, <1>9
  <2>5. \A s \in Table : pc'[s] = "free" => list'[s] = <<>> /\ slots'[s] = <<>>
      BY <1>7, <2>3 DEF Matched, Settled
  <2> QED BY <1>6, <2>1, <2>2, <2>4, <2>5 DEF Matched, Settled
<1>12. /\ tags \in Seq(Req) /\ Len(tags) = Len(more) /\ DOMAIN tags = 1 .. Len(more)
       /\ \A i \in 1 .. Len(more) : tags[i] = r
    BY <1>3
<1>13. Fills(f, t)'
  <2>1. Fills(f, t) /\ ~gone[t] /\ ~retry[t] /\ migs[t] = <<>> /\ todo[t] = list[t]
      BY <1>1, <1>4 DEF Matched, Fills
  <2>2. Wanted(f, t) = Elems(descs[t]) /\ Wanted(f, t)' = Elems(descs[t]) \cup {r}
    <3>1. Wanted(f, t) = Elems(descs[t]) \cup {}
        BY <1>4 DEF Wanted
    <3>2. Wanted(f, t)' = Elems(descs[t])' \cup {r}
        BY <1>1, <1>6, <1>7 DEF Wanted
    <3> QED BY <1>6, <3>1, <3>2 DEF Elems
  <2>3. /\ Elems(list'[t]) = Elems(list[t]) \cup Elems(more)
        /\ Elems(todo'[t]) = Elems(list[t]) \cup Elems(more)
        /\ todo'[t] = list'[t]
      BY <1>7, <2>1, ElemsJoined
  <2>4. /\ Elems(slots'[t]) = Elems(slots[t]) \cup Elems(tags) /\ Elems(tags) \subseteq {r}
    <3>1. Elems(tags) \subseteq {r}
        BY <1>12 DEF Elems
    <3> QED BY <1>7, <1>12, <3>1, ElemsJoined
  <2>5. /\ MigPages(t)' = {} /\ Elems(list[t])' = Elems(list'[t]) /\ Elems(todo[t])' = Elems(todo'[t])
        /\ Elems(slots[t])' = Elems(slots'[t])
      BY <1>6, <2>1 DEF MigPages, Elems
  <2>6. /\ Len(list[t]) = Len(slots[t]) /\ Len(list[t]) \in Nat /\ Len(more) \in Nat
        /\ \A i \in 1 .. Len(list[t]) : list[t][i] \in Elems(PagesOf[slots[t][i]])
      BY <1>7, <2>1 DEF Fills
  <2>7. /\ Len(list'[t]) = Len(list[t]) + Len(more) /\ Len(slots'[t]) = Len(slots[t]) + Len(tags)
        /\ DOMAIN list'[t] = 1 .. Len(list[t]) + Len(more)
    <3>1. list[t] \o more \in Seq(Page) /\ Len(list[t] \o more) = Len(list[t]) + Len(more)
        BY <1>7, Joined
    <3>2. Len(slots[t] \o tags) = Len(slots[t]) + Len(tags)
        BY <1>7, <1>12, Joined
    <3>3. DOMAIN (list[t] \o more) = 1 .. Len(list[t]) + Len(more)
        BY <1>7, ElemsJoined
    <3> QED BY <1>7, <3>1, <3>2, <3>3
  <2>8. \A i \in DOMAIN list'[t] : list'[t][i] \in Elems(PagesOf[slots'[t][i]])
    <3> SUFFICES ASSUME NEW i \in DOMAIN list'[t] PROVE list'[t][i] \in Elems(PagesOf[slots'[t][i]])
        OBVIOUS
    <3>1. CASE i \in 1 .. Len(list[t])
      <4>1. list'[t][i] = list[t][i]
          BY <1>7, <2>7, <3>1, ElemsJoined
      <4>2. slots'[t][i] = slots[t][i]
          BY <1>7, <1>12, <2>6, <2>7, <3>1, ElemsJoined
      <4> QED BY <2>6, <3>1, <4>1, <4>2
    <3>2. CASE i \notin 1 .. Len(list[t])
      <4>1. i - Len(list[t]) \in 1 .. Len(more) /\ list'[t][i] = more[i - Len(list[t])]
          BY <1>7, <2>7, <3>2, ElemsJoined
      <4>2. slots'[t][i] = tags[i - Len(slots[t])]
          BY <1>7, <1>12, <2>6, <2>7, <3>2, ElemsJoined
      <4>3. slots'[t][i] = r
          BY <1>12, <2>6, <4>1, <4>2
      <4>4. more[i - Len(list[t])] \in Elems(more)
          BY <4>1 DEF Elems
      <4> QED BY <1>2, <4>1, <4>3, <4>4
    <3> QED BY <3>1, <3>2
  <2>9. \A p \in Elems(list[t]) \cup Elems(more) : \E q \in Elems(descs[t]) \cup {r} : p \in Elems(PagesOf[q])
      BY <1>2, <2>1, <2>2 DEF Fills
  <2>10. \A q \in Elems(descs[t]) \cup {r} : Elems(PagesOf[q]) \subseteq Elems(list[t]) \cup Elems(more)
      BY <1>2, <2>1, <2>2 DEF Fills
  <2>11. Elems(slots[t]) \cup Elems(tags) \subseteq Elems(descs[t]) \cup {r}
      BY <2>1, <2>2, <2>4 DEF Fills
  <2>12. gone'[t] = gone[t] /\ retry'[t] = retry[t] /\ migs'[t] = <<>>
      BY <1>6, <2>1
  <2>13. Elems(slots[t])' \subseteq Wanted(f, t)'
      BY <2>2, <2>4, <2>5, <2>11
  <2>14. /\ \A p \in Elems(list[t])' \cup Elems(todo[t])' : \E q \in Wanted(f, t)' : p \in Elems(PagesOf[q])
         /\ \A q \in Wanted(f, t)' : Elems(PagesOf[q]) \subseteq Elems(list[t])'
         /\ MigPages(t)' \cup Elems(todo[t])' \subseteq Elems(list[t])'
      BY <2>2, <2>3, <2>5, <2>9, <2>10
  <2>15. Len(list'[t]) = Len(slots'[t])
      BY <1>12, <2>6, <2>7
  <2> QED BY <1>7, <2>1, <2>3, <2>8, <2>12, <2>13, <2>14, <2>15 DEF Fills
<1>14. \A g \in Flusher, s \in Table : new'[g] = s => Fills(g, s)'
  <2>1. \A g \in Flusher, s \in Table : new'[g] = s => g = f /\ s = t
      BY <1>1, <1>6, <1>8, OneActive
  <2> QED BY <1>13, <2>1
<1>15. \A s \in Table : pc'[s] \in Sending => Sent(s)'
  <2>1. \A s \in Table : pc'[s] \in Sending => pc[s] \in Sending
      BY <1>7 DEF Sending
  <2> QED BY <1>8, <2>1, OneActive
<1> QED BY <1>6, <1>10, <1>11, <1>14, <1>15, CompletedKept DEF Matched

-----------------------------------------------------------------------------
\* A step of migrate_pages_ks2 concerns the table that is being filled.
LEMMA MoveMatched ==
    ASSUME IInv, Matched, ~Bugged, NEW f \in Flusher, pc[f] = "move", NEW t \in Table, new[f] = t,
           UNCHANGED <<free, qreq, qissued, qcomp, pc, desc, new>>,
           \A s \in Table : s # t => list'[s] = list[s] /\ slots'[s] = slots[s] /\ migs'[s] = migs[s]
                                     /\ gone'[s] = gone[s] /\ retry'[s] = retry[s],
           MigPages(t) \subseteq MigPages(t)', \A p \in Page \ mapped' : p \in mapped => p \in MigPages(t)',
           Completed', Fills(f, t)'
    PROVE  Matched'
<1>1. Active(f) /\ pc[f] \in Flushing
    BY DEF Active, Flushing
<1>2. Places'
    BY PlacesKept DEF Matched, Places
<1>3. pc[t] = "built"
    BY Filled, MoveSingleAssumption
<1>4. Settled'
  <2>1. \A s \in Table : s # t => MigPages(s)' = MigPages(s)
      BY DEF MigPages
  <2>2. ASSUME NEW p \in Page \ mapped' PROVE \E s \in Table : p \in MigPages(s)'
    <3>1. CASE p \in mapped
        BY <2>2, <3>1
    <3>2. CASE p \notin mapped
      <4>1. PICK s \in Table : p \in MigPages(s)
          BY <3>2 DEF Matched, Settled
      <4> QED BY <2>1, <4>1
    <3> QED BY <3>1, <3>2
  <2>3. \A s \in Table : pc'[s] = "built" /\ migs'[s] # <<>> => \E g \in Flusher : new'[g] = s
      BY DEF Matched, Settled
  <2>4. \A s \in Table : pc'[s] # "built" => ~gone'[s] /\ ~retry'[s]
      BY <1>3 DEF Matched, Settled
  <2>5. \A s \in Table : pc'[s] = "free" => list'[s] = <<>> /\ slots'[s] = <<>>
      BY <1>3 DEF Matched, Settled
  <2> QED BY <2>2, <2>3, <2>4, <2>5 DEF Settled
<1>5. \A g \in Flusher, s \in Table : new'[g] = s => Fills(g, s)'
    BY <1>1, OneActive
<1>6. \A s \in Table : pc'[s] \in Sending => Sent(s)'
    BY <1>1, OneActive
<1> QED BY <1>2, <1>4, <1>5, <1>6 DEF Matched

\* The next page of the list that this pass goes through.
LEMMA NextPage ==
    ASSUME IInv, Matched, ~Bugged, NEW f \in Flusher, pc[f] = "move", todo[new[f]] # <<>>
    PROVE  \E t \in Table, p \in Page :
              /\ t = new[f] /\ p = Head(todo[t]) /\ Fills(f, t) /\ Tail(todo[t]) \in Seq(Page)
              /\ Elems(todo[t]) = Elems(Tail(todo[t])) \cup {p}
              /\ todo[t] \in Seq(Page) /\ list[t] \in Seq(Page) /\ migs[t] \in Seq(Mig)
<1>1. PICK t \in Table : t = new[f]
    BY DEF IInv, Chain
<1>2. todo[t] \in Seq(Page) /\ list[t] \in Seq(Page) /\ migs[t] \in Seq(Mig) /\ todo[t] # <<>>
    BY <1>1 DEF IInv, TypeOK
<1>3. Head(todo[t]) \in Page /\ Tail(todo[t]) \in Seq(Page)
      /\ Elems(todo[t]) = Elems(Tail(todo[t])) \cup {Head(todo[t])}
    BY <1>2, ElemsTail
<1>4. Fills(f, t)
    BY <1>1 DEF Matched
<1> QED BY <1>1, <1>2, <1>3, <1>4

\* A page that is pending already is taken for one that is gone.
LEMMA GoneMatched == ASSUME IInv, Matched, ~Bugged, NEW f \in Flusher, PageGone(f) PROVE Matched'
<1>1. pc[f] = "move" /\ todo[new[f]] # <<>>
    BY DEF PageGone
<1>2. PICK t \in Table, p \in Page :
              /\ t = new[f] /\ p = Head(todo[t]) /\ Fills(f, t) /\ Tail(todo[t]) \in Seq(Page)
              /\ Elems(todo[t]) = Elems(Tail(todo[t])) \cup {p}
              /\ todo[t] \in Seq(Page) /\ list[t] \in Seq(Page) /\ migs[t] \in Seq(Mig)
    BY <1>1, NextPage
<1>3. /\ Alone(p) /\ list' = [list EXCEPT ![t] = Without(@, p)] /\ gone' = [gone EXCEPT ![t] = TRUE]
      /\ todo' = [todo EXCEPT ![t] = Tail(@)]
      /\ UNCHANGED <<free, qreq, qissued, qcomp, pc, desc, new, descs, slots, migs, retry, node, mapped, locked>>
    BY <1>2 DEF PageGone, region, filling
<1>4. /\ list'[t] = Without(list[t], p) /\ gone'[t] /\ todo'[t] = Tail(todo[t])
      /\ \A s \in Table : s # t => list'[s] = list[s] /\ gone'[s] = gone[s]
    BY <1>3 DEF IInv, TypeOK
<1>5. new[f] # None /\ p \notin mapped
    BY <1>2, <1>3, MoveSingleAssumption DEF Alone
<1>6. p \in MigPages(t)
    BY <1>2, <1>5, PendingHere DEF Matched
<1>7. migs[t] # <<>> /\ MigPages(t)' = MigPages(t)
    BY <1>3, <1>6 DEF MigPages
<1>8. Fills(f, t)'
  <2>1. Doomed(t)'
      BY <1>3, <1>4, <1>7 DEF Doomed
  <2>2. Elems(list'[t]) \subseteq Elems(list[t]) /\ Elems(todo'[t]) \subseteq Elems(todo[t])
      BY <1>2, <1>4, WithoutOne
  <2>3. Elems(list[t])' = Elems(list'[t]) /\ Elems(todo[t])' = Elems(todo'[t])
        /\ Elems(slots[t])' = Elems(slots[t])
      BY <1>3 DEF Elems
  <2>4. Wanted(f, t)' = Wanted(f, t) /\ pc'[f] = "move" /\ descs'[t] = descs[t]
      BY <1>1, <1>3 DEF Wanted, Elems
  <2> QED BY <1>1, <1>2, <1>4, <2>1, <2>2, <2>3, <2>4 DEF Fills
<1>9. Completed'
    BY <1>3, CompletedKept DEF Matched
<1> QED BY <1>1, <1>2, <1>3, <1>4, <1>7, <1>8, <1>9, MoveMatched

LEMMA AgainMatched == ASSUME IInv, Matched, ~Bugged, NEW f \in Flusher, TryAgain(f) PROVE Matched'
<1>1. pc[f] = "move" /\ todo[new[f]] # <<>>
    BY DEF TryAgain
<1>2. PICK t \in Table, p \in Page :
              /\ t = new[f] /\ p = Head(todo[t]) /\ Fills(f, t) /\ Tail(todo[t]) \in Seq(Page)
              /\ Elems(todo[t]) = Elems(Tail(todo[t])) \cup {p}
              /\ todo[t] \in Seq(Page) /\ list[t] \in Seq(Page) /\ migs[t] \in Seq(Mig)
    BY <1>1, NextPage
<1>3. /\ retry' = [retry EXCEPT ![t] = TRUE] /\ todo' = [todo EXCEPT ![t] = Tail(@)]
      /\ UNCHANGED <<free, qreq, qissued, qcomp, pc, desc, new, descs, slots, list, migs, gone,
                     node, mapped, locked>>
    BY <1>2 DEF TryAgain, region, filling, pages
<1>4. /\ retry'[t] /\ todo'[t] = Tail(todo[t]) /\ \A s \in Table : s # t => retry'[s] = retry[s]
    BY <1>3 DEF IInv, TypeOK
<1>5. MigPages(t)' = MigPages(t)
    BY <1>3 DEF MigPages
<1>6. Fills(f, t)'
  <2>1. Waiting(t)' \/ Doomed(t)'
    <3>1. CASE migs[t] = <<>>
      <4>1. Tidy(t) \/ Waiting(t) \/ Doomed(t)
          BY <1>1, <1>2 DEF Fills
      <4>2. ~gone[t]
          BY <3>1, <4>1 DEF Tidy, Waiting, Doomed
      <4> QED BY <1>3, <1>4, <3>1, <4>2 DEF Waiting
    <3>2. CASE migs[t] # <<>>
        BY <1>3, <1>4, <3>2 DEF Doomed
    <3> QED BY <3>1, <3>2
  <2>2. Elems(todo'[t]) \subseteq Elems(todo[t])
      BY <1>2, <1>4
  <2>3. Elems(list[t])' = Elems(list[t]) /\ Elems(todo[t])' = Elems(todo'[t])
        /\ Elems(slots[t])' = Elems(slots[t])
      BY <1>3 DEF Elems
  <2>4. Wanted(f, t)' = Wanted(f, t) /\ pc'[f] = "move" /\ descs'[t] = descs[t]
      BY <1>1, <1>3 DEF Wanted, Elems
  <2> QED BY <1>1, <1>2, <1>3, <1>5, <2>1, <2>2, <2>3, <2>4 DEF Fills
<1>7. Completed'
    BY <1>3, CompletedKept DEF Matched
<1> QED BY <1>1, <1>2, <1>3, <1>4, <1>5, <1>6, <1>7, MoveMatched

LEMMA PassMatched == ASSUME IInv, Matched, ~Bugged, NEW f \in Flusher, NextPass(f) PROVE Matched'
<1>1. PICK t \in Table : t = new[f] /\ pc[f] = "move"
    BY DEF NextPass, IInv, Chain
<1>2. /\ todo[t] = <<>> /\ retry[t] /\ retry' = [retry EXCEPT ![t] = FALSE]
      /\ todo' = [todo EXCEPT ![t] = list[t]]
      /\ UNCHANGED <<free, qreq, qissued, qcomp, pc, desc, new, descs, slots, list, migs, gone,
                     node, mapped, locked>>
    BY <1>1 DEF NextPass, region, filling, pages
<1>3. /\ ~retry'[t] /\ todo'[t] = list[t] /\ (\A s \in Table : s # t => retry'[s] = retry[s])
      /\ list[t] \in Seq(Page) /\ migs[t] \in Seq(Mig) /\ Fills(f, t)
    BY <1>1, <1>2 DEF IInv, TypeOK, Matched
<1>4. MigPages(t)' = MigPages(t)
    BY <1>2 DEF MigPages
<1>5. Fills(f, t)'
  <2>1. Elems(list[t])' = Elems(list[t]) /\ Elems(todo[t])' = Elems(list[t])
        /\ Elems(slots[t])' = Elems(slots[t])
      BY <1>2, <1>3 DEF Elems
  <2>2. Tidy(t)' \/ Doomed(t)'
    <3>1. Tidy(t) \/ Waiting(t) \/ Doomed(t)
        BY <1>1, <1>3 DEF Fills
    <3>2. CASE Waiting(t)
        BY <1>2, <1>3, <3>2 DEF Waiting, Tidy
    <3>3. CASE Doomed(t) /\ gone[t]
        BY <1>2, <3>3 DEF Doomed
    <3>4. CASE Doomed(t) /\ ~gone[t]
      <4>1. migs[t] # <<>> /\ MigPages(t) \subseteq Elems(list[t])
          BY <1>3, <3>4 DEF Doomed, Fills
      <4>2. migs[t][1].page \in MigPages(t)
          BY <1>3, <4>1, Popped DEF MigPages
      <4> QED BY <1>2, <1>4, <2>1, <4>1, <4>2 DEF Doomed
    <3> QED BY <1>2, <3>1, <3>2, <3>3, <3>4 DEF Tidy
  <2>3. Wanted(f, t)' = Wanted(f, t) /\ pc'[f] = "move" /\ descs'[t] = descs[t]
      BY <1>1, <1>2 DEF Wanted, Elems
  <2> QED BY <1>1, <1>2, <1>3, <1>4, <2>1, <2>2, <2>3 DEF Fills
<1>6. Completed'
    BY <1>2, CompletedKept DEF Matched
<1> QED BY <1>1, <1>2, <1>3, <1>4, <1>5, <1>6, MoveMatched

-----------------------------------------------------------------------------
\* The page that becomes pending belongs to a request of this table, hence to none
\* that is completed.
LEMMA PendingMatched == ASSUME IInv, Matched, ~Bugged, NEW f \in Flusher, PagePending(f) PROVE Matched'
<1>1. pc[f] = "move" /\ todo[new[f]] # <<>>
    BY DEF PagePending
<1>2. PICK t \in Table, p \in Page :
              /\ t = new[f] /\ p = Head(todo[t]) /\ Fills(f, t) /\ Tail(todo[t]) \in Seq(Page)
              /\ Elems(todo[t]) = Elems(Tail(todo[t])) \cup {p}
              /\ todo[t] \in Seq(Page) /\ list[t] \in Seq(Page) /\ migs[t] \in Seq(Mig)
    BY <1>1, NextPage
<1>3. PICK mig : mig = [page |-> p, node |-> NodeOf[slots[t][Len(migs[t]) + 1]]]
    OBVIOUS
<1>4. /\ p \in mapped /\ migs' = [migs EXCEPT ![t] = Append(@, mig)]
      /\ mapped' = mapped \ {p} /\ locked' = locked \cup {p}
      /\ todo' = [todo EXCEPT ![t] = Tail(@)]
      /\ UNCHANGED <<free, qreq, qissued, qcomp, pc, desc, new, descs, slots, list, retry, gone, node>>
    BY <1>2, <1>3 DEF PagePending, Alone, region, filling
<1>5. /\ migs'[t] = Append(migs[t], mig) /\ todo'[t] = Tail(todo[t])
      /\ \A s \in Table : s # t => migs'[s] = migs[s]
    BY <1>4 DEF IInv, TypeOK
<1>6. /\ Len(migs[t]) \in Nat /\ DOMAIN migs[t] = 1 .. Len(migs[t])
      /\ Len(migs'[t]) = Len(migs[t]) + 1 /\ DOMAIN migs'[t] = 1 .. Len(migs[t]) + 1 /\ migs'[t] # <<>>
      /\ migs'[t][Len(migs[t]) + 1] = mig /\ \A i \in 1 .. Len(migs[t]) : migs'[t][i] = migs[t][i]
  <2>1. migs[t] \in Seq(Mig \cup {mig}) /\ mig \in Mig \cup {mig}
      BY <1>2
  <2> QED BY <1>5, <2>1, Appended
<1>7. MigPages(t)' = MigPages(t) \cup {p}
  <2>1. \A i \in 1 .. Len(migs[t]) + 1 : i = Len(migs[t]) + 1 \/ i \in 1 .. Len(migs[t])
      BY <1>6
  <2>2. /\ \A i \in 1 .. Len(migs[t]) : i \in 1 .. Len(migs[t]) + 1
        /\ Len(migs[t]) + 1 \in 1 .. Len(migs[t]) + 1
      BY <1>6
  <2>3. mig.page = p
      BY <1>3
  <2> QED BY <1>6, <2>1, <2>2, <2>3 DEF MigPages
<1>8. p \notin MigPages(t)
    BY <1>4 DEF IInv, Slots
<1>9. Tidy(t) => Tidy(t)'
  <2> SUFFICES ASSUME Tidy(t) PROVE Tidy(t)'
      OBVIOUS
  <2> DEFINE n == Len(migs[t])
  <2>1. /\ ~gone[t] /\ ~retry[t] /\ n + Len(todo[t]) = Len(list[t])
        /\ \A i \in 1 .. n : migs[t][i].page = list[t][i] /\ migs[t][i].node = NodeOf[slots[t][i]]
        /\ \A j \in 1 .. Len(todo[t]) : todo[t][j] = list[t][n + j]
    <3>1. DOMAIN todo[t] = 1 .. Len(todo[t])
        BY <1>1, <1>2, Popped
    <3> QED BY <1>6, <3>1 DEF Tidy
  <2>2. /\ Len(todo[t]) \in Nat /\ Len(todo[t]) >= 1 /\ p = todo[t][1]
        /\ Len(todo'[t]) = Len(todo[t]) - 1 /\ DOMAIN todo'[t] = 1 .. Len(todo[t]) - 1
        /\ \A j \in 1 .. Len(todo[t]) - 1 : todo'[t][j] = todo[t][j + 1]
      BY <1>1, <1>2, <1>5, Popped
  <2>3. /\ n \in Nat /\ Len(migs'[t]) = n + 1 /\ DOMAIN migs'[t] = 1 .. n + 1
        /\ migs'[t][n + 1] = mig /\ \A i \in 1 .. n : migs'[t][i] = migs[t][i]
      BY <1>6
  <2> HIDE DEF n
  <2>4. p = list[t][n + 1]
      BY <2>1, <2>2
  <2>5. mig.page = p /\ mig.node = NodeOf[slots[t][n + 1]]
      BY <1>3 DEF n
  <2>6. \A i \in 1 .. n + 1 : migs'[t][i].page = list[t][i] /\ migs'[t][i].node = NodeOf[slots[t][i]]
    <3> SUFFICES ASSUME NEW i \in 1 .. n + 1
                 PROVE  migs'[t][i].page = list[t][i] /\ migs'[t][i].node = NodeOf[slots[t][i]]
        OBVIOUS
    <3>1. CASE i = n + 1
        BY <2>3, <2>4, <2>5, <3>1
    <3>2. CASE i # n + 1
      <4>1. i \in 1 .. n
          BY <2>3, <3>2
      <4> QED BY <2>1, <2>3, <4>1
    <3> QED BY <3>1, <3>2
  <2>7. \A j \in 1 .. Len(todo[t]) - 1 : todo'[t][j] = list[t][(n + 1) + j]
    <3> SUFFICES ASSUME NEW j \in 1 .. Len(todo[t]) - 1 PROVE todo'[t][j] = list[t][(n + 1) + j]
        OBVIOUS
    <3>1. j + 1 \in 1 .. Len(todo[t]) /\ n + (j + 1) = (n + 1) + j
        BY <2>2, <2>3
    <3> QED BY <2>1, <2>2, <3>1
  <2>8. (n + 1) + (Len(todo[t]) - 1) = Len(list[t])
    <3>1. \A a, b, c \in Nat : b >= 1 /\ a + b = c => (a + 1) + (b - 1) = c
        OBVIOUS
    <3>2. Len(list[t]) \in Nat
        BY <1>2
    <3> QED BY <2>1, <2>2, <2>3, <3>1, <3>2
  <2> QED BY <1>4, <2>1, <2>2, <2>3, <2>6, <2>7, <2>8 DEF Tidy
<1>10. ~gone[t] => p \in Elems(list[t])
    BY <1>2 DEF Fills
<1>11. Waiting(t) \/ Doomed(t) => Doomed(t)'
  <2>1. Elems(todo[t])' = Elems(todo'[t]) /\ Elems(todo'[t]) = Elems(Tail(todo[t]))
      BY <1>5 DEF Elems
  <2>2. Elems(todo[t]) \cap MigPages(t) \subseteq Elems(todo[t])' \cap MigPages(t)'
      BY <1>2, <1>7, <1>8, <2>1
  <2> QED BY <1>4, <1>6, <2>2 DEF Waiting, Doomed
<1>12. Fills(f, t)'
  <2>1. Elems(todo'[t]) \subseteq Elems(todo[t])
      BY <1>2, <1>5
  <2>2. Elems(list[t])' = Elems(list[t]) /\ Elems(todo[t])' = Elems(todo'[t])
        /\ Elems(slots[t])' = Elems(slots[t])
      BY <1>4 DEF Elems
  <2>3. Wanted(f, t)' = Wanted(f, t) /\ pc'[f] = "move" /\ descs'[t] = descs[t]
      BY <1>1, <1>4 DEF Wanted, Elems
  <2>4. Tidy(t)' \/ Doomed(t)'
      BY <1>1, <1>2, <1>9, <1>11 DEF Fills
  <2> QED BY <1>1, <1>2, <1>4, <1>7, <1>10, <2>1, <2>2, <2>3, <2>4 DEF Fills
<1>13. Completed'
  <2>1. PICK w \in Wanted(f, t) : p \in Elems(PagesOf[w])
      BY <1>2 DEF Fills
  <2>2. w \in Elems(qissued)
    <3>1. qissued = descs[t]
        BY <1>1, <1>2, MoveSingleAssumption DEF IInv, Issued, Flushing
    <3>2. Wanted(f, t) = Elems(descs[t]) \cup {}
        BY <1>1 DEF Wanted
    <3> QED BY <2>1, <3>1, <3>2
  <2>3. \A r \in Elems(qcomp) : p \notin Elems(PagesOf[r])
      BY <2>1, <2>2, NotFree DEF Matched, Places
  <2>4. Elems(qcomp)' = Elems(qcomp)
      BY <1>4, Primed
  <2>5. ASSUME NEW r \in Elems(qcomp), NEW q \in Elems(PagesOf[r]) PROVE Moved(q, r)'
      BY <1>4, <2>3 DEF Matched, Completed, Moved
  <2> QED BY <2>4, <2>5 DEF Completed
<1> QED BY <1>1, <1>2, <1>4, <1>5, <1>7, <1>12, <1>13, MoveMatched

\* With no bug reached, all pages of the table are pending, each under its slot.
LEMMA AllPending ==
    ASSUME IInv, Matched, ~Bugged, ~Bugged', NEW f \in Flusher, NEW t \in Table, new[f] = t, Transfer(f)
    PROVE  /\ pc[f] = "move" /\ Fills(f, t) /\ Tidy(t) /\ todo[t] = <<>>
           /\ Len(migs[t]) = Len(list[t]) /\ Len(list[t]) = Len(slots[t])
           /\ list[t] \in Seq(Page) /\ migs[t] \in Seq(Mig) /\ slots[t] \in Seq(Req)
           /\ pc' = [pc EXCEPT ![t] = IF migs[t] # <<>> THEN "dma" ELSE @, ![f] = "unlock"]
           /\ new' = [new EXCEPT ![f] = None]
           /\ gone' = [gone EXCEPT ![t] = FALSE] /\ retry' = [retry EXCEPT ![t] = FALSE]
           /\ f # t /\ pc[t] = "built"
<1>1. pc[t] = "built" /\ f # t /\ pc[f] = "move" /\ todo[t] = <<>>
    BY Filled, MoveSingleAssumption DEF Transfer
<1>2. Fills(f, t) /\ (Tidy(t) \/ Waiting(t) \/ Doomed(t))
    BY <1>1 DEF Matched, Fills
<1>3. "bug_retry" \in BugLabels /\ "bug_busy" \in BugLabels /\ pc \in [Flusher -> Labels]
      /\ pc'[f] \notin BugLabels
    BY DEF BugLabels, IInv, TypeOK, Bugged
<1>4. ~(gone[t] /\ migs[t] # <<>>)
    BY <1>3 DEF Transfer, Goto
<1>5. ~retry[t]
    BY <1>1, <1>3, <1>4 DEF Transfer
<1>6. Elems(todo[t]) = {}
    BY <1>1 DEF Elems
<1>7. Tidy(t)
    BY <1>2, <1>4, <1>5, <1>6 DEF Waiting, Doomed
<1>8. list[t] \in Seq(Page) /\ migs[t] \in Seq(Mig) /\ slots[t] \in Seq(Req)
    BY DEF IInv, TypeOK
<1>9. Len(migs[t]) = Len(list[t])
    BY <1>1, <1>7, <1>8 DEF Tidy
<1>10. Len(list[t]) = Len(slots[t])
    BY <1>2, <1>7 DEF Tidy, Fills
<1> QED BY <1>1, <1>2, <1>4, <1>5, <1>7, <1>8, <1>9, <1>10 DEF Transfer

LEMMA TransferMatched ==
    ASSUME IInv, Matched, ~Bugged, ~Bugged', NEW f \in Flusher, Transfer(f) PROVE Matched'
<1>1. PICK t \in Table : t = new[f]
    BY DEF Transfer, IInv, Chain
<1>2. /\ pc[f] = "move" /\ Fills(f, t) /\ Tidy(t) /\ todo[t] = <<>>
      /\ Len(migs[t]) = Len(list[t]) /\ Len(list[t]) = Len(slots[t])
      /\ list[t] \in Seq(Page) /\ migs[t] \in Seq(Mig) /\ slots[t] \in Seq(Req)
      /\ pc' = [pc EXCEPT ![t] = IF migs[t] # <<>> THEN "dma" ELSE @, ![f] = "unlock"]
      /\ new' = [new EXCEPT ![f] = None]
      /\ gone' = [gone EXCEPT ![t] = FALSE] /\ retry' = [retry EXCEPT ![t] = FALSE]
      /\ f # t /\ pc[t] = "built"
    BY <1>1, AllPending
<1>3. UNCHANGED <<free, qreq, qissued, qcomp, desc, descs, slots, list, migs, node, mapped, locked>>
    BY DEF Transfer, region, pages
<1>4. /\ pc'[f] = "unlock" /\ new'[f] = None /\ ~gone'[t] /\ ~retry'[t] /\ Table \subseteq Flusher
      /\ pc'[t] = (IF migs[t] # <<>> THEN "dma" ELSE "built")
      /\ \A g \in Flusher : g # f => new'[g] = new[g] /\ (g # t => pc'[g] = pc[g])
      /\ \A s \in Table : s # t => gone'[s] = gone[s] /\ retry'[s] = retry[s]
  <2>1. t \in Flusher /\ Table \subseteq Flusher /\ pc \in [Flusher -> Labels]
        /\ new \in [Flusher -> Table \cup {None}] /\ gone \in [Table -> BOOLEAN] /\ retry \in [Table -> BOOLEAN]
      BY DEF Flusher, IInv, TypeOK
  <2> QED BY <1>2, <2>1
<1>5. Active(f) /\ pc[f] \in Flushing
    BY <1>2 DEF Active, Flushing
<1>6. Places'
    BY <1>2, <1>3, <1>4, PlacesKept DEF Matched, Places
<1>7. Settled'
  <2>1. \A s \in Table : MigPages(s)' = MigPages(s)
      BY <1>3 DEF MigPages
  <2>2. ASSUME NEW s \in Table, pc'[s] = "built", migs'[s] # <<>> PROVE \E g \in Flusher : new'[g] = s
    <3>1. s # t /\ s # f /\ pc[s] = "built" /\ migs[s] # <<>>
        BY <1>3, <1>4, <2>2
    <3>2. PICK g \in Flusher : new[g] = s
        BY <3>1 DEF Matched, Settled
    <3>3. g # f
        BY <1>1, <3>1, <3>2
    <3> QED BY <1>4, <3>2, <3>3
  <2>3. \A s \in Table : pc'[s] # "built" => ~gone'[s] /\ ~retry'[s]
    <3>1. \A s \in Table : s # t /\ pc'[s] # "built" => pc[s] # "built"
        BY <1>2, <1>4
    <3> QED BY <1>4, <3>1 DEF Matched, Settled
  <2>4. \A s \in Table : pc'[s] = "free" => list'[s] = <<>> /\ slots'[s] = <<>>
    <3>1. \A s \in Table : pc'[s] = "free" => pc[s] = "free"
        BY <1>4
    <3> QED BY <1>3, <3>1 DEF Matched, Settled
  <2>5. \A p \in Page \ mapped' : \E s \in Table : p \in MigPages(s)'
      BY <1>3, <2>1 DEF Matched, Settled
  <2> QED BY <2>2, <2>3, <2>4, <2>5 DEF Settled
<1>8. \A g \in Flusher, s \in Table : new'[g] # s
  <2>1. \A s \in Table : s # None
      BY MoveSingleAssumption
  <2> QED BY <1>4, <1>5, <2>1, OneActive
<1>9. Sent(t)
  <2>1. Wanted(f, t) = Elems(descs[t]) \cup {}
      BY <1>2 DEF Wanted
  <2>2. /\ ~gone[t] /\ DOMAIN migs[t] = DOMAIN list[t] /\ DOMAIN slots[t] = DOMAIN list[t]
        /\ \A i \in DOMAIN migs[t] : migs[t][i].page = list[t][i] /\ migs[t][i].node = NodeOf[slots[t][i]]
      BY <1>2 DEF Tidy
  <2>3. /\ Elems(slots[t]) \subseteq Elems(descs[t])
        /\ \A i \in DOMAIN list[t] : list[t][i] \in Elems(PagesOf[slots[t][i]])
        /\ \A r \in Elems(descs[t]) : Elems(PagesOf[r]) \subseteq Elems(list[t])
      BY <1>2, <2>1, <2>2 DEF Fills
  <2>4. qissued = descs[t]
      BY <1>1, <1>5, MoveSingleAssumption DEF IInv, Issued
  <2>5. ASSUME NEW i \in DOMAIN migs[t], NEW r \in Elems(descs[t]), migs[t][i].page \in Elems(PagesOf[r])
        PROVE  migs[t][i].node = NodeOf[r]
    <3>1. slots[t][i] \in Elems(descs[t]) /\ list[t][i] \in Elems(PagesOf[slots[t][i]])
        BY <2>2, <2>3 DEF Elems
    <3>2. slots[t][i] = r
        BY <2>2, <2>4, <2>5, <3>1, NotFree DEF Matched
    <3> QED BY <2>2, <3>2
  <2>6. Elems(list[t]) \subseteq MigPages(t)
      BY <2>2 DEF Elems, MigPages
  <2> QED BY <2>3, <2>5, <2>6 DEF Sent
<1>10. ASSUME NEW s \in Table, pc'[s] \in Sending PROVE Sent(s)'
  <2>1. s = t
      BY <1>4, <1>5, <1>10, OneActive DEF Sending
  <2> QED BY <1>3, <1>9, <2>1, SentKept
<1> QED BY <1>3, <1>6, <1>7, <1>8, <1>10, CompletedKept DEF Matched

-----------------------------------------------------------------------------
\* What Remap does, to the table that is completed and to its first page.
LEMMA RemapEffect ==
    ASSUME IInv, NEW t \in Table, Remap(t)
    PROVE  \E p \in Page : \E n \in Nodes :
              /\ p = migs[t][1].page /\ n = migs[t][1].node /\ 1 \in DOMAIN migs[t] /\ migs[t] \in Seq(Mig)
              /\ p \notin mapped /\ p \notin MigPages(t)' /\ MigPages(t) = MigPages(t)' \cup {p}
              /\ \A s \in Table : s # t => MigPages(s)' = MigPages(s) /\ p \notin MigPages(s)
              /\ mapped' = mapped \cup {p} /\ locked' = locked \ {p} /\ node' = [node EXCEPT ![p] = n]
              /\ lost' = (IF p \in same THEN lost ELSE lost \cup {p}) /\ same' = same \ {p}
              /\ migs'[t] = Tail(migs[t]) /\ \A s \in Table : s # t => migs'[s] = migs[s] /\ list'[s] = list[s]
<1>1. pc[t] = "remap" /\ migs[t] # <<>> /\ migs[t] \in Seq(Mig) /\ list[t] \in Seq(Page)
    BY DEF Remap, IInv, TypeOK
<1>2. /\ Len(migs[t]) \in Nat /\ DOMAIN migs[t] = 1 .. Len(migs[t]) /\ 1 \in DOMAIN migs[t]
      /\ Head(migs[t]) = migs[t][1] /\ migs[t][1] \in Mig
      /\ Tail(migs[t]) \in Seq(Mig) /\ DOMAIN Tail(migs[t]) = 1 .. Len(migs[t]) - 1
      /\ \A i \in 1 .. Len(migs[t]) - 1 : Tail(migs[t])[i] = migs[t][i + 1]
    BY <1>1, Popped
<1>3. PICK p \in Page : p = migs[t][1].page
    BY <1>2 DEF Mig
<1>4. PICK n \in Nodes : n = migs[t][1].node
    BY <1>2 DEF Mig
<1>5. /\ mapped' = mapped \cup {p} /\ locked' = locked \ {p} /\ node' = [node EXCEPT ![p] = n]
      /\ lost' = (IF p \in same THEN lost ELSE lost \cup {p}) /\ same' = same \ {p}
      /\ migs'[t] = Tail(migs[t])
      /\ \A s \in Table : s # t => migs'[s] = migs[s] /\ list'[s] = list[s]
    BY <1>2, <1>3, <1>4 DEF Remap, IInv, TypeOK
<1>6. \A i \in 1 .. Len(migs[t]) - 1 : i + 1 \in DOMAIN migs[t] /\ i + 1 # 1
    BY <1>2
<1>7. \A i \in DOMAIN migs[t] : i # 1 => i - 1 \in 1 .. Len(migs[t]) - 1 /\ (i - 1) + 1 = i
    BY <1>2
<1>8. p \in MigPages(t)
    BY <1>2, <1>3 DEF MigPages
<1>9. MigPages(t) \subseteq MigPages(t)' \cup {p}
  <2> SUFFICES ASSUME NEW i \in DOMAIN migs[t], i # 1 PROVE migs[t][i].page \in MigPages(t)'
      BY <1>3 DEF MigPages
  <2>1. i - 1 \in DOMAIN migs'[t] /\ migs'[t][i - 1] = migs[t][i]
      BY <1>2, <1>5, <1>7
  <2> QED BY <2>1 DEF MigPages
<1>10. MigPages(t)' \subseteq MigPages(t) /\ p \notin MigPages(t)'
  <2> SUFFICES ASSUME NEW i \in DOMAIN migs'[t]
               PROVE  migs'[t][i].page \in MigPages(t) /\ migs'[t][i].page # p
      BY DEF MigPages
  <2>1. i + 1 \in DOMAIN migs[t] /\ i + 1 # 1 /\ migs'[t][i] = migs[t][i + 1]
      BY <1>2, <1>5, <1>6
  <2>2. migs[t][i + 1].page # p
      BY <1>2, <1>3, <2>1 DEF IInv, Slots
  <2> QED BY <2>1, <2>2 DEF MigPages
<1>11. p \notin mapped /\ \A s \in Table : s # t => MigPages(s)' = MigPages(s) /\ p \notin MigPages(s)
  <2>1. \A s \in Table : s # t => MigPages(s)' = MigPages(s)
      BY <1>5 DEF MigPages
  <2> QED BY <1>8, <2>1 DEF IInv, Slots
<1>12. MigPages(t) = MigPages(t)' \cup {p}
    BY <1>8, <1>9, <1>10
<1> QED BY <1>1, <1>2, <1>3, <1>4, <1>5, <1>10, <1>11, <1>12

LEMMA RemapMatched == ASSUME IInv, Matched, ~Bugged, NEW t \in Table, Remap(t) PROVE Matched'
<1>1. PICK p \in Page, n \in Nodes :
              /\ p = migs[t][1].page /\ n = migs[t][1].node /\ 1 \in DOMAIN migs[t] /\ migs[t] \in Seq(Mig)
              /\ p \notin mapped /\ p \notin MigPages(t)' /\ MigPages(t) = MigPages(t)' \cup {p}
              /\ \A s \in Table : s # t => MigPages(s)' = MigPages(s) /\ p \notin MigPages(s)
              /\ mapped' = mapped \cup {p} /\ locked' = locked \ {p} /\ node' = [node EXCEPT ![p] = n]
              /\ lost' = (IF p \in same THEN lost ELSE lost \cup {p}) /\ same' = same \ {p}
              /\ migs'[t] = Tail(migs[t]) /\ \A s \in Table : s # t => migs'[s] = migs[s] /\ list'[s] = list[s]
    BY RemapEffect
<1>2. /\ pc[t] = "remap" /\ migs[t] # <<>>
      /\ UNCHANGED <<free, qreq, qissued, qcomp, pc, desc, new, descs, slots, gone, retry>>
    BY DEF Remap, region, filling
<1>3. Active(t) /\ pc[t] \in TransferLabels /\ t \in Flusher
    BY <1>2 DEF Active, TransferLabels, Flusher
<1>4. node'[p] = n /\ \A q \in Page : q # p => node'[q] = node[q]
    BY <1>1 DEF IInv, TypeOK
<1>5. \A q, r : q # p /\ q \in Page /\ Moved(q, r) => Moved(q, r)'
    BY <1>1, <1>4 DEF Moved
<1>6. \A r \in Req, q \in Page : q \in Elems(PagesOf[r]) /\ Moved(q, r) => Moved(q, r)'
    BY <1>1, <1>5 DEF Moved
<1>7. \A r \in Req : Elems(PagesOf[r]) \subseteq Page
    BY MoveSingleAssumption DEF Elems
<1>8. Places'
    BY <1>2, PlacesKept DEF Matched, Places
<1>9. Settled'
  <2>1. ASSUME NEW q \in Page, q \notin mapped' PROVE \E s \in Table : q \in MigPages(s)'
    <3>1. q # p /\ q \notin mapped
        BY <1>1, <2>1
    <3>2. PICK s \in Table : q \in MigPages(s)
        BY <3>1 DEF Matched, Settled
    <3> QED BY <1>1, <3>1, <3>2
  <2>2. \A s \in Table : pc[s] = "built" => s # t
      BY <1>2
  <2>3. \A s \in Table : pc'[s] = "built" /\ migs'[s] # <<>> => \E g \in Flusher : new'[g] = s
      BY <1>1, <1>2, <2>2 DEF Matched, Settled
  <2>4. \A s \in Table : pc'[s] = "free" => list'[s] = <<>> /\ slots'[s] = <<>>
      BY <1>1, <1>2 DEF Matched, Settled
  <2>5. \A s \in Table : pc'[s] # "built" => ~gone'[s] /\ ~retry'[s]
      BY <1>2 DEF Matched, Settled
  <2> QED BY <2>1, <2>3, <2>4, <2>5 DEF Settled
<1>10. \A g \in Flusher, s \in Table : new'[g] # s
    BY <1>2, <1>3, OneActive
<1>11. Elems(descs[t]) \subseteq Req
    BY DEF Elems, IInv, TypeOK
<1>12. Sent(t)'
  <2>1. Sent(t)
      BY <1>2 DEF Matched, Sending
  <2>2. /\ DOMAIN migs'[t] = 1 .. Len(migs[t]) - 1
        /\ \A i \in 1 .. Len(migs[t]) - 1 : i + 1 \in DOMAIN migs[t] /\ migs'[t][i] = migs[t][i + 1]
      BY <1>1, <1>2, Popped
  <2>3. ASSUME NEW i \in DOMAIN migs'[t], NEW r \in Elems(descs[t]), migs'[t][i].page \in Elems(PagesOf[r])
        PROVE  migs'[t][i].node = NodeOf[r]
      BY <2>1, <2>2, <2>3 DEF Sent
  <2>4. ASSUME NEW r \in Elems(descs[t]), NEW q \in Elems(PagesOf[r])
        PROVE  q \in MigPages(t)' \/ Moved(q, r)'
    <3>1. CASE q = p
      <4>1. n = NodeOf[r]
          BY <1>1, <2>1, <2>4, <3>1 DEF Sent
      <4>2. Moved(p, r)'
          BY <1>1, <1>4, <4>1 DEF Moved
      <4> QED BY <3>1, <4>2
    <3>2. CASE q # p /\ q \in MigPages(t)
        BY <1>1, <3>2
    <3>3. CASE q # p /\ Moved(q, r)
        BY <1>5, <1>7, <1>11, <2>4, <3>3
    <3> QED BY <2>1, <2>4, <3>1, <3>2, <3>3 DEF Sent
  <2>5. Elems(descs[t])' = Elems(descs[t])
      BY <1>2 DEF Elems
  <2> QED BY <2>3, <2>4, <2>5 DEF Sent
<1>13. \A s \in Table : pc'[s] \in Sending => Sent(s)'
    BY <1>2, <1>3, <1>12, OneActive
<1>14. Completed'
  <2>1. Elems(qcomp)' = Elems(qcomp) /\ Elems(qcomp) \subseteq Req
      BY <1>2 DEF Elems, IInv, TypeOK
  <2>2. ASSUME NEW r \in Elems(qcomp), NEW q \in Elems(PagesOf[r]) PROVE Moved(q, r)'
    <3>1. Moved(q, r)
        BY <2>2 DEF Matched, Completed
    <3> QED BY <1>6, <1>7, <2>1, <2>2, <3>1
  <2> QED BY <2>1, <2>2 DEF Completed
<1> QED BY <1>8, <1>9, <1>10, <1>13, <1>14 DEF Matched

\* Nothing of the table is pending any more.
LEMMA ReportMatched == ASSUME IInv, Matched, ~Bugged, NEW t \in Table, Report(t) PROVE Matched'
<1>1. pc[t] = "report" /\ descs[t] # <<>> /\ qissued = descs[t] /\ migs[t] = <<>>
      /\ qissued \in Seq(Req) /\ qcomp \in Seq(Req) /\ descs[t] \in Seq(Req)
    BY DEF Report, IInv, Issued, Tables, TransferLabels, TypeOK
<1>2. PICK r \in Req : r = Head(qissued)
    BY <1>1, ElemsTail
<1>3. /\ qcomp' = Append(qcomp, r) /\ qissued' = Tail(qissued)
      /\ descs'[t] = Tail(descs[t]) /\ \A s \in Table : s # t => descs'[s] = descs[s]
      /\ UNCHANGED <<free, qreq, pc, desc, new, slots, list, todo, migs, gone, retry, node, mapped, locked>>
  <2>1. /\ qcomp' = Append(qcomp, Head(qissued)) /\ qissued' = Tail(qissued)
        /\ descs' = [descs EXCEPT ![t] = Tail(@)]
        /\ UNCHANGED <<pc, free, qreq, desc, new, slots, moving, pages>>
      BY <1>1 DEF Report
  <2> QED BY <1>2, <2>1 DEF IInv, TypeOK, moving, pages
<1>4. /\ Elems(qissued) = Elems(qissued') \cup {r} /\ (Once(qissued) => Once(qissued') /\ r \notin Elems(qissued'))
      /\ Elems(qcomp') = Elems(qcomp) \cup {r} /\ (Once(qcomp) /\ r \notin Elems(qcomp) => Once(qcomp'))
    BY <1>1, <1>2, <1>3, ElemsTail, ElemsAppend
<1>5. Elems(descs'[t]) \subseteq Elems(descs[t])
    BY <1>1, <1>3, ElemsTail
<1>6. Active(t) /\ pc[t] \in TransferLabels /\ t \in Flusher
    BY <1>1 DEF Active, TransferLabels, Flusher
<1>7. Places'
  <2>1. r \in Elems(qissued) /\ r \notin Elems(qreq) \cup Elems(qcomp) \cup Hand \cup free
      BY <1>4 DEF Matched, Places
  <2>2. Once(qreq)' /\ Once(qissued)' /\ Once(qcomp)' /\ Hand' = Hand /\ Elems(qreq)' = Elems(qreq)
        /\ Elems(qissued)' = Elems(qissued') /\ Elems(qcomp)' = Elems(qcomp) \cup {r}
      BY <1>3, <1>4, <2>1, Primed DEF Matched, Places, Hand
  <2>3. /\ Elems(qreq) \cap Elems(qissued') = {} /\ Elems(qreq) \cap (Elems(qcomp) \cup {r}) = {}
        /\ Elems(qissued') \cap (Elems(qcomp) \cup {r}) = {}
      BY <1>4, <2>1 DEF Matched, Places
  <2>4. /\ Hand \cap (Elems(qreq) \cup Elems(qissued') \cup (Elems(qcomp) \cup {r})) = {}
        /\ free \cap (Elems(qreq) \cup Elems(qissued') \cup (Elems(qcomp) \cup {r}) \cup Hand) = {}
      BY <1>4, <2>1 DEF Matched, Places
  <2>5. \A q, s \in Req \ free' : q # s => Elems(PagesOf[q]) \cap Elems(PagesOf[s]) = {}
      BY <1>3 DEF Matched, Places
  <2>6. \A f \in Flusher : desc'[f] # None => pc'[f] \in {"isolate", "issue"}
      BY <1>3 DEF Matched, Places
  <2> QED BY <1>3, <2>2, <2>3, <2>4, <2>5, <2>6 DEF Places
<1>8. Settled'
    BY <1>3 DEF Matched, Settled, MigPages
<1>9. \A g \in Flusher, s \in Table : new'[g] # s
    BY <1>3, <1>6, OneActive
<1>10. Sent(t)
    BY <1>1 DEF Matched, Sending
<1>11. ASSUME NEW s \in Table, pc'[s] \in Sending PROVE Sent(s)'
  <2>1. s = t
      BY <1>3, <1>6, <1>11, OneActive
  <2> QED BY <1>3, <1>5, <1>10, <2>1, SentKept
<1>12. Completed'
  <2>1. Elems(qcomp)' = Elems(qcomp) \cup {r}
      BY <1>4, Primed
  <2>2. \A p \in Elems(PagesOf[r]) : Moved(p, r)
    <3>1. MigPages(t) = {} /\ r \in Elems(descs[t])
        BY <1>1, <1>4 DEF MigPages
    <3> QED BY <1>10, <3>1 DEF Sent
  <2>3. \A q \in Elems(qcomp) \cup {r} : \A p \in Elems(PagesOf[q]) : Moved(p, q)
      BY <2>2 DEF Matched, Completed
  <2>4. \A q, p : Moved(p, q)' <=> Moved(p, q)
      BY <1>3 DEF Moved
  <2> QED BY <2>1, <2>3, <2>4 DEF Completed
<1> QED BY <1>7, <1>8, <1>9, <1>11, <1>12 DEF Matched

-----------------------------------------------------------------------------
LEMMA InitMatched == Init => Matched /\ Untouched
<1> SUFFICES ASSUME Init PROVE Matched /\ Untouched
    OBVIOUS
<1>1. \A t \in Table : MigPages(t) = {} /\ pc[t] = "free" /\ t # None
    BY MoveSingleAssumption DEF Init, MigPages, Flusher
<1>2. Elems(qreq) = {} /\ Elems(qissued) = {} /\ Elems(qcomp) = {} /\ Hand = {} /\ free = Req
    BY DEF Init, Elems, Hand
<1>3. Places
    BY <1>2 DEF Init, Places, Once
<1>4. Settled
    BY <1>1 DEF Init, Settled
<1>5. Completed
    BY <1>2 DEF Completed
<1>6. \A f \in Flusher, t \in Table : new[f] # t
    BY <1>1 DEF Init
<1>7. Matched
    BY <1>1, <1>3, <1>4, <1>5, <1>6 DEF Matched, Sending
<1> QED BY <1>1, <1>7 DEF Untouched, Init

\* Nothing goes on after a BUG().
LEMMA BugStays == ASSUME IInv, [Next]_vars, Bugged PROVE Bugged'
<1>1. PICK g \in Flusher : pc[g] \in BugLabels
    BY DEF Bugged
<1> SUFFICES pc'[g] = pc[g]
    BY <1>1 DEF Bugged
<1> USE DEF Goto, BugLabels
<1>2. pc \in [Flusher -> Labels]
    BY DEF IInv, TypeOK
<1>3. CASE Program \/ Kernel \/ UNCHANGED vars
    BY <1>1, <1>2, <1>3 DEF Program, Submit, Collect, Write, Exit, Kernel, LetGo, Use, Drain, vars
<1>4. CASE Kick
    BY <1>1, <1>2, <1>4 DEF Kick
<1>5. CASE DmaDone
  <2>1. PICK t \in Flusher : t = Head(chan) /\ pc[t] = "dma"
      BY <1>5, InChan, Popped DEF DmaDone, IInv, TypeOK
  <2> QED BY <1>1, <1>2, <1>5, <2>1 DEF DmaDone
<1>6. ASSUME NEW f \in Flusher, FlushStep(f) PROVE pc'[g] = pc[g]
  <2>1. CASE FlushTake(f)
    <3>1. CASE new[f] # None
        BY <1>1, <1>2, <2>1, <3>1 DEF FlushTake
    <3>2. CASE new[f] = None
      <4>1. PICK t \in Table : t = Fresh /\ pc[t] = "free"
          BY <2>1, <3>2 DEF FlushTake, Fresh
      <4> QED BY <1>1, <1>2, <2>1, <3>2, <4>1 DEF FlushTake
    <3> QED BY <3>1, <3>2
  <2>2. CASE FlushEmpty(f) \/ FlushIssue(f) \/ FlushPaint(f) \/ FlushPut(f) \/ FlushUnlock(f)
      BY <1>1, <1>2, <2>2 DEF FlushEmpty, FlushIssue, FlushPaint, FlushPut, FlushUnlock
  <2>3. CASE FlushIsolate(f)
      BY <1>1, <1>2, <2>3 DEF FlushIsolate
  <2>4. CASE PageGone(f) \/ TryAgain(f) \/ PagePending(f) \/ NextPass(f)
      BY <2>4 DEF PageGone, TryAgain, PagePending, NextPass
  <2>5. CASE Transfer(f)
    <3>1. PICK t \in Table : t = new[f] /\ pc[t] = "built"
        BY <2>5, Filled, MoveSingleAssumption DEF Transfer, IInv, Chain
    <3>2. g # f /\ g # t
        BY <1>1, <2>5, <3>1 DEF Transfer
    <3> QED BY <1>2, <2>5, <3>1, <3>2 DEF Transfer
  <2> QED BY <1>6, <2>1, <2>2, <2>3, <2>4, <2>5 DEF FlushStep
<1>7. ASSUME NEW t \in Table, WorkStep(t) PROVE pc'[g] = pc[g]
    BY <1>1, <1>2, <1>7 DEF WorkStep, Callback, Remap, Remapped, Report, Reported, Look
<1> QED BY <1>3, <1>4, <1>5, <1>6, <1>7 DEF Next

LEMMA StepMatched == ASSUME IInv, MatchedUnlessBug, [Next]_vars PROVE MatchedUnlessBug'
<1> SUFFICES ASSUME ~Bugged' PROVE Matched'
    BY DEF MatchedUnlessBug
<1>1. ~Bugged /\ Matched
    BY BugStays DEF MatchedUnlessBug
<1>2. CASE Program
  <2>1. CASE \E p \in Page : Write(p)
      BY <1>1, <2>1, MatchedKept DEF Write, moving, pages
  <2>2. CASE Exit
      BY <1>1, <2>2, MatchedKept DEF Exit, moving, pages
  <2> QED BY <1>1, <1>2, <2>1, <2>2, SubmitMatched, CollectMatched DEF Program
<1>3. CASE Kick \/ DmaDone
    BY <1>1, <1>3, LabelsMatched
<1>4. CASE Kernel
    BY <1>1, <1>4, MatchedKept DEF Kernel, LetGo, Use, Drain, moving, pages
<1>5. ASSUME NEW f \in Flusher, FlushStep(f) PROVE Matched'
  <2>1. CASE FlushTake(f) \/ FlushIsolate(f) \/ FlushIssue(f)
      BY <1>1, <2>1, TakeMatched, IsolateMatched, IssueMatched
  <2>2. CASE FlushEmpty(f) \/ FlushPaint(f) \/ FlushPut(f)
      BY <1>1, <2>2, LabelsMatched
  <2>3. CASE FlushUnlock(f)
    <3>1. pc[f] = "unlock"
        BY <2>3 DEF FlushUnlock
    <3> QED BY <1>1, <2>3, <3>1, LabelsMatched, UnlockMatched DEF Flusher
  <2>4. CASE PageGone(f) \/ TryAgain(f) \/ PagePending(f) \/ NextPass(f) \/ Transfer(f)
      BY <1>1, <2>4, GoneMatched, AgainMatched, PendingMatched, PassMatched, TransferMatched
  <2> QED BY <1>5, <2>1, <2>2, <2>3, <2>4 DEF FlushStep
<1>6. ASSUME NEW t \in Table, WorkStep(t) PROVE Matched'
    BY <1>1, <1>6, LabelsMatched, RemapMatched, ReportMatched DEF WorkStep
<1>7. CASE UNCHANGED vars
    BY <1>1, <1>7, MatchedKept DEF vars, moving, pages
<1> QED BY <1>2, <1>3, <1>4, <1>5, <1>6, <1>7 DEF Next

LEMMA UntouchedKept ==
    ASSUME Untouched, UNCHANGED <<migs, other, same, lost>>,
           \A t \in Table : pc'[t] \in {"callback", "remap"} => pc[t] \in {"callback", "remap"}
    PROVE  Untouched'
<1>1. \A t \in Table : MigPages(t)' = MigPages(t)
    BY DEF MigPages
<1> QED BY <1>1 DEF Untouched

\* What a page is unmapped for keeps others away from it: a reference and a write
\* come through an entry, and the lock with a reference.
LEMMA StepUntouched == ASSUME IInv, Untouched, [Next]_vars PROVE Untouched'
<1> USE DEF Goto, moving, pages, contents
<1>1. pc \in [Flusher -> Labels] /\ other \in [Page -> {"none", "ref", "lock"}] /\ Table \subseteq Flusher
    BY DEF IInv, TypeOK, Flusher
<1>2. \A t \in Table : MigPages(t) \cap mapped = {}
    BY DEF IInv, Slots
<1>3. CASE Program
  <2>1. ASSUME NEW p \in Page, Write(p) PROVE Untouched'
    <3>1. \A t \in Table : p \notin MigPages(t)
        BY <1>2, <2>1 DEF Write, Untouched
    <3>2. \A t \in Table : MigPages(t)' = MigPages(t)
        BY <2>1 DEF Write, MigPages
    <3> QED BY <2>1, <3>1, <3>2 DEF Write, Untouched
  <2>2. ASSUME NEW r \in Req, Submit(r) PROVE Untouched'
      BY <1>1, <2>2, UntouchedKept DEF Submit
  <2>3. CASE Collect
      BY <2>3, UntouchedKept DEF Collect
  <2>4. CASE Exit
      BY <2>4, UntouchedKept DEF Exit
  <2> QED BY <1>3, <2>1, <2>2, <2>3, <2>4 DEF Program
<1>4. CASE Kick
    BY <1>1, <1>4, UntouchedKept DEF Kick
<1>5. CASE DmaDone
  <2>1. PICK t \in Table : t = Head(chan) /\ t = chan[1] /\ pc[t] = "dma" /\ t \in Flusher
      BY <1>5, InChan, Popped DEF DmaDone, IInv, TypeOK
  <2>2. /\ same' = same \cup MigPages(t) /\ UNCHANGED <<migs, other, lost>>
        /\ \A s \in Table : s # t => pc'[s] = pc[s]
      BY <1>1, <1>5, <2>1 DEF DmaDone, MigPages
  <2>3. \A s \in Table : MigPages(s)' = MigPages(s)
      BY <2>2 DEF MigPages
  <2> QED BY <2>2, <2>3 DEF Untouched
<1>6. CASE Kernel
  <2>1. CASE UNCHANGED other
      BY <1>6, <2>1, UntouchedKept DEF Kernel, LetGo, Use, Drain
  <2>2. CASE other' # other
    <3>1. PICK p \in Busy : LetGo(p) \/ \E what \in {"ref", "lock"} : Use(p, what)
        BY <1>6, <2>2 DEF Kernel, Drain
    <3>2. p \in Page /\ UNCHANGED <<migs, pc, same, lost>>
        BY <3>1, MoveSingleAssumption DEF LetGo, Use
    <3>3. \A t \in Table : MigPages(t)' = MigPages(t)
        BY <3>2 DEF MigPages
    <3>4. ASSUME NEW t \in Table, NEW q \in MigPages(t) PROVE other'[q] = "none"
      <4>0. q \in Page
        <5>1. PICK i \in DOMAIN migs[t] : q = migs[t][i].page
            BY <3>4 DEF MigPages
        <5>2. migs[t] \in Seq(Mig)
            BY DEF IInv, TypeOK
        <5>3. migs[t][i] \in Mig
            BY <5>1, <5>2
        <5> QED BY <5>1, <5>3 DEF Mig
      <4>1. other[q] = "none" /\ q \notin mapped
          BY <1>2, <3>4 DEF Untouched
      <4>2. CASE q = p
          BY <1>1, <3>1, <3>2, <4>1, <4>2 DEF LetGo, Use
      <4>3. CASE q # p
          BY <1>1, <3>1, <3>2, <4>0, <4>1, <4>3 DEF LetGo, Use
      <4> QED BY <4>2, <4>3
    <3> QED BY <3>2, <3>3, <3>4 DEF Untouched
  <2> QED BY <2>1, <2>2
<1>7. ASSUME NEW f \in Flusher, FlushStep(f) PROVE Untouched'
  <2>1. CASE FlushTake(f)
    <3>1. CASE new[f] # None
        BY <1>1, <2>1, <3>1, UntouchedKept DEF FlushTake
    <3>2. CASE new[f] = None
      <4>1. PICK t \in Table : t = Fresh
          BY <2>1, <3>2 DEF FlushTake, Fresh
      <4> QED BY <1>1, <2>1, <3>2, <4>1, UntouchedKept DEF FlushTake
    <3> QED BY <3>1, <3>2
  <2>2. CASE FlushEmpty(f) \/ FlushIssue(f) \/ FlushPaint(f) \/ FlushPut(f) \/ FlushUnlock(f)
      BY <1>1, <2>2, UntouchedKept DEF FlushEmpty, FlushIssue, FlushPaint, FlushPut, FlushUnlock
  <2>3. CASE FlushIsolate(f)
    <3>1. \A t \in Table : pc'[t] = pc[t] \/ pc'[t] \in {"issue", "bug_page", "bug_sg"}
        BY <1>1, <2>3 DEF FlushIsolate
    <3> QED BY <2>3, <3>1, UntouchedKept DEF FlushIsolate
  <2>4. CASE PageGone(f) \/ TryAgain(f) \/ NextPass(f)
      BY <2>4, UntouchedKept DEF PageGone, TryAgain, NextPass
  <2>5. CASE Transfer(f)
    <3>1. \A t \in Table : pc'[t] = pc[t] \/ pc'[t] \in {"dma", "bug_retry", "bug_busy", "unlock"}
      <4>1. PICK t \in Table : t = new[f]
          BY <2>5 DEF Transfer, IInv, Chain
      <4> QED BY <1>1, <2>5, <4>1 DEF Transfer
    <3> QED BY <2>5, <3>1, UntouchedKept DEF Transfer
  <2>6. CASE PagePending(f)
    <3>1. PICK t \in Table : t = new[f] /\ todo[t] \in Seq(Page) /\ todo[t] # <<>> /\ migs[t] \in Seq(Mig)
        BY <2>6 DEF PagePending, IInv, Chain, TypeOK
    <3>2. PICK p \in Page : p = Head(todo[t])
        BY <3>1, ElemsTail
    <3>3. PICK mig : mig = [page |-> p, node |-> NodeOf[slots[t][Len(migs[t]) + 1]]]
        OBVIOUS
    <3>4. /\ pc[f] = "move" /\ p \in mapped /\ other[p] = "none"
          /\ migs' = [migs EXCEPT ![t] = Append(migs[t], mig)]
          /\ same' = same \ {p} /\ UNCHANGED <<pc, other, lost>>
        BY <2>6, <3>1, <3>2, <3>3 DEF PagePending, Alone
    <3>5. migs'[t] = Append(migs[t], mig) /\ \A s \in Table : s # t => migs'[s] = migs[s]
        BY <3>4 DEF IInv, TypeOK
    <3>6. \A s \in Table : s # t => MigPages(s)' = MigPages(s)
        BY <3>5 DEF MigPages
    <3>7. \A q \in MigPages(t)' : q \in MigPages(t) \/ q = p
      <4>1. Elems(migs'[t]) = Elems(migs[t]) \cup {mig}
        <5>1. migs[t] \in Seq(Mig \cup {mig}) /\ mig \in Mig \cup {mig}
            BY <3>1
        <5> QED BY <3>5, <5>1, ElemsAppend
      <4>2. \A i \in DOMAIN migs'[t] : migs'[t][i] \in Elems(migs[t]) \cup {mig}
          BY <4>1 DEF Elems
      <4>3. \A m \in Elems(migs[t]) : m.page \in MigPages(t)
          BY DEF Elems, MigPages
      <4>4. mig.page = p
          BY <3>3
      <4> QED BY <4>2, <4>3, <4>4 DEF MigPages
    <3>8. pc[t] = "built"
        BY <3>1, Filled, MoveSingleAssumption
    <3>9. \A s \in Table : pc'[s] \in {"callback", "remap"} => MigPages(s)' \subseteq same'
        BY <1>2, <3>4, <3>6, <3>8 DEF Untouched
    <3>10. \A s \in Table : \A q \in MigPages(s)' : other'[q] = "none"
        BY <3>4, <3>6, <3>7 DEF Untouched
    <3> QED BY <3>4, <3>9, <3>10 DEF Untouched
  <2> QED BY <1>7, <2>1, <2>2, <2>3, <2>4, <2>5, <2>6 DEF FlushStep
<1>8. ASSUME NEW t \in Table, WorkStep(t) PROVE Untouched'
  <2>1. CASE Callback(t) \/ Remapped(t) \/ Reported(t) \/ Look(t)
      BY <1>1, <2>1, UntouchedKept DEF Callback, Remapped, Reported, Look
  <2>2. CASE Report(t)
      BY <1>1, <2>2, UntouchedKept DEF Report
  <2>3. CASE Remap(t)
    <3>1. PICK p \in Page, n \in Nodes :
              /\ p = migs[t][1].page /\ n = migs[t][1].node /\ 1 \in DOMAIN migs[t] /\ migs[t] \in Seq(Mig)
              /\ p \notin mapped /\ p \notin MigPages(t)' /\ MigPages(t) = MigPages(t)' \cup {p}
              /\ \A s \in Table : s # t => MigPages(s)' = MigPages(s) /\ p \notin MigPages(s)
              /\ mapped' = mapped \cup {p} /\ locked' = locked \ {p} /\ node' = [node EXCEPT ![p] = n]
              /\ lost' = (IF p \in same THEN lost ELSE lost \cup {p}) /\ same' = same \ {p}
              /\ migs'[t] = Tail(migs[t]) /\ \A s \in Table : s # t => migs'[s] = migs[s] /\ list'[s] = list[s]
        BY <2>3, RemapEffect
    <3>2. pc[t] = "remap" /\ pc' = pc /\ other' = other
        BY <2>3 DEF Remap
    <3>3. p \in same
        BY <3>1, <3>2 DEF Untouched
    <3> QED BY <3>1, <3>2, <3>3 DEF Untouched
  <2> QED BY <1>8, <2>1, <2>2, <2>3 DEF WorkStep
<1>9. CASE UNCHANGED vars
    BY <1>9, UntouchedKept DEF vars
<1> QED BY <1>3, <1>4, <1>5, <1>6, <1>7, <1>8, <1>9 DEF Next

-----------------------------------------------------------------------------
\* The references to the mm, when no transfer has been left out.
Exact == mmUsers = One(alive) + Cardinality(Holders)
Counted == ~Bugged => Exact

LEMMA ExactKept ==
    ASSUME Exact, UNCHANGED mm, \A f \in Flusher : Holds(f)' <=> Holds(f)
    PROVE  Exact'
<1>1. Holders' = Holders
    BY DEF Holders
<1> QED BY <1>1 DEF Exact, mm, One

LEMMA StepCounted ==
    ASSUME IInv, MatchedUnlessBug, Counted, [Next]_vars
    PROVE  Counted'
<1> SUFFICES ASSUME ~Bugged' PROVE Exact'
    BY DEF Counted
<1> USE DEF Goto
<1>1. ~Bugged /\ Matched /\ Exact
    BY BugStays DEF MatchedUnlessBug, Counted
<1>2. /\ pc \in [Flusher -> Labels] /\ Table \subseteq Flusher /\ Usr \in Flusher /\ Usr \notin Table
      /\ mmUsers \in Nat /\ alive \in BOOLEAN
    BY MoveSingleAssumption DEF IInv, TypeOK, Flusher
<1>3. \A f \in Flusher : pc'[f] \notin BugLabels
    BY DEF Bugged
<1>4. CASE Program
  <2>1. CASE Exit
    <3>1. Holders' = Holders /\ alive /\ alive' = FALSE /\ mmUsers' = mmUsers - 1
        BY <2>1 DEF Exit, Holders, Holds
    <3> QED BY <1>1, <1>2, <3>1, HoldersFinite DEF Exact, One
  <2>2. ASSUME NEW r \in Req, Submit(r) PROVE Exact'
    <3>1. \A f \in Flusher : Holds(f)' <=> Holds(f)
        BY <1>2, <2>2 DEF Submit, Holds, FlushLabels, TransferLabels
    <3> QED BY <1>1, <2>2, <3>1, ExactKept DEF Submit
  <2>3. CASE Collect \/ \E p \in Page : Write(p)
    <3>1. UNCHANGED <<pc, mm>>
        BY <2>3 DEF Collect, Write
    <3> QED BY <1>1, <3>1, ExactKept DEF Holds
  <2> QED BY <1>4, <2>1, <2>2, <2>3 DEF Program
<1>5. CASE Kick
  <2>1. Usr \notin Holders /\ Holders' = Holders \cup {Usr}
      BY <1>2, <1>5 DEF Kick, Holders, Holds, FlushLabels, TransferLabels
  <2>2. Cardinality(Holders') = Cardinality(Holders) + 1
      BY <2>1, HoldersFinite, FS_AddElement
  <2>3. mmUsers' = mmUsers + 1 /\ alive' = alive
      BY <1>5 DEF Kick
  <2> QED BY <1>1, <1>2, <2>2, <2>3, HoldersFinite DEF Exact, One
<1>6. CASE DmaDone
  <2>1. PICK t \in Table : t = Head(chan) /\ pc[t] = "dma"
      BY <1>6, InChan, Popped DEF DmaDone, IInv, TypeOK
  <2>2. \A f \in Flusher : Holds(f)' <=> Holds(f)
      BY <1>2, <1>6, <2>1 DEF DmaDone, Holds, TransferLabels
  <2> QED BY <1>1, <1>6, <2>2, ExactKept DEF DmaDone
<1>7. CASE Kernel \/ UNCHANGED vars
  <2>1. UNCHANGED <<pc, mm>>
      BY <1>7 DEF Kernel, LetGo, Use, Drain, vars
  <2> QED BY <1>1, <2>1, ExactKept DEF Holds
<1>8. ASSUME NEW f \in Flusher, FlushStep(f) PROVE Exact'
  <2>1. CASE FlushTake(f)
    <3>1. \A g \in Flusher : Holds(g)' <=> Holds(g)
      <4>1. CASE new[f] # None
          BY <1>2, <2>1, <4>1 DEF FlushTake, Holds, FlushLabels
      <4>2. CASE new[f] = None
        <5>1. PICK t \in Table : t = Fresh /\ pc[t] = "free"
            BY <2>1, <4>2 DEF FlushTake, Fresh
        <5> QED BY <1>2, <2>1, <4>2, <5>1 DEF FlushTake, Holds, FlushLabels, TransferLabels
      <4> QED BY <4>1, <4>2
    <3> QED BY <1>1, <2>1, <3>1, ExactKept DEF FlushTake
  <2>2. CASE FlushEmpty(f) \/ FlushIssue(f)
    <3>1. \A g \in Flusher : Holds(g)' <=> Holds(g)
        BY <1>2, <2>2 DEF FlushEmpty, FlushIssue, Holds, FlushLabels
    <3> QED BY <1>1, <2>2, <3>1, ExactKept DEF FlushEmpty, FlushIssue
  <2>3. CASE FlushIsolate(f)
    <3>1. pc'[f] = "issue" /\ \A g \in Flusher : g # f => pc'[g] = pc[g]
        BY <1>2, <1>3, <2>3 DEF FlushIsolate, BugLabels
    <3>2. \A g \in Flusher : Holds(g)' <=> Holds(g)
        BY <2>3, <3>1 DEF FlushIsolate, Holds, FlushLabels
    <3> QED BY <1>1, <2>3, <3>2, ExactKept DEF FlushIsolate
  <2>4. CASE FlushPaint(f)
    <3>1. pc'[f] \in {"take", "put", "move"} /\ \A g \in Flusher : g # f => pc'[g] = pc[g]
        BY <1>2, <1>3, <2>4 DEF FlushPaint, BugLabels
    <3>2. \A g \in Flusher : Holds(g)' <=> Holds(g)
        BY <2>4, <3>1 DEF FlushPaint, Holds, FlushLabels
    <3> QED BY <1>1, <2>4, <3>2, ExactKept DEF FlushPaint
  <2>5. CASE FlushPut(f)
    <3>1. f \in Holders /\ Holders' = Holders \ {f}
        BY <1>2, <2>5 DEF FlushPut, Holders, Holds, FlushLabels, TransferLabels
    <3>2. Cardinality(Holders') = Cardinality(Holders) - 1
        BY <3>1, HoldersFinite, FS_RemoveElement
    <3>3. mmUsers' = mmUsers - 1 /\ alive' = alive
        BY <2>5 DEF FlushPut
    <3> QED BY <1>1, <1>2, <3>2, <3>3, HoldersFinite DEF Exact, One
  <2>6. CASE FlushUnlock(f)
    <3>1. \A g \in Flusher : Holds(g)' <=> Holds(g)
        BY <1>2, <2>6 DEF FlushUnlock, Holds, FlushLabels, TransferLabels
    <3> QED BY <1>1, <2>6, <3>1, ExactKept DEF FlushUnlock
  <2>7. CASE PageGone(f) \/ TryAgain(f) \/ PagePending(f) \/ NextPass(f)
    <3>1. UNCHANGED <<pc, mm>>
        BY <2>7 DEF PageGone, TryAgain, PagePending, NextPass
    <3> QED BY <1>1, <3>1, ExactKept DEF Holds
  <2>8. CASE Transfer(f)
    <3>1. PICK t \in Table : t = new[f]
        BY <2>8 DEF Transfer, IInv, Chain
    <3>2. /\ pc[f] = "move" /\ Fills(f, t) /\ Tidy(t) /\ pc[t] = "built" /\ f # t
          /\ Len(migs[t]) = Len(list[t]) /\ list[t] \in Seq(Page) /\ migs[t] \in Seq(Mig)
          /\ pc' = [pc EXCEPT ![t] = IF migs[t] # <<>> THEN "dma" ELSE @, ![f] = "unlock"]
        BY <1>1, <2>8, <3>1, AllPending
    \* A request under way has a page, so that there is something to transfer.
    <3>3. migs[t] # <<>>
      <4>1. descs[t] \in Seq(Req) /\ descs[t] # <<>>
          BY <3>2 DEF Fills, IInv, TypeOK
      <4>2. PICK r \in Req : r \in Elems(descs[t])
          BY <4>1, ElemsTail
      <4>3. PagesOf[r] \in Seq(Page) /\ PagesOf[r] # <<>>
          BY <4>1, <4>2, MoveSingleAssumption DEF Elems
      <4>4. PICK p \in Page : p \in Elems(PagesOf[r])
          BY <4>3, ElemsTail
      <4>5. p \in Elems(list[t])
          BY <3>2, <4>2, <4>4 DEF Fills, Wanted, Tidy
      <4>6. list[t] # <<>>
          BY <4>5 DEF Elems
      <4> QED BY <3>2, <4>6
    <3>4. /\ pc'[t] = "dma" /\ pc'[f] = "unlock" /\ \A g \in Flusher : g # f /\ g # t => pc'[g] = pc[g]
        BY <1>2, <3>2, <3>3
    <3>5. /\ f \in Holders /\ t \in Flusher /\ t \notin Holders \ {f}
          /\ Holders' = (Holders \ {f}) \cup {t}
        BY <1>2, <3>2, <3>4 DEF Holders, Holds, FlushLabels, TransferLabels
    <3>6. IsFiniteSet(Holders \ {f}) /\ Cardinality(Holders \ {f}) = Cardinality(Holders) - 1
        BY <3>5, HoldersFinite, FS_RemoveElement
    <3>7. Cardinality((Holders \ {f}) \cup {t}) = Cardinality(Holders \ {f}) + 1
        BY <3>5, <3>6, FS_AddElement
    <3>8. Cardinality(Holders') = Cardinality(Holders)
        BY <3>5, <3>6, <3>7, HoldersFinite
    <3>9. mmUsers' = mmUsers /\ alive' = alive
        BY <2>8 DEF Transfer, mm
    <3> QED BY <1>1, <3>8, <3>9 DEF Exact, One
  <2> QED BY <1>8, <2>1, <2>2, <2>3, <2>4, <2>5, <2>6, <2>7, <2>8 DEF FlushStep
<1>9. ASSUME NEW t \in Table, WorkStep(t) PROVE Exact'
  <2>1. CASE Callback(t) \/ Remapped(t) \/ Reported(t)
    <3>1. \A g \in Flusher : Holds(g)' <=> Holds(g)
        BY <1>2, <2>1 DEF Callback, Remapped, Reported, Holds, TransferLabels
    <3> QED BY <1>1, <2>1, <3>1, ExactKept DEF Callback, Remapped, Reported
  <2>2. CASE Remap(t)
      BY <1>1, <2>2, ExactKept DEF Remap, Holds
  <2>3. CASE Report(t)
    <3>1. pc' = pc
        BY <1>2, <1>3, <2>3 DEF Report, BugLabels
    <3> QED BY <1>1, <2>3, <3>1, ExactKept DEF Report, Holds
  <2>4. CASE Look(t)
    <3>1. color = KER
        BY <1>2, <2>4, OnlyOne DEF Look, IInv, Colors, Active, TransferLabels
    <3>2. \A g \in Flusher : Holds(g)' <=> Holds(g)
        BY <1>2, <2>4, <3>1 DEF Look, Holds, FlushLabels, TransferLabels
    <3> QED BY <1>1, <2>4, <3>2, ExactKept DEF Look
  <2> QED BY <1>9, <2>1, <2>2, <2>3, <2>4 DEF WorkStep
<1> QED BY <1>4, <1>5, <1>6, <1>7, <1>8, <1>9 DEF Next

-----------------------------------------------------------------------------
LEMMA UntouchedAlways == Spec => []Untouched
<1>1. Init => Untouched
    BY InitMatched
<1>2. IInv /\ Untouched /\ [Next]_vars => Untouched'
    BY StepUntouched
<1> QED BY <1>1, <1>2, Invariance, PTL DEF Spec

LEMMA MatchedAlways == Spec => []MatchedUnlessBug
<1>1. Init => MatchedUnlessBug
    BY InitMatched DEF MatchedUnlessBug
<1>2. IInv /\ MatchedUnlessBug /\ [Next]_vars => MatchedUnlessBug'
    BY StepMatched
<1> QED BY <1>1, <1>2, Invariance, PTL DEF Spec

\* No write of the program is lost, whatever BUG() is reached: while a page is
\* unmapped nobody else gets at it, and its new frame shows what the old one shows
\* when the entries are replaced.
THEOREM NothingIsLost == Spec => []NothingLost
<1>1. Untouched => NothingLost
    BY DEF Untouched, NothingLost
<1> QED BY <1>1, UntouchedAlways, PTL

\* A request that is reported has all its pages where it wanted them, though slots
\* and pages are matched by their order alone (unless the driver runs into a BUG()).
THEOREM ReportedAreMoved == Spec => []ReportedIsMoved
<1>1. MatchedUnlessBug => ReportedIsMoved
    BY DEF MatchedUnlessBug, Matched, Completed, Moved, ReportedIsMoved, Elems
<1> QED BY <1>1, MatchedAlways, PTL

\* The references to the mm are those of the program and of the flushes and the
\* transfers under way.  A table whose pages were all gone would never be transferred
\* and keep the reference of its chain; it has a page, and that is pending.
THEOREM MmIsAccounted == Spec => []MmAccounted
<1>1. Init => Counted
  <2> SUFFICES ASSUME Init PROVE Exact
      BY DEF Counted
  <2>1. Holders = {}
      BY DEF Init, Holders, Holds, FlushLabels, TransferLabels, Flusher
  <2>2. Cardinality({}) = 0
      BY FS_EmptySet
  <2> QED BY <2>1, <2>2 DEF Init, Exact, One
<1>2. IInv /\ MatchedUnlessBug /\ Counted /\ [Next]_vars => Counted'
    BY StepCounted
<1>3. IInv /\ Counted => MmAccounted
  <2> SUFFICES ASSUME IInv, Counted, ~Bugged PROVE MmAccounted
      BY DEF MmAccounted
  <2>1. mmUsers = One(alive) + Cardinality({f \in Flusher : Holds(f)})
      BY DEF Counted, Exact, Holders
  <2>2. \A f \in Flusher : Holds(f) /\ pc[f] # "put" => Active(f)
      BY DEF Holds, Active, FlushLabels, Flushing
  <2>3. \A f, g \in Flusher : Holds(f) /\ Holds(g) /\ pc[f] # "put" /\ pc[g] # "put" => f = g
      BY <2>2 DEF IInv, Chain
  <2> QED BY <2>1, <2>3 DEF MmAccounted
<1> QED BY <1>1, <1>2, <1>3, Invariance, MatchedAlways, PTL DEF Spec
=============================================================================
