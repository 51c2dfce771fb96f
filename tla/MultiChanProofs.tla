-------------------------- MODULE MultiChanProofs --------------------------
(***************************************************************************)
(* The driver with several DMA channels and one device file: its callbacks *)
(* are counted, stamped and completed as they should be, however many      *)
(* channels there are, however many requests, and however many pages; and  *)
(* the device keeps the promises of MemifService.                          *)
(*                                                                         *)
(* With a second device file the counter is not what it should be: any     *)
(* issue of that device sets it.  Hence OneDevice.                         *)
(***************************************************************************)
EXTENDS MultiChan, FiniteSetTheorems, TLAPS

\* There is one device file.
OneDevice == Device # {} /\ \A d, e \in Device : d = e

\* The pages of a request fill the slices.
Even(r) == Count[r] % NR_DEVICES = 0

-----------------------------------------------------------------------------
(***************************************************************************)
(* How a request is cut into slices.                                       *)
(***************************************************************************)
LEMMA Division ==
    ASSUME NEW n \in Nat, NEW k \in Nat \ {0}
    PROVE  /\ n \div k \in Nat
           /\ n % k \in 0 .. k - 1
           /\ n = k * (n \div k) + (n % k)
    OBVIOUS

LEMMA Monotone ==
    ASSUME NEW a \in Nat, NEW b \in Nat, NEW m \in Nat, a <= b
    PROVE  a * m \in Nat /\ b * m \in Nat /\ a * m <= b * m
    OBVIOUS

LEMMA Commutes ==
    ASSUME NEW a \in Nat, NEW b \in Nat
    PROVE  a * b = b * a
    OBVIOUS

LEMMA NextSlice ==
    ASSUME NEW a \in Nat, NEW m \in Nat
    PROVE  (a + 1) * m = a * m + m
    OBVIOUS

LEMMA SliceInPages ==
    ASSUME NEW n \in Nat, NEW c \in Chan
    PROVE  Slice(n, c) \subseteq 0 .. n - 1
<1> DEFINE m == EachCount(n)
<1>1. m \in Nat /\ NR_DEVICES * m <= n
    BY MultiChanAssumption, Division DEF EachCount
<1>2. c \in Nat /\ c + 1 \in Nat /\ c + 1 <= NR_DEVICES /\ NR_DEVICES \in Nat
    BY MultiChanAssumption DEF Chan
<1> HIDE DEF m
<1>3. (c + 1) * m <= NR_DEVICES * m /\ c * m \in Nat /\ (c + 1) * m \in Nat /\ NR_DEVICES * m \in Nat
    BY <1>1, <1>2, Monotone
<1>4. Slice(n, c) = c * m .. (c + 1) * m - 1
    BY DEF Slice, m
<1> QED BY <1>1, <1>3, <1>4

LEMMA SlicesCover ==
    ASSUME NEW n \in Nat, n % NR_DEVICES = 0, NEW p \in 0 .. n - 1
    PROVE  \E c \in Chan : p \in Slice(n, c)
<1> DEFINE m == EachCount(n)
<1>1. m \in Nat /\ n = NR_DEVICES * m
    BY MultiChanAssumption, Division DEF EachCount
<1>2. NR_DEVICES \in Nat \ {0}
    BY MultiChanAssumption
<1> HIDE DEF m
<1>3. m # 0
    BY <1>1, <1>2
<1> DEFINE c == p \div m
<1>4. c \in Nat /\ p % m \in 0 .. m - 1 /\ p = m * c + (p % m)
    BY <1>1, <1>3, Division
<1> HIDE DEF c
<1>5. p = c * m + (p % m) /\ c * m \in Nat /\ (c + 1) * m = c * m + m
    BY <1>1, <1>4, Commutes, NextSlice, Monotone
<1>6. c < NR_DEVICES
    <2> SUFFICES ASSUME NR_DEVICES <= c PROVE FALSE
        BY <1>2, <1>4
    <2>1. NR_DEVICES * m <= c * m /\ NR_DEVICES * m \in Nat
        BY <1>1, <1>2, <1>4, Monotone
    <2> QED BY <1>1, <1>4, <1>5, <2>1
<1>7. p \in c * m .. (c + 1) * m - 1
    BY <1>1, <1>4, <1>5
<1> QED BY <1>2, <1>4, <1>6, <1>7 DEF Slice, m, Chan

\* No page is given to two channels, no channel is given a page the request does
\* not have, and together they are given all its pages exactly when the pages can
\* be shared out evenly (each_chan_page_count in issue_one_desc_copy); the rest
\* of the division is given to no channel.
THEOREM SplitIsExact ==
    ASSUME NEW r \in Req
    PROVE  /\ \A c \in Chan : Slice(Count[r], c) \subseteq Pages(r)
           /\ \A c, e \in Chan : c # e => Slice(Count[r], c) \cap Slice(Count[r], e) = {}
           /\ (UNION {Slice(Count[r], c) : c \in Chan} = Pages(r)) <=> Even(r)
<1> DEFINE n == Count[r]
           m == EachCount(n)
<1>1. n \in Nat
    BY MultiChanAssumption
<1>2. Pages(r) = 0 .. n - 1
    BY DEF Pages
<1>3. m \in Nat /\ n % NR_DEVICES \in 0 .. NR_DEVICES - 1
      /\ n = NR_DEVICES * m + (n % NR_DEVICES)
    BY <1>1, MultiChanAssumption, Division DEF EachCount
<1>4. NR_DEVICES \in Nat \ {0} /\ NR_DEVICES * m \in Nat
    BY <1>3, MultiChanAssumption, Monotone
<1>5. \A c \in Chan : Slice(n, c) = c * m .. (c + 1) * m - 1
    BY DEF Slice
<1>6. \A c \in Chan : c \in Nat /\ c * m \in Nat /\ (c + 1) * m \in Nat
    <2>1. SUFFICES ASSUME NEW c \in Chan PROVE c * m \in Nat /\ (c + 1) * m \in Nat
        BY <1>4 DEF Chan
    <2>2. c \in Nat /\ c + 1 \in Nat /\ c <= c + 1
        BY DEF Chan
    <2> QED BY <1>3, <2>2, Monotone
<1> HIDE DEF n, m
<1>7. \A c \in Chan : Slice(n, c) \subseteq Pages(r)
    BY <1>1, <1>2, SliceInPages
<1>8. \A c, e \in Chan : c # e => Slice(n, c) \cap Slice(n, e) = {}
    <2>1. \A c, e \in Chan : c < e => (c + 1) * m <= e * m /\ (c + 1) * m \in Nat /\ e * m \in Nat
        BY <1>3, Monotone DEF Chan
    <2>2. \A c, e \in Chan : c < e => Slice(n, c) \cap Slice(n, e) = {}
        <3> SUFFICES ASSUME NEW c \in Chan, NEW e \in Chan, c < e,
                            NEW p \in Slice(n, c) \cap Slice(n, e)
                     PROVE  FALSE
            OBVIOUS
        <3>1. (c + 1) * m <= e * m
            BY <2>1
        <3> QED BY <1>5, <1>6, <3>1
    <2> QED BY <2>2 DEF Chan
<1>9. ASSUME Even(r) PROVE UNION {Slice(n, c) : c \in Chan} = Pages(r)
    <2>1. n % NR_DEVICES = 0
        BY <1>9 DEF Even, n
    <2>2. \A p \in Pages(r) : \E c \in Chan : p \in Slice(n, c)
        BY <1>1, <1>2, <2>1, SlicesCover
    <2> QED BY <1>7, <2>2
<1>10. ASSUME UNION {Slice(n, c) : c \in Chan} = Pages(r), ~Even(r) PROVE FALSE
    <2>1. n % NR_DEVICES # 0
        BY <1>10 DEF Even, n
    <2>2. NR_DEVICES * m \in Pages(r)
        BY <1>1, <1>2, <1>3, <1>4, <2>1
    <2>3. PICK c \in Chan : NR_DEVICES * m \in Slice(n, c)
        BY <1>10, <2>2
    <2>4. (c + 1) * m <= NR_DEVICES * m /\ (c + 1) * m \in Nat
        BY <1>3, <1>4, Monotone DEF Chan
    <2>5. NR_DEVICES * m \in c * m .. (c + 1) * m - 1
        BY <1>5, <2>3
    <2> QED BY <1>4, <1>6, <2>4, <2>5
<1> QED BY <1>7, <1>8, <1>9, <1>10 DEF n

\* A request of fewer pages than there are channels is reported without a page
\* of it having been copied: every channel is given an empty slice.
THEOREM FewPagesNoCopy ==
    ASSUME NEW r \in Req, Count[r] < NR_DEVICES, NEW c \in Chan
    PROVE  Slice(Count[r], c) = {}
<1>1. Count[r] \in Nat /\ NR_DEVICES \in Nat \ {0}
    BY MultiChanAssumption
<1>2. EachCount(Count[r]) = 0
    BY <1>1 DEF EachCount
<1>3. c \in Nat /\ c * 0 = 0 /\ (c + 1) * 0 = 0
    BY DEF Chan
<1> QED BY <1>2, <1>3 DEF Slice

-----------------------------------------------------------------------------
(***************************************************************************)
(* Sequences without repetition.                                           *)
(***************************************************************************)
Distinct(s) == \A i, j \in DOMAIN s : s[i] = s[j] => i = j

LEMMA TakeFirst ==
    ASSUME NEW S, NEW s \in Seq(S), s # <<>>, Distinct(s)
    PROVE  /\ Head(s) \in S /\ Tail(s) \in Seq(S)
           /\ Head(s) \in Elems(s) /\ Head(s) \notin Elems(Tail(s))
           /\ Elems(Tail(s)) \subseteq Elems(s)
           /\ Distinct(Tail(s))
<1>1. /\ Head(s) = s[1] /\ Tail(s) \in Seq(S) /\ Len(s) \in Nat /\ Len(s) > 0
      /\ DOMAIN s = 1 .. Len(s) /\ DOMAIN Tail(s) = 1 .. Len(s) - 1
      /\ \A i \in 1 .. Len(s) - 1 : Tail(s)[i] = s[i + 1]
    OBVIOUS
<1>2. \A i \in DOMAIN Tail(s) : i + 1 \in DOMAIN s /\ Tail(s)[i] = s[i + 1] /\ i + 1 # 1
    BY <1>1
<1>3. Head(s) \notin Elems(Tail(s))
    BY <1>1, <1>2 DEF Elems, Distinct
<1>4. Distinct(Tail(s))
    BY <1>1, <1>2 DEF Distinct
<1> QED BY <1>1, <1>2, <1>3, <1>4 DEF Elems

LEMMA Appended ==
    ASSUME NEW S, NEW s \in Seq(S), NEW x \in S
    PROVE  /\ Len(s) \in Nat /\ DOMAIN s = 1 .. Len(s)
           /\ Append(s, x) # <<>> /\ Len(Append(s, x)) = Len(s) + 1
           /\ DOMAIN Append(s, x) = 1 .. Len(s) + 1
           /\ Append(s, x)[Len(s) + 1] = x
           /\ \A i \in 1 .. Len(s) : Append(s, x)[i] = s[i]
    OBVIOUS

LEMMA Popped ==
    ASSUME NEW S, NEW s \in Seq(S), s # <<>>
    PROVE  /\ Len(s) \in Nat /\ Len(s) >= 1 /\ DOMAIN s = 1 .. Len(s) /\ 1 \in DOMAIN s
           /\ Head(s) = s[1] /\ s[1] \in S
           /\ Tail(s) \in Seq(S) /\ Len(Tail(s)) = Len(s) - 1
           /\ DOMAIN Tail(s) = 1 .. Len(s) - 1
           /\ \A i \in 1 .. Len(s) - 1 : Tail(s)[i] = s[i + 1]
           /\ Len(s) = 1 => Tail(s) = <<>>
    OBVIOUS

LEMMA PutLast ==
    ASSUME NEW S, NEW s \in Seq(S), NEW x \in S
    PROVE  /\ Append(s, x) \in Seq(S) /\ Append(s, x) # <<>>
           /\ Elems(Append(s, x)) = Elems(s) \cup {x}
           /\ Distinct(s) /\ x \notin Elems(s) => Distinct(Append(s, x))
<1>1. /\ Append(s, x) \in Seq(S) /\ Len(s) \in Nat /\ DOMAIN s = 1 .. Len(s)
      /\ DOMAIN Append(s, x) = 1 .. Len(s) + 1
      /\ Append(s, x)[Len(s) + 1] = x
      /\ \A i \in 1 .. Len(s) : Append(s, x)[i] = s[i]
    OBVIOUS
<1>2. Elems(Append(s, x)) \subseteq Elems(s) \cup {x}
    BY <1>1 DEF Elems
<1>3. Elems(s) \cup {x} \subseteq Elems(Append(s, x))
    <2>1. \A i \in DOMAIN s : i \in DOMAIN Append(s, x) /\ Append(s, x)[i] = s[i]
        BY <1>1
    <2>2. Len(s) + 1 \in DOMAIN Append(s, x)
        BY <1>1
    <2> QED BY <1>1, <2>1, <2>2 DEF Elems
<1>4. ASSUME Distinct(s), x \notin Elems(s) PROVE Distinct(Append(s, x))
    BY <1>1, <1>4 DEF Distinct, Elems
<1>5. Append(s, x) # <<>>
    BY <1>1
<1> QED BY <1>1, <1>2, <1>3, <1>4, <1>5

-----------------------------------------------------------------------------
(***************************************************************************)
(* The inductive invariant.                                                *)
(***************************************************************************)
\* A request with interrupts has been given to some channels, and has not been
\* completed.
Running(d) == irq[d] /\ pc[d] \in {"submit", "bug", "irq"}

\* What a channel may be: it knows nothing of a request with interrupts; or r's
\* slice is the last one submitted to it; or it has raised the callback for it.
Silent(c) == \A i \in DOMAIN chan[c] : ~chan[c][i].irq
Clean(c) == Silent(c) /\ raised[c] = <<>> /\ cbpc[c] = "idle"
Pending(c, r) ==
    /\ chan[c] # <<>>
    /\ \A i \in DOMAIN chan[c] : chan[c][i].irq <=> i = Len(chan[c])
    /\ chan[c][Len(chan[c])].req = r
    /\ raised[c] = <<>> /\ cbpc[c] = "idle"
Called(c, r) == Silent(c) /\ Len(raised[c]) = 1 /\ raised[c][1].req = r

Control ==
    \A d \in Device :
        /\ color[d] = USR <=> pc[d] \in {"idle", "kick"}
        /\ pc[d] = "kick" => queue[d] # <<>>
        /\ pc[d] \in {"arm", "reset", "submit", "bug", "irq", "poll", "report"} => job[d] \in Req
        /\ pc[d] \in {"submit", "bug"} => next[d] < NR_DEVICES
        /\ pc[d] = "irq" => irq[d] /\ next[d] = NR_DEVICES
        /\ pc[d] \in {"poll", "report"} => ~irq[d]

Channels ==
    \A d \in Device : \A c \in Chan :
        \/ Clean(c)
        \/ Running(d) /\ c < next[d] /\ (Pending(c, job[d]) \/ Called(c, job[d]))

\* The channels that have yet to store a time stamp.
Unmarked(d) == {c \in Uncounted(d) : cbpc[c] # "count"}

Counts ==
    \A d \in Device :
        /\ irq[d] /\ pc[d] = "reset" => counter = NR_DEVICES
        /\ Running(d) => counter = Cardinality(Uncounted(d))
        /\ \A c \in Chan : cbpc[c] = "finish" => Uncounted(d) = {}
        /\ \A c, e \in Chan : cbpc[c] = "finish" /\ cbpc[e] = "finish" => c = e

Flags ==
    \A d \in Device : Running(d) =>
        /\ flag + Cardinality(Unmarked(d)) <= NR_DEVICES
        /\ \A c \in Chan : cbpc[c] = "mark" => seen[c] + Cardinality(Unmarked(d)) <= NR_DEVICES

\* A request is in one place.
Places ==
    \A d \in Device :
        /\ Distinct(queue[d]) /\ Distinct(qcomp[d])
        /\ Elems(queue[d]) \cap Elems(qcomp[d]) = {}
        /\ Elems(queue[d]) \cap free = {} /\ Elems(qcomp[d]) \cap free = {}
        /\ job[d] \notin Elems(queue[d]) \cup Elems(qcomp[d]) \cup free

Copies ==
    /\ \A r \in Req : copied[r] \subseteq Pages(r)
    /\ \A d \in Device : \A c \in Chan :
           Running(d) /\ c < next[d] /\ Silent(c) => Slice(Count[job[d]], c) \subseteq copied[job[d]]

IInv == TypeOK /\ Control /\ Channels /\ Counts /\ Flags /\ Places /\ Copies

-----------------------------------------------------------------------------
(***************************************************************************)
(* The steps, one lemma for each.                                          *)
(***************************************************************************)
LEMMA ChanFinite ==
    ASSUME NEW U, U \subseteq Chan
    PROVE  /\ IsFiniteSet(U) /\ Cardinality(U) \in 0 .. NR_DEVICES
           /\ Cardinality(U) = 0 <=> U = {}
           /\ \A c \in U : Cardinality(U \ {c}) = Cardinality(U) - 1
<1>1. NR_DEVICES \in Nat /\ 0 \in Int /\ NR_DEVICES - 1 \in Int
    BY MultiChanAssumption
<1>2. IsFiniteSet(Chan) /\ Cardinality(Chan) = NR_DEVICES
    BY <1>1, MultiChanAssumption, FS_Interval DEF Chan
<1>3. IsFiniteSet(U) /\ Cardinality(U) \in Nat /\ Cardinality(U) <= NR_DEVICES
    BY <1>1, <1>2, FS_Subset, FS_CardinalityType
<1> QED BY <1>1, <1>3, FS_EmptySet, FS_RemoveElement

LEMMA AllChannels == Cardinality(Chan) = NR_DEVICES
<1>1. NR_DEVICES \in Nat \ {0} /\ 0 \in Int /\ NR_DEVICES - 1 \in Int
    BY MultiChanAssumption
<1> QED BY <1>1, FS_Interval DEF Chan

LEMMA InitInv == Init => IInv
<1> SUFFICES ASSUME Init PROVE IInv
    OBVIOUS
<1>1. NR_DEVICES \in Nat \ {0} /\ Count \in [Req -> Nat] /\ None \notin Req
    BY MultiChanAssumption
<1>2. TypeOK
    BY <1>1 DEF Init, TypeOK, Labels, CallbackLabels, USR, KER
<1>3. Control
    BY DEF Init, Control, USR
<1>4. Channels
    BY DEF Init, Channels, Clean, Silent
<1>5. Counts
    BY DEF Init, Counts, Running
<1>6. Flags
    BY DEF Init, Flags, Running
<1>7. Places
    <2>1. Elems(<<>>) = {} /\ Distinct(<<>>)
        BY DEF Elems, Distinct
    <2> QED BY <1>1, <2>1 DEF Init, Places
<1>8. Copies
    BY DEF Init, Copies, Running
<1> QED BY <1>2, <1>3, <1>4, <1>5, <1>6, <1>7, <1>8 DEF IInv

\* A step that leaves the counting of a request with interrupts alone.
LEMMA CountingKept ==
    ASSUME IInv, UNCHANGED <<chan, softirqs, globals, irq, next>>,
           \A d \in Device : /\ pc[d] = "reset" <=> pc'[d] = "reset"
                             /\ pc[d] \in {"submit", "bug"} <=> pc'[d] \in {"submit", "bug"}
                             /\ pc[d] = "irq" <=> pc'[d] = "irq",
           \A d \in Device : Running(d) => job'[d] = job[d]
    PROVE  Channels' /\ Counts' /\ Flags'
<1>1. \A d \in Device : Running(d)' <=> Running(d)
    BY DEF Running
<1>2. \A c \in Chan : (Clean(c)' <=> Clean(c)) /\ (Silent(c)' <=> Silent(c))
    BY DEF Clean, Silent, softirqs
<1>3. Channels'
    BY <1>1, <1>2 DEF IInv, Channels, Pending, Called, softirqs
<1>4. \A d \in Device : Uncounted(d)' = Uncounted(d)
    BY DEF Uncounted, softirqs
<1>5. \A d \in Device : Unmarked(d)' = Unmarked(d)
    BY <1>4 DEF Unmarked, softirqs
<1>6. Counts'
    BY <1>1, <1>4 DEF IInv, Counts, softirqs, globals
<1>7. Flags'
    BY <1>1, <1>5 DEF IInv, Flags, softirqs, globals
<1> QED BY <1>3, <1>6, <1>7

LEMMA SubmitInv ==
    ASSUME OneDevice, IInv, NEW d \in Device, NEW r \in Req, Submit(d, r)
    PROVE  IInv'
<1> USE DEF queues, chains
<1>1. queue[d] \in Seq(Req) /\ r \notin Elems(queue[d]) /\ Distinct(queue[d])
    BY DEF IInv, TypeOK, Places, Submit
<1>2. /\ Append(queue[d], r) \in Seq(Req) /\ Append(queue[d], r) # <<>>
      /\ Elems(Append(queue[d], r)) = Elems(queue[d]) \cup {r}
      /\ Distinct(Append(queue[d], r))
    BY <1>1, PutLast
<1>3. TypeOK'
    BY <1>2 DEF IInv, TypeOK, Submit, Goto, softirqs, globals, Labels
<1>4. color[d] = USR => pc[d] = "idle" /\ ~Running(d)
    BY DEF IInv, Control, Submit, UserRuns, Running
<1>5. Control'
    BY <1>2, <1>4, OneDevice DEF IInv, TypeOK, OneDevice, Control, Submit, Goto, USR
<1>6. Channels' /\ Counts' /\ Flags'
    <2>1. \A e \in Device : /\ pc[e] = "reset" <=> pc'[e] = "reset"
                            /\ pc[e] \in {"submit", "bug"} <=> pc'[e] \in {"submit", "bug"}
                            /\ pc[e] = "irq" <=> pc'[e] = "irq"
        BY <1>4 DEF IInv, TypeOK, Submit, UserRuns, Goto
    <2> QED BY <2>1, CountingKept DEF Submit
<1>7. Places'
    BY <1>2 DEF IInv, TypeOK, Places, Submit, OneDevice
<1>8. Copies'
    <2>1. \A e \in Device : Running(e)' => Running(e) /\ job[e] # r
        BY <1>4 DEF IInv, TypeOK, Places, Submit, Running, Goto, OneDevice
    <2>2. \A e \in Device : Running(e) => job[e] \in Req
        BY DEF IInv, Control, Running
    <2>3. copied' = [copied EXCEPT ![r] = {}] /\ UNCHANGED <<next, chan, job>>
        BY DEF Submit
    <2> QED BY <2>1, <2>2, <2>3 DEF IInv, TypeOK, Copies, Silent
<1> QED BY <1>3, <1>5, <1>6, <1>7, <1>8 DEF IInv

LEMMA CollectInv ==
    ASSUME OneDevice, IInv, NEW d \in Device, Collect(d)
    PROVE  IInv'
<1> USE DEF queues, chains
<1>1. qcomp[d] \in Seq(Req) /\ qcomp[d] # <<>> /\ Distinct(qcomp[d])
    BY DEF IInv, TypeOK, Places, Collect
<1>2. /\ Head(qcomp[d]) \in Req /\ Tail(qcomp[d]) \in Seq(Req)
      /\ Head(qcomp[d]) \in Elems(qcomp[d]) /\ Head(qcomp[d]) \notin Elems(Tail(qcomp[d]))
      /\ Elems(Tail(qcomp[d])) \subseteq Elems(qcomp[d]) /\ Distinct(Tail(qcomp[d]))
    BY <1>1, TakeFirst
<1>3. TypeOK'
    BY <1>2 DEF IInv, TypeOK, Collect, softirqs, globals
<1>5. Control'
    BY DEF IInv, Control, Collect
<1>6. Channels' /\ Counts' /\ Flags'
    BY CountingKept DEF Collect
<1>7. Places'
    BY <1>2 DEF IInv, TypeOK, Places, Collect, OneDevice
<1>8. Copies'
    BY DEF IInv, Copies, Collect, Silent, Running
<1> QED BY <1>3, <1>5, <1>6, <1>7, <1>8 DEF IInv

LEMMA UserFlushInv ==
    ASSUME OneDevice, IInv, NEW d \in Device, UserFlush(d)
    PROVE  IInv'
<1> USE DEF queues, chains
<1>1. queue[d] \in Seq(Req) /\ queue[d] # <<>> /\ Distinct(queue[d])
    BY DEF IInv, TypeOK, Control, Places, UserFlush
<1>2. /\ Head(queue[d]) \in Req /\ Tail(queue[d]) \in Seq(Req)
      /\ Head(queue[d]) \in Elems(queue[d]) /\ Head(queue[d]) \notin Elems(Tail(queue[d]))
      /\ Elems(Tail(queue[d])) \subseteq Elems(queue[d]) /\ Distinct(Tail(queue[d]))
    BY <1>1, TakeFirst
<1>3. TypeOK'
    BY <1>2 DEF IInv, TypeOK, UserFlush, Goto, softirqs, globals, Labels, KER
<1>4. ~Running(d) /\ ~Running(d)'
    BY DEF IInv, TypeOK, UserFlush, Running, Goto
<1>5. Control'
    BY <1>2 DEF IInv, TypeOK, OneDevice, Control, UserFlush, Goto, USR, KER
<1>6. Channels' /\ Counts' /\ Flags'
    <2>1. \A c \in Chan : Clean(c) /\ Clean(c)'
        BY <1>4 DEF IInv, Channels, UserFlush, softirqs, Clean, Silent
    <2>2. pc'[d] = "arm"
        BY DEF IInv, TypeOK, UserFlush, Goto
    <2> QED BY <1>4, <2>1, <2>2 DEF OneDevice, Channels, Counts, Flags, Clean
<1>7. Places'
    BY <1>2 DEF IInv, TypeOK, Places, UserFlush, OneDevice
<1>8. Copies'
    BY <1>4 DEF IInv, Copies, UserFlush, OneDevice
<1> QED BY <1>3, <1>5, <1>6, <1>7, <1>8 DEF IInv

LEMMA ArmInv ==
    ASSUME OneDevice, IInv, NEW d \in Device, Arm(d)
    PROVE  IInv'
<1> USE DEF queues
<1>1. NR_DEVICES \in Nat
    BY MultiChanAssumption
<1>2. TypeOK'
    BY <1>1 DEF IInv, TypeOK, Arm, Goto, softirqs, Labels
<1>3. ~Running(d) /\ ~Running(d)'
    BY DEF IInv, TypeOK, Arm, Running, Goto
<1>4. Control'
    BY DEF IInv, TypeOK, OneDevice, Control, Arm, Goto
<1>5. \A c \in Chan : Clean(c) /\ Clean(c)'
    BY <1>3 DEF IInv, Channels, Arm, softirqs, Clean, Silent
<1>6. Channels' /\ Counts' /\ Flags' /\ Copies'
    <2>1. counter' = NR_DEVICES /\ UNCHANGED copied
        BY DEF Arm
    <2> QED BY <1>3, <1>5, <2>1 DEF IInv, OneDevice, Channels, Counts, Flags, Clean, Copies
<1>7. Places'
    BY DEF IInv, Places, Arm
<1> QED BY <1>2, <1>4, <1>6, <1>7 DEF IInv

LEMMA ResetInv ==
    ASSUME OneDevice, IInv, NEW d \in Device, Reset(d)
    PROVE  IInv'
<1> USE DEF queues
<1>1. NR_DEVICES \in Nat \ {0} /\ Count \in [Req -> Nat]
    BY MultiChanAssumption
<1>2. TypeOK'
    BY <1>1 DEF IInv, TypeOK, Reset, Goto, softirqs, Labels
<1>3. ~Running(d) /\ next'[d] = 0 /\ pc'[d] = "submit" /\ irq' = irq /\ flag' = 0
    BY DEF IInv, TypeOK, Reset, Running, Goto
<1>4. Control'
    BY <1>1 DEF IInv, TypeOK, OneDevice, Control, Reset, Goto
<1>5. \A c \in Chan : Clean(c) /\ Clean(c)'
    BY <1>3 DEF IInv, Channels, Reset, softirqs, Clean, Silent
<1>6. Channels'
    BY <1>5 DEF Channels
<1>7. Uncounted(d)' = Chan
    BY <1>1, <1>3 DEF Uncounted, Chan
<1>8. Counts'
    <2>1. Running(d)' => counter' = NR_DEVICES
        BY <1>3 DEF IInv, Counts, Reset, Running
    <2>2. pc'[d] # "reset"
        BY <1>3
    <2> QED BY <1>5, <1>7, <2>1, <2>2, AllChannels DEF OneDevice, Counts, Clean
<1>9. Flags'
    <2>1. Unmarked(d)' = Chan
        BY <1>5, <1>7 DEF Unmarked, Clean
    <2> QED BY <1>1, <1>3, <1>5, <2>1, AllChannels DEF OneDevice, Flags, Clean
<1>10. Places'
    BY DEF IInv, Places, Reset
<1>11. Copies'
    BY <1>3 DEF IInv, OneDevice, Copies, Reset, Chan
<1> QED BY <1>2, <1>4, <1>6, <1>8, <1>9, <1>10, <1>11 DEF IInv

LEMMA SubmitPieceInv ==
    ASSUME OneDevice, IInv, NEW d \in Device, SubmitPiece(d)
    PROVE  IInv'
<1> USE DEF queues
<1>1. NR_DEVICES \in Nat \ {0} /\ Count \in [Req -> Nat]
    BY MultiChanAssumption
<1>2. PICK n \in Chan : n = next[d]
    BY <1>1 DEF IInv, TypeOK, Control, SubmitPiece, Chan
<1>3. PICK piece \in Piece : piece = [dev |-> d, req |-> job[d], irq |-> irq[d]]
    BY DEF IInv, TypeOK, Control, SubmitPiece, Piece
<1>4. /\ pc[d] = "submit" /\ job[d] \in Req /\ irq[d] \in BOOLEAN
      /\ n \in Nat /\ n < NR_DEVICES
    BY <1>2, <1>1 DEF IInv, TypeOK, Control, SubmitPiece, Chan
<1>5. chan[n] \in Seq(Piece) /\ Append(chan[n], piece) \in Seq(Piece)
    BY <1>4 DEF IInv, TypeOK
<1>6. chan' = [chan EXCEPT ![n] = Append(chan[n], piece)] /\ next' = [next EXCEPT ![d] = n + 1]
    BY <1>2, <1>3 DEF SubmitPiece
<1>7. \A c \in Chan : c # n => chan'[c] = chan[c]
    BY <1>6 DEF IInv, TypeOK
<1>8. chan'[n] = Append(chan[n], piece) /\ next'[d] = n + 1
    BY <1>4, <1>6 DEF IInv, TypeOK
<1>9. /\ Len(chan[n]) \in Nat /\ DOMAIN chan[n] = 1 .. Len(chan[n])
      /\ chan'[n] # <<>> /\ Len(chan'[n]) = Len(chan[n]) + 1
      /\ DOMAIN chan'[n] = 1 .. Len(chan[n]) + 1
      /\ chan'[n][Len(chan[n]) + 1] = piece
      /\ \A i \in 1 .. Len(chan[n]) : chan'[n][i] = chan[n][i]
    BY <1>5, <1>8, <1>3, Appended
<1>10. /\ piece.irq = irq[d] /\ piece.req = job[d]
       /\ UNCHANGED <<irq, job, raised, cbpc, seen, counter, flag, copied>>
    BY <1>3 DEF SubmitPiece, softirqs, globals
<1>11. /\ n + 1 < NR_DEVICES => pc'[d] = "submit"
       /\ ~(n + 1 < NR_DEVICES) /\ irq[d] => pc'[d] = "irq"
       /\ ~(n + 1 < NR_DEVICES) /\ ~irq[d] => pc'[d] = "poll"
    BY <1>2, <1>4 DEF IInv, TypeOK, SubmitPiece, Goto
<1>12. TypeOK'
    <2>1. chan' \in [Chan -> Seq(Piece)]
        BY <1>5, <1>6 DEF IInv, TypeOK
    <2>2. next' \in [Device -> 0 .. NR_DEVICES]
        BY <1>1, <1>4, <1>6 DEF IInv, TypeOK
    <2>3. pc' \in [Device -> Labels]
        BY DEF IInv, TypeOK, SubmitPiece, Goto, Labels
    <2>4. UNCHANGED <<queues, raised, cbpc, seen, counter, flag, copied, job, irq>>
        BY <1>10 DEF SubmitPiece
    <2> QED BY <2>1, <2>2, <2>3, <2>4 DEF IInv, TypeOK
<1>13. Running(d)' <=> Running(d)
    BY <1>4, <1>10, <1>11 DEF Running
<1>14. Clean(n)
    BY <1>2, <1>4 DEF IInv, Channels, Chan
<1>15. Control'
    BY <1>1, <1>4, <1>8, <1>10, <1>11 DEF IInv, TypeOK, Control, OneDevice, SubmitPiece
<1>16. irq[d] => Pending(n, job[d])'
    <2> SUFFICES ASSUME irq[d] PROVE Pending(n, job[d])'
        OBVIOUS
    <2>1. \A i \in DOMAIN chan'[n] : i # Len(chan'[n]) => i \in DOMAIN chan[n] /\ chan'[n][i] = chan[n][i]
        BY <1>9
    <2>2. \A i \in DOMAIN chan'[n] : chan'[n][i].irq <=> i = Len(chan'[n])
        BY <1>9, <1>10, <1>14, <2>1 DEF Clean, Silent
    <2>3. raised'[n] = <<>> /\ cbpc'[n] = "idle" /\ chan'[n] # <<>>
        BY <1>9, <1>10, <1>14 DEF Clean
    <2>4. chan'[n][Len(chan'[n])].req = job'[d]
        BY <1>9, <1>10
    <2> QED BY <1>10, <2>2, <2>3, <2>4 DEF Pending
<1>17. ~irq[d] => Clean(n)'
    BY <1>9, <1>10, <1>14 DEF Clean, Silent
<1>18. \A c \in Chan : c # n => (Clean(c)' <=> Clean(c)) /\ (Pending(c, job[d])' <=> Pending(c, job[d]))
                               /\ (Called(c, job[d])' <=> Called(c, job[d]))
    BY <1>7, <1>10 DEF Clean, Pending, Called, Silent
<1>19. Channels'
    <2> SUFFICES ASSUME NEW c \in Chan
                 PROVE  \/ Clean(c)'
                        \/ Running(d)' /\ c < next'[d]
                           /\ (Pending(c, job[d])' \/ Called(c, job[d])')
        BY <1>10 DEF Channels, OneDevice
    <2>1. CASE c = n
        BY <1>4, <1>8, <1>10, <1>13, <1>16, <1>17, <2>1 DEF Running
    <2>2. CASE c # n
        <3>1. c < next[d] => c < next'[d]
            BY <1>4, <1>8, <1>2 DEF Chan
        <3> QED BY <1>13, <1>18, <2>2, <3>1 DEF IInv, Channels
    <2> QED BY <2>1, <2>2
<1>20. Running(d) => Uncounted(d)' = Uncounted(d)
    <2> SUFFICES ASSUME Running(d), NEW c \in Chan
                 PROVE  c \in Uncounted(d)' <=> c \in Uncounted(d)
        BY DEF Uncounted
    <2>1. irq[d]
        BY DEF Running
    <2>2. CASE c = n
        <3>1. c \in Uncounted(d)
            BY <1>4, <1>2, <2>2 DEF Uncounted
        <3>2. Len(chan[n]) + 1 \in DOMAIN chan'[n]
              /\ chan'[n][Len(chan[n]) + 1].irq
            BY <1>9, <1>10, <2>1
        <3> QED BY <2>2, <3>1, <3>2 DEF Uncounted
    <2>3. CASE c # n
        <3>1. pc'[d] \in {"submit", "bug"} /\ c >= next'[d] <=> c >= next[d]
            BY <1>1, <1>4, <1>8, <1>11, <1>2, <2>1, <2>3 DEF Chan
        <3> QED BY <1>4, <1>7, <1>10, <2>3, <3>1 DEF Uncounted
    <2> QED BY <2>2, <2>3
<1>21. \A c \in Chan : cbpc[c] # "finish"
    <2>1. n \in Uncounted(d)
        BY <1>4, <1>2 DEF Uncounted
    <2> QED BY <2>1 DEF IInv, Counts
<1>22. Counts'
    <2>1. pc'[d] # "reset"
        BY <1>4, <1>11
    <2> QED BY <1>10, <1>13, <1>20, <1>21, <2>1 DEF IInv, Counts, OneDevice
<1>23. Flags'
    <2>1. Running(d) => Unmarked(d)' = Unmarked(d)
        BY <1>10, <1>20 DEF Unmarked
    <2> QED BY <1>10, <1>13, <2>1 DEF IInv, Flags, OneDevice
<1>24. Places'
    BY <1>10 DEF IInv, Places, SubmitPiece
<1>25. Copies'
    <2> SUFFICES ASSUME NEW c \in Chan, Running(d)', c < next'[d], Silent(c)'
                 PROVE  Slice(Count[job[d]], c) \subseteq copied[job[d]]
        BY <1>10 DEF IInv, Copies, OneDevice
    <2>1. c # n
        <3>1. Pending(n, job[d])'
            BY <1>10, <1>13, <1>16 DEF Running
        <3>2. Len(chan'[n]) \in DOMAIN chan'[n] /\ chan'[n][Len(chan'[n])].irq
            BY <1>9, <3>1 DEF Pending
        <3> QED BY <3>2 DEF Silent
    <2>2. c < next[d] /\ Silent(c)
        BY <1>4, <1>7, <1>8, <1>2, <2>1 DEF Chan, Silent
    <2> QED BY <1>13, <2>2 DEF IInv, Copies
<1> QED BY <1>12, <1>15, <1>19, <1>22, <1>23, <1>24, <1>25 DEF IInv

LEMMA SubmitFullInv ==
    ASSUME OneDevice, IInv, NEW d \in Device, SubmitFull(d)
    PROVE  IInv'
<1> USE DEF queues, chains
<1>1. TypeOK'
    BY DEF IInv, TypeOK, SubmitFull, Goto, Labels, softirqs, globals
<1>2. Control'
    BY DEF IInv, TypeOK, Control, SubmitFull, Goto, OneDevice
<1>3. Channels' /\ Counts' /\ Flags'
    <2>1. \A e \in Device : /\ pc[e] = "reset" <=> pc'[e] = "reset"
                            /\ pc[e] \in {"submit", "bug"} <=> pc'[e] \in {"submit", "bug"}
                            /\ pc[e] = "irq" <=> pc'[e] = "irq"
        BY DEF IInv, TypeOK, SubmitFull, Goto
    <2> QED BY <2>1, CountingKept DEF SubmitFull
<1>4. Copies'
    <2>1. \A e \in Device : Running(e)' => Running(e)
        BY DEF IInv, TypeOK, SubmitFull, Goto, Running
    <2>2. UNCHANGED <<chan, copied, next, job>>
        BY DEF SubmitFull
    <2> QED BY <2>1, <2>2 DEF IInv, Copies, Silent
<1> QED BY <1>1, <1>2, <1>3, <1>4 DEF IInv, Places, SubmitFull

LEMMA ChannelCopiesInv ==
    ASSUME OneDevice, IInv, NEW c \in Chan, ChannelCopies(c)
    PROVE  IInv'
<1> USE DEF queues, chains
<1>1. PICK piece \in Piece : piece = Head(chan[c])
    BY Popped DEF IInv, TypeOK, ChannelCopies
<1>2. PICK d \in Device : \A e \in Device : e = d
    BY <1>1 DEF OneDevice, Piece
<1>3. chan[c] \in Seq(Piece) /\ chan[c] # <<>>
    BY DEF IInv, TypeOK, ChannelCopies
<1>4. /\ Len(chan[c]) \in Nat /\ Len(chan[c]) >= 1
      /\ DOMAIN chan[c] = 1 .. Len(chan[c]) /\ 1 \in DOMAIN chan[c]
      /\ piece = chan[c][1] /\ Tail(chan[c]) \in Seq(Piece)
      /\ Len(Tail(chan[c])) = Len(chan[c]) - 1
      /\ DOMAIN Tail(chan[c]) = 1 .. Len(chan[c]) - 1
      /\ \A i \in 1 .. Len(chan[c]) - 1 : Tail(chan[c])[i] = chan[c][i + 1]
      /\ Len(chan[c]) = 1 => Tail(chan[c]) = <<>>
    BY <1>1, <1>3, Popped
<1>5. /\ chan'[c] = Tail(chan[c]) /\ chan' \in [Chan -> Seq(Piece)]
      /\ \A e \in Chan : e # c => chan'[e] = chan[e]
    BY <1>4 DEF IInv, TypeOK, ChannelCopies
<1>6. /\ piece.irq \in BOOLEAN /\ piece.req \in Req
      /\ raised' = IF piece.irq THEN [raised EXCEPT ![c] = Append(@, piece)] ELSE raised
      /\ copied' = [copied EXCEPT ![piece.req] = @ \cup Slice(Count[piece.req], c)]
      /\ UNCHANGED <<free, queue, qcomp, color, pc, job, irq, next, cbpc, seen, counter, flag>>
    BY <1>1 DEF ChannelCopies, Piece, globals
<1>7. ASSUME piece.irq
      PROVE  /\ Running(d) /\ c < next[d] /\ Pending(c, job[d]) /\ Len(chan[c]) = 1
             /\ piece.req = job[d] /\ raised[c] = <<>> /\ cbpc[c] = "idle"
    <2>1. ~Silent(c)
        BY <1>4, <1>7 DEF Silent
    <2>2. Running(d) /\ c < next[d] /\ Pending(c, job[d])
        BY <2>1 DEF IInv, Channels, Clean, Called
    <2>3. Len(chan[c]) = 1
        BY <1>4, <1>7, <2>2 DEF Pending
    <2> QED BY <1>4, <2>2, <2>3 DEF Pending
<1>8. Append(<<>>, piece) = <<piece>> /\ <<piece>> # <<>> /\ Len(<<piece>>) = 1 /\ <<piece>>[1] = piece
      /\ <<piece>> \in Seq(Piece)
    BY <1>1
<1>9. ASSUME piece.irq
      PROVE  /\ chan'[c] = <<>> /\ raised'[c] = <<piece>>
             /\ raised' \in [Chan -> Seq(Piece)]
             /\ \A e \in Chan : e # c => raised'[e] = raised[e]
    BY <1>4, <1>5, <1>6, <1>7, <1>8, <1>9 DEF IInv, TypeOK
<1>10. ASSUME ~piece.irq
       PROVE  raised' = raised
    BY <1>6, <1>10
<1>11. TypeOK'
    <2>1. raised' \in [Chan -> Seq(Piece)]
        BY <1>6, <1>9, <1>10 DEF IInv, TypeOK
    <2>2. Count[piece.req] \in Nat
        BY <1>6, MultiChanAssumption
    <2>3. Slice(Count[piece.req], c) \subseteq Nat
        BY <2>2, SliceInPages
    <2>4. copied' \in [Req -> SUBSET Nat]
        BY <1>6, <2>3 DEF IInv, TypeOK
    <2> QED BY <1>5, <1>6, <2>1, <2>4 DEF IInv, TypeOK
<1>12. Control'
    BY <1>6 DEF IInv, Control
<1>13. Running(d)' <=> Running(d)
    BY <1>6 DEF Running
<1>14. \A e \in Chan : e # c => /\ Clean(e)' <=> Clean(e)
                                /\ Pending(e, job[d])' <=> Pending(e, job[d])
                                /\ Called(e, job[d])' <=> Called(e, job[d])
                                /\ Silent(e)' <=> Silent(e)
    <2> SUFFICES ASSUME NEW e \in Chan, e # c
                 PROVE  chan'[e] = chan[e] /\ raised'[e] = raised[e] /\ cbpc' = cbpc /\ job' = job
        BY DEF Clean, Pending, Called, Silent
    <2> QED BY <1>5, <1>6, <1>9, <1>10
<1>15. ASSUME piece.irq PROVE Called(c, job[d])'
    BY <1>6, <1>7, <1>8, <1>9, <1>15 DEF Called, Silent
<1>16. ASSUME ~piece.irq, Silent(c) PROVE Silent(c)'
    <2>1. \A i \in 1 .. Len(chan[c]) - 1 : i + 1 \in DOMAIN chan[c]
        BY <1>4
    <2> QED BY <1>4, <1>5, <1>16, <2>1 DEF Silent
<1>17. ASSUME ~piece.irq, Pending(c, job[d]) PROVE Pending(c, job[d])'
    <2>1. Len(chan[c]) # 1
        BY <1>4, <1>17 DEF Pending
    <2>2. Len(chan[c]) \in Nat /\ Len(chan[c]) >= 1
        BY <1>4
    <2>3. Len(chan[c]) > 1
        <3>1. \A n \in Nat : n >= 1 /\ n # 1 => n > 1
            OBVIOUS
        <3> QED BY <2>1, <2>2, <3>1
    <2>4. Len(chan'[c]) \in DOMAIN chan'[c] /\ chan'[c] # <<>> /\ Len(chan'[c]) = Len(chan[c]) - 1
        BY <1>4, <1>5, <2>3
    <2>5. \A i \in DOMAIN chan'[c] : i \in Nat /\ i + 1 \in DOMAIN chan[c] /\ chan'[c][i] = chan[c][i + 1]
        BY <1>4, <1>5
    <2>6. \A i \in DOMAIN chan'[c] : chan'[c][i].irq <=> i = Len(chan'[c])
        <3>1. \A i \in DOMAIN chan'[c] : i = Len(chan'[c]) <=> i + 1 = Len(chan[c])
            BY <1>4, <2>4, <2>5
        <3> QED BY <1>17, <2>5, <3>1 DEF Pending
    <2>7. chan'[c][Len(chan'[c])].req = job[d]
        <3>1. chan'[c][Len(chan'[c])] = chan[c][Len(chan[c]) - 1 + 1]
            BY <2>4, <2>5
        <3>2. Len(chan[c]) - 1 + 1 = Len(chan[c])
            BY <1>4
        <3> QED BY <1>17, <3>1, <3>2 DEF Pending
    <2> QED BY <1>6, <1>10, <1>17, <2>4, <2>6, <2>7 DEF Pending
<1>18. Channels'
    <2> SUFFICES ASSUME NEW e \in Chan
                 PROVE  \/ Clean(e)'
                        \/ Running(d)' /\ e < next[d] /\ (Pending(e, job[d])' \/ Called(e, job[d])')
        BY <1>2, <1>6 DEF Channels
    <2>1. CASE e # c
        BY <1>13, <1>14, <2>1 DEF IInv, Channels
    <2>2. CASE e = c /\ piece.irq
        BY <1>7, <1>13, <1>15, <2>2
    <2>3. CASE e = c /\ ~piece.irq
        <3>1. Clean(c) => Clean(c)'
            BY <1>6, <1>10, <1>16, <2>3 DEF Clean
        <3>2. Called(c, job[d]) => Called(c, job[d])'
            BY <1>6, <1>10, <1>16, <2>3 DEF Called
        <3> QED BY <1>13, <1>17, <2>3, <3>1, <3>2 DEF IInv, Channels
    <2> QED BY <2>1, <2>2, <2>3
<1>19. Uncounted(d)' = Uncounted(d)
    <2> SUFFICES ASSUME NEW e \in Chan
                 PROVE  e \in Uncounted(d)' <=> e \in Uncounted(d)
        BY DEF Uncounted
    <2>1. CASE e # c
        <3>1. chan'[e] = chan[e] /\ raised'[e] = raised[e]
            BY <1>5, <1>9, <1>10, <1>6, <2>1
        <3> QED BY <1>6, <3>1 DEF Uncounted
    <2>2. CASE e = c /\ piece.irq
        <3>1. c \in Uncounted(d)
            BY <1>4, <2>2 DEF Uncounted
        <3>2. raised'[c] # <<>> /\ cbpc'[c] # "finish"
            BY <1>6, <1>7, <1>8, <1>9, <2>2
        <3> QED BY <2>2, <3>1, <3>2 DEF Uncounted
    <2>3. CASE e = c /\ ~piece.irq
        <3>1. \A i \in DOMAIN chan[c] : chan[c][i].irq => i - 1 \in DOMAIN chan'[c] /\ chan'[c][i - 1] = chan[c][i]
            BY <1>4, <1>5, <2>3
        <3>2. \A i \in DOMAIN chan'[c] : i + 1 \in DOMAIN chan[c] /\ chan'[c][i] = chan[c][i + 1]
            BY <1>4, <1>5
        <3>3. (\E i \in DOMAIN chan'[c] : chan'[c][i].irq) <=> (\E i \in DOMAIN chan[c] : chan[c][i].irq)
            BY <3>1, <3>2
        <3> QED BY <1>6, <1>10, <2>3, <3>3 DEF Uncounted
    <2> QED BY <2>1, <2>2, <2>3
<1>20. Counts'
    BY <1>2, <1>6, <1>13, <1>19 DEF IInv, Counts
<1>21. Flags'
    <2>1. Unmarked(d)' = Unmarked(d)
        BY <1>6, <1>19 DEF Unmarked
    <2> QED BY <1>2, <1>6, <1>13, <2>1 DEF IInv, Flags
<1>22. Places'
    BY <1>6 DEF IInv, Places
<1>23. Copies'
    <2>1. \A r \in Req : copied'[r] \subseteq Pages(r)
        <3>1. Slice(Count[piece.req], c) \subseteq Pages(piece.req)
            BY <1>6, SplitIsExact
        <3> QED BY <1>6, <3>1 DEF IInv, TypeOK, Copies
    <2>2. \A r \in Req : copied[r] \subseteq copied'[r]
        BY <1>6 DEF IInv, TypeOK
    <2>3. ASSUME NEW e \in Chan, Running(d), e < next[d], Silent(e)'
          PROVE  Slice(Count[job[d]], e) \subseteq copied'[job[d]]
        <3>1. job[d] \in Req
            BY <2>3 DEF IInv, Control, Running
        <3>2. CASE e = c /\ piece.irq
            BY <1>6, <1>7, <3>1, <3>2 DEF IInv, TypeOK
        <3>3. CASE e # c
            BY <1>14, <2>2, <2>3, <3>1, <3>3 DEF IInv, Copies
        <3>4. CASE e = c /\ ~piece.irq
            <4>1. ~Pending(c, job[d])
                <5> SUFFICES ASSUME Pending(c, job[d]) PROVE FALSE
                    OBVIOUS
                <5>1. Pending(c, job[d])'
                    BY <1>17, <3>4
                <5>2. Len(chan'[c]) \in DOMAIN chan'[c]
                    BY <1>4, <1>5, <5>1 DEF Pending
                <5> QED BY <2>3, <3>4, <5>1, <5>2 DEF Pending, Silent
            <4>2. Silent(c)
                BY <3>4, <4>1 DEF IInv, Channels, Clean, Called
            <4> QED BY <2>2, <2>3, <3>1, <3>4, <4>2 DEF IInv, Copies
        <3> QED BY <3>2, <3>3, <3>4
    <2> QED BY <1>2, <1>6, <1>13, <2>1, <2>3 DEF Copies
<1> QED BY <1>11, <1>12, <1>18, <1>20, <1>21, <1>22, <1>23 DEF IInv

\* What is known when a callback runs.
LEMMA InCallback ==
    ASSUME OneDevice, IInv, NEW c \in Chan, raised[c] # <<>>
    PROVE  \E d \in Device :
              /\ \A e \in Device : e = d
              /\ Running(d) /\ c < next[d] /\ Called(c, job[d]) /\ job[d] \in Req
              /\ Head(raised[c]).dev = d /\ Head(raised[c]).req = job[d]
              /\ Tail(raised[c]) = <<>> /\ Silent(c)
<1>1. raised[c] \in Seq(Piece)
    BY DEF IInv, TypeOK
<1>2. /\ Head(raised[c]) = raised[c][1] /\ raised[c][1] \in Piece
      /\ Len(raised[c]) = 1 => Tail(raised[c]) = <<>>
    BY <1>1, Popped
<1>3. PICK d \in Device : d = raised[c][1].dev
    BY <1>2 DEF Piece
<1>4. Running(d) /\ c < next[d] /\ Called(c, job[d])
    BY DEF IInv, Channels, Clean, Pending
<1>5. job[d] \in Req
    BY <1>4 DEF IInv, Control, Running
<1> QED BY <1>2, <1>3, <1>4, <1>5 DEF OneDevice, Called

LEMMA HasRaised ==
    ASSUME OneDevice, IInv, NEW c \in Chan, cbpc[c] # "idle"
    PROVE  raised[c] # <<>>
<1>1. PICK d \in Device : TRUE
    BY DEF OneDevice
<1>2. Len(raised[c]) = 1
    BY <1>1 DEF IInv, Channels, Clean, Pending, Called
<1>3. Len(<<>>) = 0
    OBVIOUS
<1> QED BY <1>2, <1>3

LEMMA CallbackStampInv ==
    ASSUME OneDevice, IInv, NEW c \in Chan, CallbackStamp(c)
    PROVE  IInv'
<1> USE DEF queues, chains
<1>1. PICK d \in Device : \A e \in Device : e = d
    BY InCallback DEF CallbackStamp
<1>2. /\ cbpc[c] = "idle" /\ cbpc' \in [Chan -> CallbackLabels] /\ cbpc'[c] = "mark"
      /\ \A e \in Chan : e # c => cbpc'[e] = cbpc[e]
      /\ seen' = [seen EXCEPT ![c] = flag] /\ raised[c] # <<>>
      /\ UNCHANGED <<queues, chains, chan, raised, counter, flag, copied>>
    BY DEF IInv, TypeOK, CallbackStamp, CallbackGoto, CallbackLabels, globals
<1>3. TypeOK'
    BY <1>2 DEF IInv, TypeOK
<1>4. Running(d)' <=> Running(d)
    BY <1>2 DEF Running
<1>5. Channels'
    BY <1>2 DEF IInv, Channels, Clean, Pending, Called, Silent, Running
<1>6. Uncounted(d)' = Uncounted(d)
    BY <1>2 DEF Uncounted
<1>7. Unmarked(d)' = Unmarked(d)
    BY <1>2, <1>6 DEF Unmarked, Uncounted
<1>8. Counts'
    BY <1>1, <1>2, <1>4, <1>6 DEF IInv, Counts
<1>9. Flags'
    BY <1>1, <1>2, <1>4, <1>7 DEF IInv, TypeOK, Flags
<1> QED BY <1>2, <1>3, <1>5, <1>8, <1>9 DEF IInv, Control, Places, Copies, Silent, Running

LEMMA CallbackMarkInv ==
    ASSUME OneDevice, IInv, NEW c \in Chan, CallbackMark(c)
    PROVE  IInv'
<1> USE DEF queues, chains
<1>1. PICK d \in Device : \A e \in Device : e = d
    BY DEF OneDevice
<1>2. /\ cbpc[c] = "mark" /\ cbpc' \in [Chan -> CallbackLabels] /\ cbpc'[c] = "count"
      /\ \A e \in Chan : e # c => cbpc'[e] = cbpc[e]
      /\ flag' = seen[c] + 1 /\ seen' = [seen EXCEPT ![c] = 0]
      /\ UNCHANGED <<queues, chains, chan, raised, counter, copied>>
    BY DEF IInv, TypeOK, CallbackMark, CallbackGoto, CallbackLabels
<1>3. TypeOK'
    BY <1>2 DEF IInv, TypeOK
<1>4. Running(d) /\ Running(d)' /\ Called(c, job[d]) /\ raised[c] # <<>>
    BY <1>2, HasRaised DEF IInv, Channels, Clean, Pending, Running
<1>5. Channels'
    BY <1>2 DEF IInv, Channels, Clean, Pending, Called, Silent, Running
<1>6. Uncounted(d)' = Uncounted(d)
    BY <1>2 DEF Uncounted
<1>7. Unmarked(d)' = Unmarked(d) \ {c} /\ c \in Unmarked(d)
    BY <1>2, <1>4, <1>6 DEF Unmarked, Uncounted
<1>8. Counts'
    BY <1>1, <1>2, <1>4, <1>6 DEF IInv, Counts
<1>9. Flags'
    <2>1. Cardinality(Unmarked(d))' = Cardinality(Unmarked(d)) - 1 /\ Cardinality(Unmarked(d)) \in Nat
        <3>1. PICK U \in SUBSET Chan : U = Unmarked(d)
            BY DEF Unmarked, Uncounted
        <3>2. IsFiniteSet(U) /\ c \in U
            BY <1>7, <3>1, ChanFinite, FS_Subset
        <3>3. Cardinality(U \ {c}) = Cardinality(U) - 1 /\ Cardinality(U) \in Nat
            BY <3>2, FS_RemoveElement, FS_CardinalityType
        <3> QED BY <1>7, <3>1, <3>3
    <2>2. NR_DEVICES \in Nat /\ flag \in Nat /\ seen \in [Chan -> Nat]
        BY MultiChanAssumption DEF IInv, TypeOK
    <2>3. seen[c] + Cardinality(Unmarked(d)) <= NR_DEVICES
        BY <1>2, <1>4 DEF IInv, Flags
    <2>4. \A e \in Chan : cbpc'[e] = "mark" => seen'[e] + Cardinality(Unmarked(d))' <= NR_DEVICES
        <3> SUFFICES ASSUME NEW e \in Chan, cbpc'[e] = "mark"
                     PROVE  seen'[e] + Cardinality(Unmarked(d))' <= NR_DEVICES
            OBVIOUS
        <3>1. e # c /\ cbpc[e] = "mark" /\ seen'[e] = seen[e] /\ seen[e] \in Nat
            BY <1>2, <2>2
        <3>2. seen[e] + Cardinality(Unmarked(d)) <= NR_DEVICES
            BY <1>4, <3>1 DEF IInv, Flags
        <3> QED BY <2>1, <2>2, <3>1, <3>2
    <2>5. flag' + Cardinality(Unmarked(d))' <= NR_DEVICES
        BY <1>2, <2>1, <2>2, <2>3
    <2> QED BY <1>1, <2>4, <2>5 DEF Flags
<1> QED BY <1>2, <1>3, <1>5, <1>8, <1>9 DEF IInv, Control, Places, Copies, Silent, Running

LEMMA CallbackCountInv ==
    ASSUME OneDevice, IInv, NEW c \in Chan, CallbackCount(c)
    PROVE  IInv'
<1> USE DEF queues, chains
<1>1. cbpc[c] = "count" /\ raised[c] # <<>>
    BY HasRaised DEF CallbackCount
<1>2. PICK d \in Device :
              /\ \A e \in Device : e = d
              /\ Running(d) /\ c < next[d] /\ Called(c, job[d]) /\ job[d] \in Req
              /\ Tail(raised[c]) = <<>> /\ Silent(c)
    BY <1>1, InCallback
<1>3. /\ counter' = counter - 1 /\ raised[c] \in Seq(Piece)
      /\ UNCHANGED <<queues, chains, chan, seen, flag, copied>>
    BY DEF CallbackCount, IInv, TypeOK
<1>4. c \in Uncounted(d) /\ Uncounted(d) \subseteq Chan /\ counter = Cardinality(Uncounted(d))
    BY <1>1, <1>2 DEF Uncounted, IInv, Counts
<1>5. /\ counter \in 0 .. NR_DEVICES /\ counter # 0 /\ NR_DEVICES \in Nat
      /\ Cardinality(Uncounted(d) \ {c}) = counter - 1
      /\ counter = 1 => Uncounted(d) \ {c} = {}
    BY <1>4, ChanFinite, MultiChanAssumption
<1>6. \A e \in Chan : cbpc[e] # "finish"
    BY <1>4 DEF IInv, Counts
<1>7. /\ cbpc' \in [Chan -> CallbackLabels] /\ raised' \in [Chan -> Seq(Piece)]
      /\ \A e \in Chan : e # c => cbpc'[e] = cbpc[e] /\ raised'[e] = raised[e]
      /\ counter = 1 => cbpc'[c] = "finish" /\ raised'[c] = raised[c]
      /\ counter # 1 => cbpc'[c] = "idle" /\ raised'[c] = <<>>
    <2>1. CASE counter = 1
        BY <2>1 DEF CallbackCount, CallbackGoto, IInv, TypeOK, CallbackLabels
    <2>2. CASE counter # 1
        <3>1. raised' = [raised EXCEPT ![c] = <<>>] /\ cbpc' = [cbpc EXCEPT ![c] = "idle"]
            BY <1>2, <2>2 DEF CallbackCount, CallbackGoto
        <3> QED BY <2>2, <3>1 DEF IInv, TypeOK, CallbackLabels
    <2> QED BY <2>1, <2>2
<1>8. TypeOK'
    BY <1>3, <1>5, <1>7 DEF IInv, TypeOK
<1>9. Running(d)'
    BY <1>2, <1>3 DEF Running
<1>10. Channels'
    <2> SUFFICES ASSUME NEW e \in Chan
                 PROVE  \/ Clean(e)'
                        \/ Running(d)' /\ e < next[d] /\ (Pending(e, job[d])' \/ Called(e, job[d])')
        BY <1>2, <1>3 DEF Channels
    <2>1. CASE e # c
        BY <1>2, <1>3, <1>7, <1>9, <2>1 DEF IInv, Channels, Clean, Pending, Called, Silent
    <2>2. CASE e = c /\ counter = 1
        BY <1>2, <1>3, <1>7, <1>9, <2>2 DEF Called, Silent
    <2>3. CASE e = c /\ counter # 1
        BY <1>2, <1>3, <1>7, <2>3 DEF Clean, Silent
    <2> QED BY <2>1, <2>2, <2>3
<1>11. Uncounted(d)' = Uncounted(d) \ {c}
    <2> SUFFICES ASSUME NEW e \in Chan
                 PROVE  e \in Uncounted(d)' <=> e \in Uncounted(d) /\ e # c
        BY DEF Uncounted
    <2>1. CASE e # c
        BY <1>3, <1>7, <2>1 DEF Uncounted
    <2>2. CASE e = c
        <3>1. ~(pc[d] \in {"submit", "bug"} /\ c >= next[d])
            <4>1. c \in Nat /\ NR_DEVICES \in Nat
                BY MultiChanAssumption DEF Chan
            <4>2. next[d] \in Nat
                BY <4>1 DEF IInv, TypeOK
            <4> QED BY <1>2, <4>1, <4>2
        <3>2. ~\E i \in DOMAIN chan[c] : chan[c][i].irq
            BY <1>2 DEF Silent
        <3>3. ~(raised'[c] # <<>> /\ cbpc'[c] # "finish")
            BY <1>7
        <3> QED BY <1>3, <2>2, <3>1, <3>2, <3>3 DEF Uncounted
    <2> QED BY <2>1, <2>2
<1>12. Counts'
    <2>1. counter' = Cardinality(Uncounted(d))'
        BY <1>3, <1>5, <1>11
    <2>2. \A e \in Chan : cbpc'[e] = "finish" => e = c /\ Uncounted(d)' = {}
        BY <1>5, <1>6, <1>7, <1>11
    <2>3. pc'[d] # "reset"
        BY <1>9 DEF Running
    <2> QED BY <1>2, <2>1, <2>2, <2>3 DEF Counts
<1>13. Flags'
    <2>1. Unmarked(d)' = Unmarked(d)
        BY <1>1, <1>4, <1>7, <1>11 DEF Unmarked
    <2>2. \A e \in Chan : cbpc'[e] = "mark" => cbpc[e] = "mark"
        BY <1>7
    <2> QED BY <1>2, <1>3, <2>1, <2>2 DEF IInv, Flags
<1> QED BY <1>3, <1>8, <1>10, <1>12, <1>13 DEF IInv, Control, Places, Copies, Silent, Running

\* When the last callback finishes every channel has been counted, so that all
\* of them are silent and none but this one has anything left to do.
LEMMA AtFinish ==
    ASSUME OneDevice, IInv, NEW c \in Chan, cbpc[c] = "finish"
    PROVE  \E d \in Device :
              /\ \A e \in Device : e = d
              /\ pc[d] = "irq" /\ job[d] \in Req /\ irq[d] /\ next[d] = NR_DEVICES
              /\ raised[c] # <<>> /\ Called(c, job[d])
              /\ Head(raised[c]).dev = d /\ Head(raised[c]).req = job[d]
              /\ Tail(raised[c]) = <<>>
              /\ \A e \in Chan : Silent(e) /\ (e # c => Clean(e))
<1>1. raised[c] # <<>>
    BY HasRaised
<1>2. PICK d \in Device :
              /\ \A e \in Device : e = d
              /\ Running(d) /\ c < next[d] /\ Called(c, job[d]) /\ job[d] \in Req
              /\ Head(raised[c]).dev = d /\ Head(raised[c]).req = job[d]
              /\ Tail(raised[c]) = <<>> /\ Silent(c)
    BY <1>1, InCallback
<1>3. Uncounted(d) = {}
    BY DEF IInv, Counts
<1>4. pc[d] \notin {"submit", "bug"}
    <2> SUFFICES ASSUME pc[d] \in {"submit", "bug"} PROVE FALSE
        OBVIOUS
    <2>1. next[d] \in Chan
        <3>1. next[d] \in 0 .. NR_DEVICES /\ next[d] < NR_DEVICES /\ NR_DEVICES \in Nat
            BY <1>2, MultiChanAssumption DEF IInv, TypeOK, Control
        <3> QED BY <3>1 DEF Chan
    <2>2. next[d] >= next[d]
        BY <2>1 DEF Chan
    <2> QED BY <1>3, <2>1, <2>2 DEF Uncounted
<1>5. pc[d] = "irq" /\ irq[d] /\ next[d] = NR_DEVICES
    BY <1>2, <1>4 DEF Running, IInv, Control
<1>6. ASSUME NEW e \in Chan PROVE Silent(e) /\ (e # c => Clean(e))
    <2>1. Silent(e) /\ (raised[e] = <<>> \/ cbpc[e] = "finish")
        BY <1>3 DEF Uncounted, Silent
    <2>2. e # c => cbpc[e] # "finish"
        BY DEF IInv, Counts
    <2>3. raised[e] = <<>> => Clean(e)
        <3>1. ASSUME raised[e] = <<>> PROVE ~Called(e, job[d])
            BY <3>1 DEF Called
        <3> QED BY <1>2, <2>1, <3>1 DEF IInv, Channels, Clean, Pending
    <2> QED BY <2>1, <2>2, <2>3
<1> QED BY <1>1, <1>2, <1>5, <1>6

LEMMA CallbackFinishInv ==
    ASSUME OneDevice, IInv, NEW c \in Chan, CallbackFinish(c)
    PROVE  IInv'
<1> USE DEF queues, chains
<1>1. PICK d \in Device :
              /\ \A e \in Device : e = d
              /\ pc[d] = "irq" /\ job[d] \in Req /\ irq[d] /\ next[d] = NR_DEVICES
              /\ Head(raised[c]).dev = d /\ Head(raised[c]).req = job[d]
              /\ Tail(raised[c]) = <<>>
              /\ \A e \in Chan : Silent(e) /\ (e # c => Clean(e))
    BY AtFinish DEF CallbackFinish
<1>2. /\ qcomp' = [qcomp EXCEPT ![d] = Append(@, job[d])]
      /\ job' = [job EXCEPT ![d] = None] /\ pc' = [pc EXCEPT ![d] = "work"]
      /\ raised' = [raised EXCEPT ![c] = <<>>] /\ cbpc' = [cbpc EXCEPT ![c] = "idle"]
      /\ UNCHANGED <<free, queue, color, irq, next, chan, seen, counter, flag, copied>>
    BY <1>1 DEF CallbackFinish, Goto, CallbackGoto, globals
<1>3. qcomp[d] \in Seq(Req) /\ job[d] \notin Elems(qcomp[d]) /\ Distinct(qcomp[d])
    BY DEF IInv, TypeOK, Places
<1>4. /\ Append(qcomp[d], job[d]) \in Seq(Req)
      /\ Elems(Append(qcomp[d], job[d])) = Elems(qcomp[d]) \cup {job[d]}
      /\ Distinct(Append(qcomp[d], job[d]))
    BY <1>1, <1>3, PutLast
<1>5. TypeOK'
    BY <1>2, <1>4 DEF IInv, TypeOK, Labels, CallbackLabels
<1>6. ~Running(d)' /\ pc'[d] = "work"
    BY <1>2 DEF IInv, TypeOK, Running
<1>7. Control'
    BY <1>1, <1>2, <1>6 DEF IInv, Control
<1>8. \A e \in Chan : Clean(e)'
    BY <1>1, <1>2 DEF IInv, TypeOK, Clean, Silent
<1>9. Channels' /\ Counts' /\ Flags' /\ Copies'
    BY <1>1, <1>2, <1>6, <1>8 DEF IInv, Channels, Counts, Flags, Copies, Clean
<1>10. Places'
    <2>1. None \notin Req /\ queue[d] \in Seq(Req) /\ free \subseteq Req
        BY MultiChanAssumption DEF IInv, TypeOK
    <2>2. None \notin Elems(queue[d]) /\ None \notin Elems(qcomp[d]) /\ None \notin free
        BY <1>3, <2>1 DEF Elems
    <2> QED BY <1>1, <1>2, <1>4, <2>1, <2>2 DEF IInv, TypeOK, Places
<1> QED BY <1>5, <1>7, <1>9, <1>10 DEF IInv

\* The worker runs while no request with interrupts is under way.
LEMMA WorkPickInv ==
    ASSUME OneDevice, IInv, NEW d \in Device, WorkPick(d)
    PROVE  IInv'
<1> USE DEF queues, chains
<1>1. pc[d] = "work" /\ ~Running(d) /\ irq' = [irq EXCEPT ![d] = FALSE]
      /\ UNCHANGED <<free, qcomp, next, chan, raised, cbpc, seen, counter, flag, copied>>
    BY DEF WorkPick, Running, softirqs, globals
<1>2. ~Running(d)'
    BY <1>1 DEF IInv, TypeOK, Running
<1>3. \A c \in Chan : Clean(c) /\ Clean(c)'
    BY <1>1 DEF IInv, Channels, Clean, Silent
<1>4. irq'[d] = FALSE
    BY <1>1 DEF IInv, TypeOK
<1>5. Channels' /\ Counts' /\ Flags' /\ Copies'
    BY <1>1, <1>2, <1>3, <1>4 DEF OneDevice, Channels, Counts, Flags, Clean, Copies, IInv
<1>6. CASE queue[d] = <<>>
    <2>1. color' = [color EXCEPT ![d] = USR] /\ pc' = [pc EXCEPT ![d] = "idle"] /\ UNCHANGED <<queue, job>>
        BY <1>6 DEF WorkPick, Goto
    <2>2. TypeOK'
        BY <1>1, <2>1 DEF IInv, TypeOK, Labels, USR
    <2>3. Control'
        BY <2>1, <1>1 DEF IInv, TypeOK, Control, OneDevice
    <2>4. Places'
        BY <1>1, <2>1 DEF IInv, Places
    <2> QED BY <1>5, <2>2, <2>3, <2>4 DEF IInv
<1>7. CASE queue[d] # <<>>
    <2>1. /\ job' = [job EXCEPT ![d] = Head(queue[d])] /\ queue' = [queue EXCEPT ![d] = Tail(@)]
          /\ pc' = [pc EXCEPT ![d] = "arm"] /\ UNCHANGED color
        BY <1>7 DEF WorkPick, Goto
    <2>2. queue[d] \in Seq(Req) /\ Distinct(queue[d])
        BY DEF IInv, TypeOK, Places
    <2>3. /\ Head(queue[d]) \in Req /\ Tail(queue[d]) \in Seq(Req)
          /\ Head(queue[d]) \in Elems(queue[d]) /\ Head(queue[d]) \notin Elems(Tail(queue[d]))
          /\ Elems(Tail(queue[d])) \subseteq Elems(queue[d]) /\ Distinct(Tail(queue[d]))
        BY <1>7, <2>2, TakeFirst
    <2>4. TypeOK'
        BY <1>1, <2>1, <2>3 DEF IInv, TypeOK, Labels
    <2>5. Control'
        BY <1>1, <2>1, <2>3 DEF IInv, TypeOK, Control, OneDevice
    <2>6. Places'
        BY <1>1, <2>1, <2>3 DEF IInv, TypeOK, Places, OneDevice
    <2> QED BY <1>5, <2>4, <2>5, <2>6 DEF IInv
<1> QED BY <1>6, <1>7

LEMMA WorkPollInv ==
    ASSUME OneDevice, IInv, NEW d \in Device, WorkPoll(d)
    PROVE  IInv'
<1> USE DEF queues, chains
<1>1. TypeOK'
    BY DEF IInv, TypeOK, WorkPoll, Goto, Labels, softirqs, globals
<1>2. Control'
    BY DEF IInv, TypeOK, Control, WorkPoll, Goto, OneDevice
<1>3. Channels' /\ Counts' /\ Flags'
    <2>1. \A e \in Device : /\ pc[e] = "reset" <=> pc'[e] = "reset"
                            /\ pc[e] \in {"submit", "bug"} <=> pc'[e] \in {"submit", "bug"}
                            /\ pc[e] = "irq" <=> pc'[e] = "irq"
        BY DEF IInv, TypeOK, WorkPoll, Goto
    <2> QED BY <2>1, CountingKept DEF WorkPoll
<1>4. Copies'
    <2>1. \A e \in Device : Running(e)' => Running(e)
        BY DEF IInv, TypeOK, WorkPoll, Goto, Running
    <2>2. UNCHANGED <<chan, copied, next, job>>
        BY DEF WorkPoll
    <2> QED BY <2>1, <2>2 DEF IInv, Copies, Silent
<1> QED BY <1>1, <1>2, <1>3, <1>4 DEF IInv, Places, WorkPoll

LEMMA WorkReportInv ==
    ASSUME OneDevice, IInv, NEW d \in Device, WorkReport(d)
    PROVE  IInv'
<1> USE DEF queues, chains
<1>1. /\ pc[d] = "report" /\ pc' = [pc EXCEPT ![d] = "work"]
      /\ job' = [job EXCEPT ![d] = None] /\ qcomp' = [qcomp EXCEPT ![d] = Append(@, job[d])]
      /\ UNCHANGED <<free, queue, color, irq, next, chan, softirqs, globals, copied>>
    BY DEF WorkReport, Goto
<1>2. /\ job[d] \in Req /\ qcomp[d] \in Seq(Req) /\ job[d] \notin Elems(qcomp[d])
      /\ Distinct(qcomp[d])
    BY <1>1 DEF IInv, TypeOK, Control, Places
<1>3. /\ Append(qcomp[d], job[d]) \in Seq(Req)
      /\ Elems(Append(qcomp[d], job[d])) = Elems(qcomp[d]) \cup {job[d]}
      /\ Distinct(Append(qcomp[d], job[d]))
    BY <1>2, PutLast
<1>4. TypeOK'
    BY <1>1, <1>3 DEF IInv, TypeOK, Labels, softirqs, globals
<1>5. Control'
    BY <1>1 DEF IInv, TypeOK, Control, OneDevice
<1>6. ~Running(d) /\ ~Running(d)'
    BY <1>1 DEF IInv, TypeOK, Running
<1>7. Channels' /\ Counts' /\ Flags'
    <2>1. \A e \in Device : /\ pc[e] = "reset" <=> pc'[e] = "reset"
                            /\ pc[e] \in {"submit", "bug"} <=> pc'[e] \in {"submit", "bug"}
                            /\ pc[e] = "irq" <=> pc'[e] = "irq"
        BY <1>1 DEF IInv, TypeOK
    <2> QED BY <1>1, <1>6, <2>1, CountingKept DEF OneDevice
<1>8. Places'
    <2>1. None \notin Req /\ queue[d] \in Seq(Req) /\ free \subseteq Req
        BY MultiChanAssumption DEF IInv, TypeOK
    <2>2. None \notin Elems(queue[d]) /\ None \notin Elems(qcomp[d]) /\ None \notin free
        BY <1>2, <2>1 DEF Elems
    <2> QED BY <1>1, <1>3, <2>1, <2>2 DEF IInv, TypeOK, Places, OneDevice
<1>9. Copies'
    BY <1>1, <1>6 DEF IInv, Copies, OneDevice
<1> QED BY <1>4, <1>5, <1>7, <1>8, <1>9 DEF IInv

LEMMA StepInv ==
    ASSUME OneDevice, IInv, [Next]_vars
    PROVE  IInv'
<1>1. CASE UNCHANGED vars
    <2>1. TypeOK' /\ Control' /\ Places'
        BY <1>1 DEF vars, queues, chains, softirqs, globals, IInv, TypeOK, Control, Places
    <2>2. Channels' /\ Counts' /\ Flags'
        BY <1>1, CountingKept DEF vars, chains
    <2>3. Copies'
        BY <1>1 DEF vars, chains, IInv, Copies, Running, Silent
    <2> QED BY <2>1, <2>2, <2>3 DEF IInv
<1>2. ASSUME NEW d \in Device, DriverStep(d) \/ Collect(d) \/ \E r \in Req : Submit(d, r)
      PROVE  IInv'
    BY <1>2, UserFlushInv, ArmInv, ResetInv, SubmitPieceInv, SubmitFullInv, WorkPickInv, WorkPollInv,
       WorkReportInv, CollectInv, SubmitInv DEF DriverStep
<1>3. ASSUME NEW c \in Chan, ChannelCopies(c) \/ CallbackStep(c)
      PROVE  IInv'
    BY <1>3, ChannelCopiesInv, CallbackStampInv, CallbackMarkInv, CallbackCountInv,
       CallbackFinishInv DEF CallbackStep
<1> QED BY <1>1, <1>2, <1>3 DEF Next

LEMMA Invariance == ASSUME OneDevice PROVE Spec => []IInv
<1>1. IInv /\ [Next]_vars => IInv'
    BY StepInv
<1> QED BY InitInv, <1>1, PTL DEF Spec

-----------------------------------------------------------------------------
(***************************************************************************)
(* The theorems.                                                           *)
(***************************************************************************)
\* The variables keep their types, and my_counter stays between zero and the
\* number of channels: no callback decrements it once more than it was set for
\* (atomic_dec_and_test in dma_callback_kthread).
THEOREM TypeCorrect == ASSUME OneDevice PROVE Spec => []TypeOK
<1>1. IInv => TypeOK
    BY DEF IInv
<1> QED BY Invariance, <1>1, PTL

\* my_counter is the number of the channels a request is still waiting for, from
\* the moment issue_one_desc_* has set it to the last callback.
THEOREM CounterIsRight == ASSUME OneDevice PROVE Spec => []CounterCounts
<1>1. IInv => CounterCounts
    BY DEF IInv, Counts, CounterCounts, Running
<1> QED BY Invariance, <1>1, PTL

\* test_flag is within cmplet_time when a callback uses it, although the callbacks
\* read and write it without a lock: it lags behind, and never runs ahead.
THEOREM FlagIsInBounds == ASSUME OneDevice PROVE Spec => []FlagInBounds
<1>1. ASSUME IInv, NEW c \in Chan, cbpc[c] = "mark" PROVE seen[c] < NR_DEVICES
    <2>1. raised[c] # <<>>
        BY <1>1, HasRaised
    <2>2. PICK d \in Device : Running(d) /\ Called(c, job[d])
        BY <1>1, <2>1, InCallback
    <2>3. c \in Unmarked(d) /\ Unmarked(d) \subseteq Chan
        BY <1>1, <2>1 DEF Unmarked, Uncounted
    <2>4. Cardinality(Unmarked(d)) \in Nat /\ Cardinality(Unmarked(d)) # 0 /\ NR_DEVICES \in Nat
        BY <2>3, ChanFinite, MultiChanAssumption
    <2>5. seen[c] + Cardinality(Unmarked(d)) <= NR_DEVICES /\ seen[c] \in Nat
        BY <1>1, <2>2 DEF IInv, TypeOK, Flags
    <2> QED BY <2>4, <2>5
<1>2. IInv => FlagInBounds
    BY <1>1 DEF FlagInBounds
<1> QED BY Invariance, <1>2, PTL

\* The callback that completes a request finds all of it copied, by all channels,
\* and no other callback of it left (dma_callback_kthread), provided that the
\* pages of every request can be shared out evenly: see SplitIsExact.
THEOREM FinishedIsComplete ==
    ASSUME OneDevice, \A r \in Req : Even(r)
    PROVE  Spec => []FinishedIsCopied
<1>1. ASSUME IInv, NEW c \in Chan, cbpc[c] = "finish"
      PROVE  /\ job[Head(raised[c]).dev] = Head(raised[c]).req
             /\ pc[Head(raised[c]).dev] = "irq"
             /\ copied[Head(raised[c]).req] = Pages(Head(raised[c]).req)
             /\ \A e \in Chan \ {c} : raised[e] = <<>>
    <2>1. PICK d \in Device :
              /\ \A e \in Device : e = d
              /\ pc[d] = "irq" /\ job[d] \in Req /\ irq[d] /\ next[d] = NR_DEVICES
              /\ Head(raised[c]).dev = d /\ Head(raised[c]).req = job[d]
              /\ \A e \in Chan : Silent(e) /\ (e # c => Clean(e))
        BY <1>1, AtFinish
    <2>2. \A e \in Chan : Slice(Count[job[d]], e) \subseteq copied[job[d]]
        <3>1. \A e \in Chan : e < NR_DEVICES
            BY MultiChanAssumption DEF Chan
        <3> QED BY <1>1, <2>1, <3>1 DEF IInv, Copies, Running
    <2>3. UNION {Slice(Count[job[d]], e) : e \in Chan} = Pages(job[d])
        BY <2>1, SplitIsExact
    <2>4. copied[job[d]] \subseteq Pages(job[d])
        BY <1>1, <2>1 DEF IInv, Copies
    <2>5. copied[job[d]] = Pages(job[d])
        BY <2>2, <2>3, <2>4
    <2> QED BY <2>1, <2>5 DEF Clean
<1>2. IInv => FinishedIsCopied
    BY <1>1 DEF FinishedIsCopied
<1> QED BY Invariance, <1>2, PTL

-----------------------------------------------------------------------------
(***************************************************************************)
(* What the device promises.                                               *)
(***************************************************************************)
\* Between two requests there is no current one.
Idle == \A d \in Device : pc[d] \in {"idle", "kick", "work"} => job[d] = None

\* The steps that end a request, and the ones that take the next, keep to that.
LEMMA IdleStep ==
    ASSUME OneDevice, IInv, Idle, [Next]_vars
    PROVE  Idle'
<1> USE DEF queues, chains
<1>1. CASE UNCHANGED vars
    BY <1>1 DEF vars, Idle
<1>2. ASSUME NEW d \in Device, NEW r \in Req, Submit(d, r) PROVE Idle'
    <2>1. color[d] = USR => pc[d] = "idle"
        BY <1>2 DEF IInv, Control, Submit, UserRuns
    <2> QED BY <1>2, <2>1 DEF IInv, TypeOK, Submit, Goto, Idle
<1>3. ASSUME NEW d \in Device, Collect(d) PROVE Idle'
    BY <1>3 DEF Collect, Idle
<1>4. ASSUME NEW d \in Device, DriverStep(d) PROVE Idle'
    <2>1. CASE UserFlush(d) \/ Arm(d) \/ Reset(d)
        BY <2>1 DEF UserFlush, Arm, Reset, Goto, IInv, TypeOK, Idle
    <2>2. CASE SubmitPiece(d) \/ SubmitFull(d)
        BY <2>2 DEF SubmitPiece, SubmitFull, Goto, IInv, TypeOK, Idle
    <2>3. CASE WorkPick(d)
        BY <2>3 DEF WorkPick, Goto, IInv, TypeOK, Idle
    <2>4. CASE WorkPoll(d) \/ WorkReport(d)
        BY <2>4 DEF WorkPoll, WorkReport, Goto, IInv, TypeOK, Idle
    <2> QED BY <1>4, <2>1, <2>2, <2>3, <2>4 DEF DriverStep
<1>5. ASSUME NEW c \in Chan, ChannelCopies(c) \/ CallbackStamp(c) \/ CallbackMark(c) \/ CallbackCount(c)
      PROVE  Idle'
    BY <1>5 DEF ChannelCopies, CallbackStamp, CallbackMark, CallbackCount, Idle
<1>6. ASSUME NEW c \in Chan, CallbackFinish(c) PROVE Idle'
    BY <1>6 DEF CallbackFinish, Goto, IInv, TypeOK, Idle
<1> QED BY <1>1, <1>2, <1>3, <1>4, <1>5, <1>6 DEF Next, CallbackStep

\* So it is always.
LEMMA IdleInvariant == ASSUME OneDevice PROVE Spec => []Idle
<1>1. Init => Idle
    BY DEF Init, Idle
<1>2. Idle /\ IInv /\ [Next]_vars => Idle'
    BY IdleStep
<1> QED BY <1>1, <1>2, Invariance, PTL DEF Spec

\* What the program has submitted and has not been carried out, as the service sees it.
pipe == Current(TheDevice) \o queue[TheDevice]

\* A step of the driver for the service: nothing, or a request carried out.
ServiceStep == [Service!Next]_(Service!vars)

\* The device the service is about is the only one.
LEMMA TheOne ==
    ASSUME OneDevice
    PROVE  TheDevice \in Device /\ \A d \in Device : d = TheDevice
BY DEF OneDevice, TheDevice

\* With or without a current request, the pipe is a sequence of requests.
LEMMA Pipe ==
    ASSUME IInv, NEW d \in Device, d = TheDevice
    PROVE  /\ queue[d] \in Seq(Req) /\ qcomp[d] \in Seq(Req)
           /\ job[d] = None => pipe = queue[d]
           /\ job[d] \in Req => pipe = <<job[d]>> \o queue[d]
           /\ job[d] \in Req => /\ pipe \in Seq(Req) /\ pipe # <<>>
                                /\ Head(pipe) = job[d] /\ Tail(pipe) = queue[d]
<1>1. queue[d] \in Seq(Req) /\ qcomp[d] \in Seq(Req) /\ None \notin Req
    BY MultiChanAssumption DEF IInv, TypeOK
<1>2. ASSUME job[d] = None PROVE pipe = queue[d]
    <2>1. pipe = <<>> \o queue[d]
        BY <1>2 DEF pipe, Current
    <2> QED BY <1>1, <2>1
<1>3. ASSUME job[d] \in Req PROVE pipe = <<job[d]>> \o queue[d]
    BY <1>1, <1>3 DEF pipe, Current
<1>4. ASSUME job[d] \in Req
      PROVE  pipe \in Seq(Req) /\ pipe # <<>> /\ Head(pipe) = job[d] /\ Tail(pipe) = queue[d]
    <2>1. PICK j \in Req, q \in Seq(Req) : j = job[d] /\ q = queue[d]
        BY <1>1, <1>4
    <2>2. <<j>> \o q \in Seq(Req) /\ <<j>> \o q # <<>> /\ Head(<<j>> \o q) = j /\ Tail(<<j>> \o q) = q
        <3> DEFINE z == <<j>> \o q
        <3>1. /\ z \in Seq(Req) /\ Len(z) = Len(q) + 1 /\ z[1] = j
              /\ \A i \in 1 .. Len(q) : z[i + 1] = q[i]
            OBVIOUS
        <3> HIDE DEF z
        <3>2. z # <<>> /\ Head(z) = j
            BY <3>1
        <3>3. Tail(z) \in Seq(Req) /\ Len(Tail(z)) = Len(q) /\ \A i \in 1 .. Len(q) : Tail(z)[i] = q[i]
            BY <3>1
        <3>4. Tail(z) = q
            BY <3>3
        <3> QED BY <3>1, <3>2, <3>4 DEF z
    <2> QED BY <1>3, <1>4, <2>1, <2>2
<1> QED BY <1>1, <1>2, <1>3, <1>4

\* A step that changes neither what is pending nor what is reported.
LEMMA Unseen ==
    ASSUME pipe' = pipe, qcomp'[TheDevice] = qcomp[TheDevice]
    PROVE  ServiceStep
BY DEF ServiceStep, Service!vars, pipe

\* The current request becomes a reported one.
LEMMA Completing ==
    ASSUME OneDevice, IInv, NEW d \in Device, job[d] \in Req,
           job' = [job EXCEPT ![d] = None], queue' = queue,
           qcomp' = [qcomp EXCEPT ![d] = Append(qcomp[d], job[d])]
    PROVE  ServiceStep
<1>1. d = TheDevice
    BY TheOne
<1>2. /\ pipe \in Seq(Req) /\ pipe # <<>> /\ Head(pipe) = job[d] /\ Tail(pipe) = queue[d]
      /\ queue[d] \in Seq(Req)
    BY <1>1, Pipe
<1>3. job'[d] = None /\ qcomp'[d] = Append(qcomp[d], job[d])
    BY DEF IInv, TypeOK
<1>4. pipe' = Tail(pipe)
    <2>1. pipe' = <<>> \o queue[d]
        BY <1>1, <1>3 DEF pipe, Current
    <2> QED BY <1>2, <2>1
<1> QED BY <1>1, <1>2, <1>3, <1>4 DEF ServiceStep, Service!Next, Service!Complete, pipe

\* The next request is taken from the queue: the program does not see it.
LEMMA Picking ==
    ASSUME OneDevice, IInv, NEW d \in Device, job[d] = None, queue[d] # <<>>,
           job' = [job EXCEPT ![d] = Head(queue[d])], queue' = [queue EXCEPT ![d] = Tail(queue[d])],
           qcomp' = qcomp
    PROVE  ServiceStep
<1>1. d = TheDevice
    BY TheOne
<1>2. pipe = queue[d] /\ queue[d] \in Seq(Req)
    BY <1>1, Pipe
<1>3. Head(queue[d]) \in Req /\ None \notin Req
    BY <1>2, MultiChanAssumption
<1>4. job'[d] = Head(queue[d]) /\ queue'[d] = Tail(queue[d])
    BY DEF IInv, TypeOK
<1>5. pipe' = <<Head(queue[d])>> \o Tail(queue[d])
    BY <1>1, <1>3, <1>4 DEF pipe, Current
<1>6. <<Head(queue[d])>> \o Tail(queue[d]) = queue[d]
    BY <1>2
<1> QED BY <1>2, <1>5, <1>6, Unseen

\* A request that is submitted is new to the service: a free one is in no other place.
LEMMA Submitting ==
    ASSUME OneDevice, IInv, NEW d \in Device, NEW r \in Req, Submit(d, r)
    PROVE  ServiceStep
<1> USE DEF queues, chains
<1>1. d = TheDevice
    BY TheOne
<1>2. /\ job' = job /\ qcomp' = qcomp /\ r \in free
      /\ queue'[d] = Append(queue[d], r)
    BY DEF Submit, IInv, TypeOK
<1>3. queue[d] \in Seq(Req) /\ job[d] \in Req \cup {None}
    BY DEF IInv, TypeOK
<1>4. pipe' = Append(pipe, r)
    <2>1. pipe' = Current(d) \o Append(queue[d], r) /\ pipe = Current(d) \o queue[d]
        BY <1>1, <1>2 DEF pipe, Current
    <2>2. Current(d) \in Seq(Req)
        BY <1>3 DEF Current
    <2> QED BY <1>3, <2>1, <2>2
<1>5. r \notin Service!Outstanding
    <2>1. r \notin Elems(queue[d]) /\ r \notin Elems(qcomp[d]) /\ r # job[d]
        BY <1>2 DEF IInv, Places
    <2>2. \A i \in DOMAIN qcomp[d] : qcomp[d][i] # r
        BY <2>1 DEF Elems
    <2>3. \A i \in DOMAIN pipe : pipe[i] # r
        <3>1. \A i \in DOMAIN queue[d] : queue[d][i] # r
            BY <2>1 DEF Elems
        <3>2. CASE job[d] = None
            BY <1>1, <3>1, <3>2, Pipe
        <3>3. CASE job[d] \in Req
            <4>1. PICK j \in Req, q \in Seq(Req) : j = job[d] /\ q = queue[d]
                BY <1>3, <3>3
            <4>2. pipe = <<j>> \o q
                BY <1>1, <3>3, <4>1, Pipe
            <4>3. \A i \in DOMAIN (<<j>> \o q) : (<<j>> \o q)[i] = j \/ \E k \in DOMAIN q : (<<j>> \o q)[i] = q[k]
                <5> SUFFICES ASSUME NEW i \in DOMAIN (<<j>> \o q), i # 1
                             PROVE  \E k \in DOMAIN q : (<<j>> \o q)[i] = q[k]
                    OBVIOUS
                <5>1. i - 1 \in DOMAIN q /\ (<<j>> \o q)[i] = q[i - 1]
                    OBVIOUS
                <5> QED BY <5>1
            <4> QED BY <2>1, <3>1, <4>1, <4>2, <4>3
        <3> QED BY <1>3, <3>2, <3>3
    <2> QED BY <1>1, <2>2, <2>3 DEF Service!Outstanding, pipe
<1>6. Service!Submit(r)
    BY <1>1, <1>2, <1>4, <1>5 DEF Service!Submit, pipe
<1> QED BY <1>6 DEF ServiceStep, Service!Next

\* The steps, one after the other.
LEMMA ServiceNext ==
    ASSUME OneDevice, IInv, Idle, [Next]_vars
    PROVE  ServiceStep
<1> USE DEF queues, chains
<1>1. ASSUME queue' = queue, job' = job, qcomp' = qcomp PROVE ServiceStep
    BY <1>1, Unseen DEF pipe, Current
<1>2. CASE UNCHANGED vars
    BY <1>1, <1>2 DEF vars
<1>3. ASSUME NEW d \in Device, NEW r \in Req, Submit(d, r) PROVE ServiceStep
    BY <1>3, Submitting
<1>4. ASSUME NEW d \in Device, Collect(d) PROVE ServiceStep
    <2>1. d = TheDevice
        BY TheOne
    <2>2. /\ qcomp[d] # <<>> /\ qcomp'[d] = Tail(qcomp[d]) /\ queue' = queue /\ job' = job
        BY <1>4 DEF Collect, IInv, TypeOK
    <2>3. pipe' = pipe
        BY <2>2 DEF pipe, Current
    <2> QED BY <2>1, <2>2, <2>3 DEF ServiceStep, Service!Next, Service!Collect, pipe
<1>5. ASSUME NEW d \in Device, UserFlush(d) PROVE ServiceStep
    <2>1. job[d] = None /\ queue[d] # <<>>
        BY <1>5 DEF UserFlush, Idle, IInv, Control
    <2> QED BY <1>5, <2>1, Picking DEF UserFlush
<1>6. ASSUME NEW d \in Device, WorkPick(d) PROVE ServiceStep
    <2>1. job[d] = None
        BY <1>6 DEF WorkPick, Idle
    <2>2. CASE queue[d] = <<>>
        BY <1>1, <1>6, <2>2 DEF WorkPick
    <2>3. CASE queue[d] # <<>>
        BY <1>6, <2>1, <2>3, Picking DEF WorkPick
    <2> QED BY <2>2, <2>3
<1>7. ASSUME NEW d \in Device, Arm(d) \/ Reset(d) \/ SubmitPiece(d) \/ SubmitFull(d) \/ WorkPoll(d)
      PROVE  ServiceStep
    BY <1>1, <1>7 DEF Arm, Reset, SubmitPiece, SubmitFull, WorkPoll
<1>8. ASSUME NEW d \in Device, WorkReport(d) PROVE ServiceStep
    <2>1. job[d] \in Req
        BY <1>8 DEF WorkReport, IInv, Control
    <2> QED BY <1>8, <2>1, Completing DEF WorkReport
<1>9. ASSUME NEW c \in Chan, ChannelCopies(c) \/ CallbackStamp(c) \/ CallbackMark(c) \/ CallbackCount(c)
      PROVE  ServiceStep
    BY <1>1, <1>9 DEF ChannelCopies, CallbackStamp, CallbackMark, CallbackCount
<1>10. ASSUME NEW c \in Chan, CallbackFinish(c) PROVE ServiceStep
    <2>1. cbpc[c] = "finish"
        BY <1>10 DEF CallbackFinish
    <2>2. PICK d \in Device : /\ job[d] \in Req
                              /\ Head(raised[c]).dev = d /\ Head(raised[c]).req = job[d]
        BY <2>1, AtFinish
    <2>3. /\ job' = [job EXCEPT ![d] = None] /\ queue' = queue
          /\ qcomp' = [qcomp EXCEPT ![d] = Append(qcomp[d], job[d])]
        BY <1>10, <2>2 DEF CallbackFinish
    <2> QED BY <2>2, <2>3, Completing
<1> QED BY <1>2, <1>3, <1>4, <1>5, <1>6, <1>7, <1>8, <1>9, <1>10 DEF Next, DriverStep, CallbackStep

\* With one device file and any number of channels each request is reported once, in the
\* order of submission, and never one that was not submitted, whoever reports it, the last
\* callback or the worker: every step is a step of MemifService, or one the program does not see.
THEOREM ServiceIsSafe == ASSUME OneDevice PROVE Spec => Service!Safety
<1>1. Init => Service!Init
    <2> SUFFICES ASSUME Init PROVE Service!Init
        OBVIOUS
    <2>1. TheDevice \in Device
        BY TheOne
    <2>2. job[TheDevice] = None /\ queue[TheDevice] = <<>> /\ qcomp[TheDevice] = <<>>
        BY <2>1 DEF Init
    <2>3. pipe = <<>>
        BY <2>2 DEF pipe, Current
    <2> QED BY <2>2, <2>3 DEF Service!Init, pipe
<1>2. IInv /\ Idle /\ [Next]_vars => [Service!Next]_(Service!vars)
    BY ServiceNext DEF ServiceStep
<1> QED BY <1>1, <1>2, Invariance, IdleInvariant, PTL DEF Spec, Service!Safety
=============================================================================
