----------------------------- MODULE EdmaProofs -----------------------------
(***************************************************************************)
(* Theorems about the EDMA3 library.                                       *)
(*                                                                         *)
(* The geometry of a transfer comes first, for any limits of the engine    *)
(* and any numbers of arrays that are tried.  Then the channels, for any   *)
(* numbers of handles and sets and any sizes: the inductive invariant IInv *)
(* says of every call under way that each set that is still to be loaded   *)
(* describes its transfer, links to the next one and triggers or reports   *)
(* as its place asks for (Progress), and how many triggers are left        *)
(* (Engine); and of a preloaded channel which of its sets are as they were *)
(* (Preset).                                                               *)
(***************************************************************************)
EXTENDS Edma, NaturalsInduction, WellFoundedInduction, TLAPS

\* A set of naturals that is not empty has a least element.
LEMMA Least ==
    ASSUME NEW S \in SUBSET Nat, S # {}
    PROVE  \E n \in S : \A m \in S : n <= m
<1>1. PICK n \in S : \A m \in S : ~(<<m, n>> \in OpToRel(<, Nat))
  BY NatLessThanWellFounded, WFMin
<1>2. ASSUME NEW m \in S PROVE n <= m
  <2>1. ~(m < n)
    BY <1>1 DEF OpToRel
  <2> QED
    BY <2>1
<1> QED
  BY <1>2

\* What is divided without a remainder.
LEMMA Whole ==
    ASSUME NEW n \in Nat \ {0}, NEW k \in Nat, k % n = 0
    PROVE  k \div n \in Nat /\ n * (k \div n) = k
  OBVIOUS

\* A field that is wide enough keeps the number.
LEMMA Small ==
    ASSUME NEW n \in Nat, NEW k \in Nat, k < n
    PROVE  k % n = k
  OBVIOUS

\* The search of get_xfer_geometry finds the least number of arrays that divides
\* the size into arrays short enough.
LEMMA Search ==
    ASSUME NEW size \in Nat, ~(size < Single), Movable(size)
    PROVE  LET g == Geometry(size)
           IN  g.b \in Splits(size) /\ g.a = size \div g.b /\ \A m \in Splits(size) : g.b <= m
<1> DEFINE n == CHOOSE n \in Splits(size) : \A m \in Splits(size) : n <= m
<1>1. Splits(size) \in SUBSET Nat /\ Splits(size) # {}
  BY GeometryAssumption DEF Splits, Movable
<1>2. \E k \in Splits(size) : \A m \in Splits(size) : k <= m
  BY <1>1, Least
<1>3. n \in Splits(size) /\ \A m \in Splits(size) : n <= m
  BY <1>2
<1>4. Geometry(size) = [a |-> size \div n, b |-> n]
  BY DEF Geometry
<1> QED
  BY <1>3, <1>4

\* The arrays make up the transfer: no byte is left out and none is copied twice.
\* Several arrays are each short enough for a signed index, and they are as few
\* as possible (get_xfer_geometry and its closing assertions).
THEOREM GeometryExact ==
    ASSUME NEW size \in Nat, Movable(size)
    PROVE  LET g == Geometry(size)
           IN  /\ g.a \in Nat /\ g.b \in Nat \ {0} /\ g.a * g.b = size
               /\ g.b # 1 => g.a < Multi
               /\ g.a < Single \/ g.a < Multi
               /\ g.b # 1 => \A m \in Splits(size) : g.b <= m
<1>1. CASE size < Single
  <2>1. Geometry(size) = [a |-> size, b |-> 1]
    BY <1>1 DEF Geometry
  <2> QED
    BY <1>1, <2>1
<1>2. CASE ~(size < Single)
  <2> DEFINE g == Geometry(size)
  <2>1. g.b \in Splits(size) /\ g.a = size \div g.b /\ \A m \in Splits(size) : g.b <= m
    BY <1>2, Search
  <2>2. g.b \in Nat \ {0} /\ size % g.b = 0 /\ size \div g.b < Multi
    BY <2>1, GeometryAssumption DEF Splits
  <2>3. size \div g.b \in Nat /\ g.b * (size \div g.b) = size
    BY <2>2, Whole
  <2>4. g.b * g.a = size /\ g.a \in Nat
    BY <2>1, <2>2, <2>3
  <2>5. g.a * g.b = size
    BY <2>2, <2>4
  <2> QED
    BY <2>1, <2>2, <2>4, <2>5
<1> QED
  BY <1>1, <1>2

\* The fields of the PaRAM set hold the geometry, so that one trigger moves the
\* whole transfer, as long as every number of arrays that may be tried fits (the
\* registers have 16 bits; Edma takes ACNT and BCNT from here).
THEOREM FieldsHold ==
    ASSUME NEW size \in Nat, Movable(size),
           Single <= FieldSize, Multi <= FieldSize,
           1 < FieldSize, \A n \in ArrayCounts : n < FieldSize
    PROVE  Acnt(size) * Bcnt(size) = size
<1> DEFINE g == Geometry(size)
<1>1. g.a \in Nat /\ g.b \in Nat /\ g.a * g.b = size /\ (g.a < Single \/ g.a < Multi)
  BY GeometryExact
<1>2. g.b < FieldSize
  <2>1. CASE size < Single
    BY <2>1 DEF Geometry
  <2>2. CASE ~(size < Single)
    BY <2>2, Search DEF Splits
  <2> QED
    BY <2>1, <2>2
<1>3. g.a < FieldSize
  BY <1>1, GeometryAssumption
<1>4. g.a % FieldSize = g.a /\ g.b % FieldSize = g.b
  BY <1>1, <1>2, <1>3, GeometryAssumption, Small
<1> QED
  BY <1>1, <1>4 DEF Acnt, Bcnt

\* The numbers that the code tries are up to 65536, twice max_narrays, since the
\* number is doubled before it is compared (get_xfer_geometry).
TheCode ==
    /\ Single = 65536 /\ Multi = 32768 /\ FieldSize = 65536
    /\ ArrayCounts = {2, 4, 8, 16, 32, 64, 128, 256, 512, 1024, 2048, 4096, 8192, 16384,
                      32768, 65536}

\* With them everything below 1 GiB that can be moved at all is moved entirely ...
THEOREM BelowOneGiB ==
    ASSUME TheCode, NEW size \in Nat, Movable(size), size < 1073741824
    PROVE  Acnt(size) * Bcnt(size) = size
<1> DEFINE g == Geometry(size)
<1>1. CASE size < Single
  BY <1>1 DEF TheCode, Geometry, Acnt, Bcnt
<1>2. CASE ~(size < Single)
  <2>1. g.b \in Splits(size) /\ g.a = size \div g.b /\ \A m \in Splits(size) : g.b <= m
    BY <1>2, Search
  <2>2. g.b # 65536
    <3>1. SUFFICES ASSUME g.b = 65536 PROVE FALSE
      OBVIOUS
    <3>2. size % 65536 = 0
      BY <2>1, <3>1 DEF Splits
    <3>3. size % 32768 = 0 /\ size \div 32768 < 32768
      BY <3>2
    <3>4. 32768 \in Splits(size)
      BY <3>3 DEF Splits, TheCode
    <3> QED
      BY <2>1, <3>1, <3>4
  <2>3. g.b < 65536 /\ g.b \in Nat
    BY <2>1, <2>2 DEF Splits, TheCode
  <2>4. g.a \in Nat /\ g.a * g.b = size /\ g.a < 65536
    BY GeometryExact DEF TheCode
  <2>5. g.a % 65536 = g.a /\ g.b % 65536 = g.b
    BY <2>3, <2>4
  <2> QED
    BY <2>4, <2>5 DEF Acnt, Bcnt, TheCode
<1> QED
  BY <1>1, <1>2

\* ... but a transfer of 1 GiB passes every check of get_xfer_geometry and is
\* programmed with a count of zero: the engine ignores the trigger.
THEOREM OneGiBIsEmpty ==
    ASSUME TheCode
    PROVE  Movable(1073741824) /\ Bcnt(1073741824) = 0
<1> DEFINE size == 1073741824
<1>1. Splits(size) = {65536}
  <2>1. size \div 65536 = 16384 /\ size % 65536 = 0
    OBVIOUS
  <2>2. \A n \in ArrayCounts : n # 65536 => ~(size \div n < Multi)
    BY DEF TheCode
  <2> QED
    BY <2>1, <2>2 DEF Splits, TheCode
<1>2. Movable(size)
  BY <1>1 DEF Movable
<1>3. Geometry(size).b \in Splits(size)
  BY <1>2, Search DEF TheCode
<1> QED
  BY <1>1, <1>2, <1>3 DEF Bcnt, TheCode
-----------------------------------------------------------------------------
(***************************************************************************)
(* Numbers, and the offsets of the buffers of a gather.                    *)
(***************************************************************************)
\* A set that has 0, and n + 1 with every n, has them all.
LEMMA NatSet ==
    ASSUME NEW S \in SUBSET Nat, 0 \in S, \A n \in S : n + 1 \in S
    PROVE  \A n \in Nat : n \in S
<1> SUFFICES ASSUME Nat \ S # {} PROVE FALSE
    OBVIOUS
<1>1. PICK n \in Nat \ S : \A m \in Nat \ S : n <= m
    BY Least
<1>2. n - 1 \in Nat /\ n - 1 \in S
    BY <1>1
<1> QED BY <1>1, <1>2

\* The sums of the first sizes.
LEMMA SumsExist ==
    ASSUME NEW n \in Nat, NEW sizes
    PROVE  \E f : f = [k \in 0 .. n |-> IF k = 0 THEN 0 ELSE f[k - 1] + sizes[k]]
<1> DEFINE S == {m \in Nat : \E f : f = [k \in 0 .. m |-> IF k = 0 THEN 0 ELSE f[k - 1] + sizes[k]]}
<1>1. 0 \in S
    <2> DEFINE f == [k \in 0 .. 0 |-> 0]
    <2>1. f = [k \in 0 .. 0 |-> IF k = 0 THEN 0 ELSE f[k - 1] + sizes[k]]
        OBVIOUS
    <2> QED BY <2>1
<1>2. ASSUME NEW m \in S PROVE m + 1 \in S
    <2>1. PICK f : f = [k \in 0 .. m |-> IF k = 0 THEN 0 ELSE f[k - 1] + sizes[k]]
        BY <1>2
    <2> DEFINE g == [k \in 0 .. m + 1 |-> IF k = m + 1 THEN f[m] + sizes[m + 1] ELSE f[k]]
    <2>2. ASSUME NEW k \in 0 .. m + 1 
          PROVE  g[k] = IF k = 0 THEN 0 ELSE g[k - 1] + sizes[k]
        <3>1. CASE k = m + 1
            BY <3>1
        <3>2. CASE k \in 0 .. m
            BY <2>1, <3>2
        <3> QED BY <3>1, <3>2
    <2>3. g = [k \in 0 .. m + 1 |-> g[k]]
        OBVIOUS
    <2> HIDE DEF g
    <2>4. g = [k \in 0 .. m + 1 |-> IF k = 0 THEN 0 ELSE g[k - 1] + sizes[k]]
        BY <2>2, <2>3
    <2> QED BY <2>4
<1> HIDE DEF S
<1>3. n \in S
    BY <1>1, <1>2, NatSet DEF S
<1> QED BY <1>3 DEF S

\* The offset of a buffer is where the one before it ends.
LEMMA Offsets ==
    ASSUME NEW sizes, Len(sizes) \in Nat
    PROVE  /\ Offset(sizes, 1) = 0
           /\ \A i \in 1 .. Len(sizes) : Offset(sizes, i + 1) = Offset(sizes, i) + sizes[i]
<1> DEFINE sum == CHOOSE f : f = [k \in 0 .. Len(sizes) |-> IF k = 0 THEN 0 ELSE f[k - 1] + sizes[k]]
<1>1. sum = [k \in 0 .. Len(sizes) |-> IF k = 0 THEN 0 ELSE sum[k - 1] + sizes[k]]
    BY SumsExist
<1>2. \A i : Offset(sizes, i) = sum[i - 1]
    BY DEF Offset
<1> HIDE DEF sum
<1>3. Offset(sizes, 1) = sum[0] /\ sum[0] = 0
    <2>1. Offset(sizes, 1) = sum[1 - 1]
        BY <1>2
    <2>2. sum[0] = 0
        BY <1>1
    <2> QED BY <2>1, <2>2
<1>4. ASSUME NEW i \in 1 .. Len(sizes) PROVE Offset(sizes, i + 1) = Offset(sizes, i) + sizes[i]
    <2>1. sum[i] = sum[i - 1] + sizes[i]
        BY <1>1
    <2> QED BY <1>2, <2>1
<1> QED BY <1>3, <1>4

\* Offsets are numbers.
LEMMA OffsetNat ==
    ASSUME NEW sizes \in Seq(Nat), NEW i \in 1 .. Len(sizes)
    PROVE  Offset(sizes, i) \in Nat
<1> DEFINE S == {k \in Nat : k + 1 <= Len(sizes) => Offset(sizes, k + 1) \in Nat}
<1>1. 0 \in S
    BY Offsets
<1>2. ASSUME NEW k \in S PROVE k + 1 \in S
    <2> SUFFICES ASSUME k + 2 <= Len(sizes) PROVE Offset(sizes, k + 2) \in Nat
        OBVIOUS
    <2>1. k + 1 \in 1 .. Len(sizes) /\ sizes[k + 1] \in Nat
        OBVIOUS
    <2>2. Offset(sizes, (k + 1) + 1) = Offset(sizes, k + 1) + sizes[k + 1]
        BY <2>1, Offsets
    <2> QED BY <2>1, <2>2
<1>3. S \in SUBSET Nat
    OBVIOUS
<1> HIDE DEF S
<1>4. i - 1 \in Nat
    OBVIOUS
<1>5. i - 1 \in S
    BY <1>1, <1>2, <1>3, <1>4, NatSet
<1> QED BY <1>5 DEF S

\* The buffers of one size follow each other.
LEMMA OffsetConst ==
    ASSUME NEW cnt \in Nat, NEW size \in Nat, NEW i \in 1 .. cnt
    PROVE  Offset([k \in 1 .. cnt |-> size], i) = (i - 1) * size
<1> DEFINE sizes == [k \in 1 .. cnt |-> size]
           S == {k \in Nat : k + 1 <= cnt => Offset(sizes, k + 1) = k * size}
<1>0. Len(sizes) = cnt /\ \A k \in 1 .. cnt : sizes[k] = size
    OBVIOUS
<1> HIDE DEF sizes
<1>1. 0 \in S
    BY <1>0, Offsets
<1>2. ASSUME NEW k \in S PROVE k + 1 \in S
    <2> SUFFICES ASSUME k + 2 <= cnt PROVE Offset(sizes, k + 2) = (k + 1) * size
        OBVIOUS
    <2>1. k + 1 \in 1 .. cnt
        OBVIOUS
    <2>2. Offset(sizes, (k + 1) + 1) = Offset(sizes, k + 1) + sizes[k + 1]
        BY <1>0, <2>1, Offsets
    <2>3. Offset(sizes, k + 1) = k * size
        BY <2>1
    <2> QED BY <1>0, <2>1, <2>2, <2>3
<1>3. S \in SUBSET Nat
    OBVIOUS
<1> HIDE DEF S
<1>4. i - 1 \in S
    BY <1>1, <1>2, <1>3, NatSet
<1>5. Offset(sizes, i) = (i - 1) * size
    BY <1>4 DEF S
<1> QED BY <1>5 DEF sizes

-----------------------------------------------------------------------------
(***************************************************************************)
(* The inductive invariant.                                                *)
(***************************************************************************)
\* What a PaRAM set can hold, and what a program can ask for.
PaRAM == [src : Nat, dst : Nat, a : Nat, b : Nat,
          link : Logic \cup {Null}, chain : BOOLEAN, intr : BOOLEAN]
Transfer == [src : Nat, dst : Nat, n : Nat]

Typed ==
    /\ TypeOK
    /\ param \in [Phys \cup Logic -> PaRAM] /\ inflight \in [Phys -> PaRAM]
    /\ asked \in [Phys -> Seq(Transfer)] /\ log \in [Phys -> Seq(Transfer)]

\* The sets of a handle: a channel, and sets to link to, each once.
Granted(h) ==
    /\ sets[h] # <<>> => sets[h][1] \in Phys
    /\ \A i \in 2 .. Len(sets[h]) : sets[h][i] \in Logic
    /\ \A i, j \in 1 .. Len(sets[h]) : sets[h][i] = sets[h][j] => i = j

\* What a handle may be used for.
Usage(h) ==
    /\ phase[h] # "ready" => kind[h] # "none"
    /\ kind[h] \in {"once", "multiple", "selfchain"} => phase[h] = "xfer"
    /\ phase[h] \in {"gather", "preloaded"} => kind[h] = "linked"
    /\ preset[h] # 0 => /\ kind[h] = "linked" /\ phase[h] \in {"ready", "preloaded"}
                        /\ preset[h] \in Size[h] /\ Movable(preset[h])
    /\ phase[h] = "preloaded" => preset[h] # 0 /\ kicks[h] = Len(asked[Channel(h)])

\* Set x describes the i-th of n transfers with the sets s: unless it moves nothing, it
\* moves what was asked for, it links to the next set, and either it triggers the channel
\* again or it reports; with edma3_start_xfer_multiple it always reports, with a single set
\* of edma3_start_xfer_selfchain never.
Describes(x, i, n, s, k, item) ==
    /\ x.a * x.b # 0 => Item(x.src, x.dst, x.a * x.b) = item
    /\ i < n => x.link = s[i + 1]
    /\ i = n => x.link = Null \/ ~(x.chain \/ k = "multiple")
    /\ k = "multiple" => x.intr /\ ~x.chain
    /\ k = "selfchain" /\ n = 1 => x.chain /\ ~x.intr
    /\ ~(k = "multiple" \/ (k = "selfchain" /\ n = 1)) => (x.chain <=> i < n) /\ (x.intr <=> i = n)

\* ... of those that handle h is used for.
Serves(h, x, i) ==
    LET items == asked[Channel(h)]
    IN  Describes(x, i, Len(items), sets[h], kind[h], items[i])

\* The transfer that the channel of h will load or has loaded into its own set.
Loaded(h) == Len(log[Channel(h)]) + (IF inflight[Channel(h)] = NullSet THEN 1 ELSE 2)

\* A single set that triggers its channel again: nothing will ever report its end.
Endless(h) == kind[h] = "selfchain" /\ Len(asked[Channel(h)]) = 1

\* A call under way: what has been done, and that the sets describe the rest.
Progress(h) ==
    LET p == Channel(h)
        all == Len(asked[p])
        done == Len(log[p])
    IN  /\ all \in 1 .. Len(sets[h]) /\ done <= all
        /\ \A i \in 1 .. done : log[p][i] = asked[p][i]
        /\ \A i \in 2 .. all : Serves(h, param[sets[h][i]], i)
        /\ Loaded(h) <= all => Serves(h, param[p], Loaded(h))
        /\ Endless(h) /\ Loaded(h) > all => param[p] = NullSet
Engine(h) ==
    LET p == Channel(h)
        all == Len(asked[p])
        done == Len(log[p])
    IN  /\ inflight[p] # NullSet => /\ done < all /\ inflight[p].a * inflight[p].b # 0
                                    /\ Serves(h, inflight[p], done + 1)
        /\ p \in trig => inflight[p] = NullSet /\ (done < all \/ Endless(h))
        /\ p \in ipr => p \notin trig /\ inflight[p] = NullSet
        /\ kind[h] = "multiple" => kicks[h] = (IF p \in ipr THEN all - done ELSE all - done - 1)
        /\ kind[h] # "multiple" /\ p \in ipr => done = all
UnderWay(h) == phase[h] # "ready" => Progress(h) /\ Engine(h)

\* A set but for its buffers.
Bare(x) == [x EXCEPT !.src = 0, !.dst = 0]

\* Of the sets of a preloaded channel a call changes its own, and the last it uses.
Preset(h) ==
    preset[h] # 0 => \A i \in 1 .. Len(sets[h]) :
        phase[h] = "ready" \/ i \notin {1, kicks[h]} =>
            Bare(param[sets[h][i]]) = Preloaded(h, i)

IInv ==
    /\ Typed /\ QuietWhenIdle
    /\ \A h \in Handle : Granted(h) /\ Usage(h) /\ UnderWay(h) /\ Preset(h)

\* Each set that belongs to a handle belongs to it once.
LEMMA Apart ==
    ASSUME Typed, \A h \in Handle : Granted(h),
           NEW h \in Handle, NEW k \in Handle,
           NEW i \in 1 .. Len(sets[h]), NEW j \in 1 .. Len(sets[k]), sets[h][i] = sets[k][j]
    PROVE  h = k /\ i = j
<1>1. sets[h] \in Seq(Phys \cup Logic) /\ sets[k] \in Seq(Phys \cup Logic)
    BY DEF Typed, TypeOK
<1>2. sets[h][i] \in Elems(sets[h]) /\ sets[k][j] \in Elems(sets[k])
    BY <1>1 DEF Elems
<1>3. h = k
    BY <1>2 DEF Typed, TypeOK
<1> QED BY <1>3 DEF Granted

\* A handle that is in use has a channel.
LEMMA HasChannel ==
    ASSUME Typed, NEW h \in Handle, Granted(h), Usage(h), kind[h] # "none"
    PROVE  /\ sets[h] \in Seq(Phys \cup Logic) /\ Len(sets[h]) \in Nat \ {0} /\ sets[h] # <<>>
           /\ Channel(h) \in Phys /\ Channel(h) = sets[h][1] /\ 1 \in 1 .. Len(sets[h])
           /\ \A i \in 2 .. Len(sets[h]) : sets[h][i] \in Logic
<1>1. sets[h] \in Seq(Phys \cup Logic) /\ sets[h] # <<>>
    BY DEF Typed, TypeOK
<1>2. Len(sets[h]) \in Nat \ {0}
    BY <1>1
<1> QED BY <1>1, <1>2 DEF Granted, Channel

\* The sets, the channel and the call of handle k are left alone.
Alone(k) ==
    /\ sets'[k] = sets[k] /\ kind'[k] = kind[k] /\ preset'[k] = preset[k]
    /\ phase'[k] = phase[k] /\ kicks'[k] = kicks[k]
    /\ \A i \in 1 .. Len(sets[k]) : param'[sets[k][i]] = param[sets[k][i]]
    /\ kind[k] # "none" =>
        LET p == sets[k][1]
        IN  /\ inflight'[p] = inflight[p] /\ asked'[p] = asked[p] /\ log'[p] = log[p]
            /\ (p \in trig' <=> p \in trig) /\ (p \in ipr' <=> p \in ipr)

\* What is left alone stays in order.
LEMMA AloneKept ==
    ASSUME Typed, NEW k \in Handle, Granted(k), Usage(k), UnderWay(k), Preset(k), Alone(k)
    PROVE  Granted(k)' /\ Usage(k)' /\ UnderWay(k)' /\ Preset(k)'
<1>1. Granted(k)'
    BY DEF Granted, Alone
<1>2. Usage(k)'
    BY DEF Usage, Alone, Channel
<1>3. UnderWay(k)'
    <2> SUFFICES ASSUME phase[k] # "ready" PROVE Progress(k)' /\ Engine(k)'
        BY DEF UnderWay, Alone
    <2>0. Progress(k) /\ Engine(k) /\ kind[k] # "none"
        BY DEF UnderWay, Usage
    <2>1. Channel(k)' = Channel(k) /\ Channel(k) = sets[k][1]
        BY DEF Channel, Alone
    <2>2. /\ inflight'[Channel(k)] = inflight[Channel(k)] /\ asked'[Channel(k)] = asked[Channel(k)]
          /\ log'[Channel(k)] = log[Channel(k)]
          /\ Channel(k) \in trig' <=> Channel(k) \in trig
          /\ Channel(k) \in ipr' <=> Channel(k) \in ipr
          /\ kind'[k] = kind[k] /\ kicks'[k] = kicks[k] /\ sets'[k] = sets[k]
        BY <2>0, <2>1 DEF Alone
    <2>3. \A x, i : Serves(k, x, i)' <=> Serves(k, x, i)
        BY <2>1, <2>2 DEF Serves, Describes
    <2>4. Loaded(k)' = Loaded(k) /\ Endless(k)' = Endless(k)
        BY <2>1, <2>2 DEF Loaded, Endless
    <2>5. /\ Len(sets[k]) \in Nat \ {0} /\ param'[Channel(k)] = param[Channel(k)]
          /\ \A i \in 1 .. Len(sets[k]) : param'[sets[k][i]] = param[sets[k][i]]
        BY <2>0, <2>1, HasChannel DEF Alone
    <2>6. Progress(k)'
        BY <2>0, <2>1, <2>2, <2>3, <2>4, <2>5 DEF Progress
    <2>7. Engine(k)'
        BY <2>0, <2>1, <2>2, <2>3, <2>4 DEF Engine
    <2> QED BY <2>6, <2>7
<1>4. Preset(k)'
    <2>1. \A i : Preloaded(k, i)' = Preloaded(k, i)
        BY DEF Preloaded, Link, Alone
    <2> SUFFICES ASSUME preset[k] # 0, NEW i \in 1 .. Len(sets[k]),
                        phase[k] = "ready" \/ i \notin {1, kicks[k]}
                 PROVE  Bare(param'[sets[k][i]]) = Preloaded(k, i)
        BY <2>1 DEF Preset, Alone
    <2>2. param'[sets[k][i]] = param[sets[k][i]]
        BY DEF Alone
    <2> QED BY <2>2 DEF Preset
<1> QED BY <1>1, <1>2, <1>3, <1>4

\* What holds when a step of handle h leaves the others alone.
LEMMA Assembled ==
    ASSUME IInv, NEW h \in Handle, \A k \in Handle \ {h} : Alone(k),
           Typed', Granted(h)', Usage(h)', UnderWay(h)', Preset(h)',
           \A p \in Phys : \/ p \notin trig' /\ p \notin ipr' /\ inflight'[p] = NullSet
                           \/ phase'[h] # "ready" /\ p = sets'[h][1]
                           \/ /\ ~(phase[h] # "ready" /\ p = sets[h][1])
                              /\ inflight'[p] = inflight[p]
                              /\ (p \in trig' <=> p \in trig) /\ (p \in ipr' <=> p \in ipr)
    PROVE  IInv'
<1>1. \A k \in Handle : Granted(k)' /\ Usage(k)' /\ UnderWay(k)' /\ Preset(k)'
    BY AloneKept DEF IInv
<1>2. QuietWhenIdle'
    <2> SUFFICES ASSUME NEW p \in Phys, p \in trig' \/ p \in ipr' \/ inflight'[p] # NullSet
                 PROVE  \E k \in Handle : phase'[k] # "ready" /\ p = sets'[k][1]
        BY DEF QuietWhenIdle, Channel
    <2>1. CASE phase'[h] # "ready" /\ p = sets'[h][1]
        BY <2>1
    <2>2. CASE /\ ~(phase[h] # "ready" /\ p = sets[h][1])
               /\ inflight'[p] = inflight[p]
               /\ (p \in trig' <=> p \in trig) /\ (p \in ipr' <=> p \in ipr)
        <3>1. PICK k \in Handle : phase[k] # "ready" /\ p = sets[k][1]
            BY <2>2 DEF IInv, QuietWhenIdle, Channel
        <3>2. k # h
            BY <2>2, <3>1
        <3> QED BY <3>1, <3>2 DEF Alone
    <2> QED BY <2>1, <2>2
<1> QED BY <1>1, <1>2 DEF IInv

-----------------------------------------------------------------------------
(***************************************************************************)
(* A call is started.                                                      *)
(***************************************************************************)
\* A transfer that is programmed moves what it should, or nothing at all.
ExactOrEmpty ==
    \A h \in Handle : \A size \in Size[h] :
        Movable(size) => Acnt(size) * Bcnt(size) \in {0, size}

\* A programmed set has the type of a set.
LEMMA Described ==
    ASSUME NEW size \in Nat, Movable(size), NEW src \in Nat, NEW dst \in Nat,
           NEW link \in Logic \cup {Null}, NEW last \in BOOLEAN
    PROVE  Pset(src, dst, size, link, last) \in PaRAM
<1>1. Acnt(size) \in Nat /\ Bcnt(size) \in Nat
    <2>1. Geometry(size).a \in Nat /\ Geometry(size).b \in Nat
        BY GeometryExact
    <2> QED BY <2>1, GeometryAssumption DEF Acnt, Bcnt
<1> QED BY <1>1 DEF Pset, PaRAM

\* The sets of a call hold what has been written.
LEMMA Programmed ==
    ASSUME Typed, NEW s \in Seq(Phys \cup Logic), s[1] \in Phys,
           \A i, j \in 1 .. Len(s) : s[i] = s[j] => i = j,
           NEW n \in 1 .. Len(s), NEW written \in [1 .. n -> PaRAM], NEW items \in Seq(Transfer),
           Program(s, written, items)
    PROVE  /\ param' \in [Phys \cup Logic -> PaRAM]
           /\ \A i \in 1 .. n : param'[s[i]] = written[i]
           /\ \A t \in Phys \cup Logic : (\A i \in 1 .. n : s[i] # t) => param'[t] = param[t]
           /\ trig' = trig \cup {s[1]} /\ inflight' = inflight /\ ipr' = ipr
           /\ asked' \in [Phys -> Seq(Transfer)] /\ log' \in [Phys -> Seq(Transfer)]
           /\ asked'[s[1]] = items /\ log'[s[1]] = <<>>
           /\ \A p \in Phys \ {s[1]} : asked'[p] = asked[p] /\ log'[p] = log[p]
<1>0. /\ DOMAIN written = 1 .. n /\ Len(s) \in Nat
      /\ \A i \in 1 .. n : i \in 1 .. Len(s) /\ s[i] \in Phys \cup Logic
    OBVIOUS
<1> DEFINE at(t) == CHOOSE i \in 1 .. n : s[i] = t
<1>1. param' = [t \in Phys \cup Logic |-> IF \E i \in 1 .. n : s[i] = t THEN written[at(t)] ELSE param[t]]
    BY <1>0 DEF Program
<1>2. \A t : (\E i \in 1 .. n : s[i] = t) => at(t) \in 1 .. n /\ s[at(t)] = t
    OBVIOUS
<1> HIDE DEF at
<1>3. \A i \in 1 .. n : at(s[i]) = i
    BY <1>0, <1>2
<1>4. param' \in [Phys \cup Logic -> PaRAM]
    <2> SUFFICES ASSUME NEW t \in Phys \cup Logic
                 PROVE  (IF \E i \in 1 .. n : s[i] = t THEN written[at(t)] ELSE param[t]) \in PaRAM
        BY <1>1
    <2>1. CASE \E i \in 1 .. n : s[i] = t
        BY <1>2, <2>1
    <2>2. CASE ~\E i \in 1 .. n : s[i] = t
        BY <2>2 DEF Typed
    <2> QED BY <2>1, <2>2
<1>5. \A i \in 1 .. n : param'[s[i]] = written[i]
    BY <1>0, <1>1, <1>3
<1>6. \A t \in Phys \cup Logic : (\A i \in 1 .. n : s[i] # t) => param'[t] = param[t]
    BY <1>1
<1>7. /\ asked' = [asked EXCEPT ![s[1]] = items] /\ log' = [log EXCEPT ![s[1]] = <<>>]
      /\ trig' = trig \cup {s[1]} /\ inflight' = inflight /\ ipr' = ipr
    BY DEF Program
<1>8. <<>> \in Seq(Transfer)
    OBVIOUS
<1>9. /\ asked' \in [Phys -> Seq(Transfer)] /\ log' \in [Phys -> Seq(Transfer)]
      /\ asked'[s[1]] = items /\ log'[s[1]] = <<>>
      /\ \A p \in Phys \ {s[1]} : asked'[p] = asked[p] /\ log'[p] = log[p]
    BY <1>7, <1>8 DEF Typed
<1> QED BY <1>4, <1>5, <1>6, <1>7, <1>9

\* The handles but h keep what they have.
Others(h) ==
    \A k \in Handle \ {h} : /\ sets'[k] = sets[k] /\ kind'[k] = kind[k] /\ preset'[k] = preset[k]
                            /\ phase'[k] = phase[k] /\ kicks'[k] = kicks[k]

\* The sets that a handle has or gets are no other's.
Exclusive(h, s) ==
    /\ s[1] \in Phys
    /\ \A i \in 2 .. Len(s) : s[i] \in Logic
    /\ \A i, j \in 1 .. Len(s) : s[i] = s[j] => i = j
    /\ \A k \in Handle \ {h} : Elems(s) \cap Elems(sets[k]) = {}

\* The types of what a step of a handle changes.
HandlesTyped ==
    /\ sets \in [Handle -> Seq(Phys \cup Logic)]
    /\ kind \in [Handle -> Kinds] /\ phase \in [Handle -> Phases]
    /\ preset \in [Handle -> Nat] /\ kicks \in [Handle -> Nat]

\* The types, put together after a step of handle h.
LEMMA StillTyped ==
    ASSUME Typed, Runs, HandlesTyped', NEW h \in Handle, Others(h),
           kind'[h] = "none" <=> sets'[h] = <<>>,
           \A k \in Handle \ {h} : Elems(sets'[h]) \cap Elems(sets[k]) = {},
           param' \in [Phys \cup Logic -> PaRAM], inflight' \in [Phys -> PaRAM],
           asked' \in [Phys -> Seq(Transfer)], log' \in [Phys -> Seq(Transfer)],
           trig' \subseteq Phys, ipr' \subseteq Phys
    PROVE  Typed'
<1>1. \A s \in Phys \cup Logic : /\ param'[s].link \in Logic \cup {Null}
                                 /\ param'[s].a \in Nat /\ param'[s].b \in Nat
    BY DEF PaRAM
<1>2. \A k \in Handle : kind'[k] = "none" <=> sets'[k] = <<>>
    BY DEF Others, Typed, TypeOK
<1>3. \A j, k \in Handle : j # k => Elems(sets'[j]) \cap Elems(sets'[k]) = {}
    <2> SUFFICES ASSUME NEW j \in Handle, NEW k \in Handle, j # k
                 PROVE  Elems(sets'[j]) \cap Elems(sets'[k]) = {}
        OBVIOUS
    <2>1. \A i \in Handle \ {h} : sets'[i] = sets[i]
        BY DEF Others
    <2>2. CASE j # h /\ k # h
        BY <2>1, <2>2 DEF Typed, TypeOK
    <2>3. CASE j = h
        BY <2>1, <2>3
    <2>4. CASE k = h
        BY <2>1, <2>4
    <2> QED BY <2>2, <2>3, <2>4
<1>4. \A k : Elems(sets[k])' = Elems(sets'[k])
    BY DEF Elems
<1>5. TypeOK'
    BY <1>1, <1>2, <1>3, <1>4 DEF TypeOK, HandlesTyped, Runs, Typed
<1> QED BY <1>5 DEF Typed

\* A call starts: the sets written describe the transfers that were asked for.
LEMMA Starting ==
    ASSUME IInv, Runs, NEW h \in Handle, phase[h] = "ready", HandlesTyped', Others(h),
           NEW s \in Seq(Phys \cup Logic), s = sets'[h], Exclusive(h, s),
           NEW n \in 1 .. Len(s), NEW written \in [1 .. n -> PaRAM], NEW items \in Seq(Transfer),
           Len(items) = n, Program(s, written, items),
           kind'[h] # "none", phase'[h] # "ready", kind'[h] = "multiple" => kicks'[h] = n - 1,
           \A i \in 1 .. n : Describes(written[i], i, n, s, kind'[h], items[i]),
           Usage(h)', Preset(h)'
    PROVE  IInv'
<1>0. Len(s) \in Nat /\ 1 \in 1 .. Len(s) /\ s # <<>> /\ 1 \in 1 .. n /\ n \in Nat
    OBVIOUS
<1>1. /\ param' \in [Phys \cup Logic -> PaRAM]
      /\ \A i \in 1 .. n : param'[s[i]] = written[i]
      /\ \A t \in Phys \cup Logic : (\A i \in 1 .. n : s[i] # t) => param'[t] = param[t]
      /\ trig' = trig \cup {s[1]} /\ inflight' = inflight /\ ipr' = ipr
      /\ asked' \in [Phys -> Seq(Transfer)] /\ log' \in [Phys -> Seq(Transfer)]
      /\ asked'[s[1]] = items /\ log'[s[1]] = <<>>
      /\ \A p \in Phys \ {s[1]} : asked'[p] = asked[p] /\ log'[p] = log[p]
    <2>1. Typed /\ s[1] \in Phys /\ \A i, j \in 1 .. Len(s) : s[i] = s[j] => i = j
        BY DEF IInv, Exclusive
    <2> QED BY <2>1, Programmed
<1>2. \A i \in 1 .. Len(s) : s[i] \in Elems(s)
    BY DEF Elems
\* Nothing is left of what the channel was used for before.
<1>3. s[1] \notin trig /\ s[1] \notin ipr /\ inflight[s[1]] = NullSet
    <2> SUFFICES ASSUME NEW k \in Handle, phase[k] # "ready", s[1] = Channel(k)
                 PROVE  FALSE
        BY DEF IInv, QuietWhenIdle, Exclusive
    <2>1. k # h /\ Channel(k) \in Elems(sets[k])
        BY HasChannel DEF IInv, Usage, Elems
    <2> QED BY <1>0, <1>2, <2>1 DEF Exclusive
<1>4. Typed'
    <2>1. trig' \subseteq Phys /\ ipr' \subseteq Phys /\ inflight' \in [Phys -> PaRAM]
        BY <1>1 DEF IInv, Typed, TypeOK, Exclusive
    <2> QED BY <1>0, <1>1, <2>1, StillTyped DEF IInv, Exclusive
<1>5. \A k \in Handle \ {h} : Alone(k)
    <2> SUFFICES ASSUME NEW k \in Handle \ {h} PROVE Alone(k)
        OBVIOUS
    <2>1. \A i \in 1 .. Len(sets[k]) : sets[k][i] \in Elems(sets[k]) /\ sets[k][i] \in Phys \cup Logic
        BY DEF Elems, IInv, Typed, TypeOK
    <2>2. \A i \in 1 .. Len(sets[k]) : param'[sets[k][i]] = param[sets[k][i]]
        <3> SUFFICES ASSUME NEW i \in 1 .. Len(sets[k]) PROVE \A j \in 1 .. n : s[j] # sets[k][i]
            BY <1>1, <2>1
        <3> QED BY <1>0, <1>2, <2>1 DEF Exclusive
    <2>3. ASSUME kind[k] # "none"
          PROVE  sets[k][1] \in Phys \ {s[1]}
        <3>1. 1 \in 1 .. Len(sets[k]) /\ sets[k][1] \in Phys
            BY <2>3, HasChannel DEF IInv
        <3> QED BY <1>0, <1>2, <2>1, <3>1 DEF Exclusive
    <2> QED BY <1>1, <2>2, <2>3 DEF Others, Alone
<1>6. Granted(h)'
    BY DEF Granted, Exclusive
<1>7. UnderWay(h)'
    <2>1. /\ Channel(h)' = s[1] /\ asked'[s[1]] = items /\ Len(items) = n
          /\ log'[s[1]] = <<>> /\ Len(<<>>) = 0 /\ inflight'[s[1]] = NullSet /\ Loaded(h)' = 1
        BY <1>1, <1>3 DEF Channel, Loaded
    <2>2. ASSUME NEW i \in 1 .. n PROVE Serves(h, param[s[i]], i)'
        <3>1. param'[s[i]] = written[i] /\ Describes(written[i], i, n, s, kind'[h], items[i])
            BY <1>1
        <3>2. Describes(param[s[i]], i, n, s, kind[h], items[i])'
            BY <3>1 DEF Describes
        <3> QED BY <2>1, <3>2 DEF Serves
    <2>3. Progress(h)'
        BY <1>0, <2>1, <2>2 DEF Progress
    <2>4. Engine(h)'
        BY <1>0, <1>1, <1>3, <2>1 DEF Engine
    <2> QED BY <2>3, <2>4 DEF UnderWay
<1>8. \A p \in Phys : \/ phase'[h] # "ready" /\ p = sets'[h][1]
                      \/ /\ ~(phase[h] # "ready" /\ p = sets[h][1])
                         /\ inflight'[p] = inflight[p]
                         /\ (p \in trig' <=> p \in trig) /\ (p \in ipr' <=> p \in ipr)
    BY <1>1
<1> QED BY <1>4, <1>5, <1>6, <1>7, <1>8, Assembled

\* Sizes and counts are numbers.
LEMMA Sized ==
    ASSUME NEW h \in Handle
    PROVE  (\A size \in Size[h] : size \in Nat /\ size # 0) /\ MaxCnt[h] \in Nat
BY EdmaAssumption

\* What a programmed set does.
LEMMA Moves ==
    ASSUME ExactOrEmpty, NEW h \in Handle, NEW size \in Size[h], Movable(size),
           NEW src, NEW dst, NEW link, NEW last \in BOOLEAN
    PROVE  LET x == Pset(src, dst, size, link, last)
           IN  /\ x.a * x.b # 0 => Item(x.src, x.dst, x.a * x.b) = Item(src, dst, size)
               /\ x.link = link /\ (x.chain <=> ~last) /\ (x.intr <=> last)
<1>1. Acnt(size) * Bcnt(size) \in {0, size}
    BY DEF ExactOrEmpty
<1> QED BY <1>1 DEF Pset

\* What the resource manager grants nobody has.
LEMMA Granting ==
    ASSUME Typed, NEW h \in Handle, NEW n \in Nat, NEW s \in Grants(n)
    PROVE  s \in Seq(Phys \cup Logic) /\ Len(s) = n + 1 /\ s # <<>> /\ Exclusive(h, s)
<1>1. s \in [1 .. n + 1 -> (Phys \cup Logic) \ Taken]
    BY DEF Grants
<1>2. s \in Seq(Phys \cup Logic) /\ Len(s) = n + 1 /\ s # <<>> /\ DOMAIN s = 1 .. n + 1
    BY <1>1
<1>3. ASSUME NEW k \in Handle PROVE Elems(s) \cap Elems(sets[k]) = {}
    <2>1. \A x \in Elems(s) : x \notin Taken
        BY <1>1 DEF Elems
    <2>2. \A x \in Elems(sets[k]) : x \in Taken
        BY DEF Taken
    <2> QED BY <2>1, <2>2
<1> QED BY <1>2, <1>3 DEF Exclusive, Grants

\* A handle that has sets has them for itself.
LEMMA Having ==
    ASSUME IInv, NEW h \in Handle, kind[h] # "none"
    PROVE  /\ sets[h] \in Seq(Phys \cup Logic) /\ Len(sets[h]) \in Nat \ {0} /\ Exclusive(h, sets[h])
           /\ sets[h] # <<>> /\ 1 \in 1 .. Len(sets[h])
<1>1. Granted(h) /\ Usage(h) /\ Typed
    BY DEF IInv
<1> QED BY <1>1, HasChannel DEF Exclusive, Granted, Typed, TypeOK

\* A sequence of one.
LEMMA Singleton ==
    ASSUME NEW x
    PROVE  <<x>> = [i \in 1 .. 1 |-> x]
<1>1. DOMAIN <<x>> = 1 .. 1 /\ <<x>>[1] = x
    OBVIOUS
<1>2. <<x>> = [i \in 1 .. 1 |-> <<x>>[i]]
    BY <1>1
<1>3. \A i \in 1 .. 1 : <<x>>[i] = x
    BY <1>1
<1> QED BY <1>2, <1>3

\* A single transfer.
LEMMA OneIs ==
    ASSUME NEW h \in Handle, NEW size \in Size[h], Movable(size), ExactOrEmpty,
           NEW s, NEW k, k \notin {"multiple", "selfchain"}, One(s, size)
    PROVE  LET written == [i \in 1 .. 1 |-> Pset(1, 0, size, Null, TRUE)]
               items == <<Item(1, 0, size)>>
           IN  /\ Program(s, written, items)
               /\ written \in [1 .. 1 -> PaRAM] /\ items \in Seq(Transfer) /\ Len(items) = 1
               /\ \A i \in 1 .. 1 : Describes(written[i], i, 1, s, k, items[i])
<1> DEFINE x == Pset(1, 0, size, Null, TRUE)
           written == [i \in 1 .. 1 |-> x]
           items == <<Item(1, 0, size)>>
<1>1. x \in PaRAM
    BY Described, Sized
<1>2. <<x>> = written
    BY Singleton
<1>3. Program(s, written, items)
    BY <1>2 DEF One
<1>4. Item(1, 0, size) \in Transfer
    BY Sized DEF Item, Transfer
<1>5. Describes(x, 1, 1, s, k, Item(1, 0, size))
    <2>1. /\ x.a * x.b # 0 => Item(x.src, x.dst, x.a * x.b) = Item(1, 0, size)
          /\ x.link = Null /\ (x.chain <=> ~TRUE) /\ (x.intr <=> TRUE)
        BY Moves
    <2> HIDE DEF x
    <2> QED BY <2>1 DEF Describes
<1> HIDE DEF x
<1>6. written \in [1 .. 1 -> PaRAM] /\ items \in Seq(Transfer) /\ Len(items) = 1 /\ items[1] = Item(1, 0, size)
    BY <1>1, <1>4
<1>7. \A i \in 1 .. 1 : Describes(written[i], i, 1, s, k, items[i])
    BY <1>5, <1>6
<1> QED BY <1>3, <1>6, <1>7 DEF x

\* edma3_start_xfer_once1.
LEMMA StartXferOnce1Step ==
    ASSUME IInv, Runs, ExactOrEmpty, NEW h \in Handle, NEW size \in Size[h], Unclobbered(h),
           StartXferOnce1(h, size)
    PROVE  IInv'
<1> DEFINE written == [i \in 1 .. 1 |-> Pset(1, 0, size, Null, TRUE)]
           items == <<Item(1, 0, size)>>
<1>1. kind[h] \in {"linked", "plain"} /\ phase[h] = "ready" /\ preset[h] = 0 /\ Movable(size)
      /\ One(sets[h], size) /\ phase' = [phase EXCEPT ![h] = "xfer"]
      /\ sets' = sets /\ kind' = kind /\ preset' = preset /\ kicks' = kicks
    BY DEF StartXferOnce1, Unclobbered
<1>2. /\ sets[h] \in Seq(Phys \cup Logic) /\ Len(sets[h]) \in Nat \ {0} /\ Exclusive(h, sets[h])
      /\ sets[h] # <<>> /\ 1 \in 1 .. Len(sets[h])
    BY <1>1, Having
<1>3. /\ Program(sets[h], written, items)
      /\ written \in [1 .. 1 -> PaRAM] /\ items \in Seq(Transfer) /\ Len(items) = 1
      /\ \A i \in 1 .. 1 : Describes(written[i], i, 1, sets[h], kind'[h], items[i])
    BY <1>1, OneIs
<1> HIDE DEF written, items
<1>4. HandlesTyped' /\ Others(h) /\ phase'[h] = "xfer"
    BY <1>1 DEF IInv, Typed, TypeOK, HandlesTyped, Others, Phases
<1>5. Usage(h)' /\ Preset(h)'
    BY <1>1, <1>4 DEF Usage, Preset
<1> QED BY <1>1, <1>2, <1>3, <1>4, <1>5, Starting

\* edma3_start_xfer_once.
LEMMA StartXferOnceStep ==
    ASSUME IInv, Runs, ExactOrEmpty, NEW h \in Handle, NEW size \in Size[h], StartXferOnce(h, size)
    PROVE  IInv'
<1> DEFINE written == [i \in 1 .. 1 |-> Pset(1, 0, size, Null, TRUE)]
           items == <<Item(1, 0, size)>>
<1>1. PICK s \in Grants(0) : Take(h, s, "once") /\ One(s, size)
    BY DEF StartXferOnce
<1>2. kind[h] = "none" /\ Movable(size) /\ phase' = [phase EXCEPT ![h] = "xfer"]
      /\ sets' = [sets EXCEPT ![h] = s] /\ kind' = [kind EXCEPT ![h] = "once"]
      /\ preset' = preset /\ kicks' = kicks
    BY <1>1 DEF StartXferOnce, Take
<1>3. s \in Seq(Phys \cup Logic) /\ Len(s) = 1 /\ s # <<>> /\ Exclusive(h, s)
    <2>1. Typed /\ 0 \in Nat
        BY DEF IInv
    <2>2. s \in Seq(Phys \cup Logic) /\ Len(s) = 0 + 1 /\ s # <<>> /\ Exclusive(h, s)
        BY <2>1, Granting
    <2> QED BY <2>2
<1>4. /\ HandlesTyped' /\ Others(h) /\ phase'[h] = "xfer" /\ kind'[h] = "once" /\ sets'[h] = s
      /\ phase[h] = "ready" /\ preset[h] = 0
    BY <1>2, <1>3 DEF IInv, Typed, TypeOK, HandlesTyped, Others, Phases, Kinds, Usage
<1>5. /\ Program(s, written, items)
      /\ written \in [1 .. 1 -> PaRAM] /\ items \in Seq(Transfer) /\ Len(items) = 1
      /\ \A i \in 1 .. 1 : Describes(written[i], i, 1, s, kind'[h], items[i])
    BY <1>1, <1>2, <1>4, OneIs
<1> HIDE DEF written, items
<1>6. Usage(h)' /\ Preset(h)'
    BY <1>2, <1>4 DEF Usage, Preset
<1>7. 1 \in 1 .. Len(s)
    BY <1>3
<1> QED BY <1>3, <1>4, <1>5, <1>6, <1>7, Starting

\* One of several transfers.
LEMMA SeveralAre ==
    ASSUME ExactOrEmpty, NEW h \in Handle, NEW n \in Nat \ {0}, NEW s \in Seq(Phys \cup Logic), Len(s) = n,
           \A i \in 2 .. n : s[i] \in Logic,
           NEW size \in Size[h], Movable(size)
    PROVE  \A i \in 1 .. n :
             /\ Pset(1, 0, size, Link(s, i), TRUE) \in PaRAM /\ Item(1, 0, size) \in Transfer
             /\ Describes(Pset(1, 0, size, Link(s, i), TRUE), i, n, s, "multiple", Item(1, 0, size))
             /\ Pset(1, (i - 1) * size, size, Link(s, i), i = n /\ n > 1) \in PaRAM
             /\ Item(1, (i - 1) * size, size) \in Transfer
             /\ Describes(Pset(1, (i - 1) * size, size, Link(s, i), i = n /\ n > 1), i, n, s, "selfchain",
                          Item(1, (i - 1) * size, size))
<1>1. \A i \in 1 .. n : Link(s, i) \in Logic \cup {Null} /\ (i < n => Link(s, i) = s[i + 1])
                        /\ (i = n => Link(s, i) = Null)
    BY DEF Link
<1>2. size \in Nat
    BY Sized
<1>3. ASSUME NEW i \in 1 .. n
      PROVE  /\ Pset(1, 0, size, Link(s, i), TRUE) \in PaRAM /\ Item(1, 0, size) \in Transfer
             /\ Describes(Pset(1, 0, size, Link(s, i), TRUE), i, n, s, "multiple", Item(1, 0, size))
    <2> DEFINE x == Pset(1, 0, size, Link(s, i), TRUE)
    <2>1. x \in PaRAM
        BY <1>1, <1>2, Described
    <2>2. Item(1, 0, size) \in Transfer
        BY <1>2 DEF Item, Transfer
    <2>3. /\ x.a * x.b # 0 => Item(x.src, x.dst, x.a * x.b) = Item(1, 0, size)
          /\ x.link = Link(s, i) /\ (x.chain <=> ~TRUE) /\ (x.intr <=> TRUE)
        BY Moves
    <2> HIDE DEF x
    <2>4. Describes(x, i, n, s, "multiple", Item(1, 0, size))
        BY <1>1, <2>3 DEF Describes
    <2> QED BY <2>1, <2>2, <2>4 DEF x
<1>4. ASSUME NEW i \in 1 .. n
      PROVE  /\ Pset(1, (i - 1) * size, size, Link(s, i), i = n /\ n > 1) \in PaRAM
             /\ Item(1, (i - 1) * size, size) \in Transfer
             /\ Describes(Pset(1, (i - 1) * size, size, Link(s, i), i = n /\ n > 1), i, n, s, "selfchain",
                          Item(1, (i - 1) * size, size))
    <2> DEFINE dst == (i - 1) * size
               last == i = n /\ n > 1
               x == Pset(1, dst, size, Link(s, i), last)
    <2>0. dst \in Nat /\ last \in BOOLEAN
        BY <1>2
    <2>5. last <=> i = n /\ n > 1
        OBVIOUS
    <2> HIDE DEF dst, last
    <2>1. x \in PaRAM
        BY <1>1, <1>2, <2>0, Described
    <2>2. Item(1, dst, size) \in Transfer
        BY <1>2, <2>0 DEF Item, Transfer
    <2>3. /\ x.a * x.b # 0 => Item(x.src, x.dst, x.a * x.b) = Item(1, dst, size)
          /\ x.link = Link(s, i) /\ (x.chain <=> ~last) /\ (x.intr <=> last)
        BY <2>0, Moves
    <2> HIDE DEF x
    <2>4. Describes(x, i, n, s, "selfchain", Item(1, dst, size))
        BY <1>1, <2>3, <2>5 DEF Describes
    <2> QED BY <2>1, <2>2, <2>4 DEF x, dst, last
<1> QED BY <1>3, <1>4

\* edma3_start_xfer_multiple.
LEMMA StartXferMultipleStep ==
    ASSUME IInv, Runs, ExactOrEmpty, NEW h \in Handle, NEW size \in Size[h], NEW count \in Nat \ {0},
           StartXferMultiple(h, size, count)
    PROVE  IInv'
<1> DEFINE x(s, i) == Pset(1, 0, size, Link(s, i), TRUE)
           item(i) == Item(1, 0, size)
           written(s) == [i \in 1 .. count |-> x(s, i)]
           items == [i \in 1 .. count |-> item(i)]
<1>1. PICK s \in Grants(count - 1) : Take(h, s, "multiple") /\ Program(s, written(s), items)
    BY DEF StartXferMultiple
<1>2. kind[h] = "none" /\ Movable(size) /\ phase' = [phase EXCEPT ![h] = "xfer"]
      /\ sets' = [sets EXCEPT ![h] = s] /\ kind' = [kind EXCEPT ![h] = "multiple"]
      /\ preset' = preset /\ kicks' = [kicks EXCEPT ![h] = count - 1]
    BY <1>1 DEF StartXferMultiple, Take
<1>3. s \in Seq(Phys \cup Logic) /\ Len(s) = count /\ s # <<>> /\ Exclusive(h, s)
    <2>1. Typed /\ count - 1 \in Nat
        BY DEF IInv
    <2>2. s \in Seq(Phys \cup Logic) /\ Len(s) = (count - 1) + 1 /\ s # <<>> /\ Exclusive(h, s)
        BY <2>1, Granting
    <2> QED BY <2>2
<1>4. /\ HandlesTyped' /\ Others(h) /\ phase'[h] = "xfer" /\ kind'[h] = "multiple" /\ sets'[h] = s
      /\ phase[h] = "ready" /\ preset[h] = 0 /\ kicks'[h] = count - 1
    BY <1>2, <1>3 DEF IInv, Typed, TypeOK, HandlesTyped, Others, Phases, Kinds, Usage
<1>5. /\ written(s) \in [1 .. count -> PaRAM] /\ items \in Seq(Transfer) /\ Len(items) = count
      /\ \A i \in 1 .. count : Describes(written(s)[i], i, count, s, kind'[h], items[i])
    <2>1. \A i \in 2 .. count : s[i] \in Logic
        BY <1>3 DEF Exclusive
    <2>2. \A i \in 1 .. count :
            /\ x(s, i) \in PaRAM /\ item(i) \in Transfer
            /\ Describes(x(s, i), i, count, s, "multiple", item(i))
        BY <1>2, <1>3, <2>1, SeveralAre, Zenon
    <2> HIDE DEF x, item
    <2>3. \A i \in 1 .. count : written(s)[i] = x(s, i) /\ items[i] = item(i)
        OBVIOUS
    <2>4. written(s) \in [1 .. count -> PaRAM] /\ items \in Seq(Transfer) /\ Len(items) = count
        BY <2>2
    <2> HIDE DEF written, items
    <2>5. \A i \in 1 .. count : Describes(written(s)[i], i, count, s, "multiple", items[i])
        BY <2>2, <2>3
    <2> QED BY <1>4, <2>4, <2>5
<1>6. Usage(h)' /\ Preset(h)'
    BY <1>2, <1>4 DEF Usage, Preset
<1>7. count \in 1 .. Len(s) /\ Program(s, written(s), items)
    BY <1>1, <1>3
<1> HIDE DEF written, items
<1> QED BY <1>3, <1>4, <1>5, <1>6, <1>7, Starting

\* The transfer that is cut into several.
LEMMA StartSelfChainingStep ==
    ASSUME IInv, Runs, ExactOrEmpty, NEW h \in Handle, NEW size \in Size[h], NEW count \in Nat \ {0},
           StartSelfChaining(h, size, count)
    PROVE  IInv'
<1> DEFINE x(s, i) == Pset(1, (i - 1) * size, size, Link(s, i), i = count /\ count > 1)
           item(i) == Item(1, (i - 1) * size, size)
           written(s) == [i \in 1 .. count |-> x(s, i)]
           items == [i \in 1 .. count |-> item(i)]
<1>1. PICK s \in Grants(count - 1) : Take(h, s, "selfchain") /\ Program(s, written(s), items)
    BY DEF StartSelfChaining
<1>2. kind[h] = "none" /\ Movable(size) /\ phase' = [phase EXCEPT ![h] = "xfer"]
      /\ sets' = [sets EXCEPT ![h] = s] /\ kind' = [kind EXCEPT ![h] = "selfchain"]
      /\ preset' = preset /\ kicks' = kicks
    BY <1>1 DEF StartSelfChaining, Take
<1>3. s \in Seq(Phys \cup Logic) /\ Len(s) = count /\ s # <<>> /\ Exclusive(h, s)
    <2>1. Typed /\ count - 1 \in Nat
        BY DEF IInv
    <2>2. s \in Seq(Phys \cup Logic) /\ Len(s) = (count - 1) + 1 /\ s # <<>> /\ Exclusive(h, s)
        BY <2>1, Granting
    <2> QED BY <2>2
<1>4. /\ HandlesTyped' /\ Others(h) /\ phase'[h] = "xfer" /\ kind'[h] = "selfchain" /\ sets'[h] = s
      /\ phase[h] = "ready" /\ preset[h] = 0
    BY <1>2, <1>3 DEF IInv, Typed, TypeOK, HandlesTyped, Others, Phases, Kinds, Usage
<1>5. /\ written(s) \in [1 .. count -> PaRAM] /\ items \in Seq(Transfer) /\ Len(items) = count
      /\ \A i \in 1 .. count : Describes(written(s)[i], i, count, s, kind'[h], items[i])
    <2>1. \A i \in 2 .. count : s[i] \in Logic
        BY <1>3 DEF Exclusive
    <2>2. \A i \in 1 .. count :
            /\ x(s, i) \in PaRAM /\ item(i) \in Transfer
            /\ Describes(x(s, i), i, count, s, "selfchain", item(i))
        BY <1>2, <1>3, <2>1, SeveralAre, Zenon
    <2> HIDE DEF x, item
    <2>3. \A i \in 1 .. count : written(s)[i] = x(s, i) /\ items[i] = item(i)
        OBVIOUS
    <2>4. written(s) \in [1 .. count -> PaRAM] /\ items \in Seq(Transfer) /\ Len(items) = count
        BY <2>2
    <2> HIDE DEF written, items
    <2>5. \A i \in 1 .. count : Describes(written(s)[i], i, count, s, "selfchain", items[i])
        BY <2>2, <2>3
    <2> QED BY <1>4, <2>4, <2>5
<1>6. Usage(h)' /\ Preset(h)'
    BY <1>2, <1>4 DEF Usage, Preset
<1>7. count \in 1 .. Len(s) /\ Program(s, written(s), items)
    BY <1>1, <1>3
<1> HIDE DEF written, items
<1> QED BY <1>3, <1>4, <1>5, <1>6, <1>7, Starting

\* A gather: its buffers follow each other.
LEMMA StartGatherStep ==
    ASSUME IInv, Runs, ExactOrEmpty, NEW h \in Handle, NEW m \in Nat, NEW sizes \in [1 .. m -> Size[h]],
           Unclobbered(h), StartGather(h, sizes)
    PROVE  IInv'
<1> DEFINE n == Len(sizes)
           link(i) == IF i = n /\ i > 1 THEN Null ELSE Link(sets[h], i)
           written == [i \in 1 .. n |-> Pset(i, Offset(sizes, i), sizes[i], link(i), i = n)]
           items == [i \in 1 .. n |-> Item(i, Offset(sizes, i), sizes[i])]
<1>0. /\ DOMAIN sizes = 1 .. n /\ n = m /\ n \in Nat /\ sizes \in Seq(Nat)
      /\ \A i \in 1 .. n : sizes[i] \in Size[h] /\ sizes[i] \in Nat
    <2>1. \A i \in 1 .. m : sizes[i] \in Size[h] /\ sizes[i] \in Nat
        BY Sized
    <2>2. sizes \in [1 .. m -> Nat] /\ n = m
        BY <2>1
    <2> QED BY <2>1, <2>2
<1>1. /\ kind[h] = "linked" /\ phase[h] = "ready" /\ preset[h] = 0 /\ n \in 1 .. Len(sets[h])
      /\ \A i \in 1 .. n : Movable(sizes[i])
      /\ Program(sets[h], written, items)
      /\ phase' = [phase EXCEPT ![h] = "gather"]
      /\ sets' = sets /\ kind' = kind /\ preset' = preset /\ kicks' = kicks
    BY <1>0 DEF StartGather, Gathered, Unclobbered
<1>2. /\ sets[h] \in Seq(Phys \cup Logic) /\ Len(sets[h]) \in Nat \ {0} /\ Exclusive(h, sets[h])
      /\ sets[h] # <<>> /\ 1 \in 1 .. Len(sets[h])
    BY <1>1, Having
<1>3. HandlesTyped' /\ Others(h) /\ phase'[h] = "gather" /\ kind'[h] = "linked"
    BY <1>1 DEF IInv, Typed, TypeOK, HandlesTyped, Others, Phases
<1>4. ASSUME NEW i \in 1 .. n
      PROVE  /\ Pset(i, Offset(sizes, i), sizes[i], link(i), i = n) \in PaRAM
             /\ Item(i, Offset(sizes, i), sizes[i]) \in Transfer
             /\ Describes(Pset(i, Offset(sizes, i), sizes[i], link(i), i = n), i, n, sets[h], "linked",
                          Item(i, Offset(sizes, i), sizes[i]))
    <2> DEFINE last == i = n
               x == Pset(i, Offset(sizes, i), sizes[i], link(i), last)
    <2>0. /\ Offset(sizes, i) \in Nat /\ last \in BOOLEAN /\ i \in Nat /\ sizes[i] \in Size[h]
          /\ sizes[i] \in Nat /\ Movable(sizes[i])
        BY <1>0, <1>1, OffsetNat
    <2>1. link(i) \in Logic \cup {Null} /\ (i < n => link(i) = sets[h][i + 1])
        BY <1>0, <1>1, <1>2 DEF Link, Exclusive
    <2>6. last <=> i = n
        OBVIOUS
    <2> HIDE DEF n, link, last
    <2>2. x \in PaRAM
        BY <2>0, <2>1, Described
    <2>3. Item(i, Offset(sizes, i), sizes[i]) \in Transfer
        BY <2>0 DEF Item, Transfer
    <2>4. /\ x.a * x.b # 0 => Item(x.src, x.dst, x.a * x.b) = Item(i, Offset(sizes, i), sizes[i])
          /\ x.link = link(i) /\ (x.chain <=> ~last) /\ (x.intr <=> last)
        BY <2>0, Moves
    <2> HIDE DEF x
    <2>5. Describes(x, i, n, sets[h], "linked", Item(i, Offset(sizes, i), sizes[i]))
        BY <1>0, <2>1, <2>4, <2>6 DEF Describes
    <2> QED BY <2>2, <2>3, <2>5 DEF x, last
<1> HIDE DEF n, link
<1>5. /\ written \in [1 .. n -> PaRAM] /\ items \in Seq(Transfer) /\ Len(items) = n
      /\ \A i \in 1 .. n : Describes(written[i], i, n, sets[h], kind'[h], items[i])
    BY <1>0, <1>3, <1>4
<1>6. Usage(h)' /\ Preset(h)'
    BY <1>1, <1>3 DEF Usage, Preset
<1> HIDE DEF written, items
<1> QED BY <1>1, <1>2, <1>3, <1>5, <1>6, Starting

\* Two sets that agree in every field are the same.
LEMMA SameSet ==
    ASSUME NEW x \in PaRAM, NEW y \in PaRAM, x.src = y.src, x.dst = y.dst, x.a = y.a, x.b = y.b,
           x.link = y.link, x.chain = y.chain, x.intr = y.intr
    PROVE  x = y
BY DEF PaRAM

\* A set without its buffers.
LEMMA BareSet ==
    ASSUME NEW x \in PaRAM
    PROVE  /\ Bare(x) \in PaRAM /\ Bare(x).src = 0 /\ Bare(x).dst = 0
           /\ Bare(x).a = x.a /\ Bare(x).b = x.b
           /\ Bare(x).link = x.link /\ Bare(x).chain = x.chain /\ Bare(x).intr = x.intr
BY DEF PaRAM, Bare

\* The fields of a preloaded set but for the buffers.
LEMMA ButForBuffers ==
    ASSUME NEW x \in PaRAM, NEW size, NEW link
    PROVE  Bare(x) = Pset(0, 0, size, link, FALSE)
              <=> /\ x.a = Acnt(size) /\ x.b = Bcnt(size) /\ x.link = link
                  /\ x.chain = TRUE /\ x.intr = FALSE
<1> DEFINE z == Pset(0, 0, size, link, FALSE)
<1>2. /\ z.src = 0 /\ z.dst = 0 /\ z.a = Acnt(size) /\ z.b = Bcnt(size) /\ z.link = link
      /\ z.chain = TRUE /\ z.intr = FALSE
    BY DEF Pset
<1>3. ASSUME x.a = Acnt(size), x.b = Bcnt(size), x.link = link PROVE z \in PaRAM
    BY <1>3 DEF Pset, PaRAM
<1> HIDE DEF z
<1>4. Bare(x) = z <=> /\ x.a = Acnt(size) /\ x.b = Bcnt(size) /\ x.link = link
                /\ x.chain = TRUE /\ x.intr = FALSE
    <2>1. ASSUME Bare(x) = z
          PROVE  x.a = Acnt(size) /\ x.b = Bcnt(size) /\ x.link = link /\ x.chain = TRUE /\ x.intr = FALSE
        BY <1>2, <2>1, BareSet
    <2>2. ASSUME x.a = Acnt(size), x.b = Bcnt(size), x.link = link, x.chain = TRUE, x.intr = FALSE
          PROVE  Bare(x) = z
        <3>1. z \in PaRAM
            BY <1>3, <2>2
        <3>2. /\ Bare(x) \in PaRAM /\ Bare(x).src = z.src /\ Bare(x).dst = z.dst /\ Bare(x).a = z.a
              /\ Bare(x).b = z.b /\ Bare(x).link = z.link
            BY <1>2, <2>2, BareSet
        <3>3. Bare(x).chain = z.chain /\ Bare(x).intr = z.intr
            BY <1>2, <2>2, BareSet
        <3> QED BY <3>1, <3>2, <3>3, SameSet
    <2> QED BY <2>1, <2>2
<1> QED BY <1>4 DEF z

\* What a step changes only in the sets of h does not concern the other handles.
LEMMA OthersAlone ==
    ASSUME IInv, NEW h \in Handle, Others(h),
           \A t \in Phys \cup Logic : t \notin Elems(sets[h]) => param'[t] = param[t],
           \A p \in Phys : p \notin Elems(sets[h]) =>
               /\ inflight'[p] = inflight[p] /\ asked'[p] = asked[p] /\ log'[p] = log[p]
               /\ (p \in trig' <=> p \in trig) /\ (p \in ipr' <=> p \in ipr)
    PROVE  \A k \in Handle \ {h} : Alone(k)
<1> SUFFICES ASSUME NEW k \in Handle \ {h} PROVE Alone(k)
    OBVIOUS
<1>1. ASSUME NEW i \in 1 .. Len(sets[k])
      PROVE  sets[k][i] \in Phys \cup Logic /\ sets[k][i] \notin Elems(sets[h])
    <2>1. sets[k][i] \in Elems(sets[k]) /\ sets[k][i] \in Phys \cup Logic
        BY DEF Elems, IInv, Typed, TypeOK
    <2> QED BY <2>1 DEF IInv, Typed, TypeOK
<1>2. kind[k] # "none" => 1 \in 1 .. Len(sets[k]) /\ sets[k][1] \in Phys
    BY HasChannel DEF IInv
<1> QED BY <1>1, <1>2 DEF Alone, Others

\* A gather on a preloaded channel: what is not written is as it was preloaded.
LEMMA StartGatherPreloadedStep ==
    ASSUME IInv, Runs, ExactOrEmpty, NEW h \in Handle, NEW cnt \in Nat, StartGatherPreloaded(h, cnt)
    PROVE  IInv'
<1> DEFINE s == sets[h]  size == preset[h]
           sizes == [i \in 1 .. cnt |-> size]
           written == [i \in 1 .. cnt |-> PreloadedSet(h, i, cnt)]
           items == [i \in 1 .. cnt |-> Item(i, (i - 1) * size, size)]
<1>0. /\ phase[h] = "ready" /\ size # 0 /\ kind[h] = "linked" /\ size \in Size[h] /\ Movable(size)
      /\ size \in Nat /\ cnt \in 1 .. Len(s)
      /\ phase' = [phase EXCEPT ![h] = "preloaded"] /\ kicks' = [kicks EXCEPT ![h] = cnt]
      /\ sets' = sets /\ kind' = kind /\ preset' = preset
    BY Sized DEF StartGatherPreloaded, IInv, Usage
<1>1. /\ s \in Seq(Phys \cup Logic) /\ Len(s) \in Nat \ {0} /\ Exclusive(h, s)
      /\ s # <<>> /\ 1 \in 1 .. Len(s)
    BY <1>0, Having
<1>2. Gathered(sizes) = items
    <2>1. \A i \in 1 .. cnt : Offset(sizes, i) = (i - 1) * size
        BY <1>0, OffsetConst
    <2> QED BY <2>1 DEF Gathered
<1>3. Program(s, written, items)
    BY <1>2 DEF StartGatherPreloaded
<1>4. HandlesTyped' /\ Others(h) /\ phase'[h] = "preloaded" /\ kind'[h] = "linked" /\ kicks'[h] = cnt
    BY <1>0 DEF IInv, Typed, TypeOK, HandlesTyped, Others, Phases
<1>5. ASSUME NEW i \in 1 .. Len(s)
      PROVE  /\ param[s[i]] \in PaRAM /\ param[s[i]].a = Acnt(size) /\ param[s[i]].b = Bcnt(size)
             /\ param[s[i]].link = Link(s, i) /\ param[s[i]].chain = TRUE /\ param[s[i]].intr = FALSE
    <2>1. Bare(param[s[i]]) = Pset(0, 0, size, Link(s, i), FALSE)
        BY <1>0, <1>1 DEF IInv, Preset, Preloaded
    <2>2. param[s[i]] \in PaRAM
        <3>1. s[i] \in Phys \cup Logic
            BY <1>1
        <3> QED BY <3>1 DEF IInv, Typed
    <2> HIDE DEF s, size
    <2> DEFINE x == param[s[i]]
    <2>3. x \in PaRAM /\ Bare(x) = Pset(0, 0, size, Link(s, i), FALSE)
        BY <2>1, <2>2
    <2> HIDE DEF x
    <2>4. x.a = Acnt(size) /\ x.b = Bcnt(size) /\ x.link = Link(s, i) /\ x.chain = TRUE /\ x.intr = FALSE
        BY <2>3, ButForBuffers
    <2> QED BY <2>3, <2>4 DEF x
<1>6. ASSUME NEW i \in 1 .. cnt
      PROVE  /\ written[i] \in PaRAM /\ Item(i, (i - 1) * size, size) \in Transfer
             /\ Describes(written[i], i, cnt, s, "linked", Item(i, (i - 1) * size, size))
             /\ i # cnt => Bare(written[i]) = Preloaded(h, i)
    <2> DEFINE x == written[i]  dst == (i - 1) * size  r == param[s[i]]
    <2>0. dst \in Nat /\ i \in Nat /\ i \in 1 .. Len(s)
        BY <1>0
    <2>1. Item(i, dst, size) \in Transfer
        BY <1>0, <2>0 DEF Item, Transfer
    <2>2. r \in PaRAM /\ r.a = Acnt(size) /\ r.b = Bcnt(size) /\ r.link = Link(s, i)
          /\ r.chain = TRUE /\ r.intr = FALSE
        BY <1>5, <2>0
    <2>3. x = IF i < cnt THEN [r EXCEPT !.src = i, !.dst = dst]
              ELSE [r EXCEPT !.src = i, !.dst = dst, !.link = Null, !.chain = FALSE, !.intr = TRUE]
        BY DEF PreloadedSet
    <2> HIDE DEF x, dst, r
    <2>9. /\ x \in PaRAM /\ x.src = i /\ x.dst = dst /\ x.a = r.a /\ x.b = r.b
          /\ i < cnt => x.link = r.link /\ x.chain = r.chain /\ x.intr = r.intr
          /\ i = cnt => x.link = Null /\ x.chain = FALSE /\ x.intr = TRUE
        <3>1. CASE i < cnt
            <4>1. x = [r EXCEPT !.src = i, !.dst = dst]
                BY <2>3, <3>1
            <4>2. /\ x \in PaRAM /\ x.src = i /\ x.dst = dst /\ x.a = r.a /\ x.b = r.b
                  /\ x.link = r.link /\ x.chain = r.chain /\ x.intr = r.intr
                BY <2>0, <2>2, <4>1 DEF PaRAM
            <4> QED BY <3>1, <4>2
        <3>2. CASE i = cnt
            <4>1. x = [r EXCEPT !.src = i, !.dst = dst, !.link = Null, !.chain = FALSE, !.intr = TRUE]
                BY <2>3, <3>2
            <4>2. x.src = i /\ x.dst = dst /\ x.a = r.a /\ x.b = r.b
                BY <2>0, <2>2, <4>1 DEF PaRAM
            <4>3. x.link = Null /\ x.chain = FALSE /\ x.intr = TRUE
                BY <2>0, <2>2, <4>1 DEF PaRAM
            <4>4. x \in PaRAM
                BY <2>0, <2>2, <4>1 DEF PaRAM
            <4> QED BY <3>2, <4>2, <4>3, <4>4
        <3>3. i < cnt \/ i = cnt
            BY <2>0
        <3> QED BY <3>1, <3>2, <3>3
    <2>4. /\ x \in PaRAM /\ x.src = i /\ x.dst = dst /\ x.a = Acnt(size) /\ x.b = Bcnt(size)
          /\ i < cnt => x.link = Link(s, i) /\ x.chain = TRUE /\ x.intr = FALSE
          /\ i = cnt => x.link = Null /\ x.chain = FALSE /\ x.intr = TRUE
        BY <2>2, <2>9
    <2>5. x.a * x.b # 0 => Item(x.src, x.dst, x.a * x.b) = Item(i, dst, size)
        <3>1. Acnt(size) * Bcnt(size) \in {0, size}
            BY <1>0 DEF ExactOrEmpty
        <3> QED BY <2>4, <3>1
    <2>6. i < cnt => Link(s, i) = s[i + 1]
        BY <1>0, <1>1 DEF Link
    <2>7. Describes(x, i, cnt, s, "linked", Item(i, dst, size))
        BY <1>0, <2>4, <2>5, <2>6 DEF Describes
    <2>8. i # cnt => Bare(x) = Preloaded(h, i)
        <3>1. i # cnt => i < cnt
            BY <2>0
        <3>2. i < cnt => Bare(x) = Pset(0, 0, size, Link(s, i), FALSE)
            BY <2>4, ButForBuffers
        <3> QED BY <3>1, <3>2 DEF Preloaded
    <2> QED BY <2>1, <2>4, <2>7, <2>8 DEF x, dst
<1>7. /\ written \in [1 .. cnt -> PaRAM] /\ items \in Seq(Transfer) /\ Len(items) = cnt
      /\ \A i \in 1 .. cnt : Describes(written[i], i, cnt, s, kind'[h], items[i])
    <2>1. \A i \in 1 .. cnt : items[i] = Item(i, (i - 1) * size, size)
        OBVIOUS
    <2>2. items \in Seq(Transfer) /\ Len(items) = cnt
        <3>1. \A i \in 1 .. cnt : Item(i, (i - 1) * size, size) \in Transfer
            BY <1>6
        <3> QED BY <3>1
    <2>3. written = [i \in 1 .. cnt |-> written[i]]
        OBVIOUS
    <2> HIDE DEF written, items
    <2> QED BY <1>4, <1>6, <2>1, <2>2, <2>3
<1> HIDE DEF written, items
<1>8. /\ \A i \in 1 .. cnt : param'[s[i]] = written[i]
      /\ \A t \in Phys \cup Logic : (\A i \in 1 .. cnt : s[i] # t) => param'[t] = param[t]
      /\ asked'[s[1]] = items
    <2>1. Typed /\ s[1] \in Phys /\ \A i, j \in 1 .. Len(s) : s[i] = s[j] => i = j
        BY <1>1 DEF IInv, Exclusive
    <2>2. s \in Seq(Phys \cup Logic) /\ cnt \in 1 .. Len(s)
        BY <1>0, <1>1
    <2> HIDE DEF s, size
    <2> QED BY <1>3, <1>7, <2>1, <2>2, Programmed
<1>9. Usage(h)'
    BY <1>0, <1>4, <1>7, <1>8 DEF Usage, Channel
<1>10. Preset(h)'
    <2> SUFFICES ASSUME NEW i \in 1 .. Len(s), i # 1, i # cnt
                 PROVE  Bare(param'[s[i]]) = Preloaded(h, i)'
        BY <1>0, <1>4 DEF Preset
    <2>1. Preloaded(h, i)' = Preloaded(h, i)
        BY <1>0 DEF Preloaded
    <2>2. CASE i < cnt
        <3>1. i \in 1 .. cnt
            BY <1>0, <2>2
        <3>2. param'[s[i]] = written[i]
            BY <1>8, <3>1
        <3>3. Bare(written[i]) = Preloaded(h, i)
            BY <1>6, <3>1
        <3> QED BY <2>1, <3>2, <3>3
    <2>3. CASE i > cnt
        <3>1. \A j \in 1 .. cnt : s[j] # s[i]
            BY <1>0, <1>1, <2>3 DEF Exclusive
        <3>2. param'[s[i]] = param[s[i]]
            BY <1>1, <1>8, <3>1
        <3> QED BY <1>0, <2>1, <3>2 DEF IInv, Preset
    <2> QED BY <1>0, <2>2, <2>3
<1> QED BY <1>0, <1>1, <1>3, <1>4, <1>7, <1>9, <1>10, Starting

-----------------------------------------------------------------------------
(***************************************************************************)
(* Channels come and go.                                                   *)
(***************************************************************************)
\* preload_psets.
LEMMA PreloadPsetsStep ==
    ASSUME IInv, Runs, NEW h \in Handle, NEW size \in Size[h], PreloadPsets(h, size)
    PROVE  IInv'
<1> DEFINE s == sets[h]
           x(i) == Pset(0, 0, size, Link(s, i), FALSE)
           at(t) == CHOOSE i \in DOMAIN s : s[i] = t
<1>0. /\ kind[h] = "linked" /\ phase[h] = "ready" /\ Movable(size) /\ size \in Nat /\ size # 0
      /\ preset' = [preset EXCEPT ![h] = size]
      /\ param' = [t \in Phys \cup Logic |-> IF t \in Elems(s) THEN x(at(t)) ELSE param[t]]
      /\ sets' = sets /\ kind' = kind /\ phase' = phase /\ kicks' = kicks
      /\ trig' = trig /\ inflight' = inflight /\ ipr' = ipr /\ asked' = asked /\ log' = log
    BY Sized DEF PreloadPsets, engine
<1>1. /\ s \in Seq(Phys \cup Logic) /\ Len(s) \in Nat \ {0} /\ Exclusive(h, s)
      /\ s # <<>> /\ DOMAIN s = 1 .. Len(s)
    BY <1>0, Having
<1>2. \A t \in Elems(s) : at(t) \in 1 .. Len(s) /\ s[at(t)] = t
    BY <1>1 DEF Elems
<1> HIDE DEF at
<1>3. \A i \in 1 .. Len(s) : s[i] \in Elems(s) /\ at(s[i]) = i /\ s[i] \in Phys \cup Logic
    BY <1>1, <1>2 DEF Exclusive, Elems
<1>4. \A i \in 1 .. Len(s) : x(i) \in PaRAM
    <2> SUFFICES ASSUME NEW i \in 1 .. Len(s) PROVE x(i) \in PaRAM
        OBVIOUS
    <2>1. Link(s, i) \in Logic \cup {Null}
        BY <1>1 DEF Link, Exclusive
    <2> QED BY <1>0, <2>1, Described
<1> HIDE DEF x
<1>5. param' \in [Phys \cup Logic -> PaRAM]
    BY <1>0, <1>2, <1>4 DEF IInv, Typed
<1>6. \A i \in 1 .. Len(s) : param'[s[i]] = x(i)
    BY <1>0, <1>3
<1>7. HandlesTyped' /\ Others(h) /\ preset'[h] = size
    BY <1>0 DEF IInv, Typed, TypeOK, HandlesTyped, Others
<1>8. Typed'
    <2>1. \A k \in Handle \ {h} : Elems(sets'[h]) \cap Elems(sets[k]) = {}
        BY <1>0, <1>1 DEF Exclusive
    <2> QED BY <1>0, <1>5, <1>7, <2>1, StillTyped DEF IInv, Typed, TypeOK
<1>9. \A k \in Handle \ {h} : Alone(k)
    BY <1>0, <1>7, OthersAlone
<1>10. Granted(h)' /\ UnderWay(h)' /\ Usage(h)'
    BY <1>0, <1>7 DEF IInv, Granted, UnderWay, Usage
<1>11. Preset(h)'
    <2> SUFFICES ASSUME NEW i \in 1 .. Len(s)
                 PROVE  Bare(param'[s[i]]) = Preloaded(h, i)'
        BY <1>0 DEF Preset
    <2>1. Preloaded(h, i)' = x(i)
        BY <1>0, <1>7 DEF Preloaded, x
    <2>2. Bare(x(i)) = x(i)
        <3>1. x(i) \in PaRAM /\ x(i).src = 0 /\ x(i).dst = 0
            BY <1>4 DEF x, Pset
        <3> QED BY <3>1, BareSet, SameSet
    <2> QED BY <1>6, <2>1, <2>2
<1> QED BY <1>0, <1>8, <1>9, <1>10, <1>11, Assembled

\* A handle gets sets, which hold what was left in them.
LEMMA Allocation ==
    ASSUME IInv, Runs, NEW h \in Handle, kind[h] = "none", NEW n \in Nat, NEW s \in Grants(n),
           NEW k \in {"linked", "plain"}, Take(h, s, k),
           UNCHANGED <<preset, phase, kicks, param, engine, asked, log>>
    PROVE  IInv'
<1>1. s \in Seq(Phys \cup Logic) /\ s # <<>> /\ Exclusive(h, s)
    BY Granting DEF IInv
<1>2. /\ sets' = [sets EXCEPT ![h] = s] /\ kind' = [kind EXCEPT ![h] = k]
      /\ preset' = preset /\ phase' = phase /\ kicks' = kicks /\ param' = param
      /\ trig' = trig /\ inflight' = inflight /\ ipr' = ipr /\ asked' = asked /\ log' = log
    BY DEF Take, engine
<1>3. HandlesTyped' /\ Others(h) /\ sets'[h] = s /\ kind'[h] = k /\ phase[h] = "ready" /\ preset[h] = 0
    BY <1>1, <1>2 DEF IInv, Typed, TypeOK, HandlesTyped, Others, Kinds, Usage
<1>4. Typed'
    BY <1>1, <1>2, <1>3, StillTyped DEF IInv, Typed, TypeOK, Exclusive
<1>5. \A j \in Handle \ {h} : Alone(j)
    BY <1>2, <1>3, OthersAlone
<1>6. Granted(h)'
    BY <1>1, <1>3 DEF Granted, Exclusive
<1>7. UnderWay(h)' /\ Usage(h)' /\ Preset(h)'
    BY <1>2, <1>3 DEF UnderWay, Usage, Preset
<1> QED BY <1>2, <1>3, <1>4, <1>5, <1>6, <1>7, Assembled

\* A channel, with or without sets to link to.
LEMMA AllocateStep ==
    ASSUME IInv, Runs, NEW h \in Handle,
           (\E n \in 1 .. MaxCnt[h] - 1 : AllocateChannelLinked(h, n)) \/ AllocateChannel(h)
    PROVE  IInv'
<1>1. ASSUME NEW n \in 1 .. MaxCnt[h] - 1, AllocateChannelLinked(h, n) PROVE IInv'
    <2>1. PICK s \in Grants(n) : Take(h, s, "linked")
        BY <1>1 DEF AllocateChannelLinked
    <2>2. kind[h] = "none" /\ UNCHANGED <<preset, phase, kicks, param, engine, asked, log>> /\ n \in Nat
        BY <1>1, Sized DEF AllocateChannelLinked
    <2> QED BY <2>1, <2>2, Allocation
<1>2. ASSUME AllocateChannel(h) PROVE IInv'
    <2>1. PICK s \in Grants(0) : Take(h, s, "plain")
        BY <1>2 DEF AllocateChannel
    <2>2. kind[h] = "none" /\ UNCHANGED <<preset, phase, kicks, param, engine, asked, log>> /\ 0 \in Nat
        BY <1>2 DEF AllocateChannel
    <2> QED BY <2>1, <2>2, Allocation
<1> QED BY <1>1, <1>2

\* What is left in the sets after a call, or when they are given back.
LEMMA Leaving ==
    ASSUME Typed, NEW h \in Handle, LeaveSets(h)
    PROVE  /\ param' \in [Phys \cup Logic -> PaRAM]
           /\ \A t \in Phys \cup Logic : t \notin Elems(sets[h]) => param'[t] = param[t]
<1>1. \A r \in PaRAM : Leftover(r) \in PaRAM
    BY DEF Leftover, PaRAM, NullSet
<1> QED BY <1>1 DEF LeaveSets, Typed

\* A channel is given back.
LEMMA FreeChannelStep ==
    ASSUME IInv, Runs, NEW h \in Handle, FreeChannel(h)
    PROVE  IInv'
<1>1. /\ sets' = [sets EXCEPT ![h] = <<>>] /\ kind' = [kind EXCEPT ![h] = "none"]
      /\ preset' = [preset EXCEPT ![h] = 0] /\ phase' = phase /\ kicks' = kicks /\ phase[h] = "ready"
      /\ trig' = trig /\ inflight' = inflight /\ ipr' = ipr /\ asked' = asked /\ log' = log
      /\ LeaveSets(h)
    BY DEF FreeChannel, Release, engine
<1>2. HandlesTyped' /\ Others(h) /\ sets'[h] = <<>> /\ kind'[h] = "none" /\ preset'[h] = 0
    BY <1>1 DEF IInv, Typed, TypeOK, HandlesTyped, Others, Kinds
<1>3. /\ param' \in [Phys \cup Logic -> PaRAM]
      /\ \A t \in Phys \cup Logic : t \notin Elems(sets[h]) => param'[t] = param[t]
    BY <1>1, Leaving DEF IInv
<1>4. Typed'
    <2>1. Elems(<<>>) = {}
        BY DEF Elems
    <2> QED BY <1>1, <1>2, <1>3, <2>1, StillTyped DEF IInv, Typed, TypeOK
<1>5. \A k \in Handle \ {h} : Alone(k)
    BY <1>1, <1>2, <1>3, OthersAlone
<1>6. Granted(h)' /\ UnderWay(h)' /\ Usage(h)' /\ Preset(h)'
    <2>1. Len(<<>>) = 0 /\ 1 .. 0 = {} /\ 2 .. 0 = {}
        OBVIOUS
    <2>2. Granted(h)'
        BY <1>2, <2>1 DEF Granted
    <2> QED BY <1>1, <1>2, <2>2 DEF UnderWay, Usage, Preset
<1> QED BY <1>1, <1>4, <1>5, <1>6, Assembled

-----------------------------------------------------------------------------
(***************************************************************************)
(* A call comes to its end.                                                *)
(***************************************************************************)
\* A call ends: the engine has reported, so it is at rest.
LEMMA Ending ==
    ASSUME IInv, Runs, NEW h \in Handle, phase[h] # "ready", Over(h), HandlesTyped', Others(h),
           kind'[h] = "none" <=> sets'[h] = <<>>, sets'[h] \in {sets[h], <<>>},
           param' \in [Phys \cup Logic -> PaRAM],
           \A t \in Phys \cup Logic : t \notin Elems(sets[h]) => param'[t] = param[t],
           Usage(h)', Preset(h)'
    PROVE  IInv'
<1> DEFINE p == sets[h][1]
<1>1. /\ kind[h] # "none" /\ p \in Phys /\ p = Channel(h) /\ p \in Elems(sets[h]) /\ Engine(h) /\ Granted(h)
    <2>1. kind[h] # "none" /\ Usage(h) /\ Granted(h) /\ UnderWay(h) /\ Typed
        BY DEF IInv, Usage
    <2>2. /\ sets[h] \in Seq(Phys \cup Logic) /\ 1 \in 1 .. Len(sets[h])
          /\ Channel(h) \in Phys /\ Channel(h) = sets[h][1]
        BY <2>1, HasChannel
    <2>3. sets[h][1] \in Elems(sets[h])
        BY <2>2 DEF Elems
    <2> QED BY <2>1, <2>2, <2>3 DEF UnderWay
<1>2. /\ p \in ipr /\ ipr' = ipr \ {p} /\ phase' = [phase EXCEPT ![h] = "ready"]
      /\ asked' = [asked EXCEPT ![p] = <<>>] /\ log' = [log EXCEPT ![p] = <<>>]
      /\ trig' = trig /\ inflight' = inflight
    BY <1>1 DEF Over, Completed
<1>3. p \notin trig /\ inflight[p] = NullSet
    BY <1>1, <1>2 DEF Engine
<1> HIDE DEF p
<1>4. phase'[h] = "ready" /\ h \in Handle
    BY <1>2 DEF IInv, Typed, TypeOK
<1>5. /\ asked' \in [Phys -> Seq(Transfer)] /\ log' \in [Phys -> Seq(Transfer)]
      /\ \A q \in Phys \ {p} : asked'[q] = asked[q] /\ log'[q] = log[q]
    <2>1. <<>> \in Seq(Transfer)
        OBVIOUS
    <2> QED BY <1>1, <1>2, <2>1 DEF IInv, Typed
<1>6. Typed'
    <2>1. Elems(<<>>) = {}
        BY DEF Elems
    <2>2. \A k \in Handle \ {h} : Elems(sets'[h]) \cap Elems(sets[k]) = {}
        BY <2>1 DEF IInv, Typed, TypeOK
    <2>3. trig' \subseteq Phys /\ ipr' \subseteq Phys /\ inflight' \in [Phys -> PaRAM]
        BY <1>2 DEF IInv, Typed, TypeOK
    <2> QED BY <1>5, <2>2, <2>3, StillTyped DEF IInv
<1>7. \A k \in Handle \ {h} : Alone(k)
    <2>1. \A q \in Phys : q \notin Elems(sets[h]) =>
               /\ inflight'[q] = inflight[q] /\ asked'[q] = asked[q] /\ log'[q] = log[q]
               /\ (q \in trig' <=> q \in trig) /\ (q \in ipr' <=> q \in ipr)
        BY <1>1, <1>2, <1>5
    <2> QED BY <2>1, OthersAlone
<1>8. Granted(h)'
    <2>1. Len(<<>>) = 0 /\ 1 .. 0 = {} /\ 2 .. 0 = {}
        OBVIOUS
    <2> QED BY <1>1, <2>1 DEF Granted
<1>9. UnderWay(h)'
    BY <1>4 DEF UnderWay
<1>10. \A q \in Phys : \/ q \notin trig' /\ q \notin ipr' /\ inflight'[q] = NullSet
                       \/ /\ ~(phase[h] # "ready" /\ q = sets[h][1])
                          /\ inflight'[q] = inflight[q]
                          /\ (q \in trig' <=> q \in trig) /\ (q \in ipr' <=> q \in ipr)
    BY <1>2, <1>3 DEF p
<1> QED BY <1>6, <1>7, <1>8, <1>9, <1>10, Assembled

\* The waits of a channel that is kept.
LEMMA KeptStep ==
    ASSUME IInv, Runs, NEW h \in Handle, WaitXfer1(h) \/ WaitGather(h)
    PROVE  IInv'
<1>1. /\ phase[h] \in {"xfer", "gather"} /\ Over(h) /\ LeaveSets(h) /\ phase' = [phase EXCEPT ![h] = "ready"]
      /\ sets' = sets /\ kind' = kind /\ preset' = preset /\ kicks' = kicks
      /\ kind[h] \in {"linked", "plain"}
    BY DEF WaitXfer1, WaitGather, Over, IInv, Usage
<1>2. preset[h] = 0 /\ Typed
    BY <1>1 DEF IInv, Usage
<1>3. HandlesTyped' /\ Others(h) /\ phase'[h] = "ready"
    BY <1>1, <1>2 DEF Typed, TypeOK, HandlesTyped, Others, Phases
<1>4. Usage(h)' /\ Preset(h)'
    BY <1>1, <1>2, <1>3 DEF Usage, Preset
<1>5. /\ param' \in [Phys \cup Logic -> PaRAM]
      /\ \A t \in Phys \cup Logic : t \notin Elems(sets[h]) => param'[t] = param[t]
    BY <1>1, <1>2, Leaving
<1>6. kind'[h] = "none" <=> sets'[h] = <<>>
    BY <1>1, <1>2 DEF Typed, TypeOK
<1> QED BY <1>1, <1>3, <1>4, <1>5, <1>6, Ending

\* The waits that give the channel back.
LEMMA GivenBackStep ==
    ASSUME IInv, Runs, NEW h \in Handle, WaitXfer(h) \/ FinishMultiple(h) \/ FinishSelfChaining(h)
    PROVE  IInv'
<1>1. /\ kind[h] \in {"once", "multiple", "selfchain"} /\ Over(h) /\ LeaveSets(h)
      /\ phase' = [phase EXCEPT ![h] = "ready"]
      /\ sets' = [sets EXCEPT ![h] = <<>>] /\ kind' = [kind EXCEPT ![h] = "none"]
      /\ preset' = [preset EXCEPT ![h] = 0] /\ kicks' = kicks
    BY DEF WaitXfer, FinishMultiple, FinishSelfChaining, Over, Release
<1>2. phase[h] = "xfer" /\ Typed
    BY <1>1 DEF IInv, Usage
<1>3. /\ HandlesTyped' /\ Others(h) /\ phase'[h] = "ready" /\ kind'[h] = "none" /\ sets'[h] = <<>>
      /\ preset'[h] = 0
    BY <1>1, <1>2 DEF Typed, TypeOK, HandlesTyped, Others, Phases, Kinds
<1>4. Usage(h)' /\ Preset(h)'
    BY <1>3 DEF Usage, Preset
<1>5. /\ param' \in [Phys \cup Logic -> PaRAM]
      /\ \A t \in Phys \cup Logic : t \notin Elems(sets[h]) => param'[t] = param[t]
    BY <1>1, <1>2, Leaving
<1> QED BY <1>1, <1>2, <1>3, <1>4, <1>5, Ending

\* The wait of a preloaded channel restores the two sets that are not as they were.
LEMMA WaitGatherPreloadedStep ==
    ASSUME IInv, Runs, NEW h \in Handle, WaitGatherPreloaded(h)
    PROVE  IInv'
<1> DEFINE s == sets[h]
           at(t) == CHOOSE i \in DOMAIN s : s[i] = t
<1>1. /\ phase[h] = "preloaded" /\ Over(h) /\ phase' = [phase EXCEPT ![h] = "ready"]
      /\ param' = [t \in Phys \cup Logic |-> IF Restored(h, t) THEN Preloaded(h, at(t)) ELSE param[t]]
      /\ kicks' = [kicks EXCEPT ![h] = 0]
      /\ sets' = sets /\ kind' = kind /\ preset' = preset
    BY DEF WaitGatherPreloaded, Over
<1>2. /\ Typed /\ kind[h] = "linked" /\ preset[h] # 0 /\ preset[h] \in Size[h] /\ Movable(preset[h])
      /\ preset[h] \in Nat /\ Progress(h)
    BY <1>1, Sized DEF IInv, Usage, UnderWay
<1>3. /\ s \in Seq(Phys \cup Logic) /\ Len(s) \in Nat \ {0} /\ Exclusive(h, s)
      /\ s # <<>> /\ DOMAIN s = 1 .. Len(s) /\ 1 \in 1 .. Len(s)
    BY <1>2, Having
<1>4. kicks[h] \in 1 .. Len(s)
    BY <1>1, <1>2 DEF IInv, Usage, Progress
<1>5. \A i \in 1 .. Len(s) : at(s[i]) = i /\ s[i] \in Phys \cup Logic /\ s[i] \in Elems(s)
    BY <1>3 DEF Exclusive, Elems
<1> HIDE DEF at
<1>6. ASSUME NEW i \in 1 .. Len(s)
      PROVE  Preloaded(h, i) \in PaRAM /\ Bare(Preloaded(h, i)) = Preloaded(h, i)
    <2>1. Link(s, i) \in Logic \cup {Null}
        BY <1>3 DEF Link, Exclusive
    <2>2. Preloaded(h, i) \in PaRAM
        BY <1>2, <2>1, Described DEF Preloaded
    <2>3. Preloaded(h, i).src = 0 /\ Preloaded(h, i).dst = 0
        BY DEF Preloaded, Pset
    <2> QED BY <2>2, <2>3, BareSet, SameSet
<1>7. \A t : Restored(h, t) => t = s[1] \/ t = s[kicks[h]]
    BY DEF Restored
<1>8. /\ param' \in [Phys \cup Logic -> PaRAM]
      /\ \A t \in Phys \cup Logic : t \notin Elems(s) => param'[t] = param[t]
    <2>1. ASSUME NEW t \in Phys \cup Logic
          PROVE  (IF Restored(h, t) THEN Preloaded(h, at(t)) ELSE param[t]) \in PaRAM
        <3>1. CASE Restored(h, t)
            <4>1. PICK i \in 1 .. Len(s) : t = s[i]
                BY <1>3, <1>4, <1>7, <3>1
            <4> QED BY <1>5, <1>6, <3>1, <4>1
        <3>2. CASE ~Restored(h, t)
            BY <1>2, <3>2 DEF Typed
        <3> QED BY <3>1, <3>2
    <2>2. \A t : Restored(h, t) => t \in Elems(s)
        BY <1>3, <1>4, <1>5, <1>7
    <2> QED BY <1>1, <2>1, <2>2
<1>9. HandlesTyped' /\ Others(h) /\ phase'[h] = "ready" /\ kicks'[h] = 0
    BY <1>1, <1>2 DEF Typed, TypeOK, HandlesTyped, Others, Phases
<1>10. Usage(h)'
    BY <1>1, <1>2, <1>9 DEF Usage
<1>11. Preset(h)'
    <2> SUFFICES ASSUME NEW i \in 1 .. Len(s) PROVE Bare(param'[s[i]]) = Preloaded(h, i)'
        BY <1>1 DEF Preset
    <2>1. Preloaded(h, i)' = Preloaded(h, i)
        BY <1>1 DEF Preloaded
    <2>2. CASE i \in {1, kicks[h]}
        <3>1. Restored(h, s[i])
            BY <2>2 DEF Restored
        <3>2. param'[s[i]] = Preloaded(h, i)
            BY <1>1, <1>5, <3>1
        <3> QED BY <1>6, <2>1, <3>2
    <2>3. CASE i \notin {1, kicks[h]}
        <3>1. ~Restored(h, s[i])
            BY <1>3, <1>4, <1>7, <2>3 DEF Exclusive
        <3>2. param'[s[i]] = param[s[i]]
            BY <1>1, <1>5, <3>1
        <3>3. Bare(param[s[i]]) = Preloaded(h, i)
            BY <1>2, <2>3 DEF IInv, Preset
        <3> QED BY <2>1, <3>2, <3>3
    <2> QED BY <2>2, <2>3
<1>12. kind'[h] = "none" <=> sets'[h] = <<>>
    BY <1>1, <1>2 DEF Typed, TypeOK
<1> QED BY <1>1, <1>8, <1>9, <1>10, <1>11, <1>12, Ending

\* The channel of edma3_start_xfer_multiple is triggered again.
LEMMA KickMultipleStep ==
    ASSUME IInv, Runs, NEW h \in Handle, KickMultiple(h)
    PROVE  IInv'
<1> DEFINE p == sets[h][1]
<1>0. kind[h] = "multiple" /\ kicks[h] > 0 /\ kicks[h] \in Nat /\ phase[h] = "xfer" /\ Typed
    BY DEF KickMultiple, IInv, Usage, Typed, TypeOK
<1>1. /\ sets[h] \in Seq(Phys \cup Logic) /\ p \in Phys /\ p = Channel(h) /\ p \in Elems(sets[h])
      /\ Progress(h) /\ Engine(h) /\ Granted(h) /\ Preset(h) /\ Usage(h)
    <2>1. Usage(h) /\ Granted(h) /\ UnderWay(h) /\ Preset(h)
        BY DEF IInv
    <2>2. /\ sets[h] \in Seq(Phys \cup Logic) /\ 1 \in 1 .. Len(sets[h])
          /\ Channel(h) \in Phys /\ Channel(h) = sets[h][1]
        BY <1>0, <2>1, HasChannel
    <2>3. sets[h][1] \in Elems(sets[h])
        BY <2>2 DEF Elems
    <2> QED BY <1>0, <2>1, <2>2, <2>3 DEF UnderWay
<1>2. /\ p \in ipr /\ ipr' = ipr \ {p} /\ trig' = trig \cup {p}
      /\ kicks' = [kicks EXCEPT ![h] = kicks[h] - 1]
      /\ sets' = sets /\ kind' = kind /\ preset' = preset /\ phase' = phase /\ param' = param
      /\ inflight' = inflight /\ asked' = asked /\ log' = log
    BY <1>1 DEF KickMultiple, Completed
<1> HIDE DEF p
<1>3. HandlesTyped' /\ Others(h) /\ kicks'[h] = kicks[h] - 1
    BY <1>0, <1>2 DEF Typed, TypeOK, HandlesTyped, Others
<1>4. Typed'
    <2>1. trig' \subseteq Phys /\ ipr' \subseteq Phys
        BY <1>0, <1>1, <1>2 DEF Typed, TypeOK
    <2> QED BY <1>0, <1>2, <1>3, <2>1, StillTyped DEF Typed, TypeOK
<1>5. \A k \in Handle \ {h} : Alone(k)
    <2>1. \A q \in Phys : q \notin Elems(sets[h]) =>
               /\ inflight'[q] = inflight[q] /\ asked'[q] = asked[q] /\ log'[q] = log[q]
               /\ (q \in trig' <=> q \in trig) /\ (q \in ipr' <=> q \in ipr)
        BY <1>1, <1>2
    <2> QED BY <1>2, <1>3, <2>1, OthersAlone
<1>6. Granted(h)' /\ Usage(h)'
    BY <1>0, <1>1, <1>2 DEF Granted, Usage
<1>7. Preset(h)'
    BY <1>0, <1>1, <1>2 DEF Preset, Usage
<1>8. UnderWay(h)'
    <2>1. Channel(h)' = Channel(h) /\ Loaded(h)' = Loaded(h)
        BY <1>2 DEF Channel, Loaded
    <2>7. ~Endless(h)'
        BY <1>0, <1>2 DEF Endless
    <2>2. \A x, i : Serves(h, x, i)' <=> Serves(h, x, i)
        BY <1>2, <2>1 DEF Serves, Describes
    <2>3. Progress(h)'
        BY <1>1, <1>2, <2>1, <2>2, <2>7 DEF Progress
    <2>4. Len(asked[p]) \in Nat /\ Len(log[p]) \in Nat
        BY <1>0, <1>1 DEF Typed
    <2>5. p \notin trig /\ inflight[p] = NullSet /\ kicks[h] = Len(asked[p]) - Len(log[p])
        BY <1>0, <1>1, <1>2 DEF Engine
    <2>6. Engine(h)'
        <3>1. /\ inflight'[p] = NullSet /\ p \notin ipr' /\ Len(log'[p]) < Len(asked'[p])
              /\ kicks'[h] = Len(asked'[p]) - Len(log'[p]) - 1 /\ kind'[h] = "multiple"
            <4>1. asked'[p] = asked[p] /\ log'[p] = log[p]
                BY <1>2
            <4>2. inflight'[p] = NullSet /\ p \notin ipr' /\ kind'[h] = "multiple"
                BY <1>0, <1>2, <2>5
            <4>3. PICK all \in Nat, done \in Nat : all = Len(asked[p]) /\ done = Len(log[p])
                BY <2>4
            <4>4. kicks[h] = all - done
                BY <2>5, <4>3
            <4>5. done < all
                BY <1>0, <4>4
            <4>6. kicks'[h] = all - done - 1
                BY <1>3, <4>4
            <4> QED BY <4>1, <4>2, <4>3, <4>5, <4>6
        <3>2. Channel(h)' = p
            BY <1>1, <2>1
        <3> QED BY <3>1, <3>2 DEF Engine
    <2> QED BY <2>3, <2>6 DEF UnderWay
<1>9. \A q \in Phys : \/ phase'[h] # "ready" /\ q = sets'[h][1]
                      \/ /\ ~(phase[h] # "ready" /\ q = sets[h][1])
                         /\ inflight'[q] = inflight[q]
                         /\ (q \in trig' <=> q \in trig) /\ (q \in ipr' <=> q \in ipr)
    BY <1>0, <1>2 DEF p
<1> QED BY <1>4, <1>5, <1>6, <1>7, <1>8, <1>9, Assembled

-----------------------------------------------------------------------------
(***************************************************************************)
(* The engine.                                                             *)
(***************************************************************************)
\* What is under way on channel p, which does something.
LEMMA AtWork ==
    ASSUME IInv, NEW p \in Phys, p \in trig \/ inflight[p] # NullSet
    PROVE  \E h \in Handle :
             /\ phase[h] # "ready" /\ kind[h] # "none" /\ p = Channel(h) /\ p = sets[h][1]
             /\ sets[h] \in Seq(Phys \cup Logic) /\ p \in Elems(sets[h])
             /\ Progress(h) /\ Engine(h) /\ Granted(h) /\ Usage(h) /\ Preset(h)
             /\ Len(sets[h]) \in Nat \ {0} /\ Len(asked[p]) \in Nat /\ Len(log[p]) \in Nat
<1>1. PICK h \in Handle : phase[h] # "ready" /\ p = Channel(h)
    BY DEF IInv, QuietWhenIdle
<1>2. kind[h] # "none" /\ Usage(h) /\ Granted(h) /\ UnderWay(h) /\ Typed /\ Preset(h)
    BY <1>1 DEF IInv, Usage
<1>3. /\ sets[h] \in Seq(Phys \cup Logic) /\ 1 \in 1 .. Len(sets[h]) /\ Len(sets[h]) \in Nat \ {0}
      /\ Channel(h) = sets[h][1]
    BY <1>2, HasChannel
<1>4. p \in Elems(sets[h])
    BY <1>1, <1>3 DEF Elems
<1>5. Len(asked[p]) \in Nat /\ Len(log[p]) \in Nat
    BY <1>2 DEF Typed
<1> QED BY <1>1, <1>2, <1>3, <1>4, <1>5 DEF UnderWay

\* The engine loads a set: it is the next one of the call.
LEMMA TakeSetStep ==
    ASSUME IInv, Runs, NEW p \in Phys, TakeSet(p)
    PROVE  IInv'
<1>1. /\ p \in trig /\ inflight[p] = NullSet /\ trig' = trig \ {p}
      /\ sets' = sets /\ kind' = kind /\ preset' = preset /\ phase' = phase /\ kicks' = kicks
      /\ ipr' = ipr /\ asked' = asked /\ log' = log
    BY DEF TakeSet, handles
<1>2. PICK h \in Handle :
             /\ phase[h] # "ready" /\ kind[h] # "none" /\ p = Channel(h) /\ p = sets[h][1]
             /\ sets[h] \in Seq(Phys \cup Logic) /\ p \in Elems(sets[h])
             /\ Progress(h) /\ Engine(h) /\ Granted(h) /\ Usage(h) /\ Preset(h)
             /\ Len(sets[h]) \in Nat \ {0} /\ Len(asked[p]) \in Nat /\ Len(log[p]) \in Nat
    BY <1>1, AtWork
<1> DEFINE all == Len(asked[p])  done == Len(log[p])  x == param[p]
<1>3. Typed /\ x \in PaRAM
    BY DEF IInv, Typed
<1>4. /\ p \notin ipr /\ Loaded(h) = done + 1 /\ (done + 1 <= all => Serves(h, x, done + 1))
      /\ done < all \/ (Endless(h) /\ done = all /\ x = NullSet)
    BY <1>1, <1>2 DEF Progress, Engine, Loaded
<1>5. HandlesTyped' /\ Others(h)
    BY <1>1, <1>3 DEF Typed, TypeOK, HandlesTyped, Others
<1>6. Granted(h)' /\ Usage(h)'
    BY <1>1, <1>2 DEF Granted, Usage, Channel
<1>7. Channel(h)' = p /\ Endless(h)' = Endless(h) /\ \A y, i : Serves(h, y, i)' <=> Serves(h, y, i)
    BY <1>1, <1>2 DEF Serves, Describes, Channel, Endless
<1>8. trig' \subseteq Phys /\ ipr' \subseteq Phys
    BY <1>1, <1>3 DEF Typed, TypeOK
<1>9. ASSUME inflight' \in [Phys -> PaRAM], \A q \in Phys \ {p} : inflight'[q] = inflight[q],
             param' \in [Phys \cup Logic -> PaRAM],
             \A t \in (Phys \cup Logic) \ {p} : param'[t] = param[t],
             Loaded(h)' <= all => Serves(h, param'[p], Loaded(h)'),
             Endless(h) /\ Loaded(h)' > all => param'[p] = NullSet,
             inflight'[p] # NullSet => /\ done < all /\ inflight'[p].a * inflight'[p].b # 0
                                       /\ Serves(h, inflight'[p], done + 1)
      PROVE  IInv'
    <2>1. Typed'
        BY <1>1, <1>3, <1>5, <1>8, <1>9, StillTyped DEF Typed, TypeOK
    <2>2. \A k \in Handle \ {h} : Alone(k)
        BY <1>1, <1>2, <1>5, <1>9, OthersAlone
    <2>3. \A i \in 2 .. Len(sets[h]) : sets[h][i] \in (Phys \cup Logic) \ {p}
        BY <1>2, EdmaAssumption DEF Granted
    <2>4. Progress(h)'
        <3>1. /\ all \in 1 .. Len(sets[h]) /\ done <= all
              /\ \A i \in 1 .. done : log[p][i] = asked[p][i]
            BY <1>2 DEF Progress
        <3>2. \A i \in 2 .. all : param'[sets[h][i]] = param[sets[h][i]] /\ Serves(h, param[sets[h][i]], i)
            BY <1>2, <1>9, <2>3, <3>1 DEF Progress
        <3> QED BY <1>1, <1>7, <1>9, <3>1, <3>2 DEF Progress
    <2>5. Engine(h)'
        BY <1>1, <1>2, <1>4, <1>7, <1>9 DEF Engine
    <2>6. UnderWay(h)'
        BY <2>4, <2>5 DEF UnderWay
    <2>7. Preset(h)'
        <3> SUFFICES ASSUME preset[h] # 0, NEW i \in 1 .. Len(sets[h]), i \notin {1, kicks[h]}
                     PROVE  Bare(param'[sets[h][i]]) = Preloaded(h, i)'
            BY <1>1, <1>2 DEF Preset
        <3>1. Preloaded(h, i)' = Preloaded(h, i)
            BY <1>1 DEF Preloaded
        <3>2. param'[sets[h][i]] = param[sets[h][i]]
            BY <1>2, <1>9, <2>3
        <3> QED BY <1>2, <3>1, <3>2 DEF Preset
    <2>8. \A q \in Phys : \/ phase'[h] # "ready" /\ q = sets'[h][1]
                          \/ /\ ~(phase[h] # "ready" /\ q = sets[h][1])
                             /\ inflight'[q] = inflight[q]
                             /\ (q \in trig' <=> q \in trig) /\ (q \in ipr' <=> q \in ipr)
        BY <1>1, <1>2, <1>9
    <2> QED BY <1>6, <2>1, <2>2, <2>6, <2>7, <2>8, Assembled
<1>10. CASE x.a * x.b = 0
    <2>1. inflight' = inflight /\ param' = param
        BY <1>10 DEF TakeSet
    <2>2. Loaded(h)' = Loaded(h)
        BY <1>1, <1>2, <1>7, <2>1 DEF Loaded
    <2>3. /\ Loaded(h) <= all => Serves(h, param[p], Loaded(h))
          /\ Endless(h) /\ Loaded(h) > all => param[p] = NullSet
        BY <1>2 DEF Progress
    <2> QED BY <1>1, <1>3, <1>9, <2>1, <2>2, <2>3 DEF Typed
<1>11. CASE x.a * x.b # 0
    <2>0. done < all /\ Serves(h, x, done + 1)
        <3>1. NullSet.a * NullSet.b = 0
            BY DEF NullSet
        <3> QED BY <1>2, <1>4, <1>11, <3>1
    <2>1. /\ inflight' = [inflight EXCEPT ![p] = x]
          /\ param' = [param EXCEPT ![p] = IF x.link = Null THEN NullSet ELSE param[x.link]]
        BY <1>11 DEF TakeSet
    <2>2. NullSet \in PaRAM /\ NullSet.a * NullSet.b = 0
        BY DEF NullSet, PaRAM
    <2>3. (IF x.link = Null THEN NullSet ELSE param[x.link]) \in PaRAM
        BY <1>3, <2>2 DEF Typed, PaRAM
    <2>4. inflight'[p] = x /\ x # NullSet
        BY <1>3, <1>11, <2>1, <2>2 DEF Typed
    <2>5. Loaded(h)' = done + 2
        BY <1>1, <1>2, <1>7, <2>4 DEF Loaded
    <2>6. ASSUME done + 2 <= all PROVE Serves(h, param'[p], done + 2)
        <3>1. all <= Len(sets[h]) /\ done + 2 \in 2 .. all /\ Serves(h, param[sets[h][done + 2]], done + 2)
            BY <1>2, <2>6 DEF Progress
        <3>2. x.link = sets[h][(done + 1) + 1] /\ (done + 1) + 1 = done + 2
            BY <1>2, <2>0, <2>6 DEF Serves, Describes
        <3>3. sets[h][done + 2] \in Logic /\ x.link # Null
            BY <1>2, <3>1, <3>2, EdmaAssumption DEF Granted
        <3>4. param'[p] = param[sets[h][done + 2]]
            BY <1>3, <2>1, <3>2, <3>3 DEF Typed
        <3> QED BY <3>1, <3>4
    <2>7. /\ inflight' \in [Phys -> PaRAM] /\ \A q \in Phys \ {p} : inflight'[q] = inflight[q]
          /\ param' \in [Phys \cup Logic -> PaRAM]
          /\ \A t \in (Phys \cup Logic) \ {p} : param'[t] = param[t]
        BY <1>3, <2>1, <2>3 DEF Typed
    <2>8. ASSUME Endless(h) PROVE param'[p] = NullSet
        <3>1. all = 1 /\ kind[h] = "selfchain"
            BY <1>2, <2>8 DEF Endless
        <3>2. done = 0 /\ x.chain /\ (x.link = Null \/ ~x.chain)
            BY <1>2, <2>0, <3>1 DEF Serves, Describes
        <3> QED BY <1>3, <2>1, <3>2 DEF Typed
    <2> QED BY <1>4, <1>9, <1>11, <2>0, <2>4, <2>5, <2>6, <2>7, <2>8
<1> QED BY <1>10, <1>11

\* The engine has done a transfer: the next one that was asked for.
LEMMA DoneStep ==
    ASSUME IInv, Runs, NEW p \in Phys, Done(p)
    PROVE  IInv'
<1> DEFINE x == inflight[p]
           item == Item(x.src, x.dst, x.a * x.b)
<1>1. /\ x # NullSet
      /\ log' = [log EXCEPT ![p] = Append(log[p], item)]
      /\ trig' = (IF x.chain THEN trig \cup {p} ELSE trig)
      /\ ipr' = (IF x.intr THEN ipr \cup {p} ELSE ipr)
      /\ inflight' = [inflight EXCEPT ![p] = NullSet]
      /\ sets' = sets /\ kind' = kind /\ preset' = preset /\ phase' = phase /\ kicks' = kicks
      /\ param' = param /\ asked' = asked
    BY DEF Done, handles
<1>2. PICK h \in Handle :
             /\ phase[h] # "ready" /\ kind[h] # "none" /\ p = Channel(h) /\ p = sets[h][1]
             /\ sets[h] \in Seq(Phys \cup Logic) /\ p \in Elems(sets[h])
             /\ Progress(h) /\ Engine(h) /\ Granted(h) /\ Usage(h) /\ Preset(h)
             /\ Len(sets[h]) \in Nat \ {0} /\ Len(asked[p]) \in Nat /\ Len(log[p]) \in Nat
    BY <1>1, AtWork
<1> DEFINE all == Len(asked[p])  done == Len(log[p])
<1>3. Typed /\ x \in PaRAM /\ log[p] \in Seq(Transfer)
    BY DEF IInv, Typed
<1>4. /\ done < all /\ p \notin ipr /\ p \notin trig /\ Loaded(h) = done + 2
      /\ x.a * x.b # 0 /\ Serves(h, x, done + 1)
    BY <1>1, <1>2 DEF Engine, Loaded
<1>5. /\ item = asked[p][done + 1]
      /\ kind[h] = "multiple" => x.intr /\ ~x.chain
      /\ Endless(h) => x.chain /\ ~x.intr
      /\ ~(kind[h] = "multiple" \/ Endless(h)) =>
            (x.chain <=> done + 1 < all) /\ (x.intr <=> done + 1 = all)
    BY <1>2, <1>4 DEF Serves, Describes, Endless
<1>6. item \in Transfer
    BY <1>3 DEF Item, Transfer, PaRAM
<1> HIDE DEF item
<1>7. /\ log' \in [Phys -> Seq(Transfer)] /\ Len(log'[p]) = done + 1 /\ log'[p][done + 1] = item
      /\ \A i \in 1 .. done : log'[p][i] = log[p][i]
      /\ \A q \in Phys \ {p} : log'[q] = log[q]
    <2>1. log'[p] = Append(log[p], item) /\ \A q \in Phys \ {p} : log'[q] = log[q]
        BY <1>1, <1>3 DEF Typed
    <2>2. Append(log[p], item) \in Seq(Transfer)
        BY <1>3, <1>6
    <2>3. log' \in [Phys -> Seq(Transfer)]
        BY <1>1, <1>3, <2>2 DEF Typed
    <2> QED BY <1>3, <1>6, <2>1, <2>3
<1>8. /\ inflight' \in [Phys -> PaRAM] /\ inflight'[p] = NullSet
      /\ \A q \in Phys \ {p} : inflight'[q] = inflight[q]
    <2>1. NullSet \in PaRAM
        BY DEF NullSet, PaRAM
    <2> QED BY <1>1, <1>3, <2>1 DEF Typed
<1>9. HandlesTyped' /\ Others(h)
    BY <1>1, <1>3 DEF Typed, TypeOK, HandlesTyped, Others
<1>10. Granted(h)' /\ Usage(h)'
    BY <1>1, <1>2 DEF Granted, Usage, Channel
<1>11. /\ Channel(h)' = p /\ \A y, i : Serves(h, y, i)' <=> Serves(h, y, i)
       /\ Loaded(h)' = Loaded(h) /\ Endless(h)' = Endless(h)
    <2>1. Channel(h)' = p
        BY <1>1, <1>2 DEF Channel
    <2>2. \A y, i : Serves(h, y, i)' <=> Serves(h, y, i)
        BY <1>1, <1>2, <2>1 DEF Serves, Describes
    <2>3. Loaded(h)' = done + 2
        BY <1>2, <1>7, <1>8, <2>1 DEF Loaded
    <2>4. Endless(h)' = Endless(h)
        BY <1>1, <1>2, <2>1 DEF Endless
    <2> QED BY <1>4, <2>1, <2>2, <2>3, <2>4
<1>12. Typed'
    <2>1. trig' \subseteq Phys /\ ipr' \subseteq Phys
        BY <1>1, <1>3 DEF Typed, TypeOK
    <2> QED BY <1>1, <1>3, <1>7, <1>8, <1>9, <2>1, StillTyped DEF Typed, TypeOK
<1>13. \A k \in Handle \ {h} : Alone(k)
    BY <1>1, <1>2, <1>7, <1>8, <1>9, OthersAlone
<1>14. Progress(h)'
    <2>1. /\ all \in 1 .. Len(sets[h])
          /\ \A i \in 1 .. done : log[p][i] = asked[p][i]
          /\ \A i \in 2 .. all : Serves(h, param[sets[h][i]], i)
          /\ Loaded(h) <= all => Serves(h, param[p], Loaded(h))
          /\ Endless(h) /\ Loaded(h) > all => param[p] = NullSet
        BY <1>2 DEF Progress
    <2>2. \A i \in 1 .. done + 1 : log'[p][i] = asked[p][i]
        <3>1. \A i \in 1 .. done + 1 : i \in 1 .. done \/ i = done + 1
            BY <1>2
        <3> QED BY <1>5, <1>7, <2>1, <3>1
    <2> QED BY <1>1, <1>2, <1>4, <1>7, <1>11, <2>1, <2>2 DEF Progress
<1>15. Engine(h)'
    <2>1. kind[h] = "multiple" => kicks[h] = all - done - 1
        BY <1>2, <1>4 DEF Engine
    <2>2. p \in trig' => kind[h] # "multiple" /\ (done + 1 < all \/ Endless(h)) /\ p \notin ipr'
        BY <1>1, <1>4, <1>5
    <2>3. /\ kind[h] = "multiple" => p \in ipr' /\ kicks'[h] = all - (done + 1)
          /\ kind[h] # "multiple" /\ p \in ipr' => done + 1 = all
        <3> HIDE DEF x
        <3>1. CASE kind[h] = "multiple"
            <4>1. p \in ipr' /\ kicks'[h] = kicks[h]
                BY <1>1, <1>5, <3>1
            <4>2. PICK m \in Nat, n \in Nat : m = all /\ n = done
                BY <1>2
            <4>3. m - n - 1 = m - (n + 1)
                OBVIOUS
            <4>4. kicks[h] = all - (done + 1)
                BY <2>1, <3>1, <4>2, <4>3
            <4> QED BY <3>1, <4>1, <4>4
        <3>2. CASE kind[h] # "multiple"
            BY <1>1, <1>4, <1>5, <3>2
        <3> QED BY <3>1, <3>2
    <2> HIDE DEF x
    <2> QED BY <1>1, <1>7, <1>8, <1>11, <2>2, <2>3 DEF Engine
<1>16. UnderWay(h)'
    BY <1>14, <1>15 DEF UnderWay
<1>17. Preset(h)'
    <2>1. \A i : Preloaded(h, i)' = Preloaded(h, i)
        BY <1>1 DEF Preloaded
    <2> QED BY <1>1, <1>2, <2>1 DEF Preset
<1>18. \A q \in Phys : \/ phase'[h] # "ready" /\ q = sets'[h][1]
                       \/ /\ ~(phase[h] # "ready" /\ q = sets[h][1])
                          /\ inflight'[q] = inflight[q]
                          /\ (q \in trig' <=> q \in trig) /\ (q \in ipr' <=> q \in ipr)
    BY <1>1, <1>2, <1>8
<1> QED BY <1>10, <1>12, <1>13, <1>16, <1>17, <1>18, Assembled

-----------------------------------------------------------------------------
(***************************************************************************)
(* The invariant.                                                          *)
(***************************************************************************)
\* The invariant holds at first.
LEMMA Initially == Init => IInv
<1> SUFFICES ASSUME Init PROVE IInv
    OBVIOUS
<1>0. NullSet \in PaRAM /\ <<>> \in Seq(Transfer) /\ <<>> \in Seq(Phys \cup Logic)
    BY DEF NullSet, PaRAM
<1>1. /\ \A h \in Handle : /\ sets[h] = <<>> /\ kind[h] = "none" /\ preset[h] = 0
                           /\ phase[h] = "ready" /\ kicks[h] = 0
      /\ aborted \in BOOLEAN /\ trig = {} /\ ipr = {} /\ \A p \in Phys : inflight[p] = NullSet
    BY DEF Init
<1>2. Typed
    <2>1. /\ param \in [Phys \cup Logic -> PaRAM] /\ inflight \in [Phys -> PaRAM]
          /\ asked \in [Phys -> Seq(Transfer)] /\ log \in [Phys -> Seq(Transfer)]
        BY <1>0 DEF Init
    <2>2. HandlesTyped
        BY <1>0 DEF Init, HandlesTyped, Kinds, Phases
    <2>3. \A h, k \in Handle : h # k => Elems(sets[h]) \cap Elems(sets[k]) = {}
        BY <1>1 DEF Elems
    <2>4. \A s \in Phys \cup Logic : /\ param[s].link \in Logic \cup {Null}
                                     /\ param[s].a \in Nat /\ param[s].b \in Nat
        BY <2>1 DEF PaRAM
    <2> QED BY <1>1, <2>1, <2>2, <2>3, <2>4 DEF Typed, TypeOK, HandlesTyped
<1>3. \A h \in Handle : Granted(h)
    <2>1. Len(<<>>) = 0 /\ 1 .. 0 = {} /\ 2 .. 0 = {}
        OBVIOUS
    <2> QED BY <1>1, <2>1 DEF Granted
<1>4. \A h \in Handle : Usage(h) /\ UnderWay(h) /\ Preset(h)
    BY <1>1 DEF Usage, UnderWay, Preset
<1>5. QuietWhenIdle
    BY <1>1 DEF QuietWhenIdle
<1> QED BY <1>2, <1>3, <1>4, <1>5 DEF IInv

\* Starting a call keeps it.
LEMMA StartStep ==
    ASSUME IInv, ExactOrEmpty, NEW h \in Handle, Start(h)
    PROVE  IInv'
<1>0. MaxCnt[h] \in Nat /\ Runs
    BY Sized DEF Start
<1>1. CASE (\E n \in 1 .. MaxCnt[h] - 1 : AllocateChannelLinked(h, n)) \/ AllocateChannel(h)
    BY <1>0, <1>1, AllocateStep
<1>2. CASE FreeChannel(h)
    BY <1>0, <1>2, FreeChannelStep
<1>3. CASE \E size \in Size[h] :
             \/ Unclobbered(h) /\ StartXferOnce1(h, size)
             \/ StartXferOnce(h, size) \/ PreloadPsets(h, size)
             \/ \E n \in 1 .. MaxCnt[h] : StartXferMultiple(h, size, n) \/ StartSelfChaining(h, size, n)
    <2>1. PICK size \in Size[h] :
             \/ Unclobbered(h) /\ StartXferOnce1(h, size)
             \/ StartXferOnce(h, size) \/ PreloadPsets(h, size)
             \/ \E n \in 1 .. MaxCnt[h] : StartXferMultiple(h, size, n) \/ StartSelfChaining(h, size, n)
        BY <1>3
    <2>2. \A n \in 1 .. MaxCnt[h] : n \in Nat \ {0}
        BY <1>0
    <2> QED BY <1>0, <2>1, <2>2, StartXferOnce1Step, StartXferOnceStep, PreloadPsetsStep,
                StartXferMultipleStep, StartSelfChainingStep
<1>4. CASE Unclobbered(h) /\ \E sizes \in Sizes(h) : StartGather(h, sizes)
    <2>1. PICK sizes \in Sizes(h) : StartGather(h, sizes)
        BY <1>4
    <2>2. PICK m \in 1 .. MaxCnt[h] : sizes \in [1 .. m -> Size[h]]
        BY DEF Sizes
    <2> QED BY <1>0, <1>4, <2>1, <2>2, StartGatherStep
<1>5. CASE \E n \in 1 .. MaxCnt[h] : StartGatherPreloaded(h, n)
    BY <1>0, <1>5, StartGatherPreloadedStep
<1> QED BY <1>1, <1>2, <1>3, <1>4, <1>5 DEF Start

\* So does a step in which nothing changes, or only the program ends.
LEMMA Stutter ==
    ASSUME IInv, UNCHANGED <<handles, param, engine, asked, log>>, aborted' \in BOOLEAN
    PROVE  IInv'
<1>1. /\ sets' = sets /\ kind' = kind /\ preset' = preset /\ phase' = phase /\ kicks' = kicks
      /\ param' = param /\ trig' = trig /\ inflight' = inflight /\ ipr' = ipr
      /\ asked' = asked /\ log' = log
    BY DEF handles, engine
<1>2. \A h \in Handle : Alone(h)
    BY <1>1 DEF Alone
<1>3. \A h \in Handle : Granted(h)' /\ Usage(h)' /\ UnderWay(h)' /\ Preset(h)'
    BY <1>2, AloneKept DEF IInv
<1>4. Typed'
    <2>1. \A k \in Handle : Elems(sets[k])' = Elems(sets[k])
        BY <1>1 DEF Elems
    <2>2. Typed
        BY DEF IInv
    <2>3. TypeOK'
        BY <1>1, <2>1, <2>2 DEF Typed, TypeOK
    <2> QED BY <1>1, <2>2, <2>3 DEF Typed
<1>5. QuietWhenIdle'
    BY <1>1 DEF IInv, QuietWhenIdle, Channel
<1> QED BY <1>3, <1>4, <1>5 DEF IInv

\* Every step keeps it.
LEMMA Step ==
    ASSUME ExactOrEmpty, IInv, [Next]_vars
    PROVE  IInv'
<1>1. ASSUME NEW h \in Handle, Wait(h) PROVE IInv'
    BY <1>1, KeptStep, GivenBackStep, KickMultipleStep, WaitGatherPreloadedStep DEF Wait
<1>2. ASSUME NEW p \in Phys, Work(p) PROVE IInv'
    BY <1>2, TakeSetStep, DoneStep DEF Work
<1>3. ASSUME NEW h \in Handle, Abort(h) PROVE IInv'
    BY <1>3, Stutter DEF Abort
<1>4. ASSUME UNCHANGED vars PROVE IInv'
    <2>1. aborted' \in BOOLEAN
        BY <1>4 DEF vars, IInv, Typed, TypeOK
    <2> QED BY <1>4, <2>1, Stutter DEF vars
<1> QED BY <1>1, <1>2, <1>3, <1>4, StartStep DEF Next

\* It always holds.
LEMMA Invariance ==
    ASSUME ExactOrEmpty
    PROVE  Spec => []IInv
<1>1. IInv /\ [Next]_vars => IInv'
    BY Step
<1> QED BY <1>1, Initially, PTL DEF Spec

-----------------------------------------------------------------------------
(***************************************************************************)
(* What follows from it.                                                   *)
(***************************************************************************)
\* With the numbers of the code a transfer is programmed exactly, or as an empty one
\* (from 1 GiB on), which the engine ignores: the hypothesis of the theorems holds
\* whatever the sizes are.
THEOREM CodeIsExactOrEmpty ==
    ASSUME TheCode
    PROVE  ExactOrEmpty
<1> SUFFICES ASSUME NEW h \in Handle, NEW size \in Size[h], Movable(size)
             PROVE  Acnt(size) * Bcnt(size) \in {0, size}
    BY DEF ExactOrEmpty
<1>0. size \in Nat
    BY Sized
<1> DEFINE g == Geometry(size)
<1>1. CASE size < 1073741824
    BY <1>0, <1>1, BelowOneGiB
<1>2. CASE ~(size < 1073741824)
    <2>1. ~(size < Single)
        BY <1>0, <1>2 DEF TheCode
    <2>2. g.b \in Splits(size) /\ g.a = size \div g.b /\ g.a \in Nat
        BY <1>0, <2>1, Search, GeometryExact
    <2>3. g.b = 65536
        <3>1. g.b \in ArrayCounts /\ size \div g.b < 32768
            BY <2>2 DEF Splits, TheCode
        <3>2. size \div 32768 >= 32768
            BY <1>0, <1>2
        <3> QED BY <1>0, <1>2, <3>1 DEF TheCode
    <2>4. Bcnt(size) = 0
        BY <2>3 DEF Bcnt, TheCode
    <2>5. Acnt(size) \in Nat
        BY <2>2 DEF Acnt, TheCode
    <2> QED BY <2>4, <2>5
<1> QED BY <1>1, <1>2

\* So it does for any limits whose numbers of arrays fit the fields.
THEOREM FittingIsExact ==
    ASSUME Single <= FieldSize, Multi <= FieldSize, 1 < FieldSize, \A n \in ArrayCounts : n < FieldSize
    PROVE  ExactOrEmpty
BY FieldsHold, Sized DEF ExactOrEmpty

\* No set belongs to two handles, whatever their calls and the engine do (the allocations
\* of edma3_allocate_channel_linked, edma3_start_xfer_multiple), and a set always links to
\* one that can be linked to.
THEOREM TypeCorrect ==
    ASSUME ExactOrEmpty
    PROVE  Spec => []TypeOK
<1>1. IInv => TypeOK
    BY DEF IInv, Typed
<1> QED BY <1>1, Invariance, PTL

\* A channel that no call uses is at rest, so that the next call does not take the end of
\* an earlier one for its own (edma3_wait_xfer and the other waits).
THEOREM RestIsQuiet ==
    ASSUME ExactOrEmpty
    PROVE  Spec => []QuietWhenIdle
<1>1. IInv => QuietWhenIdle
    BY DEF IInv
<1> QED BY <1>1, Invariance, PTL

\* The engine does what a call has asked for, in order, and reports the end when it has
\* done all of it (the sets written by the edma3_start functions).
THEOREM CopiesAreAsked ==
    ASSUME ExactOrEmpty
    PROVE  Spec => []CopiedAsAsked
<1>1. ASSUME IInv PROVE CopiedAsAsked
    <2> SUFFICES ASSUME NEW h \in Handle, phase[h] # "ready"
                 PROVE  LET p == Channel(h)
                            left == IF kind[h] = "multiple" THEN kicks[h] ELSE 0
                        IN  /\ Len(log[p]) <= Len(asked[p])
                            /\ log[p] = SubSeq(asked[p], 1, Len(log[p]))
                            /\ p \in ipr => Len(log[p]) = Len(asked[p]) - left
        BY DEF CopiedAsAsked
    <2> DEFINE p == Channel(h)
    <2>1. Typed /\ Granted(h) /\ Usage(h) /\ kind[h] # "none" /\ Progress(h) /\ Engine(h)
        BY <1>1 DEF IInv, UnderWay, Usage
    <2>2. p \in Phys
        BY <2>1, HasChannel
    <2>3. log[p] \in Seq(Transfer) /\ asked[p] \in Seq(Transfer)
        BY <2>1, <2>2 DEF Typed
    <2>4. Len(log[p]) <= Len(asked[p]) /\ \A i \in 1 .. Len(log[p]) : log[p][i] = asked[p][i]
        BY <2>1 DEF Progress
    <2>5. kicks[h] \in Nat
        BY <2>1 DEF Typed, TypeOK
    <2>6. /\ kind[h] = "multiple" /\ p \in ipr => kicks[h] = Len(asked[p]) - Len(log[p])
          /\ kind[h] # "multiple" /\ p \in ipr => Len(log[p]) = Len(asked[p])
        BY <2>1 DEF Engine
    <2> HIDE DEF p
    <2>7. Len(log[p]) \in Nat /\ Len(asked[p]) \in Nat
        BY <2>3
    <2>8. log[p] = SubSeq(asked[p], 1, Len(log[p]))
        BY <2>3, <2>4, <2>7
    <2>9. CASE kind[h] = "multiple"
        <3>1. \A m, n, k \in Nat : k = m - n => n = m - k
            OBVIOUS
        <3>2. ASSUME p \in ipr PROVE Len(log[p]) = Len(asked[p]) - kicks[h]
            <4>1. kicks[h] = Len(asked[p]) - Len(log[p])
                BY <2>6, <2>9, <3>2
            <4> QED BY <2>5, <2>7, <3>1, <4>1
        <3> QED BY <2>4, <2>8, <2>9, <3>2 DEF p
    <2>10. CASE kind[h] # "multiple"
        BY <2>4, <2>6, <2>7, <2>8, <2>10 DEF p
    <2> QED BY <2>9, <2>10
<1>2. IInv => CopiedAsAsked
    BY <1>1
<1> QED BY <1>2, Invariance, PTL

\* After each call a preloaded channel is as preload_psets left it, though the engine and
\* the call overwrite its sets (the restoring in edma3_wait_gather_preloaded).
THEOREM PreloadSurvives ==
    ASSUME ExactOrEmpty
    PROVE  Spec => []PreloadIntact
<1>1. ASSUME IInv PROVE PreloadIntact
    <2> SUFFICES ASSUME NEW h \in Handle, preset[h] # 0, phase[h] = "ready", NEW i \in DOMAIN sets[h]
                 PROVE  [param[sets[h][i]] EXCEPT !.src = 0, !.dst = 0] = Preloaded(h, i)
        BY DEF PreloadIntact
    <2>1. sets[h] \in Seq(Phys \cup Logic)
        BY <1>1 DEF IInv, Typed, TypeOK
    <2>2. i \in 1 .. Len(sets[h])
        BY <2>1
    <2>3. Bare(param[sets[h][i]]) = Preloaded(h, i)
        BY <1>1, <2>2 DEF IInv, Preset
    <2> QED BY <2>3 DEF Bare
<1>2. IInv => PreloadIntact
    BY <1>1
<1> QED BY <1>2, Invariance, PTL

\* The sets that are loaded after the sets s.
Following(h, s) == {param[t].link : t \in {u \in s : GoesOn(h, param[u])}} \ {Null}

\* The sets a channel will carry out, by the links between them.
IsRun(f, N, h, first) == f = [n \in 0 .. N |-> IF n = 0 THEN first ELSE Following(h, f[n - 1])]

LEMMA RunExists ==
    ASSUME NEW N \in Nat, NEW first, NEW h \in Handle
    PROVE  \E f : IsRun(f, N, h, first)
<1> DEFINE S == {m \in Nat : \E f : f = [n \in 0 .. m |-> IF n = 0 THEN first ELSE Following(h, f[n - 1])]}
<1>1. 0 \in S
    <2> DEFINE f == [n \in 0 .. 0 |-> first]
    <2>1. f = [n \in 0 .. 0 |-> IF n = 0 THEN first ELSE Following(h, f[n - 1])]
        OBVIOUS
    <2> QED BY <2>1
<1>2. ASSUME NEW m \in S PROVE m + 1 \in S
    <2>1. PICK f : f = [n \in 0 .. m |-> IF n = 0 THEN first ELSE Following(h, f[n - 1])]
        BY <1>2
    <2> DEFINE g == [n \in 0 .. m + 1 |-> IF n = m + 1 THEN Following(h, f[m]) ELSE f[n]]
    <2>2. ASSUME NEW n \in 0 .. m + 1
          PROVE  g[n] = IF n = 0 THEN first ELSE Following(h, g[n - 1])
        <3>1. CASE n = m + 1
            <4>1. g[n] = Following(h, f[m]) /\ g[n - 1] = f[m] /\ n # 0
                BY <3>1
            <4> QED BY <4>1
        <3>2. CASE n \in 0 .. m
            <4>1. g[n] = f[n] /\ (n # 0 => g[n - 1] = f[n - 1])
                BY <3>2
            <4>2. f[n] = IF n = 0 THEN first ELSE Following(h, f[n - 1])
                BY <2>1, <3>2
            <4> QED BY <4>1, <4>2
        <3> QED BY <3>1, <3>2
    <2>3. g = [n \in 0 .. m + 1 |-> g[n]]
        OBVIOUS
    <2> HIDE DEF g
    <2>4. g = [n \in 0 .. m + 1 |-> IF n = 0 THEN first ELSE Following(h, g[n - 1])]
        BY <2>2, <2>3
    <2> QED BY <2>4
<1> HIDE DEF S
<1>3. N \in S
    BY <1>1, <1>2, NatSet DEF S
<1> QED BY <1>3 DEF S, IsRun

\* What a channel under way will carry out belongs to its handle (the links written by the
\* edma3_start functions): no link leads into sets that have been given back, or to those
\* of another channel.
THEOREM LinksStayOwn ==
    ASSUME ExactOrEmpty
    PROVE  Spec => []LinksAreOwn
<1>1. ASSUME IInv, NEW h \in Handle, phase[h] # "ready"
      PROVE  WillRun(h) \subseteq Elems(sets[h])
    <2> DEFINE p == Channel(h)
               all == Len(asked[p])
               done == Len(log[p])
               sure == p \in trig \/ inflight[p].chain \/ (kind[h] = "multiple" /\ kicks[h] > 0)
               first == IF sure THEN {p} ELSE {}
               N == MaxCnt[h]
    <2>1. /\ Typed /\ Granted(h) /\ Usage(h) /\ kind[h] # "none" /\ Progress(h) /\ Engine(h)
        BY <1>1 DEF IInv, UnderWay, Usage
    <2>2. /\ sets[h] \in Seq(Phys \cup Logic) /\ 1 \in 1 .. Len(sets[h]) /\ p = sets[h][1]
          /\ p \in Phys /\ Len(sets[h]) \in Nat
        BY <2>1, HasChannel
    <2>3. N \in Nat /\ all \in Nat /\ done \in Nat /\ inflight[p].chain \in BOOLEAN
        <3> HIDE DEF p
        <3>1. N \in Nat
            BY Sized
        <3>2. asked[p] \in Seq(Transfer) /\ log[p] \in Seq(Transfer) /\ inflight[p] \in PaRAM
            BY <2>1, <2>2 DEF Typed
        <3> QED BY <3>1, <3>2 DEF PaRAM
    <2> DEFINE run == CHOOSE f : f = [n \in 0 .. N |->
                IF n = 0 THEN first ELSE Following(h, f[n - 1])]
               Mine == {p} \cup {sets[h][i] : i \in 2 .. all}
    <2>4. run = [n \in 0 .. N |->
                IF n = 0 THEN first ELSE Following(h, run[n - 1])]
        <3> HIDE DEF first, N
        <3>1. PICK c : c = first
            OBVIOUS
        <3>2. PICK f : IsRun(f, N, h, c)
            BY <2>3, RunExists
        <3> QED BY <3>1, <3>2 DEF IsRun
    <2>5. WillRun(h) = UNION {run[n] : n \in DOMAIN run}
        BY DEF WillRun, Following
    <2> HIDE DEF run
    <2>6. ASSUME sure PROVE Loaded(h) <= all \/ (Endless(h) /\ param[p] = NullSet)
        <3>1. CASE p \in trig
            <4>1. (done < all \/ Endless(h)) /\ inflight[p] = NullSet
                BY <2>1, <3>1 DEF Engine
            <4>2. Endless(h) /\ Loaded(h) > all => param[p] = NullSet
                BY <2>1 DEF Progress
            <4> QED BY <2>3, <4>1, <4>2 DEF Loaded
        <3>2. CASE inflight[p].chain
            <4>1. inflight[p] # NullSet
                BY <3>2 DEF NullSet
            <4>2. done < all /\ Serves(h, inflight[p], done + 1)
                BY <2>1, <4>1 DEF Engine
            <4>3. done + 1 < all \/ Endless(h)
                BY <3>2, <4>2 DEF Serves, Describes, Endless
            <4>4. Endless(h) /\ Loaded(h) > all => param[p] = NullSet
                BY <2>1 DEF Progress
            <4> QED BY <2>3, <4>1, <4>3, <4>4 DEF Loaded
        <3>3. CASE kind[h] = "multiple" /\ kicks[h] > 0
            <4>1. /\ kicks[h] = (IF p \in ipr THEN all - done ELSE all - done - 1)
                  /\ p \in ipr => inflight[p] = NullSet
                BY <2>1, <3>3 DEF Engine
            <4> HIDE DEF all, done
            <4>2. CASE p \in ipr
                <5>1. done + 1 <= all
                    BY <2>3, <3>3, <4>1, <4>2
                <5>2. Loaded(h) = done + 1
                    BY <4>1, <4>2 DEF Loaded, done
                <5> QED BY <5>1, <5>2
            <4>3. CASE p \notin ipr
                <5>1. done + 2 <= all
                    BY <2>3, <3>3, <4>1, <4>3
                <5>2. Loaded(h) \in {done + 1, done + 2}
                    BY DEF Loaded, done
                <5> QED BY <2>3, <5>1, <5>2
            <4> QED BY <4>2, <4>3
        <3> QED BY <2>6, <3>1, <3>2, <3>3
    <2>7. /\ all <= Len(sets[h])
          /\ \A i \in 2 .. all : Serves(h, param[sets[h][i]], i)
          /\ Loaded(h) <= all => Serves(h, param[p], Loaded(h))
          /\ Loaded(h) \in Nat /\ Loaded(h) >= 1
        <3>1. Loaded(h) \in {done + 1, done + 2}
            BY DEF Loaded
        <3> QED BY <2>1, <2>3, <3>1 DEF Progress
    <2>8. ASSUME NEW x, NEW i \in 1 .. all, Serves(h, x, i), GoesOn(h, x)
          PROVE  x.link \in Mine \cup {Null}
        <3>1. CASE i = all
            BY <2>8, <3>1 DEF Serves, Describes, GoesOn
        <3>2. CASE i < all
            <4>1. x.link = sets[h][i + 1] /\ i + 1 \in 2 .. all
                BY <2>3, <2>8, <3>2 DEF Serves, Describes
            <4> QED BY <4>1
        <3> QED BY <2>3, <3>1, <3>2
    <2>9. ASSUME sure, NEW t \in Mine, GoesOn(h, param[t])
          PROVE  param[t].link \in Mine \cup {Null}
        <3> HIDE DEF sure
        <3>1. CASE t = p
            <4>1. ~(Endless(h) /\ param[p] = NullSet)
                BY <2>9, <3>1 DEF GoesOn, NullSet, Endless
            <4>2. Loaded(h) \in 1 .. all /\ Serves(h, param[p], Loaded(h))
                BY <2>3, <2>6, <2>7, <2>9, <4>1
            <4> QED BY <2>8, <2>9, <3>1, <4>2
        <3>2. CASE \E i \in 2 .. all : t = sets[h][i]
            <4>1. PICK i \in 2 .. all : t = sets[h][i]
                BY <3>2
            <4>2. Serves(h, param[t], i) /\ i \in 1 .. all
                BY <2>3, <2>7, <4>1
            <4> HIDE DEF Mine
            <4> QED BY <2>8, <2>9, <4>2
        <3> QED BY <2>9, <3>1, <3>2
    <2>10. Mine \subseteq Elems(sets[h])
        <3>1. \A i \in 1 .. Len(sets[h]) : sets[h][i] \in Elems(sets[h])
            BY <2>2 DEF Elems
        <3>2. \A i \in 2 .. all : i \in 1 .. Len(sets[h])
            BY <2>2, <2>3, <2>7
        <3> QED BY <2>2, <3>1, <3>2
    <2> DEFINE S == {n \in Nat : n \in 0 .. N => run[n] \subseteq (IF sure THEN Mine ELSE {})}
    <2>11. p \in Mine
        OBVIOUS
    <2> HIDE DEF Mine, sure
    <2>12. 0 \in S
        <3>1. 0 \in 0 .. N
            BY <2>3
        <3>2. run[0] = first
            BY <2>4, <3>1
        <3> QED BY <2>11, <3>2
    <2>13. ASSUME NEW n \in S PROVE n + 1 \in S
        <3> SUFFICES ASSUME n + 1 \in 0 .. N, NEW u \in run[n + 1]
                     PROVE  u \in (IF sure THEN Mine ELSE {})
            OBVIOUS
        <3>1. run[n] \subseteq (IF sure THEN Mine ELSE {})
            BY <2>3
        <3>2. run[n + 1] = Following(h, run[n])
            <4>1. n + 1 # 0 /\ (n + 1) - 1 = n
                OBVIOUS
            <4> QED BY <2>4, <4>1
        <3>3. PICK t \in run[n] : GoesOn(h, param[t]) /\ u = param[t].link /\ u # Null
            BY <3>2 DEF Following
        <3>4. sure /\ t \in Mine
            BY <3>1
        <3> QED BY <2>9, <3>3, <3>4
    <2>14. S \in SUBSET Nat
        OBVIOUS
    <2> HIDE DEF S
    <2>15. \A n \in Nat : n \in S
        BY <2>12, <2>13, <2>14, NatSet
    <2>16. \A n \in 0 .. N : run[n] \subseteq Mine
        BY <2>15, <2>3 DEF S
    <2>17. DOMAIN run = 0 .. N
        BY <2>4
    <2> QED BY <2>5, <2>10, <2>16, <2>17
<1>2. IInv => LinksAreOwn
    BY <1>1 DEF LinksAreOwn
<1> QED BY <1>2, Invariance, PTL

====
