--------------------------- MODULE PageMigProofs ---------------------------
(***************************************************************************)
(* Migration of small pages by any number of devices, and of small and     *)
(* huge pages by one device: however their requests overlap, a frame       *)
(* serves one purpose, references balance, nothing is held for ever        *)
(* without a race, and a write is carried over or detected, with the       *)
(* provisos of NothingLost.                                                *)
(*                                                                         *)
(* With huge pages and two devices neither FramesApart nor RefsBalance     *)
(* holds: isolate_huge_page may fail, and nobody asks.  Hence              *)
(* SmallOrAlone.                                                           *)
(***************************************************************************)
EXTENDS PageMig, FiniteSetTheorems, TLAPS

\* All pages are small, or one device is in use; a program opens finitely many.
SmallOrAlone ==
    /\ Huge = {} \/ \A d, e \in Device : d = e
    /\ IsFiniteSet(Device)

Quiet == {"idle", "worker", "follow"}
Filling == {"isolate", "replace", "bug_isolate", "bug_replace"}
Moving == {"dma", "cas", "settle", "report"}

\* How far the arrays of a device are filled, by the phase it is in.
Shape(d) ==
    /\ phase[d] \in Quiet => opage[d] = <<>> /\ saved[d] = <<>>
    /\ phase[d] = "follow" => at[d] = 1
    /\ phase[d] \notin Quiet => Len(opage[d]) = Len(req[d])
    /\ phase[d] \in Filling => Len(saved[d]) + 1 = at[d]
    /\ phase[d] = "save" => Len(saved[d]) = at[d]
    /\ phase[d] \in Moving => Len(saved[d]) = Len(req[d])

\* The page a device has isolated and not replaced yet, and all it has isolated.
Taken(d) == IF phase[d] \in {"replace", "bug_replace"} THEN {at[d]} ELSE {}
Held(d) == Unsettled(d) \cup Taken(d)

\* A page that is being migrated is mapped to its new frame; both frames are locked, the
\* new one is on no list, the old one backs nothing.
Transfer(d) ==
    \A i \in Unsettled(d) :
        /\ pte[req[d][i]].frame = saved[d][i].frame
        /\ opage[d][i] \in locked /\ saved[d][i].frame \in locked
        /\ place[saved[d][i].frame] = "fresh"
        /\ \A v \in Page : pte[v].frame # opage[d][i]

\* New entries are installed young and clean, and only the compare-and-swap ages them; an
\* entry that is read back dirty was written in the gap.
Entries(d) ==
    \A i \in Installed(d) :
        /\ saved[d][i].young /\ pte[req[d][i]].young
        /\ (~hurried /\ req[d][i] \notin gap) => ~saved[d][i].dirty

\* An entry that is about to be read back is what was set, unless its page was written.
Unread(d) ==
    (phase[d] = "save" /\ ~hurried /\ req[d][at[d]] \notin gap)
        => pte[req[d][at[d]]] = saved[d][at[d]]

\* What a device has isolated is on no list.  isolate_huge_page may have failed, if a race
\* has left the page locked; the lock stops the device then.
Isolated(d) ==
    \A i \in Held(d) :
        \/ place[opage[d][i]] = "isolated"
        \/ (Huge # {} /\ i \in Taken(d) /\ opage[d][i] \in locked)

\* What one device has isolated, no other has.
HoldersApart ==
    \A d, e \in Device : \A i \in Held(d), j \in Held(e) :
        opage[d][i] = opage[e][j] => d = e /\ i = j

\* No frame is the target of two.
TargetsApart ==
    \A d, e \in Device : \A i \in Unsettled(d), j \in Unsettled(e) :
        saved[d][i].frame = saved[e][j].frame => d = e /\ i = j

\* A request names a page once, and finds a frame once.
Distinct(d) == IsInjective(opage[d])

PagesApart == \A v, w \in Page : pte[v].frame = pte[w].frame => v = w

\* A frame that was looked up for a page still backs it, or the device has just replaced it,
\* or another device has migrated the page: the frame backs nothing, and the lock or
\* page->mapping tells so.
Found(d) ==
    \A i \in LookedUp(d) \cup Taken(d) :
        \/ pte[req[d][i]].frame = opage[d][i]
        \/ /\ Huge = {} \/ i \in Unsettled(d)
           /\ \A v \in Page : pte[v].frame # opage[d][i]
           /\ opage[d][i] \in locked \/ opage[d][i] \notin anon

\* The positions that have been copied.
Copied(d) == {i \in DOMAIN saved[d] : \/ phase[d] = "dma" /\ i < at[d]
                                      \/ phase[d] \in {"cas", "settle", "report"}}

\* While the entry of a page is what the driver expects, the page has not been written
\* after the gap: the last write shows in the old frame, or after the copy in the new one.
Data(d) ==
    (~stale /\ ~hurried) => \A i \in Installed(d) :
        (pte[req[d][i]] = saved[d][i] /\ req[d][i] \notin raced \cup gap)
            => content[IF i \in Copied(d) THEN saved[d][i].frame ELSE opage[d][i]]
                   = <<req[d][i], written[req[d][i]]>>

\* Without a race, whatever is locked or off the lists is being migrated by somebody.
Owned ==
    raced = {} =>
        \A f \in Frame : (f \in locked \/ place[f] \in {"fresh", "isolated"}) =>
            \E d \in Device : \/ phase[d] = "bug_replace"
                              \/ \E i \in Held(d) : opage[d][i] = f
                              \/ \E i \in Unsettled(d) : saved[d][i].frame = f

\* Frames of 2M pages go back to the list of huge pages, the others to the LRU lists.
RightList ==
    \A v \in Page :
        place[pte[v].frame] \in {"fresh", "isolated"}
            \cup (IF v \in Huge THEN {"active"} ELSE {"lru", "pagevec"})

\* A mapped frame is on the list of its kind, or off the lists for a reason.
Sorted ==
    /\ RightList
    /\ \A v \in Page : /\ place[pte[v].frame] = "fresh" => pte[v].frame \in locked
                       /\ place[pte[v].frame] = "isolated" =>
                             \E d \in Device : \E i \in Taken(d) : opage[d][i] = pte[v].frame

Frames ==
    /\ PagesApart /\ HoldersApart /\ TargetsApart /\ RefsBalance /\ Sorted
    /\ \A d \in Device : Transfer(d) /\ Isolated(d) /\ Found(d) /\ Distinct(d)

Contents == NothingLost /\ \A d \in Device : Entries(d) /\ Unread(d) /\ Data(d)

\* While a request is under way huge_page says of what kind its pages are.
Resting == {"idle", "report", "worker"}
KindKnown ==
    \A d \in Device : phase[d] \notin Resting => hugePage = (req[d][1] \in Huge)

Typed == TypeOK /\ KindKnown /\ \A d \in Device : Shape(d)

IInv == Typed /\ Frames /\ Contents /\ Owned

-----------------------------------------------------------------------------
(***************************************************************************)
(* Entries and translations are records.                                   *)
(***************************************************************************)
Cached == [frame : Frame, dirty : BOOLEAN] \cup {None}

LEMMA Translation ==
    ASSUME NEW f \in Frame, NEW b \in BOOLEAN
    PROVE  [frame |-> f, dirty |-> b] \in Cached
<1>1. [frame |-> f, dirty |-> b] \in [frame : Frame, dirty : BOOLEAN]
    OBVIOUS
<1> QED BY <1>1 DEF Cached

LEMMA NewEntry ==
    ASSUME NEW f \in Frame, NEW a \in BOOLEAN, NEW b \in BOOLEAN
    PROVE  /\ [frame |-> f, young |-> a, dirty |-> b] \in Entry
           /\ [frame |-> f, young |-> a, dirty |-> b].frame = f
           /\ [frame |-> f, young |-> a, dirty |-> b].young = a
           /\ [frame |-> f, young |-> a, dirty |-> b].dirty = b
BY DEF Entry

LEMMA EntryFields ==
    ASSUME NEW e \in Entry
    PROVE  e.frame \in Frame /\ e.young \in BOOLEAN /\ e.dirty \in BOOLEAN
BY DEF Entry

LEMMA Aged ==
    ASSUME NEW e \in Entry, NEW b \in BOOLEAN
    PROVE  /\ [e EXCEPT !.young = b] \in Entry /\ [e EXCEPT !.young = b].frame = e.frame
           /\ [e EXCEPT !.young = b].dirty = e.dirty /\ [e EXCEPT !.young = b].young = b
BY DEF Entry

LEMMA SameEntry ==
    ASSUME NEW e \in Entry, NEW x \in Entry,
           e.frame = x.frame, e.young = x.young, e.dirty = x.dirty
    PROVE  x = e
BY DEF Entry

-----------------------------------------------------------------------------
(***************************************************************************)
(* Types, and the positions a device is at.                                *)
(***************************************************************************)
LEMMA Types ==
    ASSUME TypeOK, NEW d \in Device
    PROVE  /\ req[d] \in Seq(Page) /\ IsInjective(req[d])
           /\ opage[d] \in Seq(Frame) /\ saved[d] \in Seq(Entry)
           /\ Len(req[d]) \in Nat /\ DOMAIN req[d] = 1 .. Len(req[d])
           /\ Len(opage[d]) \in Nat /\ DOMAIN opage[d] = 1 .. Len(opage[d])
           /\ Len(saved[d]) \in Nat /\ DOMAIN saved[d] = 1 .. Len(saved[d])
           /\ \A i \in 1 .. Len(req[d]) : req[d][i] \in Page
           /\ \A i \in 1 .. Len(opage[d]) : opage[d][i] \in Frame
           /\ \A i \in 1 .. Len(saved[d]) : saved[d][i] \in Entry /\ saved[d][i].frame \in Frame
<1>1. req[d] \in Requests \cup {<<>>} /\ opage[d] \in Seq(Frame) /\ saved[d] \in Seq(Entry)
    BY DEF TypeOK
<1>2. req[d] \in Seq(Page) /\ IsInjective(req[d])
    <2>1. CASE req[d] \in Requests
        BY <2>1, PageMigAssumption
    <2>2. CASE req[d] = <<>>
        BY <2>2 DEF IsInjective
    <2> QED BY <1>1, <2>1, <2>2
<1>3. \A i \in 1 .. Len(saved[d]) : saved[d][i] \in Entry
    BY <1>1
<1>4. \A i \in 1 .. Len(saved[d]) : saved[d][i].frame \in Frame
    BY <1>3 DEF Entry
<1> QED BY <1>1, <1>2, <1>3, <1>4

\* What the positions of a device are, phase by phase.
Positions(d) ==
    /\ phase[d] \in Quiet \cup {"report"} =>
          Unsettled(d) = {} /\ Installed(d) = {} /\ LookedUp(d) = {} /\ Taken(d) = {} /\ Held(d) = {}
    /\ phase[d] \notin {"idle", "worker", "report"} => at[d] \in 1 .. Len(req[d])
    /\ phase[d] \in {"isolate", "bug_isolate"} =>
          /\ Unsettled(d) = 1 .. at[d] - 1 /\ Installed(d) = 1 .. at[d] - 1
          /\ LookedUp(d) = at[d] .. Len(req[d]) /\ Taken(d) = {}
          /\ Held(d) = 1 .. at[d] - 1 /\ Copied(d) = {}
    /\ phase[d] \in {"replace", "bug_replace"} =>
          /\ Unsettled(d) = 1 .. at[d] - 1 /\ Installed(d) = 1 .. at[d] - 1
          /\ LookedUp(d) = at[d] + 1 .. Len(req[d]) /\ Taken(d) = {at[d]}
          /\ Held(d) = 1 .. at[d] /\ Copied(d) = {}
    /\ phase[d] = "save" =>
          /\ Unsettled(d) = 1 .. at[d] /\ Installed(d) = 1 .. at[d]
          /\ LookedUp(d) = at[d] .. Len(req[d]) /\ Taken(d) = {}
          /\ Held(d) = 1 .. at[d] /\ Copied(d) = {}
    /\ phase[d] = "dma" =>
          /\ Unsettled(d) = 1 .. Len(req[d]) /\ Installed(d) = 1 .. Len(req[d])
          /\ LookedUp(d) = {} /\ Taken(d) = {}
          /\ Held(d) = 1 .. Len(req[d]) /\ Copied(d) = 1 .. at[d] - 1
    /\ phase[d] = "cas" =>
          /\ Unsettled(d) = at[d] .. Len(req[d]) /\ Installed(d) = at[d] .. Len(req[d])
          /\ LookedUp(d) = {} /\ Taken(d) = {}
          /\ Held(d) = at[d] .. Len(req[d]) /\ Copied(d) = 1 .. Len(req[d])
    /\ phase[d] = "settle" =>
          /\ Unsettled(d) = at[d] .. Len(req[d]) /\ Installed(d) = at[d] + 1 .. Len(req[d])
          /\ LookedUp(d) = {} /\ Taken(d) = {}
          /\ Held(d) = at[d] .. Len(req[d]) /\ Copied(d) = 1 .. Len(req[d])

LEMMA PositionsHold ==
    ASSUME TypeOK, NEW d \in Device, Shape(d)
    PROVE  Positions(d)
<1>1. /\ Len(req[d]) \in Nat /\ Len(opage[d]) \in Nat /\ Len(saved[d]) \in Nat
      /\ DOMAIN saved[d] = 1 .. Len(saved[d]) /\ DOMAIN opage[d] = 1 .. Len(opage[d])
    BY Types
<1>2. phase[d] \in Phases /\ at[d] \in Nat
    BY DEF TypeOK, Shape
<1>3. phase[d] \notin {"idle", "worker", "report"} => at[d] \in 1 .. Len(req[d])
    BY DEF TypeOK
<1>4. CASE phase[d] \in Quiet
    <2>1. DOMAIN saved[d] = {} /\ DOMAIN opage[d] = {}
        BY <1>4 DEF Shape
    <2> QED BY <1>3, <1>4, <2>1
            DEF Positions, Unsettled, Installed, LookedUp, Taken, Held, Quiet
<1>5. CASE phase[d] \in {"isolate", "bug_isolate"}
    <2>1. Len(saved[d]) = at[d] - 1 /\ Len(opage[d]) = Len(req[d])
        BY <1>1, <1>2, <1>5 DEF Shape, Filling, Quiet
    <2>2. Installed(d) = 1 .. at[d] - 1
        BY <1>1, <1>2, <1>5, <2>1 DEF Installed
    <2>3. LookedUp(d) = at[d] .. Len(req[d])
        BY <1>1, <1>2, <1>3, <1>5, <2>1 DEF LookedUp
    <2> QED BY <1>3, <1>5, <2>2, <2>3 DEF Positions, Unsettled, Taken, Held, Quiet, Copied
<1>6. CASE phase[d] \in {"replace", "bug_replace"}
    <2>1. Len(saved[d]) = at[d] - 1 /\ Len(opage[d]) = Len(req[d])
        BY <1>1, <1>2, <1>6 DEF Shape, Filling, Quiet
    <2>2. Installed(d) = 1 .. at[d] - 1
        BY <1>1, <1>2, <1>6, <2>1 DEF Installed
    <2>3. LookedUp(d) = at[d] + 1 .. Len(req[d])
        BY <1>1, <1>2, <1>3, <1>6, <2>1 DEF LookedUp
    <2>4. Held(d) = 1 .. at[d]
        BY <1>2, <1>3, <1>6, <2>2 DEF Held, Unsettled, Taken
    <2> QED BY <1>3, <1>6, <2>2, <2>3, <2>4 DEF Positions, Unsettled, Taken, Quiet, Copied
<1>7. CASE phase[d] = "dma"
    <2>1. Len(saved[d]) = Len(req[d]) /\ Len(opage[d]) = Len(req[d])
        BY <1>7 DEF Shape, Moving, Quiet
    <2>2. Installed(d) = 1 .. Len(req[d])
        BY <1>1, <1>2, <1>7, <2>1 DEF Installed
    <2>3. LookedUp(d) = {}
        BY <1>7 DEF LookedUp
    <2>4. Copied(d) = 1 .. at[d] - 1
        BY <1>1, <1>2, <1>3, <1>7, <2>1 DEF Copied
    <2> QED BY <1>3, <1>7, <2>2, <2>3, <2>4 DEF Positions, Unsettled, Taken, Held, Quiet
<1>8. CASE phase[d] = "cas"
    <2>1. Len(saved[d]) = Len(req[d]) /\ Len(opage[d]) = Len(req[d])
        BY <1>8 DEF Shape, Moving, Quiet
    <2>2. Installed(d) = at[d] .. Len(req[d])
        BY <1>1, <1>2, <1>3, <1>8, <2>1 DEF Installed
    <2>3. LookedUp(d) = {}
        BY <1>8 DEF LookedUp
    <2>4. Copied(d) = 1 .. Len(req[d])
        BY <1>1, <1>8, <2>1 DEF Copied
    <2> QED BY <1>3, <1>8, <2>2, <2>3, <2>4 DEF Positions, Unsettled, Taken, Held, Quiet
<1>9. CASE phase[d] = "settle"
    <2>1. Len(saved[d]) = Len(req[d]) /\ Len(opage[d]) = Len(req[d])
        BY <1>9 DEF Shape, Moving, Quiet
    <2>2. Installed(d) = at[d] + 1 .. Len(req[d])
        BY <1>1, <1>2, <1>3, <1>9, <2>1 DEF Installed
    <2>3. LookedUp(d) = {}
        BY <1>9 DEF LookedUp
    <2>4. Unsettled(d) = at[d] .. Len(req[d])
        BY <1>1, <1>2, <1>3, <1>9, <2>2 DEF Unsettled
    <2>5. Copied(d) = 1 .. Len(req[d])
        BY <1>1, <1>9, <2>1 DEF Copied
    <2> QED BY <1>3, <1>9, <2>2, <2>3, <2>4, <2>5 DEF Positions, Taken, Held, Quiet
<1>10. CASE phase[d] = "report"
    BY <1>10 DEF Positions, Installed, Unsettled, LookedUp, Taken, Held, Quiet
<1>11. CASE phase[d] = "save"
    <2>1. Len(saved[d]) = at[d] /\ Len(opage[d]) = Len(req[d])
        BY <1>11 DEF Shape, Quiet
    <2>2. Installed(d) = 1 .. at[d]
        BY <1>1, <1>11, <2>1 DEF Installed
    <2>3. LookedUp(d) = at[d] .. Len(req[d])
        BY <1>1, <1>2, <1>3, <1>11, <2>1 DEF LookedUp
    <2> QED BY <1>3, <1>11, <2>2, <2>3 DEF Positions, Unsettled, Taken, Held, Quiet, Copied
<1> QED BY <1>2, <1>4, <1>5, <1>6, <1>7, <1>8, <1>9, <1>10, <1>11 DEF Phases, Quiet

\* A device that does nothing keeps its positions.
LEMMA Bystander ==
    ASSUME NEW d \in Device, phase'[d] = phase[d], req'[d] = req[d], at'[d] = at[d],
           opage'[d] = opage[d], saved'[d] = saved[d]
    PROVE  /\ Unsettled(d)' = Unsettled(d) /\ Installed(d)' = Installed(d)
           /\ LookedUp(d)' = LookedUp(d) /\ Taken(d)' = Taken(d)
           /\ Held(d)' = Held(d) /\ Copied(d)' = Copied(d)
           /\ Shape(d) => Shape(d)'
BY DEF Unsettled, Installed, LookedUp, Taken, Held, Copied, Shape

-----------------------------------------------------------------------------
(***************************************************************************)
(* Types and shapes are kept by every action.                              *)
(***************************************************************************)
\* The variables of the driver are as they were.
LEMMA DriverRests ==
    ASSUME UNCHANGED driver
    PROVE  /\ \A d \in Device : /\ Unsettled(d)' = Unsettled(d) /\ Installed(d)' = Installed(d)
                                /\ LookedUp(d)' = LookedUp(d) /\ Taken(d)' = Taken(d)
                                /\ Held(d)' = Held(d) /\ Copied(d)' = Copied(d)
           /\ (\A d \in Device : Shape(d)) => (\A d \in Device : Shape(d))'
           /\ HoldersApart => HoldersApart'
           /\ KindKnown => KindKnown'
<1>1. /\ phase' = phase /\ req' = req /\ at' = at /\ opage' = opage /\ saved' = saved
    BY DEF driver
<1>2. \A d \in Device : /\ Unsettled(d)' = Unsettled(d) /\ Installed(d)' = Installed(d)
                        /\ LookedUp(d)' = LookedUp(d) /\ Taken(d)' = Taken(d)
                        /\ Held(d)' = Held(d) /\ Copied(d)' = Copied(d)
                        /\ Shape(d) => Shape(d)'
    BY <1>1, Bystander
<1>3. HoldersApart => HoldersApart'
    BY <1>1, <1>2 DEF HoldersApart
<1>4. KindKnown => KindKnown'
    BY <1>1 DEF KindKnown, driver
<1> QED BY <1>2, <1>3, <1>4

\* A variable that holds a function keeps its type when one value is replaced.
LEMMA ProgramTypes ==
    ASSUME Typed, NEW v \in Page, Program(v)
    PROVE  Typed' /\ UNCHANGED <<frames, driver>> /\ \A u \in Page : pte'[u].frame = pte[u].frame
<1>1. /\ pte \in [Page -> Entry] /\ tlb \in [Page -> Cached]
      /\ pte[v] \in Entry /\ pte[v].frame \in Frame /\ pte[v].dirty \in BOOLEAN
    BY EntryFields DEF Typed, TypeOK, Cached
<1>2. MaxWrites \in Nat /\ writes \in 0 .. MaxWrites /\ (tlb[v] # None => tlb[v].frame \in Frame)
    BY <1>1, PageMigAssumption DEF Typed, TypeOK, Cached
<1>3. UNCHANGED <<frames, driver>>
    BY DEF Program, Write, Read, Evict
<1>4. pte' \in [Page -> Entry] /\ \A u \in Page : pte'[u].frame = pte[u].frame
    <2>1. CASE Write(v)
        <3> DEFINE new == [frame |-> pte[v].frame, young |-> TRUE, dirty |-> TRUE]
        <3>1. pte' = pte \/ pte' = [pte EXCEPT ![v] = new]
            BY <2>1 DEF Write
        <3>2. new \in Entry /\ new.frame = pte[v].frame
            BY <1>1, NewEntry
        <3> HIDE DEF new
        <3> QED BY <1>1, <3>1, <3>2
    <2>2. CASE Read(v)
        <3> DEFINE new == [pte[v] EXCEPT !.young = TRUE]
        <3>1. pte' = [pte EXCEPT ![v] = new]
            BY <2>2 DEF Read
        <3>2. new \in Entry /\ new.frame = pte[v].frame
            BY <1>1, Aged
        <3> HIDE DEF new
        <3> QED BY <1>1, <3>1, <3>2
    <2>3. CASE Evict(v)
        BY <1>1, <2>3 DEF Evict
    <2> QED BY <2>1, <2>2, <2>3 DEF Program
<1>5. tlb' \in [Page -> Cached]
    <2>1. CASE Write(v)
        <3> DEFINE new == [frame |-> pte[v].frame, dirty |-> TRUE]
        <3>1. tlb' = tlb \/ tlb' = [tlb EXCEPT ![v] = new]
            BY <2>1 DEF Write
        <3>2. new \in Cached
            BY <1>1, Translation
        <3> HIDE DEF new
        <3> QED BY <1>1, <3>1, <3>2
    <2>2. CASE Read(v)
        <3> DEFINE new == [frame |-> pte[v].frame, dirty |-> pte[v].dirty]
        <3>1. tlb' = [tlb EXCEPT ![v] = new]
            BY <2>2 DEF Read
        <3>2. new \in Cached
            BY <1>1, Translation
        <3> HIDE DEF new
        <3> QED BY <1>1, <3>1, <3>2
    <2>3. CASE Evict(v)
        BY <1>1, <2>3 DEF Evict, Cached
    <2> QED BY <2>1, <2>2, <2>3 DEF Program
<1>6. /\ content' \in [Frame -> (Page \X (0..MaxWrites)) \cup {None}]
      /\ writes' \in 0..MaxWrites /\ written' \in [Page -> 0..MaxWrites]
      /\ stale' \in BOOLEAN /\ raced' = raced /\ gap' \subseteq Page /\ hurried' = hurried
    <2>1. CASE Write(v)
        <3> DEFINE frame == IF tlb[v] # None /\ tlb[v].dirty THEN tlb[v].frame ELSE pte[v].frame
        <3>1. frame \in Frame /\ Store(v, frame) /\ raced' = raced /\ hurried' = hurried
            BY <1>1, <1>2, <2>1 DEF Write
        <3>2. stale' \in BOOLEAN
            BY <1>1, <2>1 DEF Write, Typed, TypeOK
        <3> HIDE DEF frame
        <3>3. CASE UNCHANGED <<content, writes, written, gap>>
            BY <3>1, <3>2, <3>3 DEF Typed, TypeOK
        <3>4. CASE ~UNCHANGED <<content, writes, written, gap>>
            <4>1. /\ writes + 1 \in 0 .. MaxWrites /\ writes' = writes + 1
                  /\ content' = [content EXCEPT ![frame] = <<v, writes + 1>>]
                  /\ written' = [written EXCEPT ![v] = writes + 1]
                  /\ gap' = gap \cup {v} \/ gap' = gap
                BY <1>2, <3>1, <3>4 DEF Store
            <4>2. content' \in [Frame -> (Page \X (0..MaxWrites)) \cup {None}]
                BY <3>1, <4>1 DEF Typed, TypeOK
            <4> QED BY <3>1, <3>2, <4>1, <4>2 DEF Typed, TypeOK
        <3> QED BY <3>3, <3>4
    <2>2. CASE Read(v) \/ Evict(v)
        BY <2>2 DEF Read, Evict, history, Typed, TypeOK
    <2> QED BY <2>1, <2>2 DEF Program
<1>7. TypeOK'
    BY <1>3, <1>4, <1>5, <1>6 DEF Typed, TypeOK, frames, driver, Cached
<1> QED BY <1>3, <1>4, <1>7, DriverRests DEF Typed, driver

\* The draining of pagevecs.
LEMMA DrainTypes ==
    ASSUME Typed, RefsBalance, DrainPagevecs
    PROVE  /\ count' \in [Frame -> Nat] /\ place' \in [Frame -> Places]
           /\ \A f \in Frame :
                 /\ place[f] # "pagevec" => count'[f] = count[f] /\ place'[f] = place[f]
                 /\ place[f] = "pagevec" =>
                       /\ count'[f] = count[f] - 1
                       /\ place'[f] = IF count[f] = 1 THEN "free" ELSE "lru"
<1>1. \A f \in Frame : count[f] \in Nat /\ place[f] \in Places
    BY DEF Typed, TypeOK
<1>2. \A f \in Frame : place[f] = "pagevec" => count[f] \in Nat \ {0}
    BY <1>1 DEF RefsBalance
<1>3. \A f \in Frame :
          /\ place[f] # "pagevec" => count'[f] = count[f] /\ place'[f] = place[f]
          /\ place[f] = "pagevec" => /\ count'[f] = count[f] - 1
                                     /\ place'[f] = IF count[f] = 1 THEN "free" ELSE "lru"
    BY DEF DrainPagevecs
<1>4. \A f \in Frame : count'[f] \in Nat /\ place'[f] \in Places
    BY <1>1, <1>2, <1>3 DEF Places
<1> QED BY <1>3, <1>4 DEF DrainPagevecs

LEMMA BeginTypes ==
    ASSUME SmallOrAlone, Typed, NEW d \in Device, NEW r \in Requests, phase[d] \in {"idle", "worker"},
           Begin(d, r)
    PROVE  /\ KindKnown' /\ phase' \in [Device -> Phases]
           /\ req' \in [Device -> Requests \cup {<<>>}] /\ at' \in [Device -> Nat \ {0}]
           /\ \A e \in Device : at'[e] \in 1..Len(req'[e]) \/ phase'[e] \in {"idle", "report", "worker"}
           /\ \A e \in Device : Shape(e)'
           /\ \A e \in Device : /\ Unsettled(e)' = Unsettled(e) /\ Installed(e)' = Installed(e)
                                /\ LookedUp(e)' = LookedUp(e) /\ Taken(e)' = Taken(e)
                                /\ Held(e)' = Held(e) /\ saved'[e] = saved[e] /\ opage'[e] = opage[e]
                                /\ \A i \in Held(e) \cup LookedUp(e) : req'[e][i] = req[e][i]
                                /\ \A i \in Installed(e) : i \in Copied(e)' <=> i \in Copied(e)
<1>1. r \in Seq(Page) /\ r # <<>> /\ Len(r) \in Nat \ {0} /\ 1 \in 1 .. Len(r)
    BY PageMigAssumption
<1>2. /\ phase'[d] = "follow" /\ req'[d] = r /\ at'[d] = 1
      /\ phase' \in [Device -> Phases] /\ req' \in [Device -> Requests \cup {<<>>}]
      /\ at' \in [Device -> Nat \ {0}]
      /\ opage' = opage /\ saved' = saved
    BY DEF Begin, Goto, Typed, TypeOK, Phases
<1>3. \A e \in Device : e # d => phase'[e] = phase[e] /\ req'[e] = req[e] /\ at'[e] = at[e]
    BY DEF Begin, Goto, Typed, TypeOK
<1>4. KindKnown'
    <2> SUFFICES ASSUME NEW e \in Device, phase'[e] \notin Resting
                 PROVE  hugePage' = (req'[e][1] \in Huge)
        BY DEF KindKnown
    <2>1. hugePage' = (r[1] \in Huge)
        BY DEF Begin
    <2>2. CASE e = d
        BY <1>2, <2>1, <2>2
    <2>3. CASE e # d
        <3>1. Huge = {}
            BY <2>3 DEF SmallOrAlone
        <3>2. r[1] \notin Huge /\ req'[e][1] \notin Huge
            BY <3>1
        <3>3. (r[1] \in Huge) = (req'[e][1] \in Huge)
            BY <3>2, SMT
        <3> QED BY <2>1, <3>3
    <2> QED BY <2>2, <2>3
<1>5. opage[d] = <<>> /\ saved[d] = <<>>
    BY DEF Typed, Shape, Quiet
<1>6. Shape(d)'
    BY <1>2, <1>5 DEF Shape, Quiet, Filling, Moving
<1>7. \A e \in Device : e # d =>
          /\ Unsettled(e)' = Unsettled(e) /\ Installed(e)' = Installed(e)
          /\ LookedUp(e)' = LookedUp(e) /\ Taken(e)' = Taken(e)
          /\ Held(e)' = Held(e) /\ Copied(e)' = Copied(e) /\ Shape(e)'
    BY <1>2, <1>3, Bystander DEF Typed
<1>8. /\ Unsettled(d) = {} /\ Installed(d) = {} /\ LookedUp(d) = {} /\ Taken(d) = {} /\ Held(d) = {}
    BY PositionsHold DEF Typed, Positions, Quiet
<1>9. /\ Unsettled(d)' = {} /\ Installed(d)' = {} /\ LookedUp(d)' = {} /\ Taken(d)' = {} /\ Held(d)' = {}
    BY <1>2, <1>5 DEF Unsettled, Installed, LookedUp, Taken, Held
<1>10. \A e \in Device : at'[e] \in 1..Len(req'[e]) \/ phase'[e] \in {"idle", "report", "worker"}
    BY <1>1, <1>2, <1>3 DEF Typed, TypeOK
<1> QED BY <1>2, <1>3, <1>4, <1>6, <1>7, <1>8, <1>9, <1>10

-----------------------------------------------------------------------------
(***************************************************************************)
(* What an action of device d does to its positions.                       *)
(***************************************************************************)
AllPositions == \A d \in Device : Positions(d)

LEMMA AllPositionsHold == Typed => AllPositions
BY PositionsHold DEF Typed, AllPositions

Still(d) == /\ phase'[d] = phase[d] /\ req'[d] = req[d] /\ at'[d] = at[d]
            /\ opage'[d] = opage[d] /\ saved'[d] = saved[d]

SamePositions(d) ==
    /\ Unsettled(d)' = Unsettled(d) /\ Installed(d)' = Installed(d)
    /\ LookedUp(d)' = LookedUp(d) /\ Taken(d)' = Taken(d)
    /\ Held(d)' = Held(d) /\ Copied(d)' = Copied(d)

\* The others do nothing.
OthersStill(d) == \A e \in Device \ {d} : Still(e) /\ SamePositions(e)

LEMMA OthersRest ==
    ASSUME Typed, NEW d \in Device, \A e \in Device \ {d} : Still(e)
    PROVE  OthersStill(d) /\ \A e \in Device \ {d} : Shape(e)'
BY Bystander DEF Typed, OthersStill, Still, SamePositions

\* The kind of a request does not change.
LEMMA KindKept ==
    ASSUME KindKnown, NEW d \in Device, hugePage' = hugePage, \A e \in Device \ {d} : Still(e),
           phase'[d] \in Resting \/ (req'[d] = req[d] /\ phase[d] \notin Resting)
    PROVE  KindKnown'
<1> SUFFICES ASSUME NEW e \in Device, phase'[e] \notin Resting
             PROVE  hugePage' = (req'[e][1] \in Huge)
    BY DEF KindKnown
<1>1. req'[e] = req[e] /\ phase[e] \notin Resting
    BY DEF Still
<1> QED BY <1>1 DEF KindKnown

LEMMA Positioned ==
    ASSUME Typed, Typed', NEW d \in Device
    PROVE  Positions(d) /\ Positions(d)'
<1>1. Typed => AllPositions
    BY AllPositionsHold
<1>2. Typed' => AllPositions'
    BY AllPositionsHold, PTL
<1> QED BY <1>1, <1>2 DEF AllPositions

LEMMA ReportEffect ==
    ASSUME Typed, NEW d \in Device, Report(d)
    PROVE  /\ Typed' /\ OthersStill(d) /\ UNCHANGED <<program, frames, history>>
           /\ Unsettled(d) = {} /\ Held(d) = {} /\ Installed(d) = {} /\ LookedUp(d) = {} /\ Taken(d) = {}
           /\ Unsettled(d)' = {} /\ Held(d)' = {} /\ Installed(d)' = {} /\ LookedUp(d)' = {} /\ Taken(d)' = {}
           /\ saved'[d] = <<>> /\ phase'[d] = "worker" /\ phase[d] = "report"
<1>1. /\ phase[d] = "report" /\ phase'[d] = "worker" /\ saved'[d] = <<>> /\ opage'[d] = <<>>
      /\ phase' \in [Device -> Phases] /\ at' = at
      /\ req' \in [Device -> Requests \cup {<<>>}]
      /\ opage' \in [Device -> Seq(Frame)] /\ saved' \in [Device -> Seq(Entry)]
      /\ UNCHANGED <<program, frames, hugePage, history>> /\ polled' \subseteq Device
    BY DEF Report, Goto, Typed, TypeOK, Phases
<1>2. \A e \in Device \ {d} : Still(e)
    BY DEF Report, Goto, Typed, TypeOK, Still
<1>3. TypeOK'
    BY <1>1, <1>2 DEF Typed, TypeOK, Still, program, frames, history
<1>4. Shape(d)'
    BY <1>1 DEF Shape, Quiet, Filling, Moving
<1>5. Typed'
    BY <1>1, <1>2, <1>3, <1>4, OthersRest, KindKept DEF Typed, Resting
<1> QED BY <1>1, <1>2, <1>5, OthersRest, Positioned DEF Positions, Quiet

LEMMA WorkEndEffect ==
    ASSUME Typed, NEW d \in Device, WorkEnd(d)
    PROVE  /\ Typed' /\ OthersStill(d) /\ UNCHANGED <<program, frames, history, saved, opage, req>>
           /\ Unsettled(d) = {} /\ Held(d) = {} /\ Installed(d) = {} /\ LookedUp(d) = {} /\ Taken(d) = {}
           /\ Unsettled(d)' = {} /\ Held(d)' = {} /\ Installed(d)' = {} /\ LookedUp(d)' = {} /\ Taken(d)' = {}
           /\ phase'[d] = "idle" /\ phase[d] = "worker"
<1>1. /\ phase[d] = "worker" /\ phase'[d] = "idle"
      /\ phase' \in [Device -> Phases]
      /\ UNCHANGED <<program, frames, hugePage, req, at, opage, saved, polled, history>>
    BY DEF WorkEnd, Goto, Typed, TypeOK, Phases
<1>2. \A e \in Device \ {d} : Still(e)
    BY DEF WorkEnd, Goto, Typed, TypeOK, Still
<1>3. TypeOK'
    BY <1>1, <1>2 DEF Typed, TypeOK, Still, program, frames, history
<1>4. Shape(d)'
    BY <1>1 DEF Shape, Quiet, Filling, Moving, Typed
<1>5. Typed'
    BY <1>1, <1>2, <1>3, <1>4, OthersRest, KindKept DEF Typed, Resting
<1> QED BY <1>1, <1>2, <1>5, OthersRest, Positioned DEF Positions, Quiet

LEMMA FollowEffect ==
    ASSUME Typed, NEW d \in Device, Follow(d)
    PROVE  /\ Typed' /\ OthersStill(d) /\ UNCHANGED <<program, place, locked, anon, history, saved, req>>
           /\ Unsettled(d) = {} /\ Held(d) = {} /\ Installed(d) = {} /\ LookedUp(d) = {} /\ Taken(d) = {}
           /\ Unsettled(d)' = {} /\ Held(d)' = {} /\ Installed(d)' = {} /\ Taken(d)' = {}
           /\ LookedUp(d)' = 1 .. Len(req[d])
           /\ \A i \in 1 .. Len(req[d]) : opage'[d][i] = pte[req[d][i]].frame
           /\ \A f \in Frame : count'[f] = IF \E i \in 1 .. Len(req[d]) : pte[req[d][i]].frame = f
                                           THEN count[f] + 1 ELSE count[f]
           /\ phase'[d] = "isolate" /\ phase[d] = "follow"
<1> DEFINE found == [i \in DOMAIN req[d] |-> pte[req[d][i]].frame]
<1>1. /\ req[d] \in Seq(Page) /\ Len(req[d]) \in Nat /\ DOMAIN req[d] = 1 .. Len(req[d])
      /\ \A i \in 1 .. Len(req[d]) : req[d][i] \in Page
    BY Types DEF Typed
<1>2. \A v \in Page : pte[v].frame \in Frame
    BY EntryFields DEF Typed, TypeOK
<1>3. found \in Seq(Frame) /\ Len(found) = Len(req[d]) /\ DOMAIN found = 1 .. Len(req[d])
    BY <1>1, <1>2
<1>4. ToSet(found) = {pte[req[d][i]].frame : i \in 1 .. Len(req[d])}
    BY <1>1 DEF ToSet
<1>5. \A i \in 1 .. Len(req[d]) : found[i] = pte[req[d][i]].frame
    BY <1>1
<1>6. opage' = [opage EXCEPT ![d] = found]
    BY DEF Follow
<1>7. count' = [f \in Frame |-> IF f \in ToSet(found) THEN count[f] + 1 ELSE count[f]]
    BY DEF Follow
<1> HIDE DEF found
<1>8. /\ phase[d] = "follow" /\ phase'[d] = "isolate" /\ phase' \in [Device -> Phases]
      /\ UNCHANGED <<program, place, locked, anon, hugePage, req, at, saved, polled, history>>
    BY DEF Follow, Goto, Typed, TypeOK, Phases
<1>9. /\ opage'[d] = found /\ opage' \in [Device -> Seq(Frame)]
      /\ \A e \in Device \ {d} : opage'[e] = opage[e]
    BY <1>3, <1>6 DEF Typed, TypeOK
<1>10. count' \in [Frame -> Nat]
    BY <1>7 DEF Typed, TypeOK
<1>11. \A e \in Device \ {d} : Still(e)
    BY <1>8, <1>9 DEF Follow, Goto, Typed, TypeOK, Still
<1>12. at[d] = 1 /\ saved[d] = <<>>
    BY <1>8 DEF Typed, Shape, Quiet
<1>13. TypeOK'
    BY <1>8, <1>9, <1>10, <1>11 DEF Typed, TypeOK, Still, program, history
<1>14. Shape(d)'
    BY <1>3, <1>8, <1>9, <1>12 DEF Shape, Quiet, Filling, Moving
<1>15. Typed'
    BY <1>8, <1>11, <1>13, <1>14, OthersRest, KindKept DEF Typed, Resting
<1>16. Positions(d) /\ Positions(d)'
    BY <1>15, Positioned
<1>17. Unsettled(d)' = {} /\ Held(d)' = {} /\ Installed(d)' = {} /\ Taken(d)' = {} /\ LookedUp(d)' = 1 .. Len(req[d])
    BY <1>8, <1>12, <1>16 DEF Positions, Quiet
<1> QED BY <1>4, <1>5, <1>7, <1>8, <1>9, <1>11, <1>15, <1>16, <1>17, OthersRest DEF Positions, Quiet

LEMMA NextPageTypes ==
    ASSUME Typed, NEW d \in Device, NEW again \in Phases, NEW label \in Phases, NextPage(d, again, label),
           req' = req, at[d] \in 1 .. Len(req[d])
    PROVE  /\ phase' \in [Device -> Phases] /\ at' \in [Device -> Nat \ {0}]
           /\ \A e \in Device \ {d} : phase'[e] = phase[e] /\ at'[e] = at[e]
           /\ at[d] < Len(req[d]) => at'[d] = at[d] + 1 /\ phase'[d] = again
           /\ ~(at[d] < Len(req[d])) => at'[d] = 1 /\ phase'[d] = label
           /\ \A e \in Device : at'[e] \in 1..Len(req'[e]) \/ phase'[e] \in {"idle", "report", "worker"}
<1>1. at[d] \in Nat \ {0} /\ at[d] + 1 \in Nat \ {0} /\ 1 \in Nat \ {0}
    BY DEF Typed, TypeOK
<1>2. phase \in [Device -> Phases] /\ at \in [Device -> Nat \ {0}]
    BY DEF Typed, TypeOK
<1> DEFINE Stepped == /\ phase' \in [Device -> Phases] /\ at' \in [Device -> Nat \ {0}]
                      /\ \A e \in Device \ {d} : phase'[e] = phase[e] /\ at'[e] = at[e]
                      /\ at[d] < Len(req[d]) => at'[d] = at[d] + 1 /\ phase'[d] = again
                      /\ ~(at[d] < Len(req[d])) => at'[d] = 1 /\ phase'[d] = label
<1>3. ASSUME at[d] < Len(req[d]) PROVE Stepped
    BY <1>1, <1>2, <1>3 DEF NextPage, Goto
<1>4. ASSUME ~(at[d] < Len(req[d])) PROVE Stepped
    BY <1>1, <1>2, <1>4 DEF NextPage, Goto
<1>5. Stepped
    BY <1>3, <1>4
<1>6. at'[d] \in 1 .. Len(req[d])
    <2>1. Len(req[d]) \in Nat
        BY Types DEF Typed
    <2> QED BY <1>1, <1>5, <2>1
<1>7. \A e \in Device \ {d} : at[e] \in 1..Len(req[e]) \/ phase[e] \in {"idle", "report", "worker"}
    BY DEF Typed, TypeOK
<1> QED BY <1>5, <1>6, <1>7

\* A page that is on its list is isolated.  One that is not stops the device, if it is small;
\* a huge one only loses the reference.
LEMMA IsolateEffect ==
    ASSUME Typed, NEW d \in Device, Isolate(d), count[opage[d][at[d]]] \in Nat \ {0}
    PROVE  /\ Typed' /\ OthersStill(d) /\ UNCHANGED <<program, locked, anon, history, saved, opage, req>>
           /\ Unsettled(d)' = Unsettled(d) /\ Installed(d)' = Installed(d)
           /\ Copied(d)' = Copied(d) /\ Taken(d) = {}
           /\ opage[d][at[d]] \in Frame /\ phase'[d] # "bug_replace" /\ phase[d] # "bug_replace"
           /\ phase'[d] # "save" /\ at[d] \in LookedUp(d) /\ at[d] \notin Held(d)
           /\ \/ /\ UNCHANGED <<place, count>>
                 /\ Held(d)' = Held(d) /\ LookedUp(d)' = LookedUp(d) /\ Taken(d)' = {}
              \/ /\ \/ /\ place[opage[d][at[d]]] \in {"lru", "active"}
                       /\ place' = [place EXCEPT ![opage[d][at[d]]] = "isolated"]
                       /\ UNCHANGED count
                    \/ /\ place[opage[d][at[d]]] # "active" /\ req[d][1] \in Huge
                       /\ count' = [count EXCEPT ![opage[d][at[d]]] = @ - 1]
                       /\ UNCHANGED place
                 /\ Held(d)' = Held(d) \cup {at[d]} /\ LookedUp(d)' = LookedUp(d) \ {at[d]}
                 /\ Taken(d)' = {at[d]} /\ phase'[d] = "replace"
<1> DEFINE p == opage[d][at[d]]
<1>1. /\ phase[d] = "isolate" /\ UNCHANGED <<program, locked, anon, hugePage, req, at, opage, saved, polled, history>>
    BY DEF Isolate
<1>2. /\ Len(opage[d]) = Len(req[d]) /\ at[d] \in 1 .. Len(req[d]) /\ Len(saved[d]) + 1 = at[d]
    BY <1>1 DEF Typed, TypeOK, Shape, Quiet, Filling
<1>3. p \in Frame /\ Len(req[d]) \in Nat
    BY <1>2, Types DEF Typed
<1>4. count[p] \in Nat \ {0}
    OBVIOUS
<1>5. opage[d][at[d]] = p
    OBVIOUS
<1> DEFINE Isolating == \/ /\ place[p] \in {"lru", "active"}
                           /\ place' = [place EXCEPT ![p] = "isolated"]
                           /\ UNCHANGED count
                        \/ /\ place[p] # "active" /\ req[d][1] \in Huge
                           /\ count' = [count EXCEPT ![p] = @ - 1]
                           /\ UNCHANGED place
<1>6. \/ phase'[d] = "replace" /\ Isolating
      \/ phase'[d] = "bug_isolate" /\ UNCHANGED <<place, count>>
    <2> HIDE DEF p
    <2>1. \/ place' = [place EXCEPT ![p] = "isolated"] /\ Goto(d, "replace") /\ UNCHANGED count
             /\ place[p] = (IF req[d][1] \in Huge THEN "active" ELSE "lru")
          \/ count' = [count EXCEPT ![p] = @ - 1] /\ Goto(d, "replace") /\ UNCHANGED place
             /\ place[p] # "active" /\ req[d][1] \in Huge
          \/ Goto(d, "bug_isolate") /\ UNCHANGED <<place, count>>
        BY <1>5 DEF Isolate
    <2>2. \A label \in Phases : Goto(d, label) => phase'[d] = label
        BY DEF Goto, Typed, TypeOK
    <2> QED BY <2>1, <2>2 DEF Phases
<1>7. \A e \in Device \ {d} : Still(e)
    BY <1>1 DEF Isolate, Goto, Typed, TypeOK, Still
<1>8. phase' \in [Device -> Phases]
    BY DEF Isolate, Goto, Typed, TypeOK, Phases
<1>9. place' \in [Frame -> Places] /\ count' \in [Frame -> Nat]
    <2> HIDE DEF p
    <2>1. count[p] - 1 \in Nat /\ "isolated" \in Places
        BY <1>4 DEF Places
    <2> QED BY <1>6, <2>1 DEF Typed, TypeOK
<1> HIDE DEF p
<1>10. TypeOK'
    BY <1>1, <1>2, <1>7, <1>8, <1>9 DEF Typed, TypeOK, Still, program, history
<1>11. Shape(d)'
    BY <1>1, <1>2, <1>6 DEF Shape, Quiet, Filling, Moving
<1>12. Typed'
    BY <1>1, <1>7, <1>10, <1>11, OthersRest, KindKept DEF Typed, Resting
<1>13. Positions(d) /\ Positions(d)'
    BY <1>12, Positioned
<1>14. /\ Unsettled(d) = 1 .. at[d] - 1 /\ Installed(d) = 1 .. at[d] - 1
       /\ LookedUp(d) = at[d] .. Len(req[d]) /\ Taken(d) = {}
       /\ Held(d) = 1 .. at[d] - 1 /\ Copied(d) = {}
    BY <1>1, <1>13 DEF Positions
<1>15. at[d] \in LookedUp(d) /\ at[d] \notin Held(d)
    BY <1>2, <1>3, <1>14
<1>16. CASE phase'[d] = "bug_isolate" /\ UNCHANGED <<place, count>>
    <2>1. /\ Unsettled(d)' = 1 .. at[d] - 1 /\ Installed(d)' = 1 .. at[d] - 1
          /\ LookedUp(d)' = at[d] .. Len(req[d]) /\ Taken(d)' = {}
          /\ Held(d)' = 1 .. at[d] - 1 /\ Copied(d)' = {}
        BY <1>1, <1>13, <1>16 DEF Positions
    <2> QED BY <1>1, <1>3, <1>5, <1>7, <1>12, <1>14, <1>15, <1>16, <2>1, OthersRest
<1>17. CASE phase'[d] = "replace" /\ Isolating
    <2> HIDE DEF Isolating
    <2>1. /\ Unsettled(d)' = 1 .. at[d] - 1 /\ Installed(d)' = 1 .. at[d] - 1
          /\ LookedUp(d)' = at[d] + 1 .. Len(req[d]) /\ Taken(d)' = {at[d]}
          /\ Held(d)' = 1 .. at[d] /\ Copied(d)' = {}
        BY <1>1, <1>13, <1>17 DEF Positions
    <2>2. /\ Held(d)' = Held(d) \cup {at[d]} /\ LookedUp(d)' = LookedUp(d) \ {at[d]}
        BY <1>2, <1>3, <1>14, <2>1
    <2>3. \/ /\ place[opage[d][at[d]]] \in {"lru", "active"}
             /\ place' = [place EXCEPT ![opage[d][at[d]]] = "isolated"]
             /\ UNCHANGED count
          \/ /\ place[opage[d][at[d]]] # "active" /\ req[d][1] \in Huge
             /\ count' = [count EXCEPT ![opage[d][at[d]]] = @ - 1]
             /\ UNCHANGED place
        BY <1>5, <1>17 DEF Isolating
    <2> QED BY <1>1, <1>3, <1>5, <1>7, <1>12, <1>14, <1>15, <1>17, <2>1, <2>2, <2>3, OthersRest
<1> QED BY <1>6, <1>16, <1>17

\* The device stops at BUG_ON.
LEMMA StopEffect ==
    ASSUME Typed, NEW d \in Device, phase[d] = "replace", phase' = [phase EXCEPT ![d] = "bug_replace"],
           UNCHANGED <<program, anon, hugePage, req, at, opage, saved, polled, history>>,
           place' \in [Frame -> Places], count' \in [Frame -> Nat], locked' \subseteq Frame
    PROVE  /\ Typed' /\ OthersStill(d) /\ SamePositions(d)
           /\ phase'[d] = "bug_replace" /\ phase[d] = "replace"
<1>1. phase'[d] = "bug_replace" /\ phase' \in [Device -> Phases] /\ \A e \in Device \ {d} : Still(e)
    BY DEF Typed, TypeOK, Phases, Still
<1>2. TypeOK'
    BY <1>1 DEF Typed, TypeOK, Still, program, history
<1>3. Shape(d)'
    BY <1>1 DEF Typed, Shape, Quiet, Filling, Moving
<1>4. Typed'
    BY <1>1, <1>2, <1>3, OthersRest, KindKept DEF Typed, Resting
<1>5. Positions(d) /\ Positions(d)'
    BY <1>4, Positioned
<1>6. SamePositions(d)
    BY <1>1, <1>5 DEF Positions, SamePositions
<1> QED BY <1>1, <1>4, <1>6, OthersRest

\* The page at which the device is gets a new frame.
LEMMA InstallEffect ==
    ASSUME Typed, NEW d \in Device, NEW new \in Frame, phase[d] = "replace",
           InstallNewPte(req[d][at[d]], new),
           locked' = locked \cup {opage[d][at[d]], new}, anon' = anon \cup {new},
           saved' = [saved EXCEPT ![d] = Append(@, pte'[req[d][at[d]]])],
           Goto(d, "save"),
           UNCHANGED <<tlb, content, hugePage, req, at, opage, polled, history>>
    PROVE  /\ Typed' /\ OthersStill(d)
           /\ opage[d][at[d]] \in Frame /\ req[d][at[d]] \in Page
           /\ pte'[req[d][at[d]]].frame = new /\ pte'[req[d][at[d]]].young /\ ~pte'[req[d][at[d]]].dirty
           /\ \A v \in Page \ {req[d][at[d]]} : pte'[v] = pte[v]
           /\ saved'[d][at[d]] = pte'[req[d][at[d]]]
           /\ \A i \in DOMAIN saved[d] : i \in DOMAIN saved'[d] /\ saved'[d][i] = saved[d][i]
           /\ DOMAIN saved'[d] = DOMAIN saved[d] \cup {at[d]}
           /\ Unsettled(d)' = Unsettled(d) \cup {at[d]} /\ Installed(d)' = Installed(d) \cup {at[d]}
           /\ Copied(d)' = {} /\ Copied(d) = {}
           /\ Held(d)' = Held(d) /\ at[d] \in Held(d) /\ Taken(d) = {at[d]} /\ Taken(d)' = {}
           /\ LookedUp(d)' = LookedUp(d) \cup {at[d]} /\ at[d] \notin LookedUp(d)
           /\ phase'[d] = "save"
           /\ Installed(d) = Unsettled(d) /\ at[d] \notin Unsettled(d) /\ Unsettled(d) = DOMAIN saved[d]
<1> DEFINE v == req[d][at[d]]  old == opage[d][at[d]]
           entry == [frame |-> new, young |-> TRUE, dirty |-> FALSE]
<1>1. /\ Len(opage[d]) = Len(req[d]) /\ at[d] \in 1 .. Len(req[d]) /\ Len(saved[d]) + 1 = at[d]
      /\ Len(req[d]) \in Nat
    BY Types DEF Typed, TypeOK, Shape, Quiet, Filling
<1>2. v \in Page /\ old \in Frame
    BY <1>1, Types DEF Typed
<1>3. entry \in Entry /\ entry.frame = new /\ entry.young = TRUE /\ entry.dirty = FALSE
    BY NewEntry
<1>4. pte' = [pte EXCEPT ![v] = entry]
    BY DEF InstallNewPte
<1> HIDE DEF entry
<1>5. pte' \in [Page -> Entry] /\ pte'[v] = entry /\ \A u \in Page \ {v} : pte'[u] = pte[u]
    BY <1>2, <1>3, <1>4 DEF Typed, TypeOK
<1>6. saved[d] \in Seq(Entry) /\ DOMAIN saved[d] = 1 .. Len(saved[d]) /\ Len(saved[d]) \in Nat
    BY Types DEF Typed
<1>7. saved' = [saved EXCEPT ![d] = Append(saved[d], entry)]
    BY <1>5
<1>8. /\ Append(saved[d], entry) \in Seq(Entry) /\ Len(Append(saved[d], entry)) = at[d]
      /\ Append(saved[d], entry)[at[d]] = entry
      /\ \A i \in 1 .. Len(saved[d]) : Append(saved[d], entry)[i] = saved[d][i]
      /\ DOMAIN Append(saved[d], entry) = 1 .. at[d]
    BY <1>1, <1>3, <1>6
<1>9. saved'[d] = Append(saved[d], entry) /\ saved' \in [Device -> Seq(Entry)]
      /\ \A e \in Device \ {d} : saved'[e] = saved[e]
    BY <1>7, <1>8 DEF Typed, TypeOK
<1>10. /\ phase' \in [Device -> Phases] /\ phase'[d] = "save" /\ at' = at
       /\ \A e \in Device \ {d} : phase'[e] = phase[e]
    BY DEF Goto, Typed, TypeOK, Phases
<1>11. \A e \in Device \ {d} : Still(e)
    BY <1>9, <1>10 DEF Still
<1>12. count' \in [Frame -> Nat] /\ place' \in [Frame -> Places]
    <2>1. count' = [count EXCEPT ![new] = 2] /\ place' = [place EXCEPT ![new] = "fresh"]
        BY DEF InstallNewPte
    <2> QED BY <2>1 DEF Typed, TypeOK, Places
<1>13. TypeOK'
    <2>1. \A e \in Device : at'[e] \in 1..Len(req'[e]) \/ phase'[e] \in {"idle", "report", "worker"}
        BY <1>1, <1>10, <1>11 DEF Typed, TypeOK, Still
    <2>2. locked' \subseteq Frame /\ anon' \subseteq Frame
        BY <1>2 DEF Typed, TypeOK
    <2> QED BY <1>5, <1>9, <1>10, <1>12, <2>1, <2>2 DEF Typed, TypeOK, history
<1>14. Shape(d)'
    BY <1>1, <1>8, <1>9, <1>10 DEF Shape, Quiet, Filling, Moving
<1>15. Typed'
    BY <1>11, <1>13, <1>14, OthersRest, KindKept DEF Typed, Resting
<1>16. Positions(d) /\ Positions(d)'
    BY <1>15, Positioned
<1>17. /\ Unsettled(d) = 1 .. at[d] - 1 /\ Installed(d) = 1 .. at[d] - 1
       /\ LookedUp(d) = at[d] + 1 .. Len(req[d]) /\ Taken(d) = {at[d]}
       /\ Held(d) = 1 .. at[d] /\ Copied(d) = {}
    BY <1>16 DEF Positions
<1>18. /\ Unsettled(d)' = 1 .. at[d] /\ Installed(d)' = 1 .. at[d]
       /\ LookedUp(d)' = at[d] .. Len(req[d]) /\ Taken(d)' = {}
       /\ Held(d)' = 1 .. at[d] /\ Copied(d)' = {}
    BY <1>10, <1>16 DEF Positions
<1>19. /\ Unsettled(d)' = Unsettled(d) \cup {at[d]} /\ Installed(d)' = Installed(d) \cup {at[d]}
       /\ Held(d)' = Held(d) /\ at[d] \in Held(d) /\ at[d] \notin Unsettled(d)
       /\ LookedUp(d)' = LookedUp(d) \cup {at[d]} /\ at[d] \notin LookedUp(d)
       /\ Unsettled(d) = DOMAIN saved[d]
    BY <1>1, <1>6, <1>17, <1>18
<1>20. /\ saved'[d][at[d]] = pte'[v] /\ DOMAIN saved'[d] = DOMAIN saved[d] \cup {at[d]}
       /\ \A i \in DOMAIN saved[d] : i \in DOMAIN saved'[d] /\ saved'[d][i] = saved[d][i]
    BY <1>1, <1>5, <1>6, <1>8, <1>9
<1>21. pte'[v].frame = new /\ pte'[v].young /\ ~pte'[v].dirty
    BY <1>3, <1>5
<1> QED BY <1>2, <1>5, <1>10, <1>11, <1>15, <1>17, <1>18, <1>19, <1>20, <1>21, OthersRest

\* The page whose entry is read back is replaced, and its old frame still referred to.
LEMMA InSave ==
    ASSUME Typed, NEW d \in Device, phase[d] = "save"
    PROVE  /\ at[d] \in 1 .. Len(req[d]) /\ Len(req[d]) \in Nat
           /\ req[d][at[d]] \in Page /\ opage[d][at[d]] \in Frame /\ saved[d][at[d]] \in Entry
           /\ Len(opage[d]) = Len(req[d]) /\ Len(saved[d]) = at[d]
           /\ Unsettled(d) = 1 .. at[d] /\ Installed(d) = 1 .. at[d]
           /\ LookedUp(d) = at[d] .. Len(req[d]) /\ Taken(d) = {}
           /\ Held(d) = 1 .. at[d] /\ Copied(d) = {}
           /\ at[d] \in Installed(d) /\ at[d] \in Unsettled(d) /\ at[d] \in Held(d)
           /\ at[d] \in LookedUp(d)
<1>1. at[d] \in 1 .. Len(req[d]) /\ Len(opage[d]) = Len(req[d]) /\ Len(saved[d]) = at[d]
    BY DEF Typed, TypeOK, Shape, Quiet
<1>2. /\ Len(req[d]) \in Nat /\ req[d][at[d]] \in Page /\ opage[d][at[d]] \in Frame
      /\ at[d] \in 1 .. Len(saved[d])
    BY <1>1, Types DEF Typed
<1>3. saved[d][at[d]] \in Entry
    BY <1>2, Types DEF Typed
<1>4. Positions(d)
    BY PositionsHold DEF Typed
<1>5. at[d] \in at[d] .. Len(req[d]) /\ at[d] \in 1 .. at[d]
    BY <1>1, <1>2
<1> QED BY <1>1, <1>2, <1>3, <1>4, <1>5 DEF Positions

\* The entry is read back, and the reference of the old mapping dropped.
LEMMA SaveEffect ==
    ASSUME Typed, NEW d \in Device, SaveNewPte(d), count[opage[d][at[d]]] \in Nat \ {0, 1}
    PROVE  /\ Typed' /\ OthersStill(d) /\ UNCHANGED <<program, place, locked, anon, req, opage, history>>
           /\ phase[d] = "save" /\ phase'[d] \in {"isolate", "dma"}
           /\ count' = [count EXCEPT ![opage[d][at[d]]] = @ - 1]
           /\ saved'[d][at[d]] = pte[req[d][at[d]]]
           /\ \A i \in Unsettled(d) \ {at[d]} : saved'[d][i] = saved[d][i]
           /\ Unsettled(d)' = Unsettled(d) /\ Installed(d)' = Installed(d)
           /\ Copied(d)' = Copied(d) /\ Held(d)' = Held(d)
           /\ Taken(d)' = {} /\ Taken(d) = {} /\ LookedUp(d)' = LookedUp(d) \ {at[d]}
<1> DEFINE v == req[d][at[d]]  old == opage[d][at[d]]
<1>1. phase[d] = "save" /\ UNCHANGED <<program, locked, anon, hugePage, req, opage, polled, history>>
    BY DEF SaveNewPte
<1>2. /\ at[d] \in 1 .. Len(req[d]) /\ Len(req[d]) \in Nat /\ v \in Page /\ old \in Frame
      /\ Len(opage[d]) = Len(req[d]) /\ Len(saved[d]) = at[d]
      /\ Unsettled(d) = 1 .. at[d] /\ Installed(d) = 1 .. at[d]
      /\ LookedUp(d) = at[d] .. Len(req[d]) /\ Taken(d) = {}
      /\ Held(d) = 1 .. at[d] /\ Copied(d) = {}
    BY <1>1, InSave
<1>3. place' = place /\ place' \in [Frame -> Places] /\ count' \in [Frame -> Nat]
      /\ count' = [count EXCEPT ![old] = count[old] - 1]
    <2>1. /\ count' = [count EXCEPT ![old] = count[old] - 1]
          /\ place' = [place EXCEPT ![old] = IF count[old] = 1 THEN "free" ELSE place[old]]
        BY DEF SaveNewPte
    <2>2. count[old] - 1 \in Nat /\ count[old] # 1
        OBVIOUS
    <2>3. place' = [place EXCEPT ![old] = place[old]]
        BY <2>1, <2>2
    <2> QED BY <1>2, <2>1, <2>2, <2>3 DEF Typed, TypeOK
<1> DEFINE entry == pte[v]
<1>4. entry \in Entry /\ saved[d] \in Seq(Entry) /\ DOMAIN saved[d] = 1 .. at[d]
    BY <1>2, Types DEF Typed, TypeOK
<1>5. saved' = [saved EXCEPT ![d] = [saved[d] EXCEPT ![at[d]] = entry]]
    BY DEF SaveNewPte
<1> HIDE DEF entry
<1>6. /\ [saved[d] EXCEPT ![at[d]] = entry] \in Seq(Entry)
      /\ Len([saved[d] EXCEPT ![at[d]] = entry]) = at[d]
      /\ [saved[d] EXCEPT ![at[d]] = entry][at[d]] = entry
      /\ \A i \in 1 .. at[d] : i # at[d] => [saved[d] EXCEPT ![at[d]] = entry][i] = saved[d][i]
    BY <1>2, <1>4
<1>7. /\ saved'[d] = [saved[d] EXCEPT ![at[d]] = entry] /\ saved' \in [Device -> Seq(Entry)]
      /\ \A e \in Device \ {d} : saved'[e] = saved[e]
    BY <1>5, <1>6 DEF Typed, TypeOK
<1>8. NextPage(d, "isolate", "dma")
    BY DEF SaveNewPte
<1>9. /\ phase' \in [Device -> Phases] /\ at' \in [Device -> Nat \ {0}]
      /\ \A e \in Device \ {d} : phase'[e] = phase[e] /\ at'[e] = at[e]
      /\ at[d] < Len(req[d]) => at'[d] = at[d] + 1 /\ phase'[d] = "isolate"
      /\ ~(at[d] < Len(req[d])) => at'[d] = 1 /\ phase'[d] = "dma"
      /\ \A e \in Device : at'[e] \in 1..Len(req'[e]) \/ phase'[e] \in {"idle", "report", "worker"}
    BY <1>1, <1>2, <1>8, NextPageTypes DEF Phases
<1>10. \A e \in Device \ {d} : Still(e)
    BY <1>1, <1>7, <1>9 DEF Still
<1>11. TypeOK'
    BY <1>1, <1>3, <1>7, <1>9 DEF Typed, TypeOK, program, history
<1>12. Shape(d)'
    BY <1>1, <1>2, <1>6, <1>7, <1>9 DEF Shape, Quiet, Filling, Moving
<1>13. Typed'
    BY <1>1, <1>10, <1>11, <1>12, OthersRest, KindKept DEF Typed, Resting
<1>14. Positions(d)'
    BY <1>13, Positioned
<1>15. /\ Unsettled(d)' = 1 .. at[d] /\ Installed(d)' = 1 .. at[d]
       /\ LookedUp(d)' = at[d] + 1 .. Len(req[d]) /\ Taken(d)' = {}
       /\ Held(d)' = 1 .. at[d] /\ Copied(d)' = {} /\ phase'[d] \in {"isolate", "dma"}
    <2>1. CASE at[d] < Len(req[d])
        BY <1>1, <1>2, <1>9, <1>14, <2>1 DEF Positions
    <2>2. CASE ~(at[d] < Len(req[d]))
        <3>1. at[d] = Len(req[d]) /\ at'[d] = 1 /\ phase'[d] = "dma" /\ req'[d] = req[d]
            BY <1>1, <1>2, <1>9, <2>2
        <3>2. /\ Unsettled(d)' = 1 .. Len(req'[d]) /\ Installed(d)' = 1 .. Len(req'[d])
              /\ LookedUp(d)' = {} /\ Taken(d)' = {}
              /\ Held(d)' = 1 .. Len(req'[d]) /\ Copied(d)' = 1 .. at'[d] - 1
            BY <1>14, <3>1 DEF Positions
        <3>3. 1 .. at'[d] - 1 = {} /\ at[d] + 1 .. Len(req[d]) = {}
            BY <1>2, <3>1
        <3> QED BY <3>1, <3>2, <3>3
    <2> QED BY <2>1, <2>2
<1>16. LookedUp(d)' = LookedUp(d) \ {at[d]}
    BY <1>2, <1>15
<1>17. /\ saved'[d][at[d]] = pte[req[d][at[d]]]
       /\ \A i \in Unsettled(d) \ {at[d]} : saved'[d][i] = saved[d][i]
    BY <1>2, <1>6, <1>7 DEF entry
<1>18. count' = [count EXCEPT ![opage[d][at[d]]] = @ - 1]
    BY <1>3
<1> QED BY <1>1, <1>2, <1>3, <1>10, <1>13, <1>15, <1>16, <1>17, <1>18, OthersRest

\* The position at which a device is in a transfer.
LEMMA InTransfer ==
    ASSUME Typed, NEW d \in Device, phase[d] \in {"dma", "cas", "settle"}
    PROVE  /\ at[d] \in 1 .. Len(req[d]) /\ Len(req[d]) \in Nat
           /\ req[d][at[d]] \in Page /\ opage[d][at[d]] \in Frame
           /\ saved[d][at[d]] \in Entry /\ saved[d][at[d]].frame \in Frame
           /\ Len(opage[d]) = Len(req[d]) /\ Len(saved[d]) = Len(req[d])
           /\ at[d] \in Unsettled(d) /\ at[d] \in Held(d) /\ LookedUp(d) = {} /\ Taken(d) = {}
           /\ Held(d) = Unsettled(d)
<1>1. /\ at[d] \in 1 .. Len(req[d]) /\ Len(opage[d]) = Len(req[d]) /\ Len(saved[d]) = Len(req[d])
    BY DEF Typed, TypeOK, Shape, Quiet, Moving
<1>2. /\ Len(req[d]) \in Nat /\ req[d][at[d]] \in Page /\ opage[d][at[d]] \in Frame
      /\ saved[d][at[d]] \in Entry /\ saved[d][at[d]].frame \in Frame
    BY <1>1, Types DEF Typed
<1>3. Positions(d)
    BY PositionsHold DEF Typed
<1>4. at[d] \in at[d] .. Len(req[d])
    BY <1>1, <1>2
<1> QED BY <1>1, <1>2, <1>3, <1>4 DEF Positions

LEMMA CopyEffect ==
    ASSUME Typed, NEW d \in Device, Copy(d)
    PROVE  /\ Typed' /\ OthersStill(d) /\ phase[d] = "dma"
           /\ phase'[d] # "bug_replace" /\ phase'[d] # "save"
           /\ UNCHANGED <<pte, tlb, frames, hugePage, req, opage, saved, polled, history>>
           /\ content' = [content EXCEPT ![saved[d][at[d]].frame] = content[opage[d][at[d]]]]
           /\ Unsettled(d)' = Unsettled(d) /\ Installed(d)' = Installed(d)
           /\ LookedUp(d)' = LookedUp(d) /\ Taken(d)' = Taken(d) /\ Held(d)' = Held(d)
           /\ at[d] \in Installed(d) /\ at[d] \notin Copied(d)
           /\ \A i \in Installed(d) : i \in Copied(d)' <=> i \in Copied(d) \/ i = at[d]
<1>1. /\ phase[d] = "dma"
      /\ UNCHANGED <<pte, tlb, frames, hugePage, req, opage, saved, polled, history>>
      /\ content' = [content EXCEPT ![saved[d][at[d]].frame] = content[opage[d][at[d]]]]
    BY DEF Copy
<1>2. /\ at[d] \in 1 .. Len(req[d]) /\ Len(req[d]) \in Nat
      /\ opage[d][at[d]] \in Frame /\ saved[d][at[d]].frame \in Frame
      /\ Len(opage[d]) = Len(req[d]) /\ Len(saved[d]) = Len(req[d])
    BY <1>1, InTransfer
<1>3. /\ phase' \in [Device -> Phases] /\ at' \in [Device -> Nat \ {0}]
      /\ \A e \in Device \ {d} : phase'[e] = phase[e] /\ at'[e] = at[e]
      /\ at[d] < Len(req[d]) => at'[d] = at[d] + 1 /\ phase'[d] = "dma"
      /\ ~(at[d] < Len(req[d])) => at'[d] = 1 /\ phase'[d] = "cas"
    BY <1>1, <1>2, NextPageTypes DEF Copy, Phases
<1>4. \A e \in Device \ {d} : Still(e)
    BY <1>1, <1>3 DEF Still
<1>5. content' \in [Frame -> (Page \X (0..MaxWrites)) \cup {None}]
    BY <1>1, <1>2 DEF Typed, TypeOK
<1>6. \A e \in Device : at'[e] \in 1..Len(req'[e]) \/ phase'[e] \in {"idle", "report", "worker"}
    BY <1>1, <1>2, NextPageTypes DEF Copy, Phases
<1>7. TypeOK'
    BY <1>1, <1>3, <1>5, <1>6 DEF Typed, TypeOK, frames, history
<1>8. Shape(d)'
    BY <1>1, <1>2, <1>3 DEF Shape, Quiet, Filling, Moving
<1>9. Typed'
    BY <1>1, <1>4, <1>7, <1>8, OthersRest, KindKept DEF Typed, Resting
<1>10. Positions(d) /\ Positions(d)'
    BY <1>9, Positioned
<1>11. /\ Unsettled(d) = 1 .. Len(req[d]) /\ Installed(d) = 1 .. Len(req[d])
       /\ LookedUp(d) = {} /\ Taken(d) = {}
       /\ Held(d) = 1 .. Len(req[d]) /\ Copied(d) = 1 .. at[d] - 1
    BY <1>1, <1>10 DEF Positions
<1>12. CASE at[d] < Len(req[d])
    <2>1. /\ Unsettled(d)' = 1 .. Len(req[d]) /\ Installed(d)' = 1 .. Len(req[d])
          /\ LookedUp(d)' = {} /\ Taken(d)' = {}
          /\ Held(d)' = 1 .. Len(req[d]) /\ Copied(d)' = 1 .. (at[d] + 1) - 1
        BY <1>1, <1>3, <1>10, <1>12 DEF Positions
    <2>2. \A i \in Installed(d) : i \in Copied(d)' <=> i \in Copied(d) \/ i = at[d]
        BY <1>2, <1>11, <2>1
    <2>3. phase'[d] # "bug_replace" /\ phase'[d] # "save" /\ at[d] \in Installed(d) /\ at[d] \notin Copied(d)
        BY <1>2, <1>3, <1>11, <1>12
    <2> QED BY <1>1, <1>4, <1>9, <1>11, <2>1, <2>2, <2>3, OthersRest
<1>13. CASE ~(at[d] < Len(req[d]))
    <2>1. at[d] = Len(req[d]) /\ at'[d] = 1 /\ phase'[d] = "cas" /\ req'[d] = req[d]
        BY <1>1, <1>2, <1>3, <1>13
    <2>2. /\ Unsettled(d)' = 1 .. Len(req[d]) /\ Installed(d)' = 1 .. Len(req[d])
          /\ LookedUp(d)' = {} /\ Taken(d)' = {}
          /\ Held(d)' = 1 .. Len(req[d]) /\ Copied(d)' = 1 .. Len(req[d])
        BY <1>10, <2>1 DEF Positions
    <2>3. \A i \in Installed(d) : i \in Copied(d)' <=> i \in Copied(d) \/ i = at[d]
        BY <1>2, <1>11, <2>1, <2>2
    <2>4. phase'[d] # "bug_replace" /\ phase'[d] # "save" /\ at[d] \in Installed(d) /\ at[d] \notin Copied(d)
        BY <1>2, <1>11, <2>1
    <2> QED BY <1>1, <1>4, <1>9, <1>11, <2>2, <2>3, <2>4, OthersRest
<1> QED BY <1>12, <1>13

\* The worker goes on before the transfer is done.
LEMMA HurryEffect ==
    ASSUME Typed, NEW d \in Device, Hurry(d)
    PROVE  /\ Typed' /\ OthersStill(d) /\ phase[d] = "dma" /\ phase'[d] = "cas" /\ hurried' = TRUE
           /\ UNCHANGED <<pte, tlb, frames, req, opage, saved, raced>>
           /\ Unsettled(d)' = Unsettled(d) /\ Installed(d)' = Installed(d)
           /\ LookedUp(d)' = LookedUp(d) /\ Taken(d)' = Taken(d) /\ Held(d)' = Held(d)
<1>1. /\ phase[d] = "dma" /\ hurried' = TRUE
      /\ UNCHANGED <<pte, tlb, frames, hugePage, req, opage, saved, polled, raced>>
      /\ content' = [f \in Frame |-> None] /\ written' = [v \in Page |-> 0]
      /\ writes' = 0 /\ stale' = FALSE /\ gap' = {}
    BY DEF Hurry
<1>2. /\ at[d] \in 1 .. Len(req[d]) /\ Len(req[d]) \in Nat
      /\ Len(opage[d]) = Len(req[d]) /\ Len(saved[d]) = Len(req[d])
    BY <1>1, InTransfer
<1>3. /\ phase' \in [Device -> Phases] /\ phase'[d] = "cas"
      /\ at' \in [Device -> Nat \ {0}] /\ at'[d] = 1
      /\ \A e \in Device \ {d} : phase'[e] = phase[e] /\ at'[e] = at[e]
    BY DEF Hurry, Goto, Typed, TypeOK, Phases
<1>4. \A e \in Device \ {d} : Still(e)
    BY <1>1, <1>3 DEF Still
<1>5. ASSUME NEW e \in Device
      PROVE  at'[e] \in 1..Len(req'[e]) \/ phase'[e] \in {"idle", "report", "worker"}
    <2>1. CASE e = d
        BY <1>1, <1>2, <1>3, <2>1
    <2>2. CASE e # d
        BY <1>1, <1>3, <2>2 DEF Typed, TypeOK
    <2> QED BY <2>1, <2>2
<1>6. /\ content' \in [Frame -> (Page \X (0..MaxWrites)) \cup {None}]
      /\ writes' \in 0..MaxWrites /\ written' \in [Page -> 0..MaxWrites]
    <2>1. 0 \in 0 .. MaxWrites
        BY PageMigAssumption
    <2> QED BY <1>1, <2>1
<1>7. TypeOK'
    BY <1>1, <1>3, <1>5, <1>6 DEF Typed, TypeOK, frames
<1>8. Shape(d)'
    BY <1>1, <1>2, <1>3 DEF Shape, Quiet, Filling, Moving
<1>9. Typed'
    BY <1>1, <1>4, <1>7, <1>8, OthersRest, KindKept DEF Typed, Resting
<1>10. Positions(d) /\ Positions(d)'
    BY <1>9, Positioned
<1>11. /\ Unsettled(d) = 1 .. Len(req[d]) /\ Installed(d) = 1 .. Len(req[d])
       /\ LookedUp(d) = {} /\ Taken(d) = {} /\ Held(d) = 1 .. Len(req[d])
    BY <1>1, <1>10 DEF Positions
<1>12. /\ Unsettled(d)' = 1 .. Len(req[d]) /\ Installed(d)' = 1 .. Len(req[d])
       /\ LookedUp(d)' = {} /\ Taken(d)' = {} /\ Held(d)' = 1 .. Len(req[d])
    BY <1>1, <1>3, <1>10 DEF Positions
<1> QED BY <1>1, <1>3, <1>4, <1>9, <1>11, <1>12, OthersRest

\* Either the page is settled next, or a race was detected and it is done.
LEMMA SwapEffect ==
    ASSUME Typed, NEW d \in Device, CompareAndSwap(d)
    PROVE  /\ Typed' /\ OthersStill(d) /\ phase[d] = "cas" /\ phase'[d] # "bug_replace"
           /\ UNCHANGED <<tlb, content, frames, req, opage, saved, writes, written, stale, gap, hurried>>
           /\ \A v \in Page : pte'[v].frame = pte[v].frame
           /\ LookedUp(d)' = LookedUp(d) /\ Taken(d)' = Taken(d) /\ LookedUp(d) = {} /\ Taken(d) = {}
           /\ phase'[d] # "save"
           /\ Installed(d)' = Installed(d) \ {at[d]} /\ at[d] \in Installed(d)
           /\ \A i \in Installed(d) : i \in Copied(d)
           /\ \A i \in Installed(d)' : i \in Copied(d)'
           /\ \/ /\ pte[req[d][at[d]]] = saved[d][at[d]] /\ raced' = raced
                 /\ \A v \in Page \ {req[d][at[d]]} : pte'[v] = pte[v]
                 /\ Unsettled(d)' = Unsettled(d) /\ Held(d)' = Held(d)
              \/ /\ pte' = pte /\ raced' = raced \cup {req[d][at[d]]}
                 /\ Unsettled(d)' = Unsettled(d) \ {at[d]} /\ Held(d)' = Held(d) \ {at[d]}
<1>1. /\ phase[d] = "cas"
      /\ UNCHANGED <<tlb, content, frames, hugePage, req, opage, saved, polled, writes, written, stale, gap, hurried>>
    BY DEF CompareAndSwap
<1>2. /\ at[d] \in 1 .. Len(req[d]) /\ Len(req[d]) \in Nat /\ req[d][at[d]] \in Page
      /\ Len(opage[d]) = Len(req[d]) /\ Len(saved[d]) = Len(req[d])
    BY <1>1, InTransfer
<1>3. Positions(d)
    BY PositionsHold DEF Typed
<1>4. /\ Unsettled(d) = at[d] .. Len(req[d]) /\ Installed(d) = at[d] .. Len(req[d])
      /\ LookedUp(d) = {} /\ Taken(d) = {}
      /\ Held(d) = at[d] .. Len(req[d]) /\ Copied(d) = 1 .. Len(req[d])
    BY <1>1, <1>3 DEF Positions
<1>5. at[d] \in Installed(d) /\ \A i \in Installed(d) : i \in Copied(d)
    BY <1>2, <1>4
<1>6. CASE /\ pte[req[d][at[d]]] = saved[d][at[d]]
           /\ pte' = [pte EXCEPT ![req[d][at[d]]].young = FALSE]
           /\ Goto(d, "settle") /\ UNCHANGED <<at, raced>>
    <2> DEFINE aged == [pte[req[d][at[d]]] EXCEPT !.young = FALSE]
    <2>1. aged \in Entry /\ aged.frame = pte[req[d][at[d]]].frame
        BY <1>2, Aged DEF Typed, TypeOK
    <2>2. pte' = [pte EXCEPT ![req[d][at[d]]] = aged]
        BY <1>6
    <2> HIDE DEF aged
    <2>3. /\ pte' \in [Page -> Entry] /\ \A v \in Page : pte'[v].frame = pte[v].frame
          /\ \A v \in Page \ {req[d][at[d]]} : pte'[v] = pte[v]
        BY <1>2, <2>1, <2>2 DEF Typed, TypeOK
    <2>4. /\ phase' \in [Device -> Phases] /\ phase'[d] = "settle" /\ at' = at
          /\ \A e \in Device \ {d} : phase'[e] = phase[e]
        BY <1>6 DEF Goto, Typed, TypeOK, Phases
    <2>5. \A e \in Device \ {d} : Still(e)
        BY <1>1, <2>4 DEF Still
    <2>6. TypeOK'
        BY <1>1, <1>2, <1>6, <2>3, <2>4, <2>5 DEF Typed, TypeOK, frames, Still
    <2>7. Shape(d)'
        BY <1>1, <1>2, <2>4 DEF Shape, Quiet, Filling, Moving
    <2>8. Typed'
        BY <1>1, <2>5, <2>6, <2>7, OthersRest, KindKept DEF Typed, Resting
    <2>9. Positions(d)'
        BY <2>8, Positioned
    <2>10. /\ Unsettled(d)' = at[d] .. Len(req[d]) /\ Installed(d)' = at[d] + 1 .. Len(req[d])
           /\ LookedUp(d)' = {} /\ Taken(d)' = {}
           /\ Held(d)' = at[d] .. Len(req[d]) /\ Copied(d)' = 1 .. Len(req[d])
        BY <1>1, <2>4, <2>9 DEF Positions
    <2>11. Installed(d)' = Installed(d) \ {at[d]} /\ \A i \in Installed(d)' : i \in Copied(d)'
        BY <1>2, <1>4, <2>10
    <2>12. phase'[d] # "bug_replace" /\ phase'[d] # "save"
        BY <2>4
    <2> QED BY <1>1, <1>4, <1>5, <1>6, <2>3, <2>5, <2>8, <2>10, <2>11, <2>12, OthersRest
<1>7. CASE /\ raced' = raced \cup {req[d][at[d]]}
           /\ NextPage(d, "cas", "report") /\ UNCHANGED pte
    <2>1. /\ phase' \in [Device -> Phases] /\ at' \in [Device -> Nat \ {0}]
          /\ \A e \in Device \ {d} : phase'[e] = phase[e] /\ at'[e] = at[e]
          /\ at[d] < Len(req[d]) => at'[d] = at[d] + 1 /\ phase'[d] = "cas"
          /\ ~(at[d] < Len(req[d])) => at'[d] = 1 /\ phase'[d] = "report"
        BY <1>1, <1>2, <1>7, NextPageTypes DEF Phases
    <2>2. \A e \in Device \ {d} : Still(e)
        BY <1>1, <2>1 DEF Still
    <2>3. \A e \in Device : at'[e] \in 1..Len(req'[e]) \/ phase'[e] \in {"idle", "report", "worker"}
        BY <1>1, <1>2, <1>7, NextPageTypes DEF Phases
    <2>4. TypeOK'
        BY <1>1, <1>2, <1>7, <2>1, <2>3 DEF Typed, TypeOK, frames
    <2>5. Shape(d)'
        BY <1>1, <1>2, <2>1 DEF Shape, Quiet, Filling, Moving
    <2>6. Typed'
        BY <1>1, <2>2, <2>4, <2>5, OthersRest, KindKept DEF Typed, Resting
    <2>7. Positions(d)'
        BY <2>6, Positioned
    <2>8. CASE at[d] < Len(req[d])
        <3>1. /\ Unsettled(d)' = at[d] + 1 .. Len(req[d]) /\ Installed(d)' = at[d] + 1 .. Len(req[d])
              /\ LookedUp(d)' = {} /\ Taken(d)' = {}
              /\ Held(d)' = at[d] + 1 .. Len(req[d]) /\ Copied(d)' = 1 .. Len(req[d])
            BY <1>1, <2>1, <2>7, <2>8 DEF Positions
        <3>2. /\ Installed(d)' = Installed(d) \ {at[d]} /\ Unsettled(d)' = Unsettled(d) \ {at[d]}
              /\ Held(d)' = Held(d) \ {at[d]} /\ \A i \in Installed(d)' : i \in Copied(d)'
            BY <1>2, <1>4, <3>1
        <3>3. phase'[d] # "bug_replace" /\ phase'[d] # "save"
            BY <2>1, <2>8
        <3> QED BY <1>1, <1>4, <1>5, <1>7, <2>2, <2>6, <3>1, <3>2, <3>3, OthersRest
    <2>9. CASE ~(at[d] < Len(req[d]))
        <3>1. at[d] = Len(req[d]) /\ phase'[d] = "report"
            BY <1>2, <2>1, <2>9
        <3>2. Unsettled(d)' = {} /\ Installed(d)' = {} /\ LookedUp(d)' = {} /\ Taken(d)' = {} /\ Held(d)' = {}
            BY <2>7, <3>1 DEF Positions, Quiet
        <3>3. /\ Installed(d)' = Installed(d) \ {at[d]} /\ Unsettled(d)' = Unsettled(d) \ {at[d]}
              /\ Held(d)' = Held(d) \ {at[d]} /\ \A i \in Installed(d)' : i \in Copied(d)'
            BY <1>2, <1>4, <3>1, <3>2
        <3>4. phase'[d] # "bug_replace" /\ phase'[d] # "save"
            BY <3>1
        <3> QED BY <1>1, <1>4, <1>5, <1>7, <2>2, <2>6, <3>2, <3>3, <3>4, OthersRest
    <2> QED BY <2>8, <2>9
<1> QED BY <1>6, <1>7 DEF CompareAndSwap

\* Small frames go to a pagevec, huge ones back to their list.
LEMMA SettleEffect ==
    ASSUME Typed, NEW d \in Device, Settle(d), NEW old \in Frame, NEW new \in Frame,
           old = opage[d][at[d]], new = saved[d][at[d]].frame, old # new,
           count[old] \in Nat \ {0}, count[new] \in Nat \ {0}
    PROVE  /\ Typed' /\ OthersStill(d) /\ phase[d] = "settle"
           /\ phase'[d] # "bug_replace" /\ phase'[d] # "save"
           /\ UNCHANGED <<program, req, opage, saved, history>>
           /\ locked' = locked \ {old, new} /\ anon' = anon \ {old}
           /\ \A f \in Frame \ {old, new} : place'[f] = place[f] /\ count'[f] = count[f]
           /\ ~hugePage => /\ place'[old] = "pagevec" /\ place'[new] = "pagevec"
                           /\ count'[old] = count[old] /\ count'[new] = count[new]
           /\ hugePage => /\ place'[old] = (IF count[old] = 1 THEN "free" ELSE "active")
                          /\ place'[new] = "active"
                          /\ count'[old] = count[old] - 1 /\ count'[new] = count[new] - 1
           /\ LookedUp(d)' = LookedUp(d) /\ Taken(d)' = Taken(d) /\ Taken(d) = {}
           /\ Installed(d)' = Installed(d) /\ at[d] \notin Installed(d)
           /\ Unsettled(d)' = Unsettled(d) \ {at[d]} /\ at[d] \in Unsettled(d)
           /\ Held(d)' = Held(d) \ {at[d]} /\ at[d] \in Held(d)
           /\ \A i \in Installed(d) : i \in Copied(d) /\ i \in Copied(d)'
<1>1. /\ phase[d] = "settle" /\ UNCHANGED <<program, hugePage, req, opage, saved, polled, history>>
      /\ locked' = locked \ {old, new}
      /\ anon' = anon \ {old} /\ NextPage(d, "cas", "report")
    BY DEF Settle
<1>2. /\ \A f \in Frame \ {old, new} : place'[f] = place[f] /\ count'[f] = count[f]
      /\ ~hugePage => /\ place'[old] = "pagevec" /\ place'[new] = "pagevec"
                      /\ count'[old] = count[old] /\ count'[new] = count[new]
      /\ hugePage => /\ place'[old] = (IF count[old] = 1 THEN "free" ELSE "active")
                     /\ place'[new] = "active"
                     /\ count'[old] = count[old] - 1 /\ count'[new] = count[new] - 1
      /\ place' \in [Frame -> Places] /\ count' \in [Frame -> Nat]
    <2>1. place \in [Frame -> Places] /\ count \in [Frame -> Nat]
        BY DEF Typed, TypeOK
    <2>2. CASE ~hugePage
        <3>1. place' = [place EXCEPT ![old] = "pagevec", ![new] = "pagevec"] /\ count' = count
            BY <2>2 DEF Settle
        <3> QED BY <2>1, <2>2, <3>1 DEF Places
    <2>3. CASE hugePage
        <3>1. /\ count' = [count EXCEPT ![old] = count[old] - 1, ![new] = count[new] - 1]
              /\ place' = [place EXCEPT ![old] = IF count[old] = 1 THEN "free" ELSE "active", ![new] = "active"]
            BY <2>3 DEF Settle
        <3>2. count[old] - 1 \in Nat /\ count[new] - 1 \in Nat
            OBVIOUS
        <3>3. count' \in [Frame -> Nat]
            BY <2>1, <3>1, <3>2
        <3>4. place' \in [Frame -> Places]
            BY <2>1, <3>1 DEF Places
        <3> QED BY <2>1, <2>3, <3>1, <3>3, <3>4
    <2>4. hugePage \in BOOLEAN
        BY DEF Typed, TypeOK
    <2> QED BY <2>2, <2>3, <2>4
<1>3. /\ at[d] \in 1 .. Len(req[d]) /\ Len(req[d]) \in Nat /\ req[d][at[d]] \in Page
      /\ opage[d][at[d]] \in Frame /\ saved[d][at[d]].frame \in Frame
      /\ Len(opage[d]) = Len(req[d]) /\ Len(saved[d]) = Len(req[d])
      /\ at[d] \in Unsettled(d) /\ at[d] \in Held(d)
    BY <1>1, InTransfer
<1>4. /\ phase' \in [Device -> Phases] /\ at' \in [Device -> Nat \ {0}]
      /\ \A e \in Device \ {d} : phase'[e] = phase[e] /\ at'[e] = at[e]
      /\ at[d] < Len(req[d]) => at'[d] = at[d] + 1 /\ phase'[d] = "cas"
      /\ ~(at[d] < Len(req[d])) => at'[d] = 1 /\ phase'[d] = "report"
    BY <1>1, <1>3, NextPageTypes DEF Phases
<1>5. \A e \in Device \ {d} : Still(e)
    BY <1>1, <1>4 DEF Still
<1>6. \A e \in Device : at'[e] \in 1..Len(req'[e]) \/ phase'[e] \in {"idle", "report", "worker"}
    BY <1>1, <1>3, NextPageTypes DEF Phases
<1>7. locked' \subseteq Frame /\ anon' \subseteq Frame
    BY <1>1 DEF Typed, TypeOK
<1>8. TypeOK'
    BY <1>1, <1>2, <1>4, <1>6, <1>7 DEF Typed, TypeOK, program, history
<1>9. Shape(d)'
    BY <1>1, <1>3, <1>4 DEF Shape, Quiet, Filling, Moving
<1>10. Typed'
    BY <1>1, <1>5, <1>8, <1>9, OthersRest, KindKept DEF Typed, Resting
<1>11. Positions(d) /\ Positions(d)'
    BY <1>10, Positioned
<1>12. /\ Unsettled(d) = at[d] .. Len(req[d]) /\ Installed(d) = at[d] + 1 .. Len(req[d])
       /\ LookedUp(d) = {} /\ Taken(d) = {}
       /\ Held(d) = at[d] .. Len(req[d]) /\ Copied(d) = 1 .. Len(req[d])
    BY <1>1, <1>11 DEF Positions
<1>13. at[d] \notin Installed(d) /\ \A i \in Installed(d) : i \in Copied(d)
    BY <1>3, <1>12
<1>14. CASE at[d] < Len(req[d])
    <2>1. /\ Unsettled(d)' = at[d] + 1 .. Len(req[d]) /\ Installed(d)' = at[d] + 1 .. Len(req[d])
          /\ LookedUp(d)' = {} /\ Taken(d)' = {}
          /\ Held(d)' = at[d] + 1 .. Len(req[d]) /\ Copied(d)' = 1 .. Len(req[d])
        BY <1>1, <1>4, <1>11, <1>14 DEF Positions
    <2>2. /\ Unsettled(d)' = Unsettled(d) \ {at[d]} /\ Held(d)' = Held(d) \ {at[d]}
          /\ \A i \in Installed(d) : i \in Copied(d)'
        BY <1>3, <1>12, <2>1
    <2>3. phase'[d] # "bug_replace" /\ phase'[d] # "save"
        BY <1>4, <1>14
    <2> QED BY <1>1, <1>2, <1>3, <1>5, <1>10, <1>12, <1>13, <2>1, <2>2, <2>3, OthersRest
<1>15. CASE ~(at[d] < Len(req[d]))
    <2>1. at[d] = Len(req[d]) /\ phase'[d] = "report"
        BY <1>3, <1>4, <1>15
    <2>2. Unsettled(d)' = {} /\ Installed(d)' = {} /\ LookedUp(d)' = {} /\ Taken(d)' = {} /\ Held(d)' = {}
        BY <1>11, <2>1 DEF Positions, Quiet
    <2>3. /\ Unsettled(d)' = Unsettled(d) \ {at[d]} /\ Held(d)' = Held(d) \ {at[d]}
          /\ Installed(d) = {}
        BY <1>3, <1>12, <2>1, <2>2
    <2>4. phase'[d] # "bug_replace" /\ phase'[d] # "save"
        BY <2>1
    <2> QED BY <1>1, <1>2, <1>3, <1>5, <1>10, <1>12, <1>13, <2>2, <2>3, <2>4, OthersRest
<1> QED BY <1>14, <1>15

-----------------------------------------------------------------------------
(***************************************************************************)
(* Steps that leave most of the frames as they are.                        *)
(***************************************************************************)
\* What device d has in hand does not grow, and is what it was.
Steady(d) ==
    /\ Unsettled(d)' \subseteq Unsettled(d) /\ Held(d)' \subseteq Held(d)
    /\ LookedUp(d)' \subseteq LookedUp(d) /\ Taken(d)' = Taken(d)
    /\ \A i \in LookedUp(d)' : i \in Unsettled(d) => i \in Unsettled(d)'
    /\ \A i \in Held(d) \cup LookedUp(d) : opage'[d][i] = opage[d][i] /\ req'[d][i] = req[d][i]
    /\ \A i \in Unsettled(d) : saved'[d][i].frame = saved[d][i].frame

\* It does not shrink either.
Fixed(d) ==
    /\ Steady(d) /\ Unsettled(d)' = Unsettled(d) /\ Held(d)' = Held(d)
    /\ LookedUp(d)' = LookedUp(d)
    /\ phase[d] = "bug_replace" => phase'[d] = "bug_replace"

\* The same for what is in flight.
Flying(d) ==
    /\ Installed(d)' = Installed(d)
    /\ phase'[d] = "save" => phase[d] = "save" /\ at'[d] = at[d]
    /\ \A i \in Installed(d) :
          /\ opage'[d][i] = opage[d][i] /\ req'[d][i] = req[d][i] /\ saved'[d][i] = saved[d][i]
          /\ i \in Copied(d)' <=> i \in Copied(d)

SameMapping == \A v \in Page : pte'[v].frame = pte[v].frame

LEMMA Nested ==
    ASSUME NEW d \in Device
    PROVE  Installed(d) \subseteq Unsettled(d) /\ Unsettled(d) \subseteq Held(d) /\ Taken(d) \subseteq Held(d)
BY DEF Unsettled, Held

\* A device that does nothing is all of this.
LEMMA StillIsSteady ==
    ASSUME NEW d \in Device, Still(d), SamePositions(d)
    PROVE  Fixed(d) /\ Steady(d) /\ Flying(d)
BY DEF Still, SamePositions, Fixed, Steady, Flying

\* The positions that count are within the arrays.
LEMMA InHand ==
    ASSUME Typed, NEW d \in Device
    PROVE  /\ \A i \in Held(d) \cup LookedUp(d) : i \in 1 .. Len(req[d]) /\ req[d][i] \in Page /\ opage[d][i] \in Frame
           /\ \A i \in Unsettled(d) : saved[d][i] \in Entry /\ saved[d][i].frame \in Frame
<1>1. Positions(d) /\ phase[d] \in Phases /\ Shape(d)
    BY PositionsHold DEF Typed, TypeOK
<1>2. CASE phase[d] \in Quiet \cup {"report"}
    BY <1>1, <1>2 DEF Positions
<1>3. CASE phase[d] \in Phases \ (Quiet \cup {"report"})
    <2>1. Len(opage[d]) = Len(req[d]) /\ Len(req[d]) \in Nat /\ at[d] \in 1 .. Len(req[d])
        BY <1>1, <1>3, Types DEF Shape, Typed, Positions, Quiet
    <2>2. \A i \in Held(d) \cup LookedUp(d) : i \in 1 .. Len(req[d])
        BY <1>1, <1>3, <2>1 DEF Positions, Phases, Quiet
    <2>3. \A i \in Unsettled(d) : i \in 1 .. Len(saved[d])
        <3>1. phase[d] \in Filling => Len(saved[d]) = at[d] - 1
            BY <1>1, <2>1, Types DEF Shape, Typed
        <3>2. phase[d] \in {"dma", "cas", "settle"} => Len(saved[d]) = Len(req[d])
            BY <1>1 DEF Shape, Moving
        <3>3. phase[d] = "save" => Len(saved[d]) = at[d]
            BY <1>1 DEF Shape
        <3> QED BY <1>1, <1>3, <2>1, <3>1, <3>2, <3>3 DEF Positions, Phases, Quiet, Filling
    <2> QED BY <2>1, <2>2, <2>3, Types DEF Typed
<1> QED BY <1>1, <1>2, <1>3

\* The frames that are mapped stay where they are, and whoever has isolated one keeps it.
LEMMA SortedKept ==
    ASSUME Sorted, locked \subseteq locked',
           \A v \in Page : pte'[v].frame = pte[v].frame /\ place'[pte[v].frame] = place[pte[v].frame],
           \A d \in Device : \A i \in Taken(d) : i \in Taken(d)' /\ opage'[d][i] = opage[d][i]
    PROVE  Sorted'
<1>1. RightList'
    BY DEF Sorted, RightList
<1>2. \A v \in Page : place'[pte'[v].frame] = "fresh" => pte'[v].frame \in locked'
    BY DEF Sorted
<1>3. ASSUME NEW v \in Page, place'[pte'[v].frame] = "isolated"
      PROVE  \E d \in Device : \E i \in Taken(d)' : opage'[d][i] = pte'[v].frame
    BY <1>3 DEF Sorted
<1> QED BY <1>1, <1>2, <1>3 DEF Sorted

\* A page that has been replaced is not about to be.
LEMMA UnsettledNotTaken ==
    ASSUME Typed, NEW d \in Device
    PROVE  Unsettled(d) \cap Taken(d) = {}
<1>1. Positions(d) /\ at[d] \in Nat
    BY PositionsHold DEF Typed, TypeOK
<1>2. CASE phase[d] \in {"replace", "bug_replace"}
    BY <1>1, <1>2 DEF Positions
<1>3. CASE phase[d] \notin {"replace", "bug_replace"}
    BY <1>3 DEF Taken
<1> QED BY <1>2, <1>3

LEMMA FramesKept ==
    ASSUME Typed, SameMapping, UNCHANGED <<place, locked, anon>>,
           \A d \in Device : Steady(d)
    PROVE  /\ PagesApart => PagesApart'
           /\ HoldersApart => HoldersApart'
           /\ TargetsApart => TargetsApart'
           /\ (RefsBalance /\ count' = count /\ \A d \in Device : LookedUp(d)' = LookedUp(d))
                 => RefsBalance'
           /\ Sorted => Sorted'
           /\ \A d \in Device : /\ Transfer(d) => Transfer(d)'
                                /\ Isolated(d) => Isolated(d)'
                                /\ Found(d) => Found(d)'
<1>1. PagesApart => PagesApart'
    BY DEF PagesApart, SameMapping
<1>2. HoldersApart => HoldersApart'
    BY DEF HoldersApart, Steady
<1>3. ASSUME RefsBalance, count' = count, \A d \in Device : LookedUp(d)' = LookedUp(d)
      PROVE  RefsBalance'
    <2>1. \A f \in Frame : Mappings(f)' = Mappings(f)
        BY DEF Mappings, SameMapping
    <2>2. \A f \in Frame : Lookups(f)' = Lookups(f)
        BY <1>3 DEF Lookups, Steady
    <2> QED BY <1>3, <2>1, <2>2 DEF RefsBalance
<1>4. ASSUME NEW d \in Device, Transfer(d) PROVE Transfer(d)'
    <2>1. \A i \in Unsettled(d)' : /\ i \in Unsettled(d) /\ i \in Held(d) /\ req[d][i] \in Page
                                   /\ opage'[d][i] = opage[d][i] /\ req'[d][i] = req[d][i]
                                   /\ saved'[d][i].frame = saved[d][i].frame
        BY Nested, InHand DEF Steady
    <2> QED BY <1>4, <2>1 DEF Transfer, SameMapping
<1>5. ASSUME NEW d \in Device, Isolated(d) PROVE Isolated(d)'
    BY <1>5 DEF Isolated, Steady
<1>6. ASSUME NEW d \in Device, Found(d) PROVE Found(d)'
    <2>1. \A i \in LookedUp(d)' \cup Taken(d)' :
              /\ i \in LookedUp(d) \cup Taken(d) /\ req[d][i] \in Page
              /\ opage'[d][i] = opage[d][i] /\ req'[d][i] = req[d][i]
              /\ i \in Unsettled(d) => i \in Unsettled(d)'
        BY Nested, InHand, UnsettledNotTaken DEF Steady
    <2> SUFFICES ASSUME NEW i \in LookedUp(d)' \cup Taken(d)'
                 PROVE  \/ pte'[req'[d][i]].frame = opage'[d][i]
                        \/ /\ Huge = {} \/ i \in Unsettled(d)'
                           /\ \A v \in Page : pte'[v].frame # opage'[d][i]
                           /\ opage'[d][i] \in locked' \/ opage'[d][i] \notin anon'
        BY DEF Found
    <2>2. /\ i \in LookedUp(d) \cup Taken(d) /\ req[d][i] \in Page
          /\ opage'[d][i] = opage[d][i] /\ req'[d][i] = req[d][i]
          /\ i \in Unsettled(d) => i \in Unsettled(d)'
        BY <2>1
    <2>3. \/ pte[req[d][i]].frame = opage[d][i]
          \/ /\ Huge = {} \/ i \in Unsettled(d)
             /\ \A v \in Page : pte[v].frame # opage[d][i]
             /\ opage[d][i] \in locked \/ opage[d][i] \notin anon
        BY <1>6, <2>2 DEF Found
    <2> QED BY <2>2, <2>3 DEF SameMapping
<1>7. TargetsApart => TargetsApart'
    BY Nested DEF TargetsApart, Steady
<1>8. Sorted => Sorted'
    <2>1. \A d \in Device : Taken(d)' = Taken(d) /\ \A i \in Taken(d) : opage'[d][i] = opage[d][i]
        BY Nested DEF Steady
    <2> QED BY <2>1, SortedKept DEF SameMapping
<1> QED BY <1>1, <1>2, <1>3, <1>4, <1>5, <1>6, <1>7, <1>8

LEMMA OwnedKept ==
    ASSUME Owned, raced' = raced, locked' \subseteq locked, \A d \in Device : Fixed(d),
           \A f \in Frame : place'[f] \in {"fresh", "isolated"} => place[f] \in {"fresh", "isolated"}
    PROVE  Owned'
<1> SUFFICES ASSUME raced = {}, NEW f \in Frame, f \in locked \/ place[f] \in {"fresh", "isolated"}
             PROVE  \E d \in Device : \/ phase'[d] = "bug_replace"
                                      \/ \E i \in Held(d)' : opage'[d][i] = f
                                      \/ \E i \in Unsettled(d)' : saved'[d][i].frame = f
    BY DEF Owned
<1>1. PICK d \in Device : \/ phase[d] = "bug_replace"
                          \/ \E i \in Held(d) : opage[d][i] = f
                          \/ \E i \in Unsettled(d) : saved[d][i].frame = f
    BY DEF Owned
<1> QED BY <1>1, Nested DEF Fixed, Steady

\* Nothing happens to the contents.
LEMMA DataKept ==
    ASSUME UNCHANGED <<pte, content, written, stale, raced, gap, hurried>>, \A d \in Device : Flying(d)
    PROVE  /\ NothingLost => NothingLost'
           /\ \A d \in Device : Data(d) => Data(d)'
<1>1. \A v \in Page : Kept(v) => Kept(v)'
    BY DEF Kept, InFlight, Flying
<1>2. ASSUME NEW d \in Device, Data(d) PROVE Data(d)'
    BY <1>2 DEF Data, Flying
<1> QED BY <1>1, <1>2 DEF NothingLost

\* What is about to be read back is what it was.
LEMMA UnreadKept ==
    ASSUME Typed, NEW d \in Device, Flying(d), Unread(d), gap' = gap, hurried' = hurried,
           phase[d] = "save" => pte'[req[d][at[d]]] = pte[req[d][at[d]]]
    PROVE  Unread(d)'
<1> SUFFICES ASSUME phase'[d] = "save", ~hurried, req'[d][at'[d]] \notin gap
             PROVE  pte'[req'[d][at'[d]]] = saved'[d][at'[d]]
    BY DEF Unread
<1>1. phase[d] = "save" /\ at'[d] = at[d]
    BY DEF Flying
<1>2. at[d] \in Installed(d)
    BY <1>1, InSave
<1>3. req'[d][at[d]] = req[d][at[d]] /\ saved'[d][at[d]] = saved[d][at[d]]
    BY <1>2 DEF Flying
<1> QED BY <1>1, <1>3 DEF Unread

-----------------------------------------------------------------------------
(***************************************************************************)
(* The frames.                                                             *)
(***************************************************************************)
\* A frame backs one page at most.
LEMMA MappingsCount ==
    ASSUME PagesApart, NEW f \in Frame
    PROVE  /\ Cardinality(Mappings(f)) \in Nat
           /\ (\E v \in Page : pte[v].frame = f) => Cardinality(Mappings(f)) = 1
           /\ ~(\E v \in Page : pte[v].frame = f) => Cardinality(Mappings(f)) = 0
<1>1. CASE \E v \in Page : pte[v].frame = f
    <2>1. PICK v \in Page : pte[v].frame = f
        BY <1>1
    <2>2. Mappings(f) = {v}
        BY <2>1 DEF Mappings, PagesApart
    <2>3. Cardinality({v}) = 1
        BY FS_Singleton
    <2> QED BY <1>1, <2>2, <2>3
<1>2. CASE ~(\E v \in Page : pte[v].frame = f)
    <2>1. Mappings(f) = {}
        BY <1>2 DEF Mappings
    <2> QED BY <1>2, <2>1, FS_EmptySet
<1> QED BY <1>1, <1>2

LEMMA LookupsCount ==
    ASSUME SmallOrAlone, NEW f \in Frame
    PROVE  /\ IsFiniteSet(Lookups(f)) /\ Cardinality(Lookups(f)) \in Nat
           /\ Cardinality(Lookups(f)) = 0 <=> Lookups(f) = {}
<1>1. Lookups(f) \in SUBSET Device
    BY DEF Lookups
<1>2. IsFiniteSet(Lookups(f))
    BY <1>1, FS_Subset DEF SmallOrAlone
<1> QED BY <1>2, FS_CardinalityType, FS_EmptySet

\* Whoever refers to a frame keeps it from being free.
LEMMA Referred ==
    ASSUME SmallOrAlone, Typed, PagesApart, RefsBalance, NEW f \in Frame
    PROVE  /\ count[f] \in Nat
           /\ place[f] = "free" => (\A v \in Page : pte[v].frame # f) /\ Lookups(f) = {}
           /\ place[f] \in {"isolated", "fresh", "pagevec"} /\ (\E v \in Page : pte[v].frame = f) => count[f] > 1
<1>1. /\ count[f] \in Nat /\ place[f] \in Places
      /\ count[f] = Cardinality(Mappings(f)) + Cardinality(Lookups(f))
                    + (IF place[f] \in {"fresh", "isolated", "pagevec"} THEN 1 ELSE 0)
      /\ count[f] = 0 <=> place[f] = "free"
    BY DEF RefsBalance, Typed, TypeOK
<1>2. Cardinality(Mappings(f)) \in Nat /\ Cardinality(Lookups(f)) \in Nat
    BY MappingsCount, LookupsCount
<1>3. ASSUME place[f] = "free" PROVE (\A v \in Page : pte[v].frame # f) /\ Lookups(f) = {}
    <2>1. Cardinality(Mappings(f)) = 0 /\ Cardinality(Lookups(f)) = 0
        BY <1>1, <1>2, <1>3
    <2> QED BY <2>1, MappingsCount, LookupsCount
<1>4. ASSUME place[f] \in {"isolated", "fresh", "pagevec"}, \E v \in Page : pte[v].frame = f
      PROVE  count[f] > 1
    <2>1. Cardinality(Mappings(f)) = 1
        BY <1>4, MappingsCount
    <2> QED BY <1>1, <1>2, <1>4, <2>1
<1> QED BY <1>1, <1>3, <1>4

LEMMA Counted ==
    ASSUME SmallOrAlone, Typed, PagesApart, RefsBalance
    PROVE  /\ \A d \in Device : \A i \in LookedUp(d) : count[opage[d][i]] \in Nat \ {0}
           /\ \A f \in Frame : place[f] # "free" => count[f] \in Nat \ {0}
<1>1. \A f \in Frame : count[f] \in Nat /\ (count[f] = 0 <=> place[f] = "free")
    BY DEF RefsBalance, Typed, TypeOK
<1>2. ASSUME NEW d \in Device, NEW i \in LookedUp(d) PROVE count[opage[d][i]] \in Nat \ {0}
    <2>1. opage[d][i] \in Frame
        BY InHand
    <2>2. d \in Lookups(opage[d][i])
        BY DEF Lookups
    <2>3. place[opage[d][i]] # "free"
        BY <2>1, <2>2, Referred
    <2> QED BY <1>1, <2>1, <2>3
<1> QED BY <1>1, <1>2

\* Only the device that has run into a locked huge page holds a frame it has not isolated.
LEMMA HeldIsolated ==
    ASSUME SmallOrAlone, NEW d \in Device, NEW e \in Device, Isolated(e), NEW i \in Held(e),
           Taken(d) = {} \/ (Taken(d) = {at[d]} /\ opage[d][at[d]] \notin locked)
    PROVE  place[opage[e][i]] = "isolated"
<1>1. CASE Huge = {}
    BY <1>1 DEF Isolated
<1>2. CASE Huge # {}
    <2>1. e = d
        BY <1>2 DEF SmallOrAlone
    <2> QED BY <2>1 DEF Isolated
<1> QED BY <1>1, <1>2

\* The pages of a request are of one kind.
LEMMA OneKind ==
    ASSUME TypeOK, NEW d \in Device, NEW i \in 1 .. Len(req[d])
    PROVE  req[d][1] \in Huge <=> req[d][i] \in Huge
<1>1. req[d] \in Requests
    <2>1. req[d] \in Requests \cup {<<>>}
        BY DEF TypeOK
    <2>2. req[d] # <<>>
        OBVIOUS
    <2> QED BY <2>1, <2>2
<1>2. req[d] \in Seq(Page) /\ DOMAIN req[d] = 1 .. Len(req[d]) /\ Len(req[d]) \in Nat
    BY Types
<1>3. req[d][1] \in ToSet(req[d]) /\ req[d][i] \in ToSet(req[d])
    BY <1>2 DEF ToSet
<1>4. ToSet(req[d]) \subseteq Huge \/ ToSet(req[d]) \cap Huge = {}
    BY <1>1, PageMigAssumption
<1> QED BY <1>3, <1>4

LEMMA DrainFrames ==
    ASSUME SmallOrAlone, Typed, Frames, DrainPagevecs, UNCHANGED <<pte, locked, anon>>,
           \A d \in Device : Fixed(d) /\ opage'[d] = opage[d]
    PROVE  Frames'
<1>1. \A f \in Frame :
          /\ place[f] # "pagevec" => count'[f] = count[f] /\ place'[f] = place[f]
          /\ place[f] = "pagevec" => /\ count'[f] = count[f] - 1
                                     /\ place'[f] = IF count[f] = 1 THEN "free" ELSE "lru"
    BY DrainTypes DEF Frames
<1>2. PagesApart' /\ HoldersApart' /\ TargetsApart'
    BY Nested DEF Frames, PagesApart, HoldersApart, TargetsApart, Fixed, Steady
<1>3. RefsBalance'
    <2> SUFFICES ASSUME NEW f \in Frame
                 PROVE  /\ count'[f] = Cardinality(Mappings(f)') + Cardinality(Lookups(f)')
                              + (IF place'[f] \in {"fresh", "isolated", "pagevec"} THEN 1 ELSE 0)
                        /\ count'[f] = 0 <=> place'[f] = "free"
        BY DEF RefsBalance
    <2>1. Mappings(f)' = Mappings(f) /\ Lookups(f)' = Lookups(f)
        BY DEF Mappings, Lookups, Fixed, Steady
    <2>2. Cardinality(Mappings(f)) \in Nat /\ Cardinality(Lookups(f)) \in Nat
        BY MappingsCount, LookupsCount DEF Frames
    <2>3. /\ count[f] = Cardinality(Mappings(f)) + Cardinality(Lookups(f))
                    + (IF place[f] \in {"fresh", "isolated", "pagevec"} THEN 1 ELSE 0)
          /\ count[f] = 0 <=> place[f] = "free"
        BY DEF Frames, RefsBalance
    <2> QED BY <1>1, <2>1, <2>2, <2>3
<1>4. ASSUME NEW d \in Device PROVE Transfer(d)' /\ Isolated(d)' /\ Found(d)' /\ Distinct(d)'
    <2>1. \A i \in Unsettled(d) : place[saved[d][i].frame] = "fresh" /\ saved[d][i].frame \in Frame
        BY InHand DEF Frames, Transfer
    <2>2. Transfer(d)'
        BY <1>1, <2>1, Nested DEF Frames, Transfer, Fixed, Steady
    <2>3. \A i \in Held(d) : opage[d][i] \in Frame
        BY InHand
    <2>4. Isolated(d)'
        BY <1>1, <2>3 DEF Frames, Isolated, Fixed, Steady
    <2>5. Found(d)'
        BY Nested DEF Frames, Found, Fixed, Steady
    <2> QED BY <2>2, <2>4, <2>5 DEF Frames, Distinct
<1>5. Sorted'
    <2>1. \A v \in Page : pte[v].frame \in Frame
        BY EntryFields DEF Typed, TypeOK
    <2>2. \A v \in Page : place[pte[v].frame] = "pagevec" => v \notin Huge /\ place'[pte[v].frame] = "lru"
        BY <1>1, <2>1, Referred DEF Frames, Sorted, RightList
    <2>3. \A v \in Page : place[pte[v].frame] # "pagevec" => place'[pte[v].frame] = place[pte[v].frame]
        BY <1>1, <2>1
    <2>4. RightList'
        BY <2>2, <2>3 DEF Frames, Sorted, RightList
    <2>5. \A d \in Device : Taken(d)' = Taken(d) /\ opage'[d] = opage[d]
        BY DEF Fixed, Steady
    <2> QED BY <2>2, <2>3, <2>4, <2>5 DEF Frames, Sorted
<1> QED BY <1>2, <1>3, <1>4, <1>5 DEF Frames

LEMMA FollowFrames ==
    ASSUME SmallOrAlone, Typed, Frames, NEW d \in Device, Follow(d)
    PROVE  Frames'
<1>1. /\ OthersStill(d) /\ UNCHANGED <<program, place, locked, anon, history, saved, req>>
      /\ Unsettled(d) = {} /\ Held(d) = {} /\ Installed(d) = {} /\ LookedUp(d) = {} /\ Taken(d) = {}
      /\ Unsettled(d)' = {} /\ Held(d)' = {} /\ Installed(d)' = {} /\ Taken(d)' = {}
      /\ LookedUp(d)' = 1 .. Len(req[d])
      /\ \A i \in 1 .. Len(req[d]) : opage'[d][i] = pte[req[d][i]].frame
      /\ \A f \in Frame : count'[f] = IF \E i \in 1 .. Len(req[d]) : pte[req[d][i]].frame = f
                                      THEN count[f] + 1 ELSE count[f]
    BY FollowEffect
<1>2. pte' = pte
    BY <1>1 DEF program
<1>3. \A e \in Device \ {d} : Steady(e) /\ LookedUp(e)' = LookedUp(e) /\ opage'[e] = opage[e]
    BY <1>1, StillIsSteady DEF OthersStill, Still, Fixed
<1>4. req[d] \in Seq(Page) /\ IsInjective(req[d]) /\ DOMAIN req[d] = 1 .. Len(req[d])
      /\ \A i \in 1 .. Len(req[d]) : req[d][i] \in Page
    BY Types DEF Typed
<1>5. PagesApart' /\ HoldersApart' /\ TargetsApart'
    <2>1. \A e \in Device : Held(e)' \subseteq Held(e) /\ \A i \in Held(e)' : opage'[e][i] = opage[e][i]
        BY <1>1, <1>3 DEF Steady
    <2>2. \A e \in Device : Unsettled(e)' \subseteq Unsettled(e)
        BY <1>1, <1>3 DEF Steady
    <2> QED BY <1>1, <1>2, <2>1, <2>2 DEF Frames, PagesApart, HoldersApart, TargetsApart
<1>6. RefsBalance'
    <2> SUFFICES ASSUME NEW f \in Frame
                 PROVE  /\ count'[f] = Cardinality(Mappings(f)') + Cardinality(Lookups(f)')
                              + (IF place'[f] \in {"fresh", "isolated", "pagevec"} THEN 1 ELSE 0)
                        /\ count'[f] = 0 <=> place'[f] = "free"
        BY DEF RefsBalance
    <2>1. Mappings(f)' = Mappings(f)
        BY <1>2 DEF Mappings
    <2>2. d \notin Lookups(f) /\ Lookups(f)' = IF \E i \in 1 .. Len(req[d]) : pte[req[d][i]].frame = f
                                               THEN Lookups(f) \cup {d} ELSE Lookups(f)
        BY <1>1, <1>3 DEF Lookups, Steady
    <2>3. /\ Cardinality(Mappings(f)) \in Nat /\ Cardinality(Lookups(f)) \in Nat
          /\ Cardinality(Lookups(f) \cup {d}) = Cardinality(Lookups(f)) + 1
        BY <2>2, MappingsCount, LookupsCount, FS_AddElement DEF Frames
    <2>4. /\ count[f] = Cardinality(Mappings(f)) + Cardinality(Lookups(f))
                    + (IF place[f] \in {"fresh", "isolated", "pagevec"} THEN 1 ELSE 0)
          /\ count[f] = 0 <=> place[f] = "free"
        BY DEF Frames, RefsBalance
    <2>5. (\E i \in 1 .. Len(req[d]) : pte[req[d][i]].frame = f) => place[f] # "free" /\ count[f] \in Nat
        BY <1>4, Referred DEF Frames
    <2> DEFINE backs == \E i \in 1 .. Len(req[d]) : pte[req[d][i]].frame = f
    <2>6. place' = place /\ count'[f] = IF backs THEN count[f] + 1 ELSE count[f]
        BY <1>1
    <2>7. CASE backs
        <3>1. Cardinality(Lookups(f)') = Cardinality(Lookups(f)) + 1 /\ place[f] # "free"
            BY <2>2, <2>3, <2>5, <2>7
        <3> HIDE DEF backs
        <3>2. count'[f] = count[f] + 1 /\ place'[f] = place[f]
            BY <2>6, <2>7
        <3>3. Cardinality(Mappings(f)') = Cardinality(Mappings(f))
            BY <2>1
        <3>4. count[f] \in Nat
            BY <2>3, <2>4
        <3> QED BY <2>3, <2>4, <3>1, <3>2, <3>3, <3>4
    <2>8. CASE ~backs
        <3>1. Lookups(f)' = Lookups(f)
            BY <2>2, <2>8
        <3> HIDE DEF backs
        <3> QED BY <2>1, <2>3, <2>4, <2>6, <2>8, <3>1
    <2> QED BY <2>7, <2>8
<1>7. Transfer(d)' /\ Isolated(d)' /\ Found(d)' /\ Distinct(d)'
    <2>1. Transfer(d)' /\ Isolated(d)'
        BY <1>1 DEF Transfer, Isolated
    <2>2. Found(d)'
        BY <1>1, <1>2 DEF Found
    <2>3. DOMAIN opage'[d] = 1 .. Len(req[d])
        BY <1>4 DEF Follow, Typed, TypeOK
    <2>4. Distinct(d)'
        BY <1>1, <1>4, <2>3 DEF Distinct, IsInjective, Frames, PagesApart
    <2> QED BY <2>1, <2>2, <2>4
<1>8. ASSUME NEW e \in Device \ {d} PROVE Transfer(e)' /\ Isolated(e)' /\ Found(e)' /\ Distinct(e)'
    <2>1. Transfer(e)' /\ Isolated(e)'
        BY <1>1, <1>2, <1>3, Nested DEF Frames, Transfer, Isolated, Steady
    <2>2. Found(e)'
        BY <1>1, <1>2, <1>3, Nested, UnsettledNotTaken DEF Frames, Found, Steady
    <2> QED BY <1>3, <2>1, <2>2 DEF Frames, Distinct
<1>9. Sorted'
    <2>1. \A e \in Device : \A i \in Taken(e) : i \in Taken(e)' /\ opage'[e][i] = opage[e][i]
        BY <1>1, <1>3 DEF Steady
    <2> QED BY <1>1, <1>2, <2>1, SortedKept DEF Frames
<1> QED BY <1>5, <1>6, <1>7, <1>8, <1>9 DEF Frames

LEMMA IsolateFrames ==
    ASSUME SmallOrAlone, Typed, Frames, NEW d \in Device, Isolate(d)
    PROVE  /\ Frames' /\ (Owned => Owned')
           /\ Typed' /\ OthersStill(d) /\ UNCHANGED <<program, history, saved, opage, req>>
           /\ Installed(d)' = Installed(d) /\ Copied(d)' = Copied(d) /\ phase'[d] # "save"
<1> DEFINE p == opage[d][at[d]]
<1>0. phase[d] = "isolate" /\ at[d] \in LookedUp(d)
    <2>1. Positions(d) /\ phase[d] = "isolate"
        BY PositionsHold DEF Typed, Isolate
    <2>2. LookedUp(d) = at[d] .. Len(req[d]) /\ at[d] \in 1 .. Len(req[d])
        BY <2>1 DEF Positions
    <2>3. Len(req[d]) \in Nat
        BY Types DEF Typed
    <2> QED BY <2>1, <2>2, <2>3
<1>1. /\ Typed' /\ OthersStill(d) /\ UNCHANGED <<program, locked, anon, history, saved, opage, req>>
      /\ Unsettled(d)' = Unsettled(d) /\ Installed(d)' = Installed(d) /\ Taken(d) = {}
      /\ Copied(d)' = Copied(d)
      /\ p \in Frame /\ phase[d] # "bug_replace" /\ phase'[d] # "save" /\ at[d] \notin Held(d)
      /\ \/ /\ UNCHANGED <<place, count>>
            /\ Held(d)' = Held(d) /\ LookedUp(d)' = LookedUp(d) /\ Taken(d)' = {}
         \/ /\ \/ /\ place[p] \in {"lru", "active"}
                  /\ place' = [place EXCEPT ![p] = "isolated"]
                  /\ UNCHANGED count
               \/ /\ place[p] # "active" /\ req[d][1] \in Huge
                  /\ count' = [count EXCEPT ![p] = @ - 1]
                  /\ UNCHANGED place
            /\ Held(d)' = Held(d) \cup {at[d]} /\ LookedUp(d)' = LookedUp(d) \ {at[d]}
            /\ Taken(d)' = {at[d]}
    <2>1. count[opage[d][at[d]]] \in Nat \ {0}
        BY <1>0, Counted DEF Frames
    <2> QED BY <2>1, IsolateEffect
<1>2. UNCHANGED <<pte, opage, saved, req, raced>>
    BY <1>1 DEF program, history
<1>3. \A e \in Device \ {d} : Steady(e) /\ Fixed(e)
    BY <1>1, StillIsSteady DEF OthersStill
<1>4. opage[d][at[d]] = p
    OBVIOUS
<1> HIDE DEF p
<1>5. CASE /\ UNCHANGED <<place, count>>
           /\ Held(d)' = Held(d) /\ LookedUp(d)' = LookedUp(d) /\ Taken(d)' = {}
    <2>1. \A e \in Device : Steady(e) /\ Fixed(e)
        BY <1>1, <1>2, <1>3, <1>5 DEF Steady, Fixed
    <2>2. SameMapping
        BY <1>2 DEF SameMapping
    <2>3. \A e \in Device : Distinct(e)'
        BY <1>2 DEF Frames, Distinct
    <2>4. Frames'
        <3>1. UNCHANGED <<place, locked, anon>> /\ count' = count
            BY <1>1, <1>5
        <3>2. \A e \in Device : LookedUp(e)' = LookedUp(e)
            BY <2>1 DEF Fixed
        <3> QED BY <2>1, <2>2, <2>3, <3>1, <3>2, FramesKept DEF Frames
    <2> QED BY <1>1, <1>2, <1>5, <2>1, <2>4, OwnedKept
<1>6. CASE /\ \/ /\ place[p] \in {"lru", "active"}
                 /\ place' = [place EXCEPT ![p] = "isolated"]
                 /\ UNCHANGED count
              \/ /\ place[p] # "active" /\ req[d][1] \in Huge
                 /\ count' = [count EXCEPT ![p] = @ - 1]
                 /\ UNCHANGED place
           /\ Held(d)' = Held(d) \cup {at[d]} /\ LookedUp(d)' = LookedUp(d) \ {at[d]}
           /\ Taken(d)' = {at[d]}
    \* A huge page that is not on its list was locked by a migration that ended in a race.
    <2>1. \/ /\ place[p] \in {"lru", "active"} /\ place'[p] = "isolated" /\ count'[p] = count[p]
          \/ /\ place[p] \in {"fresh", "isolated"} /\ place'[p] = place[p] /\ count'[p] = count[p] - 1
             /\ p \in locked /\ Huge # {} /\ pte[req[d][at[d]]].frame = p /\ req[d][at[d]] \in Page
        <3>1. CASE place[p] \in {"lru", "active"} /\ place' = [place EXCEPT ![p] = "isolated"] /\ UNCHANGED count
            BY <1>1, <3>1 DEF Typed, TypeOK
        <3>2. CASE /\ place[p] # "active" /\ req[d][1] \in Huge
                   /\ count' = [count EXCEPT ![p] = @ - 1] /\ UNCHANGED place
            <4>1. pte[req[d][at[d]]].frame = p
                BY <1>0, <1>1, <1>4, <3>2, Nested DEF Frames, Found
            <4>2. at[d] \in 1 .. Len(req[d]) /\ req[d][at[d]] \in Page
                BY <1>0, InHand
            <4>3. req[d][at[d]] \in Huge
                BY <3>2, <4>2, OneKind DEF Typed
            <4>4. place[p] \in {"fresh", "isolated"}
                BY <3>2, <4>1, <4>2, <4>3 DEF Frames, Sorted, RightList
            <4>5. place[p] # "isolated"
                <5> SUFFICES ASSUME place[p] = "isolated" PROVE FALSE
                    OBVIOUS
                <5>1. PICK e \in Device : \E i \in Taken(e) : opage[e][i] = p
                    BY <4>1, <4>2 DEF Frames, Sorted
                <5>2. e = d
                    BY <3>2 DEF SmallOrAlone
                <5> QED BY <1>1, <5>1, <5>2
            <4>6. p \in locked
                BY <4>1, <4>2, <4>4, <4>5 DEF Frames, Sorted
            <4>7. count'[p] = count[p] - 1
                BY <1>1, <3>2 DEF Typed, TypeOK
            <4> QED BY <3>2, <4>1, <4>2, <4>4, <4>6, <4>7
        <3> QED BY <1>6, <3>1, <3>2
    <2>2. \A f \in Frame \ {p} : place'[f] = place[f] /\ count'[f] = count[f]
        BY <1>1, <1>6 DEF Typed, TypeOK
    <2>3. \A e \in Device : \A i \in Held(e) : place[opage[e][i]] = "isolated" /\ opage[e][i] \in Frame
        BY <1>1, InHand, HeldIsolated DEF Frames
    <2>4. \A e \in Device : \A i \in Held(e) : opage[e][i] # p
        <3>1. CASE place[p] \in {"lru", "active"}
            BY <2>3, <3>1
        <3>2. CASE Huge # {}
            <4> SUFFICES ASSUME NEW e \in Device, NEW i \in Held(e) PROVE opage[e][i] # p
                OBVIOUS
            <4>1. e = d
                BY <3>2 DEF SmallOrAlone
            <4>2. i \in DOMAIN opage[d] /\ at[d] \in DOMAIN opage[d]
                <5>1. Len(opage[d]) = Len(req[d]) /\ DOMAIN opage[d] = 1 .. Len(opage[d])
                    BY <1>0, Types DEF Typed, Shape, Quiet
                <5> QED BY <1>0, <4>1, <5>1, InHand
            <4> QED BY <1>1, <1>4, <4>1, <4>2 DEF Frames, Distinct, IsInjective
        <3> QED BY <2>1, <3>1, <3>2
    <2>5. \A e \in Device : \A i \in Unsettled(e) :
              place[saved[e][i].frame] = "fresh" /\ place'[saved[e][i].frame] = "fresh"
        <3> SUFFICES ASSUME NEW e \in Device, NEW i \in Unsettled(e)
                     PROVE  place[saved[e][i].frame] = "fresh" /\ place'[saved[e][i].frame] = "fresh"
            OBVIOUS
        <3>1. place[saved[e][i].frame] = "fresh" /\ saved[e][i].frame \in Frame
            BY InHand DEF Frames, Transfer
        <3> QED BY <2>1, <2>2, <3>1
    <2>6. \A e \in Device : Unsettled(e)' = Unsettled(e)
        BY <1>1, <1>3 DEF Fixed
    <2>7. \A e \in Device : \A i \in Held(e)' : i \in Held(e) \/ (e = d /\ i = at[d])
        BY <1>1, <1>3, <1>6 DEF Fixed
    <2>8. HoldersApart'
        <3> SUFFICES ASSUME NEW e \in Device, NEW g \in Device, NEW i \in Held(e)', NEW j \in Held(g)',
                            opage[e][i] = opage[g][j]
                     PROVE  e = g /\ i = j
            BY <1>2 DEF HoldersApart
        <3>1. CASE i \in Held(e) /\ j \in Held(g)
            BY <3>1 DEF Frames, HoldersApart
        <3>2. CASE ~(i \in Held(e)) \/ ~(j \in Held(g))
            BY <1>4, <2>4, <2>7, <3>2
        <3> QED BY <3>1, <3>2
    <2>9. PagesApart' /\ TargetsApart'
        BY <1>2, <2>6 DEF Frames, PagesApart, TargetsApart
    <2>10. RefsBalance'
        <3> SUFFICES ASSUME NEW f \in Frame
                     PROVE  /\ count'[f] = Cardinality(Mappings(f)') + Cardinality(Lookups(f)')
                                  + (IF place'[f] \in {"fresh", "isolated", "pagevec"} THEN 1 ELSE 0)
                            /\ count'[f] = 0 <=> place'[f] = "free"
            BY DEF RefsBalance
        <3>1. Mappings(f)' = Mappings(f)
            BY <1>2 DEF Mappings
        <3>2. /\ Cardinality(Mappings(f)) \in Nat /\ Cardinality(Lookups(f)) \in Nat /\ IsFiniteSet(Lookups(f))
            BY MappingsCount, LookupsCount DEF Frames
        <3>3. /\ count[f] = Cardinality(Mappings(f)) + Cardinality(Lookups(f))
                        + (IF place[f] \in {"fresh", "isolated", "pagevec"} THEN 1 ELSE 0)
              /\ count[f] = 0 <=> place[f] = "free"
            BY DEF Frames, RefsBalance
        <3>4. CASE f = p
            <4>1. d \in Lookups(f)
                BY <1>0, <1>4, <3>4 DEF Lookups
            <4>2. \A i \in LookedUp(d) \ {at[d]} : opage[d][i] # f
                <5>1. \A i \in LookedUp(d) : i \in DOMAIN opage[d]
                    BY DEF LookedUp
                <5> QED BY <1>0, <1>4, <3>4, <5>1 DEF Frames, Distinct, IsInjective
            <4>3. Lookups(f)' = Lookups(f) \ {d}
                BY <1>2, <1>3, <1>6, <4>2 DEF Lookups, Fixed, Steady
            <4>4. Cardinality(Lookups(f)') = Cardinality(Lookups(f)) - 1
                BY <3>2, <4>1, <4>3, FS_RemoveElement
            <4>5. Cardinality(Lookups(f)) # 0
                BY <4>1, LookupsCount
            <4> QED BY <2>1, <3>1, <3>2, <3>3, <3>4, <4>4, <4>5
        <3>5. CASE f # p
            <4>1. Lookups(f)' = Lookups(f)
                BY <1>2, <1>3, <1>4, <1>6, <3>5 DEF Lookups, Fixed, Steady
            <4> QED BY <2>2, <3>1, <3>2, <3>3, <3>5, <4>1
        <3> QED BY <3>4, <3>5
    <2>11. ASSUME NEW e \in Device PROVE Transfer(e)' /\ Isolated(e)' /\ Found(e)' /\ Distinct(e)'
        <3>1. Transfer(e)'
            BY <1>1, <1>2, <2>5, <2>6 DEF Frames, Transfer
        <3>2. Isolated(e)'
            <4> SUFFICES ASSUME NEW i \in Held(e)'
                         PROVE  \/ place'[opage[e][i]] = "isolated"
                                \/ (Huge # {} /\ i \in Taken(e)' /\ opage[e][i] \in locked)
                BY <1>1, <1>2 DEF Isolated
            <4>1. CASE i \in Held(e)
                BY <2>2, <2>3, <2>4, <4>1
            <4>2. CASE e = d /\ i = at[d]
                BY <1>4, <1>6, <2>1, <4>2
            <4> QED BY <2>7, <4>1, <4>2
        <3>3. (LookedUp(e) \cup Taken(e))' = LookedUp(e) \cup Taken(e)
            BY <1>0, <1>1, <1>3, <1>6 DEF Fixed, Steady
        <3>4. Found(e)'
            BY <1>1, <1>2, <2>6, <3>3 DEF Frames, Found
        <3> QED BY <1>2, <3>1, <3>2, <3>4 DEF Frames, Distinct
    <2>12. Sorted'
        <3>1. \A v \in Page : pte'[v] = pte[v] /\ pte[v].frame \in Frame
            BY <1>2, EntryFields DEF Typed, TypeOK
        <3>2. \A v \in Page : \/ place'[pte[v].frame] = place[pte[v].frame]
                              \/ pte[v].frame = p /\ place'[pte[v].frame] = "isolated"
            BY <2>1, <2>2, <3>1
        <3>3. RightList'
            BY <3>1, <3>2 DEF Frames, Sorted, RightList
        <3>4. \A v \in Page : place'[pte'[v].frame] = "fresh" => pte'[v].frame \in locked'
            BY <1>1, <3>1, <3>2 DEF Frames, Sorted
        <3>5. ASSUME NEW v \in Page, place'[pte'[v].frame] = "isolated"
              PROVE  \E e \in Device : \E i \in Taken(e)' : opage'[e][i] = pte'[v].frame
            <4>1. CASE pte[v].frame = p
                BY <1>2, <1>4, <1>6, <3>1, <4>1
            <4>2. CASE pte[v].frame # p
                <5>1. PICK e \in Device : \E i \in Taken(e) : opage[e][i] = pte[v].frame
                    BY <3>1, <3>2, <3>5, <4>2 DEF Frames, Sorted
                <5>2. Taken(e)' = Taken(e)
                    BY <1>1, <1>3, <5>1 DEF Fixed, Steady
                <5> QED BY <1>2, <3>1, <5>1, <5>2
            <4> QED BY <4>1, <4>2
        <3> QED BY <3>3, <3>4, <3>5 DEF Sorted
    <2>13. Owned => Owned'
        <3> SUFFICES ASSUME Owned, raced = {}, NEW f \in Frame, f \in locked \/ place'[f] \in {"fresh", "isolated"}
                     PROVE  \E e \in Device : \/ phase'[e] = "bug_replace"
                                              \/ \E i \in Held(e)' : opage'[e][i] = f
                                              \/ \E i \in Unsettled(e)' : saved'[e][i].frame = f
            BY <1>1, <1>2 DEF Owned
        <3>1. CASE f = p
            BY <1>2, <1>4, <1>6, <3>1
        <3>2. CASE f # p
            <4>1. PICK e \in Device : \/ phase[e] = "bug_replace"
                                      \/ \E i \in Held(e) : opage[e][i] = f
                                      \/ \E i \in Unsettled(e) : saved[e][i].frame = f
                BY <2>2, <3>2 DEF Owned
            <4>2. phase[e] = "bug_replace" => phase'[e] = "bug_replace"
                BY <1>1, <1>3 DEF Fixed
            <4>3. Held(e) \subseteq Held(e)'
                BY <1>3, <1>6 DEF Fixed
            <4> QED BY <1>2, <2>6, <4>1, <4>2, <4>3
        <3> QED BY <3>1, <3>2
    <2> QED BY <1>1, <1>2, <2>8, <2>9, <2>10, <2>11, <2>12, <2>13 DEF Frames
<1> QED BY <1>1, <1>5, <1>6

\* The entry cannot be replaced, and the device stops.
LEMMA StopFrames ==
    ASSUME SmallOrAlone, Typed, Frames, NEW d \in Device, NEW new \in Frame, phase[d] = "replace",
           place[new] = "free", Goto(d, "bug_replace"),
           count' = [count EXCEPT ![new] = 1], place' = [place EXCEPT ![new] = "fresh"],
           locked' = locked \cup {opage[d][at[d]]},
           UNCHANGED <<program, anon, hugePage, req, at, opage, saved, polled, history>>
    PROVE  Typed' /\ Frames' /\ Owned' /\ \A e \in Device : Fixed(e) /\ Flying(e)
<1>1. /\ place'[new] = "fresh" /\ count'[new] = 1
      /\ \A f \in Frame \ {new} : place'[f] = place[f] /\ count'[f] = count[f]
      /\ place' \in [Frame -> Places] /\ count' \in [Frame -> Nat]
    BY DEF Typed, TypeOK, Places
<1>2. opage[d][at[d]] \in Frame
    <2>1. at[d] \in 1 .. Len(opage[d])
        BY DEF Typed, TypeOK, Shape, Quiet
    <2> QED BY <2>1, Types DEF Typed
<1>3. Typed' /\ OthersStill(d) /\ SamePositions(d) /\ phase'[d] = "bug_replace"
    <2>1. locked' \subseteq Frame
        BY <1>2 DEF Typed, TypeOK
    <2> QED BY <1>1, <2>1, StopEffect DEF Goto
<1>4. UNCHANGED <<pte, opage, saved, req>>
    BY DEF program
<1>5. \A e \in Device : Fixed(e) /\ Steady(e) /\ Flying(e)
    <2>1. Fixed(d) /\ Flying(d) /\ Steady(d)
        BY <1>3, <1>4 DEF SamePositions, Fixed, Steady, Flying
    <2> QED BY <1>3, <2>1, StillIsSteady DEF OthersStill
<1>6. Owned'
    BY <1>3 DEF Owned
<1>7. PagesApart' /\ HoldersApart' /\ TargetsApart'
    BY <1>4, <1>5 DEF Frames, PagesApart, HoldersApart, TargetsApart, Fixed
<1>8. (\A v \in Page : pte[v].frame # new) /\ Lookups(new) = {}
    BY Referred DEF Frames
<1>9. RefsBalance'
    <2> SUFFICES ASSUME NEW f \in Frame
                 PROVE  /\ count'[f] = Cardinality(Mappings(f)') + Cardinality(Lookups(f)')
                              + (IF place'[f] \in {"fresh", "isolated", "pagevec"} THEN 1 ELSE 0)
                        /\ count'[f] = 0 <=> place'[f] = "free"
        BY DEF RefsBalance
    <2>1. Mappings(f)' = Mappings(f) /\ Lookups(f)' = Lookups(f)
        BY <1>4, <1>5 DEF Mappings, Lookups, Fixed, Steady
    <2>2. /\ count[f] = Cardinality(Mappings(f)) + Cardinality(Lookups(f))
                    + (IF place[f] \in {"fresh", "isolated", "pagevec"} THEN 1 ELSE 0)
          /\ count[f] = 0 <=> place[f] = "free"
        BY DEF Frames, RefsBalance
    <2>3. CASE f = new
        <3>1. Cardinality(Mappings(f)) = 0 /\ Cardinality(Lookups(f)) = 0
            BY <1>8, <2>3, MappingsCount, LookupsCount DEF Frames
        <3> QED BY <1>1, <2>1, <2>3, <3>1
    <2>4. CASE f # new
        BY <1>1, <2>1, <2>2, <2>4
    <2> QED BY <2>3, <2>4
<1>10. ASSUME NEW e \in Device PROVE Transfer(e)' /\ Isolated(e)' /\ Found(e)' /\ Distinct(e)'
    <2>1. /\ Unsettled(e)' = Unsettled(e) /\ Held(e)' = Held(e)
          /\ LookedUp(e)' = LookedUp(e) /\ Taken(e)' = Taken(e)
        BY <1>5 DEF Fixed, Steady
    <2>2. \A i \in Unsettled(e) : place[saved[e][i].frame] = "fresh" /\ saved[e][i].frame \in Frame \ {new}
        BY InHand DEF Frames, Transfer
    <2>3. Transfer(e)'
        BY <1>1, <1>4, <2>1, <2>2 DEF Frames, Transfer
    <2>4. \A i \in Held(e) : opage[e][i] \in Frame \ {new}
        <3> SUFFICES ASSUME NEW i \in Held(e) PROVE opage[e][i] \in Frame \ {new}
            OBVIOUS
        <3>1. opage[e][i] \in Frame /\ req[e][i] \in Page
            BY InHand
        <3>2. CASE place[opage[e][i]] = "isolated"
            BY <3>1, <3>2
        <3>3. CASE Huge # {} /\ i \in Taken(e)
            BY <1>8, <3>1, <3>3, UnsettledNotTaken DEF Frames, Found
        <3> QED BY <3>2, <3>3 DEF Frames, Isolated
    <2>5. Isolated(e)'
        BY <1>1, <1>4, <2>1, <2>4 DEF Frames, Isolated
    <2>6. Found(e)'
        BY <1>4, <2>1 DEF Frames, Found
    <2> QED BY <1>4, <2>3, <2>5, <2>6 DEF Frames, Distinct
<1>11. Sorted'
    <2>1. \A v \in Page : place'[pte[v].frame] = place[pte[v].frame]
        <3>1. \A v \in Page : pte[v].frame \in Frame \ {new}
            BY <1>8, EntryFields DEF Typed, TypeOK
        <3> QED BY <1>1, <3>1
    <2>2. \A e \in Device : \A i \in Taken(e) : i \in Taken(e)' /\ opage'[e][i] = opage[e][i]
        BY <1>4, <1>5 DEF Steady
    <2> QED BY <1>4, <2>1, <2>2, SortedKept DEF Frames
<1> QED BY <1>3, <1>5, <1>6, <1>7, <1>9, <1>10, <1>11 DEF Frames

\* The page of the request gets a new frame.
LEMMA InstallFrames ==
    ASSUME SmallOrAlone, Typed, Frames, Contents, NEW d \in Device, NEW new \in Frame,
           phase[d] = "replace", place[new] = "free",
           opage[d][at[d]] \notin locked, opage[d][at[d]] \in anon,
           InstallNewPte(req[d][at[d]], new),
           locked' = locked \cup {opage[d][at[d]], new}, anon' = anon \cup {new},
           saved' = [saved EXCEPT ![d] = Append(@, pte'[req[d][at[d]]])],
           Goto(d, "save"),
           UNCHANGED <<tlb, content, hugePage, req, at, opage, polled, history>>
    PROVE  Typed' /\ Frames' /\ Contents' /\ (Owned => Owned')
<1> DEFINE v == req[d][at[d]]  page == opage[d][at[d]]
<1>1. /\ at[d] \in 1 .. Len(req[d]) /\ Taken(d) = {at[d]} /\ at[d] \in Held(d)
    <2>1. Positions(d) /\ at[d] \in 1 .. Len(req[d])
        BY PositionsHold DEF Typed, TypeOK
    <2> QED BY <2>1 DEF Positions, Taken, Held
<1>2. page \in Frame /\ v \in Page /\ place[page] = "isolated"
    BY <1>1, InHand DEF Frames, Isolated
<1>3. pte[v].frame = page
    BY <1>1, <1>2 DEF Frames, Found
<1>4. count[page] \in Nat \ {0} /\ count[page] > 1 /\ page # new
    <2>1. count[page] \in Nat /\ count[page] > 1
        BY <1>2, <1>3, Referred DEF Frames
    <2> QED BY <1>2, <2>1
<1>5. /\ Typed' /\ OthersStill(d)
      /\ pte'[v].frame = new /\ pte'[v].young /\ ~pte'[v].dirty
      /\ \A u \in Page \ {v} : pte'[u] = pte[u]
      /\ saved'[d][at[d]] = pte'[v]
      /\ \A i \in DOMAIN saved[d] : i \in DOMAIN saved'[d] /\ saved'[d][i] = saved[d][i]
      /\ DOMAIN saved'[d] = DOMAIN saved[d] \cup {at[d]}
      /\ Unsettled(d)' = Unsettled(d) \cup {at[d]} /\ Installed(d)' = Installed(d) \cup {at[d]}
      /\ Copied(d)' = {} /\ Copied(d) = {}
      /\ Held(d)' = Held(d) /\ Taken(d)' = {} /\ LookedUp(d)' = LookedUp(d) \cup {at[d]}
      /\ at[d] \notin LookedUp(d) /\ phase'[d] = "save"
      /\ Installed(d) = Unsettled(d) /\ at[d] \notin Unsettled(d) /\ Unsettled(d) = DOMAIN saved[d]
    <2> HIDE DEF v, page
    <2>2. /\ Typed' /\ OthersStill(d)
          /\ pte'[req[d][at[d]]].frame = new /\ pte'[req[d][at[d]]].young /\ ~pte'[req[d][at[d]]].dirty
          /\ \A u \in Page \ {req[d][at[d]]} : pte'[u] = pte[u]
          /\ saved'[d][at[d]] = pte'[req[d][at[d]]]
          /\ \A i \in DOMAIN saved[d] : i \in DOMAIN saved'[d] /\ saved'[d][i] = saved[d][i]
          /\ DOMAIN saved'[d] = DOMAIN saved[d] \cup {at[d]}
          /\ Unsettled(d)' = Unsettled(d) \cup {at[d]} /\ Installed(d)' = Installed(d) \cup {at[d]}
          /\ Copied(d)' = {} /\ Copied(d) = {}
          /\ Held(d)' = Held(d) /\ Taken(d)' = {} /\ LookedUp(d)' = LookedUp(d) \cup {at[d]}
          /\ at[d] \notin LookedUp(d) /\ phase'[d] = "save"
          /\ Installed(d) = Unsettled(d) /\ at[d] \notin Unsettled(d) /\ Unsettled(d) = DOMAIN saved[d]
        BY InstallEffect
    <2> QED BY <2>2 DEF v
<1>6. /\ count'[new] = 2 /\ place'[new] = "fresh"
      /\ \A f \in Frame \ {new} : count'[f] = count[f] /\ place'[f] = place[f]
    <2>1. count' = [count EXCEPT ![new] = 2] /\ place' = [place EXCEPT ![new] = "fresh"]
        BY DEF InstallNewPte
    <2> QED BY <2>1 DEF Typed, TypeOK
<1>7. /\ content' = content /\ req' = req /\ opage' = opage
      /\ written' = written /\ stale' = stale /\ raced' = raced /\ gap' = gap /\ hurried' = hurried
      /\ locked \subseteq locked' /\ page \in locked' /\ new \in locked' /\ locked' \subseteq locked \cup {page, new}
      /\ anon' \subseteq anon \cup {new} /\ page \notin locked
    BY DEF history
<1>8. (\A u \in Page : pte[u].frame # new) /\ Lookups(new) = {}
    BY Referred DEF Frames
<1>9. opage[d][at[d]] = page /\ req[d][at[d]] = v
    OBVIOUS
<1> HIDE DEF v, page
<1>10. \A e \in Device \ {d} : /\ Steady(e) /\ Fixed(e) /\ Flying(e)
                               /\ saved'[e] = saved[e] /\ phase'[e] = phase[e] /\ at'[e] = at[e]
    BY <1>5, StillIsSteady DEF OthersStill, Still
\* What is under way elsewhere concerns other pages and other frames.
<1>11. \A e \in Device : \A i \in Held(e) :
           opage[e][i] \in Frame \ {new} /\ place'[opage[e][i]] = "isolated" /\ req[e][i] \in Page
    <2> SUFFICES ASSUME NEW e \in Device, NEW i \in Held(e)
                 PROVE  opage[e][i] \in Frame \ {new} /\ place'[opage[e][i]] = "isolated" /\ req[e][i] \in Page
        OBVIOUS
    <2>1. place[opage[e][i]] = "isolated"
        BY <1>1, <1>7, <1>9, HeldIsolated DEF Frames
    <2>2. opage[e][i] \in Frame /\ req[e][i] \in Page
        BY InHand
    <2> QED BY <1>6, <2>1, <2>2
<1>12. \A e \in Device : \A i \in Unsettled(e) :
           /\ req[e][i] \in Page \ {v} /\ pte'[req[e][i]] = pte[req[e][i]]
           /\ pte[req[e][i]].frame = saved[e][i].frame
           /\ saved[e][i].frame \in Frame \ {new, page} /\ place'[saved[e][i].frame] = "fresh"
           /\ saved'[e][i] = saved[e][i] /\ saved[e][i].frame \in locked /\ opage[e][i] \in locked
    <2> SUFFICES ASSUME NEW e \in Device, NEW i \in Unsettled(e)
                 PROVE  /\ req[e][i] \in Page \ {v} /\ pte'[req[e][i]] = pte[req[e][i]]
                        /\ pte[req[e][i]].frame = saved[e][i].frame
                        /\ saved[e][i].frame \in Frame \ {new, page} /\ place'[saved[e][i].frame] = "fresh"
                        /\ saved'[e][i] = saved[e][i] /\ saved[e][i].frame \in locked /\ opage[e][i] \in locked
        OBVIOUS
    <2>1. /\ pte[req[e][i]].frame = saved[e][i].frame /\ saved[e][i].frame \in locked
          /\ place[saved[e][i].frame] = "fresh" /\ saved[e][i].frame \in Frame /\ req[e][i] \in Page
          /\ opage[e][i] \in locked
        BY InHand, Nested DEF Frames, Transfer
    <2>2. req[e][i] # v
        BY <1>3, <1>7, <2>1
    <2>3. saved'[e][i] = saved[e][i]
        BY <1>5, <1>10
    <2> QED BY <1>2, <1>5, <1>6, <2>1, <2>2, <2>3
<1>13. \A e \in Device : \A i \in Unsettled(e)' : i \in Unsettled(e) \/ (e = d /\ i = at[d])
    BY <1>5, <1>10 DEF Fixed
<1>14. PagesApart'
    BY <1>2, <1>5, <1>8 DEF Frames, PagesApart
<1>15. HoldersApart'
    BY <1>5, <1>7, <1>10 DEF Frames, HoldersApart, Fixed
<1>16. TargetsApart'
    BY <1>5, <1>12, <1>13 DEF Frames, TargetsApart
<1>17. RefsBalance'
    <2> SUFFICES ASSUME NEW f \in Frame
                 PROVE  /\ count'[f] = Cardinality(Mappings(f)') + Cardinality(Lookups(f)')
                              + (IF place'[f] \in {"fresh", "isolated", "pagevec"} THEN 1 ELSE 0)
                        /\ count'[f] = 0 <=> place'[f] = "free"
        BY DEF RefsBalance
    <2>1. Lookups(f)' = IF f = page THEN Lookups(f) \cup {d} ELSE Lookups(f)
        BY <1>5, <1>7, <1>9, <1>10 DEF Lookups, Fixed, Steady
    <2>2. /\ count[f] = Cardinality(Mappings(f)) + Cardinality(Lookups(f))
                    + (IF place[f] \in {"fresh", "isolated", "pagevec"} THEN 1 ELSE 0)
          /\ count[f] = 0 <=> place[f] = "free"
        BY DEF Frames, RefsBalance
    <2>3. Cardinality(Mappings(f)) \in Nat /\ Cardinality(Lookups(f)) \in Nat
        BY MappingsCount, LookupsCount DEF Frames
    <2>4. CASE f = new
        <3>1. Mappings(f)' = {v}
            BY <1>2, <1>5, <1>8, <2>4 DEF Mappings
        <3>2. Cardinality(Mappings(f)') = 1 /\ Cardinality(Lookups(f)) = 0
            BY <1>8, <2>4, <3>1, FS_Singleton, LookupsCount
        <3>3. Lookups(f)' = Lookups(f)
            BY <1>4, <2>1, <2>4
        <3> QED BY <1>6, <2>4, <3>2, <3>3
    <2>5. CASE f = page
        <3>1. Mappings(f)' = {}
            BY <1>2, <1>3, <1>4, <1>5, <2>5 DEF Mappings, Frames, PagesApart
        <3>2. Cardinality(Mappings(f)') = 0 /\ Cardinality(Mappings(f)) = 1
            BY <1>2, <1>3, <2>5, <3>1, FS_EmptySet, MappingsCount DEF Frames
        <3>3. d \notin Lookups(f)
            <4>1. /\ at[d] \in DOMAIN opage[d] /\ \A i \in LookedUp(d) : i \in DOMAIN opage[d]
                  /\ IsInjective(opage[d])
                BY <1>1, Types DEF LookedUp, Typed, Shape, Quiet, Frames, Distinct
            <4>2. \A i \in LookedUp(d) : opage[d][i] # opage[d][at[d]]
                BY <1>5, <4>1 DEF IsInjective
            <4> QED BY <1>9, <2>5, <4>2 DEF Lookups
        <3>4. Cardinality(Lookups(f)') = Cardinality(Lookups(f)) + 1
            BY <2>1, <2>5, <3>3, LookupsCount, FS_AddElement
        <3> QED BY <1>4, <1>6, <2>1, <2>2, <2>3, <2>5, <3>2, <3>4
    <2>6. CASE f # new /\ f # page
        <3>1. Mappings(f)' = Mappings(f)
            BY <1>2, <1>3, <1>5, <2>6 DEF Mappings
        <3> QED BY <1>6, <2>1, <2>2, <2>6, <3>1
    <2> QED BY <2>4, <2>5, <2>6
<1>18. ASSUME NEW e \in Device PROVE Transfer(e)' /\ Isolated(e)' /\ Found(e)' /\ Distinct(e)'
    <2>1. ASSUME NEW i \in Unsettled(e)
          PROVE  /\ pte'[req[e][i]].frame = saved'[e][i].frame
                 /\ opage[e][i] \in locked' /\ saved'[e][i].frame \in locked'
                 /\ place'[saved'[e][i].frame] = "fresh"
                 /\ \A u \in Page : pte'[u].frame # opage[e][i]
        <3>1. opage[e][i] # new /\ \A u \in Page : pte[u].frame # opage[e][i]
            BY <1>11, Nested DEF Frames, Transfer
        <3> QED BY <1>5, <1>7, <1>12, <3>1
    <2>2. ASSUME e = d
          PROVE  /\ pte'[req[e][at[d]]].frame = saved'[e][at[d]].frame
                 /\ opage[e][at[d]] \in locked' /\ saved'[e][at[d]].frame \in locked'
                 /\ place'[saved'[e][at[d]].frame] = "fresh"
                 /\ \A u \in Page : pte'[u].frame # opage[e][at[d]]
        <3>1. \A u \in Page : pte'[u].frame # page
            <4>1. \A u \in Page \ {v} : pte[u].frame # page
                BY <1>2, <1>3 DEF Frames, PagesApart
            <4> QED BY <1>4, <1>5, <4>1
        <3>2. saved'[d][at[d]].frame = new
            BY <1>5
        <3> QED BY <1>5, <1>6, <1>7, <1>9, <2>2, <3>1, <3>2
    <2>3. Transfer(e)'
        <3>1. ASSUME NEW i \in Unsettled(e)'
              PROVE  /\ pte'[req'[e][i]].frame = saved'[e][i].frame
                     /\ opage'[e][i] \in locked' /\ saved'[e][i].frame \in locked'
                     /\ place'[saved'[e][i].frame] = "fresh"
                     /\ \A u \in Page : pte'[u].frame # opage'[e][i]
            <4>1. req'[e][i] = req[e][i] /\ opage'[e][i] = opage[e][i]
                BY <1>7
            <4>2. CASE i \in Unsettled(e)
                BY <2>1, <4>1, <4>2
            <4>3. CASE e = d /\ i = at[d]
                BY <2>2, <4>1, <4>3
            <4> QED BY <1>13, <4>2, <4>3
        <3> QED BY <3>1 DEF Transfer
    <2>4. Isolated(e)'
        BY <1>5, <1>7, <1>10, <1>11 DEF Isolated, Fixed
    <2>5. ASSUME NEW i \in LookedUp(e)' \cup Taken(e)'
          PROVE  \/ pte'[req[e][i]].frame = opage[e][i]
                 \/ /\ Huge = {} \/ i \in Unsettled(e)'
                    /\ \A u \in Page : pte'[u].frame # opage[e][i]
                    /\ opage[e][i] \in locked' \/ opage[e][i] \notin anon'
        <3>00. CASE e = d /\ i = at[d]
            <4>1. i \in Unsettled(e)'
                BY <1>5, <3>00
            <4> QED BY <2>2, <3>00, <4>1
        <3> SUFFICES ASSUME ~(e = d /\ i = at[d])
                     PROVE  \/ pte'[req[e][i]].frame = opage[e][i]
                            \/ /\ Huge = {} \/ i \in Unsettled(e)'
                               /\ \A u \in Page : pte'[u].frame # opage[e][i]
                               /\ opage[e][i] \in locked' \/ opage[e][i] \notin anon'
            BY <3>00
        <3>0. i \in LookedUp(e) \cup Taken(e) /\ (e = d => i # at[d])
            BY <1>5, <1>10 DEF Fixed, Steady
        <3>1. opage[e][i] # new /\ req[e][i] \in Page
            <4>1. CASE i \in LookedUp(e)
                BY <1>8, <4>1, InHand DEF Lookups
            <4>2. CASE i \in Taken(e)
                BY <1>11, <4>2, Nested
            <4> QED BY <3>0, <4>1, <4>2
        <3>2. CASE pte[req[e][i]].frame = opage[e][i] /\ req[e][i] # v
            BY <1>5, <3>1, <3>2
        <3>3. CASE pte[req[e][i]].frame = opage[e][i] /\ req[e][i] = v
            <4>1. Huge = {}
                <5>1. CASE e = d
                    <6>1. i \in 1 .. Len(req[d]) /\ DOMAIN req[d] = 1 .. Len(req[d]) /\ IsInjective(req[d])
                        BY <3>0, <5>1, InHand, Nested, Types DEF Typed
                    <6> QED BY <1>1, <1>9, <3>0, <3>3, <5>1, <6>1 DEF IsInjective
                <5>2. CASE e # d
                    BY <5>2 DEF SmallOrAlone
                <5> QED BY <5>1, <5>2
            <4>2. \A u \in Page : pte'[u].frame # page
                <5>1. \A u \in Page \ {v} : pte[u].frame # page
                    BY <1>2, <1>3 DEF Frames, PagesApart
                <5> QED BY <1>4, <1>5, <5>1
            <4>3. opage[e][i] = page
                BY <1>3, <3>3
            <4> QED BY <1>7, <4>1, <4>2, <4>3
        <3>4. CASE /\ Huge = {} \/ i \in Unsettled(e)
                   /\ \A u \in Page : pte[u].frame # opage[e][i]
                   /\ opage[e][i] \in locked \/ opage[e][i] \notin anon
            <4>1. i \in Unsettled(e) => i \in Unsettled(e)'
                BY <1>5, <1>10 DEF Fixed
            <4> QED BY <1>5, <1>7, <3>1, <3>4, <4>1
        <3> QED BY <3>0, <3>2, <3>3, <3>4 DEF Frames, Found
    <2>6. Found(e)'
        BY <1>7, <2>5 DEF Found
    <2> QED BY <1>7, <2>3, <2>4, <2>6 DEF Frames, Distinct
<1>19. ASSUME Owned PROVE Owned'
    <2> SUFFICES ASSUME raced = {}, NEW f \in Frame, f \in locked' \/ place'[f] \in {"fresh", "isolated"}
                 PROVE  \E e \in Device : \/ phase'[e] = "bug_replace"
                                          \/ \E i \in Held(e)' : opage'[e][i] = f
                                          \/ \E i \in Unsettled(e)' : saved'[e][i].frame = f
        BY <1>7 DEF Owned
    <2>1. CASE f = new
        BY <1>5, <2>1
    <2>2. CASE f = page
        BY <1>1, <1>5, <1>7, <1>9, <2>2
    <2>3. CASE f # new /\ f # page
        <3>1. PICK e \in Device : \/ phase[e] = "bug_replace"
                                  \/ \E i \in Held(e) : opage[e][i] = f
                                  \/ \E i \in Unsettled(e) : saved[e][i].frame = f
            BY <1>6, <1>7, <1>19, <2>3 DEF Owned
        <3>2. Held(e)' = Held(e) /\ Unsettled(e) \subseteq Unsettled(e)'
            BY <1>5, <1>10 DEF Fixed
        <3>3. phase[e] = "bug_replace" => phase'[e] = "bug_replace"
            BY <1>10
        <3>4. ASSUME NEW i \in Held(e), opage[e][i] = f
              PROVE  \E j \in Held(e)' : opage'[e][j] = f
            BY <1>7, <3>2, <3>4
        <3>5. ASSUME NEW i \in Unsettled(e), saved[e][i].frame = f
              PROVE  \E j \in Unsettled(e)' : saved'[e][j].frame = f
            <4>1. i \in Unsettled(e)'
                BY <3>2, <3>5
            <4>2. saved'[e][i].frame = f
                BY <1>12, <3>5
            <4> QED BY <4>1, <4>2
        <3> QED BY <3>1, <3>3, <3>4, <3>5
    <2> QED BY <2>1, <2>2, <2>3
<1>20. \A e \in Device : \A i \in Installed(e) : i \in Unsettled(e)
    BY Nested
<1>21. NothingLost'
    <2> SUFFICES ASSUME ~stale, ~hurried, NEW u \in Page \ gap PROVE Kept(u)'
        BY <1>7 DEF NothingLost
    <2>1. CASE u = v
        BY <1>5, <1>7, <1>9, <2>1 DEF Kept, InFlight
    <2>2. CASE u # v
        <3>1. Kept(u)
            BY DEF Contents, NothingLost
        <3>2. InFlight(u) => InFlight(u)'
            <4>1. \A e \in Device : Installed(e) \subseteq Installed(e)'
                BY <1>5, <1>10 DEF Flying
            <4> QED BY <1>7, <4>1 DEF InFlight
        <3> QED BY <1>5, <1>7, <2>2, <3>1, <3>2 DEF Kept
    <2> QED BY <2>1, <2>2
<1>22. ASSUME NEW e \in Device PROVE Entries(e)'
    <2>1. CASE e = d
        BY <1>5, <1>7, <1>9, <1>12, <1>20, <2>1 DEF Contents, Entries
    <2>2. CASE e # d
        BY <1>7, <1>10, <1>12, <1>20, <2>2 DEF Contents, Entries, Flying
    <2> QED BY <2>1, <2>2
<1>23. ASSUME NEW e \in Device PROVE Data(e)'
    <2> DEFINE Shown(i) == content[IF i \in Copied(e) THEN saved[e][i].frame ELSE opage[e][i]]
                               = <<req[e][i], written[req[e][i]]>>
    <2>1. ASSUME ~stale, ~hurried, NEW i \in Installed(e), pte'[req[e][i]] = saved'[e][i],
                 req[e][i] \notin raced \cup gap
          PROVE  Shown(i)
        <3>1. i \in Unsettled(e)
            BY <1>20
        <3>2. pte[req[e][i]] = saved[e][i]
            <4>1. pte'[req[e][i]] = pte[req[e][i]]
                BY <1>12, <3>1
            <4>2. saved'[e][i] = saved[e][i]
                BY <1>12, <3>1
            <4> QED BY <2>1, <4>1, <4>2
        <3> QED BY <2>1, <3>2 DEF Contents, Data
    <2> SUFFICES ASSUME ~stale, ~hurried, NEW i \in Installed(e)', pte'[req[e][i]] = saved'[e][i],
                        req[e][i] \notin raced \cup gap
                 PROVE  content[IF i \in Copied(e)' THEN saved'[e][i].frame ELSE opage[e][i]]
                           = <<req[e][i], written[req[e][i]]>>
        BY <1>7 DEF Data
    <2>2. CASE e # d
        <3>1. i \in Installed(e) /\ (i \in Copied(e)' <=> i \in Copied(e)) /\ saved'[e] = saved[e]
            BY <1>10, <2>2 DEF Flying
        <3> QED BY <2>1, <3>1
    <2>3. CASE e = d /\ i # at[d]
        <3>1. i \in Installed(e) /\ i \notin Copied(e) /\ i \notin Copied(e)'
            BY <1>5, <2>3
        <3> QED BY <2>1, <3>1
    <2>4. CASE e = d /\ i = at[d]
        <3>1. ~InFlight(v)
            BY <1>12, <1>20 DEF InFlight
        <3>2. content[page] = <<v, written[v]>>
            BY <1>2, <1>3, <1>9, <2>4, <3>1 DEF Contents, NothingLost, Kept
        <3>3. i \notin Copied(e)'
            BY <1>5, <2>4
        <3> QED BY <1>9, <2>4, <3>2, <3>3
    <2> QED BY <2>2, <2>3, <2>4
<1>24. Sorted'
    <2>1. \A u \in Page \ {v} : pte'[u] = pte[u] /\ pte[u].frame \in Frame \ {new, page}
        BY <1>2, <1>3, <1>5, <1>8, EntryFields DEF Typed, TypeOK, Frames, PagesApart
    <2>2. RightList'
        BY <1>2, <1>5, <1>6, <2>1 DEF Frames, Sorted, RightList
    <2>3. \A u \in Page : place'[pte'[u].frame] = "fresh" => pte'[u].frame \in locked'
        BY <1>2, <1>5, <1>6, <1>7, <2>1 DEF Frames, Sorted
    <2>4. ASSUME NEW u \in Page, place'[pte'[u].frame] = "isolated"
          PROVE  \E e \in Device : \E i \in Taken(e)' : opage'[e][i] = pte'[u].frame
        <3>1. u # v
            BY <1>5, <1>6, <2>4
        <3>2. PICK e \in Device : \E i \in Taken(e) : opage[e][i] = pte[u].frame
            BY <1>6, <2>1, <2>4, <3>1 DEF Frames, Sorted
        <3>3. e # d
            BY <1>1, <1>9, <2>1, <3>1, <3>2
        <3>4. Taken(e)' = Taken(e)
            BY <1>10, <3>3 DEF Fixed, Steady
        <3> QED BY <1>7, <2>1, <3>1, <3>2, <3>4
    <2> QED BY <2>2, <2>3, <2>4 DEF Sorted
<1>25. ASSUME NEW e \in Device PROVE Unread(e)'
    <2>1. CASE e = d
        BY <1>5, <1>7, <1>9, <2>1 DEF Unread
    <2>2. CASE e # d
        <3>1. phase[e] = "save" => at[e] \in Unsettled(e)
            BY InSave
        <3>2. Flying(e) /\ Unread(e) /\ (phase[e] = "save" => pte'[req[e][at[e]]] = pte[req[e][at[e]]])
            BY <1>10, <1>12, <2>2, <3>1 DEF Contents
        <3> QED BY <1>7, <3>2, UnreadKept
    <2> QED BY <2>1, <2>2
<1> QED BY <1>5, <1>14, <1>15, <1>16, <1>17, <1>18, <1>19, <1>21, <1>22, <1>23, <1>24, <1>25
        DEF Frames, Contents

\* The device holds the old frame, and drops the reference of the mapping.
LEMMA SaveFrames ==
    ASSUME SmallOrAlone, Typed, Frames, NEW d \in Device, SaveNewPte(d)
    PROVE  /\ Typed' /\ Frames' /\ OthersStill(d) /\ (Owned => Owned')
           /\ UNCHANGED <<program, place, locked, anon, req, opage, history>>
           /\ phase[d] = "save" /\ phase'[d] # "save"
           /\ saved'[d][at[d]] = pte[req[d][at[d]]]
           /\ \A i \in Unsettled(d) \ {at[d]} : saved'[d][i] = saved[d][i]
           /\ Installed(d)' = Installed(d) /\ Copied(d)' = Copied(d)
<1> DEFINE p == opage[d][at[d]]
<1>1. /\ phase[d] = "save" /\ p \in Frame /\ req[d][at[d]] \in Page
      /\ at[d] \in Unsettled(d) /\ at[d] \in Held(d) /\ at[d] \in LookedUp(d)
      /\ Taken(d) = {} /\ at[d] \in DOMAIN opage[d]
    BY InSave, Types DEF SaveNewPte, Typed
<1>2. /\ place[p] = "isolated" /\ p \in locked /\ \A v \in Page : pte[v].frame # p
      /\ pte[req[d][at[d]]].frame = saved[d][at[d]].frame
    BY <1>1 DEF Frames, Isolated, Transfer
<1>3. d \in Lookups(p)
    BY <1>1 DEF Lookups
<1>4. count[opage[d][at[d]]] \in Nat \ {0, 1}
    <2>1. count[p] = Cardinality(Mappings(p)) + Cardinality(Lookups(p)) + 1
        BY <1>1, <1>2 DEF Frames, RefsBalance
    <2>2. Cardinality(Mappings(p)) \in Nat /\ Cardinality(Lookups(p)) \in Nat \ {0}
        BY <1>1, <1>3, MappingsCount, LookupsCount DEF Frames
    <2> QED BY <2>1, <2>2
<1>5. opage[d][at[d]] = p
    OBVIOUS
<1> HIDE DEF p
<1>6. /\ Typed' /\ OthersStill(d) /\ UNCHANGED <<program, place, locked, anon, req, opage, history>>
      /\ phase'[d] \in {"isolate", "dma"} /\ count' = [count EXCEPT ![opage[d][at[d]]] = @ - 1]
      /\ saved'[d][at[d]] = pte[req[d][at[d]]]
      /\ \A i \in Unsettled(d) \ {at[d]} : saved'[d][i] = saved[d][i]
      /\ Unsettled(d)' = Unsettled(d) /\ Installed(d)' = Installed(d)
      /\ Copied(d)' = Copied(d) /\ Held(d)' = Held(d)
      /\ Taken(d)' = {} /\ LookedUp(d)' = LookedUp(d) \ {at[d]}
    BY <1>4, SaveEffect
<1>7. count'[p] = count[p] - 1 /\ \A f \in Frame \ {p} : count'[f] = count[f]
    BY <1>1, <1>5, <1>6 DEF Typed, TypeOK
<1>8. pte' = pte /\ raced' = raced /\ SameMapping
    BY <1>6 DEF program, history, SameMapping
<1>9. \A e \in Device \ {d} : Steady(e) /\ Fixed(e)
    BY <1>6, StillIsSteady DEF OthersStill
<1>10. Steady(d)
    BY <1>1, <1>2, <1>6 DEF Steady
<1>11. /\ PagesApart' /\ HoldersApart' /\ TargetsApart' /\ Sorted'
       /\ \A e \in Device : Transfer(e)' /\ Isolated(e)' /\ Found(e)'
    <2>1. \A e \in Device : Steady(e)
        BY <1>9, <1>10
    <2> QED BY <1>6, <1>8, <2>1, FramesKept DEF Frames
<1>12. \A e \in Device : Distinct(e)'
    BY <1>6 DEF Frames, Distinct
<1>13. RefsBalance'
    <2> SUFFICES ASSUME NEW f \in Frame
                 PROVE  /\ count'[f] = Cardinality(Mappings(f)') + Cardinality(Lookups(f)')
                              + (IF place'[f] \in {"fresh", "isolated", "pagevec"} THEN 1 ELSE 0)
                        /\ count'[f] = 0 <=> place'[f] = "free"
        BY DEF RefsBalance
    <2>1. Mappings(f)' = Mappings(f)
        BY <1>8 DEF Mappings
    <2>2. /\ Cardinality(Mappings(f)) \in Nat /\ Cardinality(Lookups(f)) \in Nat /\ IsFiniteSet(Lookups(f))
        BY MappingsCount, LookupsCount DEF Frames
    <2>3. /\ count[f] = Cardinality(Mappings(f)) + Cardinality(Lookups(f))
                    + (IF place[f] \in {"fresh", "isolated", "pagevec"} THEN 1 ELSE 0)
          /\ count[f] = 0 <=> place[f] = "free"
        BY DEF Frames, RefsBalance
    <2>4. CASE f = p
        <3>1. \A i \in LookedUp(d) \ {at[d]} : opage[d][i] # f
            <4>1. \A i \in LookedUp(d) : i \in DOMAIN opage[d]
                BY DEF LookedUp
            <4> QED BY <1>1, <1>5, <2>4, <4>1 DEF Frames, Distinct, IsInjective
        <3>2. Lookups(f)' = Lookups(f) \ {d}
            BY <1>6, <1>9, <3>1 DEF Lookups, Fixed, Steady
        <3>3. Cardinality(Lookups(f)') = Cardinality(Lookups(f)) - 1
            BY <1>3, <2>2, <2>4, <3>2, FS_RemoveElement
        <3> QED BY <1>2, <1>4, <1>5, <1>6, <1>7, <2>1, <2>2, <2>3, <2>4, <3>3
    <2>5. CASE f # p
        <3>1. Lookups(f)' = Lookups(f)
            BY <1>5, <1>6, <1>9, <2>5 DEF Lookups, Fixed, Steady
        <3> QED BY <1>6, <1>7, <2>1, <2>2, <2>3, <2>5, <3>1
    <2> QED BY <2>4, <2>5
<1>14. ASSUME Owned PROVE Owned'
    <2> SUFFICES ASSUME raced = {}, NEW f \in Frame, f \in locked \/ place[f] \in {"fresh", "isolated"}
                 PROVE  \E e \in Device : \/ phase'[e] = "bug_replace"
                                          \/ \E i \in Held(e)' : opage'[e][i] = f
                                          \/ \E i \in Unsettled(e)' : saved'[e][i].frame = f
        BY <1>6, <1>8 DEF Owned
    <2>1. PICK e \in Device : \/ phase[e] = "bug_replace"
                              \/ \E i \in Held(e) : opage[e][i] = f
                              \/ \E i \in Unsettled(e) : saved[e][i].frame = f
        BY <1>14 DEF Owned
    <2>2. Held(e)' = Held(e) /\ Unsettled(e)' = Unsettled(e) /\ Steady(e)
        BY <1>6, <1>9, <1>10 DEF Fixed
    <2>3. phase[e] = "bug_replace" => phase'[e] = "bug_replace"
        BY <1>1, <1>9 DEF Fixed
    <2> QED BY <2>1, <2>2, <2>3 DEF Steady
<1> QED BY <1>1, <1>6, <1>11, <1>12, <1>13, <1>14 DEF Frames

LEMMA SettleFrames ==
    ASSUME SmallOrAlone, Typed, Frames, NEW d \in Device, Settle(d)
    PROVE  /\ Frames' /\ (Owned => Owned')
           /\ Typed' /\ OthersStill(d) /\ UNCHANGED <<program, req, opage, saved, history>>
           /\ Installed(d)' = Installed(d) /\ phase'[d] # "save"
           /\ \A i \in Installed(d) : i \in Copied(d) /\ i \in Copied(d)'
<1> DEFINE old == opage[d][at[d]]  new == saved[d][at[d]].frame
<1>0. phase[d] = "settle" /\ at[d] \in Unsettled(d) /\ at[d] \in Held(d) /\ Taken(d) = {}
      /\ at[d] \in 1 .. Len(req[d])
    BY InTransfer DEF Settle
<1>1. /\ old \in Frame /\ new \in Frame /\ place[old] = "isolated" /\ place[new] = "fresh" /\ old # new
      /\ pte[req[d][at[d]]].frame = new /\ req[d][at[d]] \in Page
      /\ \A v \in Page : pte[v].frame # old
    BY <1>0, InHand DEF Frames, Isolated, Transfer
<1>2. count[old] \in Nat \ {0} /\ count[new] \in Nat \ {0}
    BY <1>1, Counted DEF Frames
<1>3. opage[d][at[d]] = old /\ saved[d][at[d]].frame = new
    OBVIOUS
<1> HIDE DEF old, new
<1>4. /\ Typed' /\ OthersStill(d)
      /\ UNCHANGED <<program, req, opage, saved, history>>
      /\ locked' = locked \ {old, new} /\ anon' = anon \ {old}
      /\ \A f \in Frame \ {old, new} : place'[f] = place[f] /\ count'[f] = count[f]
      /\ ~hugePage => /\ place'[old] = "pagevec" /\ place'[new] = "pagevec"
                      /\ count'[old] = count[old] /\ count'[new] = count[new]
      /\ hugePage => /\ place'[old] = (IF count[old] = 1 THEN "free" ELSE "active")
                     /\ place'[new] = "active"
                     /\ count'[old] = count[old] - 1 /\ count'[new] = count[new] - 1
      /\ LookedUp(d)' = LookedUp(d) /\ Taken(d)' = Taken(d)
      /\ Unsettled(d)' = Unsettled(d) \ {at[d]}
      /\ Held(d)' = Held(d) \ {at[d]} /\ Installed(d)' = Installed(d) /\ phase'[d] # "save"
      /\ \A i \in Installed(d) : i \in Copied(d) /\ i \in Copied(d)'
    BY <1>1, <1>2, <1>3, SettleEffect
<1>5. /\ pte' = pte /\ req' = req /\ opage' = opage /\ saved' = saved /\ raced' = raced
    BY <1>4 DEF program, history
<1>6. \A e \in Device \ {d} : Steady(e) /\ Fixed(e)
    BY <1>4, StillIsSteady DEF OthersStill
<1>7. \A e \in Device : Held(e)' \subseteq Held(e) /\ Unsettled(e)' \subseteq Unsettled(e)
    BY <1>0, <1>4, <1>6 DEF Fixed
<1>8. /\ \A e \in Device : LookedUp(e)' = LookedUp(e) /\ Taken(e)' = Taken(e)
      /\ \A e \in Device : \A i \in LookedUp(e) \cup Taken(e) : i \in Unsettled(e) => i \in Unsettled(e)'
    <2>1. LookedUp(d) = {}
        BY <1>0, InTransfer
    <2> QED BY <1>0, <1>4, <1>6, <2>1 DEF Fixed, Steady
<1>9. \A e \in Device : \A i \in Held(e)' :
          /\ place[opage[e][i]] = "isolated" /\ opage[e][i] \in Frame /\ opage[e][i] # old /\ opage[e][i] # new
    <2> SUFFICES ASSUME NEW e \in Device, NEW i \in Held(e)'
                 PROVE  /\ place[opage[e][i]] = "isolated" /\ opage[e][i] \in Frame
                        /\ opage[e][i] # old /\ opage[e][i] # new
        OBVIOUS
    <2>1. i \in Held(e) /\ place[opage[e][i]] = "isolated" /\ opage[e][i] \in Frame
        BY <1>0, <1>7, InHand, HeldIsolated DEF Frames
    <2>2. ~(e = d /\ i = at[d])
        BY <1>0, <1>4
    <2>3. opage[e][i] # old
        BY <1>0, <1>4, <1>3, <2>1, <2>2 DEF Frames, HoldersApart
    <2> QED BY <1>1, <2>1, <2>3
<1>10. \A e \in Device : \A i \in Unsettled(e)' :
          /\ i \in Held(e)'
          /\ place[saved[e][i].frame] = "fresh" /\ saved[e][i].frame \in Frame
          /\ saved[e][i].frame # old /\ saved[e][i].frame # new
    <2> SUFFICES ASSUME NEW e \in Device, NEW i \in Unsettled(e)'
                 PROVE  /\ i \in Held(e)'
                        /\ place[saved[e][i].frame] = "fresh" /\ saved[e][i].frame \in Frame
                        /\ saved[e][i].frame # old /\ saved[e][i].frame # new
        OBVIOUS
    <2>1. i \in Unsettled(e) /\ place[saved[e][i].frame] = "fresh" /\ saved[e][i].frame \in Frame
        BY <1>7, InHand DEF Frames, Transfer
    <2>2. ~(e = d /\ i = at[d])
        BY <1>0, <1>4
    <2>3. saved[e][i].frame # new
        BY <1>0, <1>4, <1>3, <2>1, <2>2 DEF Frames, TargetsApart
    <2>4. i \in Held(e)'
        <3>1. CASE e = d
            BY <1>0, <1>4, <2>1, <2>2, <3>1, Nested
        <3>2. CASE e # d
            BY <1>6, <2>1, <3>2, Nested DEF Fixed
        <3> QED BY <3>1, <3>2
    <2> QED BY <1>1, <2>1, <2>3, <2>4
<1>11. PagesApart' /\ HoldersApart' /\ TargetsApart'
    BY <1>5, <1>7 DEF Frames, PagesApart, HoldersApart, TargetsApart
<1>12. RefsBalance'
    <2> SUFFICES ASSUME NEW f \in Frame
                 PROVE  /\ count'[f] = Cardinality(Mappings(f)') + Cardinality(Lookups(f)')
                              + (IF place'[f] \in {"fresh", "isolated", "pagevec"} THEN 1 ELSE 0)
                        /\ count'[f] = 0 <=> place'[f] = "free"
        BY DEF RefsBalance
    <2>1. Mappings(f)' = Mappings(f) /\ Lookups(f)' = Lookups(f)
        BY <1>5, <1>8 DEF Mappings, Lookups
    <2>2. Cardinality(Mappings(f)) \in Nat /\ Cardinality(Lookups(f)) \in Nat
        BY MappingsCount, LookupsCount DEF Frames
    <2>3. /\ count[f] = Cardinality(Mappings(f)) + Cardinality(Lookups(f))
                    + (IF place[f] \in {"fresh", "isolated", "pagevec"} THEN 1 ELSE 0)
          /\ count[f] = 0 <=> place[f] = "free"
        BY DEF Frames, RefsBalance
    <2>4. hugePage \in BOOLEAN
        BY DEF Typed, TypeOK
    <2>5. CASE f = old
        <3>1. count[old] = Cardinality(Lookups(f)) + 1 /\ Cardinality(Mappings(f)) = 0
            BY <1>1, <2>2, <2>3, <2>5, MappingsCount DEF Frames
        <3>2. CASE ~hugePage
            BY <1>2, <1>4, <2>1, <2>2, <2>5, <3>1, <3>2
        <3>3. CASE hugePage
            <4>1. count'[old] = count[old] - 1 /\ place'[old] = (IF count[old] = 1 THEN "free" ELSE "active")
                BY <1>4, <3>3
            <4>2. count'[old] = Cardinality(Lookups(f))
                BY <2>2, <3>1, <4>1
            <4> QED BY <2>1, <2>2, <2>5, <3>1, <4>1, <4>2
        <3> QED BY <3>2, <3>3
    <2>6. CASE f = new
        <3>1. Cardinality(Mappings(f)) = 1
            BY <1>1, <2>6, MappingsCount DEF Frames
        <3> QED BY <1>1, <1>2, <1>4, <2>1, <2>2, <2>3, <2>4, <2>6, <3>1
    <2>7. CASE f # old /\ f # new
        BY <1>4, <2>1, <2>2, <2>3, <2>7
    <2> QED BY <2>5, <2>6, <2>7
<1>13. ASSUME NEW e \in Device PROVE Transfer(e)' /\ Isolated(e)' /\ Found(e)' /\ Distinct(e)'
    <2>1. Transfer(e)'
        <3>1. ASSUME NEW i \in Unsettled(e)'
              PROVE  /\ pte'[req'[e][i]].frame = saved'[e][i].frame
                     /\ opage'[e][i] \in locked' /\ saved'[e][i].frame \in locked'
                     /\ place'[saved'[e][i].frame] = "fresh"
                     /\ \A u \in Page : pte'[u].frame # opage'[e][i]
            <4>1. i \in Unsettled(e)
                BY <1>7
            <4>2. /\ pte[req[e][i]].frame = saved[e][i].frame
                  /\ opage[e][i] \in locked /\ saved[e][i].frame \in locked
                  /\ \A u \in Page : pte[u].frame # opage[e][i]
                BY <4>1 DEF Frames, Transfer
            <4>3. /\ opage[e][i] \in locked' /\ saved[e][i].frame \in locked'
                  /\ place'[saved[e][i].frame] = "fresh"
                <5>1. i \in Held(e)' /\ saved[e][i].frame \in Frame \ {old, new}
                    BY <1>10
                <5>2. place[saved[e][i].frame] = "fresh" /\ opage[e][i] \notin {old, new}
                    BY <1>9, <1>10, <5>1
                <5> QED BY <1>0, <1>4, <4>2, <5>1, <5>2
            <4> QED BY <1>5, <4>2, <4>3
        <3> QED BY <3>1 DEF Transfer
    <2>2. Isolated(e)'
        BY <1>5, <1>4, <1>9 DEF Isolated
    <2>3. Found(e)'
        <3>1. ASSUME NEW i \in (LookedUp(e) \cup Taken(e))'
              PROVE  \/ pte'[req'[e][i]].frame = opage'[e][i]
                     \/ /\ Huge = {} \/ i \in Unsettled(e)'
                        /\ \A u \in Page : pte'[u].frame # opage'[e][i]
                        /\ opage'[e][i] \in locked' \/ opage'[e][i] \notin anon'
            <4>1. i \in LookedUp(e) \cup Taken(e)
                BY <1>8
            <4>2. CASE pte[req[e][i]].frame = opage[e][i]
                BY <1>5, <4>2
            <4>3. CASE /\ Huge = {} \/ i \in Unsettled(e)
                       /\ \A u \in Page : pte[u].frame # opage[e][i]
                       /\ opage[e][i] \in locked \/ opage[e][i] \notin anon
                <5>1. opage[e][i] # new
                    BY <1>1, <4>3
                <5>2. opage[e][i] \in locked' \/ opage[e][i] \notin anon'
                    BY <1>4, <4>3, <5>1
                <5>3. i \in Unsettled(e) => i \in Unsettled(e)'
                    BY <1>8, <4>1
                <5> QED BY <1>5, <4>3, <5>2, <5>3
            <4> QED BY <4>1, <4>2, <4>3 DEF Frames, Found
        <3> QED BY <3>1 DEF Found
    <2> QED BY <1>5, <2>1, <2>2, <2>3 DEF Frames, Distinct
<1>14. ASSUME Owned PROVE Owned'
    <2> SUFFICES ASSUME raced = {}, NEW f \in Frame, f \in locked' \/ place'[f] \in {"fresh", "isolated"}
                 PROVE  \E e \in Device : \/ phase'[e] = "bug_replace"
                                          \/ \E i \in Held(e)' : opage'[e][i] = f
                                          \/ \E i \in Unsettled(e)' : saved'[e][i].frame = f
        BY <1>5 DEF Owned
    <2>1. f # old /\ f # new /\ (f \in locked \/ place[f] \in {"fresh", "isolated"})
        BY <1>0, <1>4
    <2>2. PICK e \in Device : \/ phase[e] = "bug_replace"
                              \/ \E i \in Held(e) : opage[e][i] = f
                              \/ \E i \in Unsettled(e) : saved[e][i].frame = f
        BY <1>14, <2>1 DEF Owned
    <2>3. phase[e] = "bug_replace" => phase'[e] = "bug_replace"
        BY <1>0, <1>4, <1>6 DEF Fixed
    <2>4. \A i \in Held(e) : opage[e][i] = f => i \in Held(e)'
        BY <1>0, <1>4, <1>6, <1>3, <2>1 DEF Fixed
    <2>5. \A i \in Unsettled(e) : saved[e][i].frame = f => i \in Unsettled(e)'
        BY <1>0, <1>4, <1>6, <1>3, <2>1 DEF Fixed
    <2> QED BY <1>5, <2>2, <2>3, <2>4, <2>5
<1>15. Sorted'
    <2>1. \A v \in Page : pte[v].frame \in Frame /\ (pte[v].frame = new => v = req[d][at[d]])
        BY <1>1, EntryFields DEF Typed, TypeOK, Frames, PagesApart
    <2>2. \A v \in Page : pte[v].frame # new => place'[pte[v].frame] = place[pte[v].frame]
        BY <1>1, <1>4, <2>1
    <2>3. hugePage = (req[d][at[d]] \in Huge)
        BY <1>0, OneKind DEF Typed, KindKnown, Resting
    <2>4. place'[new] = IF req[d][at[d]] \in Huge THEN "active" ELSE "pagevec"
        BY <1>4, <2>3
    <2>5. RightList'
        BY <1>5, <2>1, <2>2, <2>4 DEF Frames, Sorted, RightList
    <2>6. \A v \in Page : place'[pte'[v].frame] = "fresh" => pte'[v].frame \in locked'
        BY <1>1, <1>4, <1>5, <2>1, <2>2, <2>4 DEF Frames, Sorted
    <2>7. ASSUME NEW v \in Page, place'[pte'[v].frame] = "isolated"
          PROVE  \E e \in Device : \E i \in Taken(e)' : opage'[e][i] = pte'[v].frame
        <3>1. place[pte[v].frame] = "isolated"
            BY <1>5, <2>2, <2>4, <2>7
        <3> QED BY <1>5, <1>8, <3>1 DEF Frames, Sorted
    <2> QED BY <2>5, <2>6, <2>7 DEF Sorted
<1> QED BY <1>4, <1>11, <1>12, <1>13, <1>14, <1>15 DEF Frames

-----------------------------------------------------------------------------
(***************************************************************************)
(* The contents.                                                           *)
(***************************************************************************)
\* A page that is in flight is mapped to a frame of its own.
LEMMA FlightFrames ==
    ASSUME Typed, Frames, NEW e \in Device, NEW i \in Installed(e)
    PROVE  /\ i \in Unsettled(e) /\ i \in Held(e) /\ req[e][i] \in Page
           /\ pte[req[e][i]].frame = saved[e][i].frame /\ place[saved[e][i].frame] = "fresh"
           /\ saved[e][i] \in Entry /\ saved[e][i].frame \in Frame /\ opage[e][i] \in Frame
           /\ place[opage[e][i]] = "isolated" /\ \A u \in Page : pte[u].frame # opage[e][i]
<1>1. i \in Unsettled(e) /\ i \in Held(e)
    BY Nested
<1>2. i \notin Taken(e)
    BY <1>1, UnsettledNotTaken
<1> QED BY <1>1, <1>2, InHand DEF Frames, Transfer, Isolated

LEMMA WriteContents ==
    ASSUME Typed, Frames, Contents, NEW v \in Page, Write(v)
    PROVE  Contents'
<1> DEFINE w == writes + 1
<1>1. /\ raced' = raced /\ hurried' = hurried
      /\ phase' = phase /\ req' = req /\ at' = at /\ opage' = opage /\ saved' = saved
    BY DEF Write, driver
<1>2. \A e \in Device : Installed(e)' = Installed(e) /\ Copied(e)' = Copied(e)
    BY <1>1, Bystander
<1>3. pte \in [Page -> Entry] /\ content \in [Frame -> (Page \X (0..MaxWrites)) \cup {None}]
      /\ written \in [Page -> 0..MaxWrites]
    BY DEF Typed, TypeOK
<1>4. pte[v].frame \in Frame
    BY <1>3, EntryFields
<1>5. /\ \A u \in Page \ {v} : pte'[u] = pte[u]
      /\ pte'[v].frame = pte[v].frame /\ (pte[v].young => pte'[v].young)
    <2>1. CASE tlb[v] # None /\ tlb[v].dirty
        BY <2>1 DEF Write
    <2>2. CASE ~(tlb[v] # None /\ tlb[v].dirty)
        <3> DEFINE new == [frame |-> pte[v].frame, young |-> TRUE, dirty |-> TRUE]
        <3>1. pte' = [pte EXCEPT ![v] = new]
            BY <2>2 DEF Write
        <3>2. new \in Entry /\ new.frame = pte[v].frame /\ new.young = TRUE
            BY <1>4, NewEntry
        <3> HIDE DEF new
        <3> QED BY <1>3, <3>1, <3>2
    <2> QED BY <2>1, <2>2
<1>6. \A e \in Device : \A i \in Installed(e) : req[e][i] \in Page /\ pte'[req[e][i]].young
    <2>1. \A u \in Page : pte[u].young => pte'[u].young
        BY <1>5
    <2>2. \A e \in Device : \A i \in Installed(e) : req[e][i] \in Page
        BY FlightFrames
    <2> QED BY <2>1, <2>2 DEF Contents, Entries
<1>7. CASE hurried
    <2>1. \A e \in Device : Entries(e)'
        BY <1>1, <1>2, <1>6, <1>7 DEF Contents, Entries
    <2> QED BY <1>1, <1>7, <2>1 DEF Contents, NothingLost, Data, Unread
<1>8. CASE ~hurried
    <2>1. /\ ~stale' => ~stale /\ pte'[v].dirty = TRUE
                       /\ content' = [content EXCEPT ![pte[v].frame] = <<v, w>>]
          /\ written' = [written EXCEPT ![v] = w]
          /\ gap' = IF \E d \in Device : Unsaved(d, v) THEN gap \cup {v} ELSE gap
          /\ pte' # pte => pte'[v].dirty = TRUE
        <3>1. CASE tlb[v] # None /\ tlb[v].dirty
            <4>1. /\ pte' = pte /\ Store(v, tlb[v].frame)
                  /\ stale' = (stale \/ pte[v].frame # tlb[v].frame \/ ~pte[v].dirty)
                BY <1>8, <3>1 DEF Write
            <4>2. /\ content' = [content EXCEPT ![tlb[v].frame] = <<v, w>>]
                  /\ written' = [written EXCEPT ![v] = w]
                  /\ gap' = IF \E d \in Device : Unsaved(d, v) THEN gap \cup {v} ELSE gap
                BY <1>8, <4>1 DEF Store
            <4>3. pte[v].dirty \in BOOLEAN
                BY <1>3, EntryFields
            <4> QED BY <4>1, <4>2, <4>3
        <3>2. CASE ~(tlb[v] # None /\ tlb[v].dirty)
            <4> DEFINE new == [frame |-> pte[v].frame, young |-> TRUE, dirty |-> TRUE]
            <4>1. pte' = [pte EXCEPT ![v] = new] /\ stale' = stale /\ Store(v, pte[v].frame)
                BY <3>2 DEF Write
            <4>2. /\ content' = [content EXCEPT ![pte[v].frame] = <<v, w>>]
                  /\ written' = [written EXCEPT ![v] = w]
                  /\ gap' = IF \E d \in Device : Unsaved(d, v) THEN gap \cup {v} ELSE gap
                BY <1>8, <4>1 DEF Store
            <4>3. new.dirty = TRUE
                BY <1>4, NewEntry
            <4> HIDE DEF new
            <4> QED BY <1>3, <4>1, <4>2, <4>3
        <3> QED BY <3>1, <3>2
    <2>2. written'[v] = w /\ \A u \in Page \ {v} : written'[u] = written[u]
        BY <1>3, <2>1
    <2>3. gap \subseteq gap' /\ \A u \in gap' : u \in gap \/ u = v
        BY <2>1
    <2> HIDE DEF w
    <2>4. \A e \in Device : Entries(e)'
        BY <1>1, <1>2, <1>6, <2>3 DEF Contents, Entries
    <2>5. ASSUME NEW e \in Device PROVE Unread(e)'
        <3> SUFFICES ASSUME phase[e] = "save", req[e][at[e]] \notin gap'
                     PROVE  pte'[req[e][at[e]]] = saved[e][at[e]]
            BY <1>1 DEF Unread
        <3>1. req[e][at[e]] # v /\ req[e][at[e]] \in Page
            BY <2>1, InSave DEF Unsaved
        <3>2. pte'[req[e][at[e]]] = pte[req[e][at[e]]]
            BY <1>5, <3>1
        <3>3. req[e][at[e]] \notin gap
            BY <2>3
        <3> QED BY <1>8, <3>2, <3>3 DEF Contents, Unread
    <2>6. ASSUME ~stale' PROVE \A u \in Page \ gap' : Kept(u)'
        <3> SUFFICES ASSUME NEW u \in Page, u \notin gap' PROVE Kept(u)'
            OBVIOUS
        <3>1. CASE u = v
            <4>1. content'[pte'[u].frame] = <<u, written'[u]>>
                BY <1>3, <1>4, <1>5, <2>1, <2>2, <2>6, <3>1
            <4> QED BY <4>1 DEF Kept
        <3>2. CASE u # v
            <4>1. Kept(u)
                BY <1>8, <2>1, <2>3, <2>6 DEF Contents, NothingLost
            <4>2. InFlight(u)' <=> InFlight(u)
                BY <1>1, <1>2 DEF InFlight
            <4>3. pte'[u].frame = pte[u].frame /\ pte[u].frame # pte[v].frame /\ pte[u].frame \in Frame
                BY <1>3, <1>5, <3>2, EntryFields DEF Frames, PagesApart
            <4>4. content'[pte'[u].frame] = content[pte[u].frame] /\ written'[u] = written[u]
                BY <1>3, <2>1, <2>2, <2>6, <3>2, <4>3
            <4> QED BY <1>1, <4>1, <4>2, <4>4 DEF Kept
        <3> QED BY <3>1, <3>2
    <2>7. ASSUME NEW e \in Device PROVE Data(e)'
        <3>1. ASSUME ~stale', NEW i \in Installed(e), pte'[req[e][i]] = saved[e][i],
                     req[e][i] \notin raced \cup gap'
              PROVE  content'[IF i \in Copied(e) THEN saved[e][i].frame ELSE opage[e][i]]
                        = <<req[e][i], written'[req[e][i]]>>
            <4>1. req[e][i] # v
                <5>1. ~saved[e][i].dirty
                    BY <1>8, <2>3, <3>1 DEF Contents, Entries
                <5> QED BY <2>1, <3>1, <5>1
            <4>2. /\ req[e][i] \in Page /\ pte[req[e][i]].frame = saved[e][i].frame
                  /\ saved[e][i].frame \in Frame /\ opage[e][i] \in Frame
                  /\ opage[e][i] # pte[v].frame
                BY FlightFrames
            <4>3. saved[e][i].frame # pte[v].frame
                BY <4>1, <4>2 DEF Frames, PagesApart
            <4>4. pte[req[e][i]] = saved[e][i] /\ ~stale /\ req[e][i] \notin raced \cup gap
                BY <1>5, <2>1, <2>3, <3>1, <4>1, <4>2
            <4>5. content[IF i \in Copied(e) THEN saved[e][i].frame ELSE opage[e][i]]
                     = <<req[e][i], written[req[e][i]]>>
                BY <1>8, <4>4 DEF Contents, Data
            <4>6. \A f \in Frame \ {pte[v].frame} : content'[f] = content[f]
                BY <1>3, <2>1, <3>1
            <4> QED BY <2>2, <4>1, <4>2, <4>3, <4>5, <4>6
        <3> QED BY <1>1, <1>2, <3>1 DEF Data
    <2> QED BY <2>4, <2>5, <2>6, <2>7 DEF Contents, NothingLost
<1> QED BY <1>7, <1>8

LEMMA ReadContents ==
    ASSUME Typed, Frames, Contents, NEW v \in Page, Read(v)
    PROVE  Contents'
<1>1. /\ content' = content /\ written' = written /\ stale' = stale /\ raced' = raced
      /\ gap' = gap /\ hurried' = hurried
      /\ phase' = phase /\ req' = req /\ at' = at /\ opage' = opage /\ saved' = saved
    BY DEF Read, driver, history
<1>2. \A e \in Device : Installed(e)' = Installed(e) /\ Copied(e)' = Copied(e)
    BY <1>1, Bystander
<1>3. pte \in [Page -> Entry]
    BY DEF Typed, TypeOK
<1>4. /\ \A u \in Page \ {v} : pte'[u] = pte[u]
      /\ pte'[v].frame = pte[v].frame /\ pte'[v].young /\ (pte[v].young => pte'[v] = pte[v])
    <2> DEFINE new == [pte[v] EXCEPT !.young = TRUE]
    <2>1. pte' = [pte EXCEPT ![v] = new]
        BY DEF Read
    <2>2. new \in Entry /\ new.frame = pte[v].frame /\ new.dirty = pte[v].dirty /\ new.young = TRUE
        BY <1>3, Aged
    <2>3. pte[v].young => new = pte[v]
        <3>1. pte[v] \in Entry /\ pte[v].young \in BOOLEAN
            BY <1>3, EntryFields
        <3> HIDE DEF new
        <3>2. ASSUME pte[v].young PROVE pte[v].young = new.young
            BY <2>2, <3>1, <3>2
        <3> QED BY <2>2, <3>1, <3>2, SameEntry
    <2> HIDE DEF new
    <2> QED BY <1>3, <2>1, <2>2, <2>3
<1>5. \A e \in Device : \A i \in Installed(e) : req[e][i] \in Page /\ pte[req[e][i]].young
    BY FlightFrames DEF Contents, Entries
<1>6. \A e \in Device : Entries(e)'
    BY <1>1, <1>2, <1>4, <1>5 DEF Contents, Entries
<1>7. NothingLost'
    <2>1. \A u \in Page : Kept(u) => Kept(u)'
        BY <1>1, <1>2, <1>4 DEF Kept, InFlight
    <2> QED BY <1>1, <2>1 DEF Contents, NothingLost
<1>8. \A e \in Device : \A i \in Installed(e) : pte'[req[e][i]] = pte[req[e][i]]
    BY <1>4, <1>5
<1>9. \A e \in Device : Data(e)'
    BY <1>1, <1>2, <1>8 DEF Contents, Data
<1>10. \A e \in Device : Unread(e)'
    <2>1. \A e \in Device : phase[e] = "save" => at[e] \in Installed(e)
        BY InSave
    <2> QED BY <1>1, <1>8, <2>1 DEF Contents, Unread
<1> QED BY <1>6, <1>7, <1>9, <1>10 DEF Contents

LEMMA CopyContents ==
    ASSUME Typed, Frames, Contents, NEW d \in Device, Copy(d)
    PROVE  Contents'
<1> DEFINE target == saved[d][at[d]].frame  source == opage[d][at[d]]
<1>1. /\ OthersStill(d) /\ phase'[d] # "save"
      /\ UNCHANGED <<pte, tlb, frames, hugePage, req, opage, saved, polled, history>>
      /\ content' = [content EXCEPT ![target] = content[source]]
      /\ Installed(d)' = Installed(d)
      /\ at[d] \in Installed(d) /\ at[d] \notin Copied(d)
      /\ \A i \in Installed(d) : i \in Copied(d)' <=> i \in Copied(d) \/ i = at[d]
    BY CopyEffect
<1>2. /\ pte' = pte /\ req' = req /\ opage' = opage /\ saved' = saved
      /\ written' = written /\ stale' = stale /\ raced' = raced
      /\ gap' = gap /\ hurried' = hurried
    BY <1>1 DEF history
<1>3. \A e \in Device \ {d} : Flying(e)
    BY <1>1, StillIsSteady DEF OthersStill
<1>4. \A e \in Device : Installed(e)' = Installed(e)
    BY <1>1, <1>3 DEF Flying
<1>5. opage[d][at[d]] = source /\ saved[d][at[d]].frame = target
    OBVIOUS
<1> HIDE DEF target, source
<1>6. /\ target \in Frame /\ req[d][at[d]] \in Page /\ pte[req[d][at[d]]].frame = target
      /\ place[target] = "fresh" /\ at[d] \in Unsettled(d)
    BY <1>1, <1>5, FlightFrames
<1>7. content'[target] = content[source] /\ \A f \in Frame \ {target} : content'[f] = content[f]
    BY <1>1, <1>6 DEF Typed, TypeOK
<1>8. \A e \in Device : Entries(e)'
    BY <1>2, <1>4 DEF Contents, Entries
<1>9. NothingLost'
    <2> SUFFICES ASSUME ~stale, ~hurried, NEW u \in Page \ gap PROVE Kept(u)'
        BY <1>2 DEF NothingLost
    <2>1. Kept(u)
        BY DEF Contents, NothingLost
    <2>2. InFlight(u)' <=> InFlight(u)
        BY <1>2, <1>4 DEF InFlight
    <2>3. CASE pte[u].frame = target
        <3>1. u = req[d][at[d]]
            BY <1>6, <2>3 DEF Frames, PagesApart
        <3>2. InFlight(u)
            BY <1>1, <3>1 DEF InFlight
        <3> QED BY <2>2, <3>2 DEF Kept
    <2>4. CASE pte[u].frame # target
        <3>1. pte[u].frame \in Frame
            BY EntryFields DEF Typed, TypeOK
        <3> QED BY <1>2, <1>7, <2>1, <2>2, <2>4, <3>1 DEF Kept
    <2> QED BY <2>3, <2>4
<1>10. ASSUME NEW e \in Device PROVE Data(e)'
    <2>1. ASSUME ~stale, ~hurried, NEW i \in Installed(e), pte[req[e][i]] = saved[e][i],
                 req[e][i] \notin raced \cup gap
          PROVE  content'[IF i \in Copied(e)' THEN saved[e][i].frame ELSE opage[e][i]]
                    = <<req[e][i], written[req[e][i]]>>
        <3>1. content[IF i \in Copied(e) THEN saved[e][i].frame ELSE opage[e][i]]
                 = <<req[e][i], written[req[e][i]]>>
            BY <2>1 DEF Contents, Data
        <3>2. CASE e = d /\ i = at[d]
            BY <1>1, <1>5, <1>7, <3>1, <3>2
        <3>3. CASE ~(e = d /\ i = at[d])
            <4>1. i \in Copied(e)' <=> i \in Copied(e)
                BY <1>1, <1>3, <3>3 DEF Flying
            <4>2. /\ i \in Unsettled(e) /\ saved[e][i].frame \in Frame /\ opage[e][i] \in Frame
                  /\ place[opage[e][i]] = "isolated"
                BY FlightFrames
            <4>3. saved[e][i].frame # target
                BY <1>5, <1>6, <3>3, <4>2 DEF Frames, TargetsApart
            <4>4. opage[e][i] # target
                BY <1>6, <4>2
            <4> QED BY <1>7, <3>1, <4>1, <4>2, <4>3, <4>4
        <3> QED BY <3>2, <3>3
    <2> QED BY <1>2, <1>4, <2>1 DEF Data
<1>11. ASSUME NEW e \in Device PROVE Unread(e)'
    <2>1. CASE e = d
        BY <1>1, <2>1 DEF Unread
    <2>2. CASE e # d
        BY <1>2, <1>3, <2>2, UnreadKept DEF Contents
    <2> QED BY <2>1, <2>2
<1> QED BY <1>8, <1>9, <1>10, <1>11 DEF Contents

LEMMA SwapContents ==
    ASSUME Typed, Frames, Contents, NEW d \in Device, CompareAndSwap(d)
    PROVE  Contents'
<1> DEFINE v == req[d][at[d]]
<1>1. /\ OthersStill(d) /\ phase'[d] # "save"
      /\ UNCHANGED <<tlb, content, frames, req, opage, saved, writes, written, stale, gap, hurried>>
      /\ \A u \in Page : pte'[u].frame = pte[u].frame
      /\ Installed(d)' = Installed(d) \ {at[d]} /\ at[d] \in Installed(d)
      /\ \A i \in Installed(d) : i \in Copied(d)
      /\ \A i \in Installed(d)' : i \in Copied(d)'
      /\ \/ /\ pte[v] = saved[d][at[d]] /\ raced' = raced
            /\ \A u \in Page \ {v} : pte'[u] = pte[u]
         \/ /\ pte' = pte /\ raced' = raced \cup {v}
    BY SwapEffect
<1>2. /\ content' = content /\ req' = req /\ opage' = opage /\ saved' = saved
      /\ written' = written /\ stale' = stale /\ raced \subseteq raced'
      /\ gap' = gap /\ hurried' = hurried
    BY <1>1
<1>3. \A e \in Device \ {d} : Flying(e)
    BY <1>1, StillIsSteady DEF OthersStill
<1>4. req[d][at[d]] = v
    OBVIOUS
<1> HIDE DEF v
<1>5. v \in Page /\ at[d] \in Unsettled(d) /\ pte[v].frame = saved[d][at[d]].frame
    BY <1>1, <1>4, FlightFrames
<1>6. \A e \in Device : \A i \in Installed(e)' :
          /\ i \in Installed(e) /\ req[e][i] \in Page /\ (i \in Copied(e)' <=> i \in Copied(e))
    <2> SUFFICES ASSUME NEW e \in Device, NEW i \in Installed(e)'
                 PROVE  i \in Installed(e) /\ req[e][i] \in Page /\ (i \in Copied(e)' <=> i \in Copied(e))
        OBVIOUS
    <2>1. i \in Installed(e) /\ (i \in Copied(e)' <=> i \in Copied(e))
        BY <1>1, <1>3 DEF Flying
    <2> QED BY <2>1, FlightFrames
\* No other transfer is about the same page.
<1>7. \A e \in Device : \A i \in Installed(e)' : req[e][i] # v
    <2> SUFFICES ASSUME NEW e \in Device, NEW i \in Installed(e)', req[e][i] = v PROVE FALSE
        OBVIOUS
    <2>1. i \in Unsettled(e) /\ pte[v].frame = saved[e][i].frame
        BY <1>6, FlightFrames
    <2>2. e = d /\ i = at[d]
        <3>1. saved[e][i].frame = saved[d][at[d]].frame
            BY <1>5, <2>1
        <3>2. \A j \in Unsettled(d), k \in Unsettled(e) :
                  saved[d][j].frame = saved[e][k].frame => d = e /\ j = k
            BY DEF Frames, TargetsApart
        <3> QED BY <1>5, <2>1, <3>1, <3>2
    <2> QED BY <1>1, <2>2
<1>8. \A u \in Page \ {v} : pte'[u] = pte[u]
    BY <1>1
<1>9. \A e \in Device : Entries(e)'
    <2> SUFFICES ASSUME NEW e \in Device, NEW i \in Installed(e)' PROVE pte'[req[e][i]].young
        BY <1>2, <1>6 DEF Contents, Entries
    <2>1. i \in Installed(e) /\ pte'[req[e][i]] = pte[req[e][i]]
        BY <1>6, <1>7, <1>8
    <2> QED BY <2>1 DEF Contents, Entries
<1>10. \A e \in Device : Data(e)'
    <2> SUFFICES ASSUME NEW e \in Device, ~stale, ~hurried, NEW i \in Installed(e)',
                        pte'[req[e][i]] = saved[e][i], req[e][i] \notin raced' \cup gap
                 PROVE  content[IF i \in Copied(e)' THEN saved[e][i].frame ELSE opage[e][i]]
                           = <<req[e][i], written[req[e][i]]>>
        BY <1>2 DEF Data
    <2>1. /\ i \in Installed(e) /\ pte[req[e][i]] = saved[e][i] /\ req[e][i] \notin raced \cup gap
          /\ i \in Copied(e)' <=> i \in Copied(e)
        BY <1>2, <1>6, <1>7, <1>8
    <2> QED BY <2>1 DEF Contents, Data
<1>11. NothingLost'
    <2> SUFFICES ASSUME ~stale, ~hurried, NEW u \in Page \ gap PROVE Kept(u)'
        BY <1>2 DEF NothingLost
    <2>1. Kept(u)
        BY DEF Contents, NothingLost
    <2>2. CASE u # v
        <3>1. InFlight(u) => InFlight(u)'
            <4> SUFFICES ASSUME NEW e \in Device, NEW i \in Installed(e), req[e][i] = u PROVE InFlight(u)'
                BY DEF InFlight
            <4>1. i \in Installed(e)'
                BY <1>1, <1>3, <1>4, <2>2 DEF Flying
            <4> QED BY <1>2, <4>1 DEF InFlight
        <3> QED BY <1>1, <1>2, <2>1, <3>1 DEF Kept
    <2>3. CASE u = v
        <3>1. CASE pte[v] = saved[d][at[d]] /\ v \notin raced
            <4>1. content[saved[d][at[d]].frame] = <<v, written[v]>>
                BY <1>1, <1>4, <2>3, <3>1 DEF Contents, Data
            <4> QED BY <1>1, <1>2, <1>5, <2>3, <4>1 DEF Kept
        <3>2. CASE v \in raced'
            BY <2>3, <3>2 DEF Kept
        <3> QED BY <1>1, <1>2, <3>1, <3>2
    <2> QED BY <2>2, <2>3
<1>12. ASSUME NEW e \in Device PROVE Unread(e)'
    <2>1. CASE e = d
        BY <1>1, <2>1 DEF Unread
    <2>2. CASE e # d
        <3>1. Flying(e) /\ Unread(e)
            BY <1>3, <2>2 DEF Contents
        <3>2. ASSUME phase[e] = "save" PROVE pte'[req[e][at[e]]] = pte[req[e][at[e]]]
            <4>1. at[e] \in Installed(e)' /\ req[e][at[e]] \in Page
                BY <3>1, <3>2, InSave DEF Flying
            <4> QED BY <1>7, <1>8, <4>1
        <3> QED BY <1>2, <3>1, <3>2, UnreadKept
    <2> QED BY <2>1, <2>2
<1> QED BY <1>9, <1>10, <1>11, <1>12 DEF Contents

\* Steps of a device that concern only what it has in hand.
LEMMA ContentsKept ==
    ASSUME Typed, Contents, UNCHANGED <<pte, content, written, stale, raced, gap, hurried>>,
           \A d \in Device : Flying(d)
    PROVE  Contents'
<1>1. NothingLost' /\ \A d \in Device : Data(d)'
    BY DataKept DEF Contents
<1>2. \A d \in Device : Entries(d)'
    BY DEF Contents, Entries, Flying
<1>3. \A d \in Device : Unread(d)'
    BY UnreadKept DEF Contents
<1> QED BY <1>1, <1>2, <1>3 DEF Contents

\* The entry that is read back is what was installed, unless its page was written.
LEMMA SaveContents ==
    ASSUME SmallOrAlone, Typed, Frames, Contents, NEW d \in Device, SaveNewPte(d)
    PROVE  Contents'
<1>1. /\ OthersStill(d) /\ UNCHANGED <<program, place, locked, anon, req, opage, history>>
      /\ phase[d] = "save" /\ phase'[d] # "save"
      /\ saved'[d][at[d]] = pte[req[d][at[d]]]
      /\ \A i \in Unsettled(d) \ {at[d]} : saved'[d][i] = saved[d][i]
      /\ Installed(d)' = Installed(d) /\ Copied(d)' = Copied(d)
    BY SaveFrames
<1>2. /\ pte' = pte /\ content' = content /\ req' = req /\ opage' = opage
      /\ written' = written /\ stale' = stale /\ raced' = raced
      /\ gap' = gap /\ hurried' = hurried
    BY <1>1 DEF program, history
<1>3. \A e \in Device \ {d} : Flying(e)
    BY <1>1, StillIsSteady DEF OthersStill
<1>4. \A i \in Installed(d) : saved'[d][i].young /\ pte[req[d][i]].young
    BY <1>1, Nested DEF Contents, Entries
<1>5. \A i \in Installed(d) : (~hurried /\ req[d][i] \notin gap) => saved'[d][i] = saved[d][i]
    BY <1>1, Nested DEF Contents, Unread
<1>6. Entries(d)' /\ Unread(d)' /\ Data(d)'
    <2>1. Entries(d)'
        BY <1>1, <1>2, <1>4, <1>5 DEF Contents, Entries
    <2>2. Unread(d)'
        BY <1>1 DEF Unread
    <2>3. Data(d)'
        BY <1>1, <1>2, <1>5 DEF Contents, Data
    <2> QED BY <2>1, <2>2, <2>3
<1>7. ASSUME NEW e \in Device \ {d} PROVE Entries(e)' /\ Unread(e)' /\ Data(e)'
    <2>1. Flying(e) /\ Entries(e) /\ Unread(e) /\ Data(e)
        BY <1>3 DEF Contents
    <2>2. Entries(e)'
        BY <1>2, <2>1 DEF Entries, Flying
    <2>3. Unread(e)'
        BY <1>2, <2>1, UnreadKept
    <2>4. Data(e)'
        BY <1>2, <2>1 DEF Data, Flying
    <2> QED BY <2>2, <2>3, <2>4
<1>8. NothingLost'
    <2>1. \A e \in Device : Installed(e)' = Installed(e)
        BY <1>1, <1>3 DEF Flying
    <2>2. \A u \in Page : Kept(u) => Kept(u)'
        BY <1>2, <2>1 DEF Kept, InFlight
    <2> QED BY <1>2, <2>2 DEF Contents, NothingLost
<1> QED BY <1>6, <1>7, <1>8 DEF Contents

-----------------------------------------------------------------------------
(***************************************************************************)
(* Every step keeps the invariant.                                         *)
(***************************************************************************)
\* Steps after which frames, contents and what the devices have in hand are the same.
LEMMA NothingMoves ==
    ASSUME Typed, Frames, Contents, Owned,
           UNCHANGED <<pte, content, frames, written, stale, raced, gap, hurried>>,
           \A d \in Device : Fixed(d) /\ Flying(d) /\ Distinct(d)'
    PROVE  Frames' /\ Contents' /\ Owned'
<1>1. UNCHANGED <<place, count, locked, anon>> /\ SameMapping /\ raced' = raced
    BY DEF frames, SameMapping
<1>2. \A d \in Device : Steady(d) /\ LookedUp(d)' = LookedUp(d)
    BY DEF Fixed
<1>3. Frames'
    BY <1>1, <1>2, FramesKept DEF Frames
<1>4. Contents'
    BY ContentsKept
<1>5. Owned'
    BY <1>1, OwnedKept
<1> QED BY <1>3, <1>4, <1>5

LEMMA ProgramStep ==
    ASSUME IInv, NEW v \in Page, Program(v)
    PROVE  IInv'
<1>1. Typed' /\ UNCHANGED <<frames, driver>> /\ SameMapping
    BY ProgramTypes DEF IInv, SameMapping
<1>2. \A d \in Device : Still(d) /\ SamePositions(d) /\ opage'[d] = opage[d] /\ saved'[d] = saved[d]
    BY <1>1, DriverRests DEF driver, Still, SamePositions
<1>3. \A d \in Device : Fixed(d) /\ Steady(d) /\ Flying(d)
    BY <1>2, StillIsSteady
<1>4. UNCHANGED <<place, count, locked, anon>> /\ raced' = raced
    BY <1>1 DEF frames, Program, Write, Read, Evict, history
<1>5. Frames'
    <2>1. \A d \in Device : LookedUp(d)' = LookedUp(d)
        BY <1>3 DEF Fixed
    <2> QED BY <1>1, <1>2, <1>3, <1>4, <2>1, FramesKept DEF IInv, Frames, Distinct
<1>6. Owned'
    BY <1>3, <1>4, OwnedKept DEF IInv
<1>7. Contents'
    <2>1. CASE Write(v)
        BY <2>1, WriteContents DEF IInv
    <2>2. CASE Read(v)
        BY <2>2, ReadContents DEF IInv
    <2>3. CASE Evict(v)
        <3>1. UNCHANGED <<pte, content, written, stale, raced, gap, hurried>>
            BY <2>3 DEF Evict, history
        <3> QED BY <1>2, <1>3, <3>1, ContentsKept DEF IInv
    <2> QED BY <2>1, <2>2, <2>3 DEF Program
<1> QED BY <1>1, <1>5, <1>6, <1>7 DEF IInv

LEMMA DrainStep ==
    ASSUME SmallOrAlone, IInv, Drain
    PROVE  IInv'
<1>1. UNCHANGED <<program, locked, anon, driver, history>> /\ DrainPagevecs
    BY DEF Drain
<1>2. \A d \in Device : Still(d) /\ SamePositions(d) /\ opage'[d] = opage[d] /\ saved'[d] = saved[d]
    BY <1>1, DriverRests DEF driver, Still, SamePositions
<1>3. \A d \in Device : Fixed(d) /\ Steady(d) /\ Flying(d)
    BY <1>2, StillIsSteady
<1>4. UNCHANGED <<pte, content, written, stale, raced, gap, hurried, locked, anon>>
    BY <1>1 DEF program, history
<1>5. /\ count' \in [Frame -> Nat] /\ place' \in [Frame -> Places]
      /\ \A f \in Frame : place'[f] \in {"fresh", "isolated"} => place[f] \in {"fresh", "isolated"}
    BY <1>1, DrainTypes DEF IInv, Frames
<1>6. Typed'
    <2>1. TypeOK'
        BY <1>1, <1>5 DEF IInv, Typed, TypeOK, program, driver, history
    <2> QED BY <1>1, <2>1, DriverRests DEF IInv, Typed, driver
<1>7. Frames'
    BY <1>1, <1>2, <1>3, <1>4, DrainFrames DEF IInv
<1>8. Contents'
    BY <1>2, <1>3, <1>4, ContentsKept DEF IInv
<1>9. Owned'
    BY <1>3, <1>4, <1>5, OwnedKept DEF IInv
<1> QED BY <1>6, <1>7, <1>8, <1>9 DEF IInv

\* A device that begins a request has nothing in hand yet.
LEMMA BeginKeeps ==
    ASSUME SmallOrAlone, Typed, NEW d \in Device, NEW r \in Requests,
           phase[d] \in {"idle", "worker"}, Begin(d, r)
    PROVE  \A e \in Device : /\ Fixed(e) /\ Flying(e)
                             /\ opage'[e] = opage[e] /\ saved'[e] = saved[e]
<1>1. \A e \in Device : /\ Unsettled(e)' = Unsettled(e) /\ Installed(e)' = Installed(e)
                        /\ LookedUp(e)' = LookedUp(e) /\ Taken(e)' = Taken(e)
                        /\ Held(e)' = Held(e) /\ saved'[e] = saved[e] /\ opage'[e] = opage[e]
                        /\ \A i \in Held(e) \cup LookedUp(e) : req'[e][i] = req[e][i]
                        /\ \A i \in Installed(e) : i \in Copied(e)' <=> i \in Copied(e)
    BY BeginTypes
<1>2. \A e \in Device : /\ phase[e] = "bug_replace" => phase'[e] = "bug_replace"
                        /\ phase'[e] = "save" => phase[e] = "save" /\ at'[e] = at[e]
    BY DEF Begin, Goto, Typed, TypeOK
<1> QED BY <1>1, <1>2, Nested DEF Fixed, Steady, Flying

LEMMA StartTypes ==
    ASSUME SmallOrAlone, Typed, NEW d \in Device, NEW r \in Requests,
           phase[d] \in {"idle", "worker"}, Begin(d, r), UNCHANGED <<program, locked, anon, history>>,
           polled' \subseteq Device, count' \in [Frame -> Nat], place' \in [Frame -> Places]
    PROVE  Typed'
<1>1. /\ KindKnown' /\ phase' \in [Device -> Phases]
      /\ req' \in [Device -> Requests \cup {<<>>}] /\ at' \in [Device -> Nat \ {0}]
      /\ \A e \in Device : at'[e] \in 1..Len(req'[e]) \/ phase'[e] \in {"idle", "report", "worker"}
      /\ \A e \in Device : Shape(e)'
    BY BeginTypes
<1>2. hugePage' \in BOOLEAN /\ opage' = opage /\ saved' = saved
    BY DEF Begin
<1>3. TypeOK'
    BY <1>1, <1>2 DEF Typed, TypeOK, program, history
<1> QED BY <1>1, <1>3 DEF Typed

LEMMA KickStep ==
    ASSUME SmallOrAlone, IInv, NEW d \in Device, NEW r \in Requests, KickStart(d, r)
    PROVE  IInv'
<1>1. /\ phase[d] = "idle" /\ DrainPagevecs /\ Begin(d, r)
      /\ UNCHANGED <<program, locked, anon, history>> /\ polled' \subseteq Device
    BY DEF KickStart, IInv, Typed, TypeOK
<1>2. \A e \in Device : Fixed(e) /\ Flying(e) /\ opage'[e] = opage[e] /\ saved'[e] = saved[e]
    BY <1>1, BeginKeeps DEF IInv
<1>3. UNCHANGED <<pte, content, written, stale, raced, gap, hurried, locked, anon>>
    BY <1>1 DEF program, history
<1>4. /\ count' \in [Frame -> Nat] /\ place' \in [Frame -> Places]
      /\ \A f \in Frame : place'[f] \in {"fresh", "isolated"} => place[f] \in {"fresh", "isolated"}
    BY <1>1, DrainTypes DEF IInv, Frames
<1>5. Typed'
    BY <1>1, <1>4, StartTypes DEF IInv
<1>6. Frames'
    BY <1>1, <1>2, <1>3, DrainFrames DEF IInv
<1>7. Contents'
    BY <1>2, <1>3, ContentsKept DEF IInv
<1>8. Owned'
    BY <1>2, <1>3, <1>4, OwnedKept DEF IInv
<1> QED BY <1>5, <1>6, <1>7, <1>8 DEF IInv

LEMMA WorkStartStep ==
    ASSUME SmallOrAlone, IInv, NEW d \in Device, NEW r \in Requests, WorkStart(d, r)
    PROVE  IInv'
<1>1. /\ phase[d] = "worker" /\ Begin(d, r)
      /\ UNCHANGED <<program, frames, history>> /\ polled' \subseteq Device
    BY DEF WorkStart, IInv, Typed, TypeOK
<1>2. \A e \in Device : /\ Fixed(e) /\ Flying(e)
                        /\ opage'[e] = opage[e] /\ saved'[e] = saved[e]
    BY <1>1, BeginKeeps DEF IInv
<1>3. \A e \in Device : Distinct(e)'
    BY <1>2 DEF IInv, Frames, Distinct
<1>4. UNCHANGED <<pte, content, frames, written, stale, raced, gap, hurried>>
    BY <1>1 DEF program, history
<1>5. UNCHANGED <<locked, anon>> /\ count' \in [Frame -> Nat] /\ place' \in [Frame -> Places]
    BY <1>1 DEF frames, IInv, Typed, TypeOK
<1>6. Typed'
    BY <1>1, <1>5, StartTypes DEF IInv
<1> QED BY <1>2, <1>3, <1>4, <1>6, NothingMoves DEF IInv

\* The empty positions of a device that ends a phase.
LEMMA EmptyIsFixed ==
    ASSUME NEW d \in Device, phase[d] # "bug_replace", phase'[d] # "save",
           Unsettled(d) = {}, Held(d) = {}, Installed(d) = {}, LookedUp(d) = {}, Taken(d) = {},
           Unsettled(d)' = {}, Held(d)' = {}, Installed(d)' = {}, LookedUp(d)' = {}, Taken(d)' = {}
    PROVE  Fixed(d) /\ Flying(d)
BY DEF Fixed, Steady, Flying

LEMMA WorkEndStep ==
    ASSUME IInv, NEW d \in Device, WorkEnd(d)
    PROVE  IInv'
<1>1. /\ Typed' /\ OthersStill(d) /\ UNCHANGED <<program, frames, history, saved, opage, req>>
      /\ phase[d] = "worker" /\ Fixed(d) /\ Flying(d)
    BY WorkEndEffect, EmptyIsFixed DEF IInv
<1>2. \A e \in Device : Fixed(e) /\ Flying(e)
    BY <1>1, StillIsSteady DEF OthersStill
<1>3. \A e \in Device : saved'[e] = saved[e] /\ Distinct(e)'
    BY <1>1 DEF IInv, Frames, Distinct
<1>4. UNCHANGED <<pte, content, frames, written, stale, raced, gap, hurried>>
    BY <1>1 DEF program, history
<1> QED BY <1>1, <1>2, <1>3, <1>4, NothingMoves DEF IInv

LEMMA ReportStep ==
    ASSUME IInv, NEW d \in Device, Report(d)
    PROVE  IInv'
<1>1. /\ Typed' /\ OthersStill(d) /\ UNCHANGED <<program, frames, history>>
      /\ saved'[d] = <<>> /\ Fixed(d) /\ Flying(d)
    BY ReportEffect, EmptyIsFixed DEF IInv
<1>2. \A e \in Device : Fixed(e) /\ Flying(e)
    BY <1>1, StillIsSteady DEF OthersStill
<1>3. opage'[d] = <<>> /\ IsInjective(<<>>)
    BY DEF Report, IInv, Typed, TypeOK, IsInjective
<1>4. \A e \in Device : (saved'[e] = saved[e] \/ saved'[e] = <<>>) /\ Distinct(e)'
    BY <1>1, <1>3 DEF IInv, Frames, Distinct, OthersStill, Still
<1>5. UNCHANGED <<pte, content, frames, written, stale, raced, gap, hurried>>
    BY <1>1 DEF program, history
<1> QED BY <1>1, <1>2, <1>4, <1>5, NothingMoves DEF IInv

LEMMA FollowStep ==
    ASSUME SmallOrAlone, IInv, NEW d \in Device, Follow(d)
    PROVE  IInv'
<1>1. /\ Typed' /\ OthersStill(d) /\ UNCHANGED <<program, place, locked, anon, history, saved, req>>
      /\ Unsettled(d) = {} /\ Held(d) = {} /\ Installed(d) = {}
      /\ Unsettled(d)' = {} /\ Held(d)' = {} /\ Installed(d)' = {}
      /\ phase[d] = "follow" /\ phase'[d] = "isolate"
    BY FollowEffect DEF IInv
<1>2. \A e \in Device \ {d} : Fixed(e) /\ Flying(e)
    BY <1>1, StillIsSteady DEF OthersStill
<1>3. Flying(d)
    BY <1>1 DEF Flying
<1>4. UNCHANGED <<pte, content, written, stale, raced, gap, hurried, place, locked, saved>>
    BY <1>1 DEF program, history
<1>5. Frames'
    BY FollowFrames DEF IInv
<1>6. Contents'
    BY <1>2, <1>3, <1>4, ContentsKept DEF IInv
<1>7. Owned'
    <2> SUFFICES ASSUME raced = {}, NEW f \in Frame, f \in locked \/ place[f] \in {"fresh", "isolated"}
                 PROVE  \E e \in Device : \/ phase'[e] = "bug_replace"
                                          \/ \E i \in Held(e)' : opage'[e][i] = f
                                          \/ \E i \in Unsettled(e)' : saved'[e][i].frame = f
        BY <1>4 DEF Owned
    <2>1. PICK e \in Device : \/ phase[e] = "bug_replace"
                              \/ \E i \in Held(e) : opage[e][i] = f
                              \/ \E i \in Unsettled(e) : saved[e][i].frame = f
        BY DEF IInv, Owned
    <2>2. e # d
        BY <1>1, <2>1
    <2> QED BY <1>2, <2>1, <2>2, Nested DEF Fixed, Steady
<1> QED BY <1>1, <1>5, <1>6, <1>7 DEF IInv

LEMMA IsolateStep ==
    ASSUME SmallOrAlone, IInv, NEW d \in Device, Isolate(d)
    PROVE  IInv'
<1>1. /\ Typed' /\ OthersStill(d) /\ UNCHANGED <<program, history, saved, opage, req>>
      /\ Installed(d)' = Installed(d) /\ Copied(d)' = Copied(d) /\ phase'[d] # "save"
    BY IsolateFrames DEF IInv
<1>2. Flying(d)
    BY <1>1 DEF Flying
<1>3. \A e \in Device : Flying(e) /\ saved'[e] = saved[e]
    BY <1>1, <1>2, StillIsSteady DEF OthersStill
<1>4. UNCHANGED <<pte, content, written, stale, raced, gap, hurried>>
    BY <1>1 DEF program, history
<1>5. Contents'
    BY <1>3, <1>4, ContentsKept DEF IInv
<1> QED BY <1>1, <1>5, IsolateFrames DEF IInv

LEMMA OutOfFramesStep ==
    ASSUME IInv, NEW d \in Device, OutOfFrames(d)
    PROVE  IInv'
<1>1. /\ phase[d] = "replace" /\ phase' = [phase EXCEPT ![d] = "bug_replace"]
      /\ UNCHANGED <<program, frames, hugePage, req, at, opage, saved, polled, history>>
    BY DEF OutOfFrames, Goto
<1>2. /\ UNCHANGED <<program, anon, hugePage, req, at, opage, saved, polled, history>>
      /\ place' \in [Frame -> Places] /\ count' \in [Frame -> Nat] /\ locked' \subseteq Frame
    BY <1>1 DEF frames, IInv, Typed, TypeOK
<1>3. /\ Typed' /\ OthersStill(d) /\ SamePositions(d) /\ phase'[d] = "bug_replace"
    BY <1>1, <1>2, StopEffect DEF IInv
<1>4. Fixed(d) /\ Flying(d)
    BY <1>1, <1>3 DEF Fixed, Steady, Flying, SamePositions
<1>5. \A e \in Device : Fixed(e) /\ Flying(e)
    BY <1>3, <1>4, StillIsSteady DEF OthersStill
<1>6. \A e \in Device : saved'[e] = saved[e] /\ Distinct(e)'
    BY <1>1 DEF IInv, Frames, Distinct
<1>7. UNCHANGED <<pte, content, frames, written, stale, raced, gap, hurried>>
    BY <1>1 DEF program, history
<1> QED BY <1>3, <1>5, <1>6, <1>7, NothingMoves DEF IInv

LEMMA ReplaceStep ==
    ASSUME SmallOrAlone, IInv, NEW d \in Device, NEW new \in Frame, Replace(d, new)
    PROVE  IInv'
<1>1. /\ phase[d] = "replace" /\ place[new] = "free"
      /\ UNCHANGED <<tlb, content, hugePage, req, at, opage, polled, history>>
    BY DEF Replace
<1>2. CASE opage[d][at[d]] \notin locked /\ opage[d][at[d]] \in anon
    <2>1. /\ InstallNewPte(req[d][at[d]], new)
          /\ locked' = locked \cup {opage[d][at[d]], new} /\ anon' = anon \cup {new}
          /\ saved' = [saved EXCEPT ![d] = Append(@, pte'[req[d][at[d]]])]
          /\ Goto(d, "save")
        BY <1>2 DEF Replace
    <2> QED BY <1>1, <1>2, <2>1, InstallFrames DEF IInv
<1>3. CASE opage[d][at[d]] \in locked \/ opage[d][at[d]] \notin anon
    <2>1. /\ count' = [count EXCEPT ![new] = 1] /\ place' = [place EXCEPT ![new] = "fresh"]
          /\ locked' = locked \cup {opage[d][at[d]]} /\ Goto(d, "bug_replace")
          /\ UNCHANGED <<pte, anon, saved>>
        BY <1>3 DEF Replace
    <2>2. UNCHANGED <<program, anon, hugePage, req, at, opage, saved, polled, history>>
        BY <1>1, <2>1 DEF program
    <2>3. Typed' /\ Frames' /\ Owned' /\ \A e \in Device : Fixed(e) /\ Flying(e)
        BY <1>1, <2>1, <2>2, StopFrames DEF IInv
    <2>4. UNCHANGED <<pte, content, written, stale, raced, gap, hurried>> /\ saved' = saved
        BY <2>2 DEF program, history
    <2>5. Contents'
        BY <2>3, <2>4, ContentsKept DEF IInv
    <2> QED BY <2>3, <2>5 DEF IInv
<1> QED BY <1>2, <1>3

LEMMA SaveStep ==
    ASSUME SmallOrAlone, IInv, NEW d \in Device, SaveNewPte(d)
    PROVE  IInv'
BY SaveFrames, SaveContents DEF IInv

LEMMA HurryStep ==
    ASSUME IInv, NEW d \in Device, Hurry(d)
    PROVE  IInv'
<1>1. /\ Typed' /\ OthersStill(d) /\ phase[d] = "dma" /\ phase'[d] = "cas" /\ hurried' = TRUE
      /\ UNCHANGED <<pte, tlb, frames, req, opage, saved, raced>>
      /\ Unsettled(d)' = Unsettled(d) /\ Installed(d)' = Installed(d)
      /\ LookedUp(d)' = LookedUp(d) /\ Taken(d)' = Taken(d) /\ Held(d)' = Held(d)
    BY HurryEffect DEF IInv
<1>2. Fixed(d)
    BY <1>1 DEF Fixed, Steady
<1>3. \A e \in Device : Fixed(e) /\ Steady(e) /\ LookedUp(e)' = LookedUp(e) /\ Installed(e)' = Installed(e)
    BY <1>1, <1>2, StillIsSteady DEF OthersStill, Fixed, Flying
<1>4. UNCHANGED <<place, count, locked, anon>> /\ SameMapping
    BY <1>1 DEF frames, SameMapping
<1>5. Frames'
    BY <1>1, <1>3, <1>4, FramesKept DEF IInv, Frames, Distinct
<1>6. Owned'
    BY <1>1, <1>3, <1>4, OwnedKept DEF IInv
<1>7. Contents'
    <2>1. \A e \in Device : Entries(e)'
        BY <1>1, <1>3 DEF IInv, Contents, Entries
    <2> QED BY <1>1, <2>1 DEF Contents, NothingLost, Unread, Data
<1> QED BY <1>1, <1>5, <1>6, <1>7 DEF IInv

LEMMA CopyStep ==
    ASSUME IInv, NEW d \in Device, Copy(d)
    PROVE  IInv'
<1>1. /\ Typed' /\ OthersStill(d) /\ phase[d] = "dma"
      /\ UNCHANGED <<pte, tlb, frames, hugePage, req, opage, saved, polled, history>>
      /\ Unsettled(d)' = Unsettled(d) /\ LookedUp(d)' = LookedUp(d)
      /\ Taken(d)' = Taken(d) /\ Held(d)' = Held(d)
    BY CopyEffect DEF IInv
<1>2. Fixed(d)
    BY <1>1 DEF Fixed, Steady
<1>3. \A e \in Device : Fixed(e) /\ Steady(e) /\ LookedUp(e)' = LookedUp(e)
    BY <1>1, <1>2, StillIsSteady DEF OthersStill, Fixed
<1>4. UNCHANGED <<place, count, locked, anon>> /\ SameMapping /\ raced' = raced /\ opage' = opage
    BY <1>1 DEF frames, SameMapping, history
<1>5. Frames'
    BY <1>3, <1>4, FramesKept DEF IInv, Frames, Distinct
<1>6. Owned'
    BY <1>3, <1>4, OwnedKept DEF IInv
<1> QED BY <1>1, <1>5, <1>6, CopyContents DEF IInv

LEMMA SwapStep ==
    ASSUME IInv, NEW d \in Device, CompareAndSwap(d)
    PROVE  IInv'
<1>1. /\ Typed' /\ OthersStill(d) /\ phase[d] = "cas"
      /\ UNCHANGED <<tlb, content, frames, req, opage, saved, writes, written, stale, gap, hurried>>
      /\ SameMapping
      /\ LookedUp(d)' = LookedUp(d) /\ Taken(d)' = Taken(d) /\ LookedUp(d) = {}
      /\ \/ raced' = raced /\ Unsettled(d)' = Unsettled(d) /\ Held(d)' = Held(d)
         \/ /\ raced' = raced \cup {req[d][at[d]]}
            /\ Unsettled(d)' = Unsettled(d) \ {at[d]} /\ Held(d)' = Held(d) \ {at[d]}
    BY SwapEffect DEF IInv, SameMapping
<1>2. Steady(d)
    BY <1>1 DEF Steady
<1>3. \A e \in Device \ {d} : Fixed(e) /\ Steady(e)
    BY <1>1, StillIsSteady DEF OthersStill
<1>4. UNCHANGED <<place, count, locked, anon>> /\ opage' = opage
    BY <1>1 DEF frames
<1>5. Frames'
    <2>1. \A e \in Device : Steady(e) /\ LookedUp(e)' = LookedUp(e)
        BY <1>1, <1>2, <1>3 DEF Fixed
    <2> QED BY <1>1, <1>4, <2>1, FramesKept DEF IInv, Frames, Distinct
<1>6. Owned'
    <2>1. CASE raced' = raced /\ Unsettled(d)' = Unsettled(d) /\ Held(d)' = Held(d)
        <3>1. \A e \in Device : Fixed(e)
            BY <1>1, <1>2, <1>3, <2>1 DEF Fixed
        <3> QED BY <1>4, <2>1, <3>1, OwnedKept DEF IInv
    <2>2. CASE raced' = raced \cup {req[d][at[d]]}
        BY <2>2 DEF Owned
    <2> QED BY <1>1, <2>1, <2>2
<1> QED BY <1>1, <1>5, <1>6, SwapContents DEF IInv

LEMMA SettleStep ==
    ASSUME SmallOrAlone, IInv, NEW d \in Device, Settle(d)
    PROVE  IInv'
<1>1. /\ Typed' /\ OthersStill(d) /\ UNCHANGED <<program, req, opage, saved, history>>
      /\ Installed(d)' = Installed(d) /\ phase'[d] # "save"
      /\ \A i \in Installed(d) : i \in Copied(d) /\ i \in Copied(d)'
    BY SettleFrames DEF IInv
<1>2. Flying(d)
    BY <1>1 DEF Flying
<1>3. \A e \in Device : Flying(e) /\ saved'[e] = saved[e]
    BY <1>1, <1>2, StillIsSteady DEF OthersStill
<1>4. UNCHANGED <<pte, content, written, stale, raced, gap, hurried>>
    BY <1>1 DEF program, history
<1>5. Contents'
    BY <1>3, <1>4, ContentsKept DEF IInv
<1> QED BY <1>1, <1>5, SettleFrames DEF IInv

LEMMA Stutter ==
    ASSUME IInv, UNCHANGED vars
    PROVE  IInv'
<1>1. UNCHANGED <<program, frames, driver, history>>
    BY DEF vars, program, frames, driver, history
<1>2. \A d \in Device : Still(d) /\ SamePositions(d) /\ opage'[d] = opage[d] /\ saved'[d] = saved[d]
    BY <1>1, DriverRests DEF driver, Still, SamePositions
<1>3. \A d \in Device : Fixed(d) /\ Flying(d) /\ Distinct(d)'
    BY <1>2, StillIsSteady DEF IInv, Frames, Distinct
<1>4. UNCHANGED <<pte, content, frames, written, stale, raced, gap, hurried>>
    BY <1>1 DEF program, history
<1>5. Typed'
    <2>1. TypeOK'
        BY <1>1 DEF IInv, Typed, TypeOK, program, frames, driver, history
    <2> QED BY <1>1, <2>1, DriverRests DEF IInv, Typed, driver
<1> QED BY <1>2, <1>3, <1>4, <1>5, NothingMoves DEF IInv

\* At first every page has a frame of its own, and nobody migrates anything.
LEMMA Initially ==
    ASSUME SmallOrAlone, Init
    PROVE  IInv
<1>1. PICK home \in Injection(Page, Frame) :
          /\ pte = [v \in Page |-> [frame |-> home[v], young |-> TRUE, dirty |-> TRUE]]
          /\ place = [f \in Frame |-> IF f \in Range(home)
                                      THEN (IF \E v \in Huge : home[v] = f THEN "active" ELSE "lru")
                                      ELSE "free"]
          /\ count = [f \in Frame |-> IF f \in Range(home) THEN 1 ELSE 0]
          /\ anon = Range(home)
          /\ content = [f \in Frame |-> IF f \in Range(home)
                                      THEN <<CHOOSE v \in Page : home[v] = f, 0>> ELSE None]
    BY DEF Init
<1>2. /\ home \in [Page -> Frame] /\ Range(home) \subseteq Frame
      /\ \A v, w \in Page : home[v] = home[w] => v = w
      /\ \A f : f \in Range(home) <=> \E v \in Page : home[v] = f
    BY DEF Injection, IsInjective, Range
<1>3. /\ tlb = [v \in Page |-> None] /\ locked = {} /\ hugePage = FALSE
      /\ phase = [d \in Device |-> "idle"] /\ req = [d \in Device |-> <<>>]
      /\ at = [d \in Device |-> 1] /\ opage = [d \in Device |-> <<>>]
      /\ saved = [d \in Device |-> <<>>] /\ writes = 0 /\ written = [v \in Page |-> 0]
      /\ stale = FALSE /\ raced = {} /\ gap = {} /\ polled = {} /\ hurried = FALSE
    BY DEF Init
<1>4. \A v \in Page : pte[v] \in Entry /\ pte[v].frame = home[v]
    BY <1>1, <1>2, NewEntry
<1>5. \A f \in Frame : /\ place[f] = IF \E v \in Page : home[v] = f
                                    THEN (IF \E v \in Huge : home[v] = f THEN "active" ELSE "lru")
                                    ELSE "free"
                       /\ count[f] = IF \E v \in Page : home[v] = f THEN 1 ELSE 0
    BY <1>1, <1>2
<1>6. \A v \in Page : content[home[v]] = <<v, 0>>
    <2> SUFFICES ASSUME NEW v \in Page PROVE content[home[v]] = <<v, 0>>
        OBVIOUS
    <2>1. (CHOOSE u \in Page : home[u] = home[v]) = v
        BY <1>2
    <2> QED BY <1>1, <1>2, <2>1
<1>7. Typed
    <2>1. pte \in [Page -> Entry]
        BY <1>1, <1>4
    <2>2. content \in [Frame -> (Page \X (0..MaxWrites)) \cup {None}]
        <3>1. 0 \in 0 .. MaxWrites
            BY PageMigAssumption
        <3>2. \A f \in Frame : content[f] \in (Page \X (0..MaxWrites)) \cup {None}
            <4> SUFFICES ASSUME NEW f \in Frame PROVE content[f] \in (Page \X (0..MaxWrites)) \cup {None}
                OBVIOUS
            <4>1. CASE \E v \in Page : home[v] = f
                BY <1>6, <3>1, <4>1
            <4>2. CASE ~\E v \in Page : home[v] = f
                BY <1>1, <1>2, <4>2
            <4> QED BY <4>1, <4>2
        <3> QED BY <1>1, <3>2
    <2>3. place \in [Frame -> Places] /\ count \in [Frame -> Nat]
        <3>1. \A f \in Frame : place[f] \in Places /\ count[f] \in Nat
            BY <1>5 DEF Places
        <3> QED BY <1>1, <3>1
    <2>4. /\ tlb \in [Page -> Cached] /\ locked \subseteq Frame /\ anon \subseteq Frame /\ raced \subseteq Page
          /\ gap \subseteq Page /\ polled \subseteq Device
          /\ hugePage \in BOOLEAN /\ stale \in BOOLEAN /\ hurried \in BOOLEAN
          /\ writes \in 0..MaxWrites /\ written \in [Page -> 0..MaxWrites]
        <3>1. 0 \in 0 .. MaxWrites /\ None \in Cached
            BY PageMigAssumption DEF Cached
        <3>2. tlb \in [Page -> Cached] /\ written \in [Page -> 0..MaxWrites]
            BY <1>3, <3>1
        <3>3. anon \subseteq Frame /\ locked \subseteq Frame /\ raced \subseteq Page
            BY <1>1, <1>2, <1>3
        <3> QED BY <1>3, <3>1, <3>2, <3>3
    <2>5. /\ phase \in [Device -> Phases] /\ req \in [Device -> Requests \cup {<<>>}]
          /\ opage \in [Device -> Seq(Frame)] /\ saved \in [Device -> Seq(Entry)]
          /\ at \in [Device -> Nat \ {0}]
          /\ \A d \in Device : phase[d] = "idle" /\ opage[d] = <<>> /\ saved[d] = <<>>
        BY <1>3 DEF Phases
    <2>6. TypeOK
        BY <2>1, <2>2, <2>3, <2>4, <2>5 DEF TypeOK, Cached
    <2>7. \A d \in Device : Shape(d)
        BY <2>5 DEF Shape, Quiet, Filling, Moving
    <2>8. KindKnown
        BY <2>5 DEF KindKnown, Resting
    <2> QED BY <2>6, <2>7, <2>8 DEF Typed
<1>8. \A d \in Device : /\ phase[d] = "idle" /\ opage[d] = <<>> /\ saved[d] = <<>>
                        /\ Unsettled(d) = {} /\ Installed(d) = {} /\ LookedUp(d) = {}
                        /\ Taken(d) = {} /\ Held(d) = {}
    <2>1. \A d \in Device : phase[d] = "idle" /\ opage[d] = <<>> /\ saved[d] = <<>>
        BY <1>3
    <2>2. \A d \in Device : Positions(d)
        BY <1>7, PositionsHold DEF Typed
    <2> QED BY <2>1, <2>2 DEF Positions, Quiet
<1>9. PagesApart
    BY <1>2, <1>4 DEF PagesApart
<1>10. RefsBalance
    <2> SUFFICES ASSUME NEW f \in Frame
                 PROVE  /\ count[f] = Cardinality(Mappings(f)) + Cardinality(Lookups(f))
                              + (IF place[f] \in {"fresh", "isolated", "pagevec"} THEN 1 ELSE 0)
                        /\ count[f] = 0 <=> place[f] = "free"
        BY DEF RefsBalance
    <2>1. Lookups(f) = {}
        BY <1>8 DEF Lookups
    <2>2. Cardinality(Lookups(f)) = 0
        BY <2>1, LookupsCount
    <2>3. Cardinality(Mappings(f)) = count[f]
        BY <1>4, <1>5, <1>9, MappingsCount
    <2>4. place[f] \notin {"fresh", "isolated", "pagevec"} /\ (count[f] = 0 <=> place[f] = "free")
        BY <1>5
    <2> QED BY <1>5, <2>2, <2>3, <2>4
<1>11. Frames
    <2>1. HoldersApart /\ TargetsApart
        BY <1>8 DEF HoldersApart, TargetsApart
    <2>2. \A d \in Device : Transfer(d) /\ Isolated(d) /\ Found(d)
        BY <1>8 DEF Transfer, Isolated, Found
    <2>3. \A d \in Device : Distinct(d)
        <3>1. IsInjective(<<>>)
            BY DEF IsInjective
        <3> QED BY <1>8, <3>1 DEF Distinct
    <2>4. Sorted
        <3>1. \A v \in Page : place[pte[v].frame] = IF v \in Huge THEN "active" ELSE "lru"
            <4> SUFFICES ASSUME NEW v \in Page
                         PROVE  place[home[v]] = IF v \in Huge THEN "active" ELSE "lru"
                BY <1>4
            <4>1. home[v] \in Frame /\ \E u \in Page : home[u] = home[v]
                BY <1>2
            <4>2. (\E u \in Huge : home[u] = home[v]) <=> v \in Huge
                BY <1>2, PageMigAssumption
            <4> QED BY <1>5, <4>1, <4>2
        <3> QED BY <3>1 DEF Sorted, RightList
    <2> QED BY <1>9, <1>10, <2>1, <2>2, <2>3, <2>4 DEF Frames
<1>12. Contents
    <2>1. \A v \in Page : Kept(v)
        BY <1>3, <1>4, <1>6 DEF Kept
    <2>2. \A d \in Device : Entries(d) /\ Unread(d) /\ Data(d)
        BY <1>8 DEF Entries, Unread, Data
    <2> QED BY <2>1, <2>2 DEF Contents, NothingLost
<1>13. Owned
    BY <1>3, <1>5 DEF Owned
<1> QED BY <1>7, <1>11, <1>12, <1>13 DEF IInv

LEMMA Step ==
    ASSUME SmallOrAlone, IInv, [Next]_vars
    PROVE  IInv'
<1>1. CASE \E v \in Page : Program(v)
    BY <1>1, ProgramStep
<1>2. CASE \E d \in Device : Driver(d)
    <2>1. PICK d \in Device : Driver(d)
        BY <1>2
    <2>2. CASE \E r \in Requests : KickStart(d, r) \/ WorkStart(d, r)
        BY <2>2, KickStep, WorkStartStep
    <2>3. CASE WorkEnd(d) \/ Follow(d) \/ Isolate(d) \/ OutOfFrames(d)
        BY <2>3, WorkEndStep, FollowStep, IsolateStep, OutOfFramesStep
    <2>4. CASE \E f \in Frame : Replace(d, f)
        BY <2>4, ReplaceStep
    <2>5. CASE SaveNewPte(d) \/ Copy(d) \/ Hurry(d) \/ CompareAndSwap(d) \/ Settle(d) \/ Report(d)
        BY <2>5, SaveStep, CopyStep, HurryStep, SwapStep, SettleStep, ReportStep
    <2> QED BY <2>1, <2>2, <2>3, <2>4, <2>5 DEF Driver
<1>3. CASE Drain
    BY <1>3, DrainStep
<1>4. CASE UNCHANGED vars
    BY <1>4, Stutter
<1> QED BY <1>1, <1>2, <1>3, <1>4 DEF Next

LEMMA Invariance ==
    ASSUME SmallOrAlone
    PROVE  Spec => []IInv
<1>1. Init => IInv
    BY Initially
<1>2. IInv /\ [Next]_vars => IInv'
    BY Step
<1> QED BY <1>1, <1>2, PTL DEF Spec

-----------------------------------------------------------------------------
(***************************************************************************)
(* The theorems.                                                           *)
(***************************************************************************)
\* The tables of the driver, the page table and the state of the frames keep their types:
\* whatever its phase, a device is within the pages of its request.
THEOREM TypeCorrect ==
    ASSUME SmallOrAlone
    PROVE  Spec => []TypeOK
<1>1. IInv => TypeOK
    BY DEF IInv, Typed
<1> QED BY <1>1, Invariance, PTL

\* However many devices migrate pages at once, a frame serves one purpose (the page lock
\* and page->mapping, asked under it by issue_one_desc_mig, keep two devices from
\* migrating the same page), and no frame in use is free.
THEOREM OnePurpose ==
    ASSUME SmallOrAlone
    PROVE  Spec => []FramesApart
<1>1. ASSUME IInv PROVE FramesApart
    <2>1. \A d, e \in Device : \A i \in Unsettled(d), j \in Unsettled(e) :
              opage[d][i] = opage[e][j] => d = e /\ i = j
        BY <1>1, Nested DEF IInv, Frames, HoldersApart
    <2>2. \A v \in Page : place[pte[v].frame] # "free"
        <3> SUFFICES ASSUME NEW v \in Page PROVE place[pte[v].frame] # "free"
            OBVIOUS
        <3>1. pte[v].frame \in Frame
            BY <1>1, EntryFields DEF IInv, Typed, TypeOK
        <3> QED BY <1>1, <3>1, Referred DEF IInv, Frames
    <2>3. \A d \in Device : \A i \in Unsettled(d) :
              /\ \A v \in Page : opage[d][i] # pte[v].frame
              /\ place[opage[d][i]] = "isolated"
        BY <1>1, Nested, UnsettledNotTaken DEF IInv, Frames, Transfer, Isolated
    <2> QED BY <1>1, <2>1, <2>2, <2>3 DEF IInv, Frames, PagesApart, FramesApart
<1>2. IInv => FramesApart
    BY <1>1
<1> QED BY <1>2, Invariance, PTL

\* Each reference that follow_page_range, isolate_lru_page and install_new_pte take is
\* dropped once, and the frame freed with the last, on the failing paths too.
THEOREM ReferencesBalance ==
    ASSUME SmallOrAlone
    PROVE  Spec => []RefsBalance
<1>1. IInv => RefsBalance
    BY DEF IInv, Frames
<1> QED BY <1>1, Invariance, PTL

\* A write during a migration is in the new frame, or the compare-and-swap of
\* dma_complete_one_mig fails; as long as no write uses a translation the page table no
\* longer backs or falls between set_pte_at and the reading back of the entry
\* (install_new_pte), and no worker goes on before its transfer is done.
THEOREM WritesSurvive ==
    ASSUME SmallOrAlone
    PROVE  Spec => []NothingLost
<1>1. IInv => NothingLost
    BY DEF IInv, Contents
<1> QED BY <1>1, Invariance, PTL

\* Without a race all frames are unlocked and back on their lists when no request is
\* under way (dma_complete_one_mig).
THEOREM NothingHeld ==
    ASSUME SmallOrAlone
    PROVE  Spec => []NothingHeldAtRest
<1>1. ASSUME IInv, raced = {}, \A d \in Device : phase[d] \in {"idle", "worker"}
      PROVE  locked = {} /\ \A f \in Frame : place[f] \notin {"fresh", "isolated"}
    <2>1. \A d \in Device : Positions(d)
        BY <1>1, PositionsHold DEF IInv, Typed
    <2>2. \A d \in Device : Held(d) = {} /\ Unsettled(d) = {} /\ phase[d] # "bug_replace"
        BY <1>1, <2>1 DEF Positions, Quiet
    <2>3. \A f \in Frame : ~(f \in locked \/ place[f] \in {"fresh", "isolated"})
        BY <1>1, <2>2 DEF IInv, Owned
    <2>4. locked \subseteq Frame
        BY <1>1 DEF IInv, Typed, TypeOK
    <2> QED BY <2>3, <2>4
<1>2. IInv => NothingHeldAtRest
    BY <1>1 DEF NothingHeldAtRest
<1> QED BY <1>2, Invariance, PTL
=============================================================================
