------------------------------ MODULE PageMig ------------------------------
(***************************************************************************)
(* Migration of pages under a running program (MIG_MOVE_SINGLE_MIG).       *)
(*                                                                         *)
(* A request names pages of the program.  issue_one_desc_mig takes each    *)
(* frame off the kernel's lists, allocates a new one and points the page   *)
(* table at it at once; the DMA engine copies the contents afterwards, and *)
(* dma_complete_one_mig finds out with a compare-and-swap on the page      *)
(* table entry whether the program has written the page meanwhile.  The    *)
(* entry it expects is read back from the page table a moment after it     *)
(* was set, and the program runs in between.                               *)
(*                                                                         *)
(* Each device runs one chain of requests, as module Memif describes it:   *)
(* the first is issued by the kick, the others by the worker.  Devices     *)
(* share the global huge_page and the frames.  The program runs on a       *)
(* processor with a TLB.                                                   *)
(***************************************************************************)
EXTENDS Naturals, Sequences, FiniteSets, Functions, SequencesExt

CONSTANTS
    Page,       \* the virtual pages of the program (4k or 2M each)
    Huge,       \* those in a mapping of 2M pages
    Frame,      \* the physical pages, of either size
    Device,     \* the devices the program has opened
    Requests,   \* what it may submit: sequences of pages of one kind
    MaxWrites,  \* bound on the number of writes of the program
    None        \* no translation cached, no known contents

ASSUME PageMigAssumption ==
    /\ Huge \subseteq Page
    /\ MaxWrites \in Nat
    /\ \A r \in Requests :
          /\ r \in Seq(Page) /\ r # <<>> /\ IsInjective(r)
          /\ ToSet(r) \subseteq Huge \/ ToSet(r) \cap Huge = {}
    /\ None \notin [frame : Frame, dirty : BOOLEAN] \cup (Page \X Nat)

VARIABLES
    \* The program and its processor.
    pte,        \* pte[v]: frame, accessed bit and dirty bit of page v
    tlb,        \* tlb[v]: the translation of v the processor holds
    content,    \* content[f]: the write that frame f shows, <<page, number>>
    \* The kernel's frames.
    place,      \* place[f]: the list frame f is on
    count,      \* count[f]: its page_count
    locked,     \* the frames with the page lock held
    anon,       \* the frames with page->mapping set
    hugePage,   \* the global variable huge_page of the driver
    \* The driver, per device.
    phase,      \* what the chain of a device does next
    req,        \* the pages of its request
    at,         \* the page of the request it is at
    opage,      \* the frames it has looked up
    saved,      \* the entries it has installed, pg_desc[i].pte and .newpage
    polled,     \* the devices whose request was issued by the worker, which polls for its end
    \* History.
    writes,     \* the number of writes of the program so far
    written,    \* written[v]: the last one to v
    stale,      \* a write has gone through a translation the page table no longer backs
    raced,      \* the pages on which a race has been detected
    gap,        \* the pages written between the setting of an entry and its reading back
    hurried     \* a worker has gone on before its transfer was done

program == <<pte, tlb, content>>
frames == <<place, count, locked, anon>>
driver == <<hugePage, phase, req, at, opage, saved, polled>>
history == <<writes, written, stale, raced, gap, hurried>>
vars == <<pte, tlb, content, place, count, locked, anon, hugePage, phase, req, at, opage,
          saved, polled, writes, written, stale, raced, gap, hurried>>

Phases == {"idle", "follow", "isolate", "replace", "save", "dma", "cas", "settle", "report",
           "worker", "bug_isolate", "bug_replace"}
\* "fresh" is a frame that has been allocated and is on no list yet.
Places == {"free", "fresh", "pagevec", "lru", "active", "isolated"}
Entry == [frame : Frame, young : BOOLEAN, dirty : BOOLEAN]

\* The program has written all its pages before, and they have reached their lists.
Init ==
    /\ \E home \in Injection(Page, Frame) :
          LET kind(f) == IF \E v \in Huge : home[v] = f THEN "active" ELSE "lru" IN
          /\ pte = [v \in Page |-> [frame |-> home[v], young |-> TRUE, dirty |-> TRUE]]
          /\ place = [f \in Frame |-> IF f \in Range(home) THEN kind(f) ELSE "free"]
          /\ count = [f \in Frame |-> IF f \in Range(home) THEN 1 ELSE 0]
          /\ anon = Range(home)
          /\ content = [f \in Frame |-> IF f \in Range(home)
                                      THEN <<CHOOSE v \in Page : home[v] = f, 0>> ELSE None]
    /\ tlb = [v \in Page |-> None]
    /\ locked = {}
    /\ hugePage = FALSE
    /\ phase = [d \in Device |-> "idle"]
    /\ req = [d \in Device |-> <<>>]
    /\ at = [d \in Device |-> 1]
    /\ opage = [d \in Device |-> <<>>]
    /\ saved = [d \in Device |-> <<>>]
    /\ writes = 0
    /\ written = [v \in Page |-> 0]
    /\ polled = {}
    /\ stale = FALSE
    /\ raced = {}
    /\ gap = {}
    /\ hurried = FALSE

Goto(d, label) == phase' = [phase EXCEPT ![d] = label]

\* What device d does when it is done with the page it is at: the same to the next one,
\* or the next phase, from the first page on.
NextPage(d, again, label) ==
    IF at[d] < Len(req[d])
    THEN at' = [at EXCEPT ![d] = at[d] + 1] /\ Goto(d, again)
    ELSE at' = [at EXCEPT ![d] = 1] /\ Goto(d, label)

-----------------------------------------------------------------------------
(***************************************************************************)
(* The program.                                                            *)
(***************************************************************************)
\* The page table entry of page v has been set by device d, and not been read back.
Unsaved(d, v) == phase[d] = "save" /\ req[d][at[d]] = v

\* What a write of page v to a frame leaves behind; it is not followed any more when a
\* worker has gone on before its transfer was done.
Store(v, frame) ==
    \/ hurried /\ UNCHANGED <<content, writes, written, gap>>
    \/ LET w == writes + 1 IN
       /\ ~hurried /\ w <= MaxWrites
       /\ content' = [content EXCEPT ![frame] = <<v, w>>]
       /\ writes' = w
       /\ written' = [written EXCEPT ![v] = w]
       /\ gap' = IF \E d \in Device : Unsaved(d, v) THEN gap \cup {v} ELSE gap

\* A write through a translation that is cached as dirty leaves the page table alone.
\* Any other looks the page up, and marks the entry.
Write(v) ==
    LET hit == tlb[v] # None /\ tlb[v].dirty
        frame == IF hit THEN tlb[v].frame ELSE pte[v].frame
    IN  /\ Store(v, frame)
        /\ IF hit
           THEN /\ stale' = (stale \/ (~hurried /\ (pte[v].frame # frame \/ ~pte[v].dirty)))
                /\ UNCHANGED <<pte, tlb>>
           ELSE /\ pte' = [pte EXCEPT ![v] = [frame |-> frame, young |-> TRUE, dirty |-> TRUE]]
                /\ tlb' = [tlb EXCEPT ![v] = [frame |-> frame, dirty |-> TRUE]]
                /\ UNCHANGED stale
        /\ UNCHANGED <<frames, driver, raced, hurried>>

\* A read that finds no translation loads it.
Read(v) ==
    /\ tlb[v] = None
    /\ pte' = [pte EXCEPT ![v].young = TRUE]
    /\ tlb' = [tlb EXCEPT ![v] = [frame |-> pte[v].frame, dirty |-> pte[v].dirty]]
    /\ UNCHANGED <<content, frames, driver, history>>

\* The processor drops a translation when it likes.
Evict(v) ==
    /\ tlb[v] # None
    /\ tlb' = [tlb EXCEPT ![v] = None]
    /\ UNCHANGED <<pte, content, frames, driver, history>>

-----------------------------------------------------------------------------
(***************************************************************************)
(* The kernel's lists.                                                     *)
(***************************************************************************)
\* putback_lru_page stages a frame in a pagevec that holds a reference of its own;
\* when the pagevec is drained, a frame nobody else refers to is freed.
DrainPagevecs ==
    LET staged == {f \in Frame : place[f] = "pagevec"} IN
    /\ count' = [f \in Frame |-> IF f \in staged THEN count[f] - 1 ELSE count[f]]
    /\ place' = [f \in Frame |-> IF f \notin staged THEN place[f]
                               ELSE IF count[f] = 1 THEN "free" ELSE "lru"]

Drain ==
    /\ \E f \in Frame : place[f] = "pagevec"
    /\ DrainPagevecs
    /\ UNCHANGED <<program, locked, anon, driver, history>>

-----------------------------------------------------------------------------
(***************************************************************************)
(* issue_one_desc_mig.                                                     *)
(***************************************************************************)
\* The kind of the mapping is kept in a variable that all devices share.
Begin(d, r) ==
    /\ hugePage' = (r[1] \in Huge)
    /\ req' = [req EXCEPT ![d] = r]
    /\ at' = [at EXCEPT ![d] = 1]
    /\ Goto(d, "follow")
    /\ UNCHANGED <<opage, saved>>

\* The kick: user_flush calls migrate_prep, which drains the pagevecs, first.
KickStart(d, r) ==
    /\ phase[d] = "idle"
    /\ DrainPagevecs
    /\ Begin(d, r)
    /\ UNCHANGED <<program, locked, anon, polled, history>>

\* The worker goes on with the next request of the chain, without migrate_prep.
WorkStart(d, r) ==
    /\ phase[d] = "worker"
    /\ Begin(d, r)
    /\ polled' = polled \cup {d}
    /\ UNCHANGED <<program, frames, history>>

WorkEnd(d) ==
    /\ phase[d] = "worker"
    /\ Goto(d, "idle")
    /\ UNCHANGED <<program, frames, hugePage, req, at, opage, saved, polled, history>>

\* MUTANT: the pages are looked up without FOLL_GET.
MutFollow(d) ==
    /\ phase[d] = "follow"
    /\ \A e \in Device, v \in ToSet(req[d]) : ~Unsaved(e, v)
    /\ opage' = [opage EXCEPT ![d] = [i \in DOMAIN req[d] |-> pte[req[d][i]].frame]]
    /\ Goto(d, "isolate")
    /\ UNCHANGED <<program, frames, hugePage, req, at, saved, polled, history>>

\* follow_page_range (FOLL_GET) looks all the pages up, under the page table lock,
\* and takes a reference to each.  install_new_pte keeps that lock till the entry is read back.
Follow(d) ==
    LET found == [i \in DOMAIN req[d] |-> pte[req[d][i]].frame] IN
    /\ phase[d] = "follow"
    /\ \A e \in Device, v \in ToSet(req[d]) : ~Unsaved(e, v)
    /\ opage' = [opage EXCEPT ![d] = found]
    /\ count' = [f \in Frame |-> IF f \in ToSet(found) THEN count[f] + 1 ELSE count[f]]
    /\ Goto(d, "isolate")
    /\ UNCHANGED <<program, place, locked, anon, hugePage, req, at, saved, polled, history>>

\* Isolating takes a reference, and the one of Follow is dropped.  isolate_lru_page fails
\* if the frame is not on the LRU list (BUG); nobody asks whether isolate_huge_page did.
Isolate(d) ==
    LET page == opage[d][at[d]]
        huge == req[d][1] \in Huge
        listed == place[page] = (IF huge THEN "active" ELSE "lru")
    IN  /\ phase[d] = "isolate"
        /\ \/ /\ listed
              /\ place' = [place EXCEPT ![page] = "isolated"]
              /\ Goto(d, "replace")
              /\ UNCHANGED count
           \/ /\ ~listed /\ huge
              /\ count' = [count EXCEPT ![page] = @ - 1]
              /\ Goto(d, "replace")
              /\ UNCHANGED place
           \/ /\ ~listed /\ ~huge
              /\ Goto(d, "bug_isolate")
              /\ UNCHANGED <<place, count>>
        /\ UNCHANGED <<program, locked, anon, hugePage, req, at, opage, saved, polled, history>>

\* install_new_pte, the first half: the page table points at the new frame, which is young
\* and clean, and has a reference from its allocation and one from the mapping.
InstallNewPte(v, new) ==
    /\ pte' = [pte EXCEPT ![v] = [frame |-> new, young |-> TRUE, dirty |-> FALSE]]
    /\ count' = [count EXCEPT ![new] = 2]
    /\ place' = [place EXCEPT ![new] = "fresh"]

\* A new frame is allocated, both are locked, and the entry of the page is replaced.
Replace(d, new) ==
    LET page == opage[d][at[d]]
        v == req[d][at[d]]
    IN  /\ phase[d] = "replace" /\ place[new] = "free"
        /\ \/ /\ page \notin locked /\ page \in anon
              /\ InstallNewPte(v, new)
              /\ locked' = locked \cup {page, new}
              /\ anon' = anon \cup {new}
              /\ saved' = [saved EXCEPT ![d] = Append(@, pte'[v])]
              /\ Goto(d, "save")
           \/ /\ page \in locked \/ page \notin anon
              /\ count' = [count EXCEPT ![new] = 1]
              /\ place' = [place EXCEPT ![new] = "fresh"]
              /\ locked' = locked \cup {page}
              /\ Goto(d, "bug_replace")
              /\ UNCHANGED <<pte, anon, saved>>
        /\ UNCHANGED <<tlb, content, hugePage, req, at, opage, polled, history>>

\* MUTANT: the reference of the old mapping is kept.
MutSaveNewPte(d) ==
    /\ phase[d] = "save"
    /\ saved' = [saved EXCEPT ![d][at[d]] = pte[req[d][at[d]]]]
    /\ NextPage(d, "isolate", "dma")
    /\ UNCHANGED <<program, frames, hugePage, req, opage, polled, history>>

\* install_new_pte, the second half: the entry is read back from the page table, with what
\* the processor has made of it, and the reference of the old mapping is dropped; a frame is
\* freed with its last reference.  After the last page the transfer is submitted.
SaveNewPte(d) ==
    LET old == opage[d][at[d]] IN
    /\ phase[d] = "save"
    /\ saved' = [saved EXCEPT ![d][at[d]] = pte[req[d][at[d]]]]
    /\ count' = [count EXCEPT ![old] = @ - 1]
    /\ place' = [place EXCEPT ![old] = IF count[old] = 1 THEN "free" ELSE @]
    /\ NextPage(d, "isolate", "dma")
    /\ UNCHANGED <<program, locked, anon, hugePage, req, opage, polled, history>>

\* BUG_ON(!newpage): the node has no frame left.
OutOfFrames(d) ==
    /\ phase[d] = "replace" /\ \A f \in Frame : place[f] # "free"
    /\ Goto(d, "bug_replace")
    /\ UNCHANGED <<program, frames, hugePage, req, at, opage, saved, polled, history>>

-----------------------------------------------------------------------------
(***************************************************************************)
(* The transfer, and dma_complete_one_mig for each page of it.             *)
(***************************************************************************)
Copy(d) ==
    /\ phase[d] = "dma"
    /\ content' = [content EXCEPT ![saved[d][at[d]].frame] = content[opage[d][at[d]]]]
    /\ NextPage(d, "dma", "cas")
    /\ UNCHANGED <<pte, tlb, frames, hugePage, req, opage, saved, polled, history>>

\* The worker asks the channel for the status of cookie 0, which is always DMA_COMPLETE, and
\* goes on whatever has been copied.  Contents are not followed from then on.
Hurry(d) ==
    /\ phase[d] = "dma" /\ d \in polled
    /\ at' = [at EXCEPT ![d] = 1]
    /\ Goto(d, "cas")
    /\ hurried' = TRUE
    /\ content' = [f \in Frame |-> None]
    /\ writes' = 0 /\ written' = [v \in Page |-> 0]
    /\ stale' = FALSE /\ gap' = {}
    /\ UNCHANGED <<pte, tlb, frames, hugePage, req, opage, saved, polled, raced>>

\* MUTANT: the entry is replaced without a comparison.
MutCompareAndSwap(d) ==
    /\ phase[d] = "cas"
    /\ pte' = [pte EXCEPT ![req[d][at[d]]] = [saved[d][at[d]] EXCEPT !.young = FALSE]]
    /\ Goto(d, "settle")
    /\ UNCHANGED <<tlb, content, frames, hugePage, req, at, opage, saved, polled, history>>

\* The entry is replaced by an old one if it is still what was installed.  If it is not
\* the function returns, and the caller goes on with the next page.
CompareAndSwap(d) ==
    LET v == req[d][at[d]]
        mine == saved[d][at[d]]
    IN  /\ phase[d] = "cas"
        /\ \/ /\ pte[v] = mine
              /\ pte' = [pte EXCEPT ![v].young = FALSE]
              /\ Goto(d, "settle")
              /\ UNCHANGED <<at, raced>>
           \/ /\ pte[v] # mine
              /\ raced' = raced \cup {v}
              /\ NextPage(d, "cas", "report")
              /\ UNCHANGED pte
        /\ UNCHANGED <<tlb, content, frames, hugePage, req, opage, saved, polled,
                       writes, written, stale, gap, hurried>>

\* MUTANT: only the old frame is unlocked.
MutSettle(d) ==
    LET page == opage[d][at[d]]
        newpage == saved[d][at[d]].frame
    IN  /\ phase[d] = "settle"
        /\ locked' = locked \ {page}
        /\ anon' = anon \ {page}
        /\ count' = [count EXCEPT ![page] = @ - 1, ![newpage] = @ - 1]
        /\ place' = [place EXCEPT ![page] = IF count[page] = 1 THEN "free" ELSE "active",
                                  ![newpage] = "active"]
        /\ NextPage(d, "cas", "report")
        /\ UNCHANGED <<program, hugePage, req, opage, saved, polled, history>>

\* Both frames are unlocked and put back: in a pagevec, which takes over the reference of
\* the isolation, or on the list of active huge pages, and the reference is dropped.
Settle(d) ==
    LET page == opage[d][at[d]]
        newpage == saved[d][at[d]].frame
    IN  /\ phase[d] = "settle"
        /\ locked' = locked \ {page, newpage}
        /\ anon' = anon \ {page}
        /\ IF hugePage
           THEN /\ count' = [count EXCEPT ![page] = @ - 1, ![newpage] = @ - 1]
                /\ place' = [place EXCEPT ![page] = IF count[page] = 1 THEN "free" ELSE "active",
                                          ![newpage] = "active"]
           ELSE /\ place' = [place EXCEPT ![page] = "pagevec", ![newpage] = "pagevec"]
                /\ UNCHANGED count
        /\ NextPage(d, "cas", "report")
        /\ UNCHANGED <<program, hugePage, req, opage, saved, polled, history>>

\* The request is appended to qcomp, and the table freed.
Report(d) ==
    /\ phase[d] = "report"
    /\ opage' = [opage EXCEPT ![d] = <<>>]
    /\ saved' = [saved EXCEPT ![d] = <<>>]
    /\ req' = [req EXCEPT ![d] = <<>>]
    /\ polled' = polled \ {d}
    /\ Goto(d, "worker")
    /\ UNCHANGED <<program, frames, hugePage, at, history>>

-----------------------------------------------------------------------------
Program(v) == Write(v) \/ Read(v) \/ Evict(v)

Driver(d) ==
    \/ \E r \in Requests : KickStart(d, r) \/ WorkStart(d, r)
    \/ WorkEnd(d) \/ Follow(d) \/ Isolate(d) \/ OutOfFrames(d)
    \/ \E f \in Frame : Replace(d, f)
    \/ SaveNewPte(d) \/ Copy(d) \/ Hurry(d) \/ CompareAndSwap(d) \/ Settle(d) \/ Report(d)

Next ==
    \/ \E v \in Page : Program(v)
    \/ \E d \in Device : Driver(d)
    \/ Drain

Spec == Init /\ [][Next]_vars

-----------------------------------------------------------------------------
\* Every variable keeps its type: page table, page state and driver tables.
TypeOK ==
    /\ pte \in [Page -> Entry]
    /\ tlb \in [Page -> [frame : Frame, dirty : BOOLEAN] \cup {None}]
    /\ content \in [Frame -> (Page \X (0..MaxWrites)) \cup {None}]
    /\ writes \in 0..MaxWrites /\ written \in [Page -> 0..MaxWrites]
    /\ place \in [Frame -> Places] /\ count \in [Frame -> Nat]
    /\ locked \subseteq Frame /\ anon \subseteq Frame /\ raced \subseteq Page
    /\ gap \subseteq Page /\ polled \subseteq Device
    /\ hugePage \in BOOLEAN /\ stale \in BOOLEAN /\ hurried \in BOOLEAN
    /\ phase \in [Device -> Phases]
    /\ req \in [Device -> Requests \cup {<<>>}]
    /\ opage \in [Device -> Seq(Frame)] /\ saved \in [Device -> Seq(Entry)]
    /\ at \in [Device -> Nat \ {0}]
    /\ \A d \in Device : at[d] \in 1..Len(req[d]) \/ phase[d] \in {"idle", "report", "worker"}

\* The positions of the request of device d that are under way: from the installation of
\* the new entry to the compare-and-swap, and from there to the release of the frames.
Installed(d) == {i \in DOMAIN saved[d] : /\ phase[d] # "report"
                                         /\ phase[d] = "cas" => i >= at[d]
                                         /\ phase[d] = "settle" => i > at[d]}
Unsettled(d) == Installed(d) \cup (IF phase[d] = "settle" THEN {at[d]} ELSE {})
InFlight(v) == \E d \in Device : \E i \in Installed(d) : req[d][i] = v

\* The positions for whose frame device d has a reference to drop: the one of the lookup,
\* till the frame is isolated, or the one of the mapping that it has replaced.
LookedUp(d) == {i \in DOMAIN opage[d] :
                   \/ phase[d] \in {"isolate", "bug_isolate", "save"} /\ i >= at[d]
                   \/ phase[d] \in {"replace", "bug_replace"} /\ i > at[d]}

Kept(v) == v \in raced \/ InFlight(v) \/ content[pte[v].frame] = <<v, written[v]>>

\* A write of the program during a migration is either in the new frame or detected
\* (the compare-and-swap of dma_complete_one_mig), unless it falls between the setting of
\* the entry and its reading back; as long as no write has used a translation that the page
\* table no longer backs, and no worker has gone on before its transfer was done.
NothingLost == (~stale /\ ~hurried) => \A v \in Page \ gap : Kept(v)

\* Without the proviso on translations: "No need to invalidate" (install_new_pte).
EveryWriteKept == ~hurried => \A v \in Page \ gap : Kept(v)

\* When two devices are at work on small pages, or one on pages of either size, a frame
\* serves one purpose: it backs one page, or it is the source of a migration that is not
\* settled, and a frame that is used is not free (issue_one_desc_mig, dma_complete_one_mig).
FramesApart ==
    /\ \A v, w \in Page : pte[v].frame = pte[w].frame => v = w
    /\ \A d, e \in Device : \A i \in Unsettled(d), j \in Unsettled(e) :
          opage[d][i] = opage[e][j] => d = e /\ i = j
    /\ \A v \in Page : place[pte[v].frame] # "free"
    /\ \A d \in Device : \A i \in Unsettled(d) :
          /\ \A v \in Page : opage[d][i] # pte[v].frame
          /\ place[opage[d][i]] = "isolated"

\* The pages that frame f backs, and the devices that have a reference to it to drop.
Mappings(f) == {v \in Page : pte[v].frame = f}
Lookups(f) == {d \in Device : \E i \in LookedUp(d) : opage[d][i] = f}

\* The references that follow_page, isolation, mapping and pagevecs take are the ones
\* that are dropped: a frame is freed with the last of them, whatever fails on the way.
RefsBalance ==
    \A f \in Frame :
        /\ count[f] = Cardinality(Mappings(f)) + Cardinality(Lookups(f))
                    + (IF place[f] \in {"fresh", "isolated", "pagevec"} THEN 1 ELSE 0)
        /\ count[f] = 0 <=> place[f] = "free"

\* When nothing is under way, no frame is locked or off the lists, unless a race was
\* detected: "need to unlock @page/@newpage in dma callback" (issue_one_desc_mig).
NothingHeldAtRest ==
    (raced = {} /\ \A d \in Device : phase[d] \in {"idle", "worker"})
        => locked = {} /\ \A f \in Frame : place[f] \notin {"fresh", "isolated"}
=============================================================================
