----------------------------- MODULE MoveSingle -----------------------------
(***************************************************************************)
(* The first way of migrating pages, MIG_MOVE_SINGLE: the kernel's own     *)
(* page migration, cut in two by an asynchronous DMA transfer.             *)
(*                                                                         *)
(* flush_single_qreq takes all requests out of qreq, isolates their pages  *)
(* and has migrate_pages_ks2 unmap them and collect them in one transfer.  *)
(* Its callback schedules dma_complete_work, which maps the new pages,     *)
(* reports the requests and flushes the queue again, for the next transfer *)
(* of the chain.  The chain holds the reference to the mm that if_write    *)
(* has taken, so that the program may exit while it is under way.          *)
(*                                                                         *)
(* One thread of the program submits, kicks and collects.  A page that is  *)
(* unmapped makes the program wait.  Other parts of the kernel take a      *)
(* reference to a page, or its lock, for a while.  Readers of mmap_sem do  *)
(* not exclude each other, and nobody writes it.                           *)
(***************************************************************************)
EXTENDS Naturals, Sequences, FiniteSets

CONSTANTS
    Usr,      \* the user thread
    Table,    \* the mig_tables, each with the work that completes it
    Page,     \* the pages of the program
    Busy,     \* those other parts of the kernel may be using
    Req,      \* the requests
    PagesOf,  \* PagesOf[r]: the pages of request r
    NodeOf,   \* NodeOf[r]: the node they are to be moved to
    MaxSG,    \* MAX_NR_SG
    Passes,   \* how often migrate_pages_ks2 goes through the pages (10)
    Patience, \* the passes after which it sleeps for a page lock (2)
    None      \* no request, no table

Nodes == {0, 1}
USR == 1   \* COLOR_USR
KER == 2   \* COLOR_KER
Flusher == {Usr} \cup Table

ASSUME MoveSingleAssumption ==
    /\ Usr \notin Table /\ None \notin Table /\ None \notin Req
    /\ IsFiniteSet(Table)
    /\ Busy \subseteq Page
    /\ PagesOf \in [Req -> Seq(Page)] /\ NodeOf \in [Req -> Nodes]
    /\ \A r \in Req : PagesOf[r] # <<>>   \* 1 << desc->order of them
    /\ MaxSG \in Nat /\ Passes \in Nat /\ Patience \in Nat

VARIABLES
    free, qreq, qissued, qcomp, color,  \* the region
    pc,       \* pc[f]: what the user thread, or the work of a table, does next
    desc,     \* desc[f]: the request it has dequeued
    new,      \* new[f]: the table it is filling
    descs,    \* descs[t]: the requests of table t that have not been reported
    slots,    \* slots[t]: pg_desc[].mig, a request for every page
    list,     \* list[t]: pagelist, the pages that are isolated
    todo,     \* todo[t]: those this pass has still to look at
    migs,     \* migs[t]: pg_desc[].page and the node of newpage
    pass, retry,  \* pass[t], retry[t]: of migrate_pages_ks2
    gone,     \* gone[t]: whether nr_succeeded > 0
    chan,     \* the tables whose transfer is in the DMA channel
    where,    \* where[p]: the list of the kernel the page is on
    node,     \* node[p]: where its contents are
    other,    \* other[p]: what another part of the kernel holds of it
    mapped,   \* the pages the program can reach
    locked,   \* the pages the driver has locked
    same,     \* the pages whose new frame shows what the old one shows
    lost,     \* the pages that have lost a write of the program
    mmUsers,  \* mm->mm_users
    alive     \* whether the program has not exited

region == <<free, qreq, qissued, qcomp, color>>
filling == <<desc, new, descs, slots>>
moving == <<list, todo, migs, pass, retry, gone>>
pages == <<where, node, other, mapped, locked>>
contents == <<same, lost>>
mm == <<mmUsers, alive>>
vars == <<region, pc, filling, moving, chan, pages, contents, mm>>

FlushLabels == {"take", "isolate", "issue", "paint", "put", "move"}
TransferLabels == {"dma", "callback", "remap", "report", "look"}
\* bug_page: a page cannot be isolated; bug_sg: too many of them; bug_color: the
\* queue did not have the colour expected; bug_desc: nothing in qissued;
\* bug_retry: some pages are pending and others are gone; bug_busy: a page could
\* not be unmapped.
BugLabels == {"bug_page", "bug_sg", "bug_color", "bug_desc", "bug_retry", "bug_busy"}
Labels == {"idle", "kick", "free", "built", "unlock"}
              \cup FlushLabels \cup TransferLabels \cup BugLabels

Mig == [page : Page, node : Nodes]

Init ==
    /\ free = Req /\ qreq = <<>> /\ qissued = <<>> /\ qcomp = <<>> /\ color = USR
    /\ pc = [f \in Flusher |-> IF f = Usr THEN "idle" ELSE "free"]
    /\ desc = [f \in Flusher |-> None] /\ new = [f \in Flusher |-> None]
    /\ descs = [t \in Table |-> <<>>] /\ slots = [t \in Table |-> <<>>]
    /\ list = [t \in Table |-> <<>>] /\ todo = [t \in Table |-> <<>>]
    /\ migs = [t \in Table |-> <<>>]
    /\ pass = [t \in Table |-> 0]
    /\ retry = [t \in Table |-> FALSE] /\ gone = [t \in Table |-> FALSE]
    /\ chan = <<>>
    /\ where = [p \in Page |-> "lru"] /\ node = [p \in Page |-> 0]
    /\ other = [p \in Page |-> "none"]
    /\ mapped = Page /\ locked = {} /\ same = {} /\ lost = {}
    /\ mmUsers = 1 /\ alive = TRUE

Goto(f, label) == pc' = [pc EXCEPT ![f] = label]
Elems(s) == {s[i] : i \in DOMAIN s}

\* list_del: a page is in a list once, or not at all.
Without(s, p) ==
    IF p \in Elems(s)
    THEN LET k == CHOOSE i \in DOMAIN s : s[i] = p
         IN  [i \in 1 .. Len(s) - 1 |-> IF i < k THEN s[i] ELSE s[i + 1]]
    ELSE s

-----------------------------------------------------------------------------
(***************************************************************************)
(* The program.                                                            *)
(***************************************************************************)
PagesIn(reqs) == UNION {Elems(PagesOf[r]) : r \in reqs}

\* The program asks for pages that are not where it wants them, and for none
\* twice at a time.  A request that met the user's colour makes it kick the
\* driver.
Submit(r) ==
    /\ alive /\ pc[Usr] = "idle" /\ r \in free
    /\ Elems(PagesOf[r]) \cap PagesIn(Req \ free) = {}
    /\ \A p \in Elems(PagesOf[r]) : node[p] # NodeOf[r]
    /\ free' = free \ {r}
    /\ qreq' = Append(qreq, r)
    /\ Goto(Usr, IF color = USR THEN "kick" ELSE "idle")
    /\ UNCHANGED <<qissued, qcomp, color, filling, moving, chan, pages, contents, mm>>

Collect ==
    /\ alive /\ pc[Usr] = "idle" /\ qcomp # <<>>
    /\ qcomp' = Tail(qcomp)
    /\ free' = free \cup {Head(qcomp)}
    /\ UNCHANGED <<qreq, qissued, color, pc, filling, moving, chan, pages, contents, mm>>

\* The program writes, or another part of the kernel through its reference: the
\* write is lost when the page is copied before it and replaced after it.
Write(p) ==
    /\ \/ alive /\ p \in mapped
       \/ other[p] = "ref"
    /\ same' = same \ {p}
    /\ UNCHANGED <<region, pc, filling, moving, chan, pages, lost, mm>>

Exit ==
    /\ alive /\ pc[Usr] = "idle"
    /\ alive' = FALSE
    /\ mmUsers' = mmUsers - 1
    /\ UNCHANGED <<region, pc, filling, moving, chan, pages, contents>>

\* if_write: get_task_mm, and into flush_single_qreq.
Kick ==
    /\ pc[Usr] = "kick"
    /\ mmUsers' = mmUsers + 1
    /\ Goto(Usr, "take")
    /\ UNCHANGED <<region, filling, moving, chan, pages, contents, alive>>

-----------------------------------------------------------------------------
(***************************************************************************)
(* flush_single_qreq, by the user thread or by the work of a table.        *)
(***************************************************************************)
OldColor(f) == IF f = Usr THEN USR ELSE KER
NewColor(f) == IF f = Usr THEN KER ELSE USR

\* The first request is given a new table; it does not matter which.
Fresh == CHOOSE t \in Table : pc[t] = "free"

FlushTake(f) ==
    /\ pc[f] = "take" /\ qreq # <<>>
    /\ desc' = [desc EXCEPT ![f] = Head(qreq)]
    /\ qreq' = Tail(qreq)
    /\ IF new[f] # None
       THEN Goto(f, "isolate") /\ UNCHANGED new
       ELSE /\ \E t \in Table : pc[t] = "free"
            /\ new' = [new EXCEPT ![f] = Fresh]
            /\ pc' = [pc EXCEPT ![f] = "isolate", ![Fresh] = "built"]
    /\ UNCHANGED <<free, qissued, qcomp, color, descs, slots, moving, chan, pages, contents, mm>>

\* MUTANT: a worker that has found requests leaves the colour to the user.
MutFlushEmpty(f) ==
    /\ pc[f] = "take" /\ qreq = <<>>
    /\ Goto(f, "paint")
    /\ UNCHANGED <<region, filling, moving, chan, pages, contents, mm>>

\* The queue is empty: the work keeps the kernel's colour if it has found
\* something to transfer.
FlushEmpty(f) ==
    /\ pc[f] = "take" /\ qreq = <<>>
    /\ Goto(f, IF f # Usr /\ new[f] # None THEN "move" ELSE "paint")
    /\ UNCHANGED <<region, filling, moving, chan, pages, contents, mm>>

\* The pages of a request are taken off the lists of the kernel.
FlushIsolate(f) ==
    /\ pc[f] = "isolate"
    /\ LET t == new[f]
           r == desc[f]
           wanted == Elems(PagesOf[r]) IN
       IF \E p \in wanted : where[p] # "lru" \/ node[p] = NodeOf[r]
       THEN Goto(f, "bug_page") /\ UNCHANGED <<slots, list, todo, where>>
       ELSE IF Len(slots[t]) + Len(PagesOf[r]) > MaxSG
       THEN Goto(f, "bug_sg") /\ UNCHANGED <<slots, list, todo, where>>
       ELSE /\ Goto(f, "issue")
            /\ where' = [p \in Page |-> IF p \in wanted THEN "isolated" ELSE where[p]]
            /\ list' = [list EXCEPT ![t] = @ \o PagesOf[r]]
            /\ todo' = [todo EXCEPT ![t] = @ \o PagesOf[r]]
            /\ slots' = [slots EXCEPT ![t] = @ \o [i \in DOMAIN PagesOf[r] |-> r]]
    /\ UNCHANGED <<region, desc, new, descs, migs, pass, retry, gone, chan,
                   node, other, mapped, locked, contents, mm>>

FlushIssue(f) ==
    /\ pc[f] = "issue"
    /\ qissued' = Append(qissued, desc[f])
    /\ descs' = [descs EXCEPT ![new[f]] = Append(@, desc[f])]
    /\ desc' = [desc EXCEPT ![f] = None]
    /\ Goto(f, "take")
    /\ UNCHANGED <<free, qreq, qcomp, color, new, slots, moving, chan, pages, contents, mm>>

\* migqueue_set_color_if_empty; a queue that is no longer empty is flushed on.
FlushPaint(f) ==
    /\ pc[f] = "paint"
    /\ color' = IF qreq = <<>> THEN NewColor(f) ELSE color
    /\ Goto(f, CASE qreq # <<>> -> "take"
                 [] qreq = <<>> /\ color # OldColor(f) -> "bug_color"
                 [] OTHER -> IF new[f] = None THEN "put" ELSE "move")
    /\ UNCHANGED <<free, qreq, qissued, qcomp, filling, moving, chan, pages, contents, mm>>

\* MUTANT: the reference is kept when there is nothing to transfer.
MutFlushPut(f) ==
    /\ pc[f] = "put"
    /\ Goto(f, "unlock")
    /\ UNCHANGED <<region, filling, moving, chan, pages, contents, mm>>

\* "no transfers to do ... the previously got mm is not longer needed": mmput.
FlushPut(f) ==
    /\ pc[f] = "put"
    /\ mmUsers' = mmUsers - 1
    /\ Goto(f, "unlock")
    /\ UNCHANGED <<region, filling, moving, chan, pages, contents, alive>>

\* free_pages: the next table to be allocated has an empty list, and no slots.
ClearTable(t) ==
    /\ slots' = [slots EXCEPT ![t] = <<>>]
    /\ list' = [list EXCEPT ![t] = <<>>]

\* up_read(&mm->mmap_sem); do_dma_complete frees its table after that.
FlushUnlock(f) ==
    /\ pc[f] = "unlock"
    /\ IF f = Usr
       THEN Goto(f, "idle") /\ UNCHANGED <<slots, list>>
       ELSE Goto(f, "free") /\ ClearTable(f)
    /\ UNCHANGED <<region, desc, new, descs, todo, migs, pass, retry, gone, chan, pages,
                   contents, mm>>

-----------------------------------------------------------------------------
(***************************************************************************)
(* migrate_pages_ks2.                                                      *)
(***************************************************************************)
\* The references to page p are that of the list alone: it was "freed from under
\* us", or it is pending since an earlier pass.
Alone(p) == p \notin mapped /\ other[p] = "none"

PageGone(f) ==
    /\ pc[f] = "move" /\ todo[new[f]] # <<>>
    /\ LET t == new[f]
           p == Head(todo[t]) IN
       /\ Alone(p)
       /\ list' = [list EXCEPT ![t] = Without(@, p)]
       /\ where' = [where EXCEPT ![p] = "pagevec"]
       /\ gone' = [gone EXCEPT ![t] = TRUE]
       /\ todo' = [todo EXCEPT ![t] = Tail(@)]
    /\ UNCHANGED <<region, pc, filling, migs, pass, retry, chan, node, other, mapped,
                   locked, contents, mm>>

\* -EAGAIN: someone holds the lock of the page, or another reference to it; its
\* entries are restored.
TryAgain(f) ==
    /\ pc[f] = "move" /\ todo[new[f]] # <<>>
    /\ LET t == new[f]
           p == Head(todo[t]) IN
       /\ \/ other[p] = "ref"
          \/ other[p] = "lock" /\ pass[t] <= Patience
       /\ retry' = [retry EXCEPT ![t] = TRUE]
       /\ todo' = [todo EXCEPT ![t] = Tail(@)]
    /\ UNCHANGED <<region, pc, filling, list, migs, pass, gone, chan, pages, contents, mm>>

\* MUTANT: nobody compares page_count with the references it should have.
MutPagePending(f) ==
    /\ pc[f] = "move" /\ todo[new[f]] # <<>>
    /\ LET t == new[f]
           p == Head(todo[t])
           mig == [page |-> p, node |-> NodeOf[slots[t][Len(migs[t]) + 1]]] IN
       /\ p \in mapped /\ other[p] # "lock"
       /\ migs' = [migs EXCEPT ![t] = Append(@, mig)]
       /\ mapped' = mapped \ {p} /\ locked' = locked \cup {p}
       /\ same' = same \ {p}
       /\ todo' = [todo EXCEPT ![t] = Tail(@)]
    /\ UNCHANGED <<region, pc, filling, list, pass, retry, gone, chan, where, node, other,
                   lost, mm>>

\* MIGRATEPAGE_PENDING: the page is locked and unmapped, its new page is of the
\* node that the next slot says, and it stays in the list.
PagePending(f) ==
    /\ pc[f] = "move" /\ todo[new[f]] # <<>>
    /\ LET t == new[f]
           p == Head(todo[t])
           mig == [page |-> p, node |-> NodeOf[slots[t][Len(migs[t]) + 1]]] IN
       /\ ~Alone(p) /\ other[p] = "none"
       /\ migs' = [migs EXCEPT ![t] = Append(@, mig)]
       /\ mapped' = mapped \ {p} /\ locked' = locked \cup {p}
       /\ same' = same \ {p}
       /\ todo' = [todo EXCEPT ![t] = Tail(@)]
    /\ UNCHANGED <<region, pc, filling, list, pass, retry, gone, chan, where, node, other,
                   lost, mm>>

NextPass(f) ==
    /\ pc[f] = "move" /\ todo[new[f]] = <<>>
    /\ LET t == new[f] IN
       /\ retry[t] /\ pass[t] + 1 < Passes
       /\ pass' = [pass EXCEPT ![t] = @ + 1]
       /\ retry' = [retry EXCEPT ![t] = FALSE]
       /\ todo' = [todo EXCEPT ![t] = list[t]]
    /\ UNCHANGED <<region, pc, filling, list, migs, gone, chan, pages, contents, mm>>

\* MUTANT: nobody asks whether pages have been taken for migrated already.
MutTransfer(f) ==
    /\ pc[f] = "move" /\ todo[new[f]] = <<>>
    /\ LET t == new[f]
           pending == migs[t] # <<>> IN
       /\ ~(retry[t] /\ pass[t] + 1 < Passes)
       /\ chan' = IF pending THEN Append(chan, t) ELSE chan
       /\ pc' = [pc EXCEPT ![t] = IF pending THEN "dma" ELSE @,
                           ![f] = IF retry[t] THEN "bug_busy" ELSE "unlock"]
       /\ new' = [new EXCEPT ![f] = None]
       /\ pass' = [pass EXCEPT ![t] = 0] /\ retry' = [retry EXCEPT ![t] = FALSE]
       /\ gone' = [gone EXCEPT ![t] = FALSE]
    /\ UNCHANGED <<region, desc, descs, slots, list, todo, migs, pages, contents, mm>>

\* The transfer is submitted; BUG_ON(nr_succeeded && nr_pending) comes before,
\* BUG_ON(err) after.  If no page is pending there is no transfer.
Transfer(f) ==
    /\ pc[f] = "move" /\ todo[new[f]] = <<>>
    /\ LET t == new[f]
           pending == migs[t] # <<>> IN
       /\ ~(retry[t] /\ pass[t] + 1 < Passes)
       /\ IF gone[t] /\ pending
          THEN Goto(f, "bug_retry") /\ UNCHANGED <<chan, new>>
          ELSE /\ chan' = IF pending THEN Append(chan, t) ELSE chan
               /\ pc' = [pc EXCEPT ![t] = IF pending THEN "dma" ELSE @,
                                   ![f] = IF retry[t] THEN "bug_busy" ELSE "unlock"]
               /\ new' = [new EXCEPT ![f] = None]
       /\ pass' = [pass EXCEPT ![t] = 0] /\ retry' = [retry EXCEPT ![t] = FALSE]
       /\ gone' = [gone EXCEPT ![t] = FALSE]
    /\ UNCHANGED <<region, desc, descs, slots, list, todo, migs, pages, contents, mm>>

-----------------------------------------------------------------------------
(***************************************************************************)
(* The transfer, its callback and dma_complete_work.                       *)
(***************************************************************************)
DmaDone ==
    /\ chan # <<>>
    /\ LET t == Head(chan) IN
       /\ same' = same \cup {migs[t][i].page : i \in DOMAIN migs[t]}
       /\ Goto(t, "callback")
    /\ chan' = Tail(chan)
    /\ UNCHANGED <<region, filling, moving, pages, lost, mm>>

\* dma_callback: the work is scheduled, and runs.
Callback(t) ==
    /\ pc[t] = "callback"
    /\ Goto(t, "remap")
    /\ UNCHANGED <<region, filling, moving, chan, pages, contents, mm>>

\* dma_complete_one: the entries get the new page, which goes to a pagevec.
Remap(t) ==
    /\ pc[t] = "remap" /\ migs[t] # <<>>
    /\ LET p == Head(migs[t]).page IN
       /\ mapped' = mapped \cup {p} /\ locked' = locked \ {p}
       /\ where' = [where EXCEPT ![p] = "pagevec"]
       /\ node' = [node EXCEPT ![p] = Head(migs[t]).node]
       /\ lost' = IF p \in same THEN lost ELSE lost \cup {p}
       /\ same' = same \ {p}
       /\ list' = [list EXCEPT ![t] = Without(@, p)]
    /\ migs' = [migs EXCEPT ![t] = Tail(@)]
    /\ UNCHANGED <<region, pc, filling, todo, pass, retry, gone, chan, other, mm>>

Remapped(t) ==
    /\ pc[t] = "remap" /\ migs[t] = <<>>
    /\ Goto(t, "report")
    /\ UNCHANGED <<region, filling, moving, chan, pages, contents, mm>>

\* As many requests as the table has are taken from the head of qissued.
Report(t) ==
    /\ pc[t] = "report" /\ descs[t] # <<>>
    /\ IF qissued = <<>>
       THEN Goto(t, "bug_desc") /\ UNCHANGED <<qissued, qcomp, descs>>
       ELSE /\ qcomp' = Append(qcomp, Head(qissued))
            /\ qissued' = Tail(qissued)
            /\ descs' = [descs EXCEPT ![t] = Tail(@)]
            /\ UNCHANGED pc
    /\ UNCHANGED <<free, qreq, color, desc, new, slots, moving, chan, pages, contents, mm>>

\* MUTANT: the loop over the requests ends one too early.
MutReported(t) ==
    /\ pc[t] = "report" /\ Len(descs[t]) <= 1
    /\ descs' = [descs EXCEPT ![t] = <<>>]
    /\ Goto(t, "look")
    /\ UNCHANGED <<region, desc, new, slots, moving, chan, pages, contents, mm>>

Reported(t) ==
    /\ pc[t] = "report" /\ descs[t] = <<>>
    /\ Goto(t, "look")
    /\ UNCHANGED <<region, filling, moving, chan, pages, contents, mm>>

\* MUTANT: the chain ends when it sees nothing to do, and keeps the colour.
MutLook(t) ==
    /\ pc[t] = "look"
    /\ IF color = KER /\ qreq # <<>>
       THEN Goto(t, "take") /\ UNCHANGED <<slots, list>>
       ELSE Goto(t, "free") /\ ClearTable(t)
    /\ UNCHANGED <<region, desc, new, descs, todo, migs, pass, retry, gone, chan, pages,
                   contents, mm>>

\* A queue of the kernel's colour is flushed with the reference of this chain.
Look(t) ==
    /\ pc[t] = "look"
    /\ IF color = KER
       THEN Goto(t, "take") /\ UNCHANGED <<slots, list>>
       ELSE Goto(t, "free") /\ ClearTable(t)
    /\ UNCHANGED <<region, desc, new, descs, todo, migs, pass, retry, gone, chan, pages,
                   contents, mm>>

-----------------------------------------------------------------------------
(***************************************************************************)
(* The rest of the kernel.                                                 *)
(***************************************************************************)
\* A reference comes through an entry; the lock with a reference.
Use(p, what) ==
    /\ p \in mapped /\ other[p] = "none"
    /\ other' = [other EXCEPT ![p] = what]
    /\ UNCHANGED <<region, pc, filling, moving, chan, where, node, mapped, locked, contents, mm>>
LetGo(p) ==
    /\ other[p] # "none"
    /\ other' = [other EXCEPT ![p] = "none"]
    /\ UNCHANGED <<region, pc, filling, moving, chan, where, node, mapped, locked, contents, mm>>

\* The pagevecs are drained to the lists.
Drain(p) ==
    /\ where[p] = "pagevec"
    /\ where' = [where EXCEPT ![p] = "lru"]
    /\ UNCHANGED <<region, pc, filling, moving, chan, node, other, mapped, locked, contents, mm>>

-----------------------------------------------------------------------------
FlushStep(f) ==
    \/ FlushTake(f) \/ FlushEmpty(f) \/ FlushIsolate(f) \/ FlushIssue(f) \/ FlushPaint(f)
    \/ FlushPut(f) \/ FlushUnlock(f)
    \/ PageGone(f) \/ TryAgain(f) \/ PagePending(f) \/ NextPass(f) \/ Transfer(f)

WorkStep(t) ==
    \/ Callback(t) \/ Remap(t) \/ Remapped(t) \/ Report(t) \/ Reported(t)
    \/ Look(t)

Program == (\E r \in Req : Submit(r)) \/ Collect \/ (\E p \in Page : Write(p)) \/ Exit

Kernel ==
    \/ \E p \in Busy : LetGo(p) \/ \E what \in {"ref", "lock"} : Use(p, what)
    \/ \E p \in Page : Drain(p)

Next ==
    \/ Program \/ Kick \/ DmaDone \/ Kernel
    \/ \E f \in Flusher : FlushStep(f)
    \/ \E t \in Table : WorkStep(t)

Spec == Init /\ [][Next]_vars

\* System calls, works and the DMA engine go on, and the program kicks when it has
\* to.  Nobody keeps a page lock, and lock_page gets it in the end.
FairSpec ==
    /\ Spec
    /\ WF_vars(Kick) /\ WF_vars(DmaDone)
    /\ \A f \in Flusher : SF_vars(FlushStep(f))
    /\ \A t \in Table : WF_vars(WorkStep(t))
    /\ \A p \in Busy : WF_vars(LetGo(p))

-----------------------------------------------------------------------------
(***************************************************************************)
(* Properties.                                                             *)
(***************************************************************************)
\* Every variable keeps its type: the labels of flush_single_qreq and of
\* do_dma_complete, the tables, and a transfer that fits its scatterlist.
TypeOK ==
    /\ free \in SUBSET Req /\ color \in {USR, KER}
    /\ qreq \in Seq(Req) /\ qissued \in Seq(Req) /\ qcomp \in Seq(Req)
    /\ pc \in [Flusher -> Labels]
    /\ desc \in [Flusher -> Req \cup {None}] /\ new \in [Flusher -> Table \cup {None}]
    /\ descs \in [Table -> Seq(Req)] /\ slots \in [Table -> Seq(Req)]
    /\ list \in [Table -> Seq(Page)] /\ todo \in [Table -> Seq(Page)]
    /\ migs \in [Table -> Seq(Mig)]
    /\ pass \in [Table -> Nat] /\ retry \in [Table -> BOOLEAN] /\ gone \in [Table -> BOOLEAN]
    /\ chan \in Seq(Table)
    /\ where \in [Page -> {"lru", "pagevec", "isolated"}] /\ node \in [Page -> Nodes]
    /\ other \in [Page -> {"none", "ref", "lock"}]
    /\ mapped \in SUBSET Page /\ locked \in SUBSET Page
    /\ same \in SUBSET Page /\ lost \in SUBSET Page
    /\ mmUsers \in Nat /\ alive \in BOOLEAN

\* The flushes and the transfers that have the chain's reference to the mm.
Holds(f) == pc[f] \in FlushLabels \cup TransferLabels
Bugged == \E f \in Flusher : pc[f] \in BugLabels
One(b) == IF b THEN 1 ELSE 0

\* The references to the mm are those of the program and of the flushes and the
\* transfers under way ("otherwise, the mm will be leaked (held forever)"); only
\* one of them is to go on, and a second one about to end.
MmAccounted ==
    ~Bugged =>
        /\ mmUsers = One(alive) + Cardinality({f \in Flusher : Holds(f)})
        /\ \A f, g \in Flusher :
              Holds(f) /\ Holds(g) /\ pc[f] # "put" /\ pc[g] # "put" => f = g

\* The colour found is the one expected ("no race condition exists: user won't
\* flush ... a COLOR_KER queue"), and a completed request is in qissued.
ColorsExpected == \A f \in Flusher : pc[f] \notin {"bug_color", "bug_desc"}

\* "The completed mig descs should be the ones on the head of issued queue."
HeadsMatch ==
    \A t \in Table : pc[t] \in TransferLabels =>
        Len(qissued) >= Len(descs[t]) /\ SubSeq(qissued, 1, Len(descs[t])) = descs[t]

\* A request that is reported has its pages on the node it asked for, mapped and
\* unlocked, although slots and pages are matched by their order alone.  BUG_ON(err)
\* of migrate_pages_ks2 comes after the transfer has been submitted, and nothing
\* stops that.
ReportedIsMoved ==
    ~Bugged => \A i \in DOMAIN qcomp : \A p \in Elems(PagesOf[qcomp[i]]) :
                    node[p] = NodeOf[qcomp[i]] /\ p \in mapped \ locked

\* The program reads what it wrote (the tests compare the pages after the move).
NothingLost == lost = {}

\* The mm does not go away while the driver uses it ("we'll put it in callback
\* (so that the mm won't go away)", if_write).
MmStays == \A f \in Flusher : Holds(f) \/ pc[f] = "unlock" => mmUsers > 0

\* Every request is reported in the end, unless the driver runs into a BUG().
ReportedUnlessBug ==
    \A r \in Req : r \in Elems(qreq) ~> r \in Elems(qcomp) \cup free \/ Bugged
=============================================================================
