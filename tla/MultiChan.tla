----------------------------- MODULE MultiChan -----------------------------
(***************************************************************************)
(* The driver that spreads every request over NR_DEVICES DMA channels.     *)
(*                                                                         *)
(* The channels are shared by all device files.  The pages of a request    *)
(* are cut into as many slices as there are channels, and each channel is  *)
(* given one.  The first request of a chain raises an interrupt on every   *)
(* channel; the callbacks run side by side, count down a global counter,   *)
(* and the one that brings it to zero completes the request and schedules  *)
(* the worker.  The requests of the worker raise no interrupt: it sleeps   *)
(* for a time guessed from their size, and then asks the channel of the    *)
(* device file for the status of transfer 0, which the dmaengine always    *)
(* gives as complete, wherever that channel and the others are.            *)
(*                                                                         *)
(* Each device has one user thread.  What user_flush and kernel_flush_work *)
(* do to the queues is one step here: that their steps do not interfere    *)
(* for one user is shown of Memif.  What a program that writes to a page   *)
(* in mid-migration loses is shown of PageMig.                             *)
(***************************************************************************)
EXTENDS Integers, Sequences, FiniteSets

CONSTANTS
    NR_DEVICES,  \* the number of channels, and of device files
    Device,      \* the device files in use
    Req,         \* the requests
    Count,       \* Count[r]: the pages of request r
    Ring,        \* the slices a channel has room for
    None         \* no request

Chan == 0 .. NR_DEVICES - 1
USR == 1   \* COLOR_USR
KER == 2   \* COLOR_KER

ASSUME MultiChanAssumption ==
    /\ NR_DEVICES \in Nat \ {0}
    /\ Ring \in Nat \ {0}
    /\ Count \in [Req -> Nat]
    /\ None \notin Req

VARIABLES
    free,     \* the requests the program may use
    queue,    \* queue[d]: qissued followed by qreq
    qcomp,    \* qcomp[d]
    color,    \* color[d]: the colour of qreq
    pc,       \* pc[d]: what is being done for device d
    job,      \* job[d]: the request being carried out
    irq,      \* irq[d]: whether it raises interrupts
    next,     \* next[d]: the next channel to be given a slice of it
    chan,     \* chan[c]: the slices submitted to channel c, oldest first
    raised,   \* raised[c]: the finished ones whose callback has not returned
    cbpc,     \* cbpc[c]: how far the callback of the first of them is
    seen,     \* seen[c]: the test_flag it has read
    counter,  \* my_counter
    flag,     \* test_flag
    copied    \* copied[r]: the pages of r that have been copied

queues == <<free, queue, qcomp, color>>
chains == <<pc, job, irq, next>>
softirqs == <<raised, cbpc, seen>>
globals == <<counter, flag>>
vars == <<queues, chains, chan, softirqs, globals, copied>>

\* "idle" to "kick" is the user's; "arm", "reset" and "submit" are the steps of
\* an issue, by the user or by the worker; "irq" waits for the callbacks.
Labels == {"idle", "kick", "arm", "reset", "submit", "bug", "irq", "work", "poll", "report"}
CallbackLabels == {"idle", "mark", "count", "finish"}

Piece == [dev : Device, req : Req, irq : BOOLEAN]

Pages(r) == 0 .. Count[r] - 1

\* each_chan_page_count
EachCount(n) == n \div NR_DEVICES

\* The pages of the scatterlist, of n entries, that channel c is given.
Slice(n, c) == c * EachCount(n) .. (c + 1) * EachCount(n) - 1

Init ==
    /\ free = Req
    /\ queue = [d \in Device |-> <<>>]
    /\ qcomp = [d \in Device |-> <<>>]
    /\ color = [d \in Device |-> USR]
    /\ pc = [d \in Device |-> "idle"]
    /\ job = [d \in Device |-> None]
    /\ irq = [d \in Device |-> FALSE]
    /\ next = [d \in Device |-> 0]
    /\ chan = [c \in Chan |-> <<>>]
    /\ raised = [c \in Chan |-> <<>>]
    /\ cbpc = [c \in Chan |-> "idle"]
    /\ seen = [c \in Chan |-> 0]
    /\ counter = 0 /\ flag = 0
    /\ copied = [r \in Req |-> {}]

Goto(d, label) == pc' = [pc EXCEPT ![d] = label]
Elems(s) == {s[i] : i \in DOMAIN s}
CallbackGoto(c, label) == cbpc' = [cbpc EXCEPT ![c] = label]

-----------------------------------------------------------------------------
(***************************************************************************)
(* The user thread of a device.                                            *)
(***************************************************************************)
\* The thread is not in a kick, and has not died in one.
UserRuns(d) == pc[d] # "kick" /\ (irq[d] => pc[d] \notin {"arm", "reset", "submit", "bug"})

\* A request that met the user's colour makes the thread kick the driver.
Submit(d, r) ==
    /\ UserRuns(d) /\ r \in free
    /\ free' = free \ {r}
    /\ queue' = [queue EXCEPT ![d] = Append(@, r)]
    /\ copied' = [copied EXCEPT ![r] = {}]
    /\ IF color[d] = USR THEN Goto(d, "kick") ELSE UNCHANGED pc
    /\ UNCHANGED <<qcomp, color, job, irq, next, chan, softirqs, globals>>

Collect(d) ==
    /\ UserRuns(d) /\ qcomp[d] # <<>>
    /\ qcomp' = [qcomp EXCEPT ![d] = Tail(@)]
    /\ free' = free \cup {Head(qcomp[d])}
    /\ UNCHANGED <<queue, color, chains, chan, softirqs, globals, copied>>

\* user_flush: the queue is emptied into qissued and repainted, and its first
\* request is issued with interrupts.
UserFlush(d) ==
    /\ pc[d] = "kick"
    /\ color' = [color EXCEPT ![d] = KER]
    /\ job' = [job EXCEPT ![d] = Head(queue[d])]
    /\ queue' = [queue EXCEPT ![d] = Tail(@)]
    /\ irq' = [irq EXCEPT ![d] = TRUE]
    /\ Goto(d, "arm")
    /\ UNCHANGED <<free, qcomp, next, chan, softirqs, globals, copied>>

-----------------------------------------------------------------------------
(***************************************************************************)
(* issue_one_desc_copy and issue_one_desc_mig.                             *)
(***************************************************************************)
\* MUTANT: the channel that finishes last is not counted.
MutArmLess(d) ==
    /\ pc[d] = "arm"
    /\ counter' = NR_DEVICES - 1
    /\ Goto(d, "reset")
    /\ UNCHANGED <<queues, job, irq, next, chan, softirqs, flag, copied>>

\* atomic_set(&my_counter, NR_DEVICES), with or without interrupts.
Arm(d) ==
    /\ pc[d] = "arm"
    /\ counter' = NR_DEVICES
    /\ Goto(d, "reset")
    /\ UNCHANGED <<queues, job, irq, next, chan, softirqs, flag, copied>>

\* MUTANT: the flag goes on counting from one request to the next.
MutReset(d) ==
    /\ pc[d] = "reset"
    /\ next' = [next EXCEPT ![d] = 0]
    /\ Goto(d, "submit")
    /\ UNCHANGED <<queues, job, irq, chan, softirqs, globals, copied>>

\* test_flag = 0
Reset(d) ==
    /\ pc[d] = "reset"
    /\ flag' = 0
    /\ next' = [next EXCEPT ![d] = 0]
    /\ Goto(d, "submit")
    /\ UNCHANGED <<queues, job, irq, chan, softirqs, counter, copied>>

RingIsFull(c) == Len(chan[c]) = Ring

\* One turn of the loop that submits the slices, channel by channel.
SubmitPiece(d) ==
    /\ pc[d] = "submit" /\ ~RingIsFull(next[d])
    /\ LET piece == [dev |-> d, req |-> job[d], irq |-> irq[d]] IN
       chan' = [chan EXCEPT ![next[d]] = Append(@, piece)]
    /\ next' = [next EXCEPT ![d] = @ + 1]
    /\ IF next[d] + 1 < NR_DEVICES THEN UNCHANGED pc ELSE Goto(d, IF irq[d] THEN "irq" ELSE "poll")
    /\ UNCHANGED <<queues, job, irq, softirqs, globals, copied>>

\* BUG_ON(!m_tx[i]): the channel has no room, and the channels before it have been
\* given their slices.
SubmitFull(d) ==
    /\ pc[d] = "submit" /\ RingIsFull(next[d])
    /\ Goto(d, "bug")
    /\ UNCHANGED <<queues, job, irq, next, chan, softirqs, globals, copied>>

-----------------------------------------------------------------------------
(***************************************************************************)
(* The channels, and the callbacks they raise.                             *)
(***************************************************************************)
\* A channel copies its slices in order.
ChannelCopies(c) ==
    /\ chan[c] # <<>>
    /\ LET piece == Head(chan[c]) IN
       /\ copied' = [copied EXCEPT ![piece.req] = @ \cup Slice(Count[piece.req], c)]
       /\ raised' = IF piece.irq THEN [raised EXCEPT ![c] = Append(@, piece)] ELSE raised
    /\ chan' = [chan EXCEPT ![c] = Tail(@)]
    /\ UNCHANGED <<queues, chains, cbpc, seen, globals>>

\* cmplet_time[test_flag++]: the flag is read, and written, without a lock.
CallbackStamp(c) ==
    /\ cbpc[c] = "idle" /\ raised[c] # <<>>
    /\ seen' = [seen EXCEPT ![c] = flag]
    /\ CallbackGoto(c, "mark")
    /\ UNCHANGED <<queues, chains, chan, raised, globals, copied>>

CallbackMark(c) ==
    /\ cbpc[c] = "mark"
    /\ flag' = seen[c] + 1
    /\ seen' = [seen EXCEPT ![c] = 0]
    /\ CallbackGoto(c, "count")
    /\ UNCHANGED <<queues, chains, chan, raised, counter, copied>>

\* MUTANT: the counter is tested before it is decremented, as a plain variable.
MutCallbackCount(c) ==
    /\ cbpc[c] = "count"
    /\ counter' = counter - 1
    /\ IF counter <= 2
       THEN CallbackGoto(c, "finish") /\ UNCHANGED raised
       ELSE CallbackGoto(c, "idle") /\ raised' = [raised EXCEPT ![c] = Tail(@)]
    /\ UNCHANGED <<queues, chains, chan, seen, flag, copied>>

\* atomic_dec_and_test(&my_counter)
CallbackCount(c) ==
    /\ cbpc[c] = "count"
    /\ counter' = counter - 1
    /\ IF counter = 1
       THEN CallbackGoto(c, "finish") /\ UNCHANGED raised
       ELSE CallbackGoto(c, "idle") /\ raised' = [raised EXCEPT ![c] = Tail(@)]
    /\ UNCHANGED <<queues, chains, chan, seen, flag, copied>>

\* MUTANT: the worker is not scheduled, as the commented-out lines have it.
MutCallbackFinish(c) ==
    /\ cbpc[c] = "finish"
    /\ LET piece == Head(raised[c]) IN
       /\ qcomp' = [qcomp EXCEPT ![piece.dev] = Append(@, piece.req)]
       /\ job' = [job EXCEPT ![piece.dev] = None]
       /\ Goto(piece.dev, "idle")
    /\ raised' = [raised EXCEPT ![c] = Tail(@)]
    /\ CallbackGoto(c, "idle")
    /\ UNCHANGED <<free, queue, color, irq, next, chan, seen, globals, copied>>

\* The last callback completes the request and schedules the worker.
CallbackFinish(c) ==
    /\ cbpc[c] = "finish"
    /\ LET piece == Head(raised[c]) IN
       /\ qcomp' = [qcomp EXCEPT ![piece.dev] = Append(@, piece.req)]
       /\ job' = [job EXCEPT ![piece.dev] = None]
       /\ Goto(piece.dev, "work")
    /\ raised' = [raised EXCEPT ![c] = Tail(@)]
    /\ CallbackGoto(c, "idle")
    /\ UNCHANGED <<free, queue, color, irq, next, chan, seen, globals, copied>>

-----------------------------------------------------------------------------
(***************************************************************************)
(* The worker: kernel_flush_work.                                          *)
(***************************************************************************)
\* The next request is issued, without interrupts; when there is none the colour
\* goes back to the user.
WorkPick(d) ==
    /\ pc[d] = "work"
    /\ irq' = [irq EXCEPT ![d] = FALSE]
    /\ IF queue[d] = <<>>
       THEN /\ color' = [color EXCEPT ![d] = USR]
            /\ Goto(d, "idle")
            /\ UNCHANGED <<queue, job>>
       ELSE /\ job' = [job EXCEPT ![d] = Head(queue[d])]
            /\ queue' = [queue EXCEPT ![d] = Tail(@)]
            /\ Goto(d, "arm")
            /\ UNCHANGED color
    /\ UNCHANGED <<free, qcomp, next, chan, softirqs, globals, copied>>

\* The sleep is over.  "are we done yet?": transfer 0 is complete, so the loop ends
\* with its first look.
WorkPoll(d) ==
    /\ pc[d] = "poll"
    /\ Goto(d, "report")
    /\ UNCHANGED <<queues, job, irq, next, chan, softirqs, globals, copied>>

WorkReport(d) ==
    /\ pc[d] = "report"
    /\ qcomp' = [qcomp EXCEPT ![d] = Append(@, job[d])]
    /\ job' = [job EXCEPT ![d] = None]
    /\ Goto(d, "work")
    /\ UNCHANGED <<free, queue, color, irq, next, chan, softirqs, globals, copied>>

-----------------------------------------------------------------------------
DriverStep(d) ==
    \/ UserFlush(d) \/ Arm(d) \/ Reset(d) \/ SubmitPiece(d) \/ SubmitFull(d)
    \/ WorkPick(d) \/ WorkPoll(d) \/ WorkReport(d)

CallbackStep(c) ==
    \/ CallbackStamp(c) \/ CallbackMark(c) \/ CallbackCount(c) \/ CallbackFinish(c)

Next ==
    \/ \E d \in Device : DriverStep(d) \/ Collect(d) \/ \E r \in Req : Submit(d, r)
    \/ \E c \in Chan : ChannelCopies(c) \/ CallbackStep(c)

Spec == Init /\ [][Next]_vars

\* The system calls, the worker, the channels and the softirqs go on; what the
\* program asks for and collects is up to the program.
FairSpec ==
    /\ Spec
    /\ \A d \in Device : WF_vars(DriverStep(d))
    /\ \A c \in Chan : WF_vars(ChannelCopies(c)) /\ WF_vars(CallbackStep(c))

-----------------------------------------------------------------------------
(***************************************************************************)
(* Properties.                                                             *)
(***************************************************************************)
\* Every variable keeps its type; the counter of the channels never goes below
\* zero nor above their number (atomic_set, atomic_dec_and_test).
TypeOK ==
    /\ free \in SUBSET Req
    /\ queue \in [Device -> Seq(Req)] /\ qcomp \in [Device -> Seq(Req)]
    /\ color \in [Device -> {USR, KER}]
    /\ pc \in [Device -> Labels]
    /\ job \in [Device -> Req \cup {None}] /\ irq \in [Device -> BOOLEAN]
    /\ next \in [Device -> 0 .. NR_DEVICES]
    /\ chan \in [Chan -> Seq(Piece)] /\ raised \in [Chan -> Seq(Piece)]
    /\ cbpc \in [Chan -> CallbackLabels]
    /\ seen \in [Chan -> Nat] /\ flag \in Nat
    /\ counter \in 0 .. NR_DEVICES
    /\ copied \in [Req -> SUBSET Nat]

\* The channels whose callback for a request with interrupts has yet to count.
Uncounted(d) ==
    {c \in Chan : \/ pc[d] \in {"submit", "bug"} /\ c >= next[d]
                  \/ \E i \in DOMAIN chan[c] : chan[c][i].irq
                  \/ raised[c] # <<>> /\ cbpc[c] # "finish"}

\* While a request with interrupts is under way my_counter is the number of the
\* channels that have still to be heard of (atomic_set in issue_one_desc_*,
\* atomic_dec_and_test in dma_callback_kthread); then nobody resets it.
CounterCounts ==
    \A d \in Device :
        irq[d] /\ pc[d] \in {"submit", "bug", "irq"} => counter = Cardinality(Uncounted(d))

\* The callback that completes a request finds all its pages copied, by all the
\* channels, and nothing of it left to do (dma_callback_kthread).
FinishedIsCopied ==
    \A c \in Chan : cbpc[c] = "finish" =>
        LET piece == Head(raised[c]) IN
        /\ job[piece.dev] = piece.req /\ pc[piece.dev] = "irq"
        /\ copied[piece.req] = Pages(piece.req)
        /\ \A e \in Chan \ {c} : raised[e] = <<>>

\* A callback writes its time into one of the NR_DEVICES slots of cmplet_time,
\* although the flag is read and written without a lock.
FlagInBounds == \A c \in Chan : cbpc[c] = "mark" => seen[c] < NR_DEVICES

\* What the driver reports to the program has been copied, whoever reports it
\* ("are we done yet?", "Okay: one desc completed" in kernel_flush_work).
ReportedIsCopied ==
    \A d \in Device : \A r \in Elems(qcomp[d]) : copied[r] = Pages(r)

\* A channel had no room for a slice.
Bug == \E d \in Device : pc[d] = "bug"

\* With one device the driver does what MemifService promises: requests are reported
\* once, in order, and every one of them in the end, unless BUG_ON(!m_tx[i]) ends the
\* kick or the chain.
TheDevice == CHOOSE d \in Device : TRUE
Current(d) == IF job[d] = None THEN <<>> ELSE <<job[d]>>
Service == INSTANCE MemifService
    WITH pending <- Current(TheDevice) \o queue[TheDevice], done <- qcomp[TheDevice]
ImplementsService == Service!Safety /\ (Service!Served \/ <>Bug)
=============================================================================
