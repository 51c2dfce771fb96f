------------------------------- MODULE Memif -------------------------------
(***************************************************************************)
(* One memif device: user threads that submit requests and kick the        *)
(* driver, and the driver that carries them out with a DMA channel.        *)
(*                                                                         *)
(* A request goes from the freelist to qreq (the user appends it), to      *)
(* qissued (user_flush moves it there, in the kick), to the DMA channel,   *)
(* to qcomp and back to the user.  The colour of qreq says who has to move *)
(* requests out of it: a user whose request was appended under the user's  *)
(* colour kicks the driver, which repaints the queue and starts a chain:   *)
(* one transfer that raises an interrupt, whose softirq schedules          *)
(* kernel_flush_work, which carries out request after request by itself    *)
(* until it finds the queues empty and gives the colour back.              *)
(*                                                                         *)
(* The worker does not know when a transfer is done: it sleeps for a time  *)
(* guessed from the size of the request, and then asks the channel for the *)
(* status of transfer 0, which the dmaengine always gives as complete.     *)
(* Transfers may so pile up in the channel, and a full one ends in BUG().  *)
(*                                                                         *)
(* The queues are those of ColorQueue, each operation one step; a request  *)
(* keeps its name although mig_dequeue returns it in another descriptor.   *)
(***************************************************************************)
EXTENDS Naturals, Sequences, FiniteSets

CONSTANTS
    User,   \* the user threads of the device
    Req,    \* the requests a region has descriptors for
    Table,  \* the mig_tables, one for each chain
    Ring,   \* the transfers the channel has room for
    None    \* no request

USR == 1   \* COLOR_USR
KER == 2   \* COLOR_KER

ASSUME MemifAssumption == None \notin Req /\ Ring \in Nat \ {0}

VARIABLES
    free,       \* the requests in the freelist
    qreq, qissued, qcomp,
    color,      \* the colour of qreq
    upc,        \* upc[u]: what user thread u does next
    held,       \* held[u]: the request u has dequeued inside user_flush
    triggered,  \* the poll()ing threads that have been woken since they looked
    chan,       \* the transfers in the DMA channel, oldest first
    tpc,        \* tpc[t]: how far the chain of table t is
    treq        \* treq[t]: the request it is carrying out

queues == <<free, qreq, qissued, qcomp, color>>
users == <<upc, held, triggered>>
chains == <<tpc, treq>>
vars == <<free, qreq, qissued, qcomp, color, upc, held, triggered, chan, tpc, treq>>

UserLabels == {"idle", "kick", "drain", "move", "paint", "pick", "issue", "poll", "asleep", "bug",
               "full"}
TableLabels == {"free", "dma", "callback", "notify", "work", "scan", "look", "take",
                "repaint", "start", "full", "wait", "post", "wake"}

\* A transfer carries out a request of a chain; only the first one of a chain
\* raises an interrupt.
Transfer == [req : Req, table : Table, irq : BOOLEAN]

Init ==
    /\ free = Req
    /\ qreq = <<>> /\ qissued = <<>> /\ qcomp = <<>>
    /\ color = USR
    /\ upc = [u \in User |-> "idle"]
    /\ held = [u \in User |-> None]
    /\ triggered = {}
    /\ chan = <<>>
    /\ tpc = [t \in Table |-> "free"]
    /\ treq = [t \in Table |-> None]

UserGoto(u, label) == upc' = [upc EXCEPT ![u] = label]
TableGoto(t, label) == tpc' = [tpc EXCEPT ![t] = label]

-----------------------------------------------------------------------------
(***************************************************************************)
(* The user side.                                                          *)
(***************************************************************************)
\* MUTANT: every request kicks the driver, whatever colour it met.
MutSubmit(u, r) ==
    /\ upc[u] = "idle" /\ r \in free
    /\ free' = free \ {r}
    /\ qreq' = Append(qreq, r)
    /\ UserGoto(u, "kick")
    /\ UNCHANGED <<qissued, qcomp, color, held, triggered, chan, chains>>

\* memif_start_replication: the colour the request was appended under decides
\* whether this thread has to kick the driver.
Submit(u, r) ==
    /\ upc[u] = "idle" /\ r \in free
    /\ free' = free \ {r}
    /\ qreq' = Append(qreq, r)
    /\ UserGoto(u, IF color = USR THEN "kick" ELSE "idle")
    /\ UNCHANGED <<qissued, qcomp, color, held, triggered, chan, chains>>

\* A completed request is taken from qcomp and its descriptor freed.
Collect(u) ==
    /\ upc[u] = "idle" /\ qcomp # <<>>
    /\ qcomp' = Tail(qcomp)
    /\ free' = free \cup {Head(qcomp)}
    /\ UNCHANGED <<qreq, qissued, color, users, chan, chains>>

\* poll(): poll_wait puts the thread on the wait queue before if_poll looks at
\* qcomp.  A program polls when it has a request outstanding.
PollBegin(u) ==
    /\ upc[u] = "idle" /\ free # Req
    /\ UserGoto(u, "poll")
    /\ triggered' = triggered \ {u}
    /\ UNCHANGED <<queues, held, chan, chains>>

\* migqueue_is_empty compares the ends of the queue: a request that has been
\* linked, and whose sender has not moved the tail yet, does not show.
LooksEmpty ==
    \/ qcomp = <<>>
    \/ Len(qcomp) = 1 /\ \E t \in Table : tpc[t] \in {"notify", "wake"}

PollLook(u) ==
    /\ upc[u] = "poll"
    /\ \/ qcomp # <<>> /\ UserGoto(u, "idle")
       \/ LooksEmpty /\ UserGoto(u, "asleep")
    /\ UNCHANGED <<queues, held, triggered, chan, chains>>

PollWoken(u) ==
    /\ upc[u] = "asleep" /\ u \in triggered
    /\ triggered' = triggered \ {u}
    /\ UserGoto(u, "poll")
    /\ UNCHANGED <<queues, held, chan, chains>>

\* wake_up_interruptible on the wait queue of the device.
WakePollers == triggered' = triggered \cup {u \in User : upc[u] \in {"poll", "asleep"}}

-----------------------------------------------------------------------------
(***************************************************************************)
(* The kick: if_write calls user_flush in the context of the user thread.  *)
(***************************************************************************)
Kick(u) ==
    /\ upc[u] = "kick"
    /\ UserGoto(u, "drain")
    /\ UNCHANGED <<queues, held, triggered, chan, chains>>

FlushTake(u) ==
    /\ upc[u] = "drain"
    /\ IF qreq = <<>>
       THEN UserGoto(u, "paint") /\ UNCHANGED <<qreq, held>>
       ELSE /\ held' = [held EXCEPT ![u] = Head(qreq)]
            /\ qreq' = Tail(qreq)
            /\ UserGoto(u, "move")
    /\ UNCHANGED <<free, qissued, qcomp, color, triggered, chan, chains>>

FlushMove(u) ==
    /\ upc[u] = "move"
    /\ qissued' = Append(qissued, held[u])
    /\ held' = [held EXCEPT ![u] = None]
    /\ UserGoto(u, "drain")
    /\ UNCHANGED <<free, qreq, qcomp, color, triggered, chan, chains>>

\* The queue is repainted only while it is empty.  If it had the kernel's colour
\* already, another user has started the chain.
FlushPaint(u) ==
    /\ upc[u] = "paint"
    /\ color' = IF qreq = <<>> THEN KER ELSE color
    /\ UserGoto(u, CASE qreq # <<>> -> "drain"
                     [] qreq = <<>> /\ color = KER -> "idle"
                     [] OTHER -> "pick")
    /\ UNCHANGED <<free, qreq, qissued, qcomp, held, triggered, chan, chains>>

\* BUG_ON(!desc): the user that has repainted the queue expects a request.
FlushPick(u) ==
    /\ upc[u] = "pick"
    /\ IF qissued = <<>>
       THEN UserGoto(u, "bug") /\ UNCHANGED <<qissued, held>>
       ELSE /\ held' = [held EXCEPT ![u] = Head(qissued)]
            /\ qissued' = Tail(qissued)
            /\ UserGoto(u, "issue")
    /\ UNCHANGED <<free, qreq, qcomp, color, triggered, chan, chains>>

\* issue_one_desc_copy: the request becomes one transfer, submitted to the channel
\* behind the others if device_prep_dma_sg finds room for it; BUG_ON(!tx) otherwise.
RingIsFull == Len(chan) = Ring
\* MUTANT: every transfer raises an interrupt, whatever do_irq says.
MutIssue(r, t, do_irq) ==
    /\ ~RingIsFull
    /\ chan' = Append(chan, [req |-> r, table |-> t, irq |-> TRUE])
Issue(r, t, do_irq) ==
    /\ ~RingIsFull
    /\ chan' = Append(chan, [req |-> r, table |-> t, irq |-> do_irq])

\* A table is allocated for the new chain.
FlushIssue(u, t) ==
    /\ upc[u] = "issue" /\ tpc[t] = "free"
    /\ Issue(held[u], t, TRUE)
    /\ treq' = [treq EXCEPT ![t] = held[u]]
    /\ held' = [held EXCEPT ![u] = None]
    /\ TableGoto(t, "dma")
    /\ UserGoto(u, "idle")
    /\ UNCHANGED <<queues, triggered>>

FlushFull(u) ==
    /\ upc[u] = "issue" /\ RingIsFull
    /\ UserGoto(u, "full")
    /\ UNCHANGED <<queues, held, triggered, chan, chains>>

-----------------------------------------------------------------------------
(***************************************************************************)
(* The DMA channel, and the softirq it raises.                             *)
(***************************************************************************)
\* The channel carries out its transfers in order.
DmaDone ==
    /\ chan # <<>>
    /\ chan' = Tail(chan)
    /\ tpc' = IF Head(chan).irq THEN [tpc EXCEPT ![Head(chan).table] = "callback"] ELSE tpc
    /\ UNCHANGED <<queues, users, treq>>

\* dma_callback_kthread: report the request, wake the pollers, schedule the work.
CallbackPost(t) ==
    /\ tpc[t] = "callback"
    /\ qcomp' = Append(qcomp, treq[t])
    /\ treq' = [treq EXCEPT ![t] = None]
    /\ TableGoto(t, "notify")
    /\ UNCHANGED <<free, qreq, qissued, color, users, chan>>

\* MUTANT: wake_up_interruptible is left out of the softirq.
MutCallbackNotify(t) ==
    /\ tpc[t] = "notify"
    /\ TableGoto(t, "work")
    /\ UNCHANGED <<queues, users, chan, treq>>

CallbackNotify(t) ==
    /\ tpc[t] = "notify"
    /\ WakePollers
    /\ TableGoto(t, "work")
    /\ UNCHANGED <<queues, upc, held, chan, treq>>

-----------------------------------------------------------------------------
(***************************************************************************)
(* The worker: kernel_flush_work.                                          *)
(***************************************************************************)
WorkBegin(t) ==
    /\ tpc[t] = "work"
    /\ TableGoto(t, "scan")
    /\ UNCHANGED <<queues, users, chan, treq>>

WorkScan(t) ==
    /\ tpc[t] = "scan"
    /\ IF qissued = <<>>
       THEN TableGoto(t, "look") /\ UNCHANGED <<qissued, treq>>
       ELSE /\ treq' = [treq EXCEPT ![t] = Head(qissued)]
            /\ qissued' = Tail(qissued)
            /\ TableGoto(t, "start")
    /\ UNCHANGED <<free, qreq, qcomp, color, users, chan>>

\* MUTANT: the colours of the test are swapped.
MutWorkLook(t) ==
    /\ tpc[t] = "look"
    /\ TableGoto(t, IF color = KER THEN "free" ELSE "take")
    /\ UNCHANGED <<queues, users, chan, treq>>

\* migqueue_color: a queue of the user's colour is not the worker's to touch.
WorkLook(t) ==
    /\ tpc[t] = "look"
    /\ TableGoto(t, IF color = USR THEN "free" ELSE "take")
    /\ UNCHANGED <<queues, users, chan, treq>>

\* MUTANT: the worker reads the head of the queue and does not remove it.
MutWorkTake(t) ==
    /\ tpc[t] = "take"
    /\ IF qreq = <<>>
       THEN TableGoto(t, "repaint") /\ UNCHANGED treq
       ELSE treq' = [treq EXCEPT ![t] = Head(qreq)] /\ TableGoto(t, "start")
    /\ UNCHANGED <<queues, users, chan>>

WorkTake(t) ==
    /\ tpc[t] = "take"
    /\ IF qreq = <<>>
       THEN TableGoto(t, "repaint") /\ UNCHANGED <<qreq, treq>>
       ELSE /\ treq' = [treq EXCEPT ![t] = Head(qreq)]
            /\ qreq' = Tail(qreq)
            /\ TableGoto(t, "start")
    /\ UNCHANGED <<free, qissued, qcomp, color, users, chan>>

\* MUTANT: the colour goes back without a look at the queue.
MutRepaintBlind(t) ==
    /\ tpc[t] = "repaint"
    /\ color' = USR
    /\ TableGoto(t, "free")
    /\ UNCHANGED <<free, qreq, qissued, qcomp, users, chan, treq>>

\* MUTANT: the break after the repainting is missing.
MutRepaintOn(t) ==
    /\ tpc[t] = "repaint"
    /\ color' = IF qreq = <<>> THEN USR ELSE color
    /\ TableGoto(t, "scan")
    /\ UNCHANGED <<free, qreq, qissued, qcomp, users, chan, treq>>

\* The colour goes back to the user, unless a request has come in meanwhile.
WorkRepaint(t) ==
    /\ tpc[t] = "repaint"
    /\ color' = IF qreq = <<>> THEN USR ELSE color
    /\ TableGoto(t, IF qreq = <<>> THEN "free" ELSE "scan")
    /\ UNCHANGED <<free, qreq, qissued, qcomp, users, chan, treq>>

WorkStart(t) ==
    /\ tpc[t] = "start"
    /\ Issue(treq[t], t, FALSE)
    /\ TableGoto(t, "wait")
    /\ UNCHANGED <<queues, users, treq>>

WorkFull(t) ==
    /\ tpc[t] = "start" /\ RingIsFull
    /\ TableGoto(t, "full")
    /\ UNCHANGED <<queues, users, chan, treq>>

\* The sleep is over, and the status of transfer 0 is always DMA_COMPLETE: the loop
\* ends with its first look, wherever the channel is, and BUG_ON(i == 10) is never
\* reached.
WorkWait(t) ==
    /\ tpc[t] = "wait"
    /\ TableGoto(t, "post")
    /\ UNCHANGED <<queues, users, chan, treq>>

\* MUTANT: the worker forgets to report the request.
MutWorkPost(t) ==
    /\ tpc[t] = "post"
    /\ treq' = [treq EXCEPT ![t] = None]
    /\ TableGoto(t, "wake")
    /\ UNCHANGED <<queues, users, chan>>

WorkPost(t) ==
    /\ tpc[t] = "post"
    /\ qcomp' = Append(qcomp, treq[t])
    /\ treq' = [treq EXCEPT ![t] = None]
    /\ TableGoto(t, "wake")
    /\ UNCHANGED <<free, qreq, qissued, color, users, chan>>

\* MUTANT: wake_up_interruptible is left out of the worker.
MutWorkWake(t) ==
    /\ tpc[t] = "wake"
    /\ TableGoto(t, "scan")
    /\ UNCHANGED <<queues, users, chan, treq>>

WorkWake(t) ==
    /\ tpc[t] = "wake"
    /\ WakePollers
    /\ TableGoto(t, "scan")
    /\ UNCHANGED <<queues, upc, held, chan, treq>>

-----------------------------------------------------------------------------
InKick(u) ==
    \/ Kick(u) \/ FlushTake(u) \/ FlushMove(u) \/ FlushPaint(u) \/ FlushPick(u)
    \/ FlushFull(u)
    \/ \E t \in Table : FlushIssue(u, t)

UserStep(u) ==
    \/ \E r \in Req : Submit(u, r)
    \/ Collect(u) \/ PollBegin(u) \/ PollLook(u) \/ PollWoken(u)
    \/ InKick(u)

TableStep(t) ==
    \/ CallbackPost(t) \/ CallbackNotify(t)
    \/ WorkBegin(t) \/ WorkScan(t) \/ WorkLook(t) \/ WorkTake(t) \/ WorkRepaint(t)
    \/ WorkStart(t) \/ WorkFull(t) \/ WorkWait(t) \/ WorkPost(t) \/ WorkWake(t)

Next ==
    \/ \E u \in User : UserStep(u)
    \/ \E t \in Table : TableStep(t)
    \/ DmaDone

Spec == Init /\ [][Next]_vars

\* The kernel runs what is runnable: a system call that has begun, the DMA
\* engine, a softirq that is pending, a work that is scheduled, a thread that
\* has been woken.  What a program does next is up to the program.
Fairness ==
    /\ \A u \in User : WF_vars(InKick(u)) /\ WF_vars(PollLook(u)) /\ WF_vars(PollWoken(u))
    /\ \A t \in Table : WF_vars(TableStep(t))
    /\ WF_vars(DmaDone)

FairSpec == Spec /\ Fairness

-----------------------------------------------------------------------------
(***************************************************************************)
(* Properties of any number of users.                                      *)
(***************************************************************************)
\* Every variable keeps its type: the driver's states and the requests in its
\* queues (user_flush, dma_callback_kthread, kernel_flush_work).
TypeOK ==
    /\ free \in SUBSET Req
    /\ qreq \in Seq(Req) /\ qissued \in Seq(Req) /\ qcomp \in Seq(Req)
    /\ color \in {USR, KER}
    /\ upc \in [User -> UserLabels]
    /\ held \in [User -> Req \cup {None}]
    /\ \A u \in User : held[u] # None <=> upc[u] \in {"move", "issue", "full"}
    /\ triggered \in SUBSET User
    /\ chan \in Seq(Transfer)
    /\ tpc \in [Table -> TableLabels]
    /\ treq \in [Table -> Req \cup {None}]
    /\ \A t \in Table : treq[t] # None <=> tpc[t] \in {"dma", "callback", "start", "full", "wait", "post"}

InQueue(q, r) == {i \in DOMAIN q : q[i] = r}

\* A request is never lost and never issued twice: it is in one place of the
\* pipeline, however the kicks of several users and the chains they start
\* interleave.
OnePlace ==
    \A r \in Req :
        Cardinality(InQueue(qreq, r)) + Cardinality(InQueue(qissued, r))
            + Cardinality(InQueue(qcomp, r)) + Cardinality(free \cap {r})
            + Cardinality({u \in User : held[u] = r})
            + Cardinality({t \in Table : treq[t] = r}) = 1

\* The request that starts a chain is carried out before it is reported: when its
\* softirq runs, no transfer of it is in the channel any more, though the transfers
\* an earlier chain has reported already may still be there, and though the request
\* itself may have been reported early before and submitted again.  For the other
\* requests of a chain nothing of the kind holds: see WorkWait.
InterruptedIsDone ==
    \A t \in Table : tpc[t] = "callback" => \A i \in DOMAIN chan : chan[i].req # treq[t]

\* No wakeup is lost: a thread asleep in poll() while there is a completion to
\* collect has been woken or is about to be (poll_wait comes before the look,
\* wake_up_interruptible after the mig_enqueue).
NoLostWakeup ==
    \A u \in User :
        upc[u] = "asleep" /\ qcomp # <<>> =>
            u \in triggered \/ \E t \in Table : tpc[t] \in {"notify", "wake"}

-----------------------------------------------------------------------------
(***************************************************************************)
(* Properties of the colouring protocol.                                   *)
(***************************************************************************)
Active(t) == tpc[t] # "free"

\* user_flush from its first mig_dequeue to the request it issues, and
\* kernel_flush_work from its first mig_dequeue to its return.
UserFlushes(u) == upc[u] \in {"drain", "move", "paint", "pick", "issue", "full"}
KernelFlushes(t) ==
    tpc[t] \in {"scan", "look", "take", "repaint", "start", "full", "wait", "post", "wake"}

\* The BUG_ON(!desc) of user_flush does not happen: the user that repaints qreq
\* finds a request in qissued.
NoBug == \A u \in User : upc[u] # "bug"

\* "Due to queue coloring, user and kernel will never concurrently flush request
\* queue into the issued queue" (do_dma_complete, dma_callback_noremap).
NeverConcurrentFlush == \A u \in User, t \in Table : ~(UserFlushes(u) /\ KernelFlushes(t))

\* The kernel's colour means that some chain is responsible for the queue, or a
\* user about to start one: one chain at a time, and never a queue that is the
\* kernel's with no one in the kernel to look at it.
ChainOwnsColor ==
    /\ color = KER <=> \/ \E t \in Table : Active(t)
                       \/ \E u \in User : upc[u] \in {"pick", "issue", "bug", "full"}
    /\ \A s, t \in Table : Active(s) /\ Active(t) => s = t

\* No request is left behind: when the queue has the user's colour and no user
\* is in a kick, nothing waits in qreq or qissued for the driver.
NoStranded ==
    color = USR /\ (\A u \in User : upc[u] \in {"idle", "poll", "asleep"}) =>
        qreq = <<>> /\ qissued = <<>>

\* BUG_ON(!tx) has ended a kick or a chain.
Full == (\E u \in User : upc[u] = "full") \/ (\E t \in Table : tpc[t] = "full")

\* A thread that sleeps in poll() while requests are outstanding is woken, unless
\* the channel had no room for a transfer.
SleeperWoken == \A u \in User : upc[u] = "asleep" ~> (upc[u] # "asleep" \/ Full)

-----------------------------------------------------------------------------
\* The one request that a user holds at some label, or a chain holds.
HeldAt(labels) ==
    IF \E u \in User : upc[u] \in labels
    THEN <<held[CHOOSE u \in User : upc[u] \in labels]>> ELSE <<>>
InChain ==
    IF \E t \in Table : treq[t] # None
    THEN <<treq[CHOOSE t \in Table : treq[t] # None]>> ELSE <<>>

\* The service seen by a program: the pipeline from the chain back to qreq.
Service == INSTANCE MemifService WITH
    pending <- InChain \o HeldAt({"issue", "full"}) \o qissued \o HeldAt({"move"}) \o qreq,
    done <- qcomp

\* With one user the device implements the service: each request is reported once,
\* in the order of submission ("all mig descs in a region are processed FIFO"), and
\* every one of them in the end, unless the channel had no room for a transfer.
ImplementsService == Service!Safety /\ (Service!Served \/ <>Full)
=============================================================================
