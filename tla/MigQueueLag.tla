----------------------------- MODULE MigQueueLag -----------------------------
(***************************************************************************)
(* How far behind a thread's checkpoints are.  The queues trust a counter  *)
(* of 16 bits to tell the value a thread has read from a later one with    *)
(* the same index; this module counts, beside the behaviour of MigQueue,   *)
(* the steps each checkpoint has missed, and marks the step in which that  *)
(* trust first fails.  The variables below are history variables: no step  *)
(* of MigQueue reads them, and every behaviour of MigQueue is one of       *)
(* LagSpec.                                                                *)
(***************************************************************************)
EXTENDS MigQueue

VARIABLES
    headLag,    \* steps of the head of its queue since a thread has read it
    tailLag,    \* steps of the tail of its queue since a thread has read it
    topLag,     \* steps of the freelist's counter since the top a thread has read got its number
    age,        \* steps of the freelist's counter since a descriptor got its number
    gone,       \* the tail a thread has read has been retired since
    strayed     \* some swap has taken a recycled link for the one its thread had read

lags == <<headLag, tailLag, topLag, age, gone, strayed>>

LagInit ==
    /\ headLag = [t \in Thread |-> 0]
    /\ tailLag = [t \in Thread |-> 0]
    /\ topLag = [t \in Thread |-> 0]
    /\ age = [n \in Node |-> NDescs - 1 - n]
    /\ gone = [t \in Thread |-> FALSE]
    /\ strayed = FALSE

\* t takes its access at one of these labels.
Leaves(t, labels) == pc[t] \in labels /\ pc'[t] # pc[t]
HeadMoves(q) == q \in Queue /\ head'[q] # head[q]
TailMoves(q) == q \in Queue /\ tail'[q] # tail[q]
Older(n) == IF aba' # aba THEN n + 1 ELSE n

\* The swap of a link succeeds although the descriptor has been retired since the
\* link was read: its counter holds the old value again.  In mig_enqueue it is the
\* link of the tail, in migqueue_set_color_if_empty that of the head.
Strays ==
    \E t \in Thread :
       \/ pc[t] = "enq_link" /\ pc'[t] = "enq_swing" /\ gone[t]
       \/ pc[t] = "paint_cas" /\ pc'[t] = "idle" /\ headLag[t] # 0

LagNext ==
    /\ headLag' = [t \in Thread |->
         IF Leaves(t, {"deq_head", "paint_head"}) THEN 0
         ELSE IF HeadMoves(frame[t].queue) THEN headLag[t] + 1 ELSE headLag[t]]
    /\ tailLag' = [t \in Thread |->
         IF Leaves(t, {"enq_tail", "deq_tail", "paint_tail"}) THEN 0
         ELSE IF TailMoves(frame[t].queue) THEN tailLag[t] + 1 ELSE tailLag[t]]
    /\ topLag' = [t \in Thread |->
         IF Leaves(t, {"pop_top"}) /\ top.index # BADINDEX THEN age[top.index]
         ELSE Older(topLag[t])]
    /\ age' = [n \in Node |->
         IF \E t \in Thread : Leaves(t, {"push_count"}) /\ frame[t].desc = n THEN 0
         ELSE Older(age[n])]
    /\ gone' = [t \in Thread |->
         /\ ~Leaves(t, {"enq_tail"})
         /\ \/ gone[t]
            \/ \E q \in Queue : HeadMoves(q) /\ head[q].index = frame[t].tail.index]
    /\ strayed' = (strayed \/ Strays)

LagSpec == Init /\ LagInit /\ [][Next /\ LagNext]_<<vars, lags>>

-----------------------------------------------------------------------------
(***************************************************************************)
(* The condition the width of the counters puts on the callers.            *)
(***************************************************************************)

\* Where a thread still goes by the head, the tail or the top it has read.
HoldsHead(t) ==
    \/ pc[t] \in {"deq_tail", "deq_next", "deq_check", "deq_help", "deq_copy", "deq_cas"}
    \/ pc[t] \in {"pop_top", "pop_next", "pop_cas"} /\ frame[t].back = "deq"
HoldsTail(t) ==
    pc[t] \in {"enq_next", "enq_check", "enq_link", "enq_help", "enq_swing",
               "deq_next", "deq_check", "deq_help"}
HoldsTop(t) == pc[t] \in {"pop_next", "pop_cas"}

\* No counter goes once round while a thread goes by a value it has read:
\* with 16 bits, fewer than 65536 operations of others within one call.
Timely ==
    \A t \in Thread :
       /\ HoldsHead(t) => headLag[t] < CountMod
       /\ HoldsTail(t) => tailLag[t] < CountMod
       /\ HoldsTop(t) => topLag[t] < CountMod
=============================================================================
