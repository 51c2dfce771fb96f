------------------------------ MODULE MigQueue ------------------------------
(***************************************************************************)
(* The lock-free structures of libsmm/migqueue.c: the descriptors of one   *)
(* shared region, their freelist (a stack), and the coloured queues built  *)
(* from them.  A step is one access to a shared word: a load, a store to a *)
(* descriptor the thread owns, or a compare-and-swap.  Memory is           *)
(* sequentially consistent: every commit in the code is a full-barrier     *)
(* __sync builtin, and loads are separated by LFDS611_BARRIER_LOAD.        *)
(*                                                                         *)
(* One word per descriptor, its next link, serves both structures: while   *)
(* the descriptor is free it is the link of the stack, while it is queued  *)
(* it is the link of the queue, with the same counter field in both.       *)
(*                                                                         *)
(* A thread is any caller of the library, in user space or in the driver.  *)
(* Which calls it may make, and how many, are parameters.                  *)
(***************************************************************************)
EXTENDS Naturals, Sequences, FiniteSets

CONSTANTS
    Thread,      \* the threads that use the region
    NDescs,      \* region->ndescs
    QueueColor,  \* one entry for each queue: the colour it is created with
    Color,       \* the values of color_t
    StackColor,  \* what an uninitialised color field on the stack may hold
    CountMod,    \* 2^16: the ABA counter of a link is a uint16_t
    CanAlloc,    \* threads that take descriptors from the freelist
    CanFree,     \* threads that return descriptors to it
    CanEnqueue,  \* <<t, q>>: t calls mig_enqueue on q
    CanDequeue,  \* <<t, q>>: t calls mig_dequeue on q
    CanPaint,    \* <<t, q, c>>: t calls migqueue_set_color_if_empty(q, c)
    Calls,       \* Calls[t]: how many calls t makes (a bound of the model)
    NoResult     \* a thread that has finished no call

BADINDEX == 65535
Node == 0 .. NDescs - 1
Index == Node \cup {BADINDEX}
Queue == 1 .. Len(QueueColor)

ASSUME QueueAssumption ==
    /\ NDescs \in Nat /\ CountMod \in Nat \ {0}
    /\ Color \subseteq Nat /\ 0 \in Color
    /\ StackColor \subseteq Color /\ StackColor # {}
    /\ QueueColor \in Seq(Color)
    /\ Len(QueueColor) < NDescs /\ NDescs <= BADINDEX
    /\ NDescs < CountMod  \* an index is no wider than a counter
    /\ CanAlloc \subseteq Thread /\ CanFree \subseteq Thread
    /\ CanEnqueue \subseteq Thread \X Queue
    /\ CanDequeue \subseteq Thread \X Queue
    /\ CanPaint \subseteq Thread \X Queue \X Color
    /\ Calls \in [Thread -> Nat]

\* desc_ptr.  The head and tail of a queue carry a colour too, which nothing
\* reads; leaving it out only makes the compare-and-swaps on them weaker.
Count == 0 .. CountMod - 1
Link == [index : Index, count : Count, color : Color]
Ptr == [index : Index, count : Count]
NoPtr == [index |-> BADINDEX, count |-> 0]
NoLink == [index |-> BADINDEX, count |-> 0, color |-> 0]
\* Mutant: the counter is wider than the field.
MutBump(n) == n + 1
Bump(n) == (n + 1) % CountMod

\* What a descriptor asks for (word0 and word1): the call that filled it.
NoItem == <<>>
Item == UNION {{t} \X (1 .. Calls[t]) : t \in Thread}

VARIABLES
    next,    \* next[n]: the link word of descriptor n
    word,    \* word[n]: the request in descriptor n
    head,    \* head[q], tail[q]: the ends of queue q
    tail,
    top,     \* freelist.top
    aba,     \* freelist.aba_counter
    pc,      \* pc[t]: the next access of t, "idle" between calls
    frame,   \* frame[t]: the local variables of the call t is in
    hand,    \* hand[t]: the descriptor the caller t holds between calls
    calls,   \* calls[t]: how many calls t has begun
    result,  \* result[t]: what the last committed operation of t returned
    seen     \* seen[t]: the queue of this call was empty at some time since it began

shared == <<next, word, head, tail, top, aba>>
local == <<pc, frame, hand, calls, result>>
vars == <<next, word, head, tail, top, aba, pc, frame, hand, calls, result, seen>>

-----------------------------------------------------------------------------
(***************************************************************************)
(* The queue and the freelist that the links spell out.                    *)
(***************************************************************************)
Follow(j) == IF j = BADINDEX THEN BADINDEX ELSE next[j].index

\* The descriptors reached from index i in at most NDescs links.
Walk(i) ==
    LET at[k \in 0 .. NDescs] == IF k = 0 THEN i ELSE Follow(at[k - 1])
        len == Cardinality({k \in 0 .. NDescs - 1 : at[k] # BADINDEX})
    IN  [k \in 1 .. len |-> at[k - 1]]

\* The queued descriptors of q: the head itself is a dummy.
Queued(q) == Walk(next[head[q].index].index)
Items(q) == LET nodes == Queued(q) IN [k \in DOMAIN nodes |-> word[nodes[k]]]
LastNode(q) == LET nodes == Walk(head[q].index) IN nodes[Len(nodes)]
LinkColor(q) == next[LastNode(q)].color
Free == Walk(top.index)

-----------------------------------------------------------------------------
(***************************************************************************)
(* Initial state: init_migregion.  freelist_init pushes descriptors 0, 1,  *)
(* ..., each under the next value of the counter; then every queue pops    *)
(* its dummy.  The counters of head and tail start as the zeroes of a      *)
(* fresh page.                                                             *)
(***************************************************************************)
EmptyFrame ==
    [queue |-> 0, color |-> 0, desc |-> BADINDEX, ret |-> BADINDEX,
     head |-> NoPtr, tail |-> NoPtr, next |-> NoLink,
     top |-> NoLink, new |-> NoLink, back |-> "idle"]

Dummy(q) == NDescs - q
NFree == NDescs - Len(QueueColor)

Init ==
    /\ \E g \in StackColor :
         /\ next = [n \in Node |->
               IF n >= NFree
               THEN [index |-> BADINDEX, count |-> n % CountMod,
                     color |-> QueueColor[NDescs - n]]
               ELSE IF n = 0 THEN NoLink
               ELSE [index |-> n - 1, count |-> n % CountMod, color |-> g]]
         /\ top = [index |-> NFree - 1, count |-> NFree % CountMod, color |-> g]
    /\ word = [n \in Node |-> NoItem]
    /\ head = [q \in Queue |-> [index |-> Dummy(q), count |-> 0]]
    /\ tail = head
    /\ aba = NDescs % CountMod
    /\ pc = [t \in Thread |-> "idle"]
    /\ frame = [t \in Thread |-> EmptyFrame]
    /\ hand = [t \in Thread |-> BADINDEX]
    /\ calls = [t \in Thread |-> 0]
    /\ result = [t \in Thread |-> NoResult]
    /\ seen = [t \in Thread |-> FALSE]

-----------------------------------------------------------------------------
(***************************************************************************)
(* Calls and returns.                                                      *)
(***************************************************************************)
Goto(t, label) == pc' = [pc EXCEPT ![t] = label]

\* Back to the head of a retry loop: the checkpoints are dead.
Restart(t) ==
    frame' = [frame EXCEPT ![t] =
                [@ EXCEPT !.head = NoPtr, !.tail = NoPtr, !.next = NoLink]]

Enter(t, label, f) ==
    /\ pc[t] = "idle" /\ calls[t] < Calls[t]
    /\ calls' = [calls EXCEPT ![t] = @ + 1]
    /\ Goto(t, label)
    /\ frame' = [frame EXCEPT ![t] = f]
    /\ UNCHANGED <<word, head, tail, top, aba, hand, result>>

\* The caller has d (or nothing) in its hands when the call returns.
Return(t, d) ==
    /\ Goto(t, "idle")
    /\ frame' = [frame EXCEPT ![t] = EmptyFrame]
    /\ hand' = [hand EXCEPT ![t] = d]
    /\ UNCHANGED calls

CallAlloc(t) ==
    /\ t \in CanAlloc /\ hand[t] = BADINDEX
    /\ Enter(t, "pop_top", [EmptyFrame EXCEPT !.back = "alloc"])
    /\ UNCHANGED next

CallFree(t) ==
    /\ t \in CanFree /\ hand[t] # BADINDEX
    /\ Enter(t, "push_count", [EmptyFrame EXCEPT !.desc = hand[t], !.back = "free"])
    /\ UNCHANGED next

\* The counter of the descriptor's link keeps the value it had in the freelist.
CallEnqueue(t, q) ==
    /\ <<t, q>> \in CanEnqueue /\ hand[t] # BADINDEX
    /\ Enter(t, "enq_tail", [EmptyFrame EXCEPT !.queue = q, !.desc = hand[t]])
    /\ next' = [next EXCEPT ![hand[t]].index = BADINDEX]

CallDequeue(t, q) ==
    /\ <<t, q>> \in CanDequeue /\ hand[t] = BADINDEX
    /\ Enter(t, "deq_head", [EmptyFrame EXCEPT !.queue = q])
    /\ UNCHANGED next

CallPaint(t, q, c) ==
    /\ <<t, q, c>> \in CanPaint
    /\ Enter(t, "paint_head", [EmptyFrame EXCEPT !.queue = q, !.color = c])
    /\ UNCHANGED next

-----------------------------------------------------------------------------
(***************************************************************************)
(* freelist_remove.  The link of the checkpointed top is read after the    *)
(* top, and may belong to a descriptor that has left the freelist since.   *)
(***************************************************************************)
PopTop(t) ==
    /\ pc[t] = "pop_top"
    /\ IF top.index # BADINDEX
       THEN /\ frame' = [frame EXCEPT ![t].top = top]
            /\ Goto(t, "pop_next")
            /\ UNCHANGED <<hand, calls>>
       ELSE IF frame[t].back = "alloc" THEN Return(t, BADINDEX)
       ELSE Goto(t, "bug") /\ UNCHANGED <<frame, hand, calls>>
    /\ UNCHANGED <<shared, result>>

PopNext(t) ==
    /\ pc[t] = "pop_next"
    /\ frame' = [frame EXCEPT ![t].new = next[frame[t].top.index]]
    /\ Goto(t, "pop_cas")
    /\ UNCHANGED <<shared, hand, calls, result>>

\* A caller of freelist_remove then fills the descriptor with its request;
\* mig_dequeue copies the request it has found into it.
PopCas(t) ==
    /\ pc[t] = "pop_cas"
    /\ LET f == frame[t] IN
       IF top # f.top
       THEN /\ Goto(t, "pop_top")
            /\ UNCHANGED <<top, word, frame, hand, calls>>
       ELSE /\ top' = f.new
            /\ IF f.back = "alloc"
               THEN /\ word' = [word EXCEPT ![f.top.index] = <<t, calls[t]>>]
                    /\ Return(t, f.top.index)
               ELSE /\ frame' = [frame EXCEPT ![t] =
                          [@ EXCEPT !.ret = f.top.index, !.top = NoLink, !.new = NoLink]]
                    /\ Goto(t, "deq_copy")
                    /\ UNCHANGED <<word, hand, calls>>
    /\ UNCHANGED <<next, head, tail, aba, result>>

(***************************************************************************)
(* freelist_add.  The counter gives the new top a fresh count; the colour  *)
(* of the word is never set.                                               *)
(***************************************************************************)
PushCount(t) ==
    /\ pc[t] = "push_count"
    /\ aba' = Bump(aba)
    /\ \E g \in StackColor :
         frame' = [frame EXCEPT ![t].new =
                     [index |-> frame[t].desc, count |-> aba', color |-> g]]
    /\ Goto(t, "push_link")
    /\ UNCHANGED <<next, word, head, tail, top, hand, calls, result>>

\* The load of the top, and the store to the descriptor being freed.
PushLink(t) ==
    /\ pc[t] = "push_link"
    /\ frame' = [frame EXCEPT ![t].top = top]
    /\ next' = [next EXCEPT ![frame[t].desc] = top]
    /\ Goto(t, "push_cas")
    /\ UNCHANGED <<word, head, tail, top, aba, hand, calls, result>>

\* mig_dequeue frees the old head when it has a request to return, and its
\* unused replica when it has none.
PushCas(t) ==
    /\ pc[t] = "push_cas"
    /\ IF top # frame[t].top
       THEN Goto(t, "push_link") /\ UNCHANGED <<top, frame, hand, calls>>
       ELSE /\ top' = frame[t].new
            /\ Return(t, IF frame[t].back = "deq" THEN frame[t].ret ELSE BADINDEX)
    /\ UNCHANGED <<next, word, head, tail, aba, result>>

-----------------------------------------------------------------------------
(***************************************************************************)
(* mig_enqueue.                                                            *)
(***************************************************************************)
EnqTail(t) ==
    /\ pc[t] = "enq_tail"
    /\ frame' = [frame EXCEPT ![t].tail = tail[frame[t].queue]]
    /\ Goto(t, "enq_next")
    /\ UNCHANGED <<shared, hand, calls, result>>

EnqNext(t) ==
    /\ pc[t] = "enq_next"
    /\ frame' = [frame EXCEPT ![t].next = next[frame[t].tail.index]]
    /\ Goto(t, "enq_check")
    /\ UNCHANGED <<shared, hand, calls, result>>

\* Mutant: the new descriptor does not inherit the colour of the queue.
MutEnqCheck(t) ==
    /\ pc[t] = "enq_check"
    /\ LET f == frame[t]
           fresh == f.tail = tail[f.queue]
           last == f.next.index = BADINDEX
       IN  /\ IF fresh THEN UNCHANGED frame ELSE Restart(t)
           /\ Goto(t, IF ~fresh THEN "enq_tail" ELSE IF last THEN "enq_link" ELSE "enq_help")
    /\ UNCHANGED <<shared, hand, calls, result>>

\* Is the tail still the one whose link was read?  If it is the last node, the
\* new descriptor inherits the colour of its link before it is linked.
EnqCheck(t) ==
    /\ pc[t] = "enq_check"
    /\ LET f == frame[t]
           fresh == f.tail = tail[f.queue]
           last == f.next.index = BADINDEX
       IN  /\ next' = IF fresh /\ last
                      THEN [next EXCEPT ![f.desc].color = f.next.color] ELSE next
           /\ IF fresh THEN UNCHANGED frame ELSE Restart(t)
           /\ Goto(t, IF ~fresh THEN "enq_tail" ELSE IF last THEN "enq_link" ELSE "enq_help")
    /\ UNCHANGED <<word, head, tail, top, aba, hand, calls, result>>

LinkMatches(t) == next[frame[t].tail.index] = frame[t].next

EnqLink(t) ==
    /\ pc[t] = "enq_link"
    /\ LET f == frame[t] IN
       IF LinkMatches(t)
       THEN /\ next' = [next EXCEPT ![f.tail.index] =
                           [index |-> f.desc, count |-> Bump(f.next.count),
                            color |-> f.next.color]]
            /\ result' = [result EXCEPT ![t] = [color |-> f.next.color]]
            /\ Goto(t, "enq_swing")
            /\ UNCHANGED frame
       ELSE /\ Goto(t, "enq_tail")
            /\ Restart(t)
            /\ UNCHANGED <<next, result>>
    /\ UNCHANGED <<word, head, tail, top, aba, hand, calls>>

\* Move the tail from the checkpoint to n, unless somebody has moved it.
SwingTail(t, n) ==
    LET f == frame[t] IN
    tail' = IF tail[f.queue] = f.tail
            THEN [tail EXCEPT ![f.queue] = [index |-> n, count |-> Bump(f.tail.count)]]
            ELSE tail

\* Mutant: try again without helping.
MutEnqHelp(t) ==
    /\ pc[t] = "enq_help"
    /\ Goto(t, "enq_tail")
    /\ Restart(t)
    /\ UNCHANGED <<shared, hand, calls, result>>

\* The tail has fallen behind: help, and try again.
EnqHelp(t) ==
    /\ pc[t] = "enq_help"
    /\ SwingTail(t, frame[t].next.index)
    /\ Goto(t, "enq_tail")
    /\ Restart(t)
    /\ UNCHANGED <<next, word, head, top, aba, hand, calls, result>>

EnqSwing(t) ==
    /\ pc[t] = "enq_swing"
    /\ SwingTail(t, frame[t].desc)
    /\ Return(t, BADINDEX)
    /\ UNCHANGED <<next, word, head, top, aba, result>>

-----------------------------------------------------------------------------
(***************************************************************************)
(* mig_dequeue.                                                            *)
(***************************************************************************)
DeqHead(t) ==
    /\ pc[t] = "deq_head"
    /\ frame' = [frame EXCEPT ![t].head = head[frame[t].queue]]
    /\ Goto(t, "deq_tail")
    /\ UNCHANGED <<shared, hand, calls, result>>

DeqTail(t) ==
    /\ pc[t] = "deq_tail"
    /\ frame' = [frame EXCEPT ![t].tail = tail[frame[t].queue]]
    /\ Goto(t, "deq_next")
    /\ UNCHANGED <<shared, hand, calls, result>>

DeqNext(t) ==
    /\ pc[t] = "deq_next"
    /\ frame' = [frame EXCEPT ![t].next = next[frame[t].head.index]]
    /\ Goto(t, "deq_check")
    /\ UNCHANGED <<shared, hand, calls, result>>

\* What mig_dequeue does next, given that the checkpoint of the head is still
\* the head: "bug" is the assertion that a node that is not the last one has a
\* successor.  Mutants: a tail that has fallen behind is not noticed; the tail is
\* read again instead of remembered.
MutDeqNoLag(f) ==
    CASE f.tail.index = f.head.index -> "deq_empty"
      [] f.next.index = BADINDEX -> "bug"
      [] OTHER -> IF f.ret = BADINDEX THEN "pop_top" ELSE "deq_copy"
MutDeqLiveTail(f) ==
    LET atTail == tail[f.queue].index = f.head.index
        last == f.next.index = BADINDEX
    IN  CASE atTail /\ last -> "deq_empty"
          [] atTail /\ ~last -> "deq_help"
          [] ~atTail /\ last -> "bug"
          [] OTHER -> IF f.ret = BADINDEX THEN "pop_top" ELSE "deq_copy"
DeqBranch(f) ==
    LET atTail == f.tail.index = f.head.index
        last == f.next.index = BADINDEX
    IN  CASE atTail /\ last -> "deq_empty"
          [] atTail /\ ~last -> "deq_help"
          [] ~atTail /\ last -> "bug"
          [] OTHER -> IF f.ret = BADINDEX THEN "pop_top" ELSE "deq_copy"

DeqCheck(t) ==
    /\ pc[t] = "deq_check"
    /\ IF frame[t].head = head[frame[t].queue]
       THEN /\ Goto(t, DeqBranch(frame[t]))
            /\ frame' = [frame EXCEPT ![t].back =
                            IF DeqBranch(frame[t]) = "pop_top" THEN "deq" ELSE @]
       ELSE Goto(t, "deq_head") /\ Restart(t)
    /\ UNCHANGED <<shared, hand, calls, result>>

\* The queue was empty: give back the replica, if one was taken, return NULL.
DeqEmpty(t) ==
    /\ pc[t] = "deq_empty"
    /\ IF frame[t].ret = BADINDEX THEN Return(t, BADINDEX)
       ELSE /\ Goto(t, "push_count")
            /\ frame' = [frame EXCEPT ![t] =
                           [EmptyFrame EXCEPT !.desc = frame[t].ret, !.back = "free"]]
            /\ UNCHANGED <<hand, calls>>
    /\ UNCHANGED <<shared, result>>

DeqHelp(t) ==
    /\ pc[t] = "deq_help"
    /\ SwingTail(t, frame[t].next.index)
    /\ Goto(t, "deq_head")
    /\ Restart(t)
    /\ UNCHANGED <<next, word, head, top, aba, hand, calls, result>>

\* Mutant: the dummy is copied instead of the descriptor behind it.
MutDeqCopy(t) ==
    /\ pc[t] = "deq_copy"
    /\ LET old == frame[t].head.index IN
       /\ word' = [word EXCEPT ![frame[t].ret] = word[old]]
       /\ next' = [next EXCEPT ![frame[t].ret].color = next[old].color]
    /\ Goto(t, "deq_cas")
    /\ UNCHANGED <<head, tail, top, aba, frame, hand, calls, result>>

\* migdesc_replicate: the request, and the colour of the link behind it.
DeqCopy(t) ==
    /\ pc[t] = "deq_copy"
    /\ LET old == frame[t].next.index IN
       /\ word' = [word EXCEPT ![frame[t].ret] = word[old]]
       /\ next' = [next EXCEPT ![frame[t].ret].color = next[old].color]
    /\ Goto(t, "deq_cas")
    /\ UNCHANGED <<head, tail, top, aba, frame, hand, calls, result>>

\* Mutant: the dequeued node is freed instead of the old head.
MutDeqCas(t) ==
    /\ pc[t] = "deq_cas"
    /\ LET f == frame[t] IN
       IF head[f.queue] = f.head
       THEN /\ head' = [head EXCEPT ![f.queue] =
                           [index |-> f.next.index, count |-> Bump(f.head.count)]]
            /\ result' = [result EXCEPT ![t] = [item |-> word[f.ret], color |-> next[f.ret].color]]
            /\ Goto(t, "push_count")
            /\ frame' = [frame EXCEPT ![t] =
                           [EmptyFrame EXCEPT !.ret = f.ret, !.desc = f.next.index,
                                              !.back = "deq"]]
       ELSE /\ Goto(t, "deq_head")
            /\ Restart(t)
            /\ UNCHANGED <<head, result>>
    /\ UNCHANGED <<next, word, tail, top, aba, hand, calls>>

\* Advance the head; the old head is freed before the replica is returned.
DeqCas(t) ==
    /\ pc[t] = "deq_cas"
    /\ LET f == frame[t] IN
       IF head[f.queue] = f.head
       THEN /\ head' = [head EXCEPT ![f.queue] =
                           [index |-> f.next.index, count |-> Bump(f.head.count)]]
            /\ result' = [result EXCEPT ![t] = [item |-> word[f.ret], color |-> next[f.ret].color]]
            /\ Goto(t, "push_count")
            /\ frame' = [frame EXCEPT ![t] =
                           [EmptyFrame EXCEPT !.ret = f.ret, !.desc = f.head.index,
                                              !.back = "deq"]]
       ELSE /\ Goto(t, "deq_head")
            /\ Restart(t)
            /\ UNCHANGED <<head, result>>
    /\ UNCHANGED <<next, word, tail, top, aba, hand, calls>>

-----------------------------------------------------------------------------
(***************************************************************************)
(* migqueue_set_color_if_empty.                                            *)
(***************************************************************************)
PaintHead(t) ==
    /\ pc[t] = "paint_head"
    /\ frame' = [frame EXCEPT ![t].head = head[frame[t].queue]]
    /\ Goto(t, "paint_tail")
    /\ UNCHANGED <<shared, hand, calls, result>>

PaintTail(t) ==
    /\ pc[t] = "paint_tail"
    /\ frame' = [frame EXCEPT ![t].tail = tail[frame[t].queue]]
    /\ Goto(t, "paint_next")
    /\ UNCHANGED <<shared, hand, calls, result>>

PaintNext(t) ==
    /\ pc[t] = "paint_next"
    /\ frame' = [frame EXCEPT ![t].next = next[frame[t].head.index]]
    /\ Goto(t, "paint_check")
    /\ UNCHANGED <<shared, hand, calls, result>>

\* Mutant: only the ends are compared, the link of the head is not looked at.
MutPaintSeesEmpty(f) == f.head.index = f.tail.index
PaintSeesEmpty(f) == f.head.index = f.tail.index /\ f.next.index = BADINDEX

PaintCheck(t) ==
    /\ pc[t] = "paint_check"
    /\ IF frame[t].head = head[frame[t].queue]
       THEN /\ Goto(t, IF PaintSeesEmpty(frame[t]) THEN "paint_cas" ELSE "paint_busy")
            /\ UNCHANGED frame
       ELSE Goto(t, "paint_head") /\ Restart(t)
    /\ UNCHANGED <<shared, hand, calls, result>>

PaintCas(t) ==
    /\ pc[t] = "paint_cas"
    /\ LET f == frame[t] IN
       IF next[f.head.index] = f.next
       THEN /\ next' = [next EXCEPT ![f.head.index] =
                           [@ EXCEPT !.color = f.color, !.count = Bump(f.next.count)]]
            /\ result' = [result EXCEPT ![t] = [color |-> f.next.color]]
            /\ Return(t, hand[t])
       ELSE /\ Goto(t, "paint_head")
            /\ Restart(t)
            /\ UNCHANGED <<next, result, hand, calls>>
    /\ UNCHANGED <<word, head, tail, top, aba>>

\* The queue was not empty: return -1.
PaintBusy(t) ==
    /\ pc[t] = "paint_busy"
    /\ Return(t, hand[t])
    /\ UNCHANGED <<shared, result>>

-----------------------------------------------------------------------------
Call(t) ==
    \/ CallAlloc(t)
    \/ CallFree(t)
    \/ \E q \in Queue : CallEnqueue(t, q)
    \/ \E q \in Queue : CallDequeue(t, q)
    \/ \E q \in Queue, c \in Color : CallPaint(t, q, c)

Access(t) ==
    \/ PopTop(t) \/ PopNext(t) \/ PopCas(t)
    \/ PushCount(t) \/ PushLink(t) \/ PushCas(t)
    \/ EnqTail(t) \/ EnqNext(t) \/ EnqCheck(t)
    \/ EnqLink(t) \/ EnqHelp(t) \/ EnqSwing(t)
    \/ DeqHead(t) \/ DeqTail(t) \/ DeqNext(t) \/ DeqCheck(t)
    \/ DeqEmpty(t) \/ DeqHelp(t) \/ DeqCopy(t) \/ DeqCas(t)
    \/ PaintHead(t) \/ PaintTail(t) \/ PaintNext(t) \/ PaintCheck(t)
    \/ PaintCas(t) \/ PaintBusy(t)

\* History: whether the queue of a call was empty at any time since it began.
EmptyQueues == {q \in Queue : next[head[q].index].index = BADINDEX}

Witness ==
    seen' = [t \in Thread |->
               /\ pc'[t] # "idle"
               /\ seen[t] \/ frame'[t].queue \in EmptyQueues']

Next == (\E t \in Thread : Call(t) \/ Access(t)) /\ Witness

Spec == Init /\ [][Next]_vars

-----------------------------------------------------------------------------
(***************************************************************************)
(* Properties.                                                             *)
(***************************************************************************)
Labels ==
    {"idle", "bug", "pop_top", "pop_next", "pop_cas", "push_count", "push_link",
     "push_cas", "enq_tail", "enq_next", "enq_check", "enq_link",
     "enq_help", "enq_swing", "deq_head", "deq_tail", "deq_next", "deq_check",
     "deq_empty", "deq_help", "deq_copy", "deq_cas", "paint_head", "paint_tail",
     "paint_next", "paint_check", "paint_cas", "paint_busy"}

Frame ==
    [queue : Queue \cup {0}, color : Color, desc : Index, ret : Index,
     head : Ptr, tail : Ptr, next : Link, top : Link, new : Link,
     back : {"idle", "alloc", "free", "deq"}]

\* The shared words, the local variables and the history have their types.
TypeOK ==
    /\ next \in [Node -> Link]
    /\ word \in [Node -> Item \cup {NoItem}]
    /\ head \in [Queue -> Ptr]
    /\ tail \in [Queue -> Ptr]
    /\ top \in Link
    /\ aba \in Count
    /\ pc \in [Thread -> Labels]
    /\ frame \in [Thread -> Frame]
    /\ hand \in [Thread -> Index]
    /\ calls \in [Thread -> Nat]
    /\ result \in [Thread -> [item : Item \cup {NoItem}, color : Color] \cup [color : Color] \cup {NoResult}]
    /\ seen \in [Thread -> BOOLEAN]

\* The descriptors only t may touch: what its caller holds until the moment it
\* is linked or freed, the replica it has taken, the old head it has retired.
Owned(t) ==
    LET f == frame[t]
        pushing == pc[t] \in {"push_count", "push_link", "push_cas"}
    IN  ((IF pc[t] = "enq_swing" THEN {} ELSE {hand[t]})
          \cup {f.ret} \cup (IF pushing THEN {f.desc} ELSE {})) \ {BADINDEX}

Nodes(s) == {s[k] : k \in DOMAIN s}
Once(s) == \A i, j \in DOMAIN s : s[i] = s[j] => i = j

\* Every descriptor is in exactly one place: one queue, the freelist, or the
\* hands of one thread; and no chain of links meets itself.  It is what the
\* replica of mig_dequeue is for (migqueue.c, mig_dequeue): a dequeued descriptor
\* must not show up on two queues, and none may leak.
OnePlace ==
    LET free == Free
        chain == [q \in Queue |-> Walk(head[q].index)]
    IN  /\ \A n \in Node :
             Cardinality({q \in Queue : n \in Nodes(chain[q])})
               + Cardinality({t \in Thread : n \in Owned(t)})
               + (IF n \in Nodes(free) THEN 1 ELSE 0) = 1
        /\ Once(free)
        /\ \A q \in Queue : Once(chain[q])

\* Every link of a queue carries the queue's colour, the dummy's and those in
\* the middle too: a colour is copied from link to link, and rewritten in one
\* link only, while that link is the whole queue.
ColorsAgree ==
    \A q \in Queue : \A n \in Nodes(Walk(head[q].index)) :
        next[n].color = LinkColor(q)

\* mig_dequeue returns NULL only if the queue was empty at some time during the
\* call, although it decides so from three words read one after the other.
NullIsHonest == \A t \in Thread : pc[t] = "deq_empty" => seen[t]

\* No assertion of the code fails: mig_dequeue finds a successor behind a head
\* that is not the tail, and a free descriptor for its replica.
NoBug == \A t \in Thread : pc[t] # "bug"

\* The descriptors the callers have taken from the freelist and have not given
\* back: queued, in a caller's hands, or about to be handed over by mig_dequeue.
\* A dummy is not among them, nor a replica before its request has been taken.
Taken ==
    (UNION {Nodes(Queued(q)) : q \in Queue})
      \cup {hand[t] : t \in {u \in Thread : hand[u] # BADINDEX /\ pc[u] # "enq_swing"}}
      \cup {frame[t].ret : t \in {u \in Thread : /\ pc[u] \in {"push_count", "push_link", "push_cas"}
                                                /\ frame[u].back = "deq"}}
Carried == {word[n] : n \in Taken}

\* A request is in one descriptor, although mig_dequeue copies it to another one
\* and leaves the old copy where it was.
EachRequestOnce == \A m, n \in Taken : word[m] = word[n] => m = n

\* Between the call that fills a descriptor with a request and the one that frees
\* it, no step of any thread loses the request, or brings back an old one.
RequestsKept ==
    [][/\ \A r \in Carried' \ Carried :
            \E t \in Thread : pc[t] = "pop_cas" /\ frame[t].back = "alloc" /\ r = <<t, calls[t]>>
       /\ \A r \in Carried \ Carried' :
            \E t \in Thread : pc[t] = "push_cas" /\ hand[t] = frame[t].desc /\ r = word[frame[t].desc]]_vars

\* The callers leave a descriptor in the freelist for the replica of every thread
\* that may be in mig_dequeue.
Dequeuer == {t \in Thread : \E q \in Queue : <<t, q>> \in CanDequeue}
Reserve == Len(QueueColor) + Cardinality(Taken) + Cardinality(Dequeuer) <= NDescs

\* A compare-and-swap that links a descriptor does so at the last node of the
\* queue the caller named.  The counter of the link is there for this
\* (mig.h: "for ABA"): the node may have been retired and reused since its link was
\* read, and the swap must then fail.
LinksAtTail ==
    [][\A t \in Thread :
         (pc[t] = "enq_link" /\ pc'[t] = "enq_swing") =>
             frame[t].tail.index = LastNode(frame[t].queue)]_vars

\* The operations take effect atomically, in an order that agrees with what
\* they return: the code implements the coloured queue.
Abstract ==
    INSTANCE ColorQueue WITH
        items <- [q \in Queue |-> Items(q)],
        color <- [q \in Queue |-> LinkColor(q)]

ImplementsColorQueue == Abstract!Spec

\* Lock freedom: a thread that keeps running gets its call done wherever the
\* other threads stop, in the middle of an operation too.  What they have left
\* half done (a tail not swung) it completes, and each of the finitely many
\* calls they make can only cost it a retry.
LockFree ==
    \A t \in Thread :
        WF_vars(Access(t) /\ Witness) => (pc[t] # "idle" ~> pc[t] = "idle")
=============================================================================
