----------------------------- MODULE ColorQueue -----------------------------
(***************************************************************************)
(* What a migration queue promises its callers: a first-in first-out queue *)
(* of requests that also carries one colour.  The colour is handed to      *)
(* whoever appends a request, and can be changed only while the queue      *)
(* holds no request; both facts are what lets the colour say which side,   *)
(* the user or the kernel, is responsible for the requests in the queue.   *)
(*                                                                         *)
(* Each operation is one atomic step here.  MigQueue, the lock-free code   *)
(* of migqueue.c, is shown to implement this module.                       *)
(***************************************************************************)
EXTENDS Sequences

CONSTANTS Thread,      \* the callers
          Queue,       \* the queues of a region
          Item,        \* what a request carries
          Color,       \* the colours
          QueueColor,  \* the colour each queue is created with
          NoResult     \* what a caller has before its first operation

VARIABLES items,   \* items[q]: the requests in q, oldest first
          color,   \* color[q]: the colour of q
          result   \* result[t]: what the last operation of t returned

vars == <<items, color, result>>

TypeOK ==
    /\ items \in [Queue -> Seq(Item)]
    /\ color \in [Queue -> Color]
    /\ result \in [Thread -> [item : Item, color : Color]
                               \cup [color : Color] \cup {NoResult}]

Init ==
    /\ items = [q \in Queue |-> <<>>]
    /\ color = [q \in Queue |-> QueueColor[q]]
    /\ result = [t \in Thread |-> NoResult]

\* mig_enqueue: append, and report the colour the request was appended under.
Put(t, q, v) ==
    /\ items' = [items EXCEPT ![q] = Append(@, v)]
    /\ result' = [result EXCEPT ![t] = [color |-> color[q]]]
    /\ UNCHANGED color

\* mig_dequeue of a queue that holds a request.
Take(t, q) ==
    /\ items[q] # <<>>
    /\ items' = [items EXCEPT ![q] = Tail(@)]
    /\ result' = [result EXCEPT ![t] = [item |-> Head(items[q]), color |-> color[q]]]
    /\ UNCHANGED color

\* migqueue_set_color_if_empty of an empty queue: the old colour is returned.
Paint(t, q, c) ==
    /\ items[q] = <<>>
    /\ color' = [color EXCEPT ![q] = c]
    /\ result' = [result EXCEPT ![t] = [color |-> color[q]]]
    /\ UNCHANGED items

Next ==
    \E t \in Thread, q \in Queue :
        \/ \E v \in Item : Put(t, q, v)
        \/ Take(t, q)
        \/ \E c \in Color : Paint(t, q, c)

Spec == Init /\ [][Next]_vars
=============================================================================
