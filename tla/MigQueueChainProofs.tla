------------------------ MODULE MigQueueChainProofs -------------------------
(***************************************************************************)
(* The queues of MigQueue are a coloured queue, for any threads,           *)
(* descriptors, queues, colours and width of the counters, up to the first *)
(* swap that takes a recycled link for the one its thread had read: the    *)
(* code makes such swaps (the run queue_aba), strayed says that one has    *)
(* been made, and the theorems say that nothing else goes wrong before.    *)
(* Their only hypothesis is that no counter goes round once while a thread *)
(* goes by a value it has read (Timely).                                   *)
(* The first two sections say what holds between the accesses; the next    *)
(* show, one access after the other, that each of them keeps it; the last  *)
(* ones draw the conclusions about the queues.                             *)
(***************************************************************************)
EXTENDS MigQueueLag, MigQueueProofs, Integers, FiniteSetTheorems

-----------------------------------------------------------------------------
(***************************************************************************)
(* The chains.  Good(ch, tg) says that memory holds the chains ch, ch[q]   *)
(* being the descriptors of queue q from head to last, and ch[0] those of  *)
(* the freelist, whose numbers (the counter in a link to them) are tg.     *)
(* Checkpoints are trusted no further than their counters allow.           *)
(***************************************************************************)

\* c was the number n steps of the counter before it became a
Since(a, c, n) == a = c + n \/ a + CountMod = c + n
\* Links that agree in what the freelist goes by.
Same(l, m) == l.index = m.index /\ (m.index # BADINDEX => l.count = m.count)

\* A chain for the freelist, number 0, and one for each queue.
Place == 0 .. Len(QueueColor)
\* The descriptors in a chain.
In(ch) == {n \in Node : \E p \in Place : \E i \in 1 .. Len(ch[p]) : ch[p][i] = n}
\* The descriptor n is on the freelist.
IsFree(ch, n) == \E i \in 1 .. Len(ch[0]) : ch[0][i] = n

\* Each descriptor's link leads to the next one, the last one's nowhere, and none
\* is in two places.
Linked(ch) ==
    /\ ch \in [Place -> Seq(Node)]
    /\ \A p \in Place : \A i \in 1 .. Len(ch[p]) - 1 : next[ch[p][i]].index = ch[p][i + 1]
    /\ \A p \in Place : Len(ch[p]) > 0 => next[ch[p][Len(ch[p])]].index = BADINDEX
    /\ \A p, r \in Place : \A i \in 1 .. Len(ch[p]), j \in 1 .. Len(ch[r]) :
         ch[p][i] = ch[r][j] => p = r /\ i = j

\* The head is the first descriptor of its queue, the tail any of them, and the top
\* the first of the freelist.
Anchored(ch) ==
    /\ \A q \in Queue : Len(ch[q]) > 0 /\ head[q].index = ch[q][1]
    /\ \A q \in Queue : \E i \in 1 .. Len(ch[q]) : tail[q].index = ch[q][i]
    /\ top.index = IF Len(ch[0]) > 0 THEN ch[0][1] ELSE BADINDEX

Shape(ch) == Linked(ch) /\ Anchored(ch)

\* Each descriptor of the freelist is reached under its number, and a number is as
\* many steps of the counter old as age says.
Tags(ch, tg) ==
    /\ tg \in [Node -> Count]
    /\ Len(ch[0]) > 0 => top.count = tg[ch[0][1]]
    /\ \A i \in 1 .. Len(ch[0]) - 1 : next[ch[0][i]].count = tg[ch[0][i + 1]]
    /\ \A i \in 1 .. Len(ch[0]) : age[ch[0][i]] < CountMod => Since(aba, tg[ch[0][i]], age[ch[0][i]])

\* A descriptor is in one chain or in the hands of one thread.
Apart(ch) ==
    /\ \A t \in Thread : Owned(t) \cap In(ch) = {}
    /\ \A t, u \in Thread : t # u => Owned(t) \cap Owned(u) = {}
    /\ \A n \in Node : n \in In(ch) \/ \E t \in Thread : n \in Owned(t)

\* What a thread may conclude from its checkpoint of the head, if the head has not
\* moved since.
HeadFacts(t) ==
    LET f == frame[t]
        q == f.queue
        fresh == headLag[t] = 0
    IN  /\ HoldsHead(t) =>
             /\ headLag[t] < CountMod => Since(head[q].count, f.head.count, headLag[t])
             /\ fresh => f.head = head[q]
        /\ pc[t] \in {"deq_next", "deq_check"} =>
             (fresh /\ f.tail.index # f.head.index => tail[q].index # head[q].index)
        /\ pc[t] = "deq_check" =>
             (fresh /\ f.next.index = BADINDEX => f.tail.index = f.head.index)
        /\ pc[t] = "deq_check" \/ (HoldsHead(t) /\ pc[t] \notin {"deq_tail", "deq_next", "deq_help"}) =>
             (fresh /\ f.next.index # BADINDEX => next[head[q].index].index = f.next.index)
        /\ HoldsHead(t) /\ pc[t] \notin {"deq_tail", "deq_next", "deq_check", "deq_help"} =>
             (fresh => tail[q].index # head[q].index)

\* The same for the tail.
TailFacts(t) ==
    LET f == frame[t]
        q == f.queue
        fresh == tailLag[t] = 0
    IN  /\ HoldsTail(t) =>
             /\ tailLag[t] < CountMod => Since(tail[q].count, f.tail.count, tailLag[t])
             /\ fresh => f.tail = tail[q]
        /\ pc[t] \in {"enq_check", "enq_help"} =>
             (fresh /\ f.next.index # BADINDEX => next[tail[q].index].index = f.next.index)
        /\ pc[t] \in {"deq_check", "deq_help"} =>
             (fresh /\ f.tail.index = f.head.index /\ f.next.index # BADINDEX
                => next[tail[q].index].index = f.next.index)
        /\ pc[t] = "enq_swing" => (fresh => next[tail[q].index].index = f.desc)

\* The same for the top of the freelist: a checkpoint that equals the top names a
\* descriptor that has not left the list since.
FreeFacts(t, ch, tg) ==
    LET f == frame[t]
    IN  /\ HoldsTop(t) => (topLag[t] < CountMod => Since(aba, f.top.count, topLag[t]))
        /\ pc[t] = "pop_cas" =>
             (IsFree(ch, f.top.index) /\ tg[f.top.index] = f.top.count
                => Same(f.new, next[f.top.index]))
        /\ pc[t] \in {"push_link", "push_cas"} =>
             (age[f.desc] < CountMod => Since(aba, f.new.count, age[f.desc]))
        /\ pc[t] = "push_cas" => Same(next[f.desc], f.top)

\* A thread that has numbered the descriptor it is about to push.
Numbered(t) == pc[t] \in {"push_link", "push_cas"}
\* A number about to be used is in no checkpoint of the same descriptor.
Distinct ==
    \A t, u \in Thread :
        Numbered(t) /\ HoldsTop(u) /\ frame[u].top.index = frame[t].desc
            => frame[u].top.count # frame[t].new.count

\* What a thread has in its hands is not linked to anything yet.
LinkFacts(t) ==
    LET f == frame[t]
    IN  /\ pc[t] \in {"enq_tail", "enq_next", "enq_check", "enq_link", "enq_help"}
             => next[f.desc].index = BADINDEX
        /\ pc[t] \in {"push_count", "push_link", "push_cas"} /\ f.back = "deq" => f.desc # f.ret

Facts(t, ch, tg) == HeadFacts(t) /\ TailFacts(t) /\ FreeFacts(t, ch, tg) /\ LinkFacts(t)

Good(ch, tg) == Shape(ch) /\ Tags(ch, tg) /\ Apart(ch) /\ Distinct /\ \A t \in Thread : Facts(t, ch, tg)

-----------------------------------------------------------------------------
(***************************************************************************)
(* The data: what descriptors hold, and their colours.                     *)
(***************************************************************************)

\* A queue has one colour, which all its links carry.
Colored(ch) == \A q \in Queue : \A i \in 1 .. Len(ch[q]) : next[ch[q][i]].color = next[ch[q][Len(ch[q])]].color
\* Every descriptor behind the dummy holds a request.
Filled(ch) == \A q \in Queue : \A i \in 2 .. Len(ch[q]) : word[ch[q][i]] # NoItem
\* What a thread carries: a request in its hands, and the copies it has made of the
\* request, the colour or the head of a queue.
Carries(t) ==
    LET f == frame[t]
    IN  /\ hand[t] # BADINDEX /\ pc[t] # "enq_swing" => word[hand[t]] # NoItem
        /\ pc[t] \in {"push_count", "push_link", "push_cas"} /\ f.back = "deq" => word[f.ret] # NoItem
        /\ pc[t] = "enq_link" => next[f.desc].color = f.next.color
        /\ pc[t] = "deq_cas" /\ headLag[t] = 0 =>
             word[f.ret] = word[f.next.index] /\ next[f.ret].color = next[f.next.index].color
        /\ pc[t] \in {"paint_tail", "paint_next", "paint_check", "paint_cas"} /\ headLag[t] = 0
             => f.head = head[f.queue]
Data(ch) == Colored(ch) /\ Filled(ch) /\ \A t \in Thread : Carries(t)

-----------------------------------------------------------------------------
(***************************************************************************)
(* How chains change: nothing is relinked, a descriptor is appended, the   *)
(* tail moves, the head moves, the freelist is popped or pushed.           *)
(***************************************************************************)

\* The places are 0 and the queues.
LEMMA PlaceFacts ==
    /\ 0 \in Place /\ Queue \subseteq Place /\ 0 \notin Queue
    /\ \A p \in Place : p = 0 \/ p \in Queue
BY QueueAssumption DEF Place, Queue

\* The successor of a descriptor in a chain.
LEMMA ChainNext ==
    ASSUME NEW ch, Linked(ch), NEW p \in Place, NEW i \in 1 .. Len(ch[p])
    PROVE  /\ ch[p] \in Seq(Node) /\ Len(ch[p]) \in Nat /\ ch[p][i] \in Node /\ ch[p][i] \in In(ch)
           /\ next[ch[p][i]].index = IF i < Len(ch[p]) THEN ch[p][i + 1] ELSE BADINDEX
           /\ i < Len(ch[p]) => i + 1 \in 1 .. Len(ch[p]) /\ next[ch[p][i]].index # BADINDEX
           /\ next[ch[p][i]].index # BADINDEX => i < Len(ch[p])
<1>1. ch[p] \in Seq(Node)
    BY DEF Linked
<1>2. Len(ch[p]) \in Nat /\ \A j \in 1 .. Len(ch[p]) : ch[p][j] \in Node
    BY <1>1
<1>3. CASE i < Len(ch[p])
  <2>1. i \in 1 .. Len(ch[p]) - 1 /\ i + 1 \in 1 .. Len(ch[p])
      BY <1>2, <1>3
  <2>2. next[ch[p][i]].index = ch[p][i + 1]
      BY <2>1 DEF Linked
  <2> QED BY <1>1, <1>2, <1>3, <2>1, <2>2, NodeFacts DEF In
<1>4. CASE i = Len(ch[p])
  <2>1. next[ch[p][i]].index = BADINDEX
      BY <1>2, <1>4 DEF Linked
  <2> QED BY <1>1, <1>2, <1>4, <2>1 DEF In
<1> QED BY <1>2, <1>3, <1>4

\* The descriptors of a chain.
LEMMA ChainTyped ==
    ASSUME NEW ch, Linked(ch)
    PROVE  /\ ch \in [Place -> Seq(Node)]
           /\ \A p \in Place : ch[p] \in Seq(Node) /\ Len(ch[p]) \in Nat
           /\ \A p \in Place : \A i \in 1 .. Len(ch[p]) : ch[p][i] \in Node /\ ch[p][i] \in In(ch)
           /\ \A n \in In(ch) : \E p \in Place : \E i \in 1 .. Len(ch[p]) : ch[p][i] = n
<1>1. \A p \in Place : ch[p] \in Seq(Node)
    BY DEF Linked
<1>2. \A p \in Place : Len(ch[p]) \in Nat /\ \A i \in 1 .. Len(ch[p]) : ch[p][i] \in Node
    BY <1>1
<1> QED BY <1>1, <1>2 DEF Linked, In

\* Memory still holds the chains when no link of theirs is redirected.
LEMMA ShapeKeep ==
    ASSUME NEW ch, Shape(ch), \A n \in In(ch) : next'[n].index = next[n].index,
           UNCHANGED <<head, tail, top>>
    PROVE  Shape(ch)'
<1>1. \A p \in Place : \A i \in 1 .. Len(ch[p]) : next'[ch[p][i]].index = next[ch[p][i]].index
    BY ChainTyped DEF Shape
<1>2. \A p \in Place : Len(ch[p]) \in Nat
    BY ChainTyped DEF Shape
<1>3. \A p \in Place : \A i \in 1 .. Len(ch[p]) - 1 : next'[ch[p][i]].index = ch[p][i + 1]
  <2> TAKE p \in Place
  <2> TAKE i \in 1 .. Len(ch[p]) - 1
  <2>1. i \in 1 .. Len(ch[p])
      BY <1>2
  <2> QED BY <1>1, <2>1 DEF Shape, Linked, Anchored
<1>4. \A p \in Place : Len(ch[p]) > 0 => next'[ch[p][Len(ch[p])]].index = BADINDEX
  <2> SUFFICES ASSUME NEW p \in Place, Len(ch[p]) > 0 PROVE next'[ch[p][Len(ch[p])]].index = BADINDEX
      OBVIOUS
  <2>1. Len(ch[p]) \in 1 .. Len(ch[p])
      BY <1>2
  <2> QED BY <1>1, <2>1 DEF Shape, Linked, Anchored
<1> QED BY <1>3, <1>4 DEF Shape, Linked, Anchored

\* The descriptor d is linked behind the last one of queue q.
Extend(ch, q, d) == [ch EXCEPT ![q] = Append(@, d)]
\* The last link of q is redirected to a descriptor that is in no chain.
LEMMA ShapeLink ==
    ASSUME NEW ch, Shape(ch), NEW q \in Queue, NEW d \in Node, d \notin In(ch),
           next[d].index = BADINDEX, NEW m \in Node, m = ch[q][Len(ch[q])],
           next'[m].index = d, \A k \in Node : k # m
             => next'[k] = next[k], UNCHANGED <<head, tail, top>>,
           NEW ch2, ch2 = Extend(ch, q, d)
    PROVE  Shape(ch2)' /\ In(ch2) = In(ch) \cup {d} /\ ch2[0] = ch[0]
<1> DEFINE n == Len(ch[q])
           last == ch[q][n]
<1>1. q \in Place /\ q # 0 /\ 0 \in Place
    BY PlaceFacts
<1>2. /\ \A p \in Place : ch[p] \in Seq(Node) /\ Len(ch[p]) \in Nat
      /\ n \in Nat /\ n > 0 /\ n \in 1 .. n /\ last \in Node
      /\ \A p \in Place : \A i \in 1 .. Len(ch[p]) : ch[p][i] \in Node /\ ch[p][i] \in In(ch)
  <2>1. /\ \A p \in Place : ch[p] \in Seq(Node) /\ Len(ch[p]) \in Nat
        /\ \A p \in Place : \A i \in 1 .. Len(ch[p]) : ch[p][i] \in Node /\ ch[p][i] \in In(ch)
      BY ChainTyped DEF Shape
  <2>2. n > 0
      BY DEF Shape, Linked, Anchored
  <2> QED BY <1>1, <2>1, <2>2
<1>3. /\ ch2 \in [Place -> Seq(Node)]
      /\ \A p \in Place : p # q => ch2[p] = ch[p]
      /\ ch2[q] = Append(ch[q], d)
    BY <1>1, <1>2 DEF Shape, Linked, Extend
<1>4. /\ Len(ch2[q]) = n + 1 /\ ch2[q][n + 1] = d
      /\ \A i \in 1 .. n : ch2[q][i] = ch[q][i]
    BY <1>1, <1>2, <1>3
<1>5. /\ next'[last].index = d
      /\ \A k \in Node : k # last => next'[k] = next[k]
    OBVIOUS
<1>6. \A p \in Place : \A i \in 1 .. Len(ch[p]) : ch[p][i] = last => p = q /\ i = n
  <2>1. \A p, r \in Place : \A i \in 1 .. Len(ch[p]), j \in 1 .. Len(ch[r]) :
          ch[p][i] = ch[r][j] => p = r /\ i = j
      BY DEF Shape, Linked
  <2> QED BY <1>1, <1>2, <2>1
<1>7. In(ch2) = In(ch) \cup {d}
  <2>1. In(ch2) \subseteq In(ch) \cup {d}
    <3> SUFFICES ASSUME NEW p \in Place, NEW i \in 1 .. Len(ch2[p]) PROVE ch2[p][i] \in In(ch) \cup {d}
        BY DEF In
    <3>1. CASE p # q
        BY <1>2, <1>3, <3>1
    <3>2. CASE p = q
      <4>1. i \in 1 .. n \/ i = n + 1
          BY <1>2, <1>4, <3>2
      <4> QED BY <1>1, <1>2, <1>4, <3>2, <4>1
    <3> QED BY <3>1, <3>2
  <2>2. d \in In(ch2)
    <3>1. n + 1 \in 1 .. Len(ch2[q])
        BY <1>2, <1>4
    <3> QED BY <1>1, <1>4, <3>1 DEF In
  <2>3. ASSUME NEW k \in In(ch) PROVE k \in In(ch2)
    <3>1. PICK p \in Place : \E i \in 1 .. Len(ch[p]) : ch[p][i] = k
        BY DEF In
    <3>2. PICK i \in 1 .. Len(ch[p]) : ch[p][i] = k
        BY <3>1
    <3>3. i \in 1 .. Len(ch2[p]) /\ ch2[p][i] = k
      <4>1. CASE p # q
          BY <1>3, <3>2, <4>1
      <4>2. CASE p = q
          BY <1>2, <1>4, <3>2, <4>2
      <4> QED BY <4>1, <4>2
    <3> QED BY <3>3 DEF In
  <2> QED BY <2>1, <2>2, <2>3
<1> HIDE DEF n, last
<1>8. \A p \in Place : \A i \in 1 .. Len(ch2[p]) - 1 : next'[ch2[p][i]].index = ch2[p][i + 1]
  <2> SUFFICES ASSUME NEW p \in Place, NEW i \in 1 .. Len(ch2[p]) - 1
               PROVE  next'[ch2[p][i]].index = ch2[p][i + 1]
      OBVIOUS
  <2>1. CASE p # q
    <3>1. i \in 1 .. Len(ch[p]) - 1 /\ i \in 1 .. Len(ch[p])
        BY <1>2, <1>3, <2>1
    <3>2. ch[p][i] # last /\ ch[p][i] \in Node
        BY <1>2, <1>6, <2>1, <3>1
    <3>3. next[ch[p][i]].index = ch[p][i + 1]
        BY <3>1 DEF Shape, Linked, Anchored
    <3> QED BY <1>3, <1>5, <2>1, <3>2, <3>3
  <2>2. CASE p = q /\ i < n
    <3>1. i \in 1 .. n - 1 /\ i \in 1 .. n /\ i + 1 \in 1 .. n /\ n = Len(ch[q])
        BY <1>2, <2>2 DEF n
    <3>2. ch[q][i] # last /\ ch[q][i] \in Node
        BY <1>1, <1>2, <1>6, <2>2, <3>1
    <3>3. next[ch[q][i]].index = ch[q][i + 1]
        BY <1>1, <3>1 DEF Shape, Linked, Anchored
    <3> QED BY <1>4, <1>5, <2>2, <3>1, <3>2, <3>3
  <2>3. CASE p = q /\ i = n
      BY <1>2, <1>4, <1>5, <2>3 DEF last
  <2> QED BY <1>2, <1>4, <2>1, <2>2, <2>3
<1>9. \A p \in Place : Len(ch2[p]) > 0 => next'[ch2[p][Len(ch2[p])]].index = BADINDEX
  <2> SUFFICES ASSUME NEW p \in Place, Len(ch2[p]) > 0
               PROVE  next'[ch2[p][Len(ch2[p])]].index = BADINDEX
      OBVIOUS
  <2>1. CASE p # q
    <3>1. Len(ch[p]) \in 1 .. Len(ch[p]) /\ next[ch[p][Len(ch[p])]].index = BADINDEX
        BY <1>2, <1>3, <2>1 DEF Shape, Linked, Anchored
    <3>2. ch[p][Len(ch[p])] # last /\ ch[p][Len(ch[p])] \in Node
        BY <1>2, <1>6, <2>1, <3>1
    <3> QED BY <1>3, <1>5, <2>1, <3>1, <3>2
  <2>2. CASE p = q
    <3>1. d # last
        BY <1>1, <1>2 DEF last, n
    <3> QED BY <1>4, <1>5, <2>2, <3>1
  <2> QED BY <2>1, <2>2
<1>10. \A p, r \in Place : \A i \in 1 .. Len(ch2[p]), j \in 1 .. Len(ch2[r]) :
         ch2[p][i] = ch2[r][j] => p = r /\ i = j
  <2> SUFFICES ASSUME NEW p \in Place, NEW r \in Place, NEW i \in 1 .. Len(ch2[p]),
                      NEW j \in 1 .. Len(ch2[r]),
                      ch2[p][i] = ch2[r][j]
               PROVE  p = r /\ i = j
      OBVIOUS
  <2>0. ASSUME NEW s \in Place, NEW k \in 1 .. Len(ch2[s])
        PROVE  \/ k \in 1 .. Len(ch[s]) /\ ch2[s][k] = ch[s][k] /\ ch[s][k] \in In(ch)
               \/ s = q /\ k = n + 1 /\ ch2[s][k] = d
    <3>1. CASE s # q
        BY <1>2, <1>3, <3>1
    <3>2. CASE s = q /\ k = n + 1
        BY <1>4, <3>2
    <3>3. CASE s = q /\ k # n + 1
      <4>1. k \in 1 .. n /\ k \in 1 .. Len(ch[q])
          BY <1>2, <1>4, <3>3 DEF n
      <4> QED BY <1>1, <1>2, <1>4, <3>3, <4>1
    <3> QED BY <3>1, <3>2, <3>3
  <2>1. \/ i \in 1 .. Len(ch[p]) /\ ch2[p][i] = ch[p][i] /\ ch[p][i] \in In(ch)
        \/ p = q /\ i = n + 1 /\ ch2[p][i] = d
      BY <2>0
  <2>2. \/ j \in 1 .. Len(ch[r]) /\ ch2[r][j] = ch[r][j] /\ ch[r][j] \in In(ch)
        \/ r = q /\ j = n + 1 /\ ch2[r][j] = d
      BY <2>0
  <2>3. CASE i \in 1 .. Len(ch[p]) /\ ch2[p][i] = ch[p][i] /\ j \in 1 .. Len(ch[r])
               /\ ch2[r][j] = ch[r][j]
    <3>1. ch[p][i] = ch[r][j]
        BY <2>3
    <3> QED BY <2>3, <3>1 DEF Shape, Linked
  <2> HIDE DEF n
  <2> QED BY <2>1, <2>2, <2>3
<1>11. \A r \in Queue : Len(ch2[r]) > 0 /\ head'[r].index = ch2[r][1]
  <2> SUFFICES ASSUME NEW r \in Queue PROVE Len(ch2[r]) > 0 /\ head'[r].index = ch2[r][1]
      OBVIOUS
  <2>1. Len(ch[r]) > 0 /\ head'[r].index = ch[r][1] /\ r \in Place
      BY PlaceFacts DEF Shape, Linked, Anchored
  <2>2. CASE r # q
      BY <1>3, <2>1, <2>2
  <2>3. CASE r = q
    <3>1. n > 0 /\ 1 \in 1 .. n
        BY <1>2, <2>1, <2>3 DEF n
    <3>2. Len(ch2[q]) = n + 1 /\ ch2[q][1] = ch[q][1]
        BY <1>4, <3>1
    <3> QED BY <1>2, <2>1, <2>3, <3>1, <3>2
  <2> QED BY <2>2, <2>3
<1>12. \A r \in Queue : \E i \in 1 .. Len(ch2[r]) : tail'[r].index = ch2[r][i]
  <2> SUFFICES ASSUME NEW r \in Queue PROVE \E i \in 1 .. Len(ch2[r]) : tail'[r].index = ch2[r][i]
      OBVIOUS
  <2>1. PICK i \in 1 .. Len(ch[r]) : tail'[r].index = ch[r][i]
      BY DEF Shape, Linked, Anchored
  <2>2. i \in 1 .. Len(ch2[r]) /\ ch2[r][i] = ch[r][i]
      BY <1>2, <1>3, <1>4, PlaceFacts DEF n
  <2> QED BY <2>1, <2>2
<1>13. ch2[0] = ch[0]
    BY <1>1, <1>3
<1>14. Linked(ch2)'
    BY <1>3, <1>8, <1>9, <1>10 DEF Linked
<1>15. top'.index = IF Len(ch2[0]) > 0 THEN ch2[0][1] ELSE BADINDEX
    BY <1>13 DEF Shape, Anchored
<1>16. Anchored(ch2)'
    BY <1>11, <1>12, <1>15 DEF Anchored
<1> QED BY <1>7, <1>13, <1>14, <1>16 DEF Shape

\* The tail of queue q is swung to the successor of the descriptor it is at.
LEMMA ShapeSwing ==
    ASSUME NEW ch, Shape(ch), tail \in [Queue -> Ptr], NEW q \in Queue, NEW p,
           p.index = next[tail[q].index].index, p.index # BADINDEX,
           tail' = [tail EXCEPT ![q] = p], UNCHANGED <<next, head, top>>
    PROVE  Shape(ch)' /\ p.index # head[q].index
<1>1. q \in Place
    BY PlaceFacts
<1>2. PICK i \in 1 .. Len(ch[q]) : tail[q].index = ch[q][i]
    BY DEF Shape, Linked, Anchored
<1>3. i < Len(ch[q]) /\ i + 1 \in 1 .. Len(ch[q]) /\ p.index = ch[q][i + 1] /\ Len(ch[q]) \in Nat
    BY <1>1, <1>2, ChainNext DEF Shape
<1>4. p.index # head[q].index
  <2>1. head[q].index = ch[q][1] /\ 1 \in 1 .. Len(ch[q]) /\ i + 1 # 1
      BY <1>3 DEF Shape, Linked, Anchored
  <2> QED BY <1>1, <1>3, <2>1 DEF Shape, Linked, Anchored
<1>5. \A r \in Queue : \E j \in 1 .. Len(ch[r]) : tail'[r].index = ch[r][j]
  <2> SUFFICES ASSUME NEW r \in Queue PROVE \E j \in 1 .. Len(ch[r]) : tail'[r].index = ch[r][j]
      OBVIOUS
  <2>1. CASE r = q
    <3>1. tail'[r] = p
        BY <2>1
    <3> QED BY <1>3, <2>1, <3>1
  <2>2. CASE r # q
      BY <2>2 DEF Shape, Linked, Anchored
  <2> QED BY <2>1, <2>2
<1>6. Linked(ch)'
    BY DEF Shape, Linked
<1>7. Anchored(ch)'
    BY <1>5 DEF Shape, Anchored
<1> QED BY <1>4, <1>6, <1>7 DEF Shape

\* The first descriptor of chain q leaves it.
Drop(ch, q) == [ch EXCEPT ![q] = Tail(@)]
\* ch2 is ch without the first descriptor of q.
Dropped(ch, q, ch2) ==
    /\ In(ch2) = In(ch) \ {ch[q][1]} /\ ch[q][1] \in In(ch)
    /\ \A r \in Place : r # q => ch2[r] = ch[r]
    /\ Len(ch[q]) \in Nat /\ Len(ch2[q]) = Len(ch[q]) - 1
    /\ \A i \in 1 .. Len(ch[q]) - 1 : ch2[q][i] = ch[q][i + 1]

\* The entries of a chain without its first.
LEMMA DropFirst ==
    ASSUME NEW ch, Linked(ch), NEW q \in Place, Len(ch[q]) > 0, UNCHANGED next,
           NEW ch2, ch2 = Drop(ch, q)
    PROVE  Linked(ch2)' /\ Dropped(ch, q, ch2)
<1>2. /\ \A r \in Place : ch[r] \in Seq(Node) /\ Len(ch[r]) \in Nat
      /\ \A r \in Place : \A i \in 1 .. Len(ch[r]) : ch[r][i] \in Node /\ ch[r][i] \in In(ch)
      /\ 1 \in 1 .. Len(ch[q])
  <2>1. /\ \A r \in Place : ch[r] \in Seq(Node) /\ Len(ch[r]) \in Nat
        /\ \A r \in Place : \A i \in 1 .. Len(ch[r]) : ch[r][i] \in Node /\ ch[r][i] \in In(ch)
      BY ChainTyped
  <2> QED BY <2>1
<1>3. ch2 = [ch EXCEPT ![q] = Tail(@)]
    BY DEF Drop
<1>4. /\ ch2 \in [Place -> Seq(Node)]
      /\ \A r \in Place : r # q => ch2[r] = ch[r]
      /\ ch2[q] = Tail(ch[q]) /\ ch[q] # <<>>
    BY <1>2, <1>3 DEF Linked
<1>5. /\ Len(ch2[q]) = Len(ch[q]) - 1
      /\ \A i \in 1 .. Len(ch[q]) - 1 : ch2[q][i] = ch[q][i + 1]
    BY <1>2, <1>4
<1>6. \A r \in Place : \A i \in 1 .. Len(ch2[r]) :
         \E j \in 1 .. Len(ch[r]) : ch2[r][i] = ch[r][j] /\ j = IF r = q THEN i + 1 ELSE i
    BY <1>2, <1>3, <1>4, <1>5
<1>7. \A r \in Place : \A j \in 1 .. Len(ch[r]) : r # q \/ j # 1 =>
         \E i \in 1 .. Len(ch2[r]) : ch2[r][i] = ch[r][j]
  <2> SUFFICES ASSUME NEW r \in Place, NEW j \in 1 .. Len(ch[r]), r # q \/ j # 1
               PROVE \E i \in 1 .. Len(ch2[r]) : ch2[r][i] = ch[r][j]
      OBVIOUS
  <2>1. CASE r # q
      BY <1>4, <2>1
  <2>2. CASE r = q
    <3>1. j - 1 \in 1 .. Len(ch[q]) - 1 /\ (j - 1) + 1 = j
        BY <1>2, <2>2
    <3>2. ch2[q][j - 1] = ch[q][j]
        BY <1>5, <3>1
    <3> QED BY <1>5, <2>2, <3>1, <3>2
  <2> QED BY <2>1, <2>2
<1>8. In(ch2) = In(ch) \ {ch[q][1]}
  <2>1. ASSUME NEW n \in In(ch2) PROVE n \in In(ch) /\ n # ch[q][1]
    <3>0. PICK r \in Place : \E i \in 1 .. Len(ch2[r]) : ch2[r][i] = n
        BY DEF In
    <3>1. PICK i \in 1 .. Len(ch2[r]) : ch2[r][i] = n
        BY <3>0
    <3>2. PICK j \in 1 .. Len(ch[r]) : n = ch[r][j] /\ (r = q => j = i + 1)
        BY <1>6, <3>1
    <3>3. i \in Nat /\ i > 0
        BY <3>1, <1>2, <1>4, <1>5
    <3> QED BY <1>2, <3>2, <3>3 DEF Linked
  <2>2. ASSUME NEW n \in In(ch), n # ch[q][1] PROVE n \in In(ch2)
    <3>0. PICK r \in Place : \E j \in 1 .. Len(ch[r]) : ch[r][j] = n
        BY DEF In
    <3>1. PICK j \in 1 .. Len(ch[r]) : ch[r][j] = n
        BY <3>0
    <3>2. r # q \/ j # 1
        BY <1>2, <2>2, <3>1
    <3>3. \E i \in 1 .. Len(ch2[r]) : ch2[r][i] = n
        BY <1>7, <3>1, <3>2
    <3> QED BY <3>3 DEF In
  <2> QED BY <2>1, <2>2
<1>9. \A r \in Place : \A i \in 1 .. Len(ch2[r]) - 1 : next'[ch2[r][i]].index = ch2[r][i + 1]
  <2> SUFFICES ASSUME NEW r \in Place, NEW i \in 1 .. Len(ch2[r]) - 1
               PROVE  next[ch2[r][i]].index = ch2[r][i + 1]
      OBVIOUS
  <2>1. CASE r # q
      BY <1>4, <2>1 DEF Linked
  <2>2. CASE r = q
    <3>1. i \in 1 .. Len(ch[q]) - 1 /\ i + 1 \in 1 .. Len(ch[q]) - 1
        BY <1>2, <1>5, <2>2
    <3>2. next[ch[q][i + 1]].index = ch[q][i + 2]
      <4>1. next[ch[q][i + 1]].index = ch[q][(i + 1) + 1]
          BY <3>1 DEF Linked
      <4>2. (i + 1) + 1 = i + 2
          BY <3>1, <1>2
      <4> QED BY <4>1, <4>2
    <3>3. ch2[q][i] = ch[q][i + 1] /\ ch2[q][i + 1] = ch[q][(i + 1) + 1] /\ (i + 1) + 1 = i + 2
        BY <1>5, <3>1
    <3> QED BY <2>2, <3>2, <3>3
  <2> QED BY <2>1, <2>2
<1>10. \A r \in Place : Len(ch2[r]) > 0 => next'[ch2[r][Len(ch2[r])]].index = BADINDEX
  <2> SUFFICES ASSUME NEW r \in Place, Len(ch2[r]) > 0
               PROVE  next[ch2[r][Len(ch2[r])]].index = BADINDEX
      OBVIOUS
  <2>1. CASE r # q
      BY <1>4, <2>1 DEF Linked
  <2>2. CASE r = q
    <3>1. Len(ch2[q]) \in 1 .. Len(ch[q]) - 1 /\ Len(ch2[q]) + 1 = Len(ch[q])
        BY <1>2, <1>5, <2>2
    <3>2. ch2[q][Len(ch2[q])] = ch[q][Len(ch[q])]
        BY <1>5, <3>1
    <3>3. next[ch[q][Len(ch[q])]].index = BADINDEX
        BY DEF Linked
    <3> QED BY <2>2, <3>2, <3>3
  <2> QED BY <2>1, <2>2
<1>11. \A r, s \in Place : \A i \in 1 .. Len(ch2[r]), j \in 1 .. Len(ch2[s]) :
         ch2[r][i] = ch2[s][j] => r = s /\ i = j
  <2> SUFFICES ASSUME NEW r \in Place, NEW s \in Place, NEW i \in 1 .. Len(ch2[r]),
                      NEW j \in 1 .. Len(ch2[s]),
                      ch2[r][i] = ch2[s][j]
               PROVE  r = s /\ i = j
      OBVIOUS
  <2>1. PICK k \in 1 .. Len(ch[r]) : ch2[r][i] = ch[r][k] /\ k = IF r = q THEN i + 1 ELSE i
      BY <1>6
  <2>2. PICK m \in 1 .. Len(ch[s]) : ch2[s][j] = ch[s][m] /\ m = IF s = q THEN j + 1 ELSE j
      BY <1>6
  <2>3. r = s /\ k = m
      BY <1>3, <2>1, <2>2 DEF Linked
  <2>4. i \in Nat /\ j \in Nat
      BY <1>2, <1>4, <1>5
  <2> QED BY <2>1, <2>2, <2>3, <2>4
<1>15. ch[q][1] \in In(ch)
    BY <1>2
<1>16. Linked(ch2)'
    BY <1>4, <1>9, <1>10, <1>11 DEF Linked
<1> QED BY <1>2, <1>4, <1>5, <1>8, <1>15, <1>16 DEF Dropped

\* The head of queue q advances: the old dummy is out of the queue.
LEMMA ShapeAdvance ==
    ASSUME NEW ch, Shape(ch), NEW q \in Queue, tail[q].index # head[q].index,
           head'[q].index = next[head[q].index].index, head'[q].index # BADINDEX,
           \A r \in Queue : r # q => head'[r] = head[r], UNCHANGED <<next, tail, top>>,
           NEW ch2, ch2 = Drop(ch, q)
    PROVE  Shape(ch2)' /\ In(ch2) = In(ch) \ {head[q].index} /\ ch2[0] = ch[0]
             /\ head[q].index \in In(ch)
<1>1. q \in Place /\ q # 0 /\ 0 \in Place
    BY PlaceFacts
<1>2. Linked(ch) /\ Len(ch[q]) > 0 /\ head[q].index = ch[q][1] /\ Len(ch[q]) \in Nat
        /\ 1 \in 1 .. Len(ch[q])
  <2>1. Linked(ch) /\ Len(ch[q]) > 0 /\ head[q].index = ch[q][1]
      BY DEF Shape, Anchored
  <2>2. Len(ch[q]) \in Nat
      BY <1>1, <2>1, ChainTyped
  <2> QED BY <2>1, <2>2
<1>3. Len(ch[q]) > 1 /\ head'[q].index = ch[q][2]
    BY <1>1, <1>2, ChainNext
<1>4. /\ Linked(ch2)' /\ In(ch2) = In(ch) \ {ch[q][1]} /\ ch[q][1] \in In(ch)
      /\ \A r \in Place : r # q => ch2[r] = ch[r]
      /\ Len(ch[q]) \in Nat /\ Len(ch2[q]) = Len(ch[q]) - 1
      /\ \A i \in 1 .. Len(ch[q]) - 1 : ch2[q][i] = ch[q][i + 1]
  <2>1. q \in Place /\ Linked(ch) /\ Len(ch[q]) > 0
      BY <1>1, <1>2
  <2>2. Linked(ch2)' /\ Dropped(ch, q, ch2)
      BY <2>1, DropFirst
  <2> QED BY <2>2 DEF Dropped
<1>5. \A r \in Queue : Len(ch2[r]) > 0 /\ head'[r].index = ch2[r][1]
  <2> SUFFICES ASSUME NEW r \in Queue PROVE Len(ch2[r]) > 0 /\ head'[r].index = ch2[r][1]
      OBVIOUS
  <2>1. CASE r = q
    <3>2. 1 \in 1 .. Len(ch[q]) - 1 /\ 1 + 1 = 2
        BY <1>2, <1>3
    <3>3. ch2[q][1] = ch[q][2]
        BY <1>4, <3>2
    <3> QED BY <1>2, <1>3, <1>4, <2>1, <3>3
  <2>2. CASE r # q
      BY <1>4, <2>2, PlaceFacts DEF Shape, Anchored
  <2> QED BY <2>1, <2>2
<1>6. \A r \in Queue : \E i \in 1 .. Len(ch2[r]) : tail'[r].index = ch2[r][i]
  <2> SUFFICES ASSUME NEW r \in Queue PROVE \E i \in 1 .. Len(ch2[r]) : tail[r].index = ch2[r][i]
      OBVIOUS
  <2>1. PICK j \in 1 .. Len(ch[r]) : tail[r].index = ch[r][j]
      BY DEF Shape, Anchored
  <2>2. CASE r # q
      BY <1>4, <2>1, <2>2, PlaceFacts
  <2>3. CASE r = q
    <3>1. j # 1 /\ j - 1 \in 1 .. Len(ch[q]) - 1 /\ (j - 1) + 1 = j
        BY <1>2, <2>1, <2>3
    <3>2. ch2[q][j - 1] = ch[q][j]
        BY <1>4, <3>1
    <3> QED BY <1>4, <2>1, <2>3, <3>1, <3>2
  <2> QED BY <2>2, <2>3
<1>7. ch2[0] = ch[0]
    BY <1>1, <1>4
<1>8. Shape(ch2)'
    BY <1>4, <1>5, <1>6, <1>7 DEF Shape, Anchored
<1> QED BY <1>2, <1>4, <1>7, <1>8

\* The top of the freelist is taken.
LEMMA ShapePop ==
    ASSUME NEW ch, Shape(ch), top.index # BADINDEX, top'.index = next[top.index].index,
           UNCHANGED <<next, head, tail>>,
           NEW ch2, ch2 = Drop(ch, 0)
    PROVE  /\ Shape(ch2)' /\ In(ch2) = In(ch) \ {top.index} /\ top.index \in In(ch)
           /\ Len(ch[0]) \in Nat /\ Len(ch[0]) > 0 /\ ch[0][1] = top.index
           /\ Len(ch2[0]) = Len(ch[0]) - 1
           /\ \A i \in 1 .. Len(ch[0]) - 1 : ch2[0][i] = ch[0][i + 1]
<1>1. 0 \in Place /\ 0 \notin Queue /\ Queue \subseteq Place
    BY PlaceFacts
<1>2. Linked(ch) /\ Len(ch[0]) > 0 /\ top.index = ch[0][1] /\ Len(ch[0]) \in Nat
        /\ 1 \in 1 .. Len(ch[0])
  <2>1. Linked(ch) /\ Len(ch[0]) > 0 /\ top.index = ch[0][1]
      BY DEF Shape, Anchored
  <2>2. Len(ch[0]) \in Nat
      BY <1>1, <2>1, ChainTyped
  <2> QED BY <2>1, <2>2
<1>4. /\ Linked(ch2)' /\ In(ch2) = In(ch) \ {ch[0][1]} /\ ch[0][1] \in In(ch)
      /\ \A r \in Place : r # 0 => ch2[r] = ch[r]
      /\ Len(ch[0]) \in Nat /\ Len(ch2[0]) = Len(ch[0]) - 1
      /\ \A i \in 1 .. Len(ch[0]) - 1 : ch2[0][i] = ch[0][i + 1]
  <2>1. 0 \in Place /\ Linked(ch) /\ Len(ch[0]) > 0
      BY <1>1, <1>2
  <2>2. Linked(ch2)' /\ Dropped(ch, 0, ch2)
      BY <2>1, DropFirst
  <2> QED BY <2>2 DEF Dropped
<1>5. top'.index = IF Len(ch2[0]) > 0 THEN ch2[0][1] ELSE BADINDEX
  <2>1. next[ch[0][1]].index = IF 1 < Len(ch[0]) THEN ch[0][1 + 1] ELSE BADINDEX
      BY <1>1, <1>2, ChainNext
  <2>2. 1 < Len(ch[0]) => ch2[0][1] = ch[0][1 + 1]
      BY <1>2, <1>4
  <2> QED BY <1>2, <1>4, <2>1, <2>2
<1>6. \A q \in Queue : ch2[q] = ch[q]
    BY <1>1, <1>4
<1>7. Shape(ch2)'
  <2>1. Anchored(ch) /\ head' = head /\ tail' = tail
      BY DEF Shape
  <2>2. \A q \in Queue : Len(ch2[q]) > 0 /\ head'[q].index = ch2[q][1]
      BY <1>6, <2>1 DEF Anchored
  <2>3. \A q \in Queue : \E i \in 1 .. Len(ch2[q]) : tail'[q].index = ch2[q][i]
    <3>1. \A q \in Queue : \E i \in 1 .. Len(ch[q]) : tail'[q].index = ch[q][i]
        BY <2>1 DEF Anchored
    <3> QED BY ONLY <1>6, <3>1
  <2>4. Anchored(ch2)'
      BY <1>5, <2>2, <2>3 DEF Anchored
  <2> QED BY <1>4, <2>4 DEF Shape
<1> QED BY <1>2, <1>4, <1>7

\* The descriptor d becomes the top of the freelist.
Prepend(ch, d) == [ch EXCEPT ![0] = <<d>> \o @]
\* A descriptor that is in no chain is linked to the top and becomes the top.
LEMMA ShapePush ==
    ASSUME NEW ch, Shape(ch), NEW d \in Node, d \notin In(ch),
           next[d].index = top.index, top'.index = d, UNCHANGED <<next, head, tail>>,
           NEW ch2, ch2 = Prepend(ch, d)
    PROVE  /\ Shape(ch2)' /\ In(ch2) = In(ch) \cup {d}
           /\ Len(ch[0]) \in Nat /\ Len(ch2[0]) = Len(ch[0]) + 1 /\ ch2[0][1] = d
           /\ \A i \in 1 .. Len(ch[0]) : ch2[0][i + 1] = ch[0][i]
<1>1. 0 \in Place /\ 0 \notin Queue /\ Queue \subseteq Place
    BY PlaceFacts
<1>2. /\ \A r \in Place : ch[r] \in Seq(Node) /\ Len(ch[r]) \in Nat
      /\ \A r \in Place : \A i \in 1 .. Len(ch[r]) : ch[r][i] \in Node /\ ch[r][i] \in In(ch)
    BY ChainTyped DEF Shape
<1>3. /\ ch2 \in [Place -> Seq(Node)]
      /\ \A r \in Place : r # 0 => ch2[r] = ch[r]
      /\ ch2[0] = <<d>> \o ch[0]
    BY <1>1, <1>2 DEF Shape, Linked, Prepend
<1>4. /\ Len(ch2[0]) = Len(ch[0]) + 1 /\ ch2[0][1] = d
      /\ \A i \in 1 .. Len(ch[0]) : ch2[0][i + 1] = ch[0][i]
    BY <1>1, <1>2, <1>3
<1>5. \A r \in Place : \A j \in 1 .. Len(ch2[r]) :
         \/ r = 0 /\ j = 1 /\ ch2[r][j] = d
         \/ \E i \in 1 .. Len(ch[r]) : ch2[r][j] = ch[r][i] /\ j = IF r = 0 THEN i + 1 ELSE i
  <2> SUFFICES ASSUME NEW r \in Place, NEW j \in 1 .. Len(ch2[r]), r # 0 \/ j # 1
               PROVE \E i \in 1 .. Len(ch[r]) : ch2[r][j] = ch[r][i] /\ j = IF r = 0 THEN i + 1 ELSE i
      BY <1>4
  <2>1. CASE r # 0
      BY <1>3, <2>1
  <2>2. CASE r = 0
    <3>1. j - 1 \in 1 .. Len(ch[0]) /\ (j - 1) + 1 = j
        BY <1>1, <1>2, <1>4, <2>2
    <3>2. ch2[0][j] = ch[0][j - 1]
        BY <1>4, <3>1
    <3> QED BY <2>2, <3>1, <3>2
  <2> QED BY <2>1, <2>2
<1>6. In(ch2) = In(ch) \cup {d}
  <2>1. ASSUME NEW n \in In(ch2) PROVE n \in In(ch) \/ n = d
    <3>1. PICK r \in Place : \E j \in 1 .. Len(ch2[r]) : ch2[r][j] = n
        BY DEF In
    <3>2. PICK j \in 1 .. Len(ch2[r]) : ch2[r][j] = n
        BY <3>1
    <3>3. n = d \/ \E i \in 1 .. Len(ch[r]) : n = ch[r][i]
        BY <1>5, <3>2
    <3> QED BY <1>2, <3>3
  <2>2. ASSUME NEW n \in In(ch) PROVE n \in In(ch2)
    <3>1. PICK r \in Place : \E j \in 1 .. Len(ch[r]) : ch[r][j] = n
        BY DEF In
    <3>2. PICK j \in 1 .. Len(ch[r]) : ch[r][j] = n
        BY <3>1
    <3>3. CASE r # 0
        BY <1>3, <3>2, <3>3 DEF In
    <3>4. CASE r = 0
      <4>1. j + 1 \in 1 .. Len(ch2[0]) /\ ch2[0][j + 1] = n
          BY <1>1, <1>2, <1>4, <3>2, <3>4
      <4> QED BY <1>1, <4>1 DEF In
    <3> QED BY <3>3, <3>4
  <2>3. d \in In(ch2)
    <3>1. 1 \in 1 .. Len(ch2[0])
        BY <1>1, <1>2, <1>4
    <3> QED BY <1>1, <1>4, <3>1 DEF In
  <2> QED BY <2>1, <2>2, <2>3 DEF In
<1>7. \A r \in Place : \A i \in 1 .. Len(ch2[r]) - 1 : next'[ch2[r][i]].index = ch2[r][i + 1]
  <2> SUFFICES ASSUME NEW r \in Place, NEW i \in 1 .. Len(ch2[r]) - 1
               PROVE  next[ch2[r][i]].index = ch2[r][i + 1]
      OBVIOUS
  <2>1. CASE r # 0
      BY <1>3, <2>1 DEF Shape, Linked
  <2>2. CASE r = 0 /\ i = 1
    <3>1. Len(ch[0]) > 0 /\ 1 \in 1 .. Len(ch[0])
        BY <1>1, <1>2, <1>4, <2>2
    <3>2. ch2[0][1 + 1] = ch[0][1] /\ top.index = ch[0][1]
        BY <1>4, <3>1 DEF Shape, Anchored
    <3> QED BY <1>4, <2>2, <3>2
  <2>3. CASE r = 0 /\ i # 1
    <3>0. Len(ch[0]) \in Nat /\ Len(ch2[0]) = Len(ch[0]) + 1 /\ i \in 1 .. Len(ch2[0]) - 1
        BY <1>1, <1>2, <1>4, <2>3
    <3>1. i - 1 \in 1 .. Len(ch[0]) - 1 /\ i - 1 \in 1 .. Len(ch[0]) /\ (i - 1) + 1 = i
            /\ i \in 1 .. Len(ch[0])
        BY <2>3, <3>0
    <3>2. ch2[0][i] = ch[0][i - 1] /\ ch2[0][i + 1] = ch[0][i]
        BY <1>4, <3>1
    <3>3. next[ch[0][i - 1]].index = ch[0][i]
        BY <1>1, <3>1 DEF Shape, Linked
    <3> QED BY <2>3, <3>2, <3>3
  <2> QED BY <2>1, <2>2, <2>3
<1>8. \A r \in Place : Len(ch2[r]) > 0 => next'[ch2[r][Len(ch2[r])]].index = BADINDEX
  <2> SUFFICES ASSUME NEW r \in Place, Len(ch2[r]) > 0
               PROVE  next[ch2[r][Len(ch2[r])]].index = BADINDEX
      OBVIOUS
  <2>1. CASE r # 0
      BY <1>3, <2>1 DEF Shape, Linked
  <2>2. CASE r = 0 /\ Len(ch[0]) = 0
      BY <1>4, <2>2 DEF Shape, Anchored
  <2>3. CASE r = 0 /\ Len(ch[0]) # 0
    <3>1. Len(ch[0]) \in 1 .. Len(ch[0])
        BY <1>1, <1>2, <2>3
    <3>2. ch2[0][Len(ch2[0])] = ch[0][Len(ch[0])] /\ next[ch[0][Len(ch[0])]].index = BADINDEX
        BY <1>1, <1>4, <3>1 DEF Shape, Linked
    <3> QED BY <2>3, <3>2
  <2> QED BY <2>1, <2>2, <2>3
<1>9. \A r, s \in Place : \A i \in 1 .. Len(ch2[r]), j \in 1 .. Len(ch2[s]) :
         ch2[r][i] = ch2[s][j] => r = s /\ i = j
  <2> SUFFICES ASSUME NEW r \in Place, NEW s \in Place, NEW i \in 1 .. Len(ch2[r]),
                      NEW j \in 1 .. Len(ch2[s]),
                      ch2[r][i] = ch2[s][j]
               PROVE  r = s /\ i = j
      OBVIOUS
  <2>1. \/ r = 0 /\ i = 1 /\ ch2[r][i] = d
        \/ \E k \in 1 .. Len(ch[r]) : ch2[r][i] = ch[r][k] /\ i = IF r = 0 THEN k + 1 ELSE k
      BY <1>5
  <2>2. \/ s = 0 /\ j = 1 /\ ch2[s][j] = d
        \/ \E m \in 1 .. Len(ch[s]) : ch2[s][j] = ch[s][m] /\ j = IF s = 0 THEN m + 1 ELSE m
      BY <1>5
  <2>3. CASE (r = 0 /\ i = 1 /\ ch2[r][i] = d) \/ (s = 0 /\ j = 1 /\ ch2[s][j] = d)
      BY <1>2, <2>1, <2>2, <2>3
  <2>4. ASSUME NEW k \in 1 .. Len(ch[r]), ch2[r][i] = ch[r][k], i = IF r = 0 THEN k + 1 ELSE k,
               NEW m \in 1 .. Len(ch[s]), ch2[s][j] = ch[s][m], j = IF s = 0 THEN m + 1 ELSE m
        PROVE  r = s /\ i = j
    <3>1. ch[r][k] = ch[s][m]
        BY <2>4
    <3>2. r = s /\ k = m
        BY <3>1 DEF Shape, Linked
    <3>3. i = j
        BY <2>4, <3>2
    <3> QED BY <3>2, <3>3
  <2> QED
    <3>1. CASE \E k \in 1 .. Len(ch[r]) : ch2[r][i] = ch[r][k] /\ i = IF r = 0 THEN k + 1 ELSE k
      <4>1. CASE \E m \in 1 .. Len(ch[s]) : ch2[s][j] = ch[s][m] /\ j = IF s = 0 THEN m + 1 ELSE m
          BY <2>4, <3>1, <4>1
      <4> QED BY <2>2, <2>3, <4>1
    <3> QED BY <2>1, <2>3, <3>1
<1>10. Linked(ch2)'
    BY <1>3, <1>7, <1>8, <1>9 DEF Linked
<1>11. Anchored(ch2)'
  <2>1. \A q \in Queue : ch2[q] = ch[q]
      BY <1>1, <1>3
  <2>2. Len(ch2[0]) > 0
      BY <1>1, <1>2, <1>4
  <2>3. Anchored(ch) /\ head' = head /\ tail' = tail
      BY DEF Shape
  <2>4. \A q \in Queue : Len(ch2[q]) > 0 /\ head'[q].index = ch2[q][1]
      BY <2>1, <2>3 DEF Anchored
  <2>5. \A q \in Queue : \E i \in 1 .. Len(ch2[q]) : tail'[q].index = ch2[q][i]
      BY <2>1, <2>3 DEF Anchored
  <2>6. top'.index = IF Len(ch2[0]) > 0 THEN ch2[0][1] ELSE BADINDEX
      BY <1>4, <2>2
  <2> QED BY <2>4, <2>5, <2>6 DEF Anchored
<1> QED BY <1>1, <1>2, <1>4, <1>6, <1>10, <1>11 DEF Shape

-----------------------------------------------------------------------------
(***************************************************************************)
(* Counters and history variables.                                         *)
(***************************************************************************)

\* The next value of a counter.
LEMMA BumpFacts ==
    ASSUME NEW c \in Count
    PROVE  /\ Bump(c) \in Count /\ Bump(c) # c
           /\ Bump(c) = IF c + 1 = CountMod THEN 0 ELSE c + 1
<1>1. CountMod \in Nat /\ CountMod > 1 /\ c \in Nat /\ c + 1 <= CountMod
    BY QueueAssumption DEF Count
<1>2. CASE c + 1 = CountMod
  <2>1. (c + 1) % CountMod = 0
      BY <1>1, <1>2
  <2> QED BY <1>1, <1>2, <2>1 DEF Bump, Count
<1>3. CASE c + 1 < CountMod
  <2>1. (c + 1) % CountMod = c + 1
      BY <1>1, <1>3
  <2> QED BY <1>1, <1>3, <2>1 DEF Bump, Count
<1> QED BY <1>1, <1>2, <1>3

\* How old a value of a counter is, when it is younger than one round of it.
LEMMA SinceFacts ==
    ASSUME NEW a \in Count, NEW c \in Count, NEW n \in Nat
    PROVE  /\ Since(a, a, 0)
           /\ Since(a, c, n) /\ n < CountMod => Since(Bump(a), c, n + 1)
           /\ Since(a, c, n) /\ n < CountMod /\ a = c => n = 0
           /\ Since(a, c, n) /\ n + 1 < CountMod => c # Bump(a)
<1>1. /\ a \in Nat /\ c \in Nat /\ a < CountMod /\ c < CountMod /\ CountMod \in Nat
      /\ Bump(a) = IF a + 1 = CountMod THEN 0 ELSE a + 1
    BY BumpFacts, NodeFacts DEF Count
<1>2. Since(a, a, 0)
    BY <1>1 DEF Since
<1>3. Since(a, c, n) /\ n < CountMod => Since(Bump(a), c, n + 1)
    BY <1>1 DEF Since
<1>4. Since(a, c, n) /\ n < CountMod /\ a = c => n = 0
    BY <1>1 DEF Since
<1>5. Since(a, c, n) /\ n + 1 < CountMod => c # Bump(a)
    BY <1>1 DEF Since
<1> QED BY <1>2, <1>3, <1>4, <1>5

\* The types of the history variables.
LagOK ==
    /\ headLag \in [Thread -> Nat] /\ tailLag \in [Thread -> Nat] /\ topLag \in [Thread -> Nat]
    /\ age \in [Node -> Nat]

\* The thread u takes no part in the step.
Still(u) == pc'[u] = pc[u] /\ frame'[u] = frame[u] /\ hand'[u] = hand[u]

\* Only the thread that takes the step moves.
LEMMA ToFacts ==
    ASSUME TypeOK, NEW t \in Thread, NEW l, NEW f, NEW d, To(t, l, f, d)
    PROVE  /\ pc'[t] = l /\ frame'[t] = f /\ hand'[t] = d
           /\ \A u \in Thread : u # t => Still(u)
BY DEF TypeOK, To, Still

\* What a thread that does not move keeps, and how far it falls behind.
LEMMA StillFacts ==
    ASSUME NEW u \in Thread, Still(u), LagNext
    PROVE  /\ Owned(u)' = Owned(u) /\ HoldsHead(u)' = HoldsHead(u) /\ HoldsTail(u)' = HoldsTail(u)
           /\ HoldsTop(u)' = HoldsTop(u) /\ Numbered(u)' = Numbered(u)
           /\ headLag'[u] = IF HeadMoves(frame[u].queue) THEN headLag[u] + 1 ELSE headLag[u]
           /\ tailLag'[u] = IF TailMoves(frame[u].queue) THEN tailLag[u] + 1 ELSE tailLag[u]
           /\ topLag'[u] = Older(topLag[u])
<1>1. Owned(u)' = Owned(u)
    BY DEF Still, Owned
<1>2. HoldsHead(u)' = HoldsHead(u) /\ HoldsTail(u)' = HoldsTail(u) /\ HoldsTop(u)' = HoldsTop(u)
      /\ Numbered(u)' = Numbered(u)
    BY DEF Still, HoldsHead, HoldsTail, HoldsTop, Numbered
<1>3. ~Leaves(u, {"deq_head", "paint_head"}) /\ ~Leaves(u, {"enq_tail", "deq_tail", "paint_tail"})
      /\ ~Leaves(u, {"pop_top"})
    BY DEF Still, Leaves
<1> QED BY <1>1, <1>2, <1>3 DEF LagNext

\* Every step keeps the types of the history variables.
LEMMA LagType ==
    ASSUME LagOK, LagNext, TypeOK
    PROVE  LagOK'
<1>1. \A n \in Nat : Older(n) \in Nat
    BY DEF Older
<1>2. top.index # BADINDEX => age[top.index] \in Nat
    BY NodeFacts DEF LagOK, TypeOK, Link
<1>3. headLag' \in [Thread -> Nat] /\ tailLag' \in [Thread -> Nat]
    BY DEF LagOK, LagNext
<1>4. topLag' \in [Thread -> Nat]
    BY <1>1, <1>2 DEF LagOK, LagNext
<1>5. age' \in [Node -> Nat]
    BY <1>1 DEF LagOK, LagNext
<1> QED BY <1>3, <1>4, <1>5 DEF LagOK

-----------------------------------------------------------------------------
(***************************************************************************)
(* What a step leaves true of the threads that do not take it.             *)
(***************************************************************************)

\* What a step may do to the ends of queue q as far as the other threads go.
HeadStep(q) ==
    \/ /\ head'[q] = head[q]
       /\ tail'[q].index = tail[q].index \/ tail'[q].index # head[q].index
       /\ \/ next'[head[q].index].index = next[head[q].index].index
          \/ next[head[q].index].index = BADINDEX
    \/ head'[q].count = Bump(head[q].count)
\* What a step may do to the tail of q.
TailStep(q) ==
    \/ /\ tail'[q] = tail[q]
       /\ \/ next'[tail[q].index].index = next[tail[q].index].index
          \/ next[tail[q].index].index = BADINDEX
    \/ tail'[q].count = Bump(tail[q].count)

\* What a thread's labels say of its frame.
LEMMA HoldFields ==
    ASSUME TInv, NEW u \in Thread
    PROVE  /\ frame[u] \in Frame /\ hand[u] \in Index /\ Fields(frame[u])
           /\ Role(pc[u], frame[u], hand[u])
           /\ HoldsHead(u) \/ HoldsTail(u) => frame[u].queue \in Queue
           /\ HoldsTop(u) => frame[u].top.index \in Node /\ frame[u].top.count \in Count
           /\ Numbered(u) => frame[u].desc \in Node /\ frame[u].new.count \in Count
                             /\ frame[u].new.index = frame[u].desc
           /\ \A q \in Queue : /\ head[q].count \in Count /\ tail[q].count \in Count
                               /\ head[q].index \in Node /\ tail[q].index \in Node
<1>1. frame[u] \in Frame /\ hand[u] \in Index /\ Role(pc[u], frame[u], hand[u])
    BY DEF TInv, TypeOK, Roles
<1>2. Fields(frame[u])
    BY <1>1, FrameFields
<1>3. HoldsHead(u) \/ HoldsTail(u) => frame[u].queue \in Queue
    BY <1>1 DEF HoldsHead, HoldsTail, Role, PopAt, EnqAt, DeqAt
<1>4. HoldsTop(u) => frame[u].top.index \in Node /\ frame[u].top.count \in Count
    BY <1>1, <1>2, NodeFacts DEF HoldsTop, Role, Fields
<1>5. Numbered(u) => frame[u].desc \in Node /\ frame[u].new.count \in Count
                             /\ frame[u].new.index = frame[u].desc
    BY <1>1, <1>2, NodeFacts DEF Numbered, Role, Fields, PushAt
<1>6. \A q \in Queue : /\ head[q].count \in Count /\ tail[q].count \in Count
                               /\ head[q].index \in Node /\ tail[q].index \in Node
    BY NodeFacts DEF TInv, TypeOK, Ends, Ptr
<1> QED BY <1>1, <1>2, <1>3, <1>4, <1>5, <1>6

\* The facts of a thread that does not move outlive a step of another: the head.
LEMMA OtherHead ==
    ASSUME TInv, LagOK, LagNext, NEW u \in Thread, Still(u), HeadFacts(u), \A q \in Queue : HeadStep(q)
    PROVE  HeadFacts(u)'
<1> DEFINE f == frame[u]
           q == frame[u].queue
<1>1. Owned(u)' = Owned(u) /\ HoldsHead(u)' = HoldsHead(u) /\ pc'[u] = pc[u] /\ frame'[u] = frame[u]
      /\ headLag'[u] = IF HeadMoves(q) THEN headLag[u] + 1 ELSE headLag[u]
    BY StillFacts DEF Still
<1>2. /\ HoldsHead(u) => q \in Queue /\ head[q].count \in Count
      /\ f.head.count \in Count /\ headLag[u] \in Nat /\ f.head.index \in Index
      /\ pc[u] \in {"deq_next", "deq_check"} => HoldsHead(u)
    BY HoldFields DEF Fields, LagOK, HoldsHead
<1>3. CASE ~HoldsHead(u)
    BY <1>1, <1>2, <1>3 DEF HeadFacts
<1>4. CASE HoldsHead(u) /\ head'[q] = head[q] /\ head'[q].count # Bump(head[q].count)
  <2>1. headLag'[u] = headLag[u]
      BY <1>1, <1>4 DEF HeadMoves
  <2>2. /\ tail'[q].index = tail[q].index \/ tail'[q].index # head[q].index
        /\ \/ next'[head[q].index].index = next[head[q].index].index
           \/ next[head[q].index].index = BADINDEX
      BY <1>2, <1>4 DEF HeadStep
  <2>3. /\ headLag[u] < CountMod => Since(head[q].count, f.head.count, headLag[u])
        /\ headLag[u] = 0 => f.head = head[q]
      BY <1>4 DEF HeadFacts
  <2>4. Since(head[q].count, f.head.count, headLag[u])' = Since(head[q].count, f.head.count, headLag[u])
      BY <1>1, <1>4, <2>1 DEF Since
  <2>5. pc[u] \in {"deq_next", "deq_check"} =>
             (headLag[u] = 0 /\ f.tail.index # f.head.index => tail'[q].index # head'[q].index)
      BY <1>4, <2>2 DEF HeadFacts
  <2>6. pc[u] = "deq_check" \/ (HoldsHead(u) /\ pc[u] \notin {"deq_tail", "deq_next", "deq_help"}) =>
             (headLag[u] = 0 /\ f.next.index # BADINDEX => next'[head'[q].index].index = f.next.index)
      BY <1>4, <2>2 DEF HeadFacts
  <2>7. HoldsHead(u) /\ pc[u] \notin {"deq_tail", "deq_next", "deq_check", "deq_help"} =>
             (headLag[u] = 0 => tail'[q].index # head'[q].index)
      BY <1>4, <2>2 DEF HeadFacts
  <2>8. pc[u] = "deq_check" =>
             (headLag[u] = 0 /\ f.next.index = BADINDEX => f.tail.index = f.head.index)
      BY <1>4 DEF HeadFacts
  <2> QED BY <1>1, <1>4, <2>1, <2>3, <2>4, <2>5, <2>6, <2>7, <2>8 DEF HeadFacts
<1>5. CASE HoldsHead(u) /\ head'[q].count = Bump(head[q].count)
  <2>1. HeadMoves(q) /\ headLag'[u] = headLag[u] + 1 /\ headLag'[u] # 0
      BY <1>1, <1>2, <1>5, BumpFacts DEF HeadMoves
  <2>2. headLag'[u] < CountMod => headLag[u] < CountMod
      BY <1>2, <2>1, NodeFacts
  <2>3. headLag'[u] < CountMod => Since(head'[q].count, f.head.count, headLag'[u])
      BY <1>2, <1>5, <2>1, <2>2, SinceFacts DEF HeadFacts
  <2> QED BY <1>1, <1>5, <2>1, <2>3 DEF HeadFacts
<1>6. HoldsHead(u) => head'[q] = head[q] \/ head'[q].count = Bump(head[q].count)
    BY <1>2 DEF HeadStep
<1> QED BY <1>3, <1>4, <1>5, <1>6

\* The tail.
LEMMA OtherTail ==
    ASSUME TInv, LagOK, LagNext, NEW u \in Thread, Still(u), TailFacts(u), \A q \in Queue : TailStep(q)
    PROVE  TailFacts(u)'
<1> DEFINE f == frame[u]
           q == frame[u].queue
<1>1. HoldsTail(u)' = HoldsTail(u) /\ pc'[u] = pc[u] /\ frame'[u] = frame[u]
      /\ tailLag'[u] = IF TailMoves(q) THEN tailLag[u] + 1 ELSE tailLag[u]
    BY StillFacts DEF Still
<1>2. /\ HoldsTail(u) => q \in Queue /\ tail[q].count \in Count
      /\ f.tail.count \in Count /\ tailLag[u] \in Nat
      /\ pc[u] \in {"enq_check", "enq_help", "deq_check", "deq_help", "enq_swing"} => HoldsTail(u)
      /\ pc[u] = "enq_swing" => f.desc # BADINDEX
    BY HoldFields DEF Fields, LagOK, HoldsTail, Role, EnqAt
<1>3. CASE ~HoldsTail(u)
    BY <1>1, <1>2, <1>3 DEF TailFacts
<1>4. CASE HoldsTail(u) /\ tail'[q] = tail[q] /\ tail'[q].count # Bump(tail[q].count)
  <2>1. tailLag'[u] = tailLag[u]
      BY <1>1, <1>4 DEF TailMoves
  <2>2. \/ next'[tail[q].index].index = next[tail[q].index].index
        \/ next[tail[q].index].index = BADINDEX
      BY <1>2, <1>4 DEF TailStep
  <2>3. /\ tailLag[u] < CountMod => Since(tail[q].count, f.tail.count, tailLag[u])
        /\ tailLag[u] = 0 => f.tail = tail[q]
      BY <1>4 DEF TailFacts
  <2>4. Since(tail[q].count, f.tail.count, tailLag[u])' = Since(tail[q].count, f.tail.count, tailLag[u])
      BY <1>1, <1>4, <2>1 DEF Since
  <2>5. pc[u] \in {"enq_check", "enq_help"} =>
             (tailLag[u] = 0 /\ f.next.index # BADINDEX => next'[tail'[q].index].index = f.next.index)
      BY <1>4, <2>2 DEF TailFacts
  <2>6. pc[u] \in {"deq_check", "deq_help"} =>
             (tailLag[u] = 0 /\ f.tail.index = f.head.index /\ f.next.index # BADINDEX
                => next'[tail'[q].index].index = f.next.index)
      BY <1>4, <2>2 DEF TailFacts
  <2>7. pc[u] = "enq_swing" => (tailLag[u] = 0 => next'[tail'[q].index].index = f.desc)
      BY <1>2, <1>4, <2>2 DEF TailFacts
  <2> QED BY <1>1, <1>4, <2>1, <2>3, <2>4, <2>5, <2>6, <2>7 DEF TailFacts
<1>5. CASE HoldsTail(u) /\ tail'[q].count = Bump(tail[q].count)
  <2>1. TailMoves(q) /\ tailLag'[u] = tailLag[u] + 1 /\ tailLag'[u] # 0
      BY <1>1, <1>2, <1>5, BumpFacts DEF TailMoves
  <2>2. tailLag'[u] < CountMod => tailLag[u] < CountMod
      BY <1>2, <2>1, NodeFacts
  <2>3. tailLag'[u] < CountMod => Since(tail'[q].count, f.tail.count, tailLag'[u])
      BY <1>2, <1>5, <2>1, <2>2, SinceFacts DEF TailFacts
  <2> QED BY <1>1, <1>5, <2>1, <2>3 DEF TailFacts
<1>6. HoldsTail(u) => tail'[q] = tail[q] \/ tail'[q].count = Bump(tail[q].count)
    BY <1>2 DEF TailStep
<1> QED BY <1>3, <1>4, <1>5, <1>6

\* The counter of the freelist runs on by at most one number.
CountStep == aba' = aba \/ aba' = Bump(aba)
\* Every step of the freelist's counter makes each number older, but a new one.
Aged(n) == age'[n] = Older(age[n])

\* A number a step older.
LEMMA SinceLater ==
    ASSUME TypeOK, CountStep, NEW c \in Count, NEW n \in Nat, n < CountMod => Since(aba, c, n)
    PROVE  Older(n) < CountMod => Since(aba', c, Older(n))
<1>1. aba \in Count /\ CountMod \in Nat
    BY NodeFacts DEF TypeOK
<1>2. CASE aba' = aba
    BY <1>2 DEF Older
<1>3. CASE aba' # aba
  <2>1. aba' = Bump(aba) /\ Older(n) = n + 1
      BY <1>3 DEF CountStep, Older
  <2>2. n + 1 < CountMod => n < CountMod
      BY <1>1
  <2> QED BY <1>1, <2>1, <2>2, SinceFacts
<1> QED BY <1>2, <1>3

\* The freelist.
LEMMA OtherFree ==
    ASSUME TInv, LagOK, LagNext, NEW u \in Thread, Still(u), CountStep,
           NEW ch, NEW tg, FreeFacts(u, ch, tg), NEW ch2, NEW tg2,
           \A n \in Node : n \in Owned(u) => Same(next'[n], next[n]) /\ Aged(n),
           HoldsTop(u) => \A n \in Node :
              IsFree(ch2, n) /\ tg2[n] = frame[u].top.count /\ n = frame[u].top.index
                => IsFree(ch, n) /\ tg[n] = tg2[n] /\ Same(next'[n], next[n])
    PROVE  FreeFacts(u, ch2, tg2)'
<1> DEFINE f == frame[u]
<1>1. HoldsTop(u)' = HoldsTop(u) /\ pc'[u] = pc[u] /\ frame'[u] = frame[u]
      /\ topLag'[u] = Older(topLag[u])
    BY StillFacts DEF Still
<1>2. /\ HoldsTop(u) => f.top.index \in Node /\ f.top.count \in Count
      /\ Numbered(u) => f.desc \in Node /\ f.new.count \in Count /\ f.desc \in Owned(u)
      /\ topLag[u] \in Nat
    BY HoldFields, NodeFacts DEF LagOK, Owned, Numbered
<1>3. HoldsTop(u) => (topLag'[u] < CountMod => Since(aba', f.top.count, topLag'[u]))
    BY <1>1, <1>2, SinceLater DEF TInv, FreeFacts
<1>4. Numbered(u) => (age'[f.desc] < CountMod => Since(aba', f.new.count, age'[f.desc]))
  <2>1. Numbered(u) => age[f.desc] \in Nat /\ age'[f.desc] = Older(age[f.desc])
      BY <1>2 DEF LagOK, Aged
  <2>2. Numbered(u) => (age[f.desc] < CountMod => Since(aba, f.new.count, age[f.desc]))
      BY DEF FreeFacts, Numbered
  <2> QED BY <1>2, <2>1, <2>2, SinceLater DEF TInv
<1>5. pc[u] = "push_cas" => Same(next'[f.desc], f.top)
  <2>1. pc[u] = "push_cas" => Same(next[f.desc], f.top) /\ Same(next'[f.desc], next[f.desc])
      BY <1>2 DEF FreeFacts, Numbered
  <2> QED BY <2>1 DEF Same
<1>6. pc[u] = "pop_cas" =>
             (IsFree(ch2, f.top.index) /\ tg2[f.top.index] = f.top.count
                => Same(f.new, next'[f.top.index]))
  <2> SUFFICES ASSUME pc[u] = "pop_cas", IsFree(ch2, f.top.index), tg2[f.top.index] = f.top.count
               PROVE  Same(f.new, next'[f.top.index])
      OBVIOUS
  <2>1. HoldsTop(u) /\ f.top.index \in Node
      BY <1>2 DEF HoldsTop
  <2>2. IsFree(ch, f.top.index) /\ tg[f.top.index] = f.top.count
          /\ Same(next'[f.top.index], next[f.top.index])
      BY <2>1
  <2>3. Same(f.new, next[f.top.index])
      BY <2>2 DEF FreeFacts
  <2> QED BY <2>2, <2>3 DEF Same
<1> QED BY <1>1, <1>3, <1>4, <1>5, <1>6 DEF FreeFacts, Numbered, Since, Same, IsFree

\* The descriptor in the thread's hands.
LEMMA OtherLinkage ==
    ASSUME TInv, NEW u \in Thread, Still(u), LinkFacts(u),
           \A n \in Node : n \in Owned(u) => Same(next'[n], next[n])
    PROVE  LinkFacts(u)'
<1> DEFINE f == frame[u]
<1>1. pc'[u] = pc[u] /\ frame'[u] = frame[u]
    BY DEF Still
<1>2. pc[u] \in {"enq_tail", "enq_next", "enq_check", "enq_link", "enq_help"} =>
         f.desc \in Node /\ f.desc \in Owned(u)
  <2>1. pc[u] \in {"enq_tail", "enq_next", "enq_check", "enq_link", "enq_help"} =>
         f.desc \in Index /\ f.desc # BADINDEX /\ hand[u] = f.desc
      BY HoldFields DEF Role, EnqAt, Fields
  <2> QED BY <2>1, NodeFacts DEF Owned
<1>3. pc[u] \in {"enq_tail", "enq_next", "enq_check", "enq_link", "enq_help"} =>
         next'[f.desc].index = next[f.desc].index
    BY <1>2 DEF Same
<1> QED BY <1>1, <1>3 DEF LinkFacts

-----------------------------------------------------------------------------
(***************************************************************************)
(* What a step leaves true of descriptors, their owners and numbers.       *)
(***************************************************************************)

\* What is owned is a descriptor.
LEMMA OwnedNodes ==
    ASSUME TInv, NEW u \in Thread
    PROVE  Owned(u) \subseteq Node
<1>1. frame[u].ret \in Index /\ frame[u].desc \in Index /\ hand[u] \in Index
    BY HoldFields DEF Fields
<1> QED BY <1>1, NodeFacts DEF Owned

\* What a step of t leaves true of the other threads.
LEMMA Bystanders ==
    ASSUME TInv, LagOK, LagNext, NEW ch, NEW tg, Apart(ch), \A u \in Thread : Facts(u, ch, tg),
           NEW t \in Thread, \A u \in Thread : u # t => Still(u),
           CountStep, \A q \in Queue : HeadStep(q) /\ TailStep(q),
           \A n \in Node : n \in Owned(t) \/ n \in In(ch) \/ (Same(next'[n], next[n]) /\ Aged(n)),
           NEW ch2, NEW tg2,
           \A u \in Thread : u # t /\ HoldsTop(u) => \A n \in Node :
              IsFree(ch2, n) /\ tg2[n] = frame[u].top.count /\ n = frame[u].top.index
                => IsFree(ch, n) /\ tg[n] = tg2[n] /\ Same(next'[n], next[n])
    PROVE  \A u \in Thread : u # t => Facts(u, ch2, tg2)'
<1> SUFFICES ASSUME NEW u \in Thread, u # t PROVE Facts(u, ch2, tg2)'
    OBVIOUS
<1>1. HeadFacts(u) /\ TailFacts(u) /\ FreeFacts(u, ch, tg) /\ LinkFacts(u) /\ Still(u)
    BY DEF Facts
<1>2. \A n \in Node : n \in Owned(u) => Same(next'[n], next[n]) /\ Aged(n)
    BY DEF Apart
<1>3. HeadFacts(u)'
    BY <1>1, OtherHead
<1>4. TailFacts(u)'
    BY <1>1, OtherTail
<1>5. FreeFacts(u, ch2, tg2)'
  <2>1. HoldsTop(u) => \A n \in Node :
              IsFree(ch2, n) /\ tg2[n] = frame[u].top.count /\ n = frame[u].top.index
                => IsFree(ch, n) /\ tg[n] = tg2[n] /\ Same(next'[n], next[n])
      OBVIOUS
  <2> QED BY <1>1, <1>2, <2>1, OtherFree
<1>6. LinkFacts(u)'
    BY <1>1, <1>2, OtherLinkage
<1> QED BY <1>3, <1>4, <1>5, <1>6 DEF Facts

\* A descriptor that changes hands is still in one place.
LEMMA ApartMove ==
    ASSUME NEW ch, Apart(ch), LagNext, NEW t \in Thread, \A u \in Thread : u # t => Still(u), NEW ch2,
           Owned(t)' \cup In(ch2) = Owned(t) \cup In(ch), Owned(t)' \cap In(ch2) = {}
    PROVE  Apart(ch2)'
<1>1. \A u \in Thread : u # t => Owned(u)' = Owned(u)
    BY StillFacts
<1>2. \A u \in Thread : Owned(u)' \cap In(ch2) = {}
  <2> SUFFICES ASSUME NEW u \in Thread, u # t PROVE Owned(u)' \cap In(ch2) = {}
      OBVIOUS
  <2>1. Owned(u) \cap (Owned(t) \cup In(ch)) = {}
      BY DEF Apart
  <2> QED BY <1>1, <2>1
<1>3. \A u \in Thread : u # t => Owned(u)' \cap Owned(t)' = {}
  <2> SUFFICES ASSUME NEW u \in Thread, u # t PROVE Owned(u)' \cap Owned(t)' = {}
      OBVIOUS
  <2>1. Owned(u) \cap (Owned(t) \cup In(ch)) = {}
      BY DEF Apart
  <2> QED BY <1>1, <2>1
<1>4. \A u, v \in Thread : u # v => Owned(u)' \cap Owned(v)' = {}
  <2> SUFFICES ASSUME NEW u \in Thread, NEW v \in Thread, u # v PROVE Owned(u)' \cap Owned(v)' = {}
      OBVIOUS
  <2>1. CASE u = t \/ v = t
      BY <1>3, <2>1
  <2>2. CASE u # t /\ v # t
    <3>1. Owned(u)' = Owned(u) /\ Owned(v)' = Owned(v)
        BY <1>1, <2>2
    <3> QED BY <3>1 DEF Apart
  <2> QED BY <2>1, <2>2
<1>5. \A n \in Node : n \in In(ch2) \/ \E u \in Thread : n \in Owned(u)'
  <2> SUFFICES ASSUME NEW n \in Node, n \notin In(ch2) PROVE \E u \in Thread : n \in Owned(u)'
      OBVIOUS
  <2>1. CASE n \in Owned(t) \cup In(ch)
      BY <2>1
  <2>2. CASE n \notin Owned(t) \cup In(ch)
    <3>1. PICK u \in Thread : n \in Owned(u)
        BY <2>2 DEF Apart
    <3> QED BY <1>1, <2>2, <3>1
  <2> QED BY <2>1, <2>2
<1> QED BY <1>2, <1>4, <1>5 DEF Apart, In

\* Numbers stay apart if the step makes no number and no checkpoint that clash.
LEMMA DistinctKept ==
    ASSUME Distinct, LagNext, NEW t \in Thread, \A u \in Thread : u # t => Still(u),
           Numbered(t)' =>
              \/ Numbered(t) /\ frame'[t].desc = frame[t].desc
                   /\ frame'[t].new.count = frame[t].new.count
              \/ \A u \in Thread : u # t /\ HoldsTop(u) /\ frame[u].top.index = frame'[t].desc
                    => frame[u].top.count # frame'[t].new.count,
           HoldsTop(t)' =>
              \/ HoldsTop(t) /\ frame'[t].top = frame[t].top
              \/ \A u \in Thread : u # t /\ Numbered(u) => frame[u].desc # frame'[t].top.index
    PROVE  Distinct'
<1> SUFFICES ASSUME NEW u \in Thread, NEW v \in Thread, Numbered(u)', HoldsTop(v)',
                    frame'[v].top.index = frame'[u].desc
             PROVE  frame'[v].top.count # frame'[u].new.count
    BY DEF Distinct
<1>1. u # v
    BY DEF Numbered, HoldsTop
<1>2. \A w \in Thread : w # t => Numbered(w)' = Numbered(w) /\ HoldsTop(w)' = HoldsTop(w)
        /\ frame'[w] = frame[w]
    BY StillFacts DEF Still
<1>3. CASE u = t
    BY <1>1, <1>2, <1>3 DEF Distinct
<1>4. CASE v = t
    BY <1>1, <1>2, <1>4 DEF Distinct
<1>5. CASE u # t /\ v # t
    BY <1>2, <1>5 DEF Distinct
<1> QED BY <1>3, <1>4, <1>5

\* The ends of a queue, and the top of the freelist, are in the chains.
LEMMA EndsIn ==
    ASSUME NEW ch, Shape(ch)
    PROVE  /\ \A q \in Queue : head[q].index \in In(ch) /\ tail[q].index \in In(ch)
           /\ \A q \in Queue : ~IsFree(ch, head[q].index) /\ ~IsFree(ch, tail[q].index)
           /\ top.index # BADINDEX => top.index \in In(ch) /\ IsFree(ch, top.index)
           /\ \A n \in Node : IsFree(ch, n) => n \in In(ch)
<1>0. Linked(ch) /\ Anchored(ch) /\ 0 \in Place /\ 0 \notin Queue /\ Queue \subseteq Place
    BY PlaceFacts DEF Shape
<1>1. /\ \A p \in Place : ch[p] \in Seq(Node) /\ Len(ch[p]) \in Nat
      /\ \A p \in Place : \A i \in 1 .. Len(ch[p]) : ch[p][i] \in Node /\ ch[p][i] \in In(ch)
    BY <1>0, ChainTyped
<1>2. \A q \in Queue : \E i \in 1 .. Len(ch[q]) : head[q].index = ch[q][i]
    BY <1>0, <1>1 DEF Anchored
<1>3. \A q \in Queue : \E i \in 1 .. Len(ch[q]) : tail[q].index = ch[q][i]
    BY <1>0 DEF Anchored
<1>4. \A q \in Queue : \A i \in 1 .. Len(ch[q]) : ~IsFree(ch, ch[q][i])
    BY <1>0 DEF Linked, IsFree
<1>5. top.index # BADINDEX => top.index \in In(ch) /\ IsFree(ch, top.index)
  <2>1. top.index # BADINDEX => Len(ch[0]) > 0 /\ top.index = ch[0][1]
      BY <1>0 DEF Anchored
  <2>2. top.index # BADINDEX => 1 \in 1 .. Len(ch[0]) /\ top.index = ch[0][1]
      BY <1>0, <1>1, <2>1
  <2> QED BY <1>0, <1>1, <2>2 DEF IsFree
<1>6. \A n \in Node : IsFree(ch, n) => n \in In(ch)
    BY <1>0, <1>1 DEF IsFree
<1>7. \A q \in Queue : head[q].index \in In(ch) /\ tail[q].index \in In(ch)
    BY <1>0, <1>1, <1>2, <1>3
<1>8. \A q \in Queue : ~IsFree(ch, head[q].index) /\ ~IsFree(ch, tail[q].index)
    BY <1>2, <1>3, <1>4
<1> QED BY <1>5, <1>6, <1>7, <1>8

\* Numbers are handed out, and ages run on, only at push_count.
LEMMA AgesKept ==
    ASSUME LagOK, LagNext, NEW t \in Thread, \A u \in Thread : u # t => Still(u), pc[t] # "push_count"
    PROVE  /\ \A n \in Node : Aged(n)
           /\ aba' = aba => \A n \in Node : age'[n] = age[n]
<1>1. \A u \in Thread : ~Leaves(u, {"push_count"})
    BY DEF Leaves, Still
<1>2. \A n \in Node : age'[n] = Older(age[n])
    BY <1>1 DEF LagNext
<1> QED BY <1>2 DEF Aged, Older

\* Numbers and ages stay if the freelist's links, top and counter do.
LEMMA TagsKept ==
    ASSUME NEW ch, NEW tg, Shape(ch), Tags(ch, tg), LagOK,
           \A n \in In(ch) : Same(next'[n], next[n]) \/ ~IsFree(ch, n), top' = top, aba' = aba,
           \A n \in Node : age'[n] = age[n]
    PROVE  Tags(ch, tg)'
<1>1. /\ 0 \in Place /\ Linked(ch) /\ ch[0] \in Seq(Node) /\ Len(ch[0]) \in Nat
      /\ \A i \in 1 .. Len(ch[0]) : ch[0][i] \in Node /\ ch[0][i] \in In(ch) /\ IsFree(ch, ch[0][i])
    BY PlaceFacts, ChainTyped DEF Shape, IsFree
<1>2. \A i \in 1 .. Len(ch[0]) - 1 : next'[ch[0][i]].count = tg[ch[0][i + 1]]
  <2> SUFFICES ASSUME NEW i \in 1 .. Len(ch[0]) - 1 PROVE next'[ch[0][i]].count = tg[ch[0][i + 1]]
      OBVIOUS
  <2>1. i \in 1 .. Len(ch[0]) /\ i < Len(ch[0])
      BY <1>1
  <2>2. next[ch[0][i]].index # BADINDEX
      BY <1>1, <2>1, ChainNext
  <2>3. next'[ch[0][i]].count = next[ch[0][i]].count
      BY <1>1, <2>1, <2>2 DEF Same
  <2> QED BY <2>3 DEF Tags
<1>3. \A i \in 1 .. Len(ch[0]) : age'[ch[0][i]] < CountMod => Since(aba', tg[ch[0][i]], age'[ch[0][i]])
    BY <1>1 DEF Tags
<1> QED BY <1>2, <1>3 DEF Tags, Since

\* A step that moves neither an end nor the top, and rewrites no link but a
\* descriptor's of its own (or a colour, or the counter of a last link).
LEMMA QuietStep ==
    ASSUME TInv, LagOK, LagNext, NEW ch, NEW tg, Good(ch, tg),
           NEW t \in Thread, \A u \in Thread : u # t => Still(u), pc[t] # "push_count",
           UNCHANGED <<head, tail, top, aba>>,
           \A n \in Node : n \in Owned(t) \/ Same(next'[n], next[n]),
           Owned(t)' = Owned(t), Facts(t, ch, tg)',
           Numbered(t)' =>
              Numbered(t) /\ frame'[t].desc = frame[t].desc /\ frame'[t].new.count = frame[t].new.count,
           HoldsTop(t)' => (HoldsTop(t) /\ frame'[t].top = frame[t].top)
             \/ frame'[t].top.index \in In(ch)
    PROVE  Good(ch, tg)'
<1>1. \A u \in Thread : u # t => Still(u)
    OBVIOUS
<1>2. Shape(ch) /\ Tags(ch, tg) /\ Apart(ch) /\ Distinct /\ \A u \in Thread : Facts(u, ch, tg)
    BY DEF Good
<1>3. \A n \in In(ch) : n \in Node /\ Same(next'[n], next[n])
    BY <1>2 DEF Apart, In
<1>4. (\A n \in Node : Aged(n)) /\ (\A n \in Node : age'[n] = age[n])
    BY <1>1, AgesKept
<1>5. Shape(ch)'
    BY <1>2, <1>3, ShapeKeep DEF Same
<1>6. Tags(ch, tg)'
    BY <1>2, <1>3, <1>4, TagsKept
<1>7. Apart(ch)'
  <2>1. Owned(t)' \cup In(ch) = Owned(t) \cup In(ch) /\ Owned(t)' \cap In(ch) = {}
      BY <1>2 DEF Apart
  <2> QED BY <1>1, <1>2, <2>1, ApartMove
<1>8. Distinct'
  <2>1. \A u \in Thread : u # t /\ Numbered(u) => frame[u].desc \in Owned(u)
      BY HoldFields, NodeFacts DEF Numbered, Owned
  <2>2. frame'[t].top.index \in In(ch) =>
           \A u \in Thread : u # t /\ Numbered(u) => frame[u].desc # frame'[t].top.index
      BY <1>1, <1>2, <2>1 DEF Apart
  <2> QED BY <1>1, <1>2, <2>2, DistinctKept
<1>9. \A u \in Thread : u # t => Facts(u, ch, tg)'
  <2>1. \A q \in Queue : HeadStep(q) /\ TailStep(q)
      BY <1>2, <1>3, EndsIn DEF HeadStep, TailStep, Same
  <2>2. \A n \in Node : n \in Owned(t) \/ n \in In(ch) \/ (Same(next'[n], next[n]) /\ Aged(n))
      BY <1>4
  <2>3. \A u \in Thread : u # t /\ HoldsTop(u) => \A n \in Node :
              IsFree(ch, n) /\ tg[n] = frame[u].top.count /\ n = frame[u].top.index
                => IsFree(ch, n) /\ tg[n] = tg[n] /\ Same(next'[n], next[n])
      BY <1>2, <1>3, EndsIn
  <2>4. CountStep
      BY DEF CountStep
  <2> QED BY <1>1, <1>2, <2>1, <2>2, <2>3, <2>4, Bystanders
<1> QED BY <1>5, <1>6, <1>7, <1>8, <1>9 DEF Good

\* Steps that move no head and no tail.
LEMMA QuietLags ==
    ASSUME LagNext, NEW t \in Thread, head' = head, tail' = tail, aba' = aba
    PROVE  /\ headLag'[t] = IF Leaves(t, {"deq_head", "paint_head"}) THEN 0 ELSE headLag[t]
           /\ tailLag'[t] = IF Leaves(t, {"enq_tail", "deq_tail", "paint_tail"}) THEN 0 ELSE tailLag[t]
           /\ topLag'[t] = IF Leaves(t, {"pop_top"})
                /\ top.index # BADINDEX THEN age[top.index] ELSE topLag[t]
BY DEF LagNext, HeadMoves, TailMoves, Older

-----------------------------------------------------------------------------
(***************************************************************************)
(* Each access keeps Good.  First those that change no chain: they read,   *)
(* or write what no one else can reach.                                    *)
(***************************************************************************)

\* The facts an action of t starts from.
LEMMA Start ==
    ASSUME TInv, NEW ch, NEW tg, Good(ch, tg), NEW t \in Thread
    PROVE  /\ TypeOK /\ frame[t] \in Frame /\ Role(pc[t], frame[t], hand[t])
           /\ Fields(frame[t]) /\ hand[t] \in Index
           /\ HeadFacts(t) /\ TailFacts(t) /\ FreeFacts(t, ch, tg) /\ LinkFacts(t)
           /\ Shape(ch) /\ Tags(ch, tg) /\ Apart(ch) /\ Distinct
BY HoldFields DEF Good, Facts, TInv

\* A head without a successor is the tail.
LEMMA LastHead ==
    ASSUME NEW ch, Shape(ch), NEW q \in Queue, next[head[q].index].index = BADINDEX
    PROVE  tail[q].index = head[q].index
<1>1. q \in Place /\ Linked(ch) /\ Anchored(ch)
    BY PlaceFacts DEF Shape
<1>2. Len(ch[q]) \in Nat /\ Len(ch[q]) > 0 /\ head[q].index = ch[q][1] /\ 1 \in 1 .. Len(ch[q])
  <2>1. Len(ch[q]) \in Nat
      BY <1>1, ChainTyped
  <2> QED BY <1>1, <2>1 DEF Anchored
<1>3. Len(ch[q]) = 1
  <2>1. \A i \in 1 .. Len(ch[q]) : i < Len(ch[q]) => next[ch[q][i]].index # BADINDEX
    <3> TAKE i \in 1 .. Len(ch[q])
    <3>1. q \in Place /\ Linked(ch)
        BY <1>1
    <3> QED BY <3>1, ChainNext
  <2>2. next[ch[q][1]].index = BADINDEX
      BY <1>2
  <2>3. ~(1 < Len(ch[q]))
      BY <1>2, <2>1, <2>2, Zenon
  <2>4. \A n \in Nat : n > 0 /\ ~(1 < n) => n = 1
      OBVIOUS
  <2> QED BY <1>2, <2>3, <2>4, Zenon
<1>4. PICK i \in 1 .. Len(ch[q]) : tail[q].index = ch[q][i]
    BY <1>1 DEF Anchored
<1> QED BY <1>2, <1>3, <1>4

\* __freelist_remove and __freelist_add.
LEMMA PopTopGood ==
    ASSUME TInv, LagOK, LagNext, NEW ch, NEW tg, Good(ch, tg), NEW t \in Thread, PopTop(t)
    PROVE  Good(ch, tg)'
<1>1. /\ TypeOK /\ pc[t] = "pop_top" /\ frame[t] \in Frame /\ Role("pop_top", frame[t], hand[t])
      /\ Fields(frame[t]) /\ hand[t] \in Index
      /\ HeadFacts(t) /\ TailFacts(t) /\ FreeFacts(t, ch, tg) /\ LinkFacts(t)
      /\ Shape(ch) /\ Tags(ch, tg) /\ Apart(ch)
    BY Start DEF PopTop
<1>2. CASE top.index # BADINDEX
  <2>1. To(t, "pop_next", [frame[t] EXCEPT !.top = top], hand[t])
          /\ UNCHANGED <<next, head, tail, top, aba>>
      BY <1>1, <1>2, PopTopEffect DEF shared
  <2>2. pc'[t] = "pop_next" /\ frame'[t] = [frame[t] EXCEPT !.top = top] /\ hand'[t] = hand[t]
          /\ \A u \in Thread : u # t => Still(u)
      BY <1>1, <2>1, ToFacts
  <2>3. /\ headLag'[t] = headLag[t]
        /\ tailLag'[t] = tailLag[t]
        /\ topLag'[t] = IF top.index # BADINDEX THEN age[top.index] ELSE topLag[t]
      BY <1>1, <2>1, <2>2, QuietLags DEF Leaves
  <2>4. \A n \in Node : n \in Owned(t) \/ Same(next'[n], next[n])
      BY <2>1 DEF Same
  <2>5. HeadFacts(t)'
      BY <1>1, <1>2, <2>1, <2>2, <2>3 DEF HeadFacts, HoldsHead, Since, Frame
  <2>6. TailFacts(t)'
      BY <1>1, <1>2, <2>1, <2>2, <2>3 DEF TailFacts, HoldsTail, Since, Frame
  <2>7. FreeFacts(t, ch, tg)'
    <3>1. top.index = ch[0][1] /\ Len(ch[0]) > 0
        BY <1>1, <1>2 DEF Shape, Anchored
    <3>2. 1 \in 1 .. Len(ch[0])
        BY <1>1, <3>1, ChainTyped, PlaceFacts DEF Shape
    <3>3. age[top.index] < CountMod => Since(aba, top.count, age[top.index])
        BY <1>1, <3>1, <3>2 DEF Tags
    <3>4. frame'[t].top = top
        BY <1>1, <2>2 DEF Frame
    <3> QED BY <1>2, <2>1, <2>2, <2>3, <3>3, <3>4 DEF FreeFacts, Since
  <2>8. LinkFacts(t)'
      BY <1>1, <1>2, <2>1, <2>2, <2>3 DEF LinkFacts, Frame
  <2>9. Owned(t)' = Owned(t)
      BY <1>1, <1>2, <2>1, <2>2, <2>3 DEF Owned, Role, PopAt, PushAt, EnqAt, DeqAt, PaintAt, Frame
  <2>10. /\ Numbered(t)' => Numbered(t) /\ frame'[t].desc = frame[t].desc
              /\ frame'[t].new.count = frame[t].new.count
         /\ HoldsTop(t)' => (HoldsTop(t) /\ frame'[t].top = frame[t].top)
              \/ frame'[t].top.index \in In(ch)
      BY <1>1, <1>2, <2>2, EndsIn DEF Numbered, Frame
  <2>11. pc[t] # "push_count"
      BY <1>1
  <2>12. Facts(t, ch, tg)'
      BY <2>5, <2>6, <2>7, <2>8 DEF Facts
  <2> QED BY <2>1, <2>2, <2>4, <2>9, <2>10, <2>11, <2>12, QuietStep
<1>3. CASE top.index = BADINDEX /\ frame[t].back = "alloc"
  <2>1. To(t, "idle", EmptyFrame, BADINDEX) /\ UNCHANGED <<next, head, tail, top, aba>>
      BY <1>1, <1>3, PopTopEffect DEF shared
  <2>2. pc'[t] = "idle" /\ frame'[t] = EmptyFrame /\ hand'[t] = BADINDEX /\ \A u \in Thread : u # t
          => Still(u)
      BY <1>1, <2>1, ToFacts
  <2>3. /\ headLag'[t] = headLag[t]
        /\ tailLag'[t] = tailLag[t]
        /\ topLag'[t] = IF top.index # BADINDEX THEN age[top.index] ELSE topLag[t]
      BY <1>1, <2>1, <2>2, QuietLags DEF Leaves
  <2>4. \A n \in Node : n \in Owned(t) \/ Same(next'[n], next[n])
      BY <2>1 DEF Same
  <2>5. HeadFacts(t)'
      BY <1>1, <1>3, <2>1, <2>2, <2>3 DEF HeadFacts, HoldsHead, Since, Frame, EmptyFrame
  <2>6. TailFacts(t)'
      BY <1>1, <1>3, <2>1, <2>2, <2>3 DEF TailFacts, HoldsTail, Since, Frame, EmptyFrame
  <2>7. FreeFacts(t, ch, tg)'
      BY <1>1, <1>3, <2>1, <2>2, <2>3 DEF FreeFacts, HoldsTop, Since, Same, IsFree, Frame, EmptyFrame
  <2>8. LinkFacts(t)'
      BY <1>1, <1>3, <2>1, <2>2, <2>3 DEF LinkFacts, Frame, EmptyFrame
  <2>9. Owned(t)' = Owned(t)
      BY <1>1, <1>3, <2>1, <2>2, <2>3 DEF Owned, Role, PopAt, PushAt, EnqAt, DeqAt, PaintAt, Frame,
         EmptyFrame
  <2>10. /\ Numbered(t)' => Numbered(t) /\ frame'[t].desc = frame[t].desc
              /\ frame'[t].new.count = frame[t].new.count
         /\ HoldsTop(t)' => (HoldsTop(t) /\ frame'[t].top = frame[t].top)
              \/ frame'[t].top.index \in In(ch)
      BY <1>1, <1>3, <2>1, <2>2, <2>3 DEF Numbered, HoldsTop, Frame, EmptyFrame
  <2>11. pc[t] # "push_count"
      BY <1>1
  <2>12. Facts(t, ch, tg)'
      BY <2>5, <2>6, <2>7, <2>8 DEF Facts
  <2> QED BY <2>1, <2>2, <2>4, <2>9, <2>10, <2>11, <2>12, QuietStep
<1>4. CASE top.index = BADINDEX /\ frame[t].back # "alloc"
  <2>1. To(t, "bug", frame[t], hand[t]) /\ UNCHANGED <<next, head, tail, top, aba>>
      BY <1>1, <1>4, PopTopEffect DEF shared
  <2>2. pc'[t] = "bug" /\ frame'[t] = frame[t] /\ hand'[t] = hand[t] /\ \A u \in Thread : u # t
          => Still(u)
      BY <1>1, <2>1, ToFacts
  <2>3. /\ headLag'[t] = headLag[t]
        /\ tailLag'[t] = tailLag[t]
        /\ topLag'[t] = IF top.index # BADINDEX THEN age[top.index] ELSE topLag[t]
      BY <1>1, <2>1, <2>2, QuietLags DEF Leaves
  <2>4. \A n \in Node : n \in Owned(t) \/ Same(next'[n], next[n])
      BY <2>1 DEF Same
  <2>5. HeadFacts(t)'
      BY <1>1, <1>4, <2>1, <2>2, <2>3 DEF HeadFacts, HoldsHead, Since, Frame
  <2>6. TailFacts(t)'
      BY <1>1, <1>4, <2>1, <2>2, <2>3 DEF TailFacts, HoldsTail, Since, Frame
  <2>7. FreeFacts(t, ch, tg)'
      BY <1>1, <1>4, <2>1, <2>2, <2>3 DEF FreeFacts, HoldsTop, Since, Same, IsFree, Frame
  <2>8. LinkFacts(t)'
      BY <1>1, <1>4, <2>1, <2>2, <2>3 DEF LinkFacts, Frame
  <2>9. Owned(t)' = Owned(t)
      BY <1>1, <1>4, <2>1, <2>2, <2>3 DEF Owned, Role, PopAt, PushAt, EnqAt, DeqAt, PaintAt, Frame
  <2>10. /\ Numbered(t)' => Numbered(t) /\ frame'[t].desc = frame[t].desc
              /\ frame'[t].new.count = frame[t].new.count
         /\ HoldsTop(t)' => (HoldsTop(t) /\ frame'[t].top = frame[t].top)
              \/ frame'[t].top.index \in In(ch)
      BY <1>1, <1>4, <2>1, <2>2, <2>3 DEF Numbered, HoldsTop, Frame
  <2>11. pc[t] # "push_count"
      BY <1>1
  <2>12. Facts(t, ch, tg)'
      BY <2>5, <2>6, <2>7, <2>8 DEF Facts
  <2> QED BY <2>1, <2>2, <2>4, <2>9, <2>10, <2>11, <2>12, QuietStep
<1> QED BY <1>1, <1>2, <1>3, <1>4, PopTopEffect

LEMMA PopNextGood ==
    ASSUME TInv, LagOK, LagNext, NEW ch, NEW tg, Good(ch, tg), NEW t \in Thread, PopNext(t)
    PROVE  Good(ch, tg)'
<1>1. /\ TypeOK /\ pc[t] = "pop_next" /\ frame[t] \in Frame /\ Role("pop_next", frame[t], hand[t])
      /\ Fields(frame[t]) /\ hand[t] \in Index
      /\ HeadFacts(t) /\ TailFacts(t) /\ FreeFacts(t, ch, tg) /\ LinkFacts(t)
      /\ Shape(ch) /\ Tags(ch, tg) /\ Apart(ch)
    BY Start DEF PopNext
<1> QED
  <2>1. To(t, "pop_cas", [frame[t] EXCEPT !.new = next[frame[t].top.index]], hand[t])
          /\ UNCHANGED <<next, head, tail, top, aba>>
      BY <1>1, PopNextEffect DEF shared
  <2>2. pc'[t] = "pop_cas" /\ frame'[t] = [frame[t] EXCEPT !.new = next[frame[t].top.index]]
          /\ hand'[t] = hand[t] /\ \A u \in Thread : u # t => Still(u)
      BY <1>1, <2>1, ToFacts
  <2>3. /\ headLag'[t] = headLag[t]
        /\ tailLag'[t] = tailLag[t]
        /\ topLag'[t] = topLag[t]
      BY <1>1, <2>1, <2>2, QuietLags DEF Leaves
  <2>4. \A n \in Node : n \in Owned(t) \/ Same(next'[n], next[n])
      BY <2>1 DEF Same
  <2>5. HeadFacts(t)'
      BY <1>1, <2>1, <2>2, <2>3 DEF HeadFacts, HoldsHead, Since, Frame
  <2>6. TailFacts(t)'
      BY <1>1, <2>1, <2>2, <2>3 DEF TailFacts, HoldsTail, Since, Frame
  <2>7. FreeFacts(t, ch, tg)'
      BY <1>1, <2>1, <2>2, <2>3 DEF FreeFacts, HoldsTop, Since, Same, IsFree, Frame
  <2>8. LinkFacts(t)'
      BY <1>1, <2>1, <2>2, <2>3 DEF LinkFacts, Frame
  <2>9. Owned(t)' = Owned(t)
      BY <1>1, <2>1, <2>2, <2>3 DEF Owned, Role, PopAt, PushAt, EnqAt, DeqAt, PaintAt, Frame
  <2>10. /\ Numbered(t)' => Numbered(t) /\ frame'[t].desc = frame[t].desc
              /\ frame'[t].new.count = frame[t].new.count
         /\ HoldsTop(t)' => (HoldsTop(t) /\ frame'[t].top = frame[t].top)
              \/ frame'[t].top.index \in In(ch)
      BY <1>1, <2>1, <2>2, <2>3 DEF Numbered, HoldsTop, Frame
  <2>11. pc[t] # "push_count"
      BY <1>1
  <2>12. Facts(t, ch, tg)'
      BY <2>5, <2>6, <2>7, <2>8 DEF Facts
  <2> QED BY <2>1, <2>2, <2>4, <2>9, <2>10, <2>11, <2>12, QuietStep

LEMMA PushLinkGood ==
    ASSUME TInv, LagOK, LagNext, NEW ch, NEW tg, Good(ch, tg), NEW t \in Thread, PushLink(t)
    PROVE  Good(ch, tg)'
<1>1. /\ TypeOK /\ pc[t] = "push_link" /\ frame[t] \in Frame /\ Role("push_link", frame[t], hand[t])
      /\ Fields(frame[t]) /\ hand[t] \in Index
      /\ HeadFacts(t) /\ TailFacts(t) /\ FreeFacts(t, ch, tg) /\ LinkFacts(t)
      /\ Shape(ch) /\ Tags(ch, tg) /\ Apart(ch)
    BY Start DEF PushLink
<1> QED
  <2>1. To(t, "push_cas", [frame[t] EXCEPT !.top = top], hand[t]) /\ UNCHANGED <<head, tail, top, aba>>
      BY <1>1, PushLinkEffect DEF shared
  <2>2. pc'[t] = "push_cas" /\ frame'[t] = [frame[t] EXCEPT !.top = top] /\ hand'[t] = hand[t]
          /\ \A u \in Thread : u # t => Still(u)
      BY <1>1, <2>1, ToFacts
  <2>3. /\ headLag'[t] = headLag[t]
        /\ tailLag'[t] = tailLag[t]
        /\ topLag'[t] = topLag[t]
      BY <1>1, <2>1, <2>2, QuietLags DEF Leaves
  <2>4. \A n \in Node : n \in Owned(t) \/ Same(next'[n], next[n])
    <3>1. next' = [next EXCEPT ![frame[t].desc] = top] /\ frame[t].desc \in Owned(t)
        BY <1>1, PushLinkEffect DEF Owned, Role, PushAt
    <3> QED BY <1>1, <3>1 DEF Same, TypeOK
  <2>5. HeadFacts(t)'
      BY <1>1, <2>1, <2>2, <2>3 DEF HeadFacts, HoldsHead, Since, Frame
  <2>6. TailFacts(t)'
      BY <1>1, <2>1, <2>2, <2>3 DEF TailFacts, HoldsTail, Since, Frame
  <2>7. FreeFacts(t, ch, tg)'
    <3>1. next' = [next EXCEPT ![frame[t].desc] = top] /\ frame[t].desc \in Node
        BY <1>1, PushLinkEffect, NodeFacts DEF Role, PushAt, Fields
    <3>2. next'[frame[t].desc] = top
        BY <1>1, <3>1 DEF TypeOK
    <3>3. frame'[t].desc = frame[t].desc /\ frame'[t].top = top /\ frame'[t].new = frame[t].new
        BY <1>1, <2>2 DEF Frame
    <3>4. \A n \in Node : age'[n] = age[n]
        BY <1>1, <2>1, AgesKept, ToFacts
    <3> QED BY <1>1, <2>1, <2>2, <3>1, <3>2, <3>3, <3>4 DEF FreeFacts, HoldsTop, Same, Since
  <2>8. LinkFacts(t)'
      BY <1>1, <2>1, <2>2, <2>3 DEF LinkFacts, Frame
  <2>9. Owned(t)' = Owned(t)
      BY <1>1, <2>1, <2>2, <2>3 DEF Owned, Role, PopAt, PushAt, EnqAt, DeqAt, PaintAt, Frame
  <2>10. /\ Numbered(t)' => Numbered(t) /\ frame'[t].desc = frame[t].desc
              /\ frame'[t].new.count = frame[t].new.count
         /\ HoldsTop(t)' => (HoldsTop(t) /\ frame'[t].top = frame[t].top)
              \/ frame'[t].top.index \in In(ch)
      BY <1>1, <2>1, <2>2, <2>3 DEF Numbered, HoldsTop, Frame
  <2>11. pc[t] # "push_count"
      BY <1>1
  <2>12. Facts(t, ch, tg)'
      BY <2>5, <2>6, <2>7, <2>8 DEF Facts
  <2> QED BY <2>1, <2>2, <2>4, <2>9, <2>10, <2>11, <2>12, QuietStep

\* mig_enqueue.
LEMMA EnqTailGood ==
    ASSUME TInv, LagOK, LagNext, NEW ch, NEW tg, Good(ch, tg), NEW t \in Thread, EnqTail(t)
    PROVE  Good(ch, tg)'
<1>1. /\ TypeOK /\ pc[t] = "enq_tail" /\ frame[t] \in Frame /\ Role("enq_tail", frame[t], hand[t])
      /\ Fields(frame[t]) /\ hand[t] \in Index
      /\ HeadFacts(t) /\ TailFacts(t) /\ FreeFacts(t, ch, tg) /\ LinkFacts(t)
      /\ Shape(ch) /\ Tags(ch, tg) /\ Apart(ch)
    BY Start DEF EnqTail
<1> QED
  <2>1. To(t, "enq_next", [frame[t] EXCEPT !.tail = tail[frame[t].queue]], hand[t])
          /\ UNCHANGED <<next, head, tail, top, aba>>
      BY <1>1, EnqTailEffect DEF shared
  <2>2. pc'[t] = "enq_next" /\ frame'[t] = [frame[t] EXCEPT !.tail = tail[frame[t].queue]]
          /\ hand'[t] = hand[t] /\ \A u \in Thread : u # t => Still(u)
      BY <1>1, <2>1, ToFacts
  <2>3. /\ headLag'[t] = headLag[t]
        /\ tailLag'[t] = 0
        /\ topLag'[t] = topLag[t]
      BY <1>1, <2>1, <2>2, QuietLags DEF Leaves
  <2>4. \A n \in Node : n \in Owned(t) \/ Same(next'[n], next[n])
      BY <2>1 DEF Same
  <2>5. HeadFacts(t)'
      BY <1>1, <2>1, <2>2, <2>3 DEF HeadFacts, HoldsHead, Since, Frame
  <2>6. TailFacts(t)'
    <3>1. frame[t].queue \in Queue
        BY <1>1 DEF Role, EnqAt
    <3>2. frame'[t].tail = tail[frame[t].queue] /\ frame'[t].queue = frame[t].queue
        BY <1>1, <2>2 DEF Frame
    <3>3. tail[frame[t].queue].count \in Count
        BY <3>1, HoldFields
    <3>4. Since(tail[frame[t].queue].count, tail[frame[t].queue].count, 0)
        BY <3>3, SinceFacts
    <3> QED BY <1>1, <2>1, <2>2, <2>3, <3>2, <3>4 DEF TailFacts, HoldsTail, Since
  <2>7. FreeFacts(t, ch, tg)'
      BY <1>1, <2>1, <2>2, <2>3 DEF FreeFacts, HoldsTop, Since, Same, IsFree, Frame
  <2>8. LinkFacts(t)'
      BY <1>1, <2>1, <2>2, <2>3 DEF LinkFacts, Frame
  <2>9. Owned(t)' = Owned(t)
      BY <1>1, <2>1, <2>2, <2>3 DEF Owned, Role, PopAt, PushAt, EnqAt, DeqAt, PaintAt, Frame
  <2>10. /\ Numbered(t)' => Numbered(t) /\ frame'[t].desc = frame[t].desc
              /\ frame'[t].new.count = frame[t].new.count
         /\ HoldsTop(t)' => (HoldsTop(t) /\ frame'[t].top = frame[t].top)
              \/ frame'[t].top.index \in In(ch)
      BY <1>1, <2>1, <2>2, <2>3 DEF Numbered, HoldsTop, Frame
  <2>11. pc[t] # "push_count"
      BY <1>1
  <2>12. Facts(t, ch, tg)'
      BY <2>5, <2>6, <2>7, <2>8 DEF Facts
  <2> QED BY <2>1, <2>2, <2>4, <2>9, <2>10, <2>11, <2>12, QuietStep

LEMMA EnqNextGood ==
    ASSUME TInv, LagOK, LagNext, NEW ch, NEW tg, Good(ch, tg), NEW t \in Thread, EnqNext(t)
    PROVE  Good(ch, tg)'
<1>1. /\ TypeOK /\ pc[t] = "enq_next" /\ frame[t] \in Frame /\ Role("enq_next", frame[t], hand[t])
      /\ Fields(frame[t]) /\ hand[t] \in Index
      /\ HeadFacts(t) /\ TailFacts(t) /\ FreeFacts(t, ch, tg) /\ LinkFacts(t)
      /\ Shape(ch) /\ Tags(ch, tg) /\ Apart(ch)
    BY Start DEF EnqNext
<1> QED
  <2>1. To(t, "enq_check", [frame[t] EXCEPT !.next = next[frame[t].tail.index]], hand[t])
          /\ UNCHANGED <<next, head, tail, top, aba>>
      BY <1>1, EnqNextEffect DEF shared
  <2>2. pc'[t] = "enq_check" /\ frame'[t] = [frame[t] EXCEPT !.next = next[frame[t].tail.index]]
          /\ hand'[t] = hand[t] /\ \A u \in Thread : u # t => Still(u)
      BY <1>1, <2>1, ToFacts
  <2>3. /\ headLag'[t] = headLag[t]
        /\ tailLag'[t] = tailLag[t]
        /\ topLag'[t] = topLag[t]
      BY <1>1, <2>1, <2>2, QuietLags DEF Leaves
  <2>4. \A n \in Node : n \in Owned(t) \/ Same(next'[n], next[n])
      BY <2>1 DEF Same
  <2>5. HeadFacts(t)'
      BY <1>1, <2>1, <2>2, <2>3 DEF HeadFacts, HoldsHead, Since, Frame
  <2>6. TailFacts(t)'
      BY <1>1, <2>1, <2>2, <2>3 DEF TailFacts, HoldsTail, Since, Frame
  <2>7. FreeFacts(t, ch, tg)'
      BY <1>1, <2>1, <2>2, <2>3 DEF FreeFacts, HoldsTop, Since, Same, IsFree, Frame
  <2>8. LinkFacts(t)'
      BY <1>1, <2>1, <2>2, <2>3 DEF LinkFacts, Frame
  <2>9. Owned(t)' = Owned(t)
      BY <1>1, <2>1, <2>2, <2>3 DEF Owned, Role, PopAt, PushAt, EnqAt, DeqAt, PaintAt, Frame
  <2>10. /\ Numbered(t)' => Numbered(t) /\ frame'[t].desc = frame[t].desc
              /\ frame'[t].new.count = frame[t].new.count
         /\ HoldsTop(t)' => (HoldsTop(t) /\ frame'[t].top = frame[t].top)
              \/ frame'[t].top.index \in In(ch)
      BY <1>1, <2>1, <2>2, <2>3 DEF Numbered, HoldsTop, Frame
  <2>11. pc[t] # "push_count"
      BY <1>1
  <2>12. Facts(t, ch, tg)'
      BY <2>5, <2>6, <2>7, <2>8 DEF Facts
  <2> QED BY <2>1, <2>2, <2>4, <2>9, <2>10, <2>11, <2>12, QuietStep

LEMMA EnqCheckGood ==
    ASSUME TInv, LagOK, LagNext, NEW ch, NEW tg, Good(ch, tg), NEW t \in Thread, EnqCheck(t)
    PROVE  Good(ch, tg)'
<1>1. /\ TypeOK /\ pc[t] = "enq_check" /\ frame[t] \in Frame /\ Role("enq_check", frame[t], hand[t])
      /\ Fields(frame[t]) /\ hand[t] \in Index
      /\ HeadFacts(t) /\ TailFacts(t) /\ FreeFacts(t, ch, tg) /\ LinkFacts(t)
      /\ Shape(ch) /\ Tags(ch, tg) /\ Apart(ch)
    BY Start DEF EnqCheck
<1>2. CASE frame[t].tail # tail[frame[t].queue]
  <2>1. To(t, "enq_tail", Retry(frame[t]), hand[t]) /\ UNCHANGED <<next, head, tail, top, aba>>
      BY <1>1, <1>2, EnqCheckEffect DEF shared
  <2>2. pc'[t] = "enq_tail" /\ frame'[t] = Retry(frame[t]) /\ hand'[t] = hand[t]
          /\ \A u \in Thread : u # t => Still(u)
      BY <1>1, <2>1, ToFacts
  <2>3. /\ headLag'[t] = headLag[t]
        /\ tailLag'[t] = tailLag[t]
        /\ topLag'[t] = topLag[t]
      BY <1>1, <2>1, <2>2, QuietLags DEF Leaves
  <2>4. \A n \in Node : n \in Owned(t) \/ Same(next'[n], next[n])
      BY <2>1 DEF Same
  <2>5. HeadFacts(t)'
      BY <1>1, <1>2, <2>1, <2>2, <2>3 DEF HeadFacts, HoldsHead, Since, Frame, Retry
  <2>6. TailFacts(t)'
      BY <1>1, <1>2, <2>1, <2>2, <2>3 DEF TailFacts, HoldsTail, Since, Frame, Retry
  <2>7. FreeFacts(t, ch, tg)'
      BY <1>1, <1>2, <2>1, <2>2, <2>3 DEF FreeFacts, HoldsTop, Since, Same, IsFree, Frame, Retry
  <2>8. LinkFacts(t)'
      BY <1>1, <1>2, <2>1, <2>2, <2>3 DEF LinkFacts, Frame, Retry
  <2>9. Owned(t)' = Owned(t)
      BY <1>1, <1>2, <2>1, <2>2, <2>3 DEF Owned, Role, PopAt, PushAt, EnqAt, DeqAt, PaintAt, Frame,
         Retry
  <2>10. /\ Numbered(t)' => Numbered(t) /\ frame'[t].desc = frame[t].desc
              /\ frame'[t].new.count = frame[t].new.count
         /\ HoldsTop(t)' => (HoldsTop(t) /\ frame'[t].top = frame[t].top)
              \/ frame'[t].top.index \in In(ch)
      BY <1>1, <1>2, <2>1, <2>2, <2>3 DEF Numbered, HoldsTop, Frame, Retry
  <2>11. pc[t] # "push_count"
      BY <1>1
  <2>12. Facts(t, ch, tg)'
      BY <2>5, <2>6, <2>7, <2>8 DEF Facts
  <2> QED BY <2>1, <2>2, <2>4, <2>9, <2>10, <2>11, <2>12, QuietStep
<1>3. CASE frame[t].tail = tail[frame[t].queue] /\ frame[t].next.index = BADINDEX
  <2>1. To(t, "enq_link", frame[t], hand[t]) /\ UNCHANGED <<head, tail, top, aba>>
      BY <1>1, <1>3, EnqCheckEffect DEF shared
  <2>2. pc'[t] = "enq_link" /\ frame'[t] = frame[t] /\ hand'[t] = hand[t] /\ \A u \in Thread : u # t
          => Still(u)
      BY <1>1, <2>1, ToFacts
  <2>3. /\ headLag'[t] = headLag[t]
        /\ tailLag'[t] = tailLag[t]
        /\ topLag'[t] = topLag[t]
      BY <1>1, <2>1, <2>2, QuietLags DEF Leaves
  <2>4. \A n \in Node : n \in Owned(t) \/ Same(next'[n], next[n])
    <3>1. next' = [next EXCEPT ![frame[t].desc] = [next[frame[t].desc] EXCEPT !.color = frame[t].next.color]]
        BY <1>1, <1>3, EnqCheckEffect
    <3>2. frame[t].desc \in Owned(t)
        BY <1>1 DEF Owned, Role, EnqAt
    <3> QED BY <1>1, <3>1, <3>2 DEF Same, TypeOK
  <2>5. HeadFacts(t)'
      BY <1>1, <1>3, <2>1, <2>2, <2>3 DEF HeadFacts, HoldsHead, Since, Frame
  <2>6. TailFacts(t)'
      BY <1>1, <2>1, <2>2, <2>3 DEF TailFacts, HoldsTail, Since
  <2>7. FreeFacts(t, ch, tg)'
      BY <1>1, <1>3, <2>1, <2>2, <2>3 DEF FreeFacts, HoldsTop, Since, Same, IsFree, Frame
  <2>8. LinkFacts(t)'
    <3>1. next' = [next EXCEPT ![frame[t].desc] = [next[frame[t].desc] EXCEPT !.color = frame[t].next.color]]
        BY <1>1, <1>3, EnqCheckEffect
    <3>2. frame[t].desc \in Node /\ next[frame[t].desc] \in Link
        BY <1>1, NodeFacts DEF Role, EnqAt, Fields, TypeOK
    <3>3. next'[frame[t].desc].index = next[frame[t].desc].index
        BY <1>1, <3>1, <3>2 DEF TypeOK, Link
    <3> QED BY <1>1, <2>2, <3>3 DEF LinkFacts
  <2>9. Owned(t)' = Owned(t)
      BY <1>1, <1>3, <2>1, <2>2, <2>3 DEF Owned, Role, PopAt, PushAt, EnqAt, DeqAt, PaintAt, Frame
  <2>10. /\ Numbered(t)' => Numbered(t) /\ frame'[t].desc = frame[t].desc
              /\ frame'[t].new.count = frame[t].new.count
         /\ HoldsTop(t)' => (HoldsTop(t) /\ frame'[t].top = frame[t].top)
              \/ frame'[t].top.index \in In(ch)
      BY <1>1, <1>3, <2>1, <2>2, <2>3 DEF Numbered, HoldsTop, Frame
  <2>11. pc[t] # "push_count"
      BY <1>1
  <2>12. Facts(t, ch, tg)'
      BY <2>5, <2>6, <2>7, <2>8 DEF Facts
  <2> QED BY <2>1, <2>2, <2>4, <2>9, <2>10, <2>11, <2>12, QuietStep
<1>4. CASE frame[t].tail = tail[frame[t].queue] /\ frame[t].next.index # BADINDEX
  <2>1. To(t, "enq_help", frame[t], hand[t]) /\ UNCHANGED <<next, head, tail, top, aba>>
      BY <1>1, <1>4, EnqCheckEffect DEF shared
  <2>2. pc'[t] = "enq_help" /\ frame'[t] = frame[t] /\ hand'[t] = hand[t] /\ \A u \in Thread : u # t
          => Still(u)
      BY <1>1, <2>1, ToFacts
  <2>3. /\ headLag'[t] = headLag[t]
        /\ tailLag'[t] = tailLag[t]
        /\ topLag'[t] = topLag[t]
      BY <1>1, <2>1, <2>2, QuietLags DEF Leaves
  <2>4. \A n \in Node : n \in Owned(t) \/ Same(next'[n], next[n])
      BY <2>1 DEF Same
  <2>5. HeadFacts(t)'
      BY <1>1, <1>4, <2>1, <2>2, <2>3 DEF HeadFacts, HoldsHead, Since, Frame
  <2>6. TailFacts(t)'
      BY <1>1, <1>4, <2>1, <2>2, <2>3 DEF TailFacts, HoldsTail, Since, Frame
  <2>7. FreeFacts(t, ch, tg)'
      BY <1>1, <1>4, <2>1, <2>2, <2>3 DEF FreeFacts, HoldsTop, Since, Same, IsFree, Frame
  <2>8. LinkFacts(t)'
      BY <1>1, <1>4, <2>1, <2>2, <2>3 DEF LinkFacts, Frame
  <2>9. Owned(t)' = Owned(t)
      BY <1>1, <1>4, <2>1, <2>2, <2>3 DEF Owned, Role, PopAt, PushAt, EnqAt, DeqAt, PaintAt, Frame
  <2>10. /\ Numbered(t)' => Numbered(t) /\ frame'[t].desc = frame[t].desc
              /\ frame'[t].new.count = frame[t].new.count
         /\ HoldsTop(t)' => (HoldsTop(t) /\ frame'[t].top = frame[t].top)
              \/ frame'[t].top.index \in In(ch)
      BY <1>1, <1>4, <2>1, <2>2, <2>3 DEF Numbered, HoldsTop, Frame
  <2>11. pc[t] # "push_count"
      BY <1>1
  <2>12. Facts(t, ch, tg)'
      BY <2>5, <2>6, <2>7, <2>8 DEF Facts
  <2> QED BY <2>1, <2>2, <2>4, <2>9, <2>10, <2>11, <2>12, QuietStep
<1> QED BY <1>1, <1>2, <1>3, <1>4, EnqCheckEffect

\* mig_dequeue.
LEMMA DeqHeadGood ==
    ASSUME TInv, LagOK, LagNext, NEW ch, NEW tg, Good(ch, tg), NEW t \in Thread, DeqHead(t)
    PROVE  Good(ch, tg)'
<1>1. /\ TypeOK /\ pc[t] = "deq_head" /\ frame[t] \in Frame /\ Role("deq_head", frame[t], hand[t])
      /\ Fields(frame[t]) /\ hand[t] \in Index
      /\ HeadFacts(t) /\ TailFacts(t) /\ FreeFacts(t, ch, tg) /\ LinkFacts(t)
      /\ Shape(ch) /\ Tags(ch, tg) /\ Apart(ch)
    BY Start DEF DeqHead
<1> QED
  <2>1. To(t, "deq_tail", [frame[t] EXCEPT !.head = head[frame[t].queue]], hand[t])
          /\ UNCHANGED <<next, head, tail, top, aba>>
      BY <1>1, DeqHeadEffect DEF shared
  <2>2. pc'[t] = "deq_tail" /\ frame'[t] = [frame[t] EXCEPT !.head = head[frame[t].queue]]
          /\ hand'[t] = hand[t] /\ \A u \in Thread : u # t => Still(u)
      BY <1>1, <2>1, ToFacts
  <2>3. /\ headLag'[t] = 0
        /\ tailLag'[t] = tailLag[t]
        /\ topLag'[t] = topLag[t]
      BY <1>1, <2>1, <2>2, QuietLags DEF Leaves
  <2>4. \A n \in Node : n \in Owned(t) \/ Same(next'[n], next[n])
      BY <2>1 DEF Same
  <2>5. HeadFacts(t)'
    <3>1. frame[t].queue \in Queue
        BY <1>1 DEF Role, DeqAt
    <3>2. frame'[t].head = head[frame[t].queue] /\ frame'[t].queue = frame[t].queue
        BY <1>1, <2>2 DEF Frame
    <3>3. head[frame[t].queue].count \in Count
        BY <3>1, HoldFields
    <3>4. Since(head[frame[t].queue].count, head[frame[t].queue].count, 0)
        BY <3>3, SinceFacts
    <3> QED BY <1>1, <2>1, <2>2, <2>3, <3>2, <3>4 DEF HeadFacts, HoldsHead, Since
  <2>6. TailFacts(t)'
      BY <1>1, <2>1, <2>2, <2>3 DEF TailFacts, HoldsTail, Since, Frame
  <2>7. FreeFacts(t, ch, tg)'
      BY <1>1, <2>1, <2>2, <2>3 DEF FreeFacts, HoldsTop, Since, Same, IsFree, Frame
  <2>8. LinkFacts(t)'
      BY <1>1, <2>1, <2>2, <2>3 DEF LinkFacts, Frame
  <2>9. Owned(t)' = Owned(t)
      BY <1>1, <2>1, <2>2, <2>3 DEF Owned, Role, PopAt, PushAt, EnqAt, DeqAt, PaintAt, Frame
  <2>10. /\ Numbered(t)' => Numbered(t) /\ frame'[t].desc = frame[t].desc
              /\ frame'[t].new.count = frame[t].new.count
         /\ HoldsTop(t)' => (HoldsTop(t) /\ frame'[t].top = frame[t].top)
              \/ frame'[t].top.index \in In(ch)
      BY <1>1, <2>1, <2>2, <2>3 DEF Numbered, HoldsTop, Frame
  <2>11. pc[t] # "push_count"
      BY <1>1
  <2>12. Facts(t, ch, tg)'
      BY <2>5, <2>6, <2>7, <2>8 DEF Facts
  <2> QED BY <2>1, <2>2, <2>4, <2>9, <2>10, <2>11, <2>12, QuietStep

LEMMA DeqTailGood ==
    ASSUME TInv, LagOK, LagNext, NEW ch, NEW tg, Good(ch, tg), NEW t \in Thread, DeqTail(t)
    PROVE  Good(ch, tg)'
<1>1. /\ TypeOK /\ pc[t] = "deq_tail" /\ frame[t] \in Frame /\ Role("deq_tail", frame[t], hand[t])
      /\ Fields(frame[t]) /\ hand[t] \in Index
      /\ HeadFacts(t) /\ TailFacts(t) /\ FreeFacts(t, ch, tg) /\ LinkFacts(t)
      /\ Shape(ch) /\ Tags(ch, tg) /\ Apart(ch)
    BY Start DEF DeqTail
<1> QED
  <2>1. To(t, "deq_next", [frame[t] EXCEPT !.tail = tail[frame[t].queue]], hand[t])
          /\ UNCHANGED <<next, head, tail, top, aba>>
      BY <1>1, DeqTailEffect DEF shared
  <2>2. pc'[t] = "deq_next" /\ frame'[t] = [frame[t] EXCEPT !.tail = tail[frame[t].queue]]
          /\ hand'[t] = hand[t] /\ \A u \in Thread : u # t => Still(u)
      BY <1>1, <2>1, ToFacts
  <2>3. /\ headLag'[t] = headLag[t]
        /\ tailLag'[t] = 0
        /\ topLag'[t] = topLag[t]
      BY <1>1, <2>1, <2>2, QuietLags DEF Leaves
  <2>4. \A n \in Node : n \in Owned(t) \/ Same(next'[n], next[n])
      BY <2>1 DEF Same
  <2>5. HeadFacts(t)'
      BY <1>1, <2>1, <2>2, <2>3 DEF HeadFacts, HoldsHead, Since, Frame
  <2>6. TailFacts(t)'
    <3>1. frame[t].queue \in Queue
        BY <1>1 DEF Role, DeqAt
    <3>2. frame'[t].tail = tail[frame[t].queue] /\ frame'[t].queue = frame[t].queue
        BY <1>1, <2>2 DEF Frame
    <3>3. tail[frame[t].queue].count \in Count
        BY <3>1, HoldFields
    <3>4. Since(tail[frame[t].queue].count, tail[frame[t].queue].count, 0)
        BY <3>3, SinceFacts
    <3> QED BY <1>1, <2>1, <2>2, <2>3, <3>2, <3>4 DEF TailFacts, HoldsTail, Since
  <2>7. FreeFacts(t, ch, tg)'
      BY <1>1, <2>1, <2>2, <2>3 DEF FreeFacts, HoldsTop, Since, Same, IsFree, Frame
  <2>8. LinkFacts(t)'
      BY <1>1, <2>1, <2>2, <2>3 DEF LinkFacts, Frame
  <2>9. Owned(t)' = Owned(t)
      BY <1>1, <2>1, <2>2, <2>3 DEF Owned, Role, PopAt, PushAt, EnqAt, DeqAt, PaintAt, Frame
  <2>10. /\ Numbered(t)' => Numbered(t) /\ frame'[t].desc = frame[t].desc
              /\ frame'[t].new.count = frame[t].new.count
         /\ HoldsTop(t)' => (HoldsTop(t) /\ frame'[t].top = frame[t].top)
              \/ frame'[t].top.index \in In(ch)
      BY <1>1, <2>1, <2>2, <2>3 DEF Numbered, HoldsTop, Frame
  <2>11. pc[t] # "push_count"
      BY <1>1
  <2>12. Facts(t, ch, tg)'
      BY <2>5, <2>6, <2>7, <2>8 DEF Facts
  <2> QED BY <2>1, <2>2, <2>4, <2>9, <2>10, <2>11, <2>12, QuietStep

LEMMA DeqNextGood ==
    ASSUME TInv, LagOK, LagNext, NEW ch, NEW tg, Good(ch, tg), NEW t \in Thread, DeqNext(t)
    PROVE  Good(ch, tg)'
<1>1. /\ TypeOK /\ pc[t] = "deq_next" /\ frame[t] \in Frame /\ Role("deq_next", frame[t], hand[t])
      /\ Fields(frame[t]) /\ hand[t] \in Index
      /\ HeadFacts(t) /\ TailFacts(t) /\ FreeFacts(t, ch, tg) /\ LinkFacts(t)
      /\ Shape(ch) /\ Tags(ch, tg) /\ Apart(ch)
    BY Start DEF DeqNext
<1> QED
  <2>1. To(t, "deq_check", [frame[t] EXCEPT !.next = next[frame[t].head.index]], hand[t])
          /\ UNCHANGED <<next, head, tail, top, aba>>
      BY <1>1, DeqNextEffect DEF shared
  <2>2. pc'[t] = "deq_check" /\ frame'[t] = [frame[t] EXCEPT !.next = next[frame[t].head.index]]
          /\ hand'[t] = hand[t] /\ \A u \in Thread : u # t => Still(u)
      BY <1>1, <2>1, ToFacts
  <2>3. /\ headLag'[t] = headLag[t]
        /\ tailLag'[t] = tailLag[t]
        /\ topLag'[t] = topLag[t]
      BY <1>1, <2>1, <2>2, QuietLags DEF Leaves
  <2>4. \A n \in Node : n \in Owned(t) \/ Same(next'[n], next[n])
      BY <2>1 DEF Same
  <2>5. HeadFacts(t)'
    <3>0. frame[t].queue \in Queue
        BY <1>1 DEF Role, DeqAt
    <3>1. /\ frame'[t].head = frame[t].head /\ frame'[t].tail = frame[t].tail
          /\ frame'[t].queue = frame[t].queue /\ frame'[t].next = next[frame[t].head.index]
        BY <1>1, <2>2 DEF Frame
    <3>2. /\ headLag[t] < CountMod => Since(head[frame[t].queue].count, frame[t].head.count, headLag[t])
          /\ headLag[t] = 0 => frame[t].head = head[frame[t].queue]
          /\ headLag[t] = 0 /\ frame[t].tail.index # frame[t].head.index =>
                tail[frame[t].queue].index # head[frame[t].queue].index
        BY <1>1 DEF HeadFacts, HoldsHead
    <3>3. next[head[frame[t].queue].index].index = BADINDEX =>
             tail[frame[t].queue].index = head[frame[t].queue].index
        BY <1>1, <3>0, LastHead
    <3> QED BY <1>1, <2>1, <2>2, <2>3, <3>1, <3>2, <3>3 DEF HeadFacts, HoldsHead, Since
  <2>6. TailFacts(t)'
      BY <1>1, <2>1, <2>2, <2>3 DEF TailFacts, HoldsTail, Since, Frame
  <2>7. FreeFacts(t, ch, tg)'
      BY <1>1, <2>1, <2>2, <2>3 DEF FreeFacts, HoldsTop, Since, Same, IsFree, Frame
  <2>8. LinkFacts(t)'
      BY <1>1, <2>1, <2>2, <2>3 DEF LinkFacts, Frame
  <2>9. Owned(t)' = Owned(t)
      BY <1>1, <2>1, <2>2, <2>3 DEF Owned, Role, PopAt, PushAt, EnqAt, DeqAt, PaintAt, Frame
  <2>10. /\ Numbered(t)' => Numbered(t) /\ frame'[t].desc = frame[t].desc
              /\ frame'[t].new.count = frame[t].new.count
         /\ HoldsTop(t)' => (HoldsTop(t) /\ frame'[t].top = frame[t].top)
              \/ frame'[t].top.index \in In(ch)
      BY <1>1, <2>1, <2>2, <2>3 DEF Numbered, HoldsTop, Frame
  <2>11. pc[t] # "push_count"
      BY <1>1
  <2>12. Facts(t, ch, tg)'
      BY <2>5, <2>6, <2>7, <2>8 DEF Facts
  <2> QED BY <2>1, <2>2, <2>4, <2>9, <2>10, <2>11, <2>12, QuietStep

LEMMA DeqEmptyGood ==
    ASSUME TInv, LagOK, LagNext, NEW ch, NEW tg, Good(ch, tg), NEW t \in Thread, DeqEmpty(t)
    PROVE  Good(ch, tg)'
<1>1. /\ TypeOK /\ pc[t] = "deq_empty" /\ frame[t] \in Frame /\ Role("deq_empty", frame[t], hand[t])
      /\ Fields(frame[t]) /\ hand[t] \in Index
      /\ HeadFacts(t) /\ TailFacts(t) /\ FreeFacts(t, ch, tg) /\ LinkFacts(t)
      /\ Shape(ch) /\ Tags(ch, tg) /\ Apart(ch)
    BY Start DEF DeqEmpty
<1>2. CASE frame[t].ret = BADINDEX
  <2>1. To(t, "idle", EmptyFrame, BADINDEX) /\ UNCHANGED <<next, head, tail, top, aba>>
      BY <1>1, <1>2, DeqEmptyEffect DEF shared
  <2>2. pc'[t] = "idle" /\ frame'[t] = EmptyFrame /\ hand'[t] = BADINDEX /\ \A u \in Thread : u # t
          => Still(u)
      BY <1>1, <2>1, ToFacts
  <2>3. /\ headLag'[t] = headLag[t]
        /\ tailLag'[t] = tailLag[t]
        /\ topLag'[t] = topLag[t]
      BY <1>1, <2>1, <2>2, QuietLags DEF Leaves
  <2>4. \A n \in Node : n \in Owned(t) \/ Same(next'[n], next[n])
      BY <2>1 DEF Same
  <2>5. HeadFacts(t)'
      BY <1>1, <1>2, <2>1, <2>2, <2>3 DEF HeadFacts, HoldsHead, Since, Frame, EmptyFrame
  <2>6. TailFacts(t)'
      BY <1>1, <1>2, <2>1, <2>2, <2>3 DEF TailFacts, HoldsTail, Since, Frame, EmptyFrame
  <2>7. FreeFacts(t, ch, tg)'
      BY <1>1, <1>2, <2>1, <2>2, <2>3 DEF FreeFacts, HoldsTop, Since, Same, IsFree, Frame, EmptyFrame
  <2>8. LinkFacts(t)'
      BY <1>1, <1>2, <2>1, <2>2, <2>3 DEF LinkFacts, Frame, EmptyFrame
  <2>9. Owned(t)' = Owned(t)
      BY <1>1, <1>2, <2>1, <2>2, <2>3 DEF Owned, Role, PopAt, PushAt, EnqAt, DeqAt, PaintAt, Frame,
         EmptyFrame
  <2>10. /\ Numbered(t)' => Numbered(t) /\ frame'[t].desc = frame[t].desc
              /\ frame'[t].new.count = frame[t].new.count
         /\ HoldsTop(t)' => (HoldsTop(t) /\ frame'[t].top = frame[t].top)
              \/ frame'[t].top.index \in In(ch)
      BY <1>1, <1>2, <2>1, <2>2, <2>3 DEF Numbered, HoldsTop, Frame, EmptyFrame
  <2>11. pc[t] # "push_count"
      BY <1>1
  <2>12. Facts(t, ch, tg)'
      BY <2>5, <2>6, <2>7, <2>8 DEF Facts
  <2> QED BY <2>1, <2>2, <2>4, <2>9, <2>10, <2>11, <2>12, QuietStep
<1>3. CASE frame[t].ret # BADINDEX
  <2>1. To(t, "push_count", [EmptyFrame EXCEPT !.desc = frame[t].ret, !.back = "free"], hand[t])
          /\ UNCHANGED <<next, head, tail, top, aba>>
      BY <1>1, <1>3, DeqEmptyEffect DEF shared
  <2>2. pc'[t] = "push_count" /\ frame'[t] = [EmptyFrame EXCEPT !.desc = frame[t].ret, !.back = "free"]
          /\ hand'[t] = hand[t] /\ \A u \in Thread : u # t => Still(u)
      BY <1>1, <2>1, ToFacts
  <2>3. /\ headLag'[t] = headLag[t]
        /\ tailLag'[t] = tailLag[t]
        /\ topLag'[t] = topLag[t]
      BY <1>1, <2>1, <2>2, QuietLags DEF Leaves
  <2>4. \A n \in Node : n \in Owned(t) \/ Same(next'[n], next[n])
      BY <2>1 DEF Same
  <2>5. HeadFacts(t)'
      BY <1>1, <1>3, <2>1, <2>2, <2>3 DEF HeadFacts, HoldsHead, Since, Frame, EmptyFrame
  <2>6. TailFacts(t)'
      BY <1>1, <1>3, <2>1, <2>2, <2>3 DEF TailFacts, HoldsTail, Since, Frame, EmptyFrame
  <2>7. FreeFacts(t, ch, tg)'
      BY <1>1, <1>3, <2>1, <2>2, <2>3 DEF FreeFacts, HoldsTop, Since, Same, IsFree, Frame, EmptyFrame
  <2>8. LinkFacts(t)'
      BY <1>1, <1>3, <2>1, <2>2, <2>3 DEF LinkFacts, Frame, EmptyFrame
  <2>9. Owned(t)' = Owned(t)
      BY <1>1, <1>3, <2>1, <2>2, <2>3 DEF Owned, Role, PopAt, PushAt, EnqAt, DeqAt, PaintAt, Frame,
         EmptyFrame
  <2>10. /\ Numbered(t)' => Numbered(t) /\ frame'[t].desc = frame[t].desc
              /\ frame'[t].new.count = frame[t].new.count
         /\ HoldsTop(t)' => (HoldsTop(t) /\ frame'[t].top = frame[t].top)
              \/ frame'[t].top.index \in In(ch)
      BY <1>1, <1>3, <2>1, <2>2, <2>3 DEF Numbered, HoldsTop, Frame, EmptyFrame
  <2>11. pc[t] # "push_count"
      BY <1>1
  <2>12. Facts(t, ch, tg)'
      BY <2>5, <2>6, <2>7, <2>8 DEF Facts
  <2> QED BY <2>1, <2>2, <2>4, <2>9, <2>10, <2>11, <2>12, QuietStep
<1> QED BY <1>1, <1>2, <1>3, DeqEmptyEffect

LEMMA DeqCopyGood ==
    ASSUME TInv, LagOK, LagNext, NEW ch, NEW tg, Good(ch, tg), NEW t \in Thread, DeqCopy(t)
    PROVE  Good(ch, tg)'
<1>1. /\ TypeOK /\ pc[t] = "deq_copy" /\ frame[t] \in Frame /\ Role("deq_copy", frame[t], hand[t])
      /\ Fields(frame[t]) /\ hand[t] \in Index
      /\ HeadFacts(t) /\ TailFacts(t) /\ FreeFacts(t, ch, tg) /\ LinkFacts(t)
      /\ Shape(ch) /\ Tags(ch, tg) /\ Apart(ch)
    BY Start DEF DeqCopy
<1> QED
  <2>1. To(t, "deq_cas", frame[t], hand[t]) /\ UNCHANGED <<head, tail, top, aba>>
      BY <1>1, DeqCopyEffect DEF shared
  <2>2. pc'[t] = "deq_cas" /\ frame'[t] = frame[t] /\ hand'[t] = hand[t] /\ \A u \in Thread : u # t
          => Still(u)
      BY <1>1, <2>1, ToFacts
  <2>3. /\ headLag'[t] = headLag[t]
        /\ tailLag'[t] = tailLag[t]
        /\ topLag'[t] = topLag[t]
      BY <1>1, <2>1, <2>2, QuietLags DEF Leaves
  <2>4. \A n \in Node : n \in Owned(t) \/ Same(next'[n], next[n])
    <3>1. next' = [next EXCEPT ![frame[t].ret] = [next[frame[t].ret] EXCEPT !.color = next[frame[t].next.index].color]]
        BY <1>1, DeqCopyEffect
    <3>2. frame[t].ret \in Owned(t)
        BY <1>1 DEF Owned, Role, DeqAt
    <3> QED BY <1>1, <3>1, <3>2 DEF Same, TypeOK
  <2>5. HeadFacts(t)'
    <3>0. next' = [next EXCEPT ![frame[t].ret] = [next[frame[t].ret] EXCEPT !.color = next[frame[t].next.index].color]]
        BY <1>1, DeqCopyEffect
    <3>1. frame[t].queue \in Queue
        BY <1>1 DEF Role, DeqAt
    <3>2. head[frame[t].queue].index \in In(ch) /\ head[frame[t].queue].index \in Node
        BY <1>1, <3>1, EndsIn DEF In
    <3>3. frame[t].ret \in Owned(t)
        BY <1>1 DEF Owned, Role, DeqAt
    <3>4. head[frame[t].queue].index # frame[t].ret
        BY <1>1, <3>2, <3>3 DEF Apart
    <3>5. next'[head[frame[t].queue].index] = next[head[frame[t].queue].index]
        BY <1>1, <3>0, <3>2, <3>4 DEF TypeOK
    <3> QED BY <1>1, <2>1, <2>2, <2>3, <3>5 DEF HeadFacts, HoldsHead, Since
  <2>6. TailFacts(t)'
      BY <1>1, <2>1, <2>2, <2>3 DEF TailFacts, HoldsTail, Since, Frame
  <2>7. FreeFacts(t, ch, tg)'
      BY <1>1, <2>1, <2>2, <2>3 DEF FreeFacts, HoldsTop, Since, Same, IsFree, Frame
  <2>8. LinkFacts(t)'
      BY <1>1, <2>1, <2>2, <2>3 DEF LinkFacts, Frame
  <2>9. Owned(t)' = Owned(t)
      BY <1>1, <2>1, <2>2, <2>3 DEF Owned, Role, PopAt, PushAt, EnqAt, DeqAt, PaintAt, Frame
  <2>10. /\ Numbered(t)' => Numbered(t) /\ frame'[t].desc = frame[t].desc
              /\ frame'[t].new.count = frame[t].new.count
         /\ HoldsTop(t)' => (HoldsTop(t) /\ frame'[t].top = frame[t].top)
              \/ frame'[t].top.index \in In(ch)
      BY <1>1, <2>1, <2>2, <2>3 DEF Numbered, HoldsTop, Frame
  <2>11. pc[t] # "push_count"
      BY <1>1
  <2>12. Facts(t, ch, tg)'
      BY <2>5, <2>6, <2>7, <2>8 DEF Facts
  <2> QED BY <2>1, <2>2, <2>4, <2>9, <2>10, <2>11, <2>12, QuietStep

\* migqueue_set_color_if_empty.
LEMMA PaintHeadGood ==
    ASSUME TInv, LagOK, LagNext, NEW ch, NEW tg, Good(ch, tg), NEW t \in Thread, PaintHead(t)
    PROVE  Good(ch, tg)'
<1>1. /\ TypeOK /\ pc[t] = "paint_head" /\ frame[t] \in Frame /\ Role("paint_head", frame[t], hand[t])
      /\ Fields(frame[t]) /\ hand[t] \in Index
      /\ HeadFacts(t) /\ TailFacts(t) /\ FreeFacts(t, ch, tg) /\ LinkFacts(t)
      /\ Shape(ch) /\ Tags(ch, tg) /\ Apart(ch)
    BY Start DEF PaintHead
<1> QED
  <2>1. To(t, "paint_tail", [frame[t] EXCEPT !.head = head[frame[t].queue]], hand[t])
          /\ UNCHANGED <<next, head, tail, top, aba>>
      BY <1>1, PaintHeadEffect DEF shared
  <2>2. pc'[t] = "paint_tail" /\ frame'[t] = [frame[t] EXCEPT !.head = head[frame[t].queue]]
          /\ hand'[t] = hand[t] /\ \A u \in Thread : u # t => Still(u)
      BY <1>1, <2>1, ToFacts
  <2>3. /\ headLag'[t] = 0
        /\ tailLag'[t] = tailLag[t]
        /\ topLag'[t] = topLag[t]
      BY <1>1, <2>1, <2>2, QuietLags DEF Leaves
  <2>4. \A n \in Node : n \in Owned(t) \/ Same(next'[n], next[n])
      BY <2>1 DEF Same
  <2>5. HeadFacts(t)'
      BY <1>1, <2>1, <2>2, <2>3 DEF HeadFacts, HoldsHead, Since, Frame
  <2>6. TailFacts(t)'
      BY <1>1, <2>1, <2>2, <2>3 DEF TailFacts, HoldsTail, Since, Frame
  <2>7. FreeFacts(t, ch, tg)'
      BY <1>1, <2>1, <2>2, <2>3 DEF FreeFacts, HoldsTop, Since, Same, IsFree, Frame
  <2>8. LinkFacts(t)'
      BY <1>1, <2>1, <2>2, <2>3 DEF LinkFacts, Frame
  <2>9. Owned(t)' = Owned(t)
      BY <1>1, <2>1, <2>2, <2>3 DEF Owned, Role, PopAt, PushAt, EnqAt, DeqAt, PaintAt, Frame
  <2>10. /\ Numbered(t)' => Numbered(t) /\ frame'[t].desc = frame[t].desc
              /\ frame'[t].new.count = frame[t].new.count
         /\ HoldsTop(t)' => (HoldsTop(t) /\ frame'[t].top = frame[t].top)
              \/ frame'[t].top.index \in In(ch)
      BY <1>1, <2>1, <2>2, <2>3 DEF Numbered, HoldsTop, Frame
  <2>11. pc[t] # "push_count"
      BY <1>1
  <2>12. Facts(t, ch, tg)'
      BY <2>5, <2>6, <2>7, <2>8 DEF Facts
  <2> QED BY <2>1, <2>2, <2>4, <2>9, <2>10, <2>11, <2>12, QuietStep

LEMMA PaintTailGood ==
    ASSUME TInv, LagOK, LagNext, NEW ch, NEW tg, Good(ch, tg), NEW t \in Thread, PaintTail(t)
    PROVE  Good(ch, tg)'
<1>1. /\ TypeOK /\ pc[t] = "paint_tail" /\ frame[t] \in Frame /\ Role("paint_tail", frame[t], hand[t])
      /\ Fields(frame[t]) /\ hand[t] \in Index
      /\ HeadFacts(t) /\ TailFacts(t) /\ FreeFacts(t, ch, tg) /\ LinkFacts(t)
      /\ Shape(ch) /\ Tags(ch, tg) /\ Apart(ch)
    BY Start DEF PaintTail
<1> QED
  <2>1. To(t, "paint_next", [frame[t] EXCEPT !.tail = tail[frame[t].queue]], hand[t])
          /\ UNCHANGED <<next, head, tail, top, aba>>
      BY <1>1, PaintTailEffect DEF shared
  <2>2. pc'[t] = "paint_next" /\ frame'[t] = [frame[t] EXCEPT !.tail = tail[frame[t].queue]]
          /\ hand'[t] = hand[t] /\ \A u \in Thread : u # t => Still(u)
      BY <1>1, <2>1, ToFacts
  <2>3. /\ headLag'[t] = headLag[t]
        /\ tailLag'[t] = 0
        /\ topLag'[t] = topLag[t]
      BY <1>1, <2>1, <2>2, QuietLags DEF Leaves
  <2>4. \A n \in Node : n \in Owned(t) \/ Same(next'[n], next[n])
      BY <2>1 DEF Same
  <2>5. HeadFacts(t)'
      BY <1>1, <2>1, <2>2, <2>3 DEF HeadFacts, HoldsHead, Since, Frame
  <2>6. TailFacts(t)'
      BY <1>1, <2>1, <2>2, <2>3 DEF TailFacts, HoldsTail, Since, Frame
  <2>7. FreeFacts(t, ch, tg)'
      BY <1>1, <2>1, <2>2, <2>3 DEF FreeFacts, HoldsTop, Since, Same, IsFree, Frame
  <2>8. LinkFacts(t)'
      BY <1>1, <2>1, <2>2, <2>3 DEF LinkFacts, Frame
  <2>9. Owned(t)' = Owned(t)
      BY <1>1, <2>1, <2>2, <2>3 DEF Owned, Role, PopAt, PushAt, EnqAt, DeqAt, PaintAt, Frame
  <2>10. /\ Numbered(t)' => Numbered(t) /\ frame'[t].desc = frame[t].desc
              /\ frame'[t].new.count = frame[t].new.count
         /\ HoldsTop(t)' => (HoldsTop(t) /\ frame'[t].top = frame[t].top)
              \/ frame'[t].top.index \in In(ch)
      BY <1>1, <2>1, <2>2, <2>3 DEF Numbered, HoldsTop, Frame
  <2>11. pc[t] # "push_count"
      BY <1>1
  <2>12. Facts(t, ch, tg)'
      BY <2>5, <2>6, <2>7, <2>8 DEF Facts
  <2> QED BY <2>1, <2>2, <2>4, <2>9, <2>10, <2>11, <2>12, QuietStep

LEMMA PaintNextGood ==
    ASSUME TInv, LagOK, LagNext, NEW ch, NEW tg, Good(ch, tg), NEW t \in Thread, PaintNext(t)
    PROVE  Good(ch, tg)'
<1>1. /\ TypeOK /\ pc[t] = "paint_next" /\ frame[t] \in Frame /\ Role("paint_next", frame[t], hand[t])
      /\ Fields(frame[t]) /\ hand[t] \in Index
      /\ HeadFacts(t) /\ TailFacts(t) /\ FreeFacts(t, ch, tg) /\ LinkFacts(t)
      /\ Shape(ch) /\ Tags(ch, tg) /\ Apart(ch)
    BY Start DEF PaintNext
<1> QED
  <2>1. To(t, "paint_check", [frame[t] EXCEPT !.next = next[frame[t].head.index]], hand[t])
          /\ UNCHANGED <<next, head, tail, top, aba>>
      BY <1>1, PaintNextEffect DEF shared
  <2>2. pc'[t] = "paint_check" /\ frame'[t] = [frame[t] EXCEPT !.next = next[frame[t].head.index]]
          /\ hand'[t] = hand[t] /\ \A u \in Thread : u # t => Still(u)
      BY <1>1, <2>1, ToFacts
  <2>3. /\ headLag'[t] = headLag[t]
        /\ tailLag'[t] = tailLag[t]
        /\ topLag'[t] = topLag[t]
      BY <1>1, <2>1, <2>2, QuietLags DEF Leaves
  <2>4. \A n \in Node : n \in Owned(t) \/ Same(next'[n], next[n])
      BY <2>1 DEF Same
  <2>5. HeadFacts(t)'
      BY <1>1, <2>1, <2>2, <2>3 DEF HeadFacts, HoldsHead, Since, Frame
  <2>6. TailFacts(t)'
      BY <1>1, <2>1, <2>2, <2>3 DEF TailFacts, HoldsTail, Since, Frame
  <2>7. FreeFacts(t, ch, tg)'
      BY <1>1, <2>1, <2>2, <2>3 DEF FreeFacts, HoldsTop, Since, Same, IsFree, Frame
  <2>8. LinkFacts(t)'
      BY <1>1, <2>1, <2>2, <2>3 DEF LinkFacts, Frame
  <2>9. Owned(t)' = Owned(t)
      BY <1>1, <2>1, <2>2, <2>3 DEF Owned, Role, PopAt, PushAt, EnqAt, DeqAt, PaintAt, Frame
  <2>10. /\ Numbered(t)' => Numbered(t) /\ frame'[t].desc = frame[t].desc
              /\ frame'[t].new.count = frame[t].new.count
         /\ HoldsTop(t)' => (HoldsTop(t) /\ frame'[t].top = frame[t].top)
              \/ frame'[t].top.index \in In(ch)
      BY <1>1, <2>1, <2>2, <2>3 DEF Numbered, HoldsTop, Frame
  <2>11. pc[t] # "push_count"
      BY <1>1
  <2>12. Facts(t, ch, tg)'
      BY <2>5, <2>6, <2>7, <2>8 DEF Facts
  <2> QED BY <2>1, <2>2, <2>4, <2>9, <2>10, <2>11, <2>12, QuietStep

LEMMA PaintCheckGood ==
    ASSUME TInv, LagOK, LagNext, NEW ch, NEW tg, Good(ch, tg), NEW t \in Thread, PaintCheck(t)
    PROVE  Good(ch, tg)'
<1>1. /\ TypeOK /\ pc[t] = "paint_check" /\ frame[t] \in Frame /\ Role("paint_check", frame[t], hand[t])
      /\ Fields(frame[t]) /\ hand[t] \in Index
      /\ HeadFacts(t) /\ TailFacts(t) /\ FreeFacts(t, ch, tg) /\ LinkFacts(t)
      /\ Shape(ch) /\ Tags(ch, tg) /\ Apart(ch)
    BY Start DEF PaintCheck
<1>2. CASE frame[t].head = head[frame[t].queue] /\ PaintSeesEmpty(frame[t])
  <2>1. To(t, "paint_cas", frame[t], hand[t]) /\ UNCHANGED <<next, head, tail, top, aba>>
      BY <1>1, <1>2, PaintCheckEffect DEF shared
  <2>2. pc'[t] = "paint_cas" /\ frame'[t] = frame[t] /\ hand'[t] = hand[t] /\ \A u \in Thread : u # t
          => Still(u)
      BY <1>1, <2>1, ToFacts
  <2>3. /\ headLag'[t] = headLag[t]
        /\ tailLag'[t] = tailLag[t]
        /\ topLag'[t] = topLag[t]
      BY <1>1, <2>1, <2>2, QuietLags DEF Leaves
  <2>4. \A n \in Node : n \in Owned(t) \/ Same(next'[n], next[n])
      BY <2>1 DEF Same
  <2>5. HeadFacts(t)'
      BY <1>1, <1>2, <2>1, <2>2, <2>3 DEF HeadFacts, HoldsHead, Since, Frame
  <2>6. TailFacts(t)'
      BY <1>1, <1>2, <2>1, <2>2, <2>3 DEF TailFacts, HoldsTail, Since, Frame
  <2>7. FreeFacts(t, ch, tg)'
      BY <1>1, <1>2, <2>1, <2>2, <2>3 DEF FreeFacts, HoldsTop, Since, Same, IsFree, Frame
  <2>8. LinkFacts(t)'
      BY <1>1, <1>2, <2>1, <2>2, <2>3 DEF LinkFacts, Frame
  <2>9. Owned(t)' = Owned(t)
      BY <1>1, <1>2, <2>1, <2>2, <2>3 DEF Owned, Role, PopAt, PushAt, EnqAt, DeqAt, PaintAt, Frame
  <2>10. /\ Numbered(t)' => Numbered(t) /\ frame'[t].desc = frame[t].desc
              /\ frame'[t].new.count = frame[t].new.count
         /\ HoldsTop(t)' => (HoldsTop(t) /\ frame'[t].top = frame[t].top)
              \/ frame'[t].top.index \in In(ch)
      BY <1>1, <1>2, <2>1, <2>2, <2>3 DEF Numbered, HoldsTop, Frame
  <2>11. pc[t] # "push_count"
      BY <1>1
  <2>12. Facts(t, ch, tg)'
      BY <2>5, <2>6, <2>7, <2>8 DEF Facts
  <2> QED BY <2>1, <2>2, <2>4, <2>9, <2>10, <2>11, <2>12, QuietStep
<1>3. CASE frame[t].head = head[frame[t].queue] /\ ~PaintSeesEmpty(frame[t])
  <2>1. To(t, "paint_busy", frame[t], hand[t]) /\ UNCHANGED <<next, head, tail, top, aba>>
      BY <1>1, <1>3, PaintCheckEffect DEF shared
  <2>2. pc'[t] = "paint_busy" /\ frame'[t] = frame[t] /\ hand'[t] = hand[t] /\ \A u \in Thread : u # t
          => Still(u)
      BY <1>1, <2>1, ToFacts
  <2>3. /\ headLag'[t] = headLag[t]
        /\ tailLag'[t] = tailLag[t]
        /\ topLag'[t] = topLag[t]
      BY <1>1, <2>1, <2>2, QuietLags DEF Leaves
  <2>4. \A n \in Node : n \in Owned(t) \/ Same(next'[n], next[n])
      BY <2>1 DEF Same
  <2>5. HeadFacts(t)'
      BY <1>1, <1>3, <2>1, <2>2, <2>3 DEF HeadFacts, HoldsHead, Since, Frame
  <2>6. TailFacts(t)'
      BY <1>1, <1>3, <2>1, <2>2, <2>3 DEF TailFacts, HoldsTail, Since, Frame
  <2>7. FreeFacts(t, ch, tg)'
      BY <1>1, <1>3, <2>1, <2>2, <2>3 DEF FreeFacts, HoldsTop, Since, Same, IsFree, Frame
  <2>8. LinkFacts(t)'
      BY <1>1, <1>3, <2>1, <2>2, <2>3 DEF LinkFacts, Frame
  <2>9. Owned(t)' = Owned(t)
      BY <1>1, <1>3, <2>1, <2>2, <2>3 DEF Owned, Role, PopAt, PushAt, EnqAt, DeqAt, PaintAt, Frame
  <2>10. /\ Numbered(t)' => Numbered(t) /\ frame'[t].desc = frame[t].desc
              /\ frame'[t].new.count = frame[t].new.count
         /\ HoldsTop(t)' => (HoldsTop(t) /\ frame'[t].top = frame[t].top)
              \/ frame'[t].top.index \in In(ch)
      BY <1>1, <1>3, <2>1, <2>2, <2>3 DEF Numbered, HoldsTop, Frame
  <2>11. pc[t] # "push_count"
      BY <1>1
  <2>12. Facts(t, ch, tg)'
      BY <2>5, <2>6, <2>7, <2>8 DEF Facts
  <2> QED BY <2>1, <2>2, <2>4, <2>9, <2>10, <2>11, <2>12, QuietStep
<1>4. CASE frame[t].head # head[frame[t].queue]
  <2>1. To(t, "paint_head", Retry(frame[t]), hand[t]) /\ UNCHANGED <<next, head, tail, top, aba>>
      BY <1>1, <1>4, PaintCheckEffect DEF shared
  <2>2. pc'[t] = "paint_head" /\ frame'[t] = Retry(frame[t]) /\ hand'[t] = hand[t]
          /\ \A u \in Thread : u # t => Still(u)
      BY <1>1, <2>1, ToFacts
  <2>3. /\ headLag'[t] = headLag[t]
        /\ tailLag'[t] = tailLag[t]
        /\ topLag'[t] = topLag[t]
      BY <1>1, <2>1, <2>2, QuietLags DEF Leaves
  <2>4. \A n \in Node : n \in Owned(t) \/ Same(next'[n], next[n])
      BY <2>1 DEF Same
  <2>5. HeadFacts(t)'
      BY <1>1, <1>4, <2>1, <2>2, <2>3 DEF HeadFacts, HoldsHead, Since, Frame, Retry
  <2>6. TailFacts(t)'
      BY <1>1, <1>4, <2>1, <2>2, <2>3 DEF TailFacts, HoldsTail, Since, Frame, Retry
  <2>7. FreeFacts(t, ch, tg)'
      BY <1>1, <1>4, <2>1, <2>2, <2>3 DEF FreeFacts, HoldsTop, Since, Same, IsFree, Frame, Retry
  <2>8. LinkFacts(t)'
      BY <1>1, <1>4, <2>1, <2>2, <2>3 DEF LinkFacts, Frame, Retry
  <2>9. Owned(t)' = Owned(t)
      BY <1>1, <1>4, <2>1, <2>2, <2>3 DEF Owned, Role, PopAt, PushAt, EnqAt, DeqAt, PaintAt, Frame,
         Retry
  <2>10. /\ Numbered(t)' => Numbered(t) /\ frame'[t].desc = frame[t].desc
              /\ frame'[t].new.count = frame[t].new.count
         /\ HoldsTop(t)' => (HoldsTop(t) /\ frame'[t].top = frame[t].top)
              \/ frame'[t].top.index \in In(ch)
      BY <1>1, <1>4, <2>1, <2>2, <2>3 DEF Numbered, HoldsTop, Frame, Retry
  <2>11. pc[t] # "push_count"
      BY <1>1
  <2>12. Facts(t, ch, tg)'
      BY <2>5, <2>6, <2>7, <2>8 DEF Facts
  <2> QED BY <2>1, <2>2, <2>4, <2>9, <2>10, <2>11, <2>12, QuietStep
<1> QED BY <1>1, <1>2, <1>3, <1>4, PaintCheckEffect

LEMMA PaintCasGood ==
    ASSUME TInv, LagOK, LagNext, NEW ch, NEW tg, Good(ch, tg), NEW t \in Thread, PaintCas(t)
    PROVE  Good(ch, tg)'
<1>1. /\ TypeOK /\ pc[t] = "paint_cas" /\ frame[t] \in Frame /\ Role("paint_cas", frame[t], hand[t])
      /\ Fields(frame[t]) /\ hand[t] \in Index
      /\ HeadFacts(t) /\ TailFacts(t) /\ FreeFacts(t, ch, tg) /\ LinkFacts(t)
      /\ Shape(ch) /\ Tags(ch, tg) /\ Apart(ch)
    BY Start DEF PaintCas
<1>2. CASE next[frame[t].head.index] = frame[t].next
  <2>1. To(t, "idle", EmptyFrame, hand[t]) /\ UNCHANGED <<head, tail, top, aba>>
      BY <1>1, <1>2, PaintCasEffect DEF shared
  <2>2. pc'[t] = "idle" /\ frame'[t] = EmptyFrame /\ hand'[t] = hand[t] /\ \A u \in Thread : u # t
          => Still(u)
      BY <1>1, <2>1, ToFacts
  <2>3. /\ headLag'[t] = headLag[t]
        /\ tailLag'[t] = tailLag[t]
        /\ topLag'[t] = topLag[t]
      BY <1>1, <2>1, <2>2, QuietLags DEF Leaves
  <2>4. \A n \in Node : n \in Owned(t) \/ Same(next'[n], next[n])
    <3>1. next' = [next EXCEPT ![frame[t].head.index] =
                       [next[frame[t].head.index] EXCEPT !.color = frame[t].color,
                         !.count = Bump(frame[t].next.count)]]
        BY <1>1, <1>2, PaintCasEffect
    <3>2. frame[t].head.index \in Node /\ next[frame[t].head.index] \in Link
          /\ next[frame[t].head.index].index = BADINDEX
        BY <1>1, <1>2, NodeFacts DEF Role, PaintAt, Fields, TypeOK
    <3>3. next'[frame[t].head.index].index = BADINDEX
        BY <1>1, <3>1, <3>2 DEF TypeOK, Link
    <3>4. \A n \in Node : n # frame[t].head.index => next'[n] = next[n]
        BY <1>1, <3>1 DEF TypeOK
    <3> QED BY <3>2, <3>3, <3>4 DEF Same
  <2>5. HeadFacts(t)'
      BY <1>1, <1>2, <2>1, <2>2, <2>3 DEF HeadFacts, HoldsHead, Since, Frame, EmptyFrame
  <2>6. TailFacts(t)'
      BY <1>1, <1>2, <2>1, <2>2, <2>3 DEF TailFacts, HoldsTail, Since, Frame, EmptyFrame
  <2>7. FreeFacts(t, ch, tg)'
      BY <1>1, <1>2, <2>1, <2>2, <2>3 DEF FreeFacts, HoldsTop, Since, Same, IsFree, Frame, EmptyFrame
  <2>8. LinkFacts(t)'
      BY <1>1, <1>2, <2>1, <2>2, <2>3 DEF LinkFacts, Frame, EmptyFrame
  <2>9. Owned(t)' = Owned(t)
      BY <1>1, <1>2, <2>1, <2>2, <2>3 DEF Owned, Role, PopAt, PushAt, EnqAt, DeqAt, PaintAt, Frame,
         EmptyFrame
  <2>10. /\ Numbered(t)' => Numbered(t) /\ frame'[t].desc = frame[t].desc
              /\ frame'[t].new.count = frame[t].new.count
         /\ HoldsTop(t)' => (HoldsTop(t) /\ frame'[t].top = frame[t].top)
              \/ frame'[t].top.index \in In(ch)
      BY <1>1, <1>2, <2>1, <2>2, <2>3 DEF Numbered, HoldsTop, Frame, EmptyFrame
  <2>11. pc[t] # "push_count"
      BY <1>1
  <2>12. Facts(t, ch, tg)'
      BY <2>5, <2>6, <2>7, <2>8 DEF Facts
  <2> QED BY <2>1, <2>2, <2>4, <2>9, <2>10, <2>11, <2>12, QuietStep
<1>3. CASE next[frame[t].head.index] # frame[t].next
  <2>1. To(t, "paint_head", Retry(frame[t]), hand[t]) /\ UNCHANGED <<next, head, tail, top, aba>>
      BY <1>1, <1>3, PaintCasEffect DEF shared
  <2>2. pc'[t] = "paint_head" /\ frame'[t] = Retry(frame[t]) /\ hand'[t] = hand[t]
          /\ \A u \in Thread : u # t => Still(u)
      BY <1>1, <2>1, ToFacts
  <2>3. /\ headLag'[t] = headLag[t]
        /\ tailLag'[t] = tailLag[t]
        /\ topLag'[t] = topLag[t]
      BY <1>1, <2>1, <2>2, QuietLags DEF Leaves
  <2>4. \A n \in Node : n \in Owned(t) \/ Same(next'[n], next[n])
      BY <2>1 DEF Same
  <2>5. HeadFacts(t)'
      BY <1>1, <1>3, <2>1, <2>2, <2>3 DEF HeadFacts, HoldsHead, Since, Frame, Retry
  <2>6. TailFacts(t)'
      BY <1>1, <1>3, <2>1, <2>2, <2>3 DEF TailFacts, HoldsTail, Since, Frame, Retry
  <2>7. FreeFacts(t, ch, tg)'
      BY <1>1, <1>3, <2>1, <2>2, <2>3 DEF FreeFacts, HoldsTop, Since, Same, IsFree, Frame, Retry
  <2>8. LinkFacts(t)'
      BY <1>1, <1>3, <2>1, <2>2, <2>3 DEF LinkFacts, Frame, Retry
  <2>9. Owned(t)' = Owned(t)
      BY <1>1, <1>3, <2>1, <2>2, <2>3 DEF Owned, Role, PopAt, PushAt, EnqAt, DeqAt, PaintAt, Frame,
         Retry
  <2>10. /\ Numbered(t)' => Numbered(t) /\ frame'[t].desc = frame[t].desc
              /\ frame'[t].new.count = frame[t].new.count
         /\ HoldsTop(t)' => (HoldsTop(t) /\ frame'[t].top = frame[t].top)
              \/ frame'[t].top.index \in In(ch)
      BY <1>1, <1>3, <2>1, <2>2, <2>3 DEF Numbered, HoldsTop, Frame, Retry
  <2>11. pc[t] # "push_count"
      BY <1>1
  <2>12. Facts(t, ch, tg)'
      BY <2>5, <2>6, <2>7, <2>8 DEF Facts
  <2> QED BY <2>1, <2>2, <2>4, <2>9, <2>10, <2>11, <2>12, QuietStep
<1> QED BY <1>1, <1>2, <1>3, PaintCasEffect

LEMMA PaintBusyGood ==
    ASSUME TInv, LagOK, LagNext, NEW ch, NEW tg, Good(ch, tg), NEW t \in Thread, PaintBusy(t)
    PROVE  Good(ch, tg)'
<1>1. /\ TypeOK /\ pc[t] = "paint_busy" /\ frame[t] \in Frame /\ Role("paint_busy", frame[t], hand[t])
      /\ Fields(frame[t]) /\ hand[t] \in Index
      /\ HeadFacts(t) /\ TailFacts(t) /\ FreeFacts(t, ch, tg) /\ LinkFacts(t)
      /\ Shape(ch) /\ Tags(ch, tg) /\ Apart(ch)
    BY Start DEF PaintBusy
<1> QED
  <2>1. To(t, "idle", EmptyFrame, hand[t]) /\ UNCHANGED <<next, head, tail, top, aba>>
      BY <1>1, PaintBusyEffect DEF shared
  <2>2. pc'[t] = "idle" /\ frame'[t] = EmptyFrame /\ hand'[t] = hand[t] /\ \A u \in Thread : u # t
          => Still(u)
      BY <1>1, <2>1, ToFacts
  <2>3. /\ headLag'[t] = headLag[t]
        /\ tailLag'[t] = tailLag[t]
        /\ topLag'[t] = topLag[t]
      BY <1>1, <2>1, <2>2, QuietLags DEF Leaves
  <2>4. \A n \in Node : n \in Owned(t) \/ Same(next'[n], next[n])
      BY <2>1 DEF Same
  <2>5. HeadFacts(t)'
      BY <1>1, <2>1, <2>2, <2>3 DEF HeadFacts, HoldsHead, Since, Frame, EmptyFrame
  <2>6. TailFacts(t)'
      BY <1>1, <2>1, <2>2, <2>3 DEF TailFacts, HoldsTail, Since, Frame, EmptyFrame
  <2>7. FreeFacts(t, ch, tg)'
      BY <1>1, <2>1, <2>2, <2>3 DEF FreeFacts, HoldsTop, Since, Same, IsFree, Frame, EmptyFrame
  <2>8. LinkFacts(t)'
      BY <1>1, <2>1, <2>2, <2>3 DEF LinkFacts, Frame, EmptyFrame
  <2>9. Owned(t)' = Owned(t)
      BY <1>1, <2>1, <2>2, <2>3 DEF Owned, Role, PopAt, PushAt, EnqAt, DeqAt, PaintAt, Frame, EmptyFrame
  <2>10. /\ Numbered(t)' => Numbered(t) /\ frame'[t].desc = frame[t].desc
              /\ frame'[t].new.count = frame[t].new.count
         /\ HoldsTop(t)' => (HoldsTop(t) /\ frame'[t].top = frame[t].top)
              \/ frame'[t].top.index \in In(ch)
      BY <1>1, <2>1, <2>2, <2>3 DEF Numbered, HoldsTop, Frame, EmptyFrame
  <2>11. pc[t] # "push_count"
      BY <1>1
  <2>12. Facts(t, ch, tg)'
      BY <2>5, <2>6, <2>7, <2>8 DEF Facts
  <2> QED BY <2>1, <2>2, <2>4, <2>9, <2>10, <2>11, <2>12, QuietStep

\* mig_dequeue decides, from its two checkpoints, what it does next.
LEMMA DeqCheckGood ==
    ASSUME TInv, LagOK, LagNext, NEW ch, NEW tg, Good(ch, tg), NEW t \in Thread, DeqCheck(t)
    PROVE  Good(ch, tg)'
<1>1. /\ TypeOK /\ pc[t] = "deq_check" /\ frame[t] \in Frame /\ Role("deq_check", frame[t], hand[t])
      /\ Fields(frame[t]) /\ hand[t] \in Index
      /\ HeadFacts(t) /\ TailFacts(t) /\ FreeFacts(t, ch, tg) /\ LinkFacts(t)
      /\ Shape(ch) /\ Tags(ch, tg) /\ Apart(ch)
    BY Start DEF DeqCheck
<1>2. CASE To(t, "deq_head", Retry(frame[t]), hand[t])
  <2>1. To(t, "deq_head", Retry(frame[t]), hand[t]) /\ UNCHANGED <<next, head, tail, top, aba>>
      BY <1>1, <1>2, DeqCheckEffect DEF shared
  <2>2. pc'[t] = "deq_head" /\ frame'[t] = Retry(frame[t]) /\ hand'[t] = hand[t]
          /\ \A u \in Thread : u # t => Still(u)
      BY <1>1, <2>1, ToFacts
  <2>3. /\ headLag'[t] = headLag[t]
        /\ tailLag'[t] = tailLag[t]
        /\ topLag'[t] = topLag[t]
      BY <1>1, <2>1, <2>2, QuietLags DEF Leaves
  <2>4. \A n \in Node : n \in Owned(t) \/ Same(next'[n], next[n])
      BY <2>1 DEF Same
  <2>5. HeadFacts(t)'
      BY <1>1, <1>2, <2>1, <2>2, <2>3 DEF HeadFacts, HoldsHead, Since, Frame, Retry
  <2>6. TailFacts(t)'
      BY <1>1, <1>2, <2>1, <2>2, <2>3 DEF TailFacts, HoldsTail, Since, Frame, Retry
  <2>7. FreeFacts(t, ch, tg)'
      BY <1>1, <1>2, <2>1, <2>2, <2>3 DEF FreeFacts, HoldsTop, Since, Same, IsFree, Frame, Retry
  <2>8. LinkFacts(t)'
      BY <1>1, <1>2, <2>1, <2>2, <2>3 DEF LinkFacts, Frame, Retry
  <2>9. Owned(t)' = Owned(t)
      BY <1>1, <1>2, <2>1, <2>2, <2>3 DEF Owned, Role, PopAt, PushAt, EnqAt, DeqAt, PaintAt, Frame,
         Retry
  <2>10. /\ Numbered(t)' => Numbered(t) /\ frame'[t].desc = frame[t].desc
              /\ frame'[t].new.count = frame[t].new.count
         /\ HoldsTop(t)' => (HoldsTop(t) /\ frame'[t].top = frame[t].top)
              \/ frame'[t].top.index \in In(ch)
      BY <1>1, <1>2, <2>1, <2>2, <2>3 DEF Numbered, HoldsTop, Frame, Retry
  <2>11. pc[t] # "push_count"
      BY <1>1
  <2>12. Facts(t, ch, tg)'
      BY <2>5, <2>6, <2>7, <2>8 DEF Facts
  <2> QED BY <2>1, <2>2, <2>4, <2>9, <2>10, <2>11, <2>12, QuietStep
<1>3. CASE To(t, "deq_empty", frame[t], hand[t])
  <2>1. To(t, "deq_empty", frame[t], hand[t]) /\ UNCHANGED <<next, head, tail, top, aba>>
      BY <1>1, <1>3, DeqCheckEffect DEF shared
  <2>2. pc'[t] = "deq_empty" /\ frame'[t] = frame[t] /\ hand'[t] = hand[t] /\ \A u \in Thread : u # t
          => Still(u)
      BY <1>1, <2>1, ToFacts
  <2>3. /\ headLag'[t] = headLag[t]
        /\ tailLag'[t] = tailLag[t]
        /\ topLag'[t] = topLag[t]
      BY <1>1, <2>1, <2>2, QuietLags DEF Leaves
  <2>4. \A n \in Node : n \in Owned(t) \/ Same(next'[n], next[n])
      BY <2>1 DEF Same
  <2>5. HeadFacts(t)'
      BY <1>1, <1>3, <2>1, <2>2, <2>3 DEF HeadFacts, HoldsHead, Since, Frame
  <2>6. TailFacts(t)'
      BY <1>1, <1>3, <2>1, <2>2, <2>3 DEF TailFacts, HoldsTail, Since, Frame
  <2>7. FreeFacts(t, ch, tg)'
      BY <1>1, <1>3, <2>1, <2>2, <2>3 DEF FreeFacts, HoldsTop, Since, Same, IsFree, Frame
  <2>8. LinkFacts(t)'
      BY <1>1, <1>3, <2>1, <2>2, <2>3 DEF LinkFacts, Frame
  <2>9. Owned(t)' = Owned(t)
      BY <1>1, <1>3, <2>1, <2>2, <2>3 DEF Owned, Role, PopAt, PushAt, EnqAt, DeqAt, PaintAt, Frame
  <2>10. /\ Numbered(t)' => Numbered(t) /\ frame'[t].desc = frame[t].desc
              /\ frame'[t].new.count = frame[t].new.count
         /\ HoldsTop(t)' => (HoldsTop(t) /\ frame'[t].top = frame[t].top)
              \/ frame'[t].top.index \in In(ch)
      BY <1>1, <1>3, <2>1, <2>2, <2>3 DEF Numbered, HoldsTop, Frame
  <2>11. pc[t] # "push_count"
      BY <1>1
  <2>12. Facts(t, ch, tg)'
      BY <2>5, <2>6, <2>7, <2>8 DEF Facts
  <2> QED BY <2>1, <2>2, <2>4, <2>9, <2>10, <2>11, <2>12, QuietStep
<1>4. CASE To(t, "deq_help", frame[t], hand[t])
  <2>1. To(t, "deq_help", frame[t], hand[t]) /\ UNCHANGED <<next, head, tail, top, aba>>
      BY <1>1, <1>4, DeqCheckEffect DEF shared
  <2>2. pc'[t] = "deq_help" /\ frame'[t] = frame[t] /\ hand'[t] = hand[t] /\ \A u \in Thread : u # t
          => Still(u)
      BY <1>1, <2>1, ToFacts
  <2>3. /\ headLag'[t] = headLag[t]
        /\ tailLag'[t] = tailLag[t]
        /\ topLag'[t] = topLag[t]
      BY <1>1, <2>1, <2>2, QuietLags DEF Leaves
  <2>4. \A n \in Node : n \in Owned(t) \/ Same(next'[n], next[n])
      BY <2>1 DEF Same
  <2>5. HeadFacts(t)'
      BY <1>1, <1>4, <2>1, <2>2, <2>3 DEF HeadFacts, HoldsHead, Since, Frame
  <2>6. TailFacts(t)'
      BY <1>1, <1>4, <2>1, <2>2, <2>3 DEF TailFacts, HoldsTail, Since, Frame
  <2>7. FreeFacts(t, ch, tg)'
      BY <1>1, <1>4, <2>1, <2>2, <2>3 DEF FreeFacts, HoldsTop, Since, Same, IsFree, Frame
  <2>8. LinkFacts(t)'
      BY <1>1, <1>4, <2>1, <2>2, <2>3 DEF LinkFacts, Frame
  <2>9. Owned(t)' = Owned(t)
      BY <1>1, <1>4, <2>1, <2>2, <2>3 DEF Owned, Role, PopAt, PushAt, EnqAt, DeqAt, PaintAt, Frame
  <2>10. /\ Numbered(t)' => Numbered(t) /\ frame'[t].desc = frame[t].desc
              /\ frame'[t].new.count = frame[t].new.count
         /\ HoldsTop(t)' => (HoldsTop(t) /\ frame'[t].top = frame[t].top)
              \/ frame'[t].top.index \in In(ch)
      BY <1>1, <1>4, <2>1, <2>2, <2>3 DEF Numbered, HoldsTop, Frame
  <2>11. pc[t] # "push_count"
      BY <1>1
  <2>12. Facts(t, ch, tg)'
      BY <2>5, <2>6, <2>7, <2>8 DEF Facts
  <2> QED BY <2>1, <2>2, <2>4, <2>9, <2>10, <2>11, <2>12, QuietStep
<1>5. CASE To(t, "bug", frame[t], hand[t])
  <2>1. To(t, "bug", frame[t], hand[t]) /\ UNCHANGED <<next, head, tail, top, aba>>
      BY <1>1, <1>5, DeqCheckEffect DEF shared
  <2>2. pc'[t] = "bug" /\ frame'[t] = frame[t] /\ hand'[t] = hand[t] /\ \A u \in Thread : u # t
          => Still(u)
      BY <1>1, <2>1, ToFacts
  <2>3. /\ headLag'[t] = headLag[t]
        /\ tailLag'[t] = tailLag[t]
        /\ topLag'[t] = topLag[t]
      BY <1>1, <2>1, <2>2, QuietLags DEF Leaves
  <2>4. \A n \in Node : n \in Owned(t) \/ Same(next'[n], next[n])
      BY <2>1 DEF Same
  <2>5. HeadFacts(t)'
      BY <1>1, <1>5, <2>1, <2>2, <2>3 DEF HeadFacts, HoldsHead, Since, Frame
  <2>6. TailFacts(t)'
      BY <1>1, <1>5, <2>1, <2>2, <2>3 DEF TailFacts, HoldsTail, Since, Frame
  <2>7. FreeFacts(t, ch, tg)'
      BY <1>1, <1>5, <2>1, <2>2, <2>3 DEF FreeFacts, HoldsTop, Since, Same, IsFree, Frame
  <2>8. LinkFacts(t)'
      BY <1>1, <1>5, <2>1, <2>2, <2>3 DEF LinkFacts, Frame
  <2>9. Owned(t)' = Owned(t)
      BY <1>1, <1>5, <2>1, <2>2, <2>3 DEF Owned, Role, PopAt, PushAt, EnqAt, DeqAt, PaintAt, Frame
  <2>10. /\ Numbered(t)' => Numbered(t) /\ frame'[t].desc = frame[t].desc
              /\ frame'[t].new.count = frame[t].new.count
         /\ HoldsTop(t)' => (HoldsTop(t) /\ frame'[t].top = frame[t].top)
              \/ frame'[t].top.index \in In(ch)
      BY <1>1, <1>5, <2>1, <2>2, <2>3 DEF Numbered, HoldsTop, Frame
  <2>11. pc[t] # "push_count"
      BY <1>1
  <2>12. Facts(t, ch, tg)'
      BY <2>5, <2>6, <2>7, <2>8 DEF Facts
  <2> QED BY <2>1, <2>2, <2>4, <2>9, <2>10, <2>11, <2>12, QuietStep
<1>6. CASE frame[t].tail.index # frame[t].head.index
             /\ To(t, "pop_top", [frame[t] EXCEPT !.back = "deq"], hand[t])
  <2>1. To(t, "pop_top", [frame[t] EXCEPT !.back = "deq"], hand[t])
          /\ UNCHANGED <<next, head, tail, top, aba>>
      BY <1>1, <1>6, DeqCheckEffect DEF shared
  <2>2. pc'[t] = "pop_top" /\ frame'[t] = [frame[t] EXCEPT !.back = "deq"] /\ hand'[t] = hand[t]
          /\ \A u \in Thread : u # t => Still(u)
      BY <1>1, <2>1, ToFacts
  <2>3. /\ headLag'[t] = headLag[t]
        /\ tailLag'[t] = tailLag[t]
        /\ topLag'[t] = topLag[t]
      BY <1>1, <2>1, <2>2, QuietLags DEF Leaves
  <2>4. \A n \in Node : n \in Owned(t) \/ Same(next'[n], next[n])
      BY <2>1 DEF Same
  <2>5. HeadFacts(t)'
      BY <1>1, <1>6, <2>1, <2>2, <2>3 DEF HeadFacts, HoldsHead, Since, Frame
  <2>6. TailFacts(t)'
      BY <1>1, <1>6, <2>1, <2>2, <2>3 DEF TailFacts, HoldsTail, Since, Frame
  <2>7. FreeFacts(t, ch, tg)'
      BY <1>1, <1>6, <2>1, <2>2, <2>3 DEF FreeFacts, HoldsTop, Since, Same, IsFree, Frame
  <2>8. LinkFacts(t)'
      BY <1>1, <1>6, <2>1, <2>2, <2>3 DEF LinkFacts, Frame
  <2>9. Owned(t)' = Owned(t)
      BY <1>1, <1>6, <2>1, <2>2, <2>3 DEF Owned, Role, PopAt, PushAt, EnqAt, DeqAt, PaintAt, Frame
  <2>10. /\ Numbered(t)' => Numbered(t) /\ frame'[t].desc = frame[t].desc
              /\ frame'[t].new.count = frame[t].new.count
         /\ HoldsTop(t)' => (HoldsTop(t) /\ frame'[t].top = frame[t].top)
              \/ frame'[t].top.index \in In(ch)
      BY <1>1, <1>6, <2>1, <2>2, <2>3 DEF Numbered, HoldsTop, Frame
  <2>11. pc[t] # "push_count"
      BY <1>1
  <2>12. Facts(t, ch, tg)'
      BY <2>5, <2>6, <2>7, <2>8 DEF Facts
  <2> QED BY <2>1, <2>2, <2>4, <2>9, <2>10, <2>11, <2>12, QuietStep
<1>7. CASE frame[t].tail.index # frame[t].head.index /\ To(t, "deq_copy", frame[t], hand[t])
  <2>1. To(t, "deq_copy", frame[t], hand[t]) /\ UNCHANGED <<next, head, tail, top, aba>>
      BY <1>1, <1>7, DeqCheckEffect DEF shared
  <2>2. pc'[t] = "deq_copy" /\ frame'[t] = frame[t] /\ hand'[t] = hand[t] /\ \A u \in Thread : u # t
          => Still(u)
      BY <1>1, <2>1, ToFacts
  <2>3. /\ headLag'[t] = headLag[t]
        /\ tailLag'[t] = tailLag[t]
        /\ topLag'[t] = topLag[t]
      BY <1>1, <2>1, <2>2, QuietLags DEF Leaves
  <2>4. \A n \in Node : n \in Owned(t) \/ Same(next'[n], next[n])
      BY <2>1 DEF Same
  <2>5. HeadFacts(t)'
      BY <1>1, <1>7, <2>1, <2>2, <2>3 DEF HeadFacts, HoldsHead, Since, Frame
  <2>6. TailFacts(t)'
      BY <1>1, <1>7, <2>1, <2>2, <2>3 DEF TailFacts, HoldsTail, Since, Frame
  <2>7. FreeFacts(t, ch, tg)'
      BY <1>1, <1>7, <2>1, <2>2, <2>3 DEF FreeFacts, HoldsTop, Since, Same, IsFree, Frame
  <2>8. LinkFacts(t)'
      BY <1>1, <1>7, <2>1, <2>2, <2>3 DEF LinkFacts, Frame
  <2>9. Owned(t)' = Owned(t)
      BY <1>1, <1>7, <2>1, <2>2, <2>3 DEF Owned, Role, PopAt, PushAt, EnqAt, DeqAt, PaintAt, Frame
  <2>10. /\ Numbered(t)' => Numbered(t) /\ frame'[t].desc = frame[t].desc
              /\ frame'[t].new.count = frame[t].new.count
         /\ HoldsTop(t)' => (HoldsTop(t) /\ frame'[t].top = frame[t].top)
              \/ frame'[t].top.index \in In(ch)
      BY <1>1, <1>7, <2>1, <2>2, <2>3 DEF Numbered, HoldsTop, Frame
  <2>11. pc[t] # "push_count"
      BY <1>1
  <2>12. Facts(t, ch, tg)'
      BY <2>5, <2>6, <2>7, <2>8 DEF Facts
  <2> QED BY <2>1, <2>2, <2>4, <2>9, <2>10, <2>11, <2>12, QuietStep
<1> QED BY <1>1, <1>2, <1>3, <1>4, <1>5, <1>6, <1>7, DeqCheckEffect

-----------------------------------------------------------------------------
(***************************************************************************)
(* A compare-and-swap that fails.                                          *)
(***************************************************************************)

\* One lemma for each swap.
LEMMA PopCasQuiet ==
    ASSUME TInv, LagOK, LagNext, NEW ch, NEW tg, Good(ch, tg), NEW t \in Thread, PopCas(t),
           top # frame[t].top
    PROVE  Good(ch, tg)'
<1>1. /\ TypeOK /\ pc[t] = "pop_cas" /\ frame[t] \in Frame /\ Role("pop_cas", frame[t], hand[t])
      /\ Fields(frame[t]) /\ hand[t] \in Index
      /\ HeadFacts(t) /\ TailFacts(t) /\ FreeFacts(t, ch, tg) /\ LinkFacts(t)
      /\ Shape(ch) /\ Tags(ch, tg) /\ Apart(ch)
    BY Start DEF PopCas
<1> QED
  <2>1. To(t, "pop_top", frame[t], hand[t]) /\ UNCHANGED <<next, head, tail, top, aba>>
      BY <1>1, PopCasEffect DEF shared
  <2>2. pc'[t] = "pop_top" /\ frame'[t] = frame[t] /\ hand'[t] = hand[t] /\ \A u \in Thread : u # t
          => Still(u)
      BY <1>1, <2>1, ToFacts
  <2>3. /\ headLag'[t] = headLag[t]
        /\ tailLag'[t] = tailLag[t]
        /\ topLag'[t] = topLag[t]
      BY <1>1, <2>1, <2>2, QuietLags DEF Leaves
  <2>4. \A n \in Node : n \in Owned(t) \/ Same(next'[n], next[n])
      BY <2>1 DEF Same
  <2>5. HeadFacts(t)'
      BY <1>1, <2>1, <2>2, <2>3 DEF HeadFacts, HoldsHead, Since, Frame
  <2>6. TailFacts(t)'
      BY <1>1, <2>1, <2>2, <2>3 DEF TailFacts, HoldsTail, Since, Frame
  <2>7. FreeFacts(t, ch, tg)'
      BY <1>1, <2>1, <2>2, <2>3 DEF FreeFacts, HoldsTop, Since, Same, IsFree, Frame
  <2>8. LinkFacts(t)'
      BY <1>1, <2>1, <2>2, <2>3 DEF LinkFacts, Frame
  <2>9. Owned(t)' = Owned(t)
      BY <1>1, <2>1, <2>2, <2>3 DEF Owned, Role, PopAt, PushAt, EnqAt, DeqAt, PaintAt, Frame
  <2>10. /\ Numbered(t)' => Numbered(t) /\ frame'[t].desc = frame[t].desc
              /\ frame'[t].new.count = frame[t].new.count
         /\ HoldsTop(t)' => (HoldsTop(t) /\ frame'[t].top = frame[t].top)
              \/ frame'[t].top.index \in In(ch)
      BY <1>1, <2>1, <2>2, <2>3 DEF Numbered, HoldsTop, Frame
  <2>11. pc[t] # "push_count"
      BY <1>1
  <2>12. Facts(t, ch, tg)'
      BY <2>5, <2>6, <2>7, <2>8 DEF Facts
  <2> QED BY <2>1, <2>2, <2>4, <2>9, <2>10, <2>11, <2>12, QuietStep

LEMMA PushCasQuiet ==
    ASSUME TInv, LagOK, LagNext, NEW ch, NEW tg, Good(ch, tg), NEW t \in Thread, PushCas(t),
           top # frame[t].top
    PROVE  Good(ch, tg)'
<1>1. /\ TypeOK /\ pc[t] = "push_cas" /\ frame[t] \in Frame /\ Role("push_cas", frame[t], hand[t])
      /\ Fields(frame[t]) /\ hand[t] \in Index
      /\ HeadFacts(t) /\ TailFacts(t) /\ FreeFacts(t, ch, tg) /\ LinkFacts(t)
      /\ Shape(ch) /\ Tags(ch, tg) /\ Apart(ch)
    BY Start DEF PushCas
<1> QED
  <2>1. To(t, "push_link", frame[t], hand[t]) /\ UNCHANGED <<next, head, tail, top, aba>>
      BY <1>1, PushCasEffect DEF shared
  <2>2. pc'[t] = "push_link" /\ frame'[t] = frame[t] /\ hand'[t] = hand[t] /\ \A u \in Thread : u # t
          => Still(u)
      BY <1>1, <2>1, ToFacts
  <2>3. /\ headLag'[t] = headLag[t]
        /\ tailLag'[t] = tailLag[t]
        /\ topLag'[t] = topLag[t]
      BY <1>1, <2>1, <2>2, QuietLags DEF Leaves
  <2>4. \A n \in Node : n \in Owned(t) \/ Same(next'[n], next[n])
      BY <2>1 DEF Same
  <2>5. HeadFacts(t)'
      BY <1>1, <2>1, <2>2, <2>3 DEF HeadFacts, HoldsHead, Since, Frame
  <2>6. TailFacts(t)'
      BY <1>1, <2>1, <2>2, <2>3 DEF TailFacts, HoldsTail, Since, Frame
  <2>7. FreeFacts(t, ch, tg)'
    <3>1. frame[t].desc \in Node
        BY <1>1, NodeFacts DEF Role, PushAt, Fields
    <3>4. \A n \in Node : age'[n] = age[n]
        BY <1>1, <2>1, AgesKept, ToFacts
    <3> QED BY <1>1, <2>1, <2>2, <3>1, <3>4 DEF FreeFacts, HoldsTop, Since
  <2>8. LinkFacts(t)'
      BY <1>1, <2>1, <2>2, <2>3 DEF LinkFacts, Frame
  <2>9. Owned(t)' = Owned(t)
      BY <1>1, <2>1, <2>2, <2>3 DEF Owned, Role, PopAt, PushAt, EnqAt, DeqAt, PaintAt, Frame
  <2>10. /\ Numbered(t)' => Numbered(t) /\ frame'[t].desc = frame[t].desc
              /\ frame'[t].new.count = frame[t].new.count
         /\ HoldsTop(t)' => (HoldsTop(t) /\ frame'[t].top = frame[t].top)
              \/ frame'[t].top.index \in In(ch)
      BY <1>1, <2>1, <2>2, <2>3 DEF Numbered, HoldsTop, Frame
  <2>11. pc[t] # "push_count"
      BY <1>1
  <2>12. Facts(t, ch, tg)'
      BY <2>5, <2>6, <2>7, <2>8 DEF Facts
  <2> QED BY <2>1, <2>2, <2>4, <2>9, <2>10, <2>11, <2>12, QuietStep

LEMMA EnqLinkQuiet ==
    ASSUME TInv, LagOK, LagNext, NEW ch, NEW tg, Good(ch, tg), NEW t \in Thread, EnqLink(t),
           next[frame[t].tail.index] # frame[t].next
    PROVE  Good(ch, tg)'
<1>1. /\ TypeOK /\ pc[t] = "enq_link" /\ frame[t] \in Frame /\ Role("enq_link", frame[t], hand[t])
      /\ Fields(frame[t]) /\ hand[t] \in Index
      /\ HeadFacts(t) /\ TailFacts(t) /\ FreeFacts(t, ch, tg) /\ LinkFacts(t)
      /\ Shape(ch) /\ Tags(ch, tg) /\ Apart(ch)
    BY Start DEF EnqLink
<1> QED
  <2>1. To(t, "enq_tail", Retry(frame[t]), hand[t]) /\ UNCHANGED <<next, head, tail, top, aba>>
      BY <1>1, EnqLinkEffect DEF shared
  <2>2. pc'[t] = "enq_tail" /\ frame'[t] = Retry(frame[t]) /\ hand'[t] = hand[t]
          /\ \A u \in Thread : u # t => Still(u)
      BY <1>1, <2>1, ToFacts
  <2>3. /\ headLag'[t] = headLag[t]
        /\ tailLag'[t] = tailLag[t]
        /\ topLag'[t] = topLag[t]
      BY <1>1, <2>1, <2>2, QuietLags DEF Leaves
  <2>4. \A n \in Node : n \in Owned(t) \/ Same(next'[n], next[n])
      BY <2>1 DEF Same
  <2>5. HeadFacts(t)'
      BY <1>1, <2>1, <2>2, <2>3 DEF HeadFacts, HoldsHead, Since, Frame, Retry
  <2>6. TailFacts(t)'
      BY <1>1, <2>1, <2>2, <2>3 DEF TailFacts, HoldsTail, Since, Frame, Retry
  <2>7. FreeFacts(t, ch, tg)'
      BY <1>1, <2>1, <2>2, <2>3 DEF FreeFacts, HoldsTop, Since, Same, IsFree, Frame, Retry
  <2>8. LinkFacts(t)'
      BY <1>1, <2>1, <2>2, <2>3 DEF LinkFacts, Frame, Retry
  <2>9. Owned(t)' = Owned(t)
      BY <1>1, <2>1, <2>2, <2>3 DEF Owned, Role, PopAt, PushAt, EnqAt, DeqAt, PaintAt, Frame, Retry
  <2>10. /\ Numbered(t)' => Numbered(t) /\ frame'[t].desc = frame[t].desc
              /\ frame'[t].new.count = frame[t].new.count
         /\ HoldsTop(t)' => (HoldsTop(t) /\ frame'[t].top = frame[t].top)
              \/ frame'[t].top.index \in In(ch)
      BY <1>1, <2>1, <2>2, <2>3 DEF Numbered, HoldsTop, Frame, Retry
  <2>11. pc[t] # "push_count"
      BY <1>1
  <2>12. Facts(t, ch, tg)'
      BY <2>5, <2>6, <2>7, <2>8 DEF Facts
  <2> QED BY <2>1, <2>2, <2>4, <2>9, <2>10, <2>11, <2>12, QuietStep

LEMMA EnqHelpQuiet ==
    ASSUME TInv, LagOK, LagNext, NEW ch, NEW tg, Good(ch, tg), NEW t \in Thread, EnqHelp(t),
           tail[frame[t].queue] # frame[t].tail
    PROVE  Good(ch, tg)'
<1>1. /\ TypeOK /\ pc[t] = "enq_help" /\ frame[t] \in Frame /\ Role("enq_help", frame[t], hand[t])
      /\ Fields(frame[t]) /\ hand[t] \in Index
      /\ HeadFacts(t) /\ TailFacts(t) /\ FreeFacts(t, ch, tg) /\ LinkFacts(t)
      /\ Shape(ch) /\ Tags(ch, tg) /\ Apart(ch)
    BY Start DEF EnqHelp
<1> QED
  <2>1. To(t, "enq_tail", Retry(frame[t]), hand[t]) /\ UNCHANGED <<next, head, tail, top, aba>>
      BY <1>1, EnqHelpEffect DEF shared, SwingTail
  <2>2. pc'[t] = "enq_tail" /\ frame'[t] = Retry(frame[t]) /\ hand'[t] = hand[t]
          /\ \A u \in Thread : u # t => Still(u)
      BY <1>1, <2>1, ToFacts
  <2>3. /\ headLag'[t] = headLag[t]
        /\ tailLag'[t] = tailLag[t]
        /\ topLag'[t] = topLag[t]
      BY <1>1, <2>1, <2>2, QuietLags DEF Leaves
  <2>4. \A n \in Node : n \in Owned(t) \/ Same(next'[n], next[n])
      BY <2>1 DEF Same
  <2>5. HeadFacts(t)'
      BY <1>1, <2>1, <2>2, <2>3 DEF HeadFacts, HoldsHead, Since, Frame, Retry
  <2>6. TailFacts(t)'
      BY <1>1, <2>1, <2>2, <2>3 DEF TailFacts, HoldsTail, Since, Frame, Retry
  <2>7. FreeFacts(t, ch, tg)'
      BY <1>1, <2>1, <2>2, <2>3 DEF FreeFacts, HoldsTop, Since, Same, IsFree, Frame, Retry
  <2>8. LinkFacts(t)'
      BY <1>1, <2>1, <2>2, <2>3 DEF LinkFacts, Frame, Retry
  <2>9. Owned(t)' = Owned(t)
      BY <1>1, <2>1, <2>2, <2>3 DEF Owned, Role, PopAt, PushAt, EnqAt, DeqAt, PaintAt, Frame, Retry
  <2>10. /\ Numbered(t)' => Numbered(t) /\ frame'[t].desc = frame[t].desc
              /\ frame'[t].new.count = frame[t].new.count
         /\ HoldsTop(t)' => (HoldsTop(t) /\ frame'[t].top = frame[t].top)
              \/ frame'[t].top.index \in In(ch)
      BY <1>1, <2>1, <2>2, <2>3 DEF Numbered, HoldsTop, Frame, Retry
  <2>11. pc[t] # "push_count"
      BY <1>1
  <2>12. Facts(t, ch, tg)'
      BY <2>5, <2>6, <2>7, <2>8 DEF Facts
  <2> QED BY <2>1, <2>2, <2>4, <2>9, <2>10, <2>11, <2>12, QuietStep

LEMMA DeqHelpQuiet ==
    ASSUME TInv, LagOK, LagNext, NEW ch, NEW tg, Good(ch, tg), NEW t \in Thread, DeqHelp(t),
           tail[frame[t].queue] # frame[t].tail
    PROVE  Good(ch, tg)'
<1>1. /\ TypeOK /\ pc[t] = "deq_help" /\ frame[t] \in Frame /\ Role("deq_help", frame[t], hand[t])
      /\ Fields(frame[t]) /\ hand[t] \in Index
      /\ HeadFacts(t) /\ TailFacts(t) /\ FreeFacts(t, ch, tg) /\ LinkFacts(t)
      /\ Shape(ch) /\ Tags(ch, tg) /\ Apart(ch)
    BY Start DEF DeqHelp
<1> QED
  <2>1. To(t, "deq_head", Retry(frame[t]), hand[t]) /\ UNCHANGED <<next, head, tail, top, aba>>
      BY <1>1, DeqHelpEffect DEF shared, SwingTail
  <2>2. pc'[t] = "deq_head" /\ frame'[t] = Retry(frame[t]) /\ hand'[t] = hand[t]
          /\ \A u \in Thread : u # t => Still(u)
      BY <1>1, <2>1, ToFacts
  <2>3. /\ headLag'[t] = headLag[t]
        /\ tailLag'[t] = tailLag[t]
        /\ topLag'[t] = topLag[t]
      BY <1>1, <2>1, <2>2, QuietLags DEF Leaves
  <2>4. \A n \in Node : n \in Owned(t) \/ Same(next'[n], next[n])
      BY <2>1 DEF Same
  <2>5. HeadFacts(t)'
      BY <1>1, <2>1, <2>2, <2>3 DEF HeadFacts, HoldsHead, Since, Frame, Retry
  <2>6. TailFacts(t)'
      BY <1>1, <2>1, <2>2, <2>3 DEF TailFacts, HoldsTail, Since, Frame, Retry
  <2>7. FreeFacts(t, ch, tg)'
      BY <1>1, <2>1, <2>2, <2>3 DEF FreeFacts, HoldsTop, Since, Same, IsFree, Frame, Retry
  <2>8. LinkFacts(t)'
      BY <1>1, <2>1, <2>2, <2>3 DEF LinkFacts, Frame, Retry
  <2>9. Owned(t)' = Owned(t)
      BY <1>1, <2>1, <2>2, <2>3 DEF Owned, Role, PopAt, PushAt, EnqAt, DeqAt, PaintAt, Frame, Retry
  <2>10. /\ Numbered(t)' => Numbered(t) /\ frame'[t].desc = frame[t].desc
              /\ frame'[t].new.count = frame[t].new.count
         /\ HoldsTop(t)' => (HoldsTop(t) /\ frame'[t].top = frame[t].top)
              \/ frame'[t].top.index \in In(ch)
      BY <1>1, <2>1, <2>2, <2>3 DEF Numbered, HoldsTop, Frame, Retry
  <2>11. pc[t] # "push_count"
      BY <1>1
  <2>12. Facts(t, ch, tg)'
      BY <2>5, <2>6, <2>7, <2>8 DEF Facts
  <2> QED BY <2>1, <2>2, <2>4, <2>9, <2>10, <2>11, <2>12, QuietStep

LEMMA EnqSwingQuiet ==
    ASSUME TInv, LagOK, LagNext, NEW ch, NEW tg, Good(ch, tg), NEW t \in Thread, EnqSwing(t),
           tail[frame[t].queue] # frame[t].tail
    PROVE  Good(ch, tg)'
<1>1. /\ TypeOK /\ pc[t] = "enq_swing" /\ frame[t] \in Frame /\ Role("enq_swing", frame[t], hand[t])
      /\ Fields(frame[t]) /\ hand[t] \in Index
      /\ HeadFacts(t) /\ TailFacts(t) /\ FreeFacts(t, ch, tg) /\ LinkFacts(t)
      /\ Shape(ch) /\ Tags(ch, tg) /\ Apart(ch)
    BY Start DEF EnqSwing
<1> QED
  <2>1. To(t, "idle", EmptyFrame, BADINDEX) /\ UNCHANGED <<next, head, tail, top, aba>>
      BY <1>1, EnqSwingEffect DEF shared, SwingTail
  <2>2. pc'[t] = "idle" /\ frame'[t] = EmptyFrame /\ hand'[t] = BADINDEX /\ \A u \in Thread : u # t
          => Still(u)
      BY <1>1, <2>1, ToFacts
  <2>3. /\ headLag'[t] = headLag[t]
        /\ tailLag'[t] = tailLag[t]
        /\ topLag'[t] = topLag[t]
      BY <1>1, <2>1, <2>2, QuietLags DEF Leaves
  <2>4. \A n \in Node : n \in Owned(t) \/ Same(next'[n], next[n])
      BY <2>1 DEF Same
  <2>5. HeadFacts(t)'
      BY <1>1, <2>1, <2>2, <2>3 DEF HeadFacts, HoldsHead, Since, Frame, EmptyFrame
  <2>6. TailFacts(t)'
      BY <1>1, <2>1, <2>2, <2>3 DEF TailFacts, HoldsTail, Since, Frame, EmptyFrame
  <2>7. FreeFacts(t, ch, tg)'
      BY <1>1, <2>1, <2>2, <2>3 DEF FreeFacts, HoldsTop, Since, Same, IsFree, Frame, EmptyFrame
  <2>8. LinkFacts(t)'
      BY <1>1, <2>1, <2>2, <2>3 DEF LinkFacts, Frame, EmptyFrame
  <2>9. Owned(t)' = Owned(t)
      BY <1>1, <2>1, <2>2, <2>3 DEF Owned, Role, PopAt, PushAt, EnqAt, DeqAt, PaintAt, Frame, EmptyFrame
  <2>10. /\ Numbered(t)' => Numbered(t) /\ frame'[t].desc = frame[t].desc
              /\ frame'[t].new.count = frame[t].new.count
         /\ HoldsTop(t)' => (HoldsTop(t) /\ frame'[t].top = frame[t].top)
              \/ frame'[t].top.index \in In(ch)
      BY <1>1, <2>1, <2>2, <2>3 DEF Numbered, HoldsTop, Frame, EmptyFrame
  <2>11. pc[t] # "push_count"
      BY <1>1
  <2>12. Facts(t, ch, tg)'
      BY <2>5, <2>6, <2>7, <2>8 DEF Facts
  <2> QED BY <2>1, <2>2, <2>4, <2>9, <2>10, <2>11, <2>12, QuietStep

LEMMA DeqCasQuiet ==
    ASSUME TInv, LagOK, LagNext, NEW ch, NEW tg, Good(ch, tg), NEW t \in Thread, DeqCas(t),
           head[frame[t].queue] # frame[t].head
    PROVE  Good(ch, tg)'
<1>1. /\ TypeOK /\ pc[t] = "deq_cas" /\ frame[t] \in Frame /\ Role("deq_cas", frame[t], hand[t])
      /\ Fields(frame[t]) /\ hand[t] \in Index
      /\ HeadFacts(t) /\ TailFacts(t) /\ FreeFacts(t, ch, tg) /\ LinkFacts(t)
      /\ Shape(ch) /\ Tags(ch, tg) /\ Apart(ch)
    BY Start DEF DeqCas
<1> QED
  <2>1. To(t, "deq_head", Retry(frame[t]), hand[t]) /\ UNCHANGED <<next, head, tail, top, aba>>
      BY <1>1, DeqCasEffect DEF shared
  <2>2. pc'[t] = "deq_head" /\ frame'[t] = Retry(frame[t]) /\ hand'[t] = hand[t]
          /\ \A u \in Thread : u # t => Still(u)
      BY <1>1, <2>1, ToFacts
  <2>3. /\ headLag'[t] = headLag[t]
        /\ tailLag'[t] = tailLag[t]
        /\ topLag'[t] = topLag[t]
      BY <1>1, <2>1, <2>2, QuietLags DEF Leaves
  <2>4. \A n \in Node : n \in Owned(t) \/ Same(next'[n], next[n])
      BY <2>1 DEF Same
  <2>5. HeadFacts(t)'
      BY <1>1, <2>1, <2>2, <2>3 DEF HeadFacts, HoldsHead, Since, Frame, Retry
  <2>6. TailFacts(t)'
      BY <1>1, <2>1, <2>2, <2>3 DEF TailFacts, HoldsTail, Since, Frame, Retry
  <2>7. FreeFacts(t, ch, tg)'
      BY <1>1, <2>1, <2>2, <2>3 DEF FreeFacts, HoldsTop, Since, Same, IsFree, Frame, Retry
  <2>8. LinkFacts(t)'
      BY <1>1, <2>1, <2>2, <2>3 DEF LinkFacts, Frame, Retry
  <2>9. Owned(t)' = Owned(t)
      BY <1>1, <2>1, <2>2, <2>3 DEF Owned, Role, PopAt, PushAt, EnqAt, DeqAt, PaintAt, Frame, Retry
  <2>10. /\ Numbered(t)' => Numbered(t) /\ frame'[t].desc = frame[t].desc
              /\ frame'[t].new.count = frame[t].new.count
         /\ HoldsTop(t)' => (HoldsTop(t) /\ frame'[t].top = frame[t].top)
              \/ frame'[t].top.index \in In(ch)
      BY <1>1, <2>1, <2>2, <2>3 DEF Numbered, HoldsTop, Frame, Retry
  <2>11. pc[t] # "push_count"
      BY <1>1
  <2>12. Facts(t, ch, tg)'
      BY <2>5, <2>6, <2>7, <2>8 DEF Facts
  <2> QED BY <2>1, <2>2, <2>4, <2>9, <2>10, <2>11, <2>12, QuietStep

-----------------------------------------------------------------------------
(***************************************************************************)
(* The beginning of a call.                                                *)
(***************************************************************************)

\* A call starts at a label where nothing has been read.
LEMMA CallKeeps ==
    ASSUME TInv, LagOK, LagNext, NEW ch, NEW tg, Good(ch, tg), NEW t \in Thread, pc[t] = "idle",
           NEW l, NEW f, To(t, l, f, hand[t]), UNCHANGED <<head, tail, top, aba>>,
           l \in {"pop_top", "push_count", "enq_tail", "deq_head", "paint_head"}, f.ret = BADINDEX,
           l = "push_count" => f.desc = hand[t] /\ f.back # "deq",
           l = "pop_top" => f.back # "deq",
           l = "enq_tail" => next'[f.desc].index = BADINDEX,
           \A n \in Node : n \in Owned(t) \/ Same(next'[n], next[n])
    PROVE  Good(ch, tg)'
<1>1. /\ TypeOK /\ Role("idle", frame[t], hand[t])
    BY Start
<1>2. pc'[t] = l /\ frame'[t] = f /\ hand'[t] = hand[t] /\ \A u \in Thread : u # t => Still(u)
    BY <1>1, ToFacts
<1>3. HeadFacts(t)'
    BY <1>2 DEF HeadFacts, HoldsHead
<1>4. TailFacts(t)'
    BY <1>2 DEF TailFacts, HoldsTail
<1>5. FreeFacts(t, ch, tg)'
    BY <1>2 DEF FreeFacts, HoldsTop
<1>6. LinkFacts(t)'
    BY <1>2 DEF LinkFacts
<1>7. Facts(t, ch, tg)'
    BY <1>3, <1>4, <1>5, <1>6 DEF Facts
<1>8. Owned(t)' = Owned(t)
    BY <1>1, <1>2 DEF Owned, Role
<1>9. ~Numbered(t)' /\ ~HoldsTop(t)'
    BY <1>2 DEF Numbered, HoldsTop
<1>10. pc[t] # "push_count"
    OBVIOUS
<1> QED BY <1>2, <1>7, <1>8, <1>9, <1>10, QuietStep

\* Every call does.
LEMMA CallGood ==
    ASSUME TInv, LagOK, LagNext, NEW ch, NEW tg, Good(ch, tg), NEW t \in Thread, Call(t)
    PROVE  Good(ch, tg)'
<1>1. /\ TypeOK /\ Role(pc[t], frame[t], hand[t]) /\ hand[t] \in Index
    BY Start
<1>2. UNCHANGED <<head, tail, top, aba>> /\ pc[t] = "idle"
    BY <1>1, CallEffect
<1>3. next' = next => \A n \in Node : n \in Owned(t) \/ Same(next'[n], next[n])
    BY DEF Same
<1>4. CASE UNCHANGED next /\ To(t, "pop_top", [EmptyFrame EXCEPT !.back = "alloc"], hand[t])
  <2> DEFINE f == [EmptyFrame EXCEPT !.back = "alloc"]
  <2>1. f.ret = BADINDEX /\ f.back # "deq" /\ To(t, "pop_top", f, hand[t])
      BY <1>4 DEF EmptyFrame
  <2> HIDE DEF f
  <2> QED BY <1>2, <1>3, <1>4, <2>1, CallKeeps
<1>5. CASE /\ hand[t] # BADINDEX /\ UNCHANGED next
           /\ To(t, "push_count", [EmptyFrame EXCEPT !.desc = hand[t], !.back = "free"], hand[t])
  <2> DEFINE f == [EmptyFrame EXCEPT !.desc = hand[t], !.back = "free"]
  <2>1. f.ret = BADINDEX /\ f.back # "deq" /\ f.desc = hand[t] /\ To(t, "push_count", f, hand[t])
      BY <1>5 DEF EmptyFrame
  <2> HIDE DEF f
  <2> QED BY <1>2, <1>3, <1>5, <2>1, CallKeeps
<1>6. ASSUME hand[t] # BADINDEX, next' = [next EXCEPT ![hand[t]].index = BADINDEX], NEW q \in Queue,
             To(t, "enq_tail", [EmptyFrame EXCEPT !.queue = q, !.desc = hand[t]], hand[t])
      PROVE  Good(ch, tg)'
  <2> DEFINE f == [EmptyFrame EXCEPT !.queue = q, !.desc = hand[t]]
  <2>1. f.ret = BADINDEX /\ f.desc = hand[t] /\ To(t, "enq_tail", f, hand[t])
      BY <1>6 DEF EmptyFrame
  <2>2. hand[t] \in Node /\ next[hand[t]] \in Link /\ hand[t] \in Owned(t)
      BY <1>1, <1>2, <1>6, NodeFacts DEF TypeOK, Owned
  <2>3. next' = [next EXCEPT ![hand[t]] = [next[hand[t]] EXCEPT !.index = BADINDEX]]
      BY <1>6
  <2>4. next'[hand[t]].index = BADINDEX
      BY <1>1, <2>2, <2>3 DEF TypeOK, Link
  <2>5. \A n \in Node : n \in Owned(t) \/ Same(next'[n], next[n])
      BY <1>1, <2>2, <2>3 DEF TypeOK, Same
  <2> HIDE DEF f
  <2> QED BY <1>2, <2>1, <2>4, <2>5, CallKeeps
<1>7. ASSUME UNCHANGED next, NEW q \in Queue, To(t, "deq_head", [EmptyFrame EXCEPT !.queue = q],
             hand[t])
      PROVE  Good(ch, tg)'
  <2> DEFINE f == [EmptyFrame EXCEPT !.queue = q]
  <2>1. f.ret = BADINDEX /\ To(t, "deq_head", f, hand[t])
      BY <1>7 DEF EmptyFrame
  <2> HIDE DEF f
  <2> QED BY <1>2, <1>3, <1>7, <2>1, CallKeeps
<1>8. ASSUME UNCHANGED next, NEW q \in Queue, NEW c \in Color,
             To(t, "paint_head", [EmptyFrame EXCEPT !.queue = q, !.color = c], hand[t])
      PROVE  Good(ch, tg)'
  <2> DEFINE f == [EmptyFrame EXCEPT !.queue = q, !.color = c]
  <2>1. f.ret = BADINDEX /\ To(t, "paint_head", f, hand[t])
      BY <1>8 DEF EmptyFrame
  <2> HIDE DEF f
  <2> QED BY <1>2, <1>3, <1>8, <2>1, CallKeeps
<1> QED BY <1>1, <1>4, <1>5, <1>6, <1>7, <1>8, CallEffect

-----------------------------------------------------------------------------
(***************************************************************************)
(* The swaps that succeed: tail, head, last link, freelist.                *)
(***************************************************************************)

\* A thread that is between two accesses to the freelist or the queues.
LEMMA NoClaims ==
    ASSUME NEW t \in Thread, NEW ch, NEW tg, pc'[t] \in {"idle", "deq_head", "enq_tail"},
           pc'[t] = "enq_tail" => next'[frame'[t].desc].index = BADINDEX
    PROVE  Facts(t, ch, tg)'
<1>1. HeadFacts(t)'
    BY DEF HeadFacts, HoldsHead
<1>2. TailFacts(t)'
    BY DEF TailFacts, HoldsTail
<1>3. FreeFacts(t, ch, tg)'
    BY DEF FreeFacts, HoldsTop
<1>4. LinkFacts(t)'
    BY DEF LinkFacts
<1> QED BY <1>1, <1>2, <1>3, <1>4 DEF Facts

\* The freelist's facts go by the freelist's chain only.
LEMMA TagsAlike ==
    ASSUME NEW ch, NEW tg, NEW ch2, ch2[0] = ch[0], Tags(ch, tg)'
    PROVE  Tags(ch2, tg)'
BY DEF Tags

\* So does who is free.
LEMMA FreeAlike ==
    ASSUME NEW ch, NEW ch2, ch2[0] = ch[0]
    PROVE  \A n \in Node : IsFree(ch2, n) <=> IsFree(ch, n)
BY DEF IsFree

\* The tail is swung from the checkpoint to the descriptor behind it.
LEMMA SwingGood ==
    ASSUME TInv, LagOK, LagNext, Timely, NEW ch, NEW tg, Good(ch, tg), NEW t \in Thread,
           HoldsTail(t), \A u \in Thread : u # t => Still(u), pc[t] # "push_count",
           NEW n, SwingTail(t, n), tail[frame[t].queue] = frame[t].tail,
           tailLag[t] = 0 => next[tail[frame[t].queue].index].index = n, n # BADINDEX,
           UNCHANGED <<next, head, top, aba>>, Owned(t)' = Owned(t),
           pc'[t] \in {"idle", "deq_head", "enq_tail"},
           pc'[t] = "enq_tail" => next[frame'[t].desc].index = BADINDEX
    PROVE  Good(ch, tg)'
<1> DEFINE q == frame[t].queue
           p == [index |-> n, count |-> Bump(frame[t].tail.count)]
<1>1. /\ TypeOK /\ TailFacts(t) /\ Shape(ch) /\ Tags(ch, tg) /\ Apart(ch) /\ Distinct
      /\ \A u \in Thread : Facts(u, ch, tg)
    BY Start DEF Good
<1>2. q \in Queue /\ tail[q].count \in Count /\ tailLag[t] \in Nat /\ tailLag[t] < CountMod
    BY HoldFields DEF LagOK, Timely
<1>3. tailLag[t] = 0
  <2>1. Since(tail[q].count, tail[q].count, tailLag[t])
      BY <1>1, <1>2 DEF TailFacts
  <2> QED BY <1>2, <2>1, SinceFacts
<1>4. tail' = [tail EXCEPT ![q] = p] /\ p.index = next[tail[q].index].index /\ p.index # BADINDEX
      /\ p.count = Bump(tail[q].count)
    BY <1>3 DEF SwingTail
<1> HIDE DEF p
<1>5. Shape(ch)' /\ p.index # head[q].index
  <2>1. tail \in [Queue -> Ptr]
      BY <1>1 DEF TypeOK
  <2> QED BY <1>1, <1>2, <1>4, <2>1, ShapeSwing
<1>6. \A r \in Queue : HeadStep(r) /\ TailStep(r)
  <2>1. tail'[q] = p /\ \A r \in Queue : r # q => tail'[r] = tail[r]
      BY <1>1, <1>2, <1>4 DEF TypeOK
  <2> QED BY <1>4, <1>5, <2>1 DEF HeadStep, TailStep
<1>7. (\A m \in Node : Aged(m)) /\ (\A m \in Node : age'[m] = age[m])
    BY AgesKept
<1>8. \A m \in Node : Same(next'[m], next[m])
    BY DEF Same
<1>9. Tags(ch, tg)'
    BY <1>1, <1>7, <1>8, TagsKept DEF In
<1>10. Apart(ch)'
  <2>1. Owned(t)' \cup In(ch) = Owned(t) \cup In(ch) /\ Owned(t)' \cap In(ch) = {}
      BY <1>1 DEF Apart
  <2> QED BY <1>1, <2>1, ApartMove
<1>11. ~Numbered(t)' /\ ~HoldsTop(t)'
    BY DEF Numbered, HoldsTop
<1>12. Distinct'
    BY <1>1, <1>11, DistinctKept
<1>13. \A u \in Thread : u # t => Facts(u, ch, tg)'
  <2>1. \A u \in Thread : u # t /\ HoldsTop(u) => \A m \in Node :
              IsFree(ch, m) /\ tg[m] = frame[u].top.count /\ m = frame[u].top.index
                => IsFree(ch, m) /\ tg[m] = tg[m] /\ Same(next'[m], next[m])
      BY <1>8
  <2>2. \A m \in Node : m \in Owned(t) \/ m \in In(ch) \/ (Same(next'[m], next[m]) /\ Aged(m))
      BY <1>7, <1>8
  <2>3. CountStep
      BY DEF CountStep
  <2> QED BY <1>1, <1>6, <2>1, <2>2, <2>3, Bystanders
<1>14. Facts(t, ch, tg)'
    BY NoClaims
<1> QED BY <1>5, <1>9, <1>10, <1>12, <1>13, <1>14 DEF Good

\* A sender that helps another, before it tries again.
LEMMA EnqHelpGood ==
    ASSUME TInv, LagOK, LagNext, Timely, NEW ch, NEW tg, Good(ch, tg), NEW t \in Thread, EnqHelp(t)
    PROVE  Good(ch, tg)'
<1>1. /\ TypeOK /\ pc[t] = "enq_help" /\ Role("enq_help", frame[t], hand[t]) /\ frame[t] \in Frame
      /\ TailFacts(t) /\ LinkFacts(t)
    BY Start DEF EnqHelp
<1>2. CASE tail[frame[t].queue] # frame[t].tail
    BY <1>2, EnqHelpQuiet
<1>3. CASE tail[frame[t].queue] = frame[t].tail
  <2>1. To(t, "enq_tail", Retry(frame[t]), hand[t]) /\ SwingTail(t, frame[t].next.index)
        /\ UNCHANGED <<next, head, top, aba>>
      BY <1>1, EnqHelpEffect
  <2>2. pc'[t] = "enq_tail" /\ frame'[t] = Retry(frame[t]) /\ hand'[t] = hand[t]
        /\ \A u \in Thread : u # t => Still(u)
      BY <1>1, <2>1, ToFacts
  <2>3. HoldsTail(t) /\ pc[t] # "push_count"
      BY <1>1 DEF HoldsTail
  <2>4. frame[t].next.index # BADINDEX
      BY <1>1 DEF Role
  <2>5. tailLag[t] = 0 => next[tail[frame[t].queue].index].index = frame[t].next.index
      BY <1>1, <2>4 DEF TailFacts
  <2>6. frame'[t].desc = frame[t].desc /\ frame'[t].ret = frame[t].ret
      BY <1>1, <2>2 DEF Retry, Frame
  <2>7. Owned(t)' = Owned(t)
      BY <1>1, <2>2, <2>6 DEF Owned
  <2>8. next[frame'[t].desc].index = BADINDEX
      BY <1>1, <2>6 DEF LinkFacts
  <2>9. pc'[t] \in {"idle", "deq_head", "enq_tail"}
      BY <2>2
  <2> QED BY <1>3, <2>1, <2>2, <2>3, <2>4, <2>5, <2>7, <2>8, <2>9, SwingGood
<1> QED BY <1>2, <1>3

\* A receiver that helps a sender.
LEMMA DeqHelpGood ==
    ASSUME TInv, LagOK, LagNext, Timely, NEW ch, NEW tg, Good(ch, tg), NEW t \in Thread, DeqHelp(t)
    PROVE  Good(ch, tg)'
<1>1. /\ TypeOK /\ pc[t] = "deq_help" /\ Role("deq_help", frame[t], hand[t]) /\ frame[t] \in Frame
      /\ TailFacts(t)
    BY Start DEF DeqHelp
<1>2. CASE tail[frame[t].queue] # frame[t].tail
    BY <1>2, DeqHelpQuiet
<1>3. CASE tail[frame[t].queue] = frame[t].tail
  <2>1. To(t, "deq_head", Retry(frame[t]), hand[t]) /\ SwingTail(t, frame[t].next.index)
        /\ UNCHANGED <<next, head, top, aba>>
      BY <1>1, DeqHelpEffect
  <2>2. pc'[t] = "deq_head" /\ frame'[t] = Retry(frame[t]) /\ hand'[t] = hand[t]
        /\ \A u \in Thread : u # t => Still(u)
      BY <1>1, <2>1, ToFacts
  <2>3. HoldsTail(t) /\ pc[t] # "push_count"
      BY <1>1 DEF HoldsTail
  <2>4. frame[t].next.index # BADINDEX /\ frame[t].tail.index = frame[t].head.index
      BY <1>1 DEF Role
  <2>5. tailLag[t] = 0 => next[tail[frame[t].queue].index].index = frame[t].next.index
      BY <1>1, <2>4 DEF TailFacts
  <2>6. frame'[t].desc = frame[t].desc /\ frame'[t].ret = frame[t].ret
      BY <1>1, <2>2 DEF Retry, Frame
  <2>7. Owned(t)' = Owned(t)
      BY <1>1, <2>2, <2>6 DEF Owned
  <2>9. pc'[t] \in {"idle", "deq_head", "enq_tail"} /\ pc'[t] # "enq_tail"
      BY <2>2
  <2> QED BY <1>3, <2>1, <2>2, <2>3, <2>4, <2>5, <2>7, <2>9, SwingGood
<1> QED BY <1>2, <1>3

\* A sender that has linked its request.
LEMMA EnqSwingGood ==
    ASSUME TInv, LagOK, LagNext, Timely, NEW ch, NEW tg, Good(ch, tg), NEW t \in Thread, EnqSwing(t)
    PROVE  Good(ch, tg)'
<1>1. /\ TypeOK /\ pc[t] = "enq_swing" /\ Role("enq_swing", frame[t], hand[t]) /\ frame[t] \in Frame
      /\ TailFacts(t)
    BY Start DEF EnqSwing
<1>2. CASE tail[frame[t].queue] # frame[t].tail
    BY <1>2, EnqSwingQuiet
<1>3. CASE tail[frame[t].queue] = frame[t].tail
  <2>1. To(t, "idle", EmptyFrame, BADINDEX) /\ SwingTail(t, frame[t].desc)
        /\ UNCHANGED <<next, head, top, aba>>
      BY <1>1, EnqSwingEffect
  <2>2. pc'[t] = "idle" /\ frame'[t] = EmptyFrame /\ hand'[t] = BADINDEX
        /\ \A u \in Thread : u # t => Still(u)
      BY <1>1, <2>1, ToFacts
  <2>3. HoldsTail(t) /\ pc[t] # "push_count"
      BY <1>1 DEF HoldsTail
  <2>4. frame[t].desc # BADINDEX
      BY <1>1 DEF Role, EnqAt
  <2>5. tailLag[t] = 0 => next[tail[frame[t].queue].index].index = frame[t].desc
      BY <1>1 DEF TailFacts
  <2>7. Owned(t)' = Owned(t)
      BY <1>1, <2>2 DEF Owned, EmptyFrame, Role, EnqAt
  <2>9. pc'[t] \in {"idle", "deq_head", "enq_tail"} /\ pc'[t] # "enq_tail"
      BY <2>2
  <2> QED BY <1>3, <2>1, <2>2, <2>3, <2>4, <2>5, <2>7, <2>9, SwingGood
<1> QED BY <1>2, <1>3

\* The head of a queue advances, and the old dummy belongs to the thread.
LEMMA DeqCasGood ==
    ASSUME TInv, LagOK, LagNext, Timely, NEW ch, NEW tg, Good(ch, tg), NEW t \in Thread, DeqCas(t),
           head[frame[t].queue] = frame[t].head
    PROVE  \E ch2 : ch2 = Drop(ch, frame[t].queue) /\ Good(ch2, tg)'
<1> DEFINE q == frame[t].queue
           p == [index |-> frame[t].next.index, count |-> Bump(frame[t].head.count)]
<1>1. /\ TypeOK /\ pc[t] = "deq_cas" /\ Role("deq_cas", frame[t], hand[t]) /\ frame[t] \in Frame
      /\ HeadFacts(t) /\ Shape(ch) /\ Tags(ch, tg) /\ Apart(ch) /\ Distinct
      /\ \A u \in Thread : Facts(u, ch, tg)
    BY Start DEF DeqCas, Good
<1>2. HoldsHead(t)
    BY <1>1 DEF HoldsHead
<1>3. q \in Queue /\ head[q].count \in Count /\ headLag[t] \in Nat /\ headLag[t] < CountMod
      /\ head[q].index \in Node
    BY <1>2, HoldFields DEF LagOK, Timely
<1>4. headLag[t] = 0
  <2>1. Since(head[q].count, head[q].count, headLag[t])
      BY <1>2, <1>3, <1>1 DEF HeadFacts
  <2> QED BY <1>3, <2>1, SinceFacts
<1>5. /\ p.index = next[head[q].index].index /\ p.index # BADINDEX /\ tail[q].index # head[q].index
      /\ p.count = Bump(head[q].count)
  <2>1. frame[t].next.index # BADINDEX
      BY <1>1 DEF Role
  <2> QED BY <1>1, <1>2, <1>4, <2>1 DEF HeadFacts
<1>6. /\ To(t, "push_count", [EmptyFrame EXCEPT !.ret = frame[t].ret, !.desc = frame[t].head.index,
           !.back = "deq"], hand[t])
      /\ head' = [head EXCEPT ![q] = p] /\ UNCHANGED <<next, tail, top, aba>>
    BY <1>1, DeqCasEffect
<1> HIDE DEF p
<1>20. PICK ch2 : ch2 = Drop(ch, q)
    OBVIOUS
<1>7. /\ pc'[t] = "push_count" /\ hand'[t] = hand[t] /\ \A u \in Thread : u # t => Still(u)
      /\ frame'[t].ret = frame[t].ret /\ frame'[t].desc = head[q].index /\ frame'[t].back = "deq"
  <2>1. /\ frame'[t] = [EmptyFrame EXCEPT !.ret = frame[t].ret, !.desc = frame[t].head.index,
             !.back = "deq"]
        /\ pc'[t] = "push_count" /\ hand'[t] = hand[t] /\ \A u \in Thread : u # t => Still(u)
      BY <1>1, <1>6, ToFacts
  <2> QED BY <2>1 DEF EmptyFrame
<1>21. head'[q] = p /\ \A r \in Queue : r # q => head'[r] = head[r]
    BY <1>1, <1>3, <1>6 DEF TypeOK
<1>8. Shape(ch2)' /\ In(ch2) = In(ch) \ {head[q].index} /\ ch2[0] = ch[0] /\ head[q].index \in In(ch)
  <2>1. head'[q].index = next[head[q].index].index /\ head'[q].index # BADINDEX
          /\ tail[q].index # head[q].index
      BY <1>5, <1>21
  <2>2. UNCHANGED <<next, tail, top>>
      BY <1>6
  <2>3. Shape(ch)
      BY <1>1
  <2> HIDE DEF q
  <2> QED BY <1>3, <1>20, <1>21, <2>1, <2>2, <2>3, ShapeAdvance
<1>9. \A r \in Queue : HeadStep(r) /\ TailStep(r)
    BY <1>5, <1>6, <1>21 DEF HeadStep, TailStep
<1>10. pc[t] # "push_count"
    BY <1>1
<1>11. (\A m \in Node : Aged(m)) /\ (\A m \in Node : age'[m] = age[m])
    BY <1>6, <1>7, <1>10, AgesKept
<1>12. \A m \in Node : Same(next'[m], next[m])
    BY <1>6 DEF Same
<1>13. Tags(ch2, tg)'
  <2>1. Tags(ch, tg)'
      BY <1>1, <1>6, <1>11, <1>12, TagsKept DEF In
  <2> QED BY <1>8, <2>1, TagsAlike
<1>14. Owned(t) = {frame[t].ret} /\ Owned(t)' = {frame[t].ret, head[q].index}
  <2>1. frame[t].ret # BADINDEX /\ hand[t] = BADINDEX /\ head[q].index # BADINDEX
      BY <1>1, <1>3, NodeFacts DEF Role, DeqAt
  <2> QED BY <1>1, <1>7, <2>1 DEF Owned
<1>15. Apart(ch2)'
  <2>1. frame[t].ret \notin In(ch)
      BY <1>1, <1>14 DEF Apart
  <2>2. Owned(t)' \cup In(ch2) = Owned(t) \cup In(ch) /\ Owned(t)' \cap In(ch2) = {}
      BY <1>8, <1>14, <2>1
  <2> QED BY <1>1, <1>7, <2>2, ApartMove
<1>16. Distinct'
  <2>1. ~Numbered(t)' /\ ~HoldsTop(t)'
      BY <1>7 DEF Numbered, HoldsTop
  <2> QED BY <1>1, <1>7, <2>1, DistinctKept
<1>17. \A u \in Thread : u # t => Facts(u, ch2, tg)'
  <2>1. \A u \in Thread : u # t /\ HoldsTop(u) => \A m \in Node :
              IsFree(ch2, m) /\ tg[m] = frame[u].top.count /\ m = frame[u].top.index
                => IsFree(ch, m) /\ tg[m] = tg[m] /\ Same(next'[m], next[m])
      BY <1>8, <1>12, FreeAlike
  <2>2. \A m \in Node : m \in Owned(t) \/ m \in In(ch) \/ (Same(next'[m], next[m]) /\ Aged(m))
      BY <1>11, <1>12
  <2>3. CountStep
      BY <1>6 DEF CountStep
  <2> QED BY <1>1, <1>7, <1>9, <2>1, <2>2, <2>3, Bystanders
<1>18. Facts(t, ch2, tg)'
  <2>1. HeadFacts(t)'
      BY <1>7 DEF HeadFacts, HoldsHead
  <2>2. TailFacts(t)'
      BY <1>7 DEF TailFacts, HoldsTail
  <2>3. FreeFacts(t, ch2, tg)'
      BY <1>7 DEF FreeFacts, HoldsTop
  <2>4. frame[t].ret # head[q].index
      BY <1>1, <1>8, <1>14 DEF Apart
  <2>5. LinkFacts(t)'
      BY <1>7, <2>4 DEF LinkFacts
  <2> QED BY <2>1, <2>2, <2>3, <2>5 DEF Facts
<1>19. Good(ch2, tg)'
    BY <1>8, <1>13, <1>15, <1>16, <1>17, <1>18 DEF Good
<1> QED BY <1>19, <1>20

\* The descriptor is linked behind the last one of the queue.
LEMMA EnqLinkGood ==
    ASSUME TInv, LagOK, LagNext, NEW ch, NEW tg, Good(ch, tg), NEW t \in Thread, EnqLink(t),
           next[frame[t].tail.index] = frame[t].next,
           frame[t].tail.index = ch[frame[t].queue][Len(ch[frame[t].queue])]
    PROVE  \E ch2 : ch2 = Extend(ch, frame[t].queue, frame[t].desc) /\ Good(ch2, tg)'
<1> DEFINE q == frame[t].queue
           d == frame[t].desc
           last == frame[t].tail.index
           l == [index |-> d, count |-> Bump(frame[t].next.count), color |-> frame[t].next.color]
<1>1. /\ TypeOK /\ pc[t] = "enq_link" /\ Role("enq_link", frame[t], hand[t]) /\ frame[t] \in Frame
      /\ Fields(frame[t]) /\ TailFacts(t) /\ LinkFacts(t)
      /\ Shape(ch) /\ Tags(ch, tg) /\ Apart(ch) /\ Distinct
      /\ \A u \in Thread : Facts(u, ch, tg)
    BY Start DEF EnqLink, Good
<1>2. /\ q \in Queue /\ d \in Node /\ hand[t] = d /\ frame[t].ret = BADINDEX /\ d # BADINDEX
      /\ last \in Node /\ next[last].index = BADINDEX
    BY <1>1, NodeFacts DEF Role, EnqAt, Fields
<1>3. Owned(t) = {d}
    BY <1>1, <1>2 DEF Owned
<1>4. d \notin In(ch) /\ next[d].index = BADINDEX
    BY <1>1, <1>3 DEF Apart, LinkFacts
<1>5. To(t, "enq_swing", frame[t], hand[t]) /\ next' = [next EXCEPT ![last] = l]
      /\ UNCHANGED <<head, tail, top, aba>>
    BY <1>1, EnqLinkEffect
<1>6. pc'[t] = "enq_swing" /\ frame'[t] = frame[t] /\ hand'[t] = hand[t] /\ \A u \in Thread : u # t
        => Still(u)
    BY <1>1, <1>5, ToFacts
<1>7. l.index = d /\ next'[last].index = d /\ \A m \in Node : m # last => next'[m] = next[m]
    BY <1>1, <1>2, <1>5 DEF TypeOK
<1>8. last \in In(ch) /\ ~IsFree(ch, last)
  <2>1. q \in Place /\ q # 0 /\ 0 \in Place /\ Linked(ch) /\ Len(ch[q]) > 0
      BY <1>1, <1>2, PlaceFacts DEF Shape, Anchored
  <2>2. Len(ch[q]) \in 1 .. Len(ch[q])
    <3>1. Len(ch[q]) \in Nat
        BY <2>1, ChainTyped
    <3> QED BY <2>1, <3>1
  <2>3. ch[q][Len(ch[q])] \in In(ch)
      BY <2>1, <2>2, ChainTyped
  <2>4. ~IsFree(ch, ch[q][Len(ch[q])])
      BY <2>1, <2>2 DEF IsFree, Linked
  <2> QED BY <2>3, <2>4
<1>20. PICK ch2 : ch2 = Extend(ch, q, d)
    OBVIOUS
<1> HIDE DEF l
<1>9. Shape(ch2)' /\ In(ch2) = In(ch) \cup {d} /\ ch2[0] = ch[0]
  <2>2. last = ch[q][Len(ch[q])]
      OBVIOUS
  <2>3. UNCHANGED <<head, tail, top>>
      BY <1>5
  <2> HIDE DEF d, q, last
  <2> QED BY <1>1, <1>2, <1>4, <1>7, <1>20, <2>2, <2>3, ShapeLink
<1>10. \A r \in Queue : HeadStep(r) /\ TailStep(r)
  <2>1. \A r \in Queue : head[r].index \in Node /\ tail[r].index \in Node
      BY <1>1, EndsIn DEF In
  <2>2. \A m \in Node : next'[m].index = next[m].index \/ next[m].index = BADINDEX
      BY <1>2, <1>7
  <2> QED BY <1>5, <2>1, <2>2 DEF HeadStep, TailStep
<1>11. pc[t] # "push_count"
    BY <1>1
<1>12. (\A m \in Node : Aged(m)) /\ (\A m \in Node : age'[m] = age[m])
    BY <1>5, <1>6, <1>11, AgesKept
<1>13. \A m \in Node : m = last \/ Same(next'[m], next[m])
    BY <1>7 DEF Same
<1>14. Tags(ch2, tg)'
  <2>1. Tags(ch, tg)'
    <3>1. \A m \in In(ch) : Same(next'[m], next[m]) \/ ~IsFree(ch, m)
        BY <1>8, <1>13 DEF In
    <3> QED BY <1>1, <1>5, <1>12, <3>1, TagsKept
  <2> QED BY <1>9, <2>1, TagsAlike
<1>15. Apart(ch2)'
  <2>1. Owned(t)' = {}
      BY <1>2, <1>6 DEF Owned
  <2>2. Owned(t)' \cup In(ch2) = Owned(t) \cup In(ch) /\ Owned(t)' \cap In(ch2) = {}
      BY <1>3, <1>9, <2>1
  <2> QED BY <1>1, <1>6, <2>2, ApartMove
<1>16. Distinct'
  <2>1. ~Numbered(t)' /\ ~HoldsTop(t)'
      BY <1>6 DEF Numbered, HoldsTop
  <2> QED BY <1>1, <1>6, <2>1, DistinctKept
<1>17. \A u \in Thread : u # t => Facts(u, ch2, tg)'
  <2>1. \A u \in Thread : u # t /\ HoldsTop(u) => \A m \in Node :
              IsFree(ch2, m) /\ tg[m] = frame[u].top.count /\ m = frame[u].top.index
                => IsFree(ch, m) /\ tg[m] = tg[m] /\ Same(next'[m], next[m])
      BY <1>8, <1>9, <1>13, FreeAlike
  <2>2. \A m \in Node : m \in Owned(t) \/ m \in In(ch) \/ (Same(next'[m], next[m]) /\ Aged(m))
      BY <1>8, <1>12, <1>13
  <2>3. CountStep
      BY <1>5 DEF CountStep
  <2> QED BY <1>1, <1>6, <1>10, <2>1, <2>2, <2>3, Bystanders
<1>18. Facts(t, ch2, tg)'
  <2>1. HeadFacts(t)'
      BY <1>6 DEF HeadFacts, HoldsHead
  <2>2. TailFacts(t)'
    <3>1. tailLag'[t] = tailLag[t]
        BY <1>1, <1>5, <1>6, QuietLags DEF Leaves
    <3>2. tailLag[t] = 0 => next'[tail[q].index].index = d
        BY <1>1, <1>7 DEF TailFacts, HoldsTail
    <3> QED BY <1>1, <1>5, <1>6, <3>1, <3>2 DEF TailFacts, HoldsTail, Since
  <2>3. FreeFacts(t, ch2, tg)'
      BY <1>6 DEF FreeFacts, HoldsTop
  <2>5. LinkFacts(t)'
      BY <1>6 DEF LinkFacts
  <2> QED BY <2>1, <2>2, <2>3, <2>5 DEF Facts
<1>19. Good(ch2, tg)'
    BY <1>9, <1>14, <1>15, <1>16, <1>17, <1>18 DEF Good
<1> QED BY <1>19, <1>20

\* The top of the freelist is taken.
LEMMA PopCasGood ==
    ASSUME TInv, LagOK, LagNext, NEW ch, NEW tg, Good(ch, tg), NEW t \in Thread, PopCas(t),
           top = frame[t].top
    PROVE  \E ch2 : ch2 = Drop(ch, 0) /\ Good(ch2, tg)'
<1>1. /\ TypeOK /\ pc[t] = "pop_cas" /\ Role("pop_cas", frame[t], hand[t]) /\ frame[t] \in Frame
      /\ Fields(frame[t]) /\ HeadFacts(t) /\ FreeFacts(t, ch, tg)
      /\ Shape(ch) /\ Tags(ch, tg) /\ Apart(ch) /\ Distinct
      /\ \A u \in Thread : Facts(u, ch, tg)
    BY Start DEF PopCas, Good
<1>2. /\ top.index \in Node /\ top.index # BADINDEX /\ hand[t] = BADINDEX /\ frame[t].ret = BADINDEX
      /\ frame[t].back \in {"alloc", "deq"}
    BY <1>1, NodeFacts DEF Role, PopAt, Fields
<1>3. /\ IsFree(ch, top.index) /\ Len(ch[0]) > 0 /\ top.index = ch[0][1] /\ top.count = tg[ch[0][1]]
      /\ ch[0] \in Seq(Node) /\ Len(ch[0]) \in Nat /\ 1 \in 1 .. Len(ch[0]) /\ Linked(ch) /\ 0 \in Place
  <2>1. IsFree(ch, top.index) /\ Len(ch[0]) > 0 /\ top.index = ch[0][1] /\ Linked(ch) /\ 0 \in Place
      BY <1>1, <1>2, EndsIn, PlaceFacts DEF Shape, Anchored
  <2>2. ch[0] \in Seq(Node) /\ Len(ch[0]) \in Nat
      BY <2>1, ChainTyped
  <2>3. top.count = tg[ch[0][1]]
      BY <1>1, <2>1 DEF Tags
  <2> QED BY <2>1, <2>2, <2>3
<1>4. Same(frame[t].new, next[top.index])
    BY <1>1, <1>3 DEF FreeFacts
<1>5. /\ UNCHANGED <<next, head, tail, aba>> /\ top' = frame[t].new
      /\ \/ frame[t].back = "alloc" /\ To(t, "idle", EmptyFrame, frame[t].top.index)
         \/ /\ frame[t].back = "deq"
            /\ To(t, "deq_copy", [frame[t] EXCEPT !.ret = frame[t].top.index, !.top = NoLink,
                 !.new = NoLink], hand[t])
    BY <1>1, <1>2, PopCasEffect
<1>6. /\ \A u \in Thread : u # t => Still(u)
      /\ \/ /\ pc'[t] = "idle" /\ hand'[t] = top.index /\ frame'[t].ret = BADINDEX
         \/ /\ pc'[t] = "deq_copy" /\ hand'[t] = BADINDEX /\ frame'[t].ret = top.index
                 /\ frame[t].back = "deq"
            /\ frame'[t].queue = frame[t].queue /\ frame'[t].head = frame[t].head
            /\ frame'[t].next = frame[t].next
  <2>1. CASE frame[t].back = "alloc" /\ To(t, "idle", EmptyFrame, frame[t].top.index)
    <3>1. pc'[t] = "idle" /\ frame'[t] = EmptyFrame /\ hand'[t] = top.index /\ \A u \in Thread : u # t
            => Still(u)
        BY <1>1, <2>1, ToFacts
    <3> QED BY <3>1 DEF EmptyFrame
  <2>2. CASE /\ frame[t].back = "deq"
             /\ To(t, "deq_copy", [frame[t] EXCEPT !.ret = frame[t].top.index, !.top = NoLink,
                  !.new = NoLink], hand[t])
    <3>1. /\ pc'[t] = "deq_copy" /\ hand'[t] = hand[t] /\ \A u \in Thread : u # t => Still(u)
          /\ frame'[t] = [frame[t] EXCEPT !.ret = frame[t].top.index, !.top = NoLink, !.new = NoLink]
        BY <1>1, <2>2, ToFacts
    <3>2. /\ frame'[t].ret = top.index /\ frame'[t].queue = frame[t].queue
               /\ frame'[t].head = frame[t].head
          /\ frame'[t].next = frame[t].next
        BY <1>1, <3>1 DEF Frame
    <3> QED BY <1>2, <2>2, <3>1, <3>2
  <2> QED BY <1>5, <2>1, <2>2
<1>20. PICK ch2 : ch2 = Drop(ch, 0)
    OBVIOUS
<1>7. /\ Shape(ch2)' /\ In(ch2) = In(ch) \ {top.index} /\ top.index \in In(ch)
      /\ Len(ch[0]) \in Nat /\ Len(ch[0]) > 0 /\ ch[0][1] = top.index
      /\ Len(ch2[0]) = Len(ch[0]) - 1
      /\ \A i \in 1 .. Len(ch[0]) - 1 : ch2[0][i] = ch[0][i + 1]
  <2>1. top'.index = next[top.index].index
      BY <1>4, <1>5 DEF Same
  <2>2. UNCHANGED <<next, head, tail>>
      BY <1>5
  <2> QED BY <1>1, <1>2, <1>20, <2>1, <2>2, ShapePop
<1>10. pc[t] # "push_count"
    BY <1>1
<1>11. (\A m \in Node : Aged(m)) /\ (\A m \in Node : age'[m] = age[m])
    BY <1>5, <1>6, <1>10, AgesKept
<1>12. \A m \in Node : Same(next'[m], next[m])
    BY <1>5 DEF Same
<1>13. Tags(ch2, tg)'
  <2>1. Len(ch2[0]) > 0 => top'.count = tg[ch2[0][1]]
    <3> SUFFICES ASSUME Len(ch2[0]) > 0 PROVE top'.count = tg[ch2[0][1]]
        OBVIOUS
    <3>1. 1 \in 1 .. Len(ch[0]) - 1 /\ 1 < Len(ch[0])
        BY <1>7
    <3>2. next[ch[0][1]].index # BADINDEX
        BY <1>3, <3>1, ChainNext
    <3>3. top'.count = next[ch[0][1]].count
        BY <1>3, <1>4, <1>5, <3>2 DEF Same
    <3>4. next[ch[0][1]].count = tg[ch[0][1 + 1]] /\ ch2[0][1] = ch[0][1 + 1]
        BY <1>1, <1>7, <3>1 DEF Tags
    <3> QED BY <3>3, <3>4
  <2>2. \A i \in 1 .. Len(ch2[0]) - 1 : next[ch2[0][i]].count = tg[ch2[0][i + 1]]
    <3> SUFFICES ASSUME NEW i \in 1 .. Len(ch2[0]) - 1 PROVE next[ch2[0][i]].count = tg[ch2[0][i + 1]]
        OBVIOUS
    <3>1. i \in 1 .. Len(ch[0]) - 1 /\ i + 1 \in 1 .. Len(ch[0]) - 1
        BY <1>7
    <3>2. ch2[0][i] = ch[0][i + 1] /\ ch2[0][i + 1] = ch[0][(i + 1) + 1]
        BY <1>7, <3>1
    <3>3. next[ch[0][i + 1]].count = tg[ch[0][(i + 1) + 1]]
        BY <1>1, <3>1 DEF Tags
    <3> QED BY <3>2, <3>3
  <2>3. \A i \in 1 .. Len(ch2[0]) : age[ch2[0][i]] < CountMod
          => Since(aba, tg[ch2[0][i]], age[ch2[0][i]])
    <3> SUFFICES ASSUME NEW i \in 1 .. Len(ch2[0])
                 PROVE  age[ch2[0][i]] < CountMod => Since(aba, tg[ch2[0][i]], age[ch2[0][i]])
        OBVIOUS
    <3>1. i \in 1 .. Len(ch[0]) - 1 /\ i + 1 \in 1 .. Len(ch[0])
        BY <1>7
    <3>2. ch2[0][i] = ch[0][i + 1]
        BY <1>7, <3>1
    <3> QED BY <1>1, <3>1, <3>2 DEF Tags
  <2>4. \A i \in 1 .. Len(ch2[0]) : ch2[0][i] \in Node
    <3>1. \A i \in 1 .. Len(ch2[0]) : i + 1 \in 1 .. Len(ch[0]) /\ ch2[0][i] = ch[0][i + 1]
        BY <1>7
    <3> QED BY <1>3, <3>1
  <2>5. \A i \in 1 .. Len(ch2[0]) : age'[ch2[0][i]] < CountMod
          => Since(aba', tg[ch2[0][i]], age'[ch2[0][i]])
      BY <1>5, <1>11, <2>3, <2>4
  <2> QED BY <1>1, <1>5, <2>1, <2>2, <2>5 DEF Tags, Since
<1>14. Owned(t) = {} /\ Owned(t)' = {top.index}
    BY <1>1, <1>2, <1>6 DEF Owned
<1>15. Apart(ch2)'
  <2>2. Owned(t)' \cup In(ch2) = Owned(t) \cup In(ch) /\ Owned(t)' \cap In(ch2) = {}
      BY <1>7, <1>14
  <2> QED BY <1>1, <1>6, <2>2, ApartMove
<1>16. Distinct'
  <2>1. ~Numbered(t)' /\ ~HoldsTop(t)'
      BY <1>6 DEF Numbered, HoldsTop
  <2> QED BY <1>1, <1>6, <2>1, DistinctKept
<1>17. \A u \in Thread : u # t => Facts(u, ch2, tg)'
  <2>0. \A m \in Node : IsFree(ch2, m) => IsFree(ch, m)
    <3> SUFFICES ASSUME NEW i \in 1 .. Len(ch2[0]) PROVE \E j \in 1 .. Len(ch[0]) : ch[0][j] = ch2[0][i]
        BY DEF IsFree
    <3>1. i + 1 \in 1 .. Len(ch[0]) /\ i \in 1 .. Len(ch[0]) - 1
        BY <1>7
    <3> QED BY <1>7, <3>1
  <2>1. \A u \in Thread : u # t /\ HoldsTop(u) => \A m \in Node :
              IsFree(ch2, m) /\ tg[m] = frame[u].top.count /\ m = frame[u].top.index
                => IsFree(ch, m) /\ tg[m] = tg[m] /\ Same(next'[m], next[m])
      BY <1>12, <2>0
  <2>2. \A m \in Node : m \in Owned(t) \/ m \in In(ch) \/ (Same(next'[m], next[m]) /\ Aged(m))
      BY <1>11, <1>12
  <2>3. CountStep
      BY <1>5 DEF CountStep
  <2>4. \A q \in Queue : HeadStep(q) /\ TailStep(q)
      BY <1>5 DEF HeadStep, TailStep
  <2> QED BY <1>1, <1>6, <2>1, <2>2, <2>3, <2>4, Bystanders
<1>18. Facts(t, ch2, tg)'
  <2>1. CASE pc'[t] = "idle"
      BY <2>1, NoClaims
  <2>2. CASE pc'[t] = "deq_copy"
    <3>1. headLag'[t] = headLag[t]
        BY <1>1, <1>5, <1>6, QuietLags DEF Leaves
    <3>2. HoldsHead(t)
        BY <1>1, <1>6, <2>2 DEF HoldsHead
    <3>3. HeadFacts(t)'
        BY <1>1, <1>5, <1>6, <2>2, <3>1, <3>2 DEF HeadFacts, HoldsHead, Since
    <3>4. TailFacts(t)'
        BY <2>2 DEF TailFacts, HoldsTail
    <3>5. FreeFacts(t, ch2, tg)'
        BY <2>2 DEF FreeFacts, HoldsTop
    <3>6. LinkFacts(t)'
        BY <2>2 DEF LinkFacts
    <3> QED BY <3>3, <3>4, <3>5, <3>6 DEF Facts
  <2> QED BY <1>6, <2>1, <2>2
<1>19. Good(ch2, tg)'
    BY <1>7, <1>13, <1>15, <1>16, <1>17, <1>18 DEF Good
<1> QED BY <1>19, <1>20

\* The descriptor becomes the top of the freelist, under its new number.
LEMMA PushCasGood ==
    ASSUME TInv, LagOK, LagNext, NEW ch, NEW tg, Good(ch, tg), NEW t \in Thread, PushCas(t),
           top = frame[t].top
    PROVE  \E ch2, tg2 : ch2 = Prepend(ch, frame[t].desc) /\ Good(ch2, tg2)'
<1>1. /\ TypeOK /\ pc[t] = "push_cas" /\ Role("push_cas", frame[t], hand[t]) /\ frame[t] \in Frame
      /\ Fields(frame[t]) /\ FreeFacts(t, ch, tg) /\ LinkFacts(t)
      /\ Shape(ch) /\ Tags(ch, tg) /\ Apart(ch) /\ Distinct
      /\ \A u \in Thread : Facts(u, ch, tg)
    BY Start DEF PushCas, Good
<1>30. PICK d : d = frame[t].desc
    OBVIOUS
<1>31. PICK c : c = frame[t].new.count
    OBVIOUS
<1>2. /\ d \in Node /\ d # BADINDEX /\ frame[t].new.index = d /\ c \in Count
      /\ frame[t].back \in {"free", "deq"}
      /\ frame[t].back = "free" => frame[t].ret = BADINDEX /\ hand[t] \in {d, BADINDEX}
      /\ frame[t].back = "deq" => frame[t].ret # BADINDEX /\ hand[t] = BADINDEX /\ frame[t].ret # d
    BY <1>1, <1>30, <1>31, NodeFacts DEF Role, PushAt, Fields, LinkFacts
<1>3. Owned(t) = {d} \cup (IF frame[t].back = "deq" THEN {frame[t].ret} ELSE {})
    BY <1>1, <1>2, <1>30 DEF Owned
<1>4. d \notin In(ch)
    BY <1>1, <1>3 DEF Apart
<1>5. Same(next[d], top) /\ (age[d] < CountMod => Since(aba, c, age[d]))
    BY <1>1, <1>30, <1>31 DEF FreeFacts
<1>6. /\ UNCHANGED <<next, head, tail, aba>> /\ top' = frame[t].new
      /\ To(t, "idle", EmptyFrame, IF frame[t].back = "deq" THEN frame[t].ret ELSE BADINDEX)
    BY <1>1, PushCasEffect
<1>7. /\ \A u \in Thread : u # t => Still(u)
      /\ pc'[t] = "idle" /\ frame'[t].ret = BADINDEX
      /\ hand'[t] = IF frame[t].back = "deq" THEN frame[t].ret ELSE BADINDEX
  <2>1. /\ \A u \in Thread : u # t => Still(u)
        /\ pc'[t] = "idle" /\ frame'[t] = EmptyFrame
        /\ hand'[t] = IF frame[t].back = "deq" THEN frame[t].ret ELSE BADINDEX
      BY <1>1, <1>6, ToFacts
  <2> QED BY <2>1 DEF EmptyFrame
<1>8. top'.index = d /\ top'.count = c
    BY <1>2, <1>6, <1>31
<1>20. PICK ch2 : ch2 = Prepend(ch, d)
    OBVIOUS
<1>21. PICK tg2 : tg2 = [tg EXCEPT ![d] = c]
    OBVIOUS
<1>22. tg2 \in [Node -> Count] /\ tg2[d] = c /\ \A m \in Node : m # d => tg2[m] = tg[m]
    BY <1>1, <1>2, <1>21 DEF Tags
<1>9. /\ Shape(ch2)' /\ In(ch2) = In(ch) \cup {d}
      /\ Len(ch[0]) \in Nat /\ Len(ch2[0]) = Len(ch[0]) + 1 /\ ch2[0][1] = d
      /\ \A i \in 1 .. Len(ch[0]) : ch2[0][i + 1] = ch[0][i]
  <2>1. next[d].index = top.index
      BY <1>5 DEF Same
  <2>2. UNCHANGED <<next, head, tail>>
      BY <1>6
  <2> QED BY <1>1, <1>2, <1>4, <1>8, <1>20, <2>1, <2>2, ShapePush
<1>10. pc[t] # "push_count"
    BY <1>1
<1>11. (\A m \in Node : Aged(m)) /\ (\A m \in Node : age'[m] = age[m])
    BY <1>6, <1>7, <1>10, AgesKept
<1>12. \A m \in Node : Same(next'[m], next[m])
    BY <1>6 DEF Same
<1>23. /\ 0 \in Place /\ Linked(ch)
       /\ \A i \in 1 .. Len(ch[0]) : ch[0][i] \in Node /\ ch[0][i] # d /\ tg2[ch[0][i]] = tg[ch[0][i]]
  <2>1. 0 \in Place /\ Linked(ch)
      BY <1>1, PlaceFacts DEF Shape
  <2>2. \A i \in 1 .. Len(ch[0]) : ch[0][i] \in Node /\ ch[0][i] \in In(ch)
      BY <2>1, ChainTyped
  <2> QED BY <1>4, <1>22, <2>1, <2>2
<1>24. \A j \in 1 .. Len(ch2[0]) : j = 1 \/ (j - 1 \in 1 .. Len(ch[0]) /\ ch2[0][j] = ch[0][j - 1])
  <2> SUFFICES ASSUME NEW j \in 1 .. Len(ch2[0]), j # 1
               PROVE  j - 1 \in 1 .. Len(ch[0]) /\ ch2[0][j] = ch[0][j - 1]
      OBVIOUS
  <2>1. j - 1 \in 1 .. Len(ch[0]) /\ (j - 1) + 1 = j
      BY <1>9
  <2> QED BY <1>9, <2>1
<1>13. Tags(ch2, tg2)'
  <2>1. top'.count = tg2[ch2[0][1]]
      BY <1>8, <1>9, <1>22
  <2>2. ASSUME NEW i \in 1 .. Len(ch2[0]) - 1 PROVE next[ch2[0][i]].count = tg2[ch2[0][i + 1]]
    <3>1. i \in 1 .. Len(ch[0]) /\ ch2[0][i + 1] = ch[0][i] /\ tg2[ch[0][i]] = tg[ch[0][i]]
        BY <1>9, <1>23
    <3>2. CASE i = 1
      <4>1. Len(ch[0]) > 0
          BY <1>9, <3>1
      <4>2. top.index = ch[0][1] /\ top.count = tg[ch[0][1]] /\ top.index # BADINDEX
          BY <1>1, <1>23, <3>1, <3>2, <4>1, NodeFacts DEF Shape, Anchored, Tags
      <4>3. next[d].count = top.count
          BY <1>5, <4>2 DEF Same
      <4> QED BY <1>9, <3>1, <3>2, <4>2, <4>3
    <3>3. CASE i # 1
      <4>1. i - 1 \in 1 .. Len(ch[0]) - 1 /\ (i - 1) + 1 = i /\ i \in 1 .. Len(ch2[0])
          BY <1>9, <3>1, <3>3
      <4>2. ch2[0][i] = ch[0][i - 1]
          BY <1>24, <3>3, <4>1
      <4>3. next[ch[0][i - 1]].count = tg[ch[0][(i - 1) + 1]]
          BY <1>1, <4>1 DEF Tags
      <4> QED BY <3>1, <4>1, <4>2, <4>3
    <3> QED BY <3>2, <3>3
  <2>3. ASSUME NEW i \in 1 .. Len(ch2[0])
        PROVE  age'[ch2[0][i]] < CountMod => Since(aba', tg2[ch2[0][i]], age'[ch2[0][i]])
    <3>1. CASE i = 1
        BY <1>2, <1>5, <1>6, <1>9, <1>11, <1>22, <3>1
    <3>2. CASE i # 1
      <4>1. i - 1 \in 1 .. Len(ch[0]) /\ ch2[0][i] = ch[0][i - 1]
          BY <1>24, <3>2
      <4>2. age[ch[0][i - 1]] < CountMod => Since(aba, tg[ch[0][i - 1]], age[ch[0][i - 1]])
          BY <1>1, <4>1 DEF Tags
      <4> QED BY <1>6, <1>11, <1>23, <4>1, <4>2
    <3> QED BY <3>1, <3>2
  <2> QED BY <1>6, <1>22, <2>1, <2>2, <2>3 DEF Tags, Since
<1>14. Owned(t)' = IF frame[t].back = "deq" THEN {frame[t].ret} ELSE {}
    BY <1>2, <1>7 DEF Owned
<1>15. Apart(ch2)'
  <2>1. frame[t].back = "deq" => frame[t].ret \notin In(ch)
      BY <1>1, <1>3 DEF Apart
  <2>2. Owned(t)' \cup In(ch2) = Owned(t) \cup In(ch) /\ Owned(t)' \cap In(ch2) = {}
      BY <1>2, <1>3, <1>9, <1>14, <2>1
  <2> QED BY <1>1, <1>7, <2>2, ApartMove
<1>16. Distinct'
  <2>1. ~Numbered(t)' /\ ~HoldsTop(t)'
      BY <1>7 DEF Numbered, HoldsTop
  <2> QED BY <1>1, <1>7, <2>1, DistinctKept
<1>17. \A u \in Thread : u # t => Facts(u, ch2, tg2)'
  <2>0. \A m \in Node : IsFree(ch2, m) => m = d \/ IsFree(ch, m)
    <3> SUFFICES ASSUME NEW i \in 1 .. Len(ch2[0])
                 PROVE  ch2[0][i] = d \/ \E j \in 1 .. Len(ch[0]) : ch[0][j] = ch2[0][i]
        BY DEF IsFree
    <3> QED BY <1>9, <1>24
  <2>1. \A u \in Thread : u # t /\ HoldsTop(u) => \A m \in Node :
              IsFree(ch2, m) /\ tg2[m] = frame[u].top.count /\ m = frame[u].top.index
                => IsFree(ch, m) /\ tg[m] = tg2[m] /\ Same(next'[m], next[m])
    <3>1. Numbered(t)
        BY <1>1 DEF Numbered
    <3>2. \A u \in Thread : HoldsTop(u) /\ frame[u].top.index = d => frame[u].top.count # c
        BY <1>1, <1>30, <1>31, <3>1 DEF Distinct
    <3> QED BY <1>12, <1>22, <2>0, <3>2
  <2>2. \A m \in Node : m \in Owned(t) \/ m \in In(ch) \/ (Same(next'[m], next[m]) /\ Aged(m))
      BY <1>11, <1>12
  <2>3. CountStep
      BY <1>6 DEF CountStep
  <2>4. \A q \in Queue : HeadStep(q) /\ TailStep(q)
      BY <1>6 DEF HeadStep, TailStep
  <2> QED BY <1>1, <1>7, <2>1, <2>2, <2>3, <2>4, Bystanders
<1>18. Facts(t, ch2, tg2)'
    BY <1>7, NoClaims
<1>19. Good(ch2, tg2)'
    BY <1>9, <1>13, <1>15, <1>16, <1>17, <1>18 DEF Good
<1>29. ch2 = Prepend(ch, frame[t].desc)
    BY <1>20, <1>30
<1> QED BY <1>19, <1>29, Zenon

\* A number is handed out: no thread holds a checkpoint of the same one, unless
\* all of them were handed out since.
LEMMA PushCountGood ==
    ASSUME TInv, LagOK, LagNext, Timely', NEW ch, NEW tg, Good(ch, tg), NEW t \in Thread, PushCount(t)
    PROVE  Good(ch, tg)'
<1>1. /\ TypeOK /\ pc[t] = "push_count" /\ Role("push_count", frame[t], hand[t]) /\ frame[t] \in Frame
      /\ Fields(frame[t]) /\ LinkFacts(t)
      /\ Shape(ch) /\ Tags(ch, tg) /\ Apart(ch) /\ Distinct
      /\ \A u \in Thread : Facts(u, ch, tg)
    BY Start DEF PushCount, Good
<1>2. /\ frame[t].desc \in Node /\ frame[t].desc \in Owned(t) /\ aba \in Count
    BY <1>1, NodeFacts DEF Role, PushAt, Fields, Owned, TypeOK
<1>3. PICK g \in StackColor :
        To(t, "push_link",
           [frame[t] EXCEPT !.new = [index |-> frame[t].desc, count |-> Bump(aba), color |-> g]],
             hand[t])
    BY <1>1, PushCountEffect
<1>4. UNCHANGED <<next, head, tail, top>> /\ aba' = Bump(aba) /\ aba' # aba
    BY <1>1, <1>2, PushCountEffect, BumpFacts
<1>5. /\ \A u \in Thread : u # t => Still(u)
      /\ pc'[t] = "push_link" /\ hand'[t] = hand[t]
      /\ frame'[t].ret = frame[t].ret /\ frame'[t].desc = frame[t].desc
           /\ frame'[t].back = frame[t].back
      /\ frame'[t].new.count = Bump(aba)
  <2>1. /\ \A u \in Thread : u # t => Still(u)
        /\ pc'[t] = "push_link" /\ hand'[t] = hand[t]
        /\ frame'[t] = [frame[t] EXCEPT !.new = [index |-> frame[t].desc, count |-> Bump(aba),
             color |-> g]]
      BY <1>1, <1>3, ToFacts
  <2> QED BY <1>1, <2>1 DEF Frame
<1>6. /\ age'[frame[t].desc] = 0
      /\ \A m \in Node : m # frame[t].desc => Aged(m)
      /\ \A n \in Nat : Older(n) = n + 1
  <2>1. \A u \in Thread : u # t => ~Leaves(u, {"push_count"})
      BY <1>5 DEF Leaves, Still
  <2>2. Leaves(t, {"push_count"})
      BY <1>1, <1>5 DEF Leaves
  <2> QED BY <1>2, <1>4, <2>1, <2>2 DEF LagNext, Aged, Older
<1>7. \A m \in Node : Same(next'[m], next[m])
    BY <1>4 DEF Same
<1>8. Shape(ch)'
    BY <1>1, <1>4, ShapeKeep
<1>9. CountStep
    BY <1>4 DEF CountStep
<1>10. Tags(ch, tg)'
  <2>1. /\ 0 \in Place /\ Linked(ch)
        /\ \A i \in 1 .. Len(ch[0]) : ch[0][i] \in Node /\ ch[0][i] \in In(ch)
      BY <1>1, PlaceFacts, ChainTyped DEF Shape
  <2>2. ASSUME NEW i \in 1 .. Len(ch[0])
        PROVE  age'[ch[0][i]] < CountMod => Since(aba', tg[ch[0][i]], age'[ch[0][i]])
    <3>1. ch[0][i] \in Node /\ ch[0][i] # frame[t].desc
        BY <1>1, <1>2, <2>1 DEF Apart
    <3>2. tg[ch[0][i]] \in Count /\ age[ch[0][i]] \in Nat /\ age'[ch[0][i]] = Older(age[ch[0][i]])
        BY <1>1, <1>6, <3>1 DEF Tags, LagOK, Aged
    <3>3. age[ch[0][i]] < CountMod => Since(aba, tg[ch[0][i]], age[ch[0][i]])
        BY <1>1 DEF Tags
    <3> QED BY <1>1, <1>9, <3>2, <3>3, SinceLater
  <2> QED BY <1>1, <1>4, <2>2 DEF Tags, Since
<1>11. Owned(t)' = Owned(t)
    BY <1>1, <1>5 DEF Owned
<1>12. Apart(ch)'
  <2>1. Owned(t)' \cup In(ch) = Owned(t) \cup In(ch) /\ Owned(t)' \cap In(ch) = {}
      BY <1>1, <1>11 DEF Apart
  <2> QED BY <1>1, <1>5, <2>1, ApartMove
<1>13. Distinct'
  <2>1. ASSUME NEW u \in Thread, u # t, HoldsTop(u) PROVE frame[u].top.count # Bump(aba)
    <3>1. topLag'[u] = topLag[u] + 1 /\ HoldsTop(u)' /\ topLag[u] \in Nat
        BY <1>5, <1>6, <2>1, StillFacts DEF LagOK
    <3>2. topLag[u] + 1 < CountMod /\ topLag[u] < CountMod
        BY <3>1, NodeFacts DEF Timely
    <3>3. Since(aba, frame[u].top.count, topLag[u]) /\ frame[u].top.count \in Count
        BY <1>1, <2>1, <3>2, HoldFields DEF Facts, FreeFacts
    <3> QED BY <1>2, <3>1, <3>2, <3>3, SinceFacts
  <2>2. ~HoldsTop(t)'
      BY <1>5 DEF HoldsTop
  <2>3. \A u \in Thread : u # t /\ HoldsTop(u) /\ frame[u].top.index = frame'[t].desc
                    => frame[u].top.count # frame'[t].new.count
      BY <1>5, <2>1
  <2> QED BY <1>1, <1>5, <2>2, <2>3, DistinctKept
<1>14. \A u \in Thread : u # t => Facts(u, ch, tg)'
  <2>1. \A u \in Thread : u # t /\ HoldsTop(u) => \A m \in Node :
              IsFree(ch, m) /\ tg[m] = frame[u].top.count /\ m = frame[u].top.index
                => IsFree(ch, m) /\ tg[m] = tg[m] /\ Same(next'[m], next[m])
      BY <1>7
  <2>2. \A m \in Node : m \in Owned(t) \/ m \in In(ch) \/ (Same(next'[m], next[m]) /\ Aged(m))
      BY <1>2, <1>6, <1>7
  <2>4. \A q \in Queue : HeadStep(q) /\ TailStep(q)
      BY <1>4 DEF HeadStep, TailStep
  <2> QED BY <1>1, <1>5, <1>9, <2>1, <2>2, <2>4, Bystanders
<1>15. Facts(t, ch, tg)'
  <2>1. HeadFacts(t)'
      BY <1>5 DEF HeadFacts, HoldsHead
  <2>2. TailFacts(t)'
      BY <1>5 DEF TailFacts, HoldsTail
  <2>3. FreeFacts(t, ch, tg)'
    <3>1. Since(Bump(aba), Bump(aba), 0)
        BY <1>2, BumpFacts, SinceFacts
    <3> QED BY <1>4, <1>5, <1>6, <3>1 DEF FreeFacts, HoldsTop, Since
  <2>4. LinkFacts(t)'
      BY <1>1, <1>5 DEF LinkFacts
  <2> QED BY <2>1, <2>2, <2>3, <2>4 DEF Facts
<1> QED BY <1>8, <1>10, <1>12, <1>13, <1>14, <1>15 DEF Good

-----------------------------------------------------------------------------
(***************************************************************************)
(* Walk.  What it computes is a recursive function, and its value for a    *)
(* chain follows by induction over the naturals, in the form of a set      *)
(* that holds 0 and the successor of each of its elements.                 *)
(***************************************************************************)

\* Induction over the naturals for a set.
LEMMA SetInduction ==
    ASSUME NEW S, 0 \in S, \A n \in Nat : n \in S => n + 1 \in S
    PROVE  \A n \in Nat : n \in S
<1> SUFFICES ASSUME NEW a \in Nat, a \notin S PROVE FALSE
    OBVIOUS
<1> DEFINE T == {n \in Nat : n \notin S}
           below == {0 .. n : n \in T}
<1>1. below \subseteq FiniteSubsetsOf(Nat)
  <2> SUFFICES ASSUME NEW n \in Nat PROVE 0 .. n \in FiniteSubsetsOf(Nat)
      OBVIOUS
  <2>1. IsFiniteSet(0 .. n) /\ 0 .. n \subseteq Nat
      BY FS_Interval
  <2> QED BY <2>1 DEF FiniteSubsetsOf
<1>2. IsWellFoundedOn(StrictSubsetOrdering(Nat), FiniteSubsetsOf(Nat))
    BY FS_StrictSubsetOrderingWellFounded
<1>3. PICK b \in below : \A c \in below : <<c, b>> \notin StrictSubsetOrdering(Nat)
    <2>1. 0 .. a \in below
        OBVIOUS
    <2> HIDE DEF below
    <2> QED BY <1>1, <1>2, <2>1, WFMin
<1>4. PICK n \in T : b = 0 .. n
    OBVIOUS
<1>5. n \in Nat \ {0} /\ n - 1 \in T
    <2>1. n # 0 /\ n \in Nat
        OBVIOUS
    <2>2. n - 1 \in Nat /\ (n - 1) + 1 = n
        BY <2>1
    <2>3. n - 1 \notin S
        BY <2>2
    <2> QED BY <2>1, <2>2, <2>3
<1>6. <<0 .. n - 1, 0 .. n>> \in StrictSubsetOrdering(Nat)
    <2>1. 0 .. n - 1 \subseteq 0 .. n /\ 0 .. n \subseteq Nat /\ n \in 0 .. n /\ n \notin 0 .. n - 1
        BY <1>5
    <2> QED BY <2>1 DEF StrictSubsetOrdering
<1>7. 0 .. n - 1 \in below
    BY <1>5
<1> QED BY <1>3, <1>4, <1>6, <1>7

\* at lists what is reached from i.
Reaches(at, i) == at = [k \in 0 .. NDescs |-> IF k = 0 THEN i ELSE Follow(at[k - 1])]

\* A chain that starts at i, links one descriptor to the next and ends.
Chain(s, i) ==
    /\ s \in Seq(Node) /\ Len(s) <= NDescs
    /\ i = IF Len(s) > 0 THEN s[1] ELSE BADINDEX
    /\ \A k \in 1 .. Len(s) : next[s[k]].index = IF k < Len(s) THEN s[k + 1] ELSE BADINDEX

\* From the first descriptor of a chain Walk finds the chain.
LEMMA WalkChain ==
    ASSUME NEW i, NEW s, Chain(s, i)
    PROVE  Walk(i) = s
<1> DEFINE w == [k \in 0 .. NDescs |-> IF k < Len(s) THEN s[k + 1] ELSE BADINDEX]
<1>1. NDescs \in Nat /\ BADINDEX \notin Node
    BY NodeFacts
<1>2. Len(s) \in Nat /\ Len(s) <= NDescs /\ \A k \in 1 .. Len(s) : s[k] \in Node
    BY DEF Chain
<1>3. w[0] = i
    BY <1>1, <1>2 DEF Chain
<1>4. \A k \in 1 .. NDescs : w[k] = Follow(w[k - 1])
  <2> SUFFICES ASSUME NEW k \in 1 .. NDescs PROVE w[k] = Follow(w[k - 1])
      OBVIOUS
  <2>1. CASE k - 1 < Len(s)
    <3>1. k \in 1 .. Len(s) /\ w[k - 1] = s[k] /\ s[k] # BADINDEX
        BY <1>1, <1>2, <2>1
    <3>2. next[s[k]].index = IF k < Len(s) THEN s[k + 1] ELSE BADINDEX
        BY <3>1 DEF Chain
    <3> QED BY <3>1, <3>2 DEF Follow
  <2>2. CASE ~(k - 1 < Len(s))
      BY <1>1, <1>2, <2>2 DEF Follow
  <2> QED BY <2>1, <2>2
<1>5. Reaches(w, i)
  <2>1. \A k \in 0 .. NDescs : w[k] = IF k = 0 THEN i ELSE Follow(w[k - 1])
    <3>1. \A k \in 0 .. NDescs : k = 0 \/ k \in 1 .. NDescs
        BY <1>1
    <3> HIDE DEF w
    <3> QED BY <1>3, <1>4, <3>1, Zenon
  <2>2. w = [k \in 0 .. NDescs |-> w[k]]
      OBVIOUS
  <2> HIDE DEF w
  <2> QED BY <2>1, <2>2 DEF Reaches
<1> DEFINE at == CHOOSE x : Reaches(x, i)
<1>6. Reaches(at, i)
  <2> HIDE DEF w
  <2> QED BY <1>5
<1>7. at = w
  <2> DEFINE S == {k \in Nat : k <= NDescs => at[k] = w[k]}
  <2> HIDE DEF at, w
  <2>1. \A k \in 0 .. NDescs : at[k] = IF k = 0 THEN i ELSE Follow(at[k - 1])
      BY <1>6, Zenon DEF Reaches
  <2>2. 0 \in S
      BY <1>1, <1>3, <2>1
  <2>3. ASSUME NEW k \in Nat, k \in S PROVE k + 1 \in S
      BY <1>1, <1>4, <2>1, <2>3
  <2>4. \A k \in Nat : k \in S
    <3> HIDE DEF S
    <3> QED BY <2>2, <2>3, SetInduction
  <2>5. at = [k \in 0 .. NDescs |-> at[k]]
      BY <1>6, Zenon DEF Reaches
  <2>6. w = [k \in 0 .. NDescs |-> w[k]]
      BY DEF w
  <2> QED BY <1>1, <2>4, <2>5, <2>6
<1>8. {k \in 0 .. NDescs - 1 : w[k] # BADINDEX} = 0 .. Len(s) - 1
    BY <1>1, <1>2
<1>9. Cardinality({k \in 0 .. NDescs - 1 : w[k] # BADINDEX}) = Len(s)
  <2>1. Cardinality(0 .. Len(s) - 1) = Len(s)
    <3>1. 0 \in Int /\ Len(s) - 1 \in Int /\ (0 > Len(s) - 1 <=> Len(s) = 0)
            /\ (Len(s) - 1) - 0 + 1 = Len(s)
        BY <1>2
    <3> QED BY <3>1, FS_Interval
  <2> HIDE DEF w
  <2> QED BY <1>8, <2>1
<1>10. Walk(i) = [k \in 1 .. Len(s) |-> w[k - 1]]
  <2> DEFINE lenOf(x) == Cardinality({k \in 0 .. NDescs - 1 : x[k] # BADINDEX})
  <2>1. Walk(i) = [k \in 1 .. lenOf(at) |-> at[k - 1]]
      BY Zenon DEF Walk, Reaches
  <2> HIDE DEF w, at
  <2> QED BY <1>7, <1>9, <2>1
<1>11. \A k \in 1 .. Len(s) : w[k - 1] = s[k]
    BY <1>1, <1>2
<1>12. s = [k \in 1 .. Len(s) |-> s[k]]
    BY DEF Chain
<1> HIDE DEF w
<1> QED BY <1>10, <1>11, <1>12

\* A chain is no longer than there are descriptors, so Walk sees its end.
LEMMA ChainBounded ==
    ASSUME NEW ch, Linked(ch), NEW p \in Place
    PROVE  Len(ch[p]) <= NDescs
<1> DEFINE f == [i \in 1 .. Len(ch[p]) |-> ch[p][i]]
<1>1. NDescs \in Nat /\ Len(ch[p]) \in Nat /\ \A i \in 1 .. Len(ch[p]) : ch[p][i] \in Node
    BY NodeFacts, ChainTyped
<1>2. IsFiniteSet(Node) /\ Cardinality(Node) = NDescs
  <2>1. 0 \in Int /\ NDescs - 1 \in Int /\ (0 > NDescs - 1 <=> NDescs = 0)
          /\ (NDescs - 1) - 0 + 1 = NDescs
      BY <1>1
  <2> QED BY <2>1, FS_Interval DEF Node
<1>3. IsFiniteSet(1 .. Len(ch[p])) /\ Cardinality(1 .. Len(ch[p])) = Len(ch[p])
  <2>1. 1 \in Int /\ Len(ch[p]) \in Int /\ (1 > Len(ch[p]) <=> Len(ch[p]) = 0)
          /\ Len(ch[p]) - 1 + 1 = Len(ch[p])
      BY <1>1
  <2> QED BY <2>1, FS_Interval
<1>4. f \in Injection(1 .. Len(ch[p]), Node)
  <2>1. f \in [1 .. Len(ch[p]) -> Node]
      BY <1>1
  <2>2. \A i, j \in 1 .. Len(ch[p]) : f[i] = f[j] => i = j
      BY DEF Linked
  <2> HIDE DEF f
  <2> QED BY <2>1, <2>2 DEF Injection, IsInjective
<1> HIDE DEF f
<1> QED BY <1>2, <1>3, <1>4, FS_Injection

\* Walk finds each queue and the freelist.
LEMMA ShapeWalk ==
    ASSUME NEW ch, Shape(ch)
    PROVE  /\ Free = ch[0]
           /\ \A q \in Queue : Walk(head[q].index) = ch[q]
<1>1. Linked(ch) /\ Anchored(ch)
    BY DEF Shape
<1>2. ASSUME NEW p \in Place, NEW i, i = IF Len(ch[p]) > 0 THEN ch[p][1] ELSE BADINDEX
      PROVE  Walk(i) = ch[p]
  <2>1. ch[p] \in Seq(Node) /\ Len(ch[p]) <= NDescs
      BY <1>1, ChainBounded, ChainTyped
  <2>2. \A k \in 1 .. Len(ch[p]) : next[ch[p][k]].index = IF k < Len(ch[p]) THEN ch[p][k + 1] ELSE BADINDEX
      BY <1>1, ChainNext
  <2>3. Chain(ch[p], i)
      BY <1>2, <2>1, <2>2 DEF Chain
  <2> QED BY <2>3, WalkChain
<1>3. Free = ch[0]
  <2>1. 0 \in Place /\ top.index = IF Len(ch[0]) > 0 THEN ch[0][1] ELSE BADINDEX
      BY <1>1, PlaceFacts DEF Anchored
  <2> QED BY <1>2, <2>1 DEF Free
<1>4. ASSUME NEW q \in Queue PROVE Walk(head[q].index) = ch[q]
  <2>1. q \in Place /\ head[q].index = IF Len(ch[q]) > 0 THEN ch[q][1] ELSE BADINDEX
      BY <1>1, PlaceFacts DEF Anchored
  <2> QED BY <1>2, <2>1
<1> QED BY <1>3, <1>4

\* Descriptors that are apart are in one place each.
LEMMA GoodOnePlace ==
    ASSUME TInv, NEW ch, Shape(ch), Apart(ch)
    PROVE  OnePlace
<1>1. Linked(ch) /\ Free = ch[0] /\ \A q \in Queue : Walk(head[q].index) = ch[q]
    BY ShapeWalk DEF Shape
<1>2. \A p \in Place : ch[p] \in Seq(Node) /\ DOMAIN ch[p] = 1 .. Len(ch[p])
    BY <1>1, ChainTyped
<1>3. \A p \in Place : Once(ch[p])
    BY <1>1, <1>2 DEF Once, Linked
<1>4. ASSUME NEW n \in Node
      PROVE  Cardinality({q \in Queue : n \in Nodes(ch[q])})
               + Cardinality({t \in Thread : n \in Owned(t)})
               + (IF n \in Nodes(ch[0]) THEN 1 ELSE 0) = 1
  <2> DEFINE QS == {q \in Queue : n \in Nodes(ch[q])}
             TS == {t \in Thread : n \in Owned(t)}
  <2>1. \A p, r \in Place : n \in Nodes(ch[p]) /\ n \in Nodes(ch[r]) => p = r
    <3> SUFFICES ASSUME NEW p \in Place, NEW r \in Place, n \in Nodes(ch[p]),
                        n \in Nodes(ch[r]) PROVE p = r
        OBVIOUS
    <3>1. PICK i \in 1 .. Len(ch[p]) : ch[p][i] = n
        BY <1>2 DEF Nodes
    <3>2. PICK j \in 1 .. Len(ch[r]) : ch[r][j] = n
        BY <1>2 DEF Nodes
    <3> QED BY <1>1, <3>1, <3>2 DEF Linked
  <2>2. n \in In(ch) <=> \E p \in Place : n \in Nodes(ch[p])
      BY <1>2 DEF In, Nodes
  <2>3. Cardinality({}) = 0 /\ \A x : Cardinality({x}) = 1
      BY FS_EmptySet, FS_Singleton
  <2>4. CASE \E p \in Place : n \in Nodes(ch[p])
    <3>1. TS = {}
        BY <2>2, <2>4 DEF Apart
    <3>2. PICK p \in Place : n \in Nodes(ch[p])
        BY <2>4
    <3>3. CASE p = 0
      <4>1. QS = {}
          BY <2>1, <3>2, <3>3, PlaceFacts
      <4> HIDE DEF QS, TS
      <4>2. Cardinality(QS) = 0 /\ Cardinality(TS) = 0
          BY <2>3, <3>1, <4>1
      <4> QED BY <3>2, <3>3, <4>2 DEF QS, TS
    <3>4. CASE p # 0
      <4>1. QS = {p} /\ n \notin Nodes(ch[0])
          BY <2>1, <3>2, <3>4, PlaceFacts
      <4> HIDE DEF QS, TS
      <4>2. Cardinality(QS) = 1 /\ Cardinality(TS) = 0
          BY <2>3, <3>1, <4>1
      <4> QED BY <4>1, <4>2 DEF QS, TS
    <3> QED BY <3>3, <3>4
  <2>5. CASE ~(\E p \in Place : n \in Nodes(ch[p]))
    <3>1. PICK t \in Thread : n \in Owned(t)
        BY <2>2, <2>5 DEF Apart
    <3>2. TS = {t}
        BY <3>1 DEF Apart
    <3>3. QS = {} /\ n \notin Nodes(ch[0])
        BY <2>5, PlaceFacts
    <3> HIDE DEF QS, TS
    <3>4. Cardinality(QS) = 0 /\ Cardinality(TS) = 1
        BY <2>3, <3>2, <3>3
    <3> QED BY <3>3, <3>4 DEF QS, TS
  <2> QED BY <2>4, <2>5
<1>5. \A q \in Queue : Once(ch[q])
    BY <1>3, PlaceFacts
<1>6. \A n \in Node : {q \in Queue : n \in Nodes(Walk(head[q].index))} = {q \in Queue : n \in Nodes(ch[q])}
    BY <1>1
<1>7. Once(ch[0])
    BY <1>3, PlaceFacts
<1> QED
  <2> DEFINE free == Free
             chain == [q \in Queue |-> Walk(head[q].index)]
  <2>1. \A n \in Node : {q \in Queue : n \in Nodes(chain[q])} = {q \in Queue : n \in Nodes(ch[q])}
      BY <1>6
  <2>2. \A q \in Queue : Once(chain[q])
      BY <1>1, <1>5
  <2>3. free = ch[0]
      BY <1>1
  <2>4. /\ \A n \in Node :
             Cardinality({q \in Queue : n \in Nodes(chain[q])})
               + Cardinality({t \in Thread : n \in Owned(t)})
               + (IF n \in Nodes(free) THEN 1 ELSE 0) = 1
        /\ Once(free)
        /\ \A q \in Queue : Once(chain[q])
    <3> HIDE DEF free, chain
    <3> QED BY <1>4, <1>7, <2>1, <2>2, <2>3
  <2> QED BY <2>4, Zenon DEF OnePlace

-----------------------------------------------------------------------------
(***************************************************************************)
(* The chains that init_migregion builds.                                  *)
(***************************************************************************)

\* The freelist runs from the last descriptor added down to 0, and each queue has
\* its dummy.
InitCh == [p \in Place |-> IF p = 0 THEN [i \in 1 .. NFree |-> NFree - i] ELSE <<NDescs - p>>]
InitTg == [n \in Node |-> n + 1]

\* Memory holds them at first.
LEMMA GoodInit ==
    ASSUME Init, LagInit
    PROVE  LagOK /\ \E ch, tg : Good(ch, tg)
<1> DEFINE ch == InitCh
           tg == InitTg
<1>1. /\ NDescs \in Nat /\ CountMod \in Nat /\ NDescs < CountMod /\ Node = 0 .. NDescs - 1
      /\ Len(QueueColor) \in Nat /\ Len(QueueColor) < NDescs
      /\ NFree = NDescs - Len(QueueColor) /\ NFree \in 1 .. NDescs
      /\ Place = 0 .. Len(QueueColor) /\ Queue = 1 .. Len(QueueColor) /\ BADINDEX \notin Node
      /\ \A n \in 0 .. NDescs : n % CountMod = n
  <2>1. NDescs \in Nat /\ CountMod \in Nat \ {0} /\ NDescs < CountMod /\ BADINDEX \notin Node
      BY NodeFacts
  <2>2. Len(QueueColor) \in Nat /\ Len(QueueColor) < NDescs
      BY QueueAssumption
  <2>3. \A n \in 0 .. NDescs : n % CountMod = n
      BY <2>1
  <2> QED BY <2>1, <2>2, <2>3 DEF NFree, Node, Queue, Place
<1>2. /\ ch \in [Place -> Seq(Node)]
      /\ Len(ch[0]) = NFree /\ \A i \in 1 .. NFree : ch[0][i] = NFree - i
      /\ \A q \in Queue : ch[q] = <<NDescs - q>> /\ Len(ch[q]) = 1 /\ ch[q][1] = NDescs - q
  <2>1. [i \in 1 .. NFree |-> NFree - i] \in Seq(Node)
      BY <1>1
  <2>2. \A q \in Queue : NDescs - q \in Node /\ <<NDescs - q>> \in Seq(Node)
      BY <1>1
  <2>3. ch[0] = [i \in 1 .. NFree |-> NFree - i] /\ \A q \in Queue : ch[q] = <<NDescs - q>>
      BY <1>1 DEF InitCh
  <2>4. \A p \in Place : InitCh[p] \in Seq(Node)
      BY <2>1, <2>2, <2>3, PlaceFacts
  <2>5. InitCh = [p \in Place |-> InitCh[p]]
      BY DEF InitCh
  <2>6. ch \in [Place -> Seq(Node)]
      BY <2>4, <2>5
  <2>7. Len([i \in 1 .. NFree |-> NFree - i]) = NFree
      BY <1>1, <2>1
  <2> HIDE DEF ch
  <2>8. Len(ch[0]) = NFree /\ \A i \in 1 .. NFree : ch[0][i] = NFree - i
      BY <2>3, <2>7
  <2>9. \A q \in Queue : ch[q] = <<NDescs - q>> /\ Len(ch[q]) = 1 /\ ch[q][1] = NDescs - q
    <3>1. \A x : Len(<<x>>) = 1 /\ <<x>>[1] = x
        OBVIOUS
    <3> QED BY <2>3, <3>1, Zenon
  <2> QED BY <2>6, <2>8, <2>9, Zenon
<1>3. /\ \A n \in Node : next[n].index = IF n >= NFree \/ n = 0 THEN BADINDEX ELSE n - 1
      /\ \A n \in Node : n < NFree => next[n].count = n
      /\ top.index = NFree - 1 /\ top.count = NFree
      /\ \A q \in Queue : head[q].index = NDescs - q /\ tail[q] = head[q]
      /\ aba = NDescs /\ \A n \in Node : age[n] = NDescs - 1 - n
  <2>1. PICK g \in StackColor :
          /\ next = [n \in Node |->
               IF n >= NFree
               THEN [index |-> BADINDEX, count |-> n % CountMod, color |-> QueueColor[NDescs - n]]
               ELSE IF n = 0 THEN NoLink
               ELSE [index |-> n - 1, count |-> n % CountMod, color |-> g]]
          /\ top = [index |-> NFree - 1, count |-> NFree % CountMod, color |-> g]
      BY DEF Init
  <2>2. \A n \in Node : next[n].index = IF n >= NFree \/ n = 0 THEN BADINDEX ELSE n - 1
      BY <2>1 DEF NoLink
  <2>3. \A n \in Node : n < NFree => next[n].count = n
    <3>1. \A n \in Node : n % CountMod = n
        BY <1>1
    <3>2. \A n \in Node : n < NFree /\ n # 0 => next[n].count = n % CountMod
        BY <1>1, <2>1
    <3>3. 0 \in Node /\ 0 < NFree => next[0].count = 0
        BY <1>1, <2>1 DEF NoLink
    <3> QED BY <3>1, <3>2, <3>3
  <2>4. top.index = NFree - 1 /\ top.count = NFree
      BY <1>1, <2>1
  <2>5. \A q \in Queue : head[q].index = NDescs - q /\ tail[q] = head[q]
      BY DEF Init, Dummy
  <2>6. aba = NDescs /\ \A n \in Node : age[n] = NDescs - 1 - n
      BY <1>1 DEF Init, LagInit
  <2> QED BY <2>2, <2>3, <2>4, <2>5, <2>6
<1>4. \A t \in Thread : pc[t] = "idle" /\ Owned(t) = {}
    BY DEF Init, Owned, EmptyFrame
<1> HIDE DEF ch
<1>5. Linked(ch)
  <2>1. \A p \in Place : \A i \in 1 .. Len(ch[p]) - 1 : next[ch[p][i]].index = ch[p][i + 1]
    <3> SUFFICES ASSUME NEW p \in Place, NEW i \in 1 .. Len(ch[p]) - 1
                 PROVE  next[ch[p][i]].index = ch[p][i + 1]
        OBVIOUS
    <3>1. p = 0
      <4>1. p \in Queue => Len(ch[p]) = 1
          BY <1>2
      <4>2. p \in Queue => i \in 1 .. 1 - 1
          BY <4>1
      <4> QED BY <4>2, PlaceFacts
    <3>2. i \in 1 .. NFree - 1 /\ i \in 1 .. NFree /\ i + 1 \in 1 .. NFree
        BY <1>1, <1>2, <3>1
    <3>3. ch[0][i] = NFree - i /\ ch[0][i + 1] = NFree - (i + 1)
        BY <1>2, <3>2
    <3>4. NFree - i \in Node /\ NFree - i # 0 /\ ~(NFree - i >= NFree)
            /\ (NFree - i) - 1 = NFree - (i + 1)
        BY <1>1, <3>2
    <3> QED BY <1>3, <3>1, <3>3, <3>4
  <2>2. \A p \in Place : Len(ch[p]) > 0 => next[ch[p][Len(ch[p])]].index = BADINDEX
    <3> SUFFICES ASSUME NEW p \in Place PROVE next[ch[p][Len(ch[p])]].index = BADINDEX
        OBVIOUS
    <3>1. CASE p = 0
      <4>1. NFree \in 1 .. NFree /\ NFree - NFree = 0 /\ 0 \in Node
          BY <1>1
      <4> QED BY <1>2, <1>3, <3>1, <4>1
    <3>2. CASE p \in Queue
      <4>1. NDescs - p \in Node /\ NDescs - p >= NFree
          BY <1>1, <3>2
      <4> QED BY <1>2, <1>3, <3>2, <4>1
    <3> QED BY <3>1, <3>2, PlaceFacts
  <2>3. \A p, r \in Place : \A i \in 1 .. Len(ch[p]), j \in 1 .. Len(ch[r]) :
         ch[p][i] = ch[r][j] => p = r /\ i = j
    <3> SUFFICES ASSUME NEW p \in Place, NEW r \in Place, NEW i \in 1 .. Len(ch[p]),
                        NEW j \in 1 .. Len(ch[r]),
                        ch[p][i] = ch[r][j]
                 PROVE  p = r /\ i = j
        OBVIOUS
    <3>0. ASSUME NEW s \in Place, NEW k \in 1 .. Len(ch[s])
          PROVE  \/ s = 0 /\ k \in 1 .. NFree /\ ch[s][k] = NFree - k
                 \/ s \in Queue /\ k = 1 /\ ch[s][k] = NDescs - s
      <4>1. CASE s = 0
          BY <1>2, <4>1
      <4>2. CASE s \in Queue
        <5>1. ch[s] = <<NDescs - s>> /\ Len(ch[s]) = 1 /\ ch[s][1] = NDescs - s
            BY <1>2, <4>2
        <5>2. k \in 1 .. 1
            BY <5>1
        <5> QED BY <4>2, <5>1, <5>2
      <4> QED BY <4>1, <4>2, PlaceFacts
    <3>1. (p = 0 /\ i \in 1 .. NFree /\ ch[p][i] = NFree - i)
            \/ (p \in Queue /\ i = 1 /\ ch[p][i] = NDescs - p)
        BY <3>0
    <3>2. (r = 0 /\ j \in 1 .. NFree /\ ch[r][j] = NFree - j)
            \/ (r \in Queue /\ j = 1 /\ ch[r][j] = NDescs - r)
        BY <3>0
    <3>3. CASE p = 0 /\ r = 0
        BY <1>1, <3>1, <3>2, <3>3
    <3>4. CASE p = 0 /\ r \in Queue
      <4>0. i \in 1 .. NFree /\ ch[p][i] = NFree - i /\ ch[r][j] = NDescs - r
          BY <3>1, <3>2, <3>4, PlaceFacts, Zenon
      <4>1. NFree - i = NDescs - r /\ i \in 1 .. NFree
          BY <4>0, Zenon
      <4> QED BY <1>1, <3>4, <4>1
    <3>5. CASE p \in Queue /\ r = 0
      <4>0. j \in 1 .. NFree /\ ch[r][j] = NFree - j /\ ch[p][i] = NDescs - p
          BY <3>1, <3>2, <3>5, PlaceFacts, Zenon
      <4>1. NFree - j = NDescs - p /\ j \in 1 .. NFree
          BY <4>0, Zenon
      <4> QED BY <1>1, <3>5, <4>1
    <3>6. CASE p \in Queue /\ r \in Queue
      <4>0. i = 1 /\ ch[p][i] = NDescs - p /\ j = 1 /\ ch[r][j] = NDescs - r
          BY <3>1, <3>2, <3>6, PlaceFacts, Zenon
      <4>1. NDescs - p = NDescs - r /\ i = 1 /\ j = 1
          BY <4>0, Zenon
      <4> QED BY <1>1, <3>6, <4>1
    <3> QED BY <3>3, <3>4, <3>5, <3>6, PlaceFacts
  <2> QED BY <1>2, <2>1, <2>2, <2>3 DEF Linked
<1>6. Shape(ch)
  <2>1. \A q \in Queue : Len(ch[q]) > 0 /\ head[q].index = ch[q][1]
      BY <1>2, <1>3
  <2>2. \A q \in Queue : \E i \in 1 .. Len(ch[q]) : tail[q].index = ch[q][i]
    <3> SUFFICES ASSUME NEW q \in Queue PROVE \E i \in 1 .. Len(ch[q]) : tail[q].index = ch[q][i]
        OBVIOUS
    <3>1. 1 \in 1 .. Len(ch[q]) /\ tail[q].index = ch[q][1]
        BY <1>2, <1>3
    <3> QED BY <3>1
  <2>3. top.index = IF Len(ch[0]) > 0 THEN ch[0][1] ELSE BADINDEX
      BY <1>1, <1>2, <1>3
  <2> QED BY <1>5, <2>1, <2>2, <2>3 DEF Shape, Anchored
<1>7. Tags(ch, tg)
  <2>1. tg \in [Node -> Count] /\ \A n \in Node : tg[n] = n + 1
      BY <1>1 DEF InitTg, Count
  <2>2. \A i \in 1 .. NFree : ch[0][i] = NFree - i /\ NFree - i \in Node
          /\ tg[NFree - i] = NFree - i + 1
      BY <1>1, <1>2, <2>1
  <2>3. top.count = tg[ch[0][1]]
      BY <1>1, <1>3, <2>2
  <2>4. \A i \in 1 .. Len(ch[0]) - 1 : next[ch[0][i]].count = tg[ch[0][i + 1]]
    <3> SUFFICES ASSUME NEW i \in 1 .. NFree - 1 PROVE next[ch[0][i]].count = tg[ch[0][i + 1]]
        BY <1>2
    <3>1. i \in 1 .. NFree /\ i + 1 \in 1 .. NFree /\ NFree - i < NFree
            /\ NFree - (i + 1) + 1 = NFree - i
        BY <1>1
    <3> QED BY <1>3, <2>2, <3>1
  <2>5. \A i \in 1 .. Len(ch[0]) : Since(aba, tg[ch[0][i]], age[ch[0][i]])
    <3> SUFFICES ASSUME NEW i \in 1 .. NFree PROVE Since(aba, tg[ch[0][i]], age[ch[0][i]])
        BY <1>2
    <3>1. NDescs = (NFree - i + 1) + (NDescs - 1 - (NFree - i))
        BY <1>1
    <3> QED BY <1>3, <2>2, <3>1 DEF Since
  <2> HIDE DEF tg
  <2> QED BY <2>1, <2>3, <2>4, <2>5 DEF Tags
<1>8. Apart(ch)
  <2>1. \A n \in Node : n \in In(ch)
    <3> SUFFICES ASSUME NEW n \in Node PROVE \E p \in Place : \E i \in 1 .. Len(ch[p]) : ch[p][i] = n
        BY DEF In
    <3>1. CASE n < NFree
      <4>1. NFree - n \in 1 .. NFree /\ NFree - (NFree - n) = n
          BY <1>1, <3>1
      <4>2. NFree - n \in 1 .. Len(ch[0]) /\ ch[0][NFree - n] = n
          BY <1>2, <4>1
      <4> QED BY <4>2, PlaceFacts
    <3>2. CASE ~(n < NFree)
      <4>1. NDescs - n \in Queue /\ NDescs - (NDescs - n) = n
          BY <1>1, <3>2
      <4>2. 1 \in 1 .. Len(ch[NDescs - n]) /\ ch[NDescs - n][1] = n
          BY <1>2, <4>1
      <4> QED BY <4>1, <4>2, PlaceFacts
    <3> QED BY <3>1, <3>2
  <2> QED BY <1>4, <2>1 DEF Apart
<1>9. \A t \in Thread : Facts(t, ch, tg)
    BY <1>4 DEF Facts, HeadFacts, TailFacts, FreeFacts, LinkFacts, HoldsHead, HoldsTail, HoldsTop
<1>10. Distinct
    BY <1>4 DEF Distinct, Numbered, HoldsTop
<1>11. Good(ch, tg)
    BY <1>6, <1>7, <1>8, <1>9, <1>10 DEF Good
<1>12. LagOK
    BY <1>1 DEF LagInit, LagOK
<1> QED BY <1>11, <1>12

-----------------------------------------------------------------------------
(***************************************************************************)
(* One step of the queues: a descriptor is linked behind the last one, or  *)
(* the first one is taken, or no queue changes.                            *)
(***************************************************************************)

\* What a step of t does to the queues.
Links(t) == EnqLink(t) /\ LinkMatches(t)
Takes(t) == DeqCas(t) /\ head[frame[t].queue] = frame[t].head
Paints(t) == PaintCas(t) /\ next[frame[t].head.index] = frame[t].next

\* The step swaps no link of a descriptor that has been retired since it was read.
LinkSwapsFresh == \A t \in Thread : Links(t) => ~gone[t]
PaintSwapsFresh == \A t \in Thread : Paints(t) => headLag[t] = 0

\* Every step is such a step until one is marked.
LEMMA Fresh ==
    ASSUME TypeOK, ~strayed', [Next /\ LagNext]_<<vars, lags>>
    PROVE  LinkSwapsFresh /\ PaintSwapsFresh
<1>1. CASE Next /\ LagNext
  <2>1. ~Strays
      BY <1>1 DEF LagNext
  <2>2. ASSUME NEW t \in Thread, Links(t) PROVE ~gone[t]
    <3>1. pc[t] = "enq_link" /\ pc'[t] = "enq_swing"
        BY <2>2 DEF Links, EnqLink, Goto, TypeOK
    <3> QED BY <2>1, <3>1 DEF Strays
  <2>3. ASSUME NEW t \in Thread, Paints(t) PROVE headLag[t] = 0
    <3>1. pc[t] = "paint_cas" /\ pc'[t] = "idle"
        BY <2>3 DEF Paints, PaintCas, Return, Goto, TypeOK
    <3> QED BY <2>1, <3>1 DEF Strays
  <2> QED BY <2>2, <2>3 DEF LinkSwapsFresh, PaintSwapsFresh
<1>2. CASE UNCHANGED <<vars, lags>>
  <2>1. pc' = pc
      BY <1>2 DEF vars
  <2>2. ASSUME NEW t \in Thread PROVE ~Links(t)
      BY <2>1 DEF Links, EnqLink, LinkMatches, Goto, TypeOK
  <2>3. ASSUME NEW t \in Thread PROVE ~Paints(t)
      BY <2>1 DEF Paints, PaintCas, Return, Goto, TypeOK
  <2> QED BY <2>2, <2>3 DEF LinkSwapsFresh, PaintSwapsFresh
<1> QED BY <1>1, <1>2

\* The mark stays.
LEMMA StrayStays == strayed /\ [Next /\ LagNext]_<<vars, lags>> => strayed'
BY DEF LagNext, lags

Moved(t, ch, ch2) ==
    IF Links(t) THEN ch2 = Extend(ch, frame[t].queue, frame[t].desc)
    ELSE IF Takes(t) THEN ch2 = Drop(ch, frame[t].queue)
    ELSE \A q \in Queue : ch2[q] = ch[q]

\* A step that moves no queue.
LEMMA GoodSame ==
    ASSUME NEW ch, NEW tg, Good(ch, tg)', NEW t \in Thread, ~Links(t), ~Takes(t)
    PROVE  \E ch2, tg2 : Moved(t, ch, ch2) /\ Good(ch2, tg2)'
BY DEF Moved

\* Every step moves one chain to the next.
LEMMA GoodStep ==
    ASSUME TInv, LagOK, LagNext, Timely, Timely', NEW ch, NEW tg, Good(ch, tg),
           NEW t \in Thread, Call(t) \/ Access(t),
           Links(t) => frame[t].tail.index = ch[frame[t].queue][Len(ch[frame[t].queue])]
    PROVE  \E ch2, tg2 : Moved(t, ch, ch2) /\ Good(ch2, tg2)'
<1>1. pc[t] # "enq_link" => ~Links(t)
    BY DEF Links, EnqLink
<1>2. pc[t] # "deq_cas" => ~Takes(t)
    BY DEF Takes, DeqCas
<1>3. CASE Call(t)
  <2>1. pc[t] = "idle"
      BY <1>3 DEF Call, CallAlloc, CallFree, CallEnqueue, CallDequeue, CallPaint, Enter
  <2> QED BY <1>1, <1>2, <1>3, <2>1, CallGood, GoodSame
<1>4. CASE PopTop(t)
    BY <1>1, <1>2, <1>4, PopTopGood, GoodSame DEF PopTop
<1>5. CASE PopNext(t)
    BY <1>1, <1>2, <1>5, PopNextGood, GoodSame DEF PopNext
<1>6. CASE PopCas(t)
  <2>1. ~Links(t) /\ ~Takes(t)
      BY <1>1, <1>2, <1>6 DEF PopCas
  <2>2. CASE top = frame[t].top
    <3>1. PICK ch2 : ch2 = Drop(ch, 0) /\ Good(ch2, tg)'
        BY <1>6, <2>2, PopCasGood
    <3>2. \A q \in Queue : ch2[q] = ch[q]
      <4>1. ch \in [Place -> Seq(Node)]
          BY DEF Good, Shape, Linked
      <4> QED BY <3>1, <4>1, PlaceFacts DEF Drop
    <3> QED BY <2>1, <3>1, <3>2 DEF Moved
  <2>3. CASE top # frame[t].top
      BY <1>6, <2>1, <2>3, PopCasQuiet, GoodSame
  <2> QED BY <2>2, <2>3
<1>7. CASE PushCount(t)
    BY <1>1, <1>2, <1>7, PushCountGood, GoodSame DEF PushCount
<1>8. CASE PushLink(t)
    BY <1>1, <1>2, <1>8, PushLinkGood, GoodSame DEF PushLink
<1>9. CASE PushCas(t)
  <2>1. ~Links(t) /\ ~Takes(t)
      BY <1>1, <1>2, <1>9 DEF PushCas
  <2>2. CASE top = frame[t].top
    <3>1. PICK ch2, tg2 : ch2 = Prepend(ch, frame[t].desc) /\ Good(ch2, tg2)'
        BY <1>9, <2>2, PushCasGood
    <3>2. \A q \in Queue : ch2[q] = ch[q]
      <4>1. ch \in [Place -> Seq(Node)]
          BY DEF Good, Shape, Linked
      <4> QED BY <3>1, <4>1, PlaceFacts DEF Prepend
    <3> QED BY <2>1, <3>1, <3>2 DEF Moved
  <2>3. CASE top # frame[t].top
      BY <1>9, <2>1, <2>3, PushCasQuiet, GoodSame
  <2> QED BY <2>2, <2>3
<1>10. CASE EnqTail(t)
    BY <1>1, <1>2, <1>10, EnqTailGood, GoodSame DEF EnqTail
<1>11. CASE EnqNext(t)
    BY <1>1, <1>2, <1>11, EnqNextGood, GoodSame DEF EnqNext
<1>12. CASE EnqCheck(t)
    BY <1>1, <1>2, <1>12, EnqCheckGood, GoodSame DEF EnqCheck
<1>13. CASE EnqLink(t)
  <2>1. CASE LinkMatches(t)
    <3>1. Links(t)
        BY <1>13, <2>1 DEF Links
    <3>2. PICK ch2 : ch2 = Extend(ch, frame[t].queue, frame[t].desc) /\ Good(ch2, tg)'
        BY <1>13, <2>1, <3>1, EnqLinkGood DEF LinkMatches
    <3> QED BY <3>1, <3>2 DEF Moved
  <2>2. CASE ~LinkMatches(t)
    <3>1. ~Links(t) /\ ~Takes(t)
        BY <1>2, <1>13, <2>2 DEF Links, EnqLink
    <3> QED BY <1>13, <2>2, <3>1, EnqLinkQuiet, GoodSame DEF LinkMatches
  <2> QED BY <2>1, <2>2
<1>14. CASE EnqHelp(t)
    BY <1>1, <1>2, <1>14, EnqHelpGood, GoodSame DEF EnqHelp
<1>15. CASE EnqSwing(t)
    BY <1>1, <1>2, <1>15, EnqSwingGood, GoodSame DEF EnqSwing
<1>16. CASE DeqHead(t)
    BY <1>1, <1>2, <1>16, DeqHeadGood, GoodSame DEF DeqHead
<1>17. CASE DeqTail(t)
    BY <1>1, <1>2, <1>17, DeqTailGood, GoodSame DEF DeqTail
<1>18. CASE DeqNext(t)
    BY <1>1, <1>2, <1>18, DeqNextGood, GoodSame DEF DeqNext
<1>19. CASE DeqCheck(t)
    BY <1>1, <1>2, <1>19, DeqCheckGood, GoodSame DEF DeqCheck
<1>20. CASE DeqEmpty(t)
    BY <1>1, <1>2, <1>20, DeqEmptyGood, GoodSame DEF DeqEmpty
<1>21. CASE DeqHelp(t)
    BY <1>1, <1>2, <1>21, DeqHelpGood, GoodSame DEF DeqHelp
<1>22. CASE DeqCopy(t)
    BY <1>1, <1>2, <1>22, DeqCopyGood, GoodSame DEF DeqCopy
<1>23. CASE DeqCas(t)
  <2>1. ~Links(t)
      BY <1>1, <1>23 DEF DeqCas
  <2>2. CASE head[frame[t].queue] = frame[t].head
    <3>1. Takes(t)
        BY <1>23, <2>2 DEF Takes
    <3>2. PICK ch2 : ch2 = Drop(ch, frame[t].queue) /\ Good(ch2, tg)'
        BY <1>23, <2>2, DeqCasGood
    <3> QED BY <2>1, <3>1, <3>2 DEF Moved
  <2>3. CASE head[frame[t].queue] # frame[t].head
    <3>1. ~Takes(t)
        BY <2>3 DEF Takes
    <3> QED BY <1>23, <2>1, <2>3, <3>1, DeqCasQuiet, GoodSame
  <2> QED BY <2>2, <2>3
<1>24. CASE PaintHead(t)
    BY <1>1, <1>2, <1>24, PaintHeadGood, GoodSame DEF PaintHead
<1>25. CASE PaintTail(t)
    BY <1>1, <1>2, <1>25, PaintTailGood, GoodSame DEF PaintTail
<1>26. CASE PaintNext(t)
    BY <1>1, <1>2, <1>26, PaintNextGood, GoodSame DEF PaintNext
<1>27. CASE PaintCheck(t)
    BY <1>1, <1>2, <1>27, PaintCheckGood, GoodSame DEF PaintCheck
<1>28. CASE PaintCas(t)
    BY <1>1, <1>2, <1>28, PaintCasGood, GoodSame DEF PaintCas
<1>29. CASE PaintBusy(t)
    BY <1>1, <1>2, <1>29, PaintBusyGood, GoodSame DEF PaintBusy
<1> QED BY <1>3, <1>4, <1>5, <1>6, <1>7, <1>8, <1>9, <1>10, <1>11, <1>12, <1>13, <1>14, <1>15,
           <1>16, <1>17, <1>18, <1>19, <1>20, <1>21, <1>22, <1>23, <1>24, <1>25, <1>26, <1>27,
           <1>28, <1>29 DEF Access

\* No step.
LEMMA GoodStutter ==
    ASSUME NEW ch, NEW tg, Good(ch, tg), UNCHANGED <<vars, lags>>
    PROVE  Good(ch, tg)'
<1>1. UNCHANGED <<next, head, tail, top, aba, pc, frame, hand>>
    BY DEF vars
<1>2. UNCHANGED <<headLag, tailLag, topLag, age>>
    BY DEF lags
<1>3. Shape(ch)'
    BY <1>1 DEF Good, Shape, Linked, Anchored
<1>4. Tags(ch, tg)'
    BY <1>1, <1>2 DEF Good, Tags, Since
<1>5. \A t \in Thread : Owned(t)' = Owned(t)
    BY <1>1 DEF Owned
<1>6. Apart(ch)'
    BY <1>5 DEF Good, Apart
<1>7. Distinct'
    BY <1>1 DEF Good, Distinct, Numbered, HoldsTop
<1>8. ASSUME NEW t \in Thread PROVE Facts(t, ch, tg)'
  <2>1. HeadFacts(t)'
      BY <1>1, <1>2 DEF Good, Facts, HeadFacts, HoldsHead, Since
  <2>2. TailFacts(t)'
      BY <1>1, <1>2 DEF Good, Facts, TailFacts, HoldsTail, Since
  <2>3. FreeFacts(t, ch, tg)'
      BY <1>1, <1>2 DEF Good, Facts, FreeFacts, HoldsTop, Since, Same
  <2>4. LinkFacts(t)'
      BY <1>1 DEF Good, Facts, LinkFacts
  <2> QED BY <2>1, <2>2, <2>3, <2>4 DEF Facts
<1> QED BY <1>3, <1>4, <1>6, <1>7, <1>8 DEF Good

\* A step is one thread's.
LEMMA StepLocal ==
    ASSUME TypeOK, NEW t \in Thread, Call(t) \/ Access(t)
    PROVE  /\ \A u \in Thread : u # t => Still(u)
           /\ pc'[t] \in {"enq_next", "enq_check", "enq_link"} => EnqTail(t) \/ EnqNext(t)
                \/ EnqCheck(t)
<1> USE DEF TypeOK, Still, Goto, Restart, Return
<1>1. CASE Call(t)
  <2>1. CASE CallAlloc(t)
      BY <2>1 DEF CallAlloc, Enter
  <2>2. CASE CallFree(t)
      BY <2>2 DEF CallFree, Enter
  <2>3. CASE \E q \in Queue : CallEnqueue(t, q)
      BY <2>3 DEF CallEnqueue, Enter
  <2>4. CASE \E q \in Queue : CallDequeue(t, q)
      BY <2>4 DEF CallDequeue, Enter
  <2>5. CASE \E q \in Queue, c \in Color : CallPaint(t, q, c)
      BY <2>5 DEF CallPaint, Enter
  <2> QED BY <1>1, <2>1, <2>2, <2>3, <2>4, <2>5 DEF Call
<1>2. CASE PopTop(t)
    BY <1>2 DEF PopTop
<1>3. CASE PopNext(t)
    BY <1>3 DEF PopNext
<1>4. CASE PopCas(t)
    BY <1>4 DEF PopCas
<1>5. CASE PushCount(t)
    BY <1>5 DEF PushCount
<1>6. CASE PushLink(t)
    BY <1>6 DEF PushLink
<1>7. CASE PushCas(t)
    BY <1>7 DEF PushCas
<1>8. CASE EnqTail(t)
    BY <1>8 DEF EnqTail
<1>9. CASE EnqNext(t)
    BY <1>9 DEF EnqNext
<1>10. CASE EnqCheck(t)
    BY <1>10 DEF EnqCheck
<1>11. CASE EnqLink(t)
    BY <1>11 DEF EnqLink
<1>12. CASE EnqHelp(t)
    BY <1>12 DEF EnqHelp
<1>13. CASE EnqSwing(t)
    BY <1>13 DEF EnqSwing
<1>14. CASE DeqHead(t)
    BY <1>14 DEF DeqHead
<1>15. CASE DeqTail(t)
    BY <1>15 DEF DeqTail
<1>16. CASE DeqNext(t)
    BY <1>16 DEF DeqNext
<1>17. CASE DeqCheck(t)
    BY <1>17 DEF DeqCheck, DeqBranch
<1>18. CASE DeqEmpty(t)
    BY <1>18 DEF DeqEmpty
<1>19. CASE DeqHelp(t)
    BY <1>19 DEF DeqHelp
<1>20. CASE DeqCopy(t)
    BY <1>20 DEF DeqCopy
<1>21. CASE DeqCas(t)
    BY <1>21 DEF DeqCas
<1>22. CASE PaintHead(t)
    BY <1>22 DEF PaintHead
<1>23. CASE PaintTail(t)
    BY <1>23 DEF PaintTail
<1>24. CASE PaintNext(t)
    BY <1>24 DEF PaintNext
<1>25. CASE PaintCheck(t)
    BY <1>25 DEF PaintCheck
<1>26. CASE PaintCas(t)
    BY <1>26 DEF PaintCas
<1>27. CASE PaintBusy(t)
    BY <1>27 DEF PaintBusy
<1> QED BY <1>1, <1>2, <1>3, <1>4, <1>5, <1>6, <1>7, <1>8, <1>9, <1>10, <1>11, <1>12, <1>13, <1>14,
       <1>15, <1>16, <1>17, <1>18, <1>19, <1>20, <1>21, <1>22, <1>23, <1>24, <1>25, <1>26, <1>27
       DEF Access

-----------------------------------------------------------------------------
(***************************************************************************)
(* Where a sender links.  Its swap compares the link of the tail it has    *)
(* read, and the tail is on the queue unless it has been retired since.    *)
(***************************************************************************)

\* The descriptor whose link a sender has read is on the queue, unless it has
\* been retired since.
OnQueue(t, ch) ==
    pc[t] \in {"enq_next", "enq_check", "enq_link"} /\ ~gone[t]
        => \E i \in 1 .. Len(ch[frame[t].queue]) : ch[frame[t].queue][i] = frame[t].tail.index

\* A descriptor stays on its queue until it is retired.
LEMMA MovedKeeps ==
    ASSUME TInv, NEW ch, Shape(ch), NEW t \in Thread, NEW ch2, Moved(t, ch, ch2),
           NEW q \in Queue, NEW i \in 1 .. Len(ch[q]), ~(HeadMoves(q) /\ head[q].index = ch[q][i])
    PROVE  \E j \in 1 .. Len(ch2[q]) : ch2[q][j] = ch[q][i]
<1>1. q \in Place /\ ch[q] \in Seq(Node) /\ ch \in [Place -> Seq(Node)]
    BY PlaceFacts DEF Shape, Linked
<1>2. Len(ch[q]) \in Nat
    BY <1>1
<1>3. CASE Links(t)
  <2>1. ch2 = [ch EXCEPT ![frame[t].queue] = Append(ch[frame[t].queue], frame[t].desc)]
      BY <1>3 DEF Moved, Extend
  <2>2. CASE q = frame[t].queue
    <3>1. ch2[q] = Append(ch[q], frame[t].desc)
        BY <1>1, <2>1, <2>2
    <3>2. i \in 1 .. Len(ch2[q]) /\ ch2[q][i] = ch[q][i]
        BY <1>1, <3>1
    <3> QED BY <3>2
  <2>3. CASE q # frame[t].queue
      BY <1>1, <2>1, <2>3
  <2> QED BY <2>2, <2>3
<1>4. CASE Takes(t)
  <2>1. ch2 = [ch EXCEPT ![frame[t].queue] = Tail(ch[frame[t].queue])]
    <3>1. ~Links(t)
        BY <1>4 DEF Links, Takes, EnqLink, DeqCas
    <3> QED BY <1>4, <3>1 DEF Moved, Drop
  <2>2. CASE q = frame[t].queue
    <3>1. ch2[q] = Tail(ch[q])
        BY <1>1, <2>1, <2>2
    <3>2. head'[q] # head[q]
      <4>1. head'[q].count = Bump(head[q].count)
          BY <1>4, <2>2 DEF Takes, DeqCas, TInv, TypeOK
      <4>2. head[q].count \in Count
          BY DEF TInv, TypeOK, Ptr
      <4> QED BY <4>1, <4>2, BumpFacts
    <3>3. head[q].index = ch[q][1]
        BY DEF Shape, Anchored
    <3>4. i # 1
        BY <3>2, <3>3 DEF HeadMoves
    <3>5. i - 1 \in 1 .. Len(ch2[q]) /\ ch2[q][i - 1] = ch[q][i]
        BY <1>1, <1>2, <3>1, <3>4
    <3> QED BY <3>5
  <2>3. CASE q # frame[t].queue
      BY <1>1, <2>1, <2>3
  <2> QED BY <2>2, <2>3
<1>5. CASE ~Links(t) /\ ~Takes(t)
    BY <1>5 DEF Moved
<1> QED BY <1>3, <1>4, <1>5

\* A step keeps OnQueue.
LEMMA OnQueueStep ==
    ASSUME TInv, LagNext, NEW ch, Shape(ch), NEW t \in Thread, Call(t) \/ Access(t),
           NEW ch2, Moved(t, ch, ch2), NEW u \in Thread, OnQueue(u, ch)
    PROVE  OnQueue(u, ch2)'
<1> SUFFICES ASSUME pc'[u] \in {"enq_next", "enq_check", "enq_link"}, ~gone'[u]
             PROVE  \E j \in 1 .. Len(ch2[frame'[u].queue]) : ch2[frame'[u].queue][j] = frame'[u].tail.index
    BY DEF OnQueue
<1>1. TypeOK /\ frame[u] \in Frame /\ Role(pc[u], frame[u], hand[u])
    BY DEF TInv, TypeOK, Roles
<1>2. gone'[u] <=> /\ ~Leaves(u, {"enq_tail"})
                   /\ gone[u] \/ \E q \in Queue : HeadMoves(q) /\ head[q].index = frame[u].tail.index
    BY DEF LagNext
<1>3. CASE u # t \/ EnqNext(u) \/ EnqCheck(u)
  <2>1. /\ frame'[u].queue = frame[u].queue /\ frame'[u].tail = frame[u].tail
        /\ pc[u] \in {"enq_next", "enq_check", "enq_link"}
    <3>1. CASE u # t
        BY <1>1, <3>1, StepLocal DEF Still
    <3>2. CASE EnqNext(u)
        BY <1>1, <3>2 DEF EnqNext, TypeOK
    <3>3. CASE EnqCheck(u)
        BY <1>1, <3>3 DEF EnqCheck, TypeOK, Goto
    <3> QED BY <1>3, <3>1, <3>2, <3>3
  <2>2. ~Leaves(u, {"enq_tail"}) /\ frame[u].queue \in Queue
      BY <1>1, <2>1 DEF Leaves, Role, EnqAt
  <2>3. PICK i \in 1 .. Len(ch[frame[u].queue]) : ch[frame[u].queue][i] = frame[u].tail.index
      BY <1>2, <2>1, <2>2 DEF OnQueue
  <2>4. ~(HeadMoves(frame[u].queue) /\ head[frame[u].queue].index = ch[frame[u].queue][i])
      BY <1>2, <2>2, <2>3
  <2>5. \E j \in 1 .. Len(ch2[frame[u].queue]) : ch2[frame[u].queue][j] = ch[frame[u].queue][i]
      BY <2>2, <2>4, MovedKeeps
  <2> QED BY <2>1, <2>3, <2>5
<1>4. CASE u = t /\ EnqTail(u)
  <2>1. /\ frame'[u].queue = frame[u].queue /\ frame'[u].tail = tail[frame[u].queue]
        /\ frame[u].queue \in Queue
      BY <1>1, <1>4 DEF EnqTail, TypeOK, Role, EnqAt
  <2>2. ch2[frame[u].queue] = ch[frame[u].queue]
    <3>1. ~Links(t) /\ ~Takes(t)
        BY <1>4 DEF Links, Takes, EnqTail, EnqLink, DeqCas
    <3> QED BY <2>1, <3>1 DEF Moved
  <2> QED BY <2>1, <2>2 DEF Shape, Anchored
<1> QED BY <1>1, <1>3, <1>4, StepLocal

\* A sender whose swap succeeds links its descriptor behind the last one.
LEMMA LinksLast ==
    ASSUME TInv, LinkSwapsFresh, NEW ch, Shape(ch), NEW t \in Thread, OnQueue(t, ch), Links(t)
    PROVE  /\ frame[t].queue \in Queue
           /\ frame[t].tail.index = ch[frame[t].queue][Len(ch[frame[t].queue])]
           /\ frame[t].tail.index = LastNode(frame[t].queue)
<1>1. TypeOK /\ pc[t] = "enq_link" /\ frame[t] \in Frame /\ Role(pc[t], frame[t], hand[t])
    BY DEF TInv, TypeOK, Roles, Links, EnqLink
<1>2. frame[t].queue \in Queue /\ frame[t].next.index = BADINDEX
    BY <1>1 DEF Role, EnqAt
<1>3. ~gone[t] /\ next[frame[t].tail.index] = frame[t].next
    BY <1>1 DEF Links, LinkMatches, LinkSwapsFresh
<1>4. PICK i \in 1 .. Len(ch[frame[t].queue]) : ch[frame[t].queue][i] = frame[t].tail.index
    BY <1>1, <1>3 DEF OnQueue
<1>5. Linked(ch) /\ frame[t].queue \in Place
    BY <1>2, PlaceFacts DEF Shape
<1>6. i = Len(ch[frame[t].queue])
  <2>1. next[ch[frame[t].queue][i]].index = BADINDEX
      BY <1>2, <1>3, <1>4
  <2>2. /\ Len(ch[frame[t].queue]) \in Nat
        /\ i < Len(ch[frame[t].queue]) => next[ch[frame[t].queue][i]].index # BADINDEX
      BY <1>5, ChainNext
  <2> QED BY <2>1, <2>2
<1>7. LastNode(frame[t].queue) = ch[frame[t].queue][Len(ch[frame[t].queue])]
    BY <1>2, ShapeWalk DEF LastNode
<1> QED BY <1>2, <1>4, <1>6, <1>7

\* The inductive invariant: memory holds some chains.
PlaceInv == TInv /\ LagOK /\ \E ch, tg : Good(ch, tg) /\ \A t \in Thread : OnQueue(t, ch)

\* It holds at first,
LEMMA PlaceInit == Init /\ LagInit => PlaceInv
<1> SUFFICES ASSUME Init, LagInit PROVE PlaceInv
    OBVIOUS
<1>1. LagOK /\ \E ch, tg : Good(ch, tg)
    BY GoodInit
<1>2. \A t \in Thread : pc[t] = "idle"
    BY DEF Init
<1>3. \A ch : \A t \in Thread : OnQueue(t, ch)
    BY <1>2 DEF OnQueue
<1> QED BY <1>1, <1>3, TInit DEF PlaceInv

\* every step keeps it, while the counters do what they are for,
LEMMA PlaceNext == PlaceInv /\ Timely /\ Timely' /\ ~strayed' /\ [Next /\ LagNext]_<<vars, lags>>
  => PlaceInv'
<1> SUFFICES ASSUME PlaceInv, Timely, Timely', ~strayed',
                    [Next /\ LagNext]_<<vars, lags>> PROVE PlaceInv'
    OBVIOUS
<1>0. LinkSwapsFresh
    BY Fresh DEF PlaceInv, TInv
<1>1. PICK ch, tg : Good(ch, tg) /\ \A t \in Thread : OnQueue(t, ch)
    BY DEF PlaceInv
<1>2. TInv /\ LagOK /\ TypeOK /\ Shape(ch)
    BY <1>1 DEF PlaceInv, TInv, Good
<1>3. CASE Next /\ LagNext
  <2>1. PICK t \in Thread : Call(t) \/ Access(t)
      BY <1>3 DEF Next
  <2>2. Links(t) => frame[t].tail.index = ch[frame[t].queue][Len(ch[frame[t].queue])]
      BY <1>0, <1>1, <1>2, LinksLast
  <2>3. PICK ch2, tg2 : Moved(t, ch, ch2) /\ Good(ch2, tg2)'
      BY <1>1, <1>2, <1>3, <2>1, <2>2, GoodStep
  <2>4. \A u \in Thread : OnQueue(u, ch2)'
      BY <1>1, <1>2, <1>3, <2>1, <2>3, OnQueueStep
  <2>5. TInv'
      BY <1>2, <1>3, TNext
  <2>6. LagOK'
      BY <1>2, <1>3, LagType
  <2> QED BY <2>3, <2>4, <2>5, <2>6 DEF PlaceInv
<1>4. CASE UNCHANGED <<vars, lags>>
  <2>1. Good(ch, tg)'
      BY <1>1, <1>4, GoodStutter
  <2>2. UNCHANGED vars /\ UNCHANGED lags
      BY <1>4
  <2>3. \A t \in Thread : OnQueue(t, ch)'
      BY <1>1, <2>2 DEF OnQueue, vars, lags
  <2>4. TInv'
      BY <1>2, <2>2, TNext
  <2>5. LagOK'
      BY <1>2, <2>2 DEF lags, LagOK
  <2> QED BY <2>1, <2>3, <2>4, <2>5 DEF PlaceInv
<1> QED BY <1>3, <1>4

\* and it says that each descriptor is in one place.
LEMMA PlaceOne == PlaceInv => OnePlace
<1> SUFFICES ASSUME PlaceInv PROVE OnePlace
    OBVIOUS
<1>1. PICK ch, tg : Good(ch, tg)
    BY DEF PlaceInv
<1> QED BY <1>1, GoodOnePlace DEF PlaceInv, Good

\* So memory holds chains until a swap strays.
LEMMA PlaceAlways == LagSpec /\ []Timely => [](strayed \/ PlaceInv)
<1>1. (strayed \/ PlaceInv) /\ Timely /\ Timely' /\ [Next /\ LagNext]_<<vars, lags>>
        => (strayed \/ PlaceInv)'
    BY PlaceNext, StrayStays
<1> QED BY <1>1, PlaceInit, PTL DEF LagSpec

\* Until a swap strays, no descriptor is lost, owned twice or linked twice: each one is
\* on one queue, on the freelist, or in the hands of one thread, however mig_enqueue,
\* mig_dequeue and the freelist's routines interleave.
THEOREM OnePlaceHolds == LagSpec /\ []Timely => [](strayed \/ OnePlace)
<1>1. PlaceInv => OnePlace
    BY PlaceOne
<1> QED BY <1>1, PlaceAlways, PTL

-----------------------------------------------------------------------------
(***************************************************************************)
(* mig_dequeue answers NULL honestly, whatever becomes of the links: this  *)
(* needs the counter of the head only.                                     *)
(***************************************************************************)

\* The checkpoint of the head is as many steps old as headLag says.
HeadAge(t) ==
    HoldsHead(t) =>
      /\ headLag[t] < CountMod => Since(head[frame[t].queue].count, frame[t].head.count, headLag[t])
      /\ headLag[t] = 0 => frame[t].head = head[frame[t].queue]

\* What a receiver that still has the head knows of the moment it read the link.
SawEmpty(t) ==
    /\ pc[t] = "deq_check" /\ headLag[t] = 0 /\ frame[t].next.index = BADINDEX => seen[t]
    /\ pc[t] = "deq_empty" => seen[t]

\* The inductive invariant, and that a step keeps it.
HonestInv == TInv /\ LagOK /\ \A t \in Thread : HeadAge(t) /\ SawEmpty(t)

\* The head of a queue moves by one swap, which gives it the next count.
LEMMA HeadMove ==
    ASSUME TInv, NEW t \in Thread, Call(t) \/ Access(t), NEW q \in Queue
    PROVE  /\ head'[q] = head[q] \/ head'[q].count = Bump(head[q].count)
           /\ ~DeqCas(t) => head' = head
<1>1. TypeOK
    BY DEF TInv
<1>2. CASE DeqCas(t)
    BY <1>1, <1>2 DEF DeqCas, TypeOK
<1>3. CASE ~DeqCas(t)
    BY <1>3 DEF Call, CallAlloc, CallFree, CallEnqueue, CallDequeue, CallPaint, Enter, Access, shared,
         PopTop, PopNext, PopCas, PushCount, PushLink, PushCas, EnqTail, EnqNext, EnqCheck, EnqLink,
           EnqHelp, EnqSwing,
         DeqHead, DeqTail, DeqNext, DeqCheck, DeqEmpty, DeqHelp, DeqCopy,
         PaintHead, PaintTail, PaintNext, PaintCheck, PaintCas, PaintBusy
<1> QED BY <1>2, <1>3

\* A checkpoint of the head is taken before deq_tail, and kept until the swap.
LEMMA HeldFrom ==
    ASSUME TInv, NEW t \in Thread, Call(t) \/ Access(t), HoldsHead(t)', ~DeqHead(t)
    PROVE  /\ HoldsHead(t) /\ ~DeqCas(t)
           /\ frame'[t].queue = frame[t].queue /\ frame'[t].head = frame[t].head
<1>0. TypeOK /\ frame[t] \in Frame /\ Role(pc[t], frame[t], hand[t])
    BY DEF TInv, TypeOK, Roles
<1> USE <1>0 DEF TypeOK, HoldsHead, Goto, Restart, Return
<1>1. CASE Call(t)
  <2>1. CASE CallAlloc(t)
      BY <2>1 DEF CallAlloc, Enter, EmptyFrame
  <2>2. CASE CallFree(t)
      BY <2>2 DEF CallFree, Enter
  <2>3. CASE \E q \in Queue : CallEnqueue(t, q)
      BY <2>3 DEF CallEnqueue, Enter
  <2>4. CASE \E q \in Queue : CallDequeue(t, q)
      BY <2>4 DEF CallDequeue, Enter
  <2>5. CASE \E q \in Queue, c \in Color : CallPaint(t, q, c)
      BY <2>5 DEF CallPaint, Enter
  <2> QED BY <1>1, <2>1, <2>2, <2>3, <2>4, <2>5 DEF Call
<1>2. CASE PopTop(t)
  <2>1. pc[t] = "pop_top"
      BY <1>2 DEF PopTop
  <2>2. \/ pc'[t] = "pop_next" /\ frame'[t] = [frame[t] EXCEPT !.top = top]
        \/ pc'[t] \in {"idle", "bug"}
      BY <1>2, PopTopEffect DEF To
  <2>3. pc'[t] = "pop_next" /\ frame'[t] = [frame[t] EXCEPT !.top = top] /\ frame[t] \in Frame
      BY <2>2
  <2>4. frame'[t].back = frame[t].back /\ frame'[t].queue = frame[t].queue
          /\ frame'[t].head = frame[t].head
      BY <2>3 DEF Frame
  <2> QED BY <2>1, <2>3, <2>4 DEF DeqCas
<1>3. CASE PopNext(t)
    BY <1>3 DEF PopNext, DeqCas
<1>4. CASE PopCas(t)
  <2>1. pc[t] = "pop_cas"
      BY <1>4 DEF PopCas
  <2>2. \/ pc'[t] = "pop_top" /\ frame'[t] = frame[t]
        \/ pc'[t] = "idle"
        \/ /\ pc'[t] = "deq_copy" /\ frame[t].back # "alloc"
           /\ frame'[t] = [frame[t] EXCEPT !.ret = frame[t].top.index, !.top = NoLink, !.new = NoLink]
    <3>1. \/ To(t, "pop_top", frame[t], hand[t])
          \/ To(t, "idle", EmptyFrame, frame[t].top.index)
          \/ /\ frame[t].back # "alloc"
             /\ To(t, "deq_copy", [frame[t] EXCEPT !.ret = frame[t].top.index, !.top = NoLink,
                  !.new = NoLink],
                   hand[t])
        BY <1>4, PopCasEffect, Zenon DEF TInv
    <3>2. CASE To(t, "pop_top", frame[t], hand[t])
        BY <3>2, ToFacts, Zenon DEF TInv
    <3>3. CASE To(t, "idle", EmptyFrame, frame[t].top.index)
        BY <3>3 DEF To, TInv, TypeOK
    <3>4. CASE /\ frame[t].back # "alloc"
               /\ To(t, "deq_copy", [frame[t] EXCEPT !.ret = frame[t].top.index, !.top = NoLink,
                    !.new = NoLink],
                     hand[t])
      <4> DEFINE g == [frame[t] EXCEPT !.ret = frame[t].top.index, !.top = NoLink, !.new = NoLink]
      <4>1. PICK f : f = g
          OBVIOUS
      <4>2. To(t, "deq_copy", f, hand[t])
          BY <3>4, <4>1
      <4>3. pc'[t] = "deq_copy" /\ frame'[t] = f
          BY <4>2, ToFacts, Zenon DEF TInv
      <4> QED BY <3>4, <4>1, <4>3
    <3> QED BY <3>1, <3>2, <3>3, <3>4
  <2>3. CASE pc'[t] = "pop_top" /\ frame'[t] = frame[t]
      BY <2>1, <2>3 DEF DeqCas
  <2>4. CASE /\ pc'[t] = "deq_copy" /\ frame[t].back # "alloc"
             /\ frame'[t] = [frame[t] EXCEPT !.ret = frame[t].top.index, !.top = NoLink, !.new = NoLink]
    <3>1. frame[t] \in Frame
        OBVIOUS
    <3>2. frame'[t].queue = frame[t].queue /\ frame'[t].head = frame[t].head
        BY <2>4, <3>1 DEF Frame
    <3>3. frame[t].back = "deq"
        BY <1>0, <2>1, <2>4 DEF Role, PopAt
    <3> QED BY <2>1, <3>2, <3>3 DEF DeqCas
  <2> QED BY <2>2, <2>3, <2>4
<1>5. CASE PushCount(t)
    BY <1>5 DEF PushCount, DeqCas
<1>6. CASE PushLink(t)
    BY <1>6 DEF PushLink, DeqCas
<1>7. CASE PushCas(t)
    BY <1>7 DEF PushCas, DeqCas
<1>8. CASE EnqTail(t)
    BY <1>8 DEF EnqTail, DeqCas
<1>9. CASE EnqNext(t)
    BY <1>9 DEF EnqNext, DeqCas
<1>10. CASE EnqCheck(t)
    BY <1>10 DEF EnqCheck, DeqCas
<1>11. CASE EnqLink(t)
    BY <1>11 DEF EnqLink, DeqCas
<1>12. CASE EnqHelp(t)
    BY <1>12 DEF EnqHelp, DeqCas
<1>13. CASE EnqSwing(t)
    BY <1>13 DEF EnqSwing, DeqCas
<1>14. CASE DeqTail(t)
    BY <1>14 DEF DeqTail, DeqCas
<1>15. CASE DeqNext(t)
    BY <1>15 DEF DeqNext, DeqCas
<1>16. CASE DeqCheck(t)
  <2>1. pc[t] = "deq_check"
      BY <1>16 DEF DeqCheck
  <2>2. \/ pc'[t] \in {"deq_head", "deq_empty", "bug"}
        \/ pc'[t] \in {"deq_help", "deq_copy"} /\ frame'[t] = frame[t]
        \/ pc'[t] = "pop_top" /\ frame'[t] = [frame[t] EXCEPT !.back = "deq"]
      BY <1>16, DeqCheckEffect DEF To
  <2>3. frame'[t].queue = frame[t].queue /\ frame'[t].head = frame[t].head
    <3>1. frame[t] \in Frame /\ pc'[t] \notin {"deq_head", "deq_empty", "bug"}
        OBVIOUS
    <3> QED BY <2>2, <3>1 DEF Frame
  <2> QED BY <2>1, <2>3 DEF DeqCas
<1>17. CASE DeqEmpty(t)
    BY <1>17 DEF DeqEmpty, DeqCas
<1>18. CASE DeqHelp(t)
    BY <1>18 DEF DeqHelp, DeqCas
<1>19. CASE DeqCopy(t)
    BY <1>19 DEF DeqCopy, DeqCas
<1>20. CASE DeqCas(t)
    BY <1>20 DEF DeqCas
<1>21. CASE PaintHead(t)
    BY <1>21 DEF PaintHead, DeqCas
<1>22. CASE PaintTail(t)
    BY <1>22 DEF PaintTail, DeqCas
<1>23. CASE PaintNext(t)
    BY <1>23 DEF PaintNext, DeqCas
<1>24. CASE PaintCheck(t)
    BY <1>24 DEF PaintCheck, DeqCas
<1>25. CASE PaintCas(t)
    BY <1>25 DEF PaintCas, DeqCas
<1>26. CASE PaintBusy(t)
    BY <1>26 DEF PaintBusy, DeqCas
<1> QED BY <1>1, <1>2, <1>3, <1>4, <1>5, <1>6, <1>7, <1>8, <1>9, <1>10, <1>11, <1>12, <1>13, <1>14,
       <1>15, <1>16, <1>17, <1>18, <1>19, <1>20, <1>21, <1>22, <1>23, <1>24, <1>25, <1>26 DEF Access

\* A step of any thread keeps the age of a checkpoint,
LEMMA AgeStep ==
    ASSUME TInv, LagOK, LagNext, NEW t \in Thread, Call(t) \/ Access(t), NEW u \in Thread, HeadAge(u)
    PROVE  HeadAge(u)'
<1> SUFFICES ASSUME HoldsHead(u)' PROVE HeadAge(u)'
    BY DEF HeadAge
<1> DEFINE q == frame[u].queue
           f == frame[u]
<1>1. TypeOK
    BY DEF TInv
<1>2. CASE u = t /\ DeqHead(u)
  <2>1. pc[u] = "deq_head" /\ pc'[u] = "deq_tail" /\ frame'[u].queue = q /\ frame'[u].head = head[q]
          /\ head' = head
      BY <1>1, <1>2 DEF DeqHead, TypeOK, Goto, shared
  <2>2. headLag'[u] = 0
      BY <2>1 DEF LagNext, Leaves
  <2>3. q \in Queue
      BY <1>1, <2>1 DEF TInv, Roles, Role, DeqAt
  <2>4. head[q].count \in Count
      BY <1>1, <2>3 DEF TypeOK, Ptr
  <2>5. Since(head[q].count, head[q].count, 0)
      BY <2>4, SinceFacts
  <2> QED BY <2>1, <2>2, <2>5 DEF HeadAge, Since
<1>3. CASE ~(u = t /\ DeqHead(u))
  <2>1. /\ HoldsHead(u) /\ frame'[u].queue = q /\ frame'[u].head = f.head
    <3>1. CASE u = t
        BY <1>3, <3>1, HeldFrom
    <3>2. CASE u # t
        BY <1>1, <3>2, StepLocal, StillFacts DEF Still
    <3> QED BY <3>1, <3>2
  <2>2. q \in Queue /\ head[q].count \in Count /\ f.head.count \in Count /\ headLag[u] \in Nat
      BY <2>1, HoldFields DEF Fields, LagOK
  <2>3. headLag'[u] = IF HeadMoves(q) THEN headLag[u] + 1 ELSE headLag[u]
    <3>1. ~Leaves(u, {"deq_head", "paint_head"})
        BY <2>1 DEF Leaves, HoldsHead
    <3> QED BY <3>1 DEF LagNext
  <2>4. CASE head'[q] = head[q]
      BY <2>1, <2>3, <2>4 DEF HeadAge, HeadMoves, Since
  <2>5. CASE head'[q] # head[q]
    <3>1. head'[q].count = Bump(head[q].count) /\ headLag'[u] = headLag[u] + 1
        BY <2>2, <2>3, <2>5, HeadMove DEF HeadMoves
    <3>2. headLag'[u] # 0 /\ (headLag'[u] < CountMod => headLag[u] < CountMod)
        BY <2>2, <3>1, NodeFacts
    <3>3. headLag'[u] < CountMod => Since(head'[q].count, f.head.count, headLag'[u])
        BY <2>1, <2>2, <3>1, <3>2, SinceFacts DEF HeadAge
    <3> QED BY <2>1, <3>2, <3>3 DEF HeadAge, Since
  <2> QED BY <2>4, <2>5
<1> QED BY <1>2, <1>3

\* the label where a receiver has read the link is reached in one way only,
LEMMA ToCheck ==
    ASSUME TypeOK, NEW t \in Thread, Call(t) \/ Access(t)
    PROVE  pc'[t] \in {"deq_check", "deq_empty"} => DeqNext(t) \/ DeqCheck(t)
<1> USE DEF TypeOK, Goto, Restart, Return
<1>1. CASE Call(t)
  <2>1. CASE CallAlloc(t)
      BY <2>1 DEF CallAlloc, Enter, EmptyFrame
  <2>2. CASE CallFree(t)
      BY <2>2 DEF CallFree, Enter
  <2>3. CASE \E q \in Queue : CallEnqueue(t, q)
      BY <2>3 DEF CallEnqueue, Enter
  <2>4. CASE \E q \in Queue : CallDequeue(t, q)
      BY <2>4 DEF CallDequeue, Enter
  <2>5. CASE \E q \in Queue, c \in Color : CallPaint(t, q, c)
      BY <2>5 DEF CallPaint, Enter
  <2> QED BY <1>1, <2>1, <2>2, <2>3, <2>4, <2>5 DEF Call
<1>2. CASE PopTop(t)
    BY <1>2 DEF PopTop
<1>3. CASE PopNext(t)
    BY <1>3 DEF PopNext
<1>4. CASE PopCas(t)
    BY <1>4 DEF PopCas
<1>5. CASE PushCount(t)
    BY <1>5 DEF PushCount
<1>6. CASE PushLink(t)
    BY <1>6 DEF PushLink
<1>7. CASE PushCas(t)
    BY <1>7 DEF PushCas
<1>8. CASE EnqTail(t)
    BY <1>8 DEF EnqTail
<1>9. CASE EnqNext(t)
    BY <1>9 DEF EnqNext
<1>10. CASE EnqCheck(t)
    BY <1>10 DEF EnqCheck
<1>11. CASE EnqLink(t)
    BY <1>11 DEF EnqLink
<1>12. CASE EnqHelp(t)
    BY <1>12 DEF EnqHelp
<1>13. CASE EnqSwing(t)
    BY <1>13 DEF EnqSwing
<1>14. CASE DeqTail(t)
    BY <1>14 DEF DeqTail
<1>15. CASE DeqNext(t)
    BY <1>15 DEF DeqNext
<1>16. CASE DeqCheck(t)
    BY <1>16 DEF DeqCheck, DeqBranch
<1>17. CASE DeqEmpty(t)
    BY <1>17 DEF DeqEmpty
<1>18. CASE DeqHelp(t)
    BY <1>18 DEF DeqHelp
<1>19. CASE DeqCopy(t)
    BY <1>19 DEF DeqCopy
<1>20. CASE DeqCas(t)
    BY <1>20 DEF DeqCas
<1>21. CASE PaintHead(t)
    BY <1>21 DEF PaintHead
<1>22. CASE PaintTail(t)
    BY <1>22 DEF PaintTail
<1>23. CASE PaintNext(t)
    BY <1>23 DEF PaintNext
<1>24. CASE PaintCheck(t)
    BY <1>24 DEF PaintCheck
<1>25. CASE PaintCas(t)
    BY <1>25 DEF PaintCas
<1>26. CASE PaintBusy(t)
    BY <1>26 DEF PaintBusy
<1>27. CASE DeqHead(t)
    BY <1>27 DEF DeqHead
<1> QED BY <1>1, <1>2, <1>3, <1>4, <1>5, <1>6, <1>7, <1>8, <1>9, <1>10, <1>11, <1>12, <1>13, <1>14,
       <1>15, <1>16, <1>17, <1>18, <1>19, <1>20, <1>21, <1>22, <1>23, <1>24, <1>25, <1>26, <1>27
       DEF Access

\* and a receiver that finds the link it read ending has seen the queue empty.
LEMMA SawStep ==
    ASSUME TInv, LagOK, LagNext, Timely, NEW t \in Thread, Call(t) \/ Access(t), Witness,
           NEW u \in Thread, HeadAge(u), SawEmpty(u)
    PROVE  SawEmpty(u)'
<1>1. TypeOK
    BY DEF TInv
<1>2. seen'[u] <=> pc'[u] # "idle" /\ (seen[u] \/ frame'[u].queue \in EmptyQueues')
    BY DEF Witness
<1>3. CASE u # t
  <2>1. pc'[u] = pc[u] /\ frame'[u] = frame[u]
      BY <1>1, <1>3, StepLocal DEF Still
  <2>2. pc[u] = "deq_check" => (headLag'[u] = 0 => headLag[u] = 0)
    <3>1. ~Leaves(u, {"deq_head", "paint_head"}) /\ headLag[u] \in Nat
        BY <2>1 DEF Leaves, LagOK
    <3> QED BY <3>1 DEF LagNext
  <2> QED BY <1>2, <2>1, <2>2 DEF SawEmpty
<1>4. CASE u = t
  <2>1. ASSUME DeqNext(u) PROVE SawEmpty(u)'
    <3>1. /\ pc[u] = "deq_next" /\ pc'[u] = "deq_check" /\ frame'[u].queue = frame[u].queue
          /\ frame'[u].head = frame[u].head
          /\ frame'[u].next = next[frame[u].head.index] /\ head' = head /\ next' = next
        BY <1>1, <2>1 DEF DeqNext, TypeOK, Goto, shared
    <3>2. HoldsHead(u) /\ frame[u].queue \in Queue
        BY <3>1, HoldFields DEF HoldsHead
    <3>3. headLag'[u] = headLag[u]
        BY <3>1, <3>2 DEF LagNext, Leaves, HeadMoves
    <3>4. headLag[u] = 0 => frame[u].head = head[frame[u].queue]
        BY <3>2 DEF HeadAge
    <3>5. headLag[u] = 0 /\ next[frame[u].head.index].index = BADINDEX
            => frame[u].queue \in EmptyQueues'
        BY <3>1, <3>2, <3>4 DEF EmptyQueues
    <3> QED BY <1>2, <3>1, <3>3, <3>5 DEF SawEmpty
  <2>2. ASSUME DeqCheck(u) PROVE SawEmpty(u)'
    <3>1. pc[u] = "deq_check"
        BY <2>2 DEF DeqCheck
    <3>2. pc'[u] = "deq_empty" => frame[u].head = head[frame[u].queue] /\ frame[u].next.index = BADINDEX
        BY <1>1, <2>2 DEF DeqCheck, DeqBranch, TypeOK, Goto
    <3>3. HoldsHead(u) /\ frame[u].queue \in Queue /\ headLag[u] \in Nat /\ headLag[u] < CountMod
        BY <3>1, HoldFields DEF HoldsHead, LagOK, Timely
    <3>4. head[frame[u].queue].count \in Count
        BY <3>3, HoldFields
    <3>5. pc'[u] = "deq_empty" => headLag[u] = 0
        BY <3>2, <3>3, <3>4, SinceFacts DEF HeadAge
    <3>6. pc'[u] # "deq_check"
        BY <1>1, <2>2 DEF DeqCheck, DeqBranch, TypeOK, Goto
    <3> QED BY <1>2, <3>1, <3>2, <3>5, <3>6 DEF SawEmpty
  <2>3. pc'[u] \in {"deq_check", "deq_empty"} => DeqNext(u) \/ DeqCheck(u)
      BY <1>1, <1>4, ToCheck
  <2> QED BY <2>1, <2>2, <2>3 DEF SawEmpty
<1> QED BY <1>3, <1>4

\* At first no thread has read anything.
LEMMA HonestInit == Init /\ LagInit => HonestInv
<1> SUFFICES ASSUME Init, LagInit PROVE HonestInv
    OBVIOUS
<1>1. \A t \in Thread : pc[t] = "idle"
    BY DEF Init
<1> QED BY <1>1, TInit, GoodInit DEF HonestInv, HeadAge, SawEmpty, HoldsHead

\* Every step keeps it.
LEMMA HonestNext == HonestInv /\ Timely /\ [Next /\ LagNext]_<<vars, lags>> => HonestInv'
<1> SUFFICES ASSUME HonestInv, Timely, [Next /\ LagNext]_<<vars, lags>> PROVE HonestInv'
    OBVIOUS
<1>1. CASE Next /\ LagNext
  <2>1. PICK t \in Thread : Call(t) \/ Access(t)
      BY <1>1 DEF Next
  <2>2. TInv' /\ LagOK'
      BY <1>1, TNext, LagType DEF HonestInv, TInv
  <2>3. \A u \in Thread : HeadAge(u)'
      BY <1>1, <2>1, AgeStep DEF HonestInv
  <2>4. \A u \in Thread : SawEmpty(u)'
      BY <1>1, <2>1, SawStep DEF HonestInv, Next
  <2> QED BY <2>2, <2>3, <2>4 DEF HonestInv
<1>2. CASE UNCHANGED <<vars, lags>>
  <2>1. UNCHANGED vars /\ UNCHANGED lags
      BY <1>2
  <2>2. TInv' /\ LagOK'
      BY <2>1, TNext DEF HonestInv, lags, LagOK
  <2>3. \A u \in Thread : HeadAge(u)' /\ SawEmpty(u)'
      BY <2>1 DEF HonestInv, vars, lags, HeadAge, SawEmpty, HoldsHead, Since
  <2> QED BY <2>2, <2>3 DEF HonestInv
<1> QED BY <1>1, <1>2

\* mig_dequeue returns NULL only if the queue was empty at some moment of the call.
THEOREM NullHonest == LagSpec /\ []Timely => []NullIsHonest
<1>1. HonestInv => NullIsHonest
    BY DEF HonestInv, SawEmpty, NullIsHonest
<1> QED BY <1>1, HonestInit, HonestNext, PTL DEF LagSpec

-----------------------------------------------------------------------------
(***************************************************************************)
(* The assertion of mig_dequeue.                                           *)
(***************************************************************************)

\* The assertion of mig_dequeue: a head that is not the tail has a successor.
AssertionHolds ==
    \A t \in Thread :
        pc[t] = "deq_check" /\ frame[t].head = head[frame[t].queue] => DeqBranch(frame[t]) # "bug"

\* It follows from what a receiver knows of its two checkpoints.
LEMMA AssertionFromPlace == PlaceInv /\ Timely => AssertionHolds
<1> SUFFICES ASSUME PlaceInv, Timely, NEW t \in Thread, pc[t] = "deq_check",
                    frame[t].head = head[frame[t].queue], frame[t].next.index = BADINDEX
             PROVE  frame[t].tail.index = frame[t].head.index
    BY DEF AssertionHolds, DeqBranch
<1>1. PICK ch, tg : Good(ch, tg)
    BY DEF PlaceInv
<1>2. TInv /\ LagOK /\ HeadFacts(t)
    BY <1>1 DEF PlaceInv, Good, Facts
<1>3. HoldsHead(t) /\ frame[t].queue \in Queue /\ headLag[t] \in Nat /\ headLag[t] < CountMod
    BY <1>2, HoldFields DEF HoldsHead, LagOK, Timely
<1>4. headLag[t] = 0
  <2>1. head[frame[t].queue].count \in Count
      BY <1>2, <1>3, HoldFields
  <2>2. Since(head[frame[t].queue].count, head[frame[t].queue].count, headLag[t])
      BY <1>2, <1>3 DEF HeadFacts
  <2> QED BY <1>3, <2>1, <2>2, SinceFacts
<1> QED BY <1>2, <1>4 DEF HeadFacts

\* Until a swap strays, mig_dequeue never meets a head that is not the tail and has no
\* successor, which its assertion calls a bug.
THEOREM AssertionHolding == LagSpec /\ []Timely => [](strayed \/ AssertionHolds)
<1> QED BY AssertionFromPlace, PlaceAlways, PTL

-----------------------------------------------------------------------------
(***************************************************************************)
(* Requests and colours.  A descriptor's request and colour are written    *)
(* by its owner only, or by a painter that finds the queue empty.          *)
(***************************************************************************)

\* The descriptor whose request or colour the next access of t writes.
Scratch(t) ==
    LET f == frame[t] IN
    CASE pc[t] = "pop_cas" /\ top = f.top -> f.top.index
      [] pc[t] \in {"push_link", "enq_check"} -> f.desc
      [] pc[t] = "deq_copy" -> f.ret
      [] pc[t] = "paint_cas" /\ next[f.head.index] = f.next -> f.head.index
      [] OTHER -> BADINDEX

\* A step writes no other request or colour.
LEMMA ScratchOnly ==
    ASSUME TInv, NEW t \in Thread, Call(t) \/ Access(t)
    PROVE  \A n \in Node : n # Scratch(t) => word'[n] = word[n] /\ next'[n].color = next[n].color
<1>1. TypeOK
    BY DEF TInv
<1>2. CASE Call(t)
  <2>1. hand[t] \in Index /\ (hand[t] # BADINDEX => hand[t] \in Node)
      BY <1>1, NodeFacts DEF TypeOK
  <2>2. word' = word /\ (next' = next
          \/ (hand[t] # BADINDEX /\ next' = [next EXCEPT ![hand[t]].index = BADINDEX]))
      BY <1>1, <1>2, CallEffect
  <2>3. next \in [Node -> Link]
      BY <1>1 DEF TypeOK
  <2>4. \A n \in Node : next'[n].color = next[n].color
    <3>1. CASE next' = next
        BY <3>1
    <3>2. CASE hand[t] # BADINDEX
                 /\ next' = [next EXCEPT ![hand[t]] = [next[hand[t]] EXCEPT !.index = BADINDEX]]
      <4>1. next[hand[t]] \in Link
          BY <2>1, <2>3, <3>2
      <4>2. [next[hand[t]] EXCEPT !.index = BADINDEX].color = next[hand[t]].color
          BY <4>1 DEF Link
      <4> QED BY <2>1, <2>3, <3>2, <4>2
    <3> QED BY <2>2, <3>1, <3>2
  <2> QED BY <2>2, <2>4
<1>3. UNCHANGED shared \/ UNCHANGED <<next, word>> => \A n \in Node : n # Scratch(t)
        => word'[n] = word[n] /\ next'[n].color = next[n].color
    BY DEF shared
<1>4. CASE \/ PopTop(t) \/ PopNext(t) \/ EnqTail(t) \/ EnqNext(t) \/ DeqHead(t) \/ DeqTail(t)
                \/ DeqNext(t)
           \/ DeqCheck(t) \/ DeqEmpty(t) \/ PaintHead(t) \/ PaintTail(t) \/ PaintNext(t)
                \/ PaintCheck(t) \/ PaintBusy(t)
    BY <1>3, <1>4 DEF PopTop, PopNext, EnqTail, EnqNext, DeqHead, DeqTail, DeqNext, DeqCheck, DeqEmpty,
       PaintHead, PaintTail, PaintNext, PaintCheck, PaintBusy
<1>5. CASE PushCount(t) \/ PushCas(t) \/ EnqHelp(t) \/ EnqSwing(t) \/ DeqHelp(t) \/ DeqCas(t)
    BY <1>3, <1>5 DEF PushCount, PushCas, EnqHelp, EnqSwing, DeqHelp, DeqCas
<1>6. CASE PopCas(t)
  <2>1. pc[t] = "pop_cas"
      BY <1>6 DEF PopCas
  <2>2. top = frame[t].top => Scratch(t) = frame[t].top.index
      BY <2>1 DEF Scratch
  <2> QED BY <1>1, <1>6, <2>2, PopCasEffect DEF TypeOK
<1>7. CASE PushLink(t)
  <2>1. Scratch(t) = frame[t].desc
      BY <1>7 DEF PushLink, Scratch
  <2> QED BY <1>1, <1>7, <2>1, PushLinkEffect DEF TypeOK
<1>8. CASE EnqCheck(t)
  <2>1. Scratch(t) = frame[t].desc
      BY <1>8 DEF EnqCheck, Scratch
  <2> QED BY <1>1, <1>8, <2>1, EnqCheckEffect DEF TypeOK
<1>9. CASE EnqLink(t)
  <2>1. word' = word
      BY <1>9 DEF EnqLink
  <2>2. CASE next' = next
      BY <2>1, <2>2
  <2>3. CASE /\ next[frame[t].tail.index] = frame[t].next
             /\ next' = [next EXCEPT ![frame[t].tail.index] = [index |-> frame[t].desc,
                  count |-> Bump(frame[t].next.count), color |-> frame[t].next.color]]
      BY <1>1, <2>1, <2>3 DEF TypeOK
  <2> QED BY <1>1, <1>9, <2>2, <2>3, EnqLinkEffect
<1>10. CASE DeqCopy(t)
  <2>1. Scratch(t) = frame[t].ret
      BY <1>10 DEF DeqCopy, Scratch
  <2> QED BY <1>1, <1>10, <2>1, DeqCopyEffect DEF TypeOK
<1>11. CASE PaintCas(t)
  <2>1. next[frame[t].head.index] = frame[t].next => Scratch(t) = frame[t].head.index
      BY <1>11 DEF PaintCas, Scratch
  <2> QED BY <1>1, <1>11, <2>1, PaintCasEffect DEF TypeOK
<1> QED BY <1>2, <1>4, <1>5, <1>6, <1>7, <1>8, <1>9, <1>10, <1>11 DEF Access

\* The queue a painter repaints holds no request.
LEMMA PaintsEmpty ==
    ASSUME TInv, PaintSwapsFresh, NEW ch, Shape(ch), NEW t \in Thread, Paints(t), Carries(t)
    PROVE  /\ frame[t].queue \in Queue /\ frame[t].head.index = ch[frame[t].queue][1]
           /\ Len(ch[frame[t].queue]) = 1 /\ frame[t].head.index \in Node
<1>1. pc[t] = "paint_cas" /\ TypeOK /\ frame[t] \in Frame /\ Role(pc[t], frame[t], hand[t])
    BY DEF Paints, PaintCas, TInv, TypeOK, Roles
<1>2. frame[t].queue \in Queue /\ frame[t].next.index = BADINDEX
        /\ next[frame[t].head.index] = frame[t].next
    BY <1>1 DEF Role, PaintAt, Paints
<1>3. headLag[t] = 0
    BY DEF PaintSwapsFresh
<1>4. frame[t].head = head[frame[t].queue]
    BY <1>1, <1>3 DEF Carries
<1>5. frame[t].queue \in Place /\ Linked(ch) /\ Len(ch[frame[t].queue]) > 0
        /\ frame[t].head.index = ch[frame[t].queue][1]
    BY <1>2, <1>4, PlaceFacts DEF Shape, Anchored
<1>6. Len(ch[frame[t].queue]) \in Nat /\ 1 \in 1 .. Len(ch[frame[t].queue])
    BY <1>5, ChainTyped
<1>7. ch[frame[t].queue][1] \in Node
    BY <1>5, <1>6, ChainTyped
<1>8. ~(1 < Len(ch[frame[t].queue]))
    BY <1>2, <1>5, <1>6, ChainNext
<1>9. \A n \in Nat : n > 0 /\ ~(1 < n) => n = 1
    OBVIOUS
<1> QED BY <1>2, <1>5, <1>6, <1>7, <1>8, <1>9, Zenon

\* A thread that stands before a swap takes that swap.
LEMMA AccessAt ==
    ASSUME NEW t \in Thread, Call(t) \/ Access(t)
    PROVE  /\ pc[t] = "paint_cas" => PaintCas(t)
           /\ pc[t] = "deq_cas" => DeqCas(t)
           /\ pc[t] = "enq_link" => EnqLink(t)
BY DEF Call, CallAlloc, CallFree, CallEnqueue, CallDequeue, CallPaint, Enter, Access,
       PopTop, PopNext, PopCas, PushCount, PushLink, PushCas, EnqTail, EnqNext, EnqCheck, EnqHelp,
         EnqSwing, EnqLink,
       DeqHead, DeqTail, DeqNext, DeqCheck, DeqEmpty, DeqHelp, DeqCopy, DeqCas,
       PaintHead, PaintTail, PaintNext, PaintCheck, PaintCas, PaintBusy

\* d is the second descriptor of q.
SecondOf(ch, q, d) == Len(ch[q]) > 1 /\ 2 \in 1 .. Len(ch[q]) /\ d = ch[q][2] /\ d \in Node

\* The descriptor behind the head is the second of the chain.
LEMMA SecondIs ==
    ASSUME NEW ch, Shape(ch), NEW q \in Queue, NEW d, next[head[q].index].index = d, d # BADINDEX
    PROVE  SecondOf(ch, q, d)
<1>1. q \in Place /\ Linked(ch) /\ Len(ch[q]) > 0 /\ head[q].index = ch[q][1]
    BY PlaceFacts DEF Shape, Anchored
<1>2. Len(ch[q]) \in Nat /\ 1 \in 1 .. Len(ch[q])
    BY <1>1, ChainTyped
<1>3. 1 < Len(ch[q]) /\ d = ch[q][1 + 1]
    BY <1>1, <1>2, ChainNext
<1>4. 2 \in 1 .. Len(ch[q])
    BY <1>2, <1>3
<1>5. ch[q][2] \in Node
    BY <1>1, <1>4, ChainTyped
<1> QED BY <1>2, <1>3, <1>4, <1>5 DEF SecondOf

\* No one else owns what t writes, and no queue with a request holds it.
LEMMA ScratchPrivate ==
    ASSUME TInv, PaintSwapsFresh, NEW ch, NEW tg, Good(ch, tg), NEW t \in Thread, Call(t)
           \/ Access(t), Carries(t)
    PROVE  /\ \A u \in Thread : u # t => Scratch(t) \notin Owned(u)
           /\ \A q \in Queue : \A i \in 1 .. Len(ch[q]) : Len(ch[q]) > 1 \/ ~Paints(t)
                => ch[q][i] # Scratch(t)
<1>1. TypeOK /\ frame[t] \in Frame /\ Role(pc[t], frame[t], hand[t]) /\ hand[t] \in Index
    BY DEF TInv, TypeOK, Roles
<1>2. Shape(ch) /\ Linked(ch) /\ Apart(ch)
    BY DEF Good, Shape
<1>3. \A q \in Queue : q \in Place /\ q # 0 /\ \A i \in 1 .. Len(ch[q]) : ch[q][i] \in Node
        /\ ch[q][i] \in In(ch)
    BY <1>2, PlaceFacts, ChainTyped
<1>4. CASE Scratch(t) \in Owned(t)
    BY <1>2, <1>3, <1>4 DEF Apart
<1>5. CASE Scratch(t) = BADINDEX
    BY <1>3, <1>5, NodeFacts DEF Owned
<1>6. CASE pc[t] = "pop_cas" /\ top = frame[t].top
  <2>1. Scratch(t) = top.index /\ top.index # BADINDEX
      BY <1>1, <1>6 DEF Scratch, Role
  <2>2. Len(ch[0]) > 0 /\ top.index = ch[0][1] /\ 0 \in Place
      BY <1>2, <2>1, PlaceFacts DEF Shape, Anchored
  <2>3. 1 \in 1 .. Len(ch[0])
      BY <1>2, <2>2, ChainTyped
  <2>4. top.index \in In(ch)
      BY <1>2, <2>2, <2>3, ChainTyped
  <2>5. \A q \in Queue : \A i \in 1 .. Len(ch[q]) : ch[q][i] # top.index
      BY <1>2, <1>3, <2>2, <2>3 DEF Linked
  <2> QED BY <1>2, <2>1, <2>4, <2>5 DEF Apart
<1>7. CASE pc[t] = "paint_cas" /\ next[frame[t].head.index] = frame[t].next
  <2>1. Scratch(t) = frame[t].head.index
      BY <1>7 DEF Scratch
  <2>2. Paints(t)
      BY <1>1, <1>7, AccessAt DEF Paints
  <2>3. /\ frame[t].queue \in Queue /\ frame[t].head.index = ch[frame[t].queue][1]
        /\ Len(ch[frame[t].queue]) = 1
      BY <1>2, <2>2, PaintsEmpty
  <2>4. 1 \in 1 .. Len(ch[frame[t].queue])
      BY <2>3
  <2>5. frame[t].head.index \in In(ch)
      BY <1>3, <2>3, <2>4
  <2>6. \A q \in Queue : \A i \in 1 .. Len(ch[q]) : Len(ch[q]) > 1 => ch[q][i] # frame[t].head.index
    <3> SUFFICES ASSUME NEW q \in Queue, NEW i \in 1 .. Len(ch[q]), ch[q][i] = frame[t].head.index
                 PROVE  ~(Len(ch[q]) > 1)
        OBVIOUS
    <3>1. q = frame[t].queue
      <4>1. q \in Place /\ frame[t].queue \in Place /\ ch[q][i] = ch[frame[t].queue][1]
          BY <1>3, <2>3
      <4> QED BY <1>2, <2>4, <4>1 DEF Linked
    <3>2. Len(ch[q]) = 1
        BY <2>3, <3>1, Zenon
    <3> QED BY <3>2
  <2> QED BY <1>2, <2>1, <2>2, <2>5, <2>6 DEF Apart
<1>8. CASE pc[t] \in {"push_link", "enq_check", "deq_copy"}
  <2>1. CASE pc[t] = "push_link"
      BY <1>1, <1>4, <2>1 DEF Scratch, Owned, Role, PushAt
  <2>2. CASE pc[t] = "enq_check"
      BY <1>1, <1>4, <2>2 DEF Scratch, Owned, Role, EnqAt
  <2>3. CASE pc[t] = "deq_copy"
      BY <1>1, <1>4, <2>3 DEF Scratch, Owned, Role
  <2> QED BY <1>8, <2>1, <2>2, <2>3
<1>9. \/ Scratch(t) = BADINDEX
      \/ pc[t] = "pop_cas" /\ top = frame[t].top
      \/ pc[t] = "paint_cas" /\ next[frame[t].head.index] = frame[t].next
      \/ pc[t] \in {"push_link", "enq_check", "deq_copy"}
    BY DEF Scratch
<1> QED BY <1>5, <1>6, <1>7, <1>8, <1>9

\* The others' requests and colours stay what they are.
LEMMA OthersCarry ==
    ASSUME TInv, LagOK, LagNext, PaintSwapsFresh, NEW ch, NEW tg, Good(ch, tg), NEW t \in Thread,
           Call(t) \/ Access(t), Carries(t),
           NEW u \in Thread, u # t, Carries(u)
    PROVE  Carries(u)'
<1>1. TypeOK /\ frame[u] \in Frame /\ Role(pc[u], frame[u], hand[u]) /\ hand[u] \in Index
        /\ Fields(frame[u])
    BY FrameFields DEF TInv, TypeOK, Roles
<1>2. pc'[u] = pc[u] /\ frame'[u] = frame[u] /\ hand'[u] = hand[u]
    BY <1>1, StepLocal DEF Still
<1>3. \A n \in Owned(u) : word'[n] = word[n] /\ next'[n].color = next[n].color
    BY ScratchOnly, ScratchPrivate, OwnedNodes
<1>4. pc[u] \notin {"deq_head", "paint_head"} /\ headLag'[u] = 0 => headLag[u] = 0
        /\ ~HeadMoves(frame[u].queue)
  <2>1. ~Leaves(u, {"deq_head", "paint_head"}) /\ headLag[u] \in Nat
      BY <1>2 DEF Leaves, LagOK
  <2> QED BY <2>1 DEF LagNext
<1>5. hand[u] # BADINDEX /\ pc[u] # "enq_swing" => word'[hand[u]] # NoItem
  <2>1. hand[u] # BADINDEX /\ pc[u] # "enq_swing" => hand[u] \in Owned(u)
      BY DEF Owned
  <2> QED BY <1>3, <2>1 DEF Carries
<1>6. frame[u].ret # BADINDEX => frame[u].ret \in Owned(u)
    BY DEF Owned
<1>7. pc[u] \in {"push_count", "push_link", "push_cas"} /\ frame[u].back = "deq"
        => word'[frame[u].ret] # NoItem
  <2>1. pc[u] \in {"push_count", "push_link", "push_cas"} /\ frame[u].back = "deq"
          => frame[u].ret # BADINDEX
      BY <1>1 DEF Role, PushAt
  <2> QED BY <1>3, <1>6, <2>1 DEF Carries
<1>8. pc[u] = "enq_link" => next'[frame[u].desc].color = frame[u].next.color
  <2>1. pc[u] = "enq_link" => frame[u].desc \in Owned(u)
      BY <1>1 DEF Role, EnqAt, Owned
  <2> QED BY <1>3, <2>1 DEF Carries
<1>9. pc[u] = "deq_cas" /\ headLag'[u] = 0 =>
             word'[frame[u].ret] = word'[frame[u].next.index]
               /\ next'[frame[u].ret].color = next'[frame[u].next.index].color
  <2> SUFFICES ASSUME pc[u] = "deq_cas", headLag[u] = 0
               PROVE  word'[frame[u].ret] = word'[frame[u].next.index]
                        /\ next'[frame[u].ret].color = next'[frame[u].next.index].color
      BY <1>4
  <2>1. frame[u].ret \in Owned(u) /\ HoldsHead(u) /\ frame[u].next.index # BADINDEX
      BY <1>1, <1>6 DEF Role, HoldsHead
  <2>2. frame[u].queue \in Queue /\ next[head[frame[u].queue].index].index = frame[u].next.index
      BY <2>1, HoldFields DEF Good, Facts, HeadFacts
  <2>3. SecondOf(ch, frame[u].queue, frame[u].next.index)
      BY <2>1, <2>2, SecondIs DEF Good
  <2>4. frame[u].next.index \in Node /\ frame[u].next.index # Scratch(t)
      BY <2>2, <2>3, ScratchPrivate DEF SecondOf
  <2> QED BY <1>3, <2>1, <2>4, ScratchOnly DEF Carries
<1>10. pc[u] \in {"paint_tail", "paint_next", "paint_check", "paint_cas"} /\ headLag'[u] = 0
         => frame[u].head = head'[frame[u].queue]
  <2>1. pc[u] \in {"paint_tail", "paint_next", "paint_check", "paint_cas"} => frame[u].queue \in Queue
      BY <1>1 DEF Role, PaintAt
  <2> QED BY <1>4, <2>1 DEF Carries, HeadMoves
<1> QED BY <1>2, <1>5, <1>7, <1>8, <1>9, <1>10 DEF Carries

-----------------------------------------------------------------------------
(***************************************************************************)
(* What a thread carries stays what it is.                                 *)
(***************************************************************************)

\* Where a painter goes by its checkpoint of the head.
PaintHolds == {"paint_tail", "paint_next", "paint_check", "paint_cas"}

\* What a thread must carry where it goes.
LEMMA CarryTo ==
    ASSUME TypeOK, NEW t \in Thread, NEW l, NEW f, NEW d, To(t, l, f, d),
           d # BADINDEX /\ l # "enq_swing" => word'[d] # NoItem,
           l \in PushAt /\ f.back = "deq" => word'[f.ret] # NoItem,
           l = "enq_link" => next'[f.desc].color = f.next.color,
           l = "deq_cas" /\ headLag'[t] = 0 =>
             word'[f.ret] = word'[f.next.index] /\ next'[f.ret].color = next'[f.next.index].color,
           l \in PaintHolds /\ headLag'[t] = 0 => f.head = head'[f.queue]
    PROVE  Carries(t)'
<1>1. pc'[t] = l /\ frame'[t] = f /\ hand'[t] = d
    BY ToFacts
<1> QED BY <1>1 DEF Carries, PushAt, PaintHolds

\* A thread that goes to a label where it carries only what it held.
LEMMA CarryHand ==
    ASSUME TypeOK, NEW t \in Thread, NEW l, NEW f, NEW d, To(t, l, f, d),
           l \notin PushAt \cup PaintHolds \cup {"enq_link", "deq_cas"},
           d # BADINDEX /\ l # "enq_swing" => word'[d] # NoItem
    PROVE  Carries(t)'
BY CarryTo

\* What the head's swap relies on.
LEMMA TakesSecond ==
    ASSUME TInv, LagOK, Timely, NEW ch, NEW tg, Good(ch, tg), NEW t \in Thread, Takes(t), Carries(t)
    PROVE  /\ frame[t].queue \in Queue /\ frame[t].head = head[frame[t].queue]
           /\ SecondOf(ch, frame[t].queue, frame[t].next.index)
           /\ word[frame[t].ret] = word[frame[t].next.index]
           /\ next[frame[t].ret].color = next[frame[t].next.index].color
           /\ frame[t].ret \in Node
<1>1. pc[t] = "deq_cas" /\ Role("deq_cas", frame[t], hand[t]) /\ head[frame[t].queue] = frame[t].head
      /\ HeadFacts(t) /\ Fields(frame[t])
    BY HoldFields DEF Takes, DeqCas, Good, Facts
<1>2. HoldsHead(t)
    BY <1>1 DEF HoldsHead
<1>3. frame[t].queue \in Queue /\ head[frame[t].queue].count \in Count /\ headLag[t] \in Nat
        /\ headLag[t] < CountMod
    BY <1>2, HoldFields DEF LagOK, Timely
<1>4. headLag[t] = 0
  <2>1. Since(head[frame[t].queue].count, head[frame[t].queue].count, headLag[t])
      BY <1>2, <1>3, <1>1 DEF HeadFacts
  <2> QED BY <1>3, <2>1, SinceFacts
<1>5. frame[t].next.index # BADINDEX /\ frame[t].ret # BADINDEX
    BY <1>1 DEF Role
<1>6. next[head[frame[t].queue].index].index = frame[t].next.index
    BY <1>1, <1>2, <1>4, <1>5 DEF HeadFacts
<1>7. SecondOf(ch, frame[t].queue, frame[t].next.index)
    BY <1>3, <1>5, <1>6, SecondIs DEF Good
<1>8. frame[t].ret \in Node
    BY <1>1, <1>5, NodeFacts DEF Fields
<1> QED BY <1>1, <1>3, <1>4, <1>7, <1>8 DEF Carries

\* A painter that reads on does not fall behind.
LEMMA LagKept ==
    ASSUME LagNext, TypeOK, NEW t \in Thread, Call(t)
           \/ Access(t), pc[t] \in {"paint_tail", "paint_next", "paint_check"}, head' = head
    PROVE  headLag'[t] = headLag[t]
<1>1. ~Leaves(t, {"deq_head", "paint_head"}) /\ \A q : ~HeadMoves(q)
    BY DEF Leaves, HeadMoves
<1> QED BY <1>1 DEF LagNext

\* The thread that takes a step carries on.
LEMMA SelfCarry ==
    ASSUME TInv, LagOK, LagNext, Timely, NEW ch, NEW tg, Good(ch, tg), Filled(ch),
           NEW t \in Thread, Call(t) \/ Access(t), Carries(t)
    PROVE  Carries(t)'
<1> DEFINE f == frame[t]
<1>1. /\ TypeOK /\ f \in Frame /\ Role(pc[t], f, hand[t]) /\ hand[t] \in Index /\ Fields(f)
      /\ next \in [Node -> Link] /\ word \in [Node -> Item \cup {NoItem}]
      /\ \A i \in Index : i # BADINDEX => i \in Node
    BY HoldFields, NodeFacts DEF TInv, TypeOK
<1>2. hand[t] # BADINDEX /\ pc[t] # "enq_swing" => word[hand[t]] # NoItem
    BY DEF Carries
<1> USE DEF PushAt, PaintHolds
<1>3. CASE Call(t)
  <2>1. pc[t] = "idle" /\ word' = word
      BY <1>1, <1>3, CallEffect
  <2>2. hand[t] # BADINDEX => word'[hand[t]] # NoItem
      BY <1>2, <2>1
  <2>3. CASE To(t, "push_count", [EmptyFrame EXCEPT !.desc = hand[t], !.back = "free"], hand[t])
    <3>1. [EmptyFrame EXCEPT !.desc = hand[t], !.back = "free"].back # "deq"
        BY DEF EmptyFrame
    <3> QED BY <1>1, <2>2, <2>3, <3>1, CarryTo
  <2> QED BY <1>1, <1>3, <2>2, <2>3, CallEffect, CarryHand
<1>4. CASE PopTop(t)
  <2>1. pc[t] = "pop_top" /\ word' = word
      BY <1>4 DEF PopTop, shared
  <2> QED BY <1>1, <1>2, <1>4, <2>1, PopTopEffect, CarryHand
<1>5. CASE PopNext(t)
  <2>1. pc[t] = "pop_next" /\ word' = word
      BY <1>5 DEF PopNext, shared
  <2> QED BY <1>1, <1>2, <1>5, <2>1, PopNextEffect, CarryHand
<1>6. CASE PopCas(t)
  <2>1. pc[t] = "pop_cas" /\ hand[t] = BADINDEX /\ f.top.index \in Node
      BY <1>1, <1>6 DEF PopCas, Role, PopAt, Fields
  <2>2. CASE word' = [word EXCEPT ![f.top.index] = <<t, calls[t]>>]
               /\ To(t, "idle", EmptyFrame, f.top.index)
    <3>1. word'[f.top.index] # NoItem
        BY <1>1, <2>1, <2>2 DEF NoItem
    <3> QED BY <1>1, <2>2, <3>1, CarryHand
  <2> QED BY <1>1, <1>6, <2>1, <2>2, PopCasEffect, CarryHand
<1>7. CASE PushCount(t)
  <2>1. pc[t] = "push_count" /\ word' = word
      BY <1>7 DEF PushCount
  <2>2. PICK g \in StackColor : To(t, "push_link",
               [f EXCEPT !.new = [index |-> f.desc, count |-> Bump(aba), color |-> g]], hand[t])
      BY <1>1, <1>7, PushCountEffect
  <2>3. PICK f2 : f2 = [f EXCEPT !.new = [index |-> f.desc, count |-> Bump(aba), color |-> g]]
      OBVIOUS
  <2>4. f2.back = f.back /\ f2.ret = f.ret
      BY <1>1, <2>3 DEF Frame
  <2>5. f2.back = "deq" => word'[f2.ret] # NoItem
      BY <2>1, <2>4 DEF Carries
  <2> QED BY <1>1, <1>2, <2>1, <2>2, <2>3, <2>5, CarryTo
<1>8. CASE PushLink(t)
  <2>1. pc[t] = "push_link" /\ word' = word
      BY <1>8 DEF PushLink
  <2>2. To(t, "push_cas", [f EXCEPT !.top = top], hand[t])
      BY <1>1, <1>8, PushLinkEffect
  <2>3. PICK f2 : f2 = [f EXCEPT !.top = top]
      OBVIOUS
  <2>4. f2.back = f.back /\ f2.ret = f.ret
      BY <1>1, <2>3 DEF Frame
  <2>5. f2.back = "deq" => word'[f2.ret] # NoItem
      BY <2>1, <2>4 DEF Carries
  <2> QED BY <1>1, <1>2, <2>1, <2>2, <2>3, <2>5, CarryTo
<1>9. CASE PushCas(t)
  <2>1. pc[t] = "push_cas" /\ word' = word
      BY <1>9 DEF PushCas
  <2>2. f.back = "deq" => word'[f.ret] # NoItem
      BY <2>1 DEF Carries
  <2>3. CASE To(t, "push_link", f, hand[t])
      BY <1>1, <1>2, <2>1, <2>2, <2>3, CarryTo
  <2>4. CASE To(t, "idle", EmptyFrame, IF f.back = "deq" THEN f.ret ELSE BADINDEX)
      BY <1>1, <2>2, <2>4, CarryHand
  <2> QED BY <1>1, <1>9, <2>3, <2>4, PushCasEffect
<1>10. CASE EnqTail(t)
  <2>1. pc[t] = "enq_tail" /\ word' = word
      BY <1>10 DEF EnqTail, shared
  <2> QED BY <1>1, <1>2, <1>10, <2>1, EnqTailEffect, CarryHand
<1>11. CASE EnqNext(t)
  <2>1. pc[t] = "enq_next" /\ word' = word
      BY <1>11 DEF EnqNext, shared
  <2> QED BY <1>1, <1>2, <1>11, <2>1, EnqNextEffect, CarryHand
<1>12. CASE EnqCheck(t)
  <2>1. pc[t] = "enq_check" /\ word' = word /\ f.desc \in Node
      BY <1>1, <1>12 DEF EnqCheck, Role, EnqAt, Fields
  <2>2. CASE To(t, "enq_link", f, hand[t]) /\ next' = [next EXCEPT ![f.desc].color = f.next.color]
    <3>1. next'[f.desc].color = f.next.color
        BY <1>1, <2>1, <2>2 DEF Link
    <3> QED BY <1>1, <1>2, <2>1, <2>2, <3>1, CarryTo
  <2> QED BY <1>1, <1>2, <1>12, <2>1, <2>2, EnqCheckEffect, CarryHand
<1>13. CASE EnqLink(t)
  <2>1. pc[t] = "enq_link" /\ word' = word
      BY <1>13 DEF EnqLink
  <2> QED BY <1>1, <1>2, <1>13, <2>1, EnqLinkEffect, CarryHand
<1>14. CASE EnqHelp(t)
  <2>1. pc[t] = "enq_help" /\ word' = word
      BY <1>14 DEF EnqHelp
  <2> QED BY <1>1, <1>2, <1>14, <2>1, EnqHelpEffect, CarryHand
<1>15. CASE EnqSwing(t)
    BY <1>1, <1>15, EnqSwingEffect, CarryHand
<1>16. CASE DeqHead(t)
  <2>1. pc[t] = "deq_head" /\ word' = word
      BY <1>16 DEF DeqHead, shared
  <2> QED BY <1>1, <1>2, <1>16, <2>1, DeqHeadEffect, CarryHand
<1>17. CASE DeqTail(t)
  <2>1. pc[t] = "deq_tail" /\ word' = word
      BY <1>17 DEF DeqTail, shared
  <2> QED BY <1>1, <1>2, <1>17, <2>1, DeqTailEffect, CarryHand
<1>18. CASE DeqNext(t)
  <2>1. pc[t] = "deq_next" /\ word' = word
      BY <1>18 DEF DeqNext, shared
  <2> QED BY <1>1, <1>2, <1>18, <2>1, DeqNextEffect, CarryHand
<1>19. CASE DeqCheck(t)
  <2>1. pc[t] = "deq_check" /\ word' = word
      BY <1>19 DEF DeqCheck, shared
  <2> QED BY <1>1, <1>2, <1>19, <2>1, DeqCheckEffect, CarryHand
<1>20. CASE DeqEmpty(t)
  <2>1. pc[t] = "deq_empty" /\ word' = word
      BY <1>20 DEF DeqEmpty, shared
  <2>2. CASE To(t, "push_count", [EmptyFrame EXCEPT !.desc = f.ret, !.back = "free"], hand[t])
    <3>1. [EmptyFrame EXCEPT !.desc = f.ret, !.back = "free"].back # "deq"
        BY DEF EmptyFrame
    <3> QED BY <1>1, <1>2, <2>1, <2>2, <3>1, CarryTo
  <2> QED BY <1>1, <1>2, <1>20, <2>1, <2>2, DeqEmptyEffect, CarryHand
<1>21. CASE DeqHelp(t)
  <2>1. pc[t] = "deq_help" /\ word' = word
      BY <1>21 DEF DeqHelp
  <2> QED BY <1>1, <1>2, <1>21, <2>1, DeqHelpEffect, CarryHand
<1>22. CASE DeqCopy(t)
  <2>1. pc[t] = "deq_copy" /\ hand[t] = BADINDEX /\ f.ret \in Node /\ f.next.index \in Node
      BY <1>1, <1>22 DEF DeqCopy, Role, DeqAt, Fields
  <2>2. /\ To(t, "deq_cas", f, hand[t]) /\ word' = [word EXCEPT ![f.ret] = word[f.next.index]]
        /\ next' = [next EXCEPT ![f.ret].color = next[f.next.index].color]
      BY <1>1, <1>22, DeqCopyEffect
  <2>3. word'[f.ret] = word'[f.next.index]
      BY <1>1, <2>1, <2>2
  <2>4. next'[f.ret].color = next[f.next.index].color
      BY <1>1, <2>1, <2>2 DEF Link
  <2>5. f.next.index # f.ret => next'[f.next.index] = next[f.next.index]
      BY <1>1, <2>1, <2>2
  <2>6. next'[f.ret].color = next'[f.next.index].color
      BY <2>4, <2>5
  <2> QED BY <1>1, <2>1, <2>2, <2>3, <2>6, CarryTo
<1>23. CASE DeqCas(t)
  <2>1. pc[t] = "deq_cas" /\ hand[t] = BADINDEX /\ word' = word
      BY <1>1, <1>23 DEF DeqCas, Role, DeqAt
  <2>2. CASE head[f.queue] = f.head
    <3>1. SecondOf(ch, f.queue, f.next.index) /\ word[f.ret] = word[f.next.index] /\ f.queue \in Queue
        BY <1>23, <2>2, TakesSecond DEF Takes
    <3>2. word[f.ret] # NoItem
      <4>1. Len(ch[f.queue]) \in Nat /\ 2 \in 2 .. Len(ch[f.queue])
          BY <3>1 DEF SecondOf
      <4> QED BY <3>1, <4>1 DEF SecondOf, Filled
    <3>3. PICK f2 : f2 = [EmptyFrame EXCEPT !.ret = f.ret, !.desc = f.head.index, !.back = "deq"]
        OBVIOUS
    <3>4. f2.ret = f.ret
        BY <3>3 DEF EmptyFrame
    <3>5. To(t, "push_count", f2, hand[t])
        BY <1>1, <1>23, <2>2, <3>3, DeqCasEffect
    <3> QED BY <1>1, <2>1, <3>2, <3>4, <3>5, CarryTo
  <2>3. CASE head[f.queue] # f.head
      BY <1>1, <1>23, <2>1, <2>3, DeqCasEffect, CarryHand
  <2> QED BY <2>2, <2>3
<1>24. CASE PaintHead(t)
  <2>1. pc[t] = "paint_head" /\ word' = word /\ head' = head
      BY <1>24 DEF PaintHead, shared
  <2>2. To(t, "paint_tail", [f EXCEPT !.head = head[f.queue]], hand[t])
      BY <1>1, <1>24, PaintHeadEffect
  <2>3. PICK f2 : f2 = [f EXCEPT !.head = head[f.queue]]
      OBVIOUS
  <2>4. f2.head = head'[f2.queue]
      BY <1>1, <2>1, <2>3 DEF Frame
  <2> QED BY <1>1, <1>2, <2>1, <2>2, <2>3, <2>4, CarryTo
<1>25. CASE PaintTail(t)
  <2>1. pc[t] = "paint_tail" /\ word' = word /\ head' = head
      BY <1>25 DEF PaintTail, shared
  <2>2. To(t, "paint_next", [f EXCEPT !.tail = tail[f.queue]], hand[t])
      BY <1>1, <1>25, PaintTailEffect
  <2>3. PICK f2 : f2 = [f EXCEPT !.tail = tail[f.queue]]
      OBVIOUS
  <2>4. headLag'[t] = 0 => f2.head = head'[f2.queue]
    <3>1. f2.head = f.head /\ f2.queue = f.queue
        BY <1>1, <2>3 DEF Frame
    <3> QED BY <1>1, <2>1, <3>1, LagKept DEF Carries
  <2> QED BY <1>1, <1>2, <2>1, <2>2, <2>3, <2>4, CarryTo
<1>26. CASE PaintNext(t)
  <2>1. pc[t] = "paint_next" /\ word' = word /\ head' = head
      BY <1>26 DEF PaintNext, shared
  <2>2. To(t, "paint_check", [f EXCEPT !.next = next[f.head.index]], hand[t])
      BY <1>1, <1>26, PaintNextEffect
  <2>3. PICK f2 : f2 = [f EXCEPT !.next = next[f.head.index]]
      OBVIOUS
  <2>4. headLag'[t] = 0 => f2.head = head'[f2.queue]
    <3>1. f2.head = f.head /\ f2.queue = f.queue
        BY <1>1, <2>3 DEF Frame
    <3> QED BY <1>1, <2>1, <3>1, LagKept DEF Carries
  <2> QED BY <1>1, <1>2, <2>1, <2>2, <2>3, <2>4, CarryTo
<1>27. CASE PaintCheck(t)
  <2>1. pc[t] = "paint_check" /\ word' = word /\ head' = head
      BY <1>27 DEF PaintCheck, shared
  <2>2. headLag'[t] = 0 => f.head = head'[f.queue]
      BY <1>1, <2>1, LagKept DEF Carries
  <2>3. CASE To(t, "paint_cas", f, hand[t])
      BY <1>1, <1>2, <2>1, <2>2, <2>3, CarryTo
  <2> QED BY <1>1, <1>2, <1>27, <2>1, <2>3, PaintCheckEffect, CarryHand
<1>28. CASE PaintCas(t)
  <2>1. pc[t] = "paint_cas" /\ word' = word
      BY <1>28 DEF PaintCas
  <2> QED BY <1>1, <1>2, <1>28, <2>1, PaintCasEffect, CarryHand
<1>29. CASE PaintBusy(t)
  <2>1. pc[t] = "paint_busy" /\ word' = word
      BY <1>29 DEF PaintBusy, shared
  <2> QED BY <1>1, <1>2, <1>29, <2>1, PaintBusyEffect, CarryHand
<1> QED BY <1>3, <1>4, <1>5, <1>6, <1>7, <1>8, <1>9, <1>10, <1>11, <1>12, <1>13, <1>14, <1>15,
           <1>16, <1>17, <1>18, <1>19, <1>20, <1>21, <1>22, <1>23, <1>24, <1>25, <1>26, <1>27,
           <1>28, <1>29 DEF Access

-----------------------------------------------------------------------------
(***************************************************************************)
(* What becomes of the requests and the colour of each queue.              *)
(***************************************************************************)

\* The colour of the queue q, whose chain is ch[q].
Shade(ch, q) == next[ch[q][Len(ch[q])]].color

\* The entries of a longer sequence,
LEMMA AppendAt ==
    ASSUME NEW S, NEW s \in Seq(S), NEW d \in S
    PROVE  /\ Append(s, d) \in Seq(S) /\ Len(Append(s, d)) = Len(s) + 1
           /\ \A i \in 1 .. Len(s) + 1 : Append(s, d)[i] = IF i <= Len(s) THEN s[i] ELSE d
OBVIOUS

\* and of a shorter one.
LEMMA TailAt ==
    ASSUME NEW S, NEW s \in Seq(S), Len(s) > 0
    PROVE  /\ Tail(s) \in Seq(S) /\ Len(Tail(s)) = Len(s) - 1
           /\ \A i \in 1 .. Len(s) - 1 : Tail(s)[i] = s[i + 1]
OBVIOUS

\* What becomes of the chain of q.
LEMMA MovedChain ==
    ASSUME NEW ch, Shape(ch), NEW t \in Thread, NEW ch2, Moved(t, ch, ch2), NEW q \in Queue
    PROVE  /\ ch[q] \in Seq(Node) /\ Len(ch[q]) \in Nat /\ Len(ch[q]) > 0
           /\ Links(t) /\ q = frame[t].queue => ch2[q] = Append(ch[q], frame[t].desc)
           /\ Takes(t) /\ q = frame[t].queue => ch2[q] = Tail(ch[q])
           /\ ~(Links(t) /\ q = frame[t].queue) /\ ~(Takes(t) /\ q = frame[t].queue) => ch2[q] = ch[q]
<1>1. q \in Place /\ Linked(ch) /\ Len(ch[q]) > 0
    BY PlaceFacts DEF Shape, Anchored
<1>2. ch \in [Place -> Seq(Node)] /\ ch[q] \in Seq(Node) /\ Len(ch[q]) \in Nat
    BY <1>1, ChainTyped
<1>3. ~(Links(t) /\ Takes(t))
    BY DEF Links, Takes, EnqLink, DeqCas
<1>4. CASE Links(t)
  <2>1. ch2 = [ch EXCEPT ![frame[t].queue] = Append(ch[frame[t].queue], frame[t].desc)]
      BY <1>4 DEF Moved, Extend
  <2> QED BY <1>1, <1>2, <1>3, <1>4, <2>1
<1>5. CASE Takes(t)
  <2>1. ch2 = [ch EXCEPT ![frame[t].queue] = Tail(ch[frame[t].queue])]
      BY <1>3, <1>5 DEF Moved, Drop
  <2> QED BY <1>1, <1>2, <1>3, <1>5, <2>1
<1>6. CASE ~Links(t) /\ ~Takes(t)
    BY <1>1, <1>2, <1>6 DEF Moved
<1> QED BY <1>4, <1>5, <1>6

\* What is known when the thread t takes a step.
Ready(t, ch, tg) ==
    /\ TInv /\ LagOK /\ Timely /\ LinkSwapsFresh /\ PaintSwapsFresh
    /\ Good(ch, tg) /\ OnQueue(t, ch) /\ Data(ch)

\* A queued request stays what it is, and so does a colour unless it is repainted.
LEMMA QueuedKeep ==
    ASSUME NEW t \in Thread, NEW ch, NEW tg, Ready(t, ch, tg), Call(t) \/ Access(t),
           NEW q \in Queue, NEW i \in 1 .. Len(ch[q])
    PROVE  /\ word'[ch[q][i]] = word[ch[q][i]]
           /\ ~(Paints(t) /\ q = frame[t].queue) => next'[ch[q][i]].color = next[ch[q][i]].color
           /\ Paints(t) /\ q = frame[t].queue => next'[ch[q][i]].color = frame[t].color
                /\ Len(ch[q]) = 1
<1>1. TInv /\ TypeOK /\ PaintSwapsFresh /\ Good(ch, tg) /\ Shape(ch) /\ Linked(ch) /\ Carries(t)
    BY DEF Ready, Good, Shape, Data, TInv
<1>2. q \in Place /\ ch[q][i] \in Node
    BY <1>1, PlaceFacts, ChainTyped
<1>3. CASE ~Paints(t)
  <2>1. ch[q][i] # Scratch(t)
      BY <1>1, <1>3, ScratchPrivate
  <2> QED BY <1>1, <1>2, <1>3, <2>1, ScratchOnly
<1>4. CASE Paints(t)
  <2>1. /\ frame[t].queue \in Queue /\ frame[t].head.index = ch[frame[t].queue][1]
        /\ Len(ch[frame[t].queue]) = 1 /\ frame[t].head.index \in Node
      BY <1>1, <1>4, PaintsEmpty
  <2>2. /\ word' = word
        /\ next' = [next EXCEPT ![frame[t].head.index] = [@ EXCEPT !.color = frame[t].color,
             !.count = Bump(frame[t].next.count)]]
      BY <1>1, <1>4, PaintCasEffect DEF Paints
  <2>3. CASE q = frame[t].queue
    <3>1. Len(ch[q]) = 1 /\ ch[q][1] = frame[t].head.index
        BY <2>1, <2>3, Zenon
    <3>2. i = 1
        BY <3>1
    <3>3. next[frame[t].head.index] \in Link
        BY <1>1, <2>1 DEF TypeOK
    <3>4. next'[frame[t].head.index].color = frame[t].color
        BY <1>1, <2>1, <2>2, <3>3 DEF TypeOK, Link
    <3> QED BY <1>4, <2>2, <2>3, <3>1, <3>2, <3>4
  <2>4. CASE q # frame[t].queue
    <3>1. ch[q][i] # frame[t].head.index
      <4>1. frame[t].queue \in Place /\ 1 \in 1 .. Len(ch[frame[t].queue])
          BY <2>1, PlaceFacts
      <4> QED BY <1>1, <1>2, <2>1, <2>4, <4>1 DEF Linked
    <3>2. next'[ch[q][i]] = next[ch[q][i]]
        BY <1>1, <1>2, <2>2, <3>1 DEF TypeOK
    <3> QED BY <2>2, <2>4, <3>2
  <2> QED BY <2>3, <2>4
<1> QED BY <1>3, <1>4

\* What a sender links, and where.
LEMMA LinksData ==
    ASSUME NEW t \in Thread, NEW ch, NEW tg, Ready(t, ch, tg), Links(t), Call(t) \/ Access(t)
    PROVE  /\ frame[t].queue \in Queue /\ frame[t].desc \in Node
           /\ word'[frame[t].desc] = word[frame[t].desc] /\ word[frame[t].desc] # NoItem
           /\ next'[frame[t].desc].color = Shade(ch, frame[t].queue)
           /\ frame[t].next.color = Shade(ch, frame[t].queue)
           /\ ~Paints(t) /\ ~Takes(t)
<1>1. /\ TInv /\ TypeOK /\ LinkSwapsFresh /\ PaintSwapsFresh /\ Good(ch, tg) /\ Shape(ch) /\ Carries(t)
           /\ OnQueue(t, ch)
      /\ pc[t] = "enq_link" /\ Role("enq_link", frame[t], hand[t]) /\ Fields(frame[t])
      /\ next[frame[t].tail.index] = frame[t].next
    BY HoldFields DEF Ready, Good, Data, TInv, Links, EnqLink, LinkMatches
<1>2. frame[t].queue \in Queue /\ frame[t].tail.index = ch[frame[t].queue][Len(ch[frame[t].queue])]
    BY <1>1, LinksLast
<1>3. frame[t].desc \in Node /\ frame[t].desc # BADINDEX /\ hand[t] = frame[t].desc
    BY <1>1, NodeFacts DEF Role, EnqAt, Fields
<1>4. frame[t].desc # Scratch(t)
    BY <1>1, <1>3 DEF Scratch
<1>5. word'[frame[t].desc] = word[frame[t].desc]
        /\ next'[frame[t].desc].color = next[frame[t].desc].color
    BY <1>1, <1>3, <1>4, ScratchOnly
<1>6. word[frame[t].desc] # NoItem /\ next[frame[t].desc].color = frame[t].next.color
    BY <1>1, <1>3 DEF Carries
<1>7. frame[t].next.color = Shade(ch, frame[t].queue)
    BY <1>1, <1>2 DEF Shade
<1> QED BY <1>1, <1>2, <1>3, <1>5, <1>6, <1>7 DEF Paints, Takes, PaintCas, DeqCas

\* The colour of q after a step of t.
NewShade(t, ch, q) == IF Paints(t) /\ q = frame[t].queue THEN frame[t].color ELSE Shade(ch, q)

\* Requests and links of q after a step of t.
LEMMA DataStep ==
    ASSUME NEW t \in Thread, NEW ch, NEW tg, Ready(t, ch, tg), Call(t) \/ Access(t),
           NEW ch2, Moved(t, ch, ch2), NEW q \in Queue
    PROVE  /\ \A i \in 1 .. Len(ch2[q]) : next'[ch2[q][i]].color = NewShade(t, ch, q)
           /\ \A i \in 2 .. Len(ch2[q]) : word'[ch2[q][i]] # NoItem
<1>1. /\ TInv /\ LagOK /\ Timely /\ Good(ch, tg) /\ Shape(ch) /\ Carries(t)
      /\ \A i \in 1 .. Len(ch[q]) : next[ch[q][i]].color = Shade(ch, q)
      /\ \A i \in 2 .. Len(ch[q]) : word[ch[q][i]] # NoItem
    BY DEF Ready, Good, Data, Colored, Filled, Shade
<1>2. ch[q] \in Seq(Node) /\ Len(ch[q]) \in Nat /\ Len(ch[q]) > 0
    BY <1>1, MovedChain
<1>3. \A i \in 1 .. Len(ch[q]) : next'[ch[q][i]].color = NewShade(t, ch, q)
        /\ word'[ch[q][i]] = word[ch[q][i]]
    BY <1>1, QueuedKeep DEF NewShade
<1>4. CASE Links(t) /\ q = frame[t].queue
  <2>1. frame[t].desc \in Node /\ word'[frame[t].desc] # NoItem
          /\ next'[frame[t].desc].color = NewShade(t, ch, q)
      BY <1>4, LinksData DEF NewShade
  <2>2. /\ Len(ch2[q]) = Len(ch[q]) + 1
        /\ \A i \in 1 .. Len(ch[q]) + 1 : ch2[q][i] = IF i <= Len(ch[q]) THEN ch[q][i] ELSE frame[t].desc
    <3>1. ch2[q] = Append(ch[q], frame[t].desc)
        BY <1>1, <1>4, MovedChain
    <3>2. PICK d \in Node : d = frame[t].desc
        BY <2>1
    <3>3. PICK s \in Seq(Node) : s = ch[q]
        BY <1>2
    <3>4. Len(Append(s, d)) = Len(s) + 1
            /\ \A i \in 1 .. Len(s) + 1 : Append(s, d)[i] = IF i <= Len(s) THEN s[i] ELSE d
        BY AppendAt
    <3> QED BY <3>1, <3>2, <3>3, <3>4
  <2>3. ASSUME NEW i \in 1 .. Len(ch2[q]) PROVE next'[ch2[q][i]].color = NewShade(t, ch, q)
    <3>1. i \in 1 .. Len(ch[q]) + 1 /\ (i <= Len(ch[q]) => i \in 1 .. Len(ch[q]))
      <4>1. i \in 1 .. Len(ch[q]) + 1
          BY <2>2, Zenon
      <4> QED BY <1>2, <4>1
    <3> QED BY <1>3, <2>1, <2>2, <3>1
  <2>4. ASSUME NEW i \in 2 .. Len(ch2[q]) PROVE word'[ch2[q][i]] # NoItem
    <3>1. i \in 1 .. Len(ch[q]) + 1 /\ (i <= Len(ch[q]) => i \in 2 .. Len(ch[q])
            /\ i \in 1 .. Len(ch[q]))
      <4>1. i \in 2 .. Len(ch[q]) + 1
          BY <2>2, Zenon
      <4> QED BY <1>2, <4>1
    <3> QED BY <1>1, <1>3, <2>1, <2>2, <3>1
  <2> QED BY <2>3, <2>4
<1>5. CASE Takes(t) /\ q = frame[t].queue
  <2>1. /\ Len(ch2[q]) = Len(ch[q]) - 1
        /\ \A i \in 1 .. Len(ch[q]) - 1 : ch2[q][i] = ch[q][i + 1]
    <3>1. ch2[q] = Tail(ch[q])
        BY <1>1, <1>5, MovedChain
    <3>2. PICK s \in Seq(Node) : s = ch[q] /\ Len(s) > 0
        BY <1>2
    <3>3. Len(Tail(s)) = Len(s) - 1 /\ \A i \in 1 .. Len(s) - 1 : Tail(s)[i] = s[i + 1]
        BY <3>2, TailAt
    <3> QED BY <3>1, <3>2, <3>3, Zenon
  <2>2. ASSUME NEW i \in 1 .. Len(ch2[q]) PROVE next'[ch2[q][i]].color = NewShade(t, ch, q)
      BY <1>2, <1>3, <2>1
  <2>3. ASSUME NEW i \in 2 .. Len(ch2[q]) PROVE word'[ch2[q][i]] # NoItem
      BY <1>1, <1>2, <1>3, <2>1
  <2> QED BY <2>2, <2>3
<1>6. CASE ~(Links(t) /\ q = frame[t].queue) /\ ~(Takes(t) /\ q = frame[t].queue)
  <2>1. ch2[q] = ch[q]
      BY <1>1, <1>6, MovedChain
  <2>2. ASSUME NEW i \in 1 .. Len(ch[q]) PROVE next'[ch[q][i]].color = NewShade(t, ch, q)
      BY <1>3
  <2>3. ASSUME NEW i \in 2 .. Len(ch[q]) PROVE word'[ch[q][i]] # NoItem
      BY <1>1, <1>2, <1>3
  <2> QED BY <2>1, <2>2, <2>3
<1> QED BY <1>4, <1>5, <1>6

\* Its colour.
LEMMA ShadeStep ==
    ASSUME NEW t \in Thread, NEW ch, NEW tg, Ready(t, ch, tg), Call(t) \/ Access(t),
           NEW ch2, NEW tg2, Moved(t, ch, ch2), Good(ch2, tg2)', NEW q \in Queue
    PROVE  /\ Len(ch2[q]) \in 1 .. Len(ch2[q])
           /\ Shade(ch2, q)' = NewShade(t, ch, q)
<1>1. Shape(ch2)'
    BY DEF Good
<1>2. q \in Place /\ Linked(ch2)' /\ Len(ch2[q]) > 0
    BY <1>1, PlaceFacts DEF Shape, Anchored
<1>3. ch2[q] \in Seq(Node)
    BY <1>2 DEF Linked
<1>4. Len(ch2[q]) \in 1 .. Len(ch2[q])
    BY <1>2, <1>3
<1> QED BY <1>4, DataStep DEF Shade

\* A step keeps what is known of the data.
LEMMA DataKept ==
    ASSUME NEW t \in Thread, NEW ch, NEW tg, Ready(t, ch, tg), LagNext, Call(t) \/ Access(t),
           NEW ch2, NEW tg2, Moved(t, ch, ch2), Good(ch2, tg2)'
    PROVE  Data(ch2)'
<1>1. Colored(ch2)' /\ Filled(ch2)'
    BY DataStep, ShadeStep DEF Colored, Filled, Shade
<1>2. ASSUME NEW u \in Thread PROVE Carries(u)'
  <2>1. /\ TInv /\ LagOK /\ Timely /\ PaintSwapsFresh /\ Good(ch, tg) /\ Filled(ch)
        /\ \A r \in Thread : Carries(r)
      BY DEF Ready, Data
  <2> QED BY <2>1, SelfCarry, OthersCarry
<1> QED BY <1>1, <1>2 DEF Data

\* The inductive invariant: memory holds some chains, of requests and one colour each.
DataInv == TInv /\ LagOK /\ \E ch, tg : Good(ch, tg) /\ (\A t \in Thread : OnQueue(t, ch)) /\ Data(ch)

\* No step.
LEMMA DataStutter ==
    ASSUME NEW ch, Data(ch), UNCHANGED <<vars, lags>>
    PROVE  Data(ch)'
<1>1. UNCHANGED vars /\ UNCHANGED lags
    OBVIOUS
<1>2. ASSUME NEW t \in Thread PROVE Carries(t)'
    BY <1>1 DEF vars, lags, Data, Carries
<1>3. Colored(ch)' /\ Filled(ch)'
    BY <1>1 DEF vars, Data, Colored, Filled
<1> QED BY <1>2, <1>3 DEF Data

\* At first every queue is its dummy,
LEMMA InitLengths ==
    ASSUME Init, NEW ch, NEW tg, Good(ch, tg)
    PROVE  \A q \in Queue : Len(ch[q]) = 1
<1> SUFFICES ASSUME NEW q \in Queue PROVE Len(ch[q]) = 1
    OBVIOUS
<1>1. Shape(ch) /\ Linked(ch) /\ q \in Place /\ Len(ch[q]) > 0 /\ head[q].index = ch[q][1]
    BY PlaceFacts DEF Good, Shape, Anchored
<1>2. Len(ch[q]) \in Nat /\ 1 \in 1 .. Len(ch[q])
    BY <1>1, ChainTyped
<1>3. next[head[q].index].index = BADINDEX
  <2>1. NDescs \in Nat /\ Len(QueueColor) \in Nat /\ Len(QueueColor) < NDescs
      BY QueueAssumption
  <2>2. head[q].index = NDescs - q /\ NDescs - q \in Node /\ NDescs - q >= NFree
      BY <2>1 DEF Init, Dummy, Queue, Node, NFree
  <2> QED BY <2>2 DEF Init
<1>4. ~(1 < Len(ch[q]))
    BY <1>1, <1>2, <1>3, ChainNext
<1>5. \A n \in Nat : n > 0 /\ ~(1 < n) => n = 1
    OBVIOUS
<1> QED BY <1>1, <1>2, <1>4, <1>5, Zenon

\* and holds no request.
LEMMA DataInit == Init /\ LagInit => DataInv
<1> SUFFICES ASSUME Init, LagInit PROVE DataInv
    OBVIOUS
<1>1. TInv /\ LagOK
    BY TInit, GoodInit
<1>2. PICK ch, tg : Good(ch, tg)
    BY GoodInit
<1>3. \A t \in Thread : pc[t] = "idle" /\ hand[t] = BADINDEX
    BY DEF Init
<1>4. \A t \in Thread : OnQueue(t, ch) /\ Carries(t)
    BY <1>3 DEF OnQueue, Carries
<1>5. \A q \in Queue : Len(ch[q]) = 1
    BY <1>2, InitLengths
<1>6. Colored(ch) /\ Filled(ch)
    BY <1>5 DEF Colored, Filled
<1> QED BY <1>1, <1>2, <1>4, <1>6 DEF DataInv, Data

\* Every step keeps it.
LEMMA DataNext ==
    DataInv /\ Timely /\ Timely' /\ ~strayed'
      /\ [Next /\ LagNext]_<<vars, lags>> => DataInv'
<1> SUFFICES ASSUME DataInv, Timely, Timely', ~strayed',
                    [Next /\ LagNext]_<<vars, lags>>
             PROVE  DataInv'
    OBVIOUS
<1>0. LinkSwapsFresh /\ PaintSwapsFresh
    BY Fresh DEF DataInv, TInv
<1>1. PICK ch, tg : Good(ch, tg) /\ (\A t \in Thread : OnQueue(t, ch)) /\ Data(ch)
    BY DEF DataInv
<1>2. TInv /\ LagOK /\ TypeOK /\ Shape(ch)
    BY <1>1 DEF DataInv, TInv, Good
<1>3. CASE Next /\ LagNext
  <2>1. PICK t \in Thread : Call(t) \/ Access(t)
      BY <1>3 DEF Next
  <2>2. Links(t) => frame[t].tail.index = ch[frame[t].queue][Len(ch[frame[t].queue])]
      BY <1>0, <1>1, <1>2, LinksLast
  <2>3. PICK ch2, tg2 : Moved(t, ch, ch2) /\ Good(ch2, tg2)'
      BY <1>1, <1>2, <1>3, <2>1, <2>2, GoodStep
  <2>4. \A u \in Thread : OnQueue(u, ch2)'
      BY <1>1, <1>2, <1>3, <2>1, <2>3, OnQueueStep
  <2>5. TInv'
      BY <1>2, <1>3, TNext
  <2>6. LagOK'
      BY <1>2, <1>3, LagType
  <2>7. Data(ch2)'
      BY <1>1, <1>2, <1>3, <2>1, <2>3, <1>0, DataKept DEF Ready
  <2> QED BY <2>3, <2>4, <2>5, <2>6, <2>7 DEF DataInv
<1>4. CASE UNCHANGED <<vars, lags>>
  <2>1. Good(ch, tg)'
      BY <1>1, <1>4, GoodStutter
  <2>2. UNCHANGED vars /\ UNCHANGED lags
      BY <1>4
  <2>3. \A t \in Thread : OnQueue(t, ch)'
      BY <1>1, <2>2 DEF OnQueue, vars, lags
  <2>4. TInv'
      BY <1>2, <2>2, TNext
  <2>5. LagOK'
      BY <1>2, <2>2 DEF lags, LagOK
  <2>6. Data(ch)'
      BY <1>1, <1>4, DataStutter
  <2> QED BY <2>1, <2>3, <2>4, <2>5, <2>6 DEF DataInv
<1> QED BY <1>3, <1>4

\* The colour at the tail of a queue is the colour at its head.
LEMMA DataColors == DataInv => ColorsAgree
<1> SUFFICES ASSUME DataInv PROVE ColorsAgree
    OBVIOUS
<1>1. PICK ch, tg : Good(ch, tg) /\ Data(ch)
    BY DEF DataInv
<1>2. Shape(ch) /\ Linked(ch)
    BY <1>1 DEF Good, Shape
<1>3. ASSUME NEW q \in Queue, NEW n \in Nodes(Walk(head[q].index)) PROVE next[n].color = LinkColor(q)
  <2>1. Walk(head[q].index) = ch[q] /\ ch[q] \in Seq(Node)
      BY <1>2, ShapeWalk, ChainTyped, PlaceFacts
  <2>2. PICK i \in 1 .. Len(ch[q]) : n = ch[q][i]
      BY <1>3, <2>1 DEF Nodes
  <2>3. LinkColor(q) = next[ch[q][Len(ch[q])]].color
      BY <2>1 DEF LinkColor, LastNode
  <2> QED BY <1>1, <2>2, <2>3 DEF Data, Colored
<1> QED BY <1>3 DEF ColorsAgree

\* So a request and a colour are in every place the chains say, until a swap strays.
LEMMA DataAlways == LagSpec /\ []Timely => [](strayed \/ DataInv)
<1>1. (strayed \/ DataInv) /\ Timely /\ Timely' /\ [Next /\ LagNext]_<<vars, lags>>
        => (strayed \/ DataInv)'
    BY DataNext, StrayStays
<1> QED BY <1>1, DataInit, PTL DEF LagSpec

\* Until a swap strays, a queue has one colour: mig_enqueue hands the colour of the last link on to its
\* own, and migqueue_set_color_if_empty repaints an empty queue only.
THEOREM ColorsAgreeHolds ==
    LagSpec /\ []Timely => [](strayed \/ ColorsAgree)
<1> QED BY DataAlways, DataColors, PTL

-----------------------------------------------------------------------------
(***************************************************************************)
(* The queues implement ColorQueue: Items and LinkColor walk the links,    *)
(* Words and Shade go by the chains.                                       *)
(***************************************************************************)

\* The requests of the queue q, whose chain is ch[q]: all but the dummy's.
Words(ch, q) == [k \in 1 .. Len(ch[q]) - 1 |-> word[ch[q][k + 1]]]

\* The walk from the successor of the head is the chain behind it.
LEMMA QueuedTail ==
    ASSUME NEW ch, Shape(ch), NEW q \in Queue
    PROVE  /\ Queued(q) = Tail(ch[q])
           /\ Tail(ch[q]) \in Seq(Node) /\ Len(Tail(ch[q])) = Len(ch[q]) - 1
           /\ \A i \in 1 .. Len(ch[q]) - 1 : Tail(ch[q])[i] = ch[q][i + 1]
<1>1. q \in Place /\ Linked(ch) /\ Len(ch[q]) > 0 /\ head[q].index = ch[q][1]
    BY PlaceFacts DEF Shape, Anchored
<1>2. ch[q] \in Seq(Node) /\ Len(ch[q]) \in Nat /\ Len(ch[q]) <= NDescs /\ 1 \in 1 .. Len(ch[q])
        /\ NDescs \in Nat
    BY <1>1, ChainTyped, ChainBounded, NodeFacts
<1>3. PICK s : s = Tail(ch[q])
    OBVIOUS
<1>4. s \in Seq(Node) /\ Len(s) = Len(ch[q]) - 1 /\ \A i \in 1 .. Len(ch[q]) - 1 : s[i] = ch[q][i + 1]
  <2>1. PICK c \in Seq(Node) : c = ch[q]
      BY <1>2
  <2>2. Tail(c) \in Seq(Node) /\ Len(Tail(c)) = Len(c) - 1
          /\ \A i \in 1 .. Len(c) - 1 : Tail(c)[i] = c[i + 1]
      BY <1>1, <2>1, TailAt
  <2> QED BY <1>3, <2>1, <2>2
<1>5. Queued(q) = s
  <2>1. \A i \in 1 .. Len(s) : next[s[i]].index = IF i < Len(s) THEN s[i + 1] ELSE BADINDEX
    <3> SUFFICES ASSUME NEW i \in 1 .. Len(s) PROVE next[s[i]].index = IF i < Len(s) THEN s[i + 1] ELSE BADINDEX
        OBVIOUS
    <3>1. i + 1 \in 1 .. Len(ch[q]) /\ (i < Len(s) <=> i + 1 < Len(ch[q])) /\ s[i] = ch[q][i + 1]
          /\ (i < Len(s) => i + 1 \in 1 .. Len(ch[q]) - 1)
        BY <1>2, <1>4
    <3>2. next[ch[q][i + 1]].index = IF i + 1 < Len(ch[q]) THEN ch[q][(i + 1) + 1] ELSE BADINDEX
        BY <1>1, <3>1, ChainNext
    <3> QED BY <1>4, <3>1, <3>2
  <2>2. next[head[q].index].index = IF Len(s) > 0 THEN s[1] ELSE BADINDEX
    <3>1. next[ch[q][1]].index = IF 1 < Len(ch[q]) THEN ch[q][1 + 1] ELSE BADINDEX
        BY <1>1, <1>2, ChainNext
    <3>2. (1 < Len(ch[q]) <=> Len(s) > 0) /\ (Len(s) > 0 => s[1] = ch[q][1 + 1])
        BY <1>2, <1>4
    <3> QED BY <1>1, <3>1, <3>2
  <2>3. Len(s) <= NDescs
      BY <1>2, <1>4
  <2>4. Chain(s, next[head[q].index].index)
      BY <1>4, <2>1, <2>2, <2>3 DEF Chain
  <2> QED BY <2>4, WalkChain DEF Queued
<1> QED BY <1>3, <1>4, <1>5

\* What Items and LinkColor find.
LEMMA View ==
    \A ch : Shape(ch) => \A q \in Queue : LinkColor(q) = Shade(ch, q) /\ Items(q) = Words(ch, q)
<1> SUFFICES ASSUME NEW ch, Shape(ch), NEW q \in Queue
             PROVE  LinkColor(q) = Shade(ch, q) /\ Items(q) = Words(ch, q)
    OBVIOUS
<1>1. LinkColor(q) = Shade(ch, q)
  <2>1. Walk(head[q].index) = ch[q]
      BY ShapeWalk
  <2> QED BY <2>1 DEF LinkColor, LastNode, Shade
<1>2. PICK s : s = Tail(ch[q])
    OBVIOUS
<1>3. s \in Seq(Node) /\ Len(s) = Len(ch[q]) - 1 /\ Queued(q) = s
        /\ \A i \in 1 .. Len(ch[q]) - 1 : s[i] = ch[q][i + 1]
    BY <1>2, QueuedTail
<1>4. Items(q) = Words(ch, q)
  <2>1. DOMAIN s = 1 .. Len(ch[q]) - 1
      BY <1>3
  <2>2. Items(q) = [k \in DOMAIN s |-> word[s[k]]]
      BY <1>3 DEF Items
  <2> QED BY <1>3, <2>1, <2>2 DEF Words
<1> QED BY <1>1, <1>4

\* The same in the next state.
LEMMA ViewNext ==
    \A ch : Shape(ch)' => \A q \in Queue : LinkColor(q)' = Shade(ch, q)' /\ Items(q)' = Words(ch, q)'
<1>1. (\A ch : Shape(ch) => \A q \in Queue : LinkColor(q) = Shade(ch, q) /\ Items(q) = Words(ch, q))'
    BY View, PTL
<1> QED BY <1>1

\* Sequences of one length and the same entries are equal.
LEMMA SameSeq ==
    ASSUME NEW S, NEW s \in Seq(S), NEW r \in Seq(S), Len(s) = Len(r),
           \A i \in 1 .. Len(s) : s[i] = r[i]
    PROVE  s = r
OBVIOUS

\* The entries of Words,
LEMMA WordsAre ==
    ASSUME TInv, NEW ch, Shape(ch), Filled(ch), NEW q \in Queue
    PROVE  /\ Words(ch, q) \in Seq(Item) /\ Len(Words(ch, q)) = Len(ch[q]) - 1
           /\ \A k \in 1 .. Len(ch[q]) - 1 : Words(ch, q)[k] = word[ch[q][k + 1]]
<1>1. q \in Place /\ Linked(ch) /\ Len(ch[q]) > 0 /\ Len(ch[q]) \in Nat
    BY PlaceFacts, ChainTyped DEF Shape, Anchored
<1>2. ASSUME NEW k \in 1 .. Len(ch[q]) - 1 PROVE word[ch[q][k + 1]] \in Item
  <2>1. k + 1 \in 2 .. Len(ch[q]) /\ k + 1 \in 1 .. Len(ch[q])
      BY <1>1
  <2>2. ch[q][k + 1] \in Node /\ word[ch[q][k + 1]] # NoItem
      BY <1>1, <2>1, ChainTyped DEF Filled
  <2> QED BY <2>2 DEF TInv, TypeOK
<1>3. Len(ch[q]) - 1 \in Nat
    BY <1>1
<1>4. \A n \in Nat : \A s \in [1 .. n -> Item] : s \in Seq(Item) /\ Len(s) = n
    OBVIOUS
<1>5. Words(ch, q) \in [1 .. Len(ch[q]) - 1 -> Item]
    BY <1>2 DEF Words
<1>6. Words(ch, q) \in Seq(Item) /\ Len(Words(ch, q)) = Len(ch[q]) - 1
    BY <1>3, <1>4, <1>5
<1> QED BY <1>6 DEF Words

\* and in the next state.
LEMMA WordsThen ==
    TInv' => \A ch : Shape(ch)' /\ Filled(ch)' => \A q \in Queue :
           /\ Words(ch, q)' \in Seq(Item) /\ Len(Words(ch, q)') = Len(ch[q]) - 1
           /\ \A k \in 1 .. Len(ch[q]) - 1 : Words(ch, q)'[k] = word'[ch[q][k + 1]]
<1>1. TInv => \A ch : Shape(ch) /\ Filled(ch) => \A q \in Queue :
           /\ Words(ch, q) \in Seq(Item) /\ Len(Words(ch, q)) = Len(ch[q]) - 1
           /\ \A k \in 1 .. Len(ch[q]) - 1 : Words(ch, q)[k] = word[ch[q][k + 1]]
    BY WordsAre
<1>2. (TInv => \A ch : Shape(ch) /\ Filled(ch) => \A q \in Queue :
           /\ Words(ch, q) \in Seq(Item) /\ Len(Words(ch, q)) = Len(ch[q]) - 1
           /\ \A k \in 1 .. Len(ch[q]) - 1 : Words(ch, q)[k] = word[ch[q][k + 1]])'
    BY <1>1, PTL
<1> QED BY <1>2

\* Requests are appended and taken at the ends.
LEMMA WordsStep ==
    ASSUME NEW t \in Thread, NEW ch, NEW tg, Ready(t, ch, tg), Call(t) \/ Access(t),
           NEW ch2, NEW tg2, Moved(t, ch, ch2), Good(ch2, tg2)', Filled(ch2)', TInv', NEW q \in Queue
    PROVE  /\ Words(ch, q) \in Seq(Item)
           /\ Links(t) /\ q = frame[t].queue
                => Words(ch2, q)' = Append(Words(ch, q), word[frame[t].desc])
           /\ Takes(t) /\ q = frame[t].queue => Words(ch2, q)' = Tail(Words(ch, q))
           /\ ~(Links(t) /\ q = frame[t].queue) /\ ~(Takes(t) /\ q = frame[t].queue)
                => Words(ch2, q)' = Words(ch, q)
<1>1. TInv /\ Shape(ch) /\ Filled(ch) /\ Shape(ch2)' /\ word \in [Node -> Item \cup {NoItem}]
    BY DEF Ready, Good, Data, TInv, TypeOK
<1>2. PICK s : s = Words(ch, q)
    OBVIOUS
<1>3. s \in Seq(Item) /\ Len(s) = Len(ch[q]) - 1
        /\ \A k \in 1 .. Len(ch[q]) - 1 : s[k] = word[ch[q][k + 1]]
    BY <1>1, <1>2, WordsAre
<1>4. PICK r : r = Words(ch2, q)'
    OBVIOUS
<1>5. r \in Seq(Item) /\ Len(r) = Len(ch2[q]) - 1
        /\ \A k \in 1 .. Len(ch2[q]) - 1 : r[k] = word'[ch2[q][k + 1]]
    BY <1>1, <1>4, WordsThen
<1>6. ch[q] \in Seq(Node) /\ Len(ch[q]) \in Nat /\ Len(ch[q]) > 0
    BY <1>1, MovedChain
<1>7. \A i \in 1 .. Len(ch[q]) : word'[ch[q][i]] = word[ch[q][i]]
    BY QueuedKeep
<1>8. PICK c \in Seq(Node) : c = ch[q]
    BY <1>6
<1>9. ASSUME Links(t), q = frame[t].queue PROVE r = Append(s, word[frame[t].desc])
  <2>1. PICK d \in Node : d = frame[t].desc
      BY <1>9, LinksData
  <2>2. word'[d] = word[d] /\ word[d] \in Item
      BY <1>1, <1>9, <2>1, LinksData
  <2>3. ch2[q] = Append(c, d)
      BY <1>1, <1>8, <1>9, <2>1, MovedChain
  <2>4. Len(ch2[q]) = Len(c) + 1
          /\ \A i \in 1 .. Len(c) + 1 : ch2[q][i] = IF i <= Len(c) THEN c[i] ELSE d
      BY <2>3, AppendAt
  <2>5. PICK a : a = Append(s, word[d])
      OBVIOUS
  <2>6. a \in Seq(Item) /\ Len(a) = Len(s) + 1
          /\ \A i \in 1 .. Len(s) + 1 : a[i] = IF i <= Len(s) THEN s[i] ELSE word[d]
      BY <1>3, <2>2, <2>5, AppendAt
  <2>7. Len(r) = Len(c) /\ Len(a) = Len(c) /\ Len(c) \in Nat
      BY <1>3, <1>5, <1>6, <1>8, <2>4, <2>6
  <2>8. ASSUME NEW i \in 1 .. Len(r) PROVE r[i] = a[i]
    <3>1. i \in 1 .. Len(c) /\ i \in 1 .. Len(ch2[q]) - 1 /\ i \in 1 .. Len(s) + 1
            /\ Len(s) = Len(c) - 1
        BY <1>3, <1>6, <1>8, <2>4, <2>7
    <3>2. r[i] = word'[ch2[q][i + 1]]
        BY <1>5, <3>1
    <3>3. CASE i < Len(c)
      <4>1. i + 1 \in 1 .. Len(c) + 1 /\ i + 1 <= Len(c) /\ i <= Len(s) /\ i + 1 \in 1 .. Len(ch[q])
              /\ i \in 1 .. Len(ch[q]) - 1
          BY <1>8, <2>7, <3>1, <3>3
      <4>2. ch2[q][i + 1] = ch[q][i + 1]
          BY <1>8, <2>4, <4>1
      <4>3. a[i] = word[ch[q][i + 1]]
          BY <1>3, <2>6, <3>1, <4>1
      <4> QED BY <1>7, <3>2, <4>1, <4>2, <4>3
    <3>4. CASE i = Len(c)
      <4>1. i + 1 \in 1 .. Len(c) + 1 /\ ~(i + 1 <= Len(c)) /\ ~(i <= Len(s))
          BY <2>7, <3>1, <3>4
      <4>2. ch2[q][i + 1] = d
          BY <2>4, <4>1
      <4>3. a[i] = word[d]
          BY <2>6, <3>1, <4>1
      <4> QED BY <2>2, <3>2, <4>2, <4>3
    <3> QED BY <2>7, <3>1, <3>3, <3>4
  <2> QED BY <1>5, <2>1, <2>5, <2>6, <2>7, <2>8, SameSeq
<1>10. ASSUME Takes(t), q = frame[t].queue PROVE r = Tail(s)
  <2>1. SecondOf(ch, q, frame[t].next.index)
      BY <1>10, TakesSecond DEF Ready, Data
  <2>2. Len(c) > 1 /\ Len(c) \in Nat
      BY <1>6, <1>8, <2>1 DEF SecondOf
  <2>3. ch2[q] = Tail(c)
      BY <1>1, <1>8, <1>10, MovedChain
  <2>4. Len(ch2[q]) = Len(c) - 1 /\ \A i \in 1 .. Len(c) - 1 : ch2[q][i] = c[i + 1]
      BY <2>2, <2>3, TailAt
  <2>5. PICK a : a = Tail(s)
      OBVIOUS
  <2>6. Len(s) = Len(c) - 1 /\ Len(s) > 0
      BY <1>3, <1>8, <2>2
  <2>7. a \in Seq(Item) /\ Len(a) = Len(s) - 1 /\ \A i \in 1 .. Len(s) - 1 : a[i] = s[i + 1]
      BY <1>3, <2>5, <2>6, TailAt
  <2>8. Len(r) = Len(a)
      BY <1>5, <2>2, <2>4, <2>6, <2>7
  <2>9. ASSUME NEW i \in 1 .. Len(r) PROVE r[i] = a[i]
    <3>1. /\ i \in 1 .. Len(ch2[q]) - 1 /\ i + 1 \in 1 .. Len(c) - 1 /\ i \in 1 .. Len(s) - 1
          /\ i + 1 \in 1 .. Len(ch[q]) - 1 /\ (i + 1) + 1 \in 1 .. Len(ch[q])
        BY <1>8, <2>2, <2>4, <2>6, <2>7, <2>8
    <3>2. r[i] = word'[ch2[q][i + 1]] /\ ch2[q][i + 1] = ch[q][(i + 1) + 1]
        BY <1>5, <1>8, <2>4, <3>1
    <3>3. a[i] = word[ch[q][(i + 1) + 1]]
        BY <1>3, <2>7, <3>1
    <3> QED BY <1>7, <3>1, <3>2, <3>3
  <2> QED BY <1>5, <2>5, <2>7, <2>8, <2>9, SameSeq
<1>11. ASSUME ~(Links(t) /\ q = frame[t].queue) /\ ~(Takes(t) /\ q = frame[t].queue) PROVE r = s
  <2>1. ch2[q] = ch[q]
      BY <1>1, <1>11, MovedChain
  <2>2. Len(r) = Len(s)
      BY <1>3, <1>5, <2>1
  <2>3. ASSUME NEW i \in 1 .. Len(r) PROVE r[i] = s[i]
    <3>1. i \in 1 .. Len(ch[q]) - 1 /\ i + 1 \in 1 .. Len(ch[q])
        BY <1>3, <1>6, <2>2
    <3> QED BY <1>3, <1>5, <1>7, <2>1, <3>1
  <2> QED BY <1>3, <1>5, <2>2, <2>3, SameSeq
<1> QED BY <1>2, <1>3, <1>4, <1>9, <1>10, <1>11

\* What a call returns.
LEMMA ResultStep ==
    ASSUME TypeOK, NEW t \in Thread, Call(t) \/ Access(t)
    PROVE  /\ Links(t) => result' = [result EXCEPT ![t] = [color |-> frame[t].next.color]]
           /\ Takes(t) => result' = [result EXCEPT ![t] = [item |-> word[frame[t].ret],
                color |-> next[frame[t].ret].color]]
           /\ Paints(t) => result' = [result EXCEPT ![t] = [color |-> frame[t].next.color]]
           /\ ~Links(t) /\ ~Takes(t) /\ ~Paints(t) => result' = result
<1>1. CASE EnqLink(t)
  <2>1. ~Takes(t) /\ ~Paints(t)
      BY <1>1 DEF EnqLink, Takes, Paints, DeqCas, PaintCas
  <2> QED BY <1>1, <2>1 DEF EnqLink, Links
<1>2. CASE DeqCas(t)
  <2>1. ~Links(t) /\ ~Paints(t)
      BY <1>2 DEF DeqCas, Links, Paints, EnqLink, PaintCas
  <2>2. (head[frame[t].queue] = frame[t].head) <=> Takes(t)
      BY <1>2 DEF Takes
  <2> QED BY <1>2, <2>1, <2>2 DEF DeqCas
<1>3. CASE PaintCas(t)
  <2>1. ~Links(t) /\ ~Takes(t)
      BY <1>3 DEF PaintCas, Links, Takes, EnqLink, DeqCas
  <2> QED BY <1>3, <2>1 DEF PaintCas, Paints
<1>4. CASE ~EnqLink(t) /\ ~DeqCas(t) /\ ~PaintCas(t)
  <2>1. ~Links(t) /\ ~Takes(t) /\ ~Paints(t)
      BY <1>4 DEF Links, Takes, Paints
  <2>2. result' = result
      BY <1>4 DEF Call, CallAlloc, CallFree, CallEnqueue, CallDequeue, CallPaint, Enter, Access, shared,
         PopTop, PopNext, PopCas, PushCount, PushLink, PushCas, EnqTail, EnqNext, EnqCheck, EnqHelp,
           EnqSwing,
         DeqHead, DeqTail, DeqNext, DeqCheck, DeqEmpty, DeqHelp, DeqCopy,
         PaintHead, PaintTail, PaintNext, PaintCheck, PaintBusy
  <2> QED BY <2>1, <2>2
<1> QED BY <1>1, <1>2, <1>3, <1>4

\* A queue is repainted when it is empty, and its old colour returned.
LEMMA PaintsData ==
    ASSUME NEW t \in Thread, NEW ch, NEW tg, Ready(t, ch, tg), Paints(t)
    PROVE  /\ frame[t].queue \in Queue /\ frame[t].color \in Color
           /\ Words(ch, frame[t].queue) = <<>>
           /\ frame[t].next.color = Shade(ch, frame[t].queue)
           /\ ~Links(t) /\ ~Takes(t)
<1>1. /\ TInv /\ PaintSwapsFresh /\ Shape(ch) /\ Carries(t) /\ Filled(ch) /\ Fields(frame[t])
           /\ pc[t] = "paint_cas"
      /\ next[frame[t].head.index] = frame[t].next
    BY HoldFields DEF Ready, Good, Data, Paints, PaintCas
<1>2. /\ frame[t].queue \in Queue /\ frame[t].head.index = ch[frame[t].queue][1]
      /\ Len(ch[frame[t].queue]) = 1
    BY <1>1, PaintsEmpty
<1>3. Words(ch, frame[t].queue) = <<>>
  <2>1. Words(ch, frame[t].queue) \in Seq(Item)
          /\ Len(Words(ch, frame[t].queue)) = Len(ch[frame[t].queue]) - 1
      BY <1>1, <1>2, WordsAre
  <2>2. Len(Words(ch, frame[t].queue)) = 1 - 1
      BY <1>2, <2>1, Zenon
  <2>3. \A s \in Seq(Item) : Len(s) = 1 - 1 => s = <<>>
      OBVIOUS
  <2> QED BY <2>1, <2>2, <2>3
<1>4. frame[t].next.color = Shade(ch, frame[t].queue)
  <2>1. ch[frame[t].queue][Len(ch[frame[t].queue])] = frame[t].head.index
      BY <1>2, Zenon
  <2> QED BY <1>1, <2>1 DEF Shade
<1> QED BY <1>1, <1>2, <1>3, <1>4 DEF Fields, Links, Takes, EnqLink, DeqCas

\* What is taken is the first request of the queue, with its colour.
LEMMA TakesData ==
    ASSUME NEW t \in Thread, NEW ch, NEW tg, Ready(t, ch, tg), Takes(t)
    PROVE  /\ frame[t].queue \in Queue
           /\ Words(ch, frame[t].queue) # <<>>
           /\ word[frame[t].ret] = Head(Words(ch, frame[t].queue))
           /\ next[frame[t].ret].color = Shade(ch, frame[t].queue)
           /\ ~Links(t) /\ ~Paints(t)
<1>1. TInv /\ LagOK /\ Timely /\ Good(ch, tg) /\ Shape(ch) /\ Carries(t) /\ Filled(ch) /\ Colored(ch)
        /\ pc[t] = "deq_cas"
    BY DEF Ready, Good, Data, Takes, DeqCas
<1>2. /\ frame[t].queue \in Queue
      /\ SecondOf(ch, frame[t].queue, frame[t].next.index)
      /\ word[frame[t].ret] = word[frame[t].next.index]
      /\ next[frame[t].ret].color = next[frame[t].next.index].color
    BY <1>1, TakesSecond
<1>3. PICK w \in Seq(Item) : w = Words(ch, frame[t].queue)
    BY <1>1, <1>2, WordsAre
<1>4. Len(w) = Len(ch[frame[t].queue]) - 1
        /\ \A k \in 1 .. Len(ch[frame[t].queue]) - 1 : w[k] = word[ch[frame[t].queue][k + 1]]
    BY <1>1, <1>2, <1>3, WordsAre
<1>5. 1 \in 1 .. Len(ch[frame[t].queue]) - 1 /\ Len(w) > 0
    BY <1>2, <1>4 DEF SecondOf
<1>6. w # <<>> /\ Head(w) = w[1]
    BY <1>5
<1>7. w[1] = word[frame[t].next.index]
  <2>1. w[1] = word[ch[frame[t].queue][1 + 1]]
      BY <1>4, <1>5
  <2>2. 1 + 1 = 2
      OBVIOUS
  <2> QED BY <1>2, <2>1, <2>2 DEF SecondOf
<1>8. next[frame[t].next.index].color = Shade(ch, frame[t].queue)
    BY <1>1, <1>2 DEF SecondOf, Colored, Shade
<1> QED BY <1>1, <1>2, <1>3, <1>6, <1>7, <1>8 DEF Links, Paints, EnqLink, PaintCas

\* A step of a thread is one operation of ColorQueue, or none.
LEMMA RefineStep ==
    ASSUME NEW t \in Thread, NEW ch, NEW tg, Ready(t, ch, tg), Call(t) \/ Access(t),
           NEW ch2, NEW tg2, Moved(t, ch, ch2), Good(ch2, tg2)', Filled(ch2)', TInv'
    PROVE  [Abstract!Next]_(Abstract!vars)
<1> DEFINE q == frame[t].queue
<1>1. TypeOK /\ Shape(ch) /\ Shape(ch2)'
    BY DEF Ready, TInv, Good
<1>2. PICK it : it = [r \in Queue |-> Items(r)]
    OBVIOUS
<1>3. PICK co : co = [r \in Queue |-> LinkColor(r)]
    OBVIOUS
<1>4. PICK it2 : it2 = [r \in Queue |-> Items(r)]'
    OBVIOUS
<1>5. PICK co2 : co2 = [r \in Queue |-> LinkColor(r)]'
    OBVIOUS
<1>6. it = [r \in Queue |-> Words(ch, r)] /\ co = [r \in Queue |-> Shade(ch, r)]
    BY <1>1, <1>2, <1>3, View
<1>7. it2 = [r \in Queue |-> Words(ch2, r)'] /\ co2 = [r \in Queue |-> NewShade(t, ch, r)]
  <2>1. it2 = [r \in Queue |-> Items(r)'] /\ co2 = [r \in Queue |-> LinkColor(r)']
      BY <1>4, <1>5
  <2>2. \A r \in Queue : Items(r)' = Words(ch2, r)' /\ LinkColor(r)' = Shade(ch2, r)'
      BY <1>1, ViewNext
  <2>3. \A r \in Queue : Shade(ch2, r)' = NewShade(t, ch, r)
      BY ShadeStep
  <2> QED BY <2>1, <2>2, <2>3
<1>8. CASE Links(t)
  <2>1. q \in Queue /\ frame[t].desc \in Node /\ word[frame[t].desc] # NoItem
          /\ frame[t].next.color = Shade(ch, q)
        /\ ~Paints(t) /\ ~Takes(t)
      BY <1>8, LinksData
  <2>2. PICK v \in Item : v = word[frame[t].desc]
      BY <1>1, <2>1 DEF TypeOK
  <2>3. it2 = [it EXCEPT ![q] = Append(it[q], v)]
    <3>1. \A r \in Queue : Words(ch2, r)' = IF r = q THEN Append(it[q], v) ELSE it[r]
        BY <1>6, <1>8, <2>1, <2>2, WordsStep
    <3> HIDE DEF q
    <3> QED BY <1>6, <1>7, <2>1, <3>1
  <2>4. co2 = co
      BY <1>6, <1>7, <2>1 DEF NewShade
  <2>5. result' = [result EXCEPT ![t] = [color |-> co[q]]]
      BY <1>1, <1>6, <1>8, <2>1, ResultStep
  <2>6. Abstract!Put(t, q, v)
      BY <1>2, <1>3, <1>4, <1>5, <2>3, <2>4, <2>5 DEF Abstract!Put
  <2> QED BY <2>1, <2>6 DEF Abstract!Next
<1>9. CASE Takes(t)
  <2>1. /\ q \in Queue /\ Words(ch, q) # <<>> /\ word[frame[t].ret] = Head(Words(ch, q))
        /\ next[frame[t].ret].color = Shade(ch, q) /\ ~Links(t) /\ ~Paints(t)
      BY <1>9, TakesData
  <2>2. it2 = [it EXCEPT ![q] = Tail(it[q])]
    <3>1. \A r \in Queue : Words(ch2, r)' = IF r = q THEN Tail(it[q]) ELSE it[r]
        BY <1>6, <1>9, <2>1, WordsStep
    <3> HIDE DEF q
    <3> QED BY <1>6, <1>7, <2>1, <3>1
  <2>3. co2 = co
      BY <1>6, <1>7, <2>1 DEF NewShade
  <2>4. result' = [result EXCEPT ![t] = [item |-> Head(it[q]), color |-> co[q]]]
      BY <1>1, <1>6, <1>9, <2>1, ResultStep
  <2>5. it[q] # <<>>
      BY <1>6, <2>1
  <2>6. Abstract!Take(t, q)
      BY <1>2, <1>3, <1>4, <1>5, <2>2, <2>3, <2>4, <2>5 DEF Abstract!Take
  <2> QED BY <2>1, <2>6 DEF Abstract!Next
<1>10. CASE Paints(t)
  <2>1. /\ q \in Queue /\ frame[t].color \in Color /\ Words(ch, q) = <<>>
        /\ frame[t].next.color = Shade(ch, q) /\ ~Links(t) /\ ~Takes(t)
      BY <1>10, PaintsData
  <2>2. it2 = it
    <3>1. \A r \in Queue : Words(ch2, r)' = it[r]
        BY <1>6, <2>1, WordsStep
    <3> QED BY <1>6, <1>7, <3>1
  <2>3. co2 = [co EXCEPT ![q] = frame[t].color]
    <3>1. \A r \in Queue : NewShade(t, ch, r) = IF r = q THEN frame[t].color ELSE co[r]
        BY <1>6, <1>10 DEF NewShade
    <3> HIDE DEF q
    <3> QED BY <1>6, <1>7, <2>1, <3>1
  <2>4. result' = [result EXCEPT ![t] = [color |-> co[q]]]
      BY <1>1, <1>6, <1>10, <2>1, ResultStep
  <2>5. it[q] = <<>>
      BY <1>6, <2>1
  <2>6. Abstract!Paint(t, q, frame[t].color)
      BY <1>2, <1>3, <1>4, <1>5, <2>2, <2>3, <2>4, <2>5 DEF Abstract!Paint
  <2> QED BY <2>1, <2>6 DEF Abstract!Next
<1>11. CASE ~Links(t) /\ ~Takes(t) /\ ~Paints(t)
  <2>1. it2 = it
    <3>1. \A r \in Queue : Words(ch2, r)' = it[r]
        BY <1>6, <1>11, WordsStep
    <3> QED BY <1>6, <1>7, <3>1
  <2>2. co2 = co
      BY <1>6, <1>7, <1>11 DEF NewShade
  <2>3. result' = result
      BY <1>1, <1>11, ResultStep
  <2> QED BY <1>2, <1>3, <1>4, <1>5, <2>1, <2>2, <2>3 DEF Abstract!vars
<1> QED BY <1>8, <1>9, <1>10, <1>11

\* A step of LagSpec is a step of ColorQueue or a stutter,
LEMMA RefineNext ==
    DataInv /\ Timely /\ Timely' /\ ~strayed'
      /\ [Next /\ LagNext]_<<vars, lags>>
      => [Abstract!Next]_(Abstract!vars)
<1> SUFFICES ASSUME DataInv, Timely, Timely', ~strayed',
                    [Next /\ LagNext]_<<vars, lags>>
             PROVE  [Abstract!Next]_(Abstract!vars)
    OBVIOUS
<1>0. LinkSwapsFresh /\ PaintSwapsFresh
    BY Fresh DEF DataInv, TInv
<1>1. PICK ch, tg : Good(ch, tg) /\ (\A t \in Thread : OnQueue(t, ch)) /\ Data(ch)
    BY DEF DataInv
<1>2. TInv /\ LagOK /\ TypeOK /\ Shape(ch)
    BY <1>1 DEF DataInv, TInv, Good
<1>3. CASE Next /\ LagNext
  <2>1. PICK t \in Thread : Call(t) \/ Access(t)
      BY <1>3 DEF Next
  <2>2. Links(t) => frame[t].tail.index = ch[frame[t].queue][Len(ch[frame[t].queue])]
      BY <1>0, <1>1, <1>2, LinksLast
  <2>3. PICK ch2, tg2 : Moved(t, ch, ch2) /\ Good(ch2, tg2)'
      BY <1>1, <1>2, <1>3, <2>1, <2>2, GoodStep
  <2>4. TInv'
      BY <1>2, <1>3, TNext
  <2>5. Filled(ch2)'
      BY <1>1, <1>2, <1>3, <2>1, <2>3, <1>0, DataKept DEF Ready, Data
  <2> QED BY <1>1, <1>2, <2>1, <2>3, <2>4, <2>5, <1>0, RefineStep DEF Ready
<1>4. CASE UNCHANGED <<vars, lags>>
  <2>1. UNCHANGED vars
      BY <1>4
  <2> QED BY <2>1 DEF vars, Abstract!vars, Items, Queued, LinkColor, LastNode, Walk, Follow
<1> QED BY <1>3, <1>4

\* and the initial states are initial states of ColorQueue.
LEMMA RefineInit == Init /\ LagInit => Abstract!Init
<1> SUFFICES ASSUME Init, LagInit PROVE Abstract!Init
    OBVIOUS
<1>1. TInv
    BY TInit
<1>2. PICK ch, tg : Good(ch, tg)
    BY GoodInit
<1>3. Shape(ch) /\ Linked(ch)
    BY <1>2 DEF Good, Shape
<1>4. ASSUME NEW q \in Queue PROVE Items(q) = <<>> /\ LinkColor(q) = QueueColor[q]
  <2>1. q \in Place /\ Len(ch[q]) > 0 /\ head[q].index = ch[q][1]
      BY <1>3, PlaceFacts DEF Shape, Anchored
  <2>2. Len(ch[q]) \in Nat /\ 1 \in 1 .. Len(ch[q])
      BY <1>3, <2>1, ChainTyped
  <2>3. next[head[q].index].index = BADINDEX /\ next[head[q].index].color = QueueColor[q]
    <3>1. NDescs \in Nat /\ Len(QueueColor) \in Nat /\ Len(QueueColor) < NDescs
        BY QueueAssumption
    <3>2. head[q].index = NDescs - q /\ NDescs - q \in Node /\ NDescs - q >= NFree
            /\ NDescs - (NDescs - q) = q
        BY <3>1 DEF Init, Dummy, Queue, Node, NFree
    <3> QED BY <3>2 DEF Init
  <2>6. Len(ch[q]) = 1
      BY <1>2, InitLengths
  <2>7. LinkColor(q) = Shade(ch, q) /\ Items(q) = Words(ch, q)
      BY <1>3, View
  <2>8. Words(ch, q) = [k \in 1 .. 1 - 1 |-> word[ch[q][k + 1]]]
      BY <2>6, Zenon DEF Words
  <2>9. Words(ch, q) = <<>>
      BY <2>8
  <2>10. Shade(ch, q) = QueueColor[q]
      BY <2>1, <2>3, <2>6, Zenon DEF Shade
  <2> QED BY <2>7, <2>9, <2>10
<1>5. result = [t \in Thread |-> NoResult]
    BY DEF Init
<1> QED BY <1>4, <1>5 DEF Abstract!Init

\* The implementation theorem: up to the first swap that strays, seen through Items
\* and LinkColor, mig_enqueue,
\* mig_dequeue and migqueue_set_color_if_empty take effect at one instant each, in first-in
\* first-out order, with the colour that belongs to the queue at that instant.
THEOREM QueueImplemented ==
    LagSpec /\ []Timely =>
        /\ Abstract!Init /\ [][strayed' \/ Abstract!Next]_(Abstract!vars)
        /\ []~strayed => ImplementsColorQueue
<1>1. (strayed \/ DataInv) /\ Timely /\ Timely' /\ [Next /\ LagNext]_<<vars, lags>>
        => [strayed' \/ Abstract!Next]_(Abstract!vars)
    BY RefineNext, StrayStays
<1>2. ~strayed' /\ [strayed' \/ Abstract!Next]_(Abstract!vars) => [Abstract!Next]_(Abstract!vars)
    OBVIOUS
<1> QED BY <1>1, <1>2, DataAlways, RefineInit, PTL DEF LagSpec, ImplementsColorQueue, Abstract!Spec

-----------------------------------------------------------------------------
(***************************************************************************)
(* The reserve.  What the callers have taken is behind the dummies or held *)
(* by a thread for its caller; every other descriptor is a dummy, is free, *)
(* or is the spare one of a thread in mig_dequeue.  So with a descriptor   *)
(* left for each of those threads, none finds the freelist empty.          *)
(***************************************************************************)
\* The descriptors behind the dummy of queue q, and those that t's caller holds
\* or is about to be handed.
Behind(ch, q) == {ch[q][i] : i \in 2 .. Len(ch[q])}
Held(t) ==
    (IF hand[t] # BADINDEX /\ pc[t] # "enq_swing" THEN {hand[t]} ELSE {})
      \cup (IF pc[t] \in PushAt /\ frame[t].back = "deq" THEN {frame[t].ret} ELSE {})
IsTaken(ch, n) == (\E q \in Queue : n \in Behind(ch, q)) \/ (\E t \in Thread : n \in Held(t))

\* What Taken finds.
LEMMA TakenIs == \A ch : Shape(ch) => \A n : n \in Taken <=> IsTaken(ch, n)
<1> SUFFICES ASSUME NEW ch, Shape(ch), NEW n PROVE n \in Taken <=> IsTaken(ch, n)
    OBVIOUS
<1>1. ASSUME NEW q \in Queue PROVE Nodes(Queued(q)) = Behind(ch, q)
  <2>1. PICK s : s = Tail(ch[q])
      OBVIOUS
  <2>2. s \in Seq(Node) /\ Len(s) = Len(ch[q]) - 1 /\ Queued(q) = s
          /\ \A i \in 1 .. Len(ch[q]) - 1 : s[i] = ch[q][i + 1]
      BY <2>1, QueuedTail
  <2>3. Len(ch[q]) \in Nat
      BY PlaceFacts, ChainTyped DEF Shape
  <2>4. PICK m \in Nat : m = Len(ch[q])
      BY <2>3
  <2>5. DOMAIN s = 1 .. m - 1
      BY <2>2, <2>4
  <2>6. Nodes(s) = {ch[q][i + 1] : i \in 1 .. m - 1}
      BY <2>2, <2>4, <2>5 DEF Nodes
  <2>7. ASSUME NEW i \in 1 .. m - 1 PROVE i + 1 \in 2 .. m
      BY <2>4
  <2>8. ASSUME NEW i \in 2 .. m PROVE i - 1 \in 1 .. m - 1 /\ (i - 1) + 1 = i
      BY <2>4
  <2> QED BY <2>2, <2>4, <2>6, <2>7, <2>8 DEF Behind
<1>2. n \in UNION {Nodes(Queued(q)) : q \in Queue} <=> \E q \in Queue : n \in Behind(ch, q)
    BY <1>1
<1>3. \A t \in Thread :
         n \in Held(t) <=> \/ hand[t] # BADINDEX /\ pc[t] # "enq_swing" /\ n = hand[t]
                          \/ /\ pc[t] \in {"push_count", "push_link", "push_cas"}
                             /\ frame[t].back = "deq" /\ n = frame[t].ret
    BY DEF Held, PushAt
<1>4. \/ n \in {hand[t] : t \in {u \in Thread : hand[u] # BADINDEX /\ pc[u] # "enq_swing"}}
      \/ n \in {frame[t].ret : t \in {u \in Thread : /\ pc[u] \in {"push_count", "push_link", "push_cas"}
                                                    /\ frame[u].back = "deq"}}
      <=> \E t \in Thread : n \in Held(t)
    BY <1>3
<1> QED BY <1>2, <1>4, Zenon DEF Taken, IsTaken

\* The same in the next state.
LEMMA TakenThen == \A ch : Shape(ch)' => \A n : n \in Taken' <=> IsTaken(ch, n)'
<1>1. (\A ch : Shape(ch) => \A n : n \in Taken <=> IsTaken(ch, n))'
    BY TakenIs, PTL
<1> QED BY <1>1

\* Only a thread that may call mig_dequeue holds a descriptor of its own that its
\* caller has not taken.
MayTake(t) ==
    \/ pc[t] \in DeqAt
    \/ pc[t] \in PopAt /\ frame[t].back = "deq"
    \/ pc[t] \in PushAt /\ hand[t] = BADINDEX
    => t \in Dequeuer

\* Every step keeps it.
LEMMA MayTakeStep ==
    ASSUME TInv, NEW t \in Thread, Call(t) \/ Access(t), NEW u \in Thread, MayTake(u)
    PROVE  MayTake(u)'
<1> USE DEF MayTake, PopAt, PushAt, DeqAt
<1>1. TypeOK /\ frame[t] \in Frame /\ Role(pc[t], frame[t], hand[t])
    BY DEF TInv, TypeOK, Roles
<1>2. CASE u # t
    BY <1>1, <1>2, StepLocal DEF Still
<1>3. CASE u = t /\ Call(t)
  <2> USE DEF TypeOK, Enter, Goto
  <2>1. CASE CallAlloc(t)
      BY <1>1, <1>3, <2>1 DEF CallAlloc
  <2>2. CASE CallFree(t)
      BY <1>1, <1>3, <2>2 DEF CallFree
  <2>3. CASE \E q \in Queue : CallEnqueue(t, q)
      BY <1>1, <1>3, <2>3 DEF CallEnqueue
  <2>4. CASE \E q \in Queue : CallDequeue(t, q)
    <3>1. t \in Dequeuer
        BY <2>4 DEF CallDequeue, Dequeuer
    <3> QED BY <1>3, <3>1
  <2>5. CASE \E q \in Queue, c \in Color : CallPaint(t, q, c)
      BY <1>1, <1>3, <2>5 DEF CallPaint
  <2> QED BY <1>3, <2>1, <2>2, <2>3, <2>4, <2>5 DEF Call
<1>4. CASE u = t /\ (PopTop(t) \/ PopNext(t) \/ PopCas(t))
  <2>1. CASE PopTop(t)
    <3>1. CASE frame[t].back = "deq"
        BY <1>4, <2>1, <3>1 DEF PopTop
    <3>2. CASE frame[t].back # "deq"
      <4>1. frame[t].back = "alloc"
          BY <1>1, <2>1, <3>2 DEF Role, PopTop
      <4>2. pc'[t] = "idle" \/ (pc'[t] = "pop_next" /\ frame'[t].back = "alloc")
            <5>1. CASE top.index = BADINDEX
            BY <1>1, <2>1, <4>1, <5>1 DEF TypeOK, Goto, Return, PopTop
        <5>2. CASE top.index # BADINDEX
          <6>1. frame' = [frame EXCEPT ![t] = [frame[t] EXCEPT !.top = top]] /\ pc'[t] = "pop_next"
              BY <1>1, <2>1, <5>2 DEF TypeOK, Goto, PopTop
          <6> QED BY <1>1, <4>1, <6>1 DEF TypeOK, Frame
        <5> QED BY <5>1, <5>2
      <4> QED BY <1>4, <3>2, <4>2
    <3> QED BY <3>1, <3>2
  <2>2. CASE PopNext(t)
      BY <1>1, <1>4, <2>2 DEF TypeOK, Goto, PopNext
  <2>3. CASE PopCas(t)
    <3>1. CASE frame[t].back = "deq"
        BY <1>4, <2>3, <3>1 DEF PopCas
    <3>2. CASE frame[t].back # "deq"
      <4>1. frame[t].back = "alloc"
          BY <1>1, <2>3, <3>2 DEF Role, PopCas
      <4>2. pc'[t] = "idle" \/ (pc'[t] = "pop_top" /\ frame'[t] = frame[t])
          BY <1>1, <2>3, <4>1 DEF TypeOK, Goto, Return, PopCas
      <4> QED BY <1>4, <3>2, <4>2
    <3> QED BY <3>1, <3>2
  <2> QED BY <1>4, <2>1, <2>2, <2>3
<1>5. CASE u = t /\ (PushCount(t) \/ PushLink(t) \/ PushCas(t))
    BY <1>1, <1>5 DEF TypeOK, Role, Goto, Return, EmptyFrame, PushCount, PushLink, PushCas
<1>6. CASE u = t /\ (EnqTail(t) \/ EnqNext(t) \/ EnqCheck(t) \/ EnqLink(t) \/ EnqHelp(t) \/ EnqSwing(t))
    BY <1>1, <1>6 DEF TypeOK, Goto, Restart, Return, EmptyFrame, EnqTail, EnqNext, EnqCheck, EnqLink,
       EnqHelp, EnqSwing
<1>7. CASE u = t /\ (DeqHead(t) \/ DeqTail(t) \/ DeqNext(t) \/ DeqCheck(t) \/ DeqEmpty(t) \/ DeqHelp(t)
                       \/ DeqCopy(t) \/ DeqCas(t))
  <2>1. t \in Dequeuer
      BY <1>7 DEF DeqHead, DeqTail, DeqNext, DeqCheck, DeqEmpty, DeqHelp, DeqCopy, DeqCas
  <2> QED BY <1>7, <2>1
<1>8. CASE u = t /\ (PaintHead(t) \/ PaintTail(t) \/ PaintNext(t) \/ PaintCheck(t) \/ PaintCas(t) \/ PaintBusy(t))
    BY <1>1, <1>8 DEF TypeOK, Goto, Restart, Return, EmptyFrame, PaintHead, PaintTail, PaintNext,
       PaintCheck, PaintCas, PaintBusy
<1> QED BY <1>2, <1>3, <1>4, <1>5, <1>6, <1>7, <1>8 DEF Access

\* Where an assertion of the code can fail.
LEMMA BugStep ==
    ASSUME TInv, NEW t \in Thread, Call(t) \/ Access(t), pc[t] # "bug", pc'[t] = "bug"
    PROVE  \/ pc[t] = "pop_top" /\ top.index = BADINDEX /\ frame[t].back = "deq"
           \/ /\ pc[t] = "deq_check" /\ frame[t].head = head[frame[t].queue]
              /\ DeqBranch(frame[t]) = "bug"
<1>1. TypeOK /\ frame[t] \in Frame /\ Role(pc[t], frame[t], hand[t])
    BY DEF TInv, TypeOK, Roles
<1>2. CASE PopTop(t)
    BY <1>1, <1>2 DEF PopTop, TypeOK, Role, PopAt, Goto, Return
<1>3. CASE DeqCheck(t)
    BY <1>1, <1>3 DEF DeqCheck, TypeOK, Goto, Restart
<1>4. CASE Call(t)
    BY <1>1, <1>4 DEF TypeOK, Goto, Enter, Call, CallAlloc, CallFree, CallEnqueue, CallDequeue, CallPaint
<1>5. CASE PopNext(t) \/ PopCas(t) \/ PushCount(t) \/ PushLink(t) \/ PushCas(t)
    BY <1>1, <1>5 DEF TypeOK, Goto, Return, PopNext, PopCas, PushCount, PushLink, PushCas
<1>6. CASE EnqTail(t) \/ EnqNext(t) \/ EnqCheck(t) \/ EnqLink(t) \/ EnqHelp(t) \/ EnqSwing(t)
    BY <1>1, <1>6 DEF TypeOK, Goto, Return, EnqTail, EnqNext, EnqCheck, EnqLink, EnqHelp, EnqSwing
<1>7. CASE DeqHead(t) \/ DeqTail(t) \/ DeqNext(t) \/ DeqEmpty(t) \/ DeqHelp(t) \/ DeqCopy(t) \/ DeqCas(t)
    BY <1>1, <1>7 DEF TypeOK, Goto, Return, DeqHead, DeqTail, DeqNext, DeqEmpty, DeqHelp, DeqCopy, DeqCas
<1>8. CASE PaintHead(t) \/ PaintTail(t) \/ PaintNext(t) \/ PaintCheck(t) \/ PaintCas(t) \/ PaintBusy(t)
    BY <1>1, <1>8 DEF TypeOK, Goto, Return, PaintHead, PaintTail, PaintNext, PaintCheck, PaintCas, PaintBusy
<1> QED BY <1>2, <1>3, <1>4, <1>5, <1>6, <1>7, <1>8 DEF Access

\* The one descriptor a thread may hold that its caller has not taken: a replica,
\* or the old head.
Spare(t) == IF pc[t] \in PushAt THEN frame[t].desc ELSE frame[t].ret

\* With the freelist empty, every descriptor is a dummy, is taken, or is held by a
\* thread in mig_dequeue.
LEMMA EmptyFreelist ==
    ASSUME TInv, NoBug, NEW ch, NEW tg, Good(ch, tg), \A u \in Thread : MayTake(u),
           top.index = BADINDEX, NEW n \in Node
    PROVE  \/ \E q \in Queue : n = head[q].index
           \/ n \in Taken
           \/ \E u \in Dequeuer : pc[u] \in DeqAt \cup PushAt /\ n = Spare(u)
<1>1. Shape(ch) /\ Linked(ch) /\ Anchored(ch) /\ Apart(ch)
    BY DEF Good, Shape
<1>2. CASE n \in In(ch)
  <2>1. PICK p \in Place : \E i \in 1 .. Len(ch[p]) : ch[p][i] = n
      BY <1>2 DEF In
  <2>2. PICK i \in 1 .. Len(ch[p]) : ch[p][i] = n
      BY <2>1
  <2>3. Len(ch[p]) \in Nat
      BY <1>1, ChainTyped
  <2>4. p # 0
    <3> SUFFICES ASSUME p = 0 PROVE FALSE
        OBVIOUS
    <3>1. 1 \in 1 .. Len(ch[0]) /\ Len(ch[0]) > 0
        BY <2>3
    <3>2. top.index = ch[0][1] /\ ch[0][1] \in Node
        BY <1>1, <3>1, ChainTyped, PlaceFacts DEF Anchored
    <3> QED BY <3>2, NodeFacts
  <2>5. p \in Queue
      BY <2>4, PlaceFacts
  <2>6. CASE i = 1
      BY <1>1, <2>2, <2>5, <2>6 DEF Anchored
  <2>7. CASE i # 1
    <3>1. i \in 2 .. Len(ch[p])
        BY <2>3, <2>7
    <3>2. n \in Behind(ch, p)
        BY <2>2, <3>1 DEF Behind
    <3> QED BY <1>1, <2>5, <3>2, TakenIs DEF IsTaken
  <2> QED BY <2>6, <2>7
<1>3. CASE \E u \in Thread : n \in Owned(u)
  <2>1. PICK u \in Thread : n \in Owned(u)
      BY <1>3
  <2>2. Role(pc[u], frame[u], hand[u]) /\ MayTake(u) /\ pc[u] \in Labels /\ pc[u] # "bug" /\ n # BADINDEX
      BY NodeFacts DEF TInv, TypeOK, Roles, NoBug
  <2>3. \/ hand[u] # BADINDEX /\ pc[u] # "enq_swing" /\ n = hand[u]
        \/ n = frame[u].ret
        \/ pc[u] \in PushAt /\ n = frame[u].desc
      BY <2>1, <2>2 DEF Owned, PushAt
  <2>4. n \in Held(u) => n \in Taken
      BY <1>1, TakenIs DEF IsTaken
  <2>5. CASE hand[u] # BADINDEX /\ pc[u] # "enq_swing" /\ n = hand[u]
      BY <2>4, <2>5 DEF Held
  <2>6. CASE n = frame[u].ret
    <3>1. pc[u] \in PushAt \cup DeqAt
        BY <2>2, <2>6 DEF Role, Labels, PopAt, PushAt, EnqAt, DeqAt, PaintAt
    <3>2. CASE pc[u] \in PushAt
      <4>1. frame[u].back = "deq"
          BY <2>2, <2>6, <3>2 DEF Role
      <4> QED BY <2>4, <2>6, <3>2, <4>1 DEF Held
    <3>3. CASE pc[u] \in DeqAt
      <4>1. u \in Dequeuer /\ n = Spare(u)
          BY <2>2, <2>6, <3>3 DEF MayTake, Spare, DeqAt, PushAt
      <4> QED BY <3>3, <4>1
    <3> QED BY <3>1, <3>2, <3>3
  <2>7. CASE pc[u] \in PushAt /\ n = frame[u].desc
    <3>1. CASE hand[u] = BADINDEX
        BY <2>2, <2>7, <3>1 DEF MayTake, Spare
    <3>2. CASE hand[u] # BADINDEX
      <4>1. hand[u] = n /\ pc[u] # "enq_swing"
          BY <2>2, <2>7, <3>2 DEF Role, PushAt
      <4> QED BY <2>4, <3>2, <4>1 DEF Held
    <3> QED BY <3>1, <3>2
  <2> QED BY <2>3, <2>5, <2>6, <2>7
<1> QED BY <1>1, <1>2, <1>3 DEF Apart

\* A set indexed by another has no more elements.
LEMMA ImageBound ==
    ASSUME NEW S, IsFiniteSet(S), NEW f
    PROVE  /\ IsFiniteSet({f[x] : x \in S})
           /\ Cardinality({f[x] : x \in S}) \in Nat
           /\ Cardinality({f[x] : x \in S}) <= Cardinality(S)
<1>1. PICK T : T = {f[x] : x \in S}
    OBVIOUS
<1>2. [x \in S |-> f[x]] \in Surjection(S, T)
    BY <1>1 DEF Surjection
<1>3. IsFiniteSet(T) /\ Cardinality(T) <= Cardinality(S)
    BY <1>2, FS_Surjection
<1>4. Cardinality(T) \in Nat
    BY <1>3, FS_CardinalityType
<1> QED BY <1>1, <1>3, <1>4

\* The sum of two.
LEMMA UnionBound ==
    ASSUME NEW S, NEW T, IsFiniteSet(S), IsFiniteSet(T)
    PROVE  /\ IsFiniteSet(S \cup T)
           /\ Cardinality(S) \in Nat /\ Cardinality(T) \in Nat /\ Cardinality(S \cup T) \in Nat
           /\ Cardinality(S \cup T) <= Cardinality(S) + Cardinality(T)
<1>1. IsFiniteSet(S \cup T)
        /\ Cardinality(S \cup T) = Cardinality(S) + Cardinality(T) - Cardinality(S \cap T)
    BY FS_Union
<1>2. IsFiniteSet(S \cap T)
    BY FS_Intersection
<1>3. /\ Cardinality(S) \in Nat /\ Cardinality(T) \in Nat /\ Cardinality(S \cap T) \in Nat
      /\ Cardinality(S \cup T) \in Nat
    BY <1>1, <1>2, FS_CardinalityType
<1> QED BY <1>1, <1>3

\* What is taken are descriptors.
LEMMA TakenNodes ==
    ASSUME TInv, NEW ch, Shape(ch)
    PROVE  Taken \subseteq Node /\ IsFiniteSet(Taken) /\ Cardinality(Taken) \in Nat
<1>1. ASSUME NEW n, IsTaken(ch, n) PROVE n \in Node
  <2>1. CASE \E q \in Queue : n \in Behind(ch, q)
    <3>1. PICK q \in Queue : n \in Behind(ch, q)
        BY <2>1
    <3>2. PICK i \in 2 .. Len(ch[q]) : n = ch[q][i]
        BY <3>1 DEF Behind
    <3>3. q \in Place /\ Linked(ch)
        BY PlaceFacts DEF Shape
    <3>4. Len(ch[q]) \in Nat
        BY <3>3, ChainTyped
    <3>5. i \in 1 .. Len(ch[q])
        BY <3>4
    <3> QED BY <3>2, <3>3, <3>5, ChainTyped
  <2>2. CASE \E t \in Thread : n \in Held(t)
    <3>1. PICK t \in Thread : n \in Held(t)
        BY <2>2
    <3>2. Role(pc[t], frame[t], hand[t]) /\ frame[t] \in Frame /\ hand[t] \in Index
        BY DEF TInv, TypeOK, Roles
    <3>3. n \in Index /\ n # BADINDEX
        BY <3>1, <3>2 DEF Held, Role, Frame
    <3> QED BY <3>3, NodeFacts
  <2> QED BY <1>1, <2>1, <2>2 DEF IsTaken
<1>2. Taken \subseteq Node
    BY <1>1, TakenIs
<1>3. IsFiniteSet(Node)
    BY NodeFacts, FS_Interval DEF Node
<1>4. IsFiniteSet(Taken)
    BY <1>2, <1>3, FS_Subset
<1> QED BY <1>2, <1>4, FS_CardinalityType

\* As long as the callers leave a reserve, a thread in mig_dequeue finds a free
\* descriptor.
LEMMA ReserveFound ==
    ASSUME IsFiniteSet(Thread), TInv, NoBug, NEW ch, NEW tg, Good(ch, tg),
           \A u \in Thread : MayTake(u), Reserve,
           NEW t \in Thread, pc[t] = "pop_top", frame[t].back = "deq"
    PROVE  top.index # BADINDEX
<1> SUFFICES ASSUME top.index = BADINDEX PROVE FALSE
    OBVIOUS
<1> DEFINE H == {head[q].index : q \in Queue}
           D == Dequeuer \ {t}
           sp == [u \in Thread |-> Spare(u)]
           P == {sp[u] : u \in D}
<1>1. t \in Dequeuer /\ D \subseteq Thread
    BY DEF MayTake, PopAt, Dequeuer
<1>2. IsFiniteSet(Dequeuer) /\ IsFiniteSet(D) /\ Cardinality(Dequeuer) \in Nat
        /\ Cardinality(D) = Cardinality(Dequeuer) - 1
  <2>1. IsFiniteSet(Dequeuer)
      BY FS_Subset DEF Dequeuer
  <2> QED BY <1>1, <2>1, FS_RemoveElement, FS_CardinalityType
<1>3. IsFiniteSet(P) /\ Cardinality(P) \in Nat /\ Cardinality(P) <= Cardinality(D)
    BY <1>2, ImageBound
<1>4. IsFiniteSet(H) /\ Cardinality(H) \in Nat /\ Cardinality(H) <= Len(QueueColor)
  <2>1. Len(QueueColor) \in Nat
      BY QueueAssumption
  <2>2. IsFiniteSet(Queue) /\ Cardinality(Queue) = Len(QueueColor)
    <3>1. PICK m \in Nat : m = Len(QueueColor)
        BY <2>1
    <3>2. IsFiniteSet(1 .. m) /\ Cardinality(1 .. m) = IF 1 > m THEN 0 ELSE m - 1 + 1
        BY FS_Interval
    <3> QED BY <3>1, <3>2 DEF Queue
  <2>3. PICK f : f = [q \in Queue |-> head[q].index]
      OBVIOUS
  <2>4. H = {f[q] : q \in Queue}
      BY <2>3
  <2>5. /\ IsFiniteSet({f[q] : q \in Queue}) /\ Cardinality({f[q] : q \in Queue}) \in Nat
        /\ Cardinality({f[q] : q \in Queue}) <= Cardinality(Queue)
      BY <2>2, ImageBound
  <2> HIDE DEF H
  <2> QED BY <2>2, <2>4, <2>5
<1>5. Taken \subseteq Node /\ IsFiniteSet(Taken) /\ Cardinality(Taken) \in Nat
    BY TakenNodes DEF Good
<1>6. Node \subseteq (H \cup Taken) \cup P
  <2> SUFFICES ASSUME NEW n \in Node, n \notin H, n \notin Taken PROVE n \in P
      OBVIOUS
  <2>1. PICK u \in Dequeuer : pc[u] \in DeqAt \cup PushAt /\ n = Spare(u)
      BY EmptyFreelist
  <2>2. u # t
      BY <2>1 DEF DeqAt, PushAt
  <2>3. u \in D /\ u \in Thread
      BY <2>2 DEF Dequeuer
  <2> QED BY <2>1, <2>3
<1>7. Cardinality(Node) = NDescs /\ NDescs \in Nat
  <2>1. NDescs \in Nat /\ 0 < NDescs
      BY QueueAssumption
  <2> QED BY <2>1, FS_Interval DEF Node
<1> HIDE DEF H, D, P, sp
<1>8. /\ IsFiniteSet(H \cup Taken) /\ Cardinality(H \cup Taken) \in Nat
      /\ Cardinality(H \cup Taken) <= Cardinality(H) + Cardinality(Taken)
    BY <1>4, <1>5, UnionBound
<1>9. /\ IsFiniteSet((H \cup Taken) \cup P) /\ Cardinality((H \cup Taken) \cup P) \in Nat
      /\ Cardinality((H \cup Taken) \cup P) <= Cardinality(H \cup Taken) + Cardinality(P)
    BY <1>3, <1>8, UnionBound
<1>10. Cardinality(Node) <= Cardinality((H \cup Taken) \cup P)
    BY <1>6, <1>9, FS_Subset
<1>11. Len(QueueColor) \in Nat /\ Len(QueueColor) + Cardinality(Taken) + Cardinality(Dequeuer) <= NDescs
    BY QueueAssumption DEF Reserve
<1> QED BY <1>2, <1>3, <1>4, <1>5, <1>7, <1>8, <1>9, <1>10, <1>11

\* No assertion fails, in a step.
BugInv == PlaceInv /\ NoBug /\ \A t \in Thread : MayTake(t)

\* It holds at first,
LEMMA BugInit == Init /\ LagInit => BugInv
<1> SUFFICES ASSUME Init, LagInit PROVE BugInv
    OBVIOUS
<1>1. \A t \in Thread : pc[t] = "idle"
    BY DEF Init
<1>2. NoBug /\ \A t \in Thread : MayTake(t)
    BY <1>1 DEF NoBug, MayTake, DeqAt, PopAt, PushAt
<1> QED BY <1>2, PlaceInit DEF BugInv

\* and every step that finds the reserve keeps it.
LEMMA BugNext ==
    ASSUME IsFiniteSet(Thread)
    PROVE  BugInv /\ Reserve /\ Timely /\ Timely' /\ ~strayed' /\ [Next /\ LagNext]_<<vars, lags>>
             => BugInv'
<1> SUFFICES ASSUME BugInv, Reserve, Timely, Timely', ~strayed', [Next /\ LagNext]_<<vars, lags>>
             PROVE  BugInv'
    OBVIOUS
<1>1. PlaceInv'
    BY PlaceNext DEF BugInv
<1>2. CASE Next /\ LagNext
  <2>1. PICK t \in Thread : Call(t) \/ Access(t)
      BY <1>2 DEF Next
  <2>2. PICK ch, tg : Good(ch, tg)
      BY DEF BugInv, PlaceInv
  <2>3. TInv /\ TypeOK /\ AssertionHolds
      BY AssertionFromPlace DEF BugInv, PlaceInv, TInv
  <2>4. \A u \in Thread : MayTake(u)'
      BY <2>1, <2>3, MayTakeStep DEF BugInv
  <2>5. pc'[t] # "bug"
    <3> SUFFICES ASSUME pc'[t] = "bug" PROVE FALSE
        OBVIOUS
    <3>1. \/ pc[t] = "pop_top" /\ top.index = BADINDEX /\ frame[t].back = "deq"
          \/ /\ pc[t] = "deq_check" /\ frame[t].head = head[frame[t].queue]
             /\ DeqBranch(frame[t]) = "bug"
        BY <2>1, <2>3, BugStep DEF BugInv, NoBug
    <3> QED BY <2>2, <2>3, <3>1, ReserveFound DEF BugInv, AssertionHolds
  <2>6. \A u \in Thread : pc'[u] # "bug"
      BY <2>1, <2>3, <2>5, StepLocal DEF BugInv, NoBug, Still
  <2> QED BY <1>1, <2>4, <2>6 DEF BugInv, NoBug
<1>3. CASE UNCHANGED <<vars, lags>>
    BY <1>1, <1>3 DEF vars, BugInv, NoBug, MayTake
<1> QED BY <1>2, <1>3

\* Until a swap strays no assertion of the code fails: mig_dequeue finds a successor
\* behind a head that is not the tail, and as long as the callers leave a descriptor for every thread
\* that may be in mig_dequeue, it finds a free one for its replica.
THEOREM ReserveSuffices ==
    ASSUME IsFiniteSet(Thread)
    PROVE  LagSpec /\ []Timely /\ []Reserve => [](strayed \/ NoBug)
<1>1. BugInv => NoBug
    BY DEF BugInv
<1>2. (strayed \/ BugInv) /\ Reserve /\ Timely /\ Timely' /\ [Next /\ LagNext]_<<vars, lags>>
        => (strayed \/ BugInv)'
    BY BugNext, StrayStays
<1> QED BY <1>1, <1>2, BugInit, PTL DEF LagSpec
-----------------------------------------------------------------------------
(***************************************************************************)
(* The requests.  A descriptor is taken by the swap of freelist_remove and *)
(* given back by that of freelist_add; the swap of mig_dequeue exchanges   *)
(* one for its replica, which holds a copy of the same request.            *)
(***************************************************************************)
\* What a thread at label l, with frame f and d in its caller's hands, holds for its
\* caller.
Has(l, f, d, n) ==
    \/ d # BADINDEX /\ l # "enq_swing" /\ n = d
    \/ l \in PushAt /\ f.back = "deq" /\ n = f.ret

\* It is what Held says,
LEMMA HeldHas == \A t \in Thread : \A n : n \in Held(t) <=> Has(pc[t], frame[t], hand[t], n)
BY DEF Held, Has

\* and what it says in the next state.
LEMMA HeldTo ==
    ASSUME TypeOK, NEW t \in Thread, NEW l, NEW f, NEW d, To(t, l, f, d), NEW n
    PROVE  n \in Held(t)' <=> Has(l, f, d, n)
<1>1. pc'[t] = l /\ frame'[t] = f /\ hand'[t] = d
    BY ToFacts
<1>2. n \in Held(t)' <=> \/ hand'[t] # BADINDEX /\ pc'[t] # "enq_swing" /\ n = hand'[t]
                         \/ pc'[t] \in PushAt /\ frame'[t].back = "deq" /\ n = frame'[t].ret
    BY DEF Held
<1> QED BY <1>1, <1>2 DEF Has

\* A caller of freelist_remove gets a descriptor; a caller of freelist_add gives one up.
Fills(t) == PopCas(t) /\ top = frame[t].top /\ frame[t].back = "alloc"
Frees(t) == PushCas(t) /\ top = frame[t].top /\ hand[t] = frame[t].desc

\* What becomes of it in a step of t.
HeldThen(t, n) ==
    \/ Fills(t) /\ n = frame[t].top.index
    \/ Takes(t) /\ n = frame[t].ret
    \/ ~Fills(t) /\ ~Takes(t) /\ ~Links(t) /\ ~Frees(t) /\ n \in Held(t)

\* The thread's own step; a caller that is given a descriptor held none before.
LEMMA HeldStep ==
    ASSUME TInv, NEW t \in Thread, Call(t) \/ Access(t)
    PROVE  /\ \A n : n \in Held(t)' <=> HeldThen(t, n)
           /\ Fills(t) \/ Takes(t) => Held(t) = {}
           /\ Links(t) \/ Frees(t) => Held(t) = {frame[t].desc}
<1> DEFINE f == frame[t]
<1>1. TypeOK /\ f \in Frame /\ Role(pc[t], f, hand[t]) /\ hand[t] \in Index /\ Fields(f)
    BY HoldFields DEF TInv, TypeOK, Roles
<1>2. \A n : n \in Held(t) <=> Has(pc[t], f, hand[t], n)
    BY HeldHas
<1>3. CASE Call(t)
  <2>1. pc[t] = "idle" /\ ~Fills(t) /\ ~Takes(t) /\ ~Links(t) /\ ~Frees(t)
      BY <1>1, <1>3, CallEffect DEF Fills, Takes, Links, Frees, PopCas, DeqCas, EnqLink, PushCas
  <2>2. \A n : n \in Held(t)' <=> n \in Held(t)
    <3>1. PICK l, g : /\ To(t, l, g, hand[t]) /\ l # "enq_swing" /\ (l \in PushAt => g.back # "deq")
      <4>1. [EmptyFrame EXCEPT !.desc = hand[t], !.back = "free"].back = "free"
          BY DEF EmptyFrame
      <4>2. CASE \E g : To(t, "pop_top", g, hand[t])
          BY <4>2 DEF PushAt
      <4>3. CASE To(t, "push_count", [EmptyFrame EXCEPT !.desc = hand[t], !.back = "free"], hand[t])
          BY <4>1, <4>3
      <4>4. CASE \E g : To(t, "enq_tail", g, hand[t])
          BY <4>4 DEF PushAt
      <4>5. CASE \E g : To(t, "deq_head", g, hand[t])
          BY <4>5 DEF PushAt
      <4>6. CASE \E g : To(t, "paint_head", g, hand[t])
          BY <4>6 DEF PushAt
      <4> QED BY <1>1, <1>3, <4>2, <4>3, <4>4, <4>5, <4>6, CallEffect
    <3>2. \A n : n \in Held(t)' <=> Has(l, g, hand[t], n)
        BY <1>1, <3>1, HeldTo
    <3> QED BY <1>2, <2>1, <3>1, <3>2 DEF Has, PushAt
  <2> QED BY <2>1, <2>2 DEF HeldThen
<1>4. CASE PopCas(t)
  <2>1. pc[t] = "pop_cas" /\ ~Takes(t) /\ ~Links(t) /\ ~Frees(t) /\ hand[t] = BADINDEX
        /\ f.back \in {"alloc", "deq"}
      BY <1>1, <1>4 DEF Takes, Links, Frees, PopCas, DeqCas, EnqLink, PushCas, Role, PopAt
  <2>2. Held(t) = {}
      BY <1>2, <2>1 DEF Has, PushAt
  <2>3. CASE Fills(t)
    <3>1. To(t, "idle", EmptyFrame, f.top.index) /\ f.top.index # BADINDEX
        BY <1>1, <1>4, <2>1, <2>3, PopCasEffect DEF Fills, Role
    <3>2. \A n : n \in Held(t)' <=> n = f.top.index
        BY <1>1, <3>1, HeldTo DEF Has, PushAt
    <3> QED BY <2>1, <2>2, <2>3, <3>2 DEF HeldThen
  <2>4. CASE ~Fills(t)
    <3>1. PICK l, g : To(t, l, g, hand[t]) /\ l \in {"pop_top", "deq_copy"}
        BY <1>1, <1>4, <2>1, <2>4, PopCasEffect DEF Fills
    <3>2. \A n : n \notin Held(t)'
        BY <1>1, <2>1, <3>1, HeldTo DEF Has, PushAt
    <3> QED BY <2>1, <2>2, <2>4, <3>2 DEF HeldThen
  <2> QED BY <2>3, <2>4
<1>5. CASE PushCas(t)
  <2>1. pc[t] = "push_cas" /\ ~Fills(t) /\ ~Takes(t) /\ ~Links(t)
        /\ f.desc # BADINDEX /\ f.back \in {"free", "deq"}
        /\ (f.back = "free" => hand[t] \in {f.desc, BADINDEX})
        /\ (f.back = "deq" => hand[t] = BADINDEX /\ f.ret # BADINDEX)
      BY <1>1, <1>5 DEF Fills, Takes, Links, PopCas, DeqCas, EnqLink, PushCas, Role, PushAt
  <2>2. CASE top # f.top
    <3>1. To(t, "push_link", f, hand[t]) /\ ~Frees(t)
        BY <1>1, <1>5, <2>2, PushCasEffect DEF Frees
    <3>2. \A n : n \in Held(t)' <=> n \in Held(t)
        BY <1>1, <1>2, <2>1, <3>1, HeldTo DEF Has, PushAt
    <3> QED BY <2>1, <3>1, <3>2 DEF HeldThen
  <2>3. CASE top = f.top
    <3>1. PICK d : To(t, "idle", EmptyFrame, d) /\ d = IF f.back = "deq" THEN f.ret ELSE BADINDEX
        BY <1>1, <1>5, <2>3, PushCasEffect
    <3>2. \A n : n \in Held(t)' <=> (d # BADINDEX /\ n = d)
        BY <1>1, <3>1, HeldTo DEF Has, PushAt
    <3>3. \A n : n \in Held(t) <=> \/ hand[t] # BADINDEX /\ n = hand[t]
                                   \/ f.back = "deq" /\ n = f.ret
        BY <1>2, <2>1 DEF Has, PushAt
    <3>4. Frees(t) <=> hand[t] = f.desc
        BY <1>5, <2>3 DEF Frees
    <3>5. CASE Frees(t)
      <4>1. f.back = "free" /\ hand[t] = f.desc
          BY <2>1, <3>4, <3>5
      <4>2. Held(t) = {f.desc}
          BY <2>1, <3>3, <4>1
      <4> QED BY <2>1, <3>1, <3>2, <3>5, <4>1, <4>2 DEF HeldThen
    <3>6. CASE ~Frees(t)
      <4>1. hand[t] = BADINDEX
          BY <2>1, <3>4, <3>6
      <4> QED BY <2>1, <3>1, <3>2, <3>3, <3>6, <4>1 DEF HeldThen
    <3> QED BY <3>5, <3>6
  <2> QED BY <2>2, <2>3
<1>6. CASE EnqLink(t)
  <2>1. pc[t] = "enq_link" /\ ~Fills(t) /\ ~Takes(t) /\ ~Frees(t) /\ hand[t] = f.desc /\ f.desc # BADINDEX
      BY <1>1, <1>6 DEF Fills, Takes, Frees, PopCas, DeqCas, EnqLink, PushCas, Role, EnqAt
  <2>2. Held(t) = {f.desc}
      BY <1>2, <2>1 DEF Has, PushAt
  <2>3. CASE Links(t)
    <3>1. To(t, "enq_swing", f, hand[t])
        BY <1>1, <1>6, <2>3, EnqLinkEffect DEF Links, LinkMatches
    <3>2. \A n : n \notin Held(t)'
        BY <1>1, <3>1, HeldTo DEF Has, PushAt
    <3> QED BY <2>1, <2>2, <2>3, <3>2 DEF HeldThen
  <2>4. CASE ~Links(t)
    <3>1. PICK g : To(t, "enq_tail", g, hand[t])
        BY <1>1, <1>6, <2>4, EnqLinkEffect DEF Links, LinkMatches
    <3>2. \A n : n \in Held(t)' <=> n \in Held(t)
        BY <1>1, <2>1, <2>2, <3>1, HeldTo DEF Has, PushAt
    <3> QED BY <2>1, <2>4, <3>2 DEF HeldThen
  <2> QED BY <2>3, <2>4
<1>7. CASE DeqCas(t)
  <2>1. pc[t] = "deq_cas" /\ ~Fills(t) /\ ~Links(t) /\ ~Frees(t) /\ hand[t] = BADINDEX /\ f.ret # BADINDEX
      BY <1>1, <1>7 DEF Fills, Links, Frees, PopCas, DeqCas, EnqLink, PushCas, Role, DeqAt
  <2>2. Held(t) = {}
      BY <1>2, <2>1 DEF Has, PushAt
  <2>3. CASE Takes(t)
    <3>1. PICK g : To(t, "push_count", g, hand[t]) /\ g.back = "deq" /\ g.ret = f.ret
      <4>1. PICK g : g = [EmptyFrame EXCEPT !.ret = f.ret, !.desc = f.head.index, !.back = "deq"]
          OBVIOUS
      <4>2. g.back = "deq" /\ g.ret = f.ret
          BY <4>1 DEF EmptyFrame
      <4>3. To(t, "push_count", g, hand[t])
          BY <1>1, <1>7, <2>3, <4>1, DeqCasEffect DEF Takes
      <4> QED BY <4>2, <4>3
    <3>2. \A n : n \in Held(t)' <=> n = f.ret
        BY <1>1, <2>1, <3>1, HeldTo DEF Has, PushAt
    <3> QED BY <2>1, <2>2, <2>3, <3>2 DEF HeldThen
  <2>4. CASE ~Takes(t)
    <3>1. PICK g : To(t, "deq_head", g, hand[t])
        BY <1>1, <1>7, <2>4, DeqCasEffect DEF Takes
    <3>2. \A n : n \notin Held(t)'
        BY <1>1, <2>1, <3>1, HeldTo DEF Has, PushAt
    <3> QED BY <2>1, <2>2, <2>4, <3>2 DEF HeldThen
  <2> QED BY <2>3, <2>4
<1>8. CASE Access(t) /\ ~PopCas(t) /\ ~PushCas(t) /\ ~EnqLink(t) /\ ~DeqCas(t)
  <2>1. ~Fills(t) /\ ~Takes(t) /\ ~Links(t) /\ ~Frees(t)
      BY <1>8 DEF Fills, Takes, Links, Frees
  <2> SUFFICES ASSUME NEW n PROVE n \in Held(t)' <=> n \in Held(t)
      BY <2>1 DEF HeldThen
  <2> USE DEF Has, PushAt, PopAt, EnqAt, DeqAt, Role
  <2>2. CASE PopTop(t) \/ PopNext(t)
    <3>1. pc[t] \in {"pop_top", "pop_next"} /\ hand[t] = BADINDEX
        BY <1>1, <2>2 DEF PopTop, PopNext
    <3>2. n \notin Held(t)
        BY <1>2, <3>1
    <3>3. PICK l, g : To(t, l, g, BADINDEX) /\ l \notin PushAt
      <4>1. CASE PopTop(t)
        <5>1. CASE To(t, "pop_next", [f EXCEPT !.top = top], hand[t])
            BY <3>1, <5>1
        <5>2. CASE To(t, "idle", EmptyFrame, BADINDEX)
            BY <5>2
        <5>3. CASE To(t, "bug", f, hand[t])
            BY <3>1, <5>3
        <5> QED BY <1>1, <4>1, <5>1, <5>2, <5>3, PopTopEffect
      <4>2. CASE PopNext(t)
        <5>1. To(t, "pop_cas", [f EXCEPT !.new = next[f.top.index]], hand[t])
            BY <1>1, <4>2, PopNextEffect
        <5> QED BY <3>1, <5>1
      <4> QED BY <2>2, <4>1, <4>2
    <3> QED BY <1>1, <3>2, <3>3, HeldTo
  <2>3. CASE PushCount(t) \/ PushLink(t)
    <3>1. PICK l, g : To(t, l, g, hand[t]) /\ l \in PushAt /\ g.back = f.back /\ g.ret = f.ret
      <4>1. CASE PushCount(t)
        <5>1. PICK c : To(t, "push_link", [f EXCEPT !.new = c], hand[t])
            BY <1>1, <4>1, PushCountEffect
        <5> QED BY <1>1, <5>1 DEF Frame
      <4>2. CASE PushLink(t)
        <5>1. To(t, "push_cas", [f EXCEPT !.top = top], hand[t])
            BY <1>1, <4>2, PushLinkEffect
        <5> QED BY <1>1, <5>1 DEF Frame
      <4> QED BY <2>3, <4>1, <4>2
    <3>2. pc[t] \in PushAt
        BY <2>3 DEF PushCount, PushLink
    <3>3. n \in Held(t)' <=> Has(l, g, hand[t], n)
        BY <1>1, <3>1, HeldTo
    <3> QED BY <1>2, <3>1, <3>2, <3>3
  <2>4. CASE EnqTail(t) \/ EnqNext(t) \/ EnqCheck(t) \/ EnqHelp(t)
    <3>1. PICK l, g : To(t, l, g, hand[t]) /\ l \in EnqAt /\ l # "enq_swing"
        BY <1>1, <2>4, EnqTailEffect, EnqNextEffect, EnqCheckEffect, EnqHelpEffect
    <3>2. pc[t] \in EnqAt /\ pc[t] # "enq_swing"
        BY <2>4 DEF EnqTail, EnqNext, EnqCheck, EnqHelp
    <3>3. n \in Held(t)' <=> Has(l, g, hand[t], n)
        BY <1>1, <3>1, HeldTo
    <3> QED BY <1>2, <3>1, <3>2, <3>3
  <2>5. CASE EnqSwing(t)
    <3>1. To(t, "idle", EmptyFrame, BADINDEX) /\ pc[t] = "enq_swing"
        BY <1>1, <2>5, EnqSwingEffect DEF EnqSwing
    <3>2. n \in Held(t)' <=> Has("idle", EmptyFrame, BADINDEX, n)
        BY <1>1, <3>1, HeldTo
    <3> QED BY <1>2, <3>1, <3>2
  <2>6. CASE DeqHead(t) \/ DeqTail(t) \/ DeqNext(t) \/ DeqCheck(t) \/ DeqEmpty(t) \/ DeqHelp(t) \/ DeqCopy(t)
    <3>1. pc[t] \in DeqAt /\ hand[t] = BADINDEX
        BY <1>1, <2>6 DEF DeqHead, DeqTail, DeqNext, DeqCheck, DeqEmpty, DeqHelp, DeqCopy
    <3>2. n \notin Held(t)
        BY <1>2, <3>1
    <3>3. PICK l, g : To(t, l, g, BADINDEX) /\ (l \in PushAt => g.back # "deq")
      <4>1. CASE DeqEmpty(t)
        <5>1. PICK g : g = [EmptyFrame EXCEPT !.desc = f.ret, !.back = "free"]
            OBVIOUS
        <5>2. g.back = "free"
            BY <5>1 DEF EmptyFrame
        <5>3. To(t, "idle", EmptyFrame, BADINDEX) \/ To(t, "push_count", g, BADINDEX)
            BY <1>1, <3>1, <4>1, <5>1, DeqEmptyEffect
        <5>4. CASE To(t, "idle", EmptyFrame, BADINDEX)
            BY <5>4
        <5>5. CASE To(t, "push_count", g, BADINDEX)
            BY <5>2, <5>5
        <5> QED BY <5>3, <5>4, <5>5
      <4>2. CASE DeqHead(t) \/ DeqTail(t) \/ DeqNext(t)
        <5>1. PICK l, g : To(t, l, g, hand[t]) /\ l \in {"deq_tail", "deq_next", "deq_check"}
            BY <1>1, <4>2, DeqHeadEffect, DeqTailEffect, DeqNextEffect
        <5> QED BY <3>1, <5>1
      <4>3. CASE DeqCheck(t)
        <5>1. PICK l, g : To(t, l, g, hand[t]) /\ l \notin PushAt
          <6>1. CASE \E l, g : /\ To(t, l, g, hand[t])
                               /\ l \in {"deq_head", "deq_empty", "deq_help", "bug", "pop_top", "deq_copy"}
              BY <6>1
          <6>2. \/ To(t, "deq_head", Retry(f), hand[t]) \/ To(t, "deq_empty", f, hand[t])
                \/ To(t, "deq_help", f, hand[t]) \/ To(t, "bug", f, hand[t])
                \/ To(t, "pop_top", [f EXCEPT !.back = "deq"], hand[t]) \/ To(t, "deq_copy", f, hand[t])
              BY <1>1, <4>3, DeqCheckEffect
          <6> QED BY <6>1, <6>2
        <5> QED BY <3>1, <5>1
      <4>4. CASE DeqHelp(t)
          BY <1>1, <3>1, <4>4, DeqHelpEffect
      <4>5. CASE DeqCopy(t)
          BY <1>1, <3>1, <4>5, DeqCopyEffect
      <4> QED BY <2>6, <4>1, <4>2, <4>3, <4>4, <4>5
    <3>4. n \in Held(t)' <=> Has(l, g, BADINDEX, n)
        BY <1>1, <3>3, HeldTo
    <3> QED BY <3>2, <3>3, <3>4
  <2>7. CASE PaintHead(t) \/ PaintTail(t) \/ PaintNext(t) \/ PaintCheck(t) \/ PaintCas(t) \/ PaintBusy(t)
    <3>1. pc[t] \in PaintAt
        BY <2>7 DEF PaintHead, PaintTail, PaintNext, PaintCheck, PaintCas, PaintBusy, PaintAt
    <3>2. PICK l, g : To(t, l, g, hand[t]) /\ l \in PaintAt \cup {"idle"}
        BY <1>1, <2>7, PaintHeadEffect, PaintTailEffect, PaintNextEffect, PaintCheckEffect, PaintCasEffect,
           PaintBusyEffect DEF PaintAt
    <3>3. n \in Held(t)' <=> Has(l, g, hand[t], n)
        BY <1>1, <3>2, HeldTo
    <3> QED BY <1>2, <3>1, <3>2, <3>3 DEF PaintAt
  <2> QED BY <1>8, <2>2, <2>3, <2>4, <2>5, <2>6, <2>7 DEF Access
<1> QED BY <1>3, <1>4, <1>5, <1>6, <1>7, <1>8 DEF Access

\* What a step of t does to the descriptors behind the dummies.
LEMMA BehindStep ==
    ASSUME NEW t \in Thread, NEW ch, NEW tg, Ready(t, ch, tg), Call(t) \/ Access(t),
           NEW ch2, Moved(t, ch, ch2), NEW q \in Queue
    PROVE  \A n :
             n \in Behind(ch2, q) <=>
               \/ Links(t) /\ q = frame[t].queue /\ n = frame[t].desc
               \/ n \in Behind(ch, q) /\ ~(Takes(t) /\ q = frame[t].queue /\ n = frame[t].next.index)
<1>1. /\ TInv /\ LagOK /\ Timely /\ Good(ch, tg) /\ Shape(ch) /\ Linked(ch) /\ Carries(t)
      /\ q \in Place
    BY PlaceFacts DEF Ready, Good, Data, Shape
<1>2. PICK c \in Seq(Node) : c = ch[q] /\ Len(c) > 0
    BY <1>1, MovedChain
<1>3. PICK m \in Nat : m = Len(c) /\ m > 0
    BY <1>2
<1>4. Behind(ch, q) = {c[i] : i \in 2 .. m}
    BY <1>2, <1>3 DEF Behind
<1>5. CASE Links(t) /\ q = frame[t].queue
  <2>1. PICK d \in Node : d = frame[t].desc
      BY <1>5, LinksData
  <2>2. ~Takes(t)
      BY <1>5 DEF Links, Takes, EnqLink, DeqCas
  <2>3. ch2[q] = Append(c, d)
      BY <1>1, <1>2, <1>5, <2>1, MovedChain
  <2>4. Len(ch2[q]) = m + 1 /\ \A i \in 1 .. m + 1 : ch2[q][i] = IF i <= m THEN c[i] ELSE d
      BY <1>3, <2>3, AppendAt
  <2>5. Behind(ch2, q) = {ch2[q][i] : i \in 2 .. m + 1}
      BY <2>4 DEF Behind
  <2>6. ASSUME NEW i \in 2 .. m + 1 PROVE ch2[q][i] = IF i <= m THEN c[i] ELSE d
      BY <2>4
  <2>7. m + 1 \in 2 .. m + 1 /\ ~(m + 1 <= m) /\ \A i \in 2 .. m : i \in 2 .. m + 1 /\ i <= m
      BY <1>3
  <2>8. \A i \in 2 .. m + 1 : i <= m => i \in 2 .. m
      BY <1>3
  <2>9. \A n : n \in Behind(ch2, q) <=> n = d \/ n \in Behind(ch, q)
      BY <1>4, <2>5, <2>6, <2>7, <2>8
  <2> QED BY <1>5, <2>1, <2>2, <2>9
<1>6. CASE Takes(t) /\ q = frame[t].queue
  <2>1. SecondOf(ch, q, frame[t].next.index)
      BY <1>1, <1>6, TakesSecond
  <2>2. m > 1 /\ 2 \in 1 .. m /\ frame[t].next.index = c[2]
      BY <1>2, <1>3, <2>1 DEF SecondOf
  <2>3. ~Links(t)
      BY <1>6 DEF Links, Takes, EnqLink, DeqCas
  <2>4. ch2[q] = Tail(c)
      BY <1>1, <1>2, <1>6, MovedChain
  <2>5. Len(ch2[q]) = m - 1 /\ \A i \in 1 .. m - 1 : ch2[q][i] = c[i + 1]
      BY <1>3, <2>4, TailAt
  <2>6. Behind(ch2, q) = {ch2[q][i] : i \in 2 .. m - 1}
      BY <2>5 DEF Behind
  <2>7. \A i \in 2 .. m - 1 : ch2[q][i] = c[i + 1] /\ i + 1 \in 2 .. m /\ i + 1 # 2
      BY <1>3, <2>5
  <2>8. \A i \in 2 .. m : i # 2 => i - 1 \in 2 .. m - 1 /\ (i - 1) + 1 = i
      BY <1>3
  <2>9. \A i \in 2 .. m : c[i] = c[2] => i = 2
    <3>1. \A i, j \in 1 .. Len(ch[q]) : ch[q][i] = ch[q][j] => i = j
        BY <1>1 DEF Linked
    <3>2. \A i, j \in 1 .. m : c[i] = c[j] => i = j
        BY <1>2, <1>3, <3>1
    <3>3. \A i \in 2 .. m : i \in 1 .. m
        BY <1>3
    <3> QED BY <2>2, <3>2, <3>3
  <2>10. \A n : n \in Behind(ch2, q) <=> n \in Behind(ch, q) /\ n # c[2]
    <3> SUFFICES ASSUME NEW n PROVE n \in Behind(ch2, q) <=> n \in Behind(ch, q) /\ n # c[2]
        OBVIOUS
    <3>1. ASSUME n \in Behind(ch2, q) PROVE n \in Behind(ch, q) /\ n # c[2]
      <4>1. PICK i \in 2 .. m - 1 : n = ch2[q][i]
          BY <2>6, <3>1
      <4> QED BY <1>4, <2>7, <2>9, <4>1
    <3>2. ASSUME n \in Behind(ch, q), n # c[2] PROVE n \in Behind(ch2, q)
      <4>1. PICK i \in 2 .. m : n = c[i]
          BY <1>4, <3>2
      <4>2. i # 2
          BY <3>2, <4>1
      <4>3. n = ch2[q][i - 1]
          BY <2>7, <2>8, <4>1, <4>2
      <4> QED BY <2>6, <2>8, <4>1, <4>2, <4>3
    <3> QED BY <3>1, <3>2
  <2> QED BY <1>6, <2>2, <2>3, <2>10
<1>7. CASE ~(Links(t) /\ q = frame[t].queue) /\ ~(Takes(t) /\ q = frame[t].queue)
  <2>1. ch2[q] = ch[q]
      BY <1>1, <1>7, MovedChain
  <2> QED BY <1>7, <2>1 DEF Behind
<1> QED BY <1>5, <1>6, <1>7

\* Taken descriptors are in one place: behind one dummy, or held by one thread.
LEMMA TakenOnce ==
    ASSUME NEW ch, NEW tg, TInv, Good(ch, tg)
    PROVE  /\ \A q \in Queue : Behind(ch, q) \subseteq In(ch)
           /\ \A t \in Thread : Held(t) \subseteq Owned(t) /\ Owned(t) \cap In(ch) = {}
           /\ \A t, u \in Thread : t # u => Owned(t) \cap Owned(u) = {}
           /\ \A p, q \in Queue : p # q => Behind(ch, p) \cap Behind(ch, q) = {}
<1>1. Shape(ch) /\ Linked(ch) /\ Apart(ch)
    BY DEF Good, Shape
<1>2. ASSUME NEW q \in Queue, NEW n \in Behind(ch, q)
      PROVE  q \in Place /\ n \in Node /\ \E i \in 1 .. Len(ch[q]) : ch[q][i] = n
  <2>1. q \in Place
      BY PlaceFacts
  <2>2. PICK i \in 2 .. Len(ch[q]) : ch[q][i] = n
      BY <1>2 DEF Behind
  <2>3. Len(ch[q]) \in Nat
      BY <1>1, <2>1, ChainTyped
  <2>4. i \in 1 .. Len(ch[q])
      BY <2>3
  <2> QED BY <1>1, <2>1, <2>2, <2>4, ChainTyped
<1>3. \A q \in Queue : Behind(ch, q) \subseteq In(ch)
    BY <1>2 DEF In
<1>4. ASSUME NEW t \in Thread PROVE Held(t) \subseteq Owned(t)
  <2>1. Role(pc[t], frame[t], hand[t])
      BY DEF TInv, Roles
  <2> QED BY <2>1 DEF Held, Owned, Role
<1>5. \A p, q \in Queue : p # q => Behind(ch, p) \cap Behind(ch, q) = {}
    BY <1>1, <1>2 DEF Linked
<1> QED BY <1>1, <1>3, <1>4, <1>5 DEF Apart

\* What becomes of what is taken.
TakenNext(t, n) ==
    \/ Fills(t) /\ n = frame[t].top.index
    \/ Takes(t) /\ n = frame[t].ret
    \/ n \in Taken /\ ~(Takes(t) /\ n = frame[t].next.index) /\ ~(Frees(t) /\ n = frame[t].desc)

\* The step of any thread.
LEMMA TakenStep ==
    ASSUME NEW t \in Thread, NEW ch, NEW tg, Ready(t, ch, tg), Call(t) \/ Access(t),
           NEW ch2, NEW tg2, Moved(t, ch, ch2), Good(ch2, tg2)'
    PROVE  \A n : n \in Taken' <=> TakenNext(t, n)
<1>1. /\ TInv /\ LagOK /\ Timely /\ Good(ch, tg) /\ Shape(ch) /\ Carries(t) /\ Shape(ch2)' /\ TypeOK
    BY DEF Ready, Good, Data, TInv
<1>2. \A u \in Thread : u # t => \A n : n \in Held(u)' <=> n \in Held(u)
  <2> SUFFICES ASSUME NEW u \in Thread, u # t, NEW n PROVE n \in Held(u)' <=> n \in Held(u)
      OBVIOUS
  <2>1. pc'[u] = pc[u] /\ frame'[u] = frame[u] /\ hand'[u] = hand[u]
      BY <1>1, StepLocal DEF Still
  <2> QED BY <2>1 DEF Held
<1>3. /\ \A n : n \in Held(t)' <=> HeldThen(t, n)
      /\ Fills(t) \/ Takes(t) => Held(t) = {}
      /\ Links(t) \/ Frees(t) => Held(t) = {frame[t].desc}
    BY <1>1, HeldStep
<1>4. \A q \in Queue : \A n :
             n \in Behind(ch2, q) <=>
               \/ Links(t) /\ q = frame[t].queue /\ n = frame[t].desc
               \/ n \in Behind(ch, q) /\ ~(Takes(t) /\ q = frame[t].queue /\ n = frame[t].next.index)
    BY BehindStep
<1>5. \A n : n \in Taken <=> IsTaken(ch, n)
    BY <1>1, TakenIs
<1>6. \A n : n \in Taken' <=> (\E q \in Queue : n \in Behind(ch2, q)) \/ (\E u \in Thread : n \in Held(u)')
  <2>1. \A n : n \in Taken' <=> IsTaken(ch2, n)'
      BY <1>1, TakenThen
  <2> QED BY <2>1 DEF IsTaken, Behind
<1>7. /\ \A q \in Queue : Behind(ch, q) \subseteq In(ch)
      /\ \A u \in Thread : Held(u) \subseteq Owned(u) /\ Owned(u) \cap In(ch) = {}
      /\ \A r, u \in Thread : r # u => Owned(r) \cap Owned(u) = {}
      /\ \A p, q \in Queue : p # q => Behind(ch, p) \cap Behind(ch, q) = {}
    BY <1>1, TakenOnce
<1>8. /\ ~(Fills(t) /\ Takes(t)) /\ ~(Fills(t) /\ Links(t)) /\ ~(Fills(t) /\ Frees(t))
      /\ ~(Takes(t) /\ Links(t)) /\ ~(Takes(t) /\ Frees(t)) /\ ~(Links(t) /\ Frees(t))
    BY DEF Fills, Takes, Links, Frees, PopCas, DeqCas, EnqLink, PushCas
<1> SUFFICES ASSUME NEW n PROVE n \in Taken' <=> TakenNext(t, n)
    OBVIOUS
<1>9. CASE Fills(t)
    BY <1>2, <1>3, <1>4, <1>5, <1>6, <1>8, <1>9, Zenon DEF IsTaken, TakenNext, HeldThen
<1>10. CASE Takes(t)
  <2>1. SecondOf(ch, frame[t].queue, frame[t].next.index) /\ frame[t].queue \in Queue
      BY <1>1, <1>10, TakesSecond
  <2>2. frame[t].next.index \in Behind(ch, frame[t].queue)
    <3>1. frame[t].queue \in Place
        BY <2>1, PlaceFacts
    <3>2. Len(ch[frame[t].queue]) \in Nat
        BY <1>1, <3>1, ChainTyped DEF Shape
    <3>3. 2 \in 2 .. Len(ch[frame[t].queue])
        BY <2>1, <3>2 DEF SecondOf
    <3> QED BY <2>1, <3>3 DEF Behind, SecondOf
  <2>3. \A u \in Thread : frame[t].next.index \notin Held(u)
      BY <1>7, <2>1, <2>2
  <2>4. \A q \in Queue : q # frame[t].queue => frame[t].next.index \notin Behind(ch, q)
      BY <1>7, <2>1, <2>2
  <2>5. (\E u \in Thread : n \in Held(u)') <=> n = frame[t].ret \/ \E u \in Thread : n \in Held(u)
      BY <1>2, <1>3, <1>8, <1>10 DEF HeldThen
  <2> QED BY <1>4, <1>5, <1>6, <1>8, <1>10, <2>3, <2>4, <2>5, Zenon DEF IsTaken, TakenNext
<1>11. CASE Links(t)
  <2>1. frame[t].queue \in Queue
      BY <1>11, LinksData
  <2>2. (\E q \in Queue : n \in Behind(ch2, q)) <=> (\E q \in Queue : n \in Behind(ch, q)) \/ n = frame[t].desc
      BY <1>4, <1>8, <1>11, <2>1, Zenon
  <2>3. (\E u \in Thread : n \in Held(u)') \/ n = frame[t].desc <=> \E u \in Thread : n \in Held(u)
      BY <1>2, <1>3, <1>8, <1>11, Zenon DEF HeldThen
  <2> QED BY <1>5, <1>6, <1>8, <1>11, <2>2, <2>3, Zenon DEF IsTaken, TakenNext
<1>12. CASE Frees(t)
  <2>1. frame[t].desc \in Held(t)
      BY <1>3, <1>12
  <2>2. \A q \in Queue : frame[t].desc \notin Behind(ch, q)
      BY <1>7, <2>1
  <2>3. \A u \in Thread : u # t => frame[t].desc \notin Held(u)
      BY <1>7, <2>1
  <2>4. (\E q \in Queue : n \in Behind(ch2, q)) <=> \E q \in Queue : n \in Behind(ch, q)
      BY <1>4, <1>8, <1>12, Zenon
  <2>5. (\E u \in Thread : n \in Held(u)') <=> n # frame[t].desc /\ \E u \in Thread : n \in Held(u)
      BY <1>2, <1>3, <1>8, <1>12, <2>3, Zenon DEF HeldThen
  <2> QED BY <1>5, <1>6, <1>8, <1>12, <2>2, <2>4, <2>5, Zenon DEF IsTaken, TakenNext
<1>13. CASE ~Fills(t) /\ ~Takes(t) /\ ~Links(t) /\ ~Frees(t)
  <2>1. (\E q \in Queue : n \in Behind(ch2, q)) <=> \E q \in Queue : n \in Behind(ch, q)
      BY <1>4, <1>13, Zenon
  <2>2. (\E u \in Thread : n \in Held(u)') <=> \E u \in Thread : n \in Held(u)
      BY <1>2, <1>3, <1>13, Zenon DEF HeldThen
  <2> QED BY <1>5, <1>6, <1>13, <2>1, <2>2, Zenon DEF IsTaken, TakenNext
<1> QED BY <1>9, <1>10, <1>11, <1>12, <1>13

\* A thread that has asked for a descriptor of its own.
Asking(a) == pc[a] \in PopAt /\ frame[a].back = "alloc"

\* A request that some caller of freelist_remove has made.
Made(r) ==
    \E a \in CanAlloc, k \in Nat :
        r = <<a, k>> /\ k <= calls[a] /\ (Asking(a) => k < calls[a])

\* A descriptor that is taken holds a request; no two hold the same.
Filed == \A n \in Taken : Made(word[n])
Asked == \A t \in Thread : Asking(t) => t \in CanAlloc

\* What a step writes into descriptors.
LEMMA WordStep ==
    ASSUME TypeOK, NEW t \in Thread, Call(t) \/ Access(t)
    PROVE  \/ word' = word /\ ~Fills(t)
           \/ Fills(t) /\ word' = [word EXCEPT ![frame[t].top.index] = <<t, calls[t]>>]
           \/ pc[t] = "deq_copy" /\ ~Fills(t) /\ word' = [word EXCEPT ![frame[t].ret] = word[frame[t].next.index]]
<1>1. CASE PopCas(t)
    BY <1>1, PopCasEffect DEF Fills
<1>2. CASE DeqCopy(t)
    BY <1>2, DeqCopyEffect DEF Fills, PopCas, DeqCopy
<1>3. CASE ~PopCas(t) /\ ~DeqCopy(t)
  <2>1. word' = word
      BY <1>3 DEF Call, CallAlloc, CallFree, CallEnqueue, CallDequeue, CallPaint, Enter, Access, shared,
         PopTop, PopNext, PushCount, PushLink, PushCas, EnqTail, EnqNext, EnqCheck, EnqHelp, EnqLink,
         EnqSwing, DeqHead, DeqTail, DeqNext, DeqCheck, DeqEmpty, DeqHelp, DeqCas,
         PaintHead, PaintTail, PaintNext, PaintCheck, PaintCas, PaintBusy
  <2> QED BY <1>3, <2>1 DEF Fills
<1> QED BY <1>1, <1>2, <1>3

\* A request that is taken stays what it is; a new one is written into a descriptor
\* that was not taken, and a dequeued one is a copy of the old.
LEMMA WordsKept ==
    ASSUME NEW t \in Thread, NEW ch, NEW tg, Ready(t, ch, tg), Call(t) \/ Access(t)
    PROVE  /\ \A n \in Taken : word'[n] = word[n]
           /\ Fills(t) => /\ frame[t].top.index \notin Taken
                          /\ word'[frame[t].top.index] = <<t, calls[t]>>
           /\ Takes(t) => /\ frame[t].ret \notin Taken /\ frame[t].next.index \in Taken
                          /\ word' = word /\ word[frame[t].ret] = word[frame[t].next.index]
           /\ Frees(t) => frame[t].desc \in Taken
<1>1. /\ TInv /\ LagOK /\ Timely /\ Good(ch, tg) /\ Shape(ch) /\ Linked(ch) /\ Anchored(ch)
      /\ Carries(t) /\ TypeOK /\ Role(pc[t], frame[t], hand[t]) /\ Fields(frame[t])
      /\ word \in [Node -> Item \cup {NoItem}]
      /\ \A i \in Index : i # BADINDEX => i \in Node
    BY HoldFields, NodeFacts DEF Ready, Good, Data, Shape, TInv, TypeOK
<1>2. \A n : n \in Taken <=> IsTaken(ch, n)
    BY <1>1, TakenIs
<1>3. Taken \subseteq Node
    BY <1>1, TakenNodes
<1>4. /\ \A q \in Queue : Behind(ch, q) \subseteq In(ch)
      /\ \A u \in Thread : Held(u) \subseteq Owned(u) /\ Owned(u) \cap In(ch) = {}
      /\ \A r, u \in Thread : r # u => Owned(r) \cap Owned(u) = {}
    BY <1>1, TakenOnce
<1>5. Fills(t) => frame[t].top.index \notin Taken /\ frame[t].top.index \in Node
  <2> SUFFICES ASSUME Fills(t)
               PROVE  frame[t].top.index \notin Taken /\ frame[t].top.index \in Node
      OBVIOUS
  <2>1. frame[t].top.index # BADINDEX /\ frame[t].top.index = top.index
      BY <1>1 DEF Fills, PopCas, Role
  <2>2. 0 \in Place
      BY PlaceFacts
  <2>3. Len(ch[0]) > 0 /\ top.index = ch[0][1] /\ Len(ch[0]) \in Nat
      BY <1>1, <2>1, <2>2, ChainTyped DEF Anchored
  <2>4. 1 \in 1 .. Len(ch[0])
      BY <2>3
  <2>5. top.index \in In(ch) /\ top.index \in Node
    <3>1. ch[0][1] \in Node
        BY <1>1, <2>2, <2>4, ChainTyped
    <3> QED BY <2>2, <2>3, <2>4, <3>1 DEF In
  <2>6. \A u \in Thread : top.index \notin Held(u)
      BY <1>4, <2>5
  <2>7. ASSUME NEW q \in Queue, top.index \in Behind(ch, q) PROVE FALSE
    <3>1. q \in Place /\ q # 0
        BY PlaceFacts
    <3>2. PICK i \in 2 .. Len(ch[q]) : top.index = ch[q][i]
        BY <2>7 DEF Behind
    <3>3. Len(ch[q]) \in Nat
        BY <1>1, <3>1, ChainTyped
    <3>4. i \in 1 .. Len(ch[q])
        BY <3>3
    <3> QED BY <1>1, <2>2, <2>3, <2>4, <3>1, <3>2, <3>4 DEF Linked
  <2> QED BY <1>2, <2>1, <2>5, <2>6, <2>7 DEF IsTaken
<1>6. pc[t] \in {"deq_copy", "deq_cas"} => frame[t].ret \notin Taken /\ frame[t].ret \in Node
  <2> SUFFICES ASSUME pc[t] \in {"deq_copy", "deq_cas"}
               PROVE  frame[t].ret \notin Taken /\ frame[t].ret \in Node
      OBVIOUS
  <2>1. frame[t].ret # BADINDEX /\ hand[t] = BADINDEX /\ frame[t].ret \in Node
      BY <1>1 DEF Role, DeqAt, Fields
  <2>2. frame[t].ret \in Owned(t) /\ Held(t) = {}
      BY <2>1 DEF Owned, Held, PushAt
  <2>3. \A u \in Thread : frame[t].ret \notin Held(u)
      BY <1>4, <2>2
  <2>4. \A q \in Queue : frame[t].ret \notin Behind(ch, q)
      BY <1>4, <2>2
  <2> QED BY <1>2, <2>1, <2>3, <2>4 DEF IsTaken
<1>7. \A n \in Taken : word'[n] = word[n]
    BY <1>1, <1>3, <1>5, <1>6, WordStep
<1>8. Fills(t) => word'[frame[t].top.index] = <<t, calls[t]>>
    BY <1>1, <1>5, WordStep DEF Fills, PopCas
<1>9. Takes(t) => /\ frame[t].ret \notin Taken /\ frame[t].next.index \in Taken
                  /\ word' = word /\ word[frame[t].ret] = word[frame[t].next.index]
  <2> SUFFICES ASSUME Takes(t)
               PROVE  /\ frame[t].ret \notin Taken /\ frame[t].next.index \in Taken
                      /\ word' = word /\ word[frame[t].ret] = word[frame[t].next.index]
      OBVIOUS
  <2>1. pc[t] = "deq_cas" /\ DeqCas(t) /\ word' = word
      BY DEF Takes, DeqCas
  <2>2. SecondOf(ch, frame[t].queue, frame[t].next.index) /\ frame[t].queue \in Queue
          /\ word[frame[t].ret] = word[frame[t].next.index]
      BY <1>1, TakesSecond
  <2>3. frame[t].next.index \in Behind(ch, frame[t].queue)
    <3>1. frame[t].queue \in Place
        BY <2>2, PlaceFacts
    <3>2. Len(ch[frame[t].queue]) \in Nat
        BY <1>1, <3>1, ChainTyped
    <3>3. 2 \in 2 .. Len(ch[frame[t].queue])
        BY <2>2, <3>2 DEF SecondOf
    <3> QED BY <2>2, <3>3 DEF Behind, SecondOf
  <2> QED BY <1>2, <1>6, <2>1, <2>2, <2>3 DEF IsTaken
<1>10. Frees(t) => frame[t].desc \in Taken
  <2> SUFFICES ASSUME Frees(t) PROVE frame[t].desc \in Taken
      OBVIOUS
  <2>1. frame[t].desc \in Held(t)
      BY <1>1 DEF Frees, PushCas, Role, PushAt, Held
  <2> QED BY <1>2, <2>1 DEF IsTaken
<1> QED BY <1>5, <1>7, <1>8, <1>9, <1>10

\* A thread asks by calling freelist_remove, and the call counts.
LEMMA AskStep ==
    ASSUME TInv, NEW t \in Thread, Call(t) \/ Access(t), NEW u \in Thread
    PROVE  /\ calls[u] \in Nat /\ calls'[u] \in Nat /\ calls[u] <= calls'[u]
           /\ Asking(u)' => \/ Asking(u)
                            \/ u \in CanAlloc /\ calls[u] < calls'[u]
           /\ Fills(u) => Asking(u)
<1> USE DEF Asking, PopAt
<1>1. TypeOK /\ frame[t] \in Frame /\ Role(pc[t], frame[t], hand[t])
    BY DEF TInv, TypeOK, Roles
<1>2. calls[u] \in Nat /\ calls[t] \in Nat /\ (Fills(u) => Asking(u))
    BY <1>1 DEF TypeOK, Fills, PopCas
<1>3. CASE Call(t)
  <2>1. calls' = [calls EXCEPT ![t] = calls[t] + 1]
      BY <1>1, <1>3, CallEffect
  <2>2. calls'[u] \in Nat /\ calls[u] <= calls'[u] /\ (u = t => calls[u] < calls'[u])
      BY <1>1, <1>2, <2>1 DEF TypeOK
  <2>3. CASE u # t
      BY <1>1, <1>2, <1>3, <2>2, <2>3, StepLocal DEF Still
  <2>4. CASE u = t /\ Asking(u)'
    <3>1. t \in CanAlloc
        BY <1>1, <1>3, <2>4 DEF TypeOK, Call, CallAlloc, CallFree, CallEnqueue, CallDequeue, CallPaint,
           Enter, Goto
    <3> QED BY <1>2, <2>2, <2>4, <3>1
  <2> QED BY <1>2, <2>2, <2>3, <2>4
<1>4. CASE Access(t)
  <2>1. calls' = calls
      BY <1>4 DEF Access, Return,
         PopTop, PopNext, PopCas, PushCount, PushLink, PushCas, EnqTail, EnqNext, EnqCheck, EnqHelp, EnqLink,
         EnqSwing, DeqHead, DeqTail, DeqNext, DeqCheck, DeqEmpty, DeqHelp, DeqCopy, DeqCas,
         PaintHead, PaintTail, PaintNext, PaintCheck, PaintCas, PaintBusy
  <2>2. Asking(u)' => Asking(u)
    <3>1. CASE u # t
        BY <1>1, <1>4, <3>1, StepLocal DEF Still
    <3>2. CASE u = t /\ PopTop(t)
      <4>1. pc[t] = "pop_top"
          BY <3>2 DEF PopTop
      <4>2. frame' = [frame EXCEPT ![t] = [frame[t] EXCEPT !.top = top]] \/ pc'[t] \notin PopAt
          BY <1>1, <3>2 DEF TypeOK, Goto, Return, PopTop
      <4>3. [frame[t] EXCEPT !.top = top].back = frame[t].back
          BY <1>1 DEF Frame
      <4>4. frame' = [frame EXCEPT ![t] = [frame[t] EXCEPT !.top = top]] => frame'[t].back = frame[t].back
          BY <1>1, <4>3 DEF TypeOK
      <4> QED BY <3>2, <4>1, <4>2, <4>4
    <3>3. CASE u = t /\ PopNext(t)
      <4>1. pc[t] = "pop_next" /\ frame' = [frame EXCEPT ![t] = [frame[t] EXCEPT !.new = next[frame[t].top.index]]]
          BY <1>1, <3>3 DEF TypeOK, PopNext
      <4>2. [frame[t] EXCEPT !.new = next[frame[t].top.index]].back = frame[t].back
          BY <1>1 DEF Frame
      <4>3. frame'[t].back = frame[t].back
          BY <1>1, <4>1, <4>2 DEF TypeOK
      <4> QED BY <3>3, <4>1, <4>3
    <3>4. CASE u = t /\ PopCas(t)
        BY <1>1, <3>4 DEF TypeOK, Goto, Return, PopCas
    <3>5. CASE u = t /\ DeqCheck(t)
      <4>1. pc'[t] = "pop_top" => frame' = [frame EXCEPT ![t] = [frame[t] EXCEPT !.back = "deq"]]
          BY <1>1, <3>5 DEF TypeOK, Goto, Restart, DeqCheck
      <4>2. [frame[t] EXCEPT !.back = "deq"].back = "deq"
          BY <1>1 DEF Frame
      <4>3. pc'[t] = "pop_top" => frame'[t].back = "deq"
          BY <1>1, <4>1, <4>2 DEF TypeOK
      <4>4. pc'[t] \in PopAt => pc'[t] = "pop_top"
          BY <1>1, <3>5 DEF TypeOK, Goto, Restart, DeqCheck, DeqBranch
      <4> QED BY <3>5, <4>3, <4>4
    <3>6. CASE u = t /\ ~PopTop(t) /\ ~PopNext(t) /\ ~PopCas(t) /\ ~DeqCheck(t)
      <4>1. pc'[t] \notin PopAt
          BY <1>1, <1>4, <3>6 DEF Access, TypeOK, Goto, Restart, Return,
             PushCount, PushLink, PushCas, EnqTail, EnqNext, EnqCheck, EnqHelp, EnqLink,
             EnqSwing, DeqHead, DeqTail, DeqNext, DeqEmpty, DeqHelp, DeqCopy, DeqCas,
             PaintHead, PaintTail, PaintNext, PaintCheck, PaintCas, PaintBusy
      <4> QED BY <3>6, <4>1
    <3> QED BY <3>1, <3>2, <3>3, <3>4, <3>5, <3>6
  <2> QED BY <1>2, <2>1, <2>2
<1> QED BY <1>3, <1>4

\* A request made stays made, and the one a call fills in is new.
LEMMA MadeStep ==
    ASSUME TInv, Asked, NEW t \in Thread, Call(t) \/ Access(t)
    PROVE  /\ \A r : Made(r) => Made(r)'
           /\ \A r : Fills(t) /\ r = <<t, calls[t]>> => Made(r)' /\ ~Made(r)
           /\ Asked'
<1>1. CanAlloc \subseteq Thread
    BY QueueAssumption
<1>2. \A u \in Thread : /\ calls[u] \in Nat /\ calls'[u] \in Nat /\ calls[u] <= calls'[u]
                        /\ Asking(u)' => Asking(u) \/ (u \in CanAlloc /\ calls[u] < calls'[u])
                        /\ Fills(u) => Asking(u)
    BY AskStep
<1>3. ASSUME NEW r, Made(r) PROVE Made(r)'
  <2>1. PICK a \in CanAlloc, k \in Nat : r = <<a, k>> /\ k <= calls[a] /\ (Asking(a) => k < calls[a])
      BY <1>3 DEF Made
  <2>2. k <= calls'[a] /\ (Asking(a)' => k < calls'[a])
      BY <1>1, <1>2, <2>1
  <2> QED BY <2>1, <2>2 DEF Made
<1>4. ASSUME NEW r, Fills(t), r = <<t, calls[t]>> PROVE Made(r)' /\ ~Made(r)
  <2>1. Asking(t) /\ t \in CanAlloc
      BY <1>2, <1>4 DEF Asked
  <2>2. ~Asking(t)'
      BY <1>4 DEF Fills, PopCas, Return, Goto, Asking, PopAt, TInv, TypeOK
  <2>3. Made(r)'
    <3>1. calls' = calls
        BY <1>4 DEF Fills, PopCas, Return
    <3> QED BY <1>2, <1>4, <2>1, <2>2, <3>1 DEF Made
  <2>4. ASSUME Made(r) PROVE FALSE
    <3>1. PICK a \in CanAlloc, k \in Nat : r = <<a, k>> /\ (Asking(a) => k < calls[a])
        BY <2>4 DEF Made
    <3>2. a = t /\ k = calls[t]
        BY <1>4, <3>1
    <3> QED BY <1>2, <2>1, <3>1, <3>2
  <2> QED BY <2>3, <2>4
<1>5. Asked'
    BY <1>2 DEF Asked
<1> QED BY <1>3, <1>4, <1>5

\* What a step changes of the requests, in the terms of RequestsKept.
Gains(t, r) == pc[t] = "pop_cas" /\ frame[t].back = "alloc" /\ r = <<t, calls[t]>>
Loses(t, r) == pc[t] = "push_cas" /\ hand[t] = frame[t].desc /\ r = word[frame[t].desc]

\* A request is carried after a step if some descriptor then taken holds it.
LEMMA CarriedThen ==
    ASSUME NEW r PROVE r \in Carried' <=> \E n \in Taken' : r = word'[n]
BY DEF Carried

\* A step moves requests, and neither loses nor doubles one.
LEMMA RequestStep ==
    ASSUME NEW t \in Thread, NEW ch, NEW tg, Ready(t, ch, tg), Call(t) \/ Access(t),
           NEW ch2, NEW tg2, Moved(t, ch, ch2), Good(ch2, tg2)', Filed, Asked, EachRequestOnce
    PROVE  /\ Filed' /\ Asked' /\ EachRequestOnce'
           /\ \A r \in Carried' \ Carried : Gains(t, r)
           /\ \A r \in Carried \ Carried' : Loses(t, r)
<1>1. TInv
    BY DEF Ready
<1>2. \A n : n \in Taken' <=> TakenNext(t, n)
    BY TakenStep
<1>3. /\ \A n \in Taken : word'[n] = word[n]
      /\ Fills(t) => /\ frame[t].top.index \notin Taken
                     /\ word'[frame[t].top.index] = <<t, calls[t]>>
      /\ Takes(t) => /\ frame[t].ret \notin Taken /\ frame[t].next.index \in Taken
                     /\ word' = word /\ word[frame[t].ret] = word[frame[t].next.index]
      /\ Frees(t) => frame[t].desc \in Taken
    BY WordsKept
<1>4. /\ \A r : Made(r) => Made(r)'
      /\ \A r : Fills(t) /\ r = <<t, calls[t]>> => Made(r)' /\ ~Made(r)
      /\ Asked'
    BY <1>1, MadeStep
<1>5. ~(Fills(t) /\ Takes(t)) /\ ~(Fills(t) /\ Frees(t)) /\ ~(Takes(t) /\ Frees(t))
    BY DEF Fills, Takes, Frees, PopCas, DeqCas, PushCas
<1>6. ASSUME NEW n \in Taken'
      PROVE  \/ Fills(t) /\ n = frame[t].top.index /\ n \notin Taken /\ word'[n] = <<t, calls[t]>>
             \/ Takes(t) /\ n = frame[t].ret /\ word'[n] = word[frame[t].next.index]
             \/ n \in Taken /\ word'[n] = word[n] /\ ~(Takes(t) /\ n = frame[t].next.index)
    BY <1>2, <1>3 DEF TakenNext
<1>7. ASSUME NEW n \in Taken' PROVE Made(word[n])'
  <2>1. PICK r : r = word'[n]
      OBVIOUS
  <2>2. Made(r)'
    <3>1. CASE Fills(t) /\ r = <<t, calls[t]>>
        BY <1>4, <3>1
    <3>2. CASE Takes(t) /\ r = word[frame[t].next.index]
        BY <1>3, <1>4, <3>2 DEF Filed
    <3>3. CASE n \in Taken /\ r = word[n]
        BY <1>4, <3>3 DEF Filed
    <3> QED BY <1>6, <2>1, <3>1, <3>2, <3>3
  <2> QED BY <2>1, <2>2 DEF Made, Asking
<1>8. Filed'
    BY <1>7 DEF Filed
<1>9. ASSUME NEW m \in Taken', NEW n \in Taken', word'[m] = word'[n] PROVE m = n
  <2>1. \A x \in Taken : word[x] # <<t, calls[t]>> \/ ~Fills(t)
      BY <1>4 DEF Filed
  <2>2. CASE Fills(t)
      BY <1>5, <1>6, <1>9, <2>1, <2>2 DEF EachRequestOnce
  <2>3. CASE Takes(t)
      BY <1>3, <1>5, <1>6, <1>9, <2>3 DEF EachRequestOnce
  <2>4. CASE ~Fills(t) /\ ~Takes(t)
      BY <1>6, <1>9, <2>4 DEF EachRequestOnce
  <2> QED BY <2>2, <2>3, <2>4
<1>10. EachRequestOnce'
    BY <1>9 DEF EachRequestOnce
<1>11. ASSUME NEW r \in Carried' \ Carried PROVE Gains(t, r)
  <2>1. PICK n \in Taken' : r = word'[n]
      BY <1>11, CarriedThen
  <2>2. \A x \in Taken : r # word[x]
      BY <1>11 DEF Carried
  <2>3. Fills(t) /\ r = <<t, calls[t]>>
      BY <1>3, <1>6, <2>1, <2>2
  <2> QED BY <2>3 DEF Gains, Fills, PopCas
<1>12. ASSUME NEW r \in Carried \ Carried' PROVE Loses(t, r)
  <2>1. PICK n \in Taken : r = word[n]
      BY <1>12 DEF Carried
  <2>2. \A x \in Taken' : r # word'[x]
      BY <1>12, CarriedThen
  <2>3. ~TakenNext(t, n)
      BY <1>2, <1>3, <2>1, <2>2
  <2>4. CASE Takes(t) /\ n = frame[t].next.index
    <3>1. frame[t].ret \in Taken'
        BY <1>2, <2>4 DEF TakenNext
    <3>2. word'[frame[t].ret] = r
        BY <1>3, <2>1, <2>4
    <3> QED BY <2>2, <3>1, <3>2
  <2>5. CASE Frees(t) /\ n = frame[t].desc
      BY <2>1, <2>5 DEF Loses, Frees, PushCas
  <2> QED BY <2>1, <2>3, <2>4, <2>5 DEF TakenNext
<1> QED BY <1>4, <1>8, <1>10, <1>11, <1>12

\* The inductive invariant.
ReqInv == DataInv /\ Filed /\ Asked /\ EachRequestOnce

\* One step, in the terms of RequestsKept.
Kept ==
    /\ \A r \in Carried' \ Carried :
         \E t \in Thread : pc[t] = "pop_cas" /\ frame[t].back = "alloc" /\ r = <<t, calls[t]>>
    /\ \A r \in Carried \ Carried' :
         \E t \in Thread : pc[t] = "push_cas" /\ hand[t] = frame[t].desc /\ r = word[frame[t].desc]

\* At first nothing is taken.
LEMMA ReqInit == Init /\ LagInit => ReqInv
<1> SUFFICES ASSUME Init, LagInit PROVE ReqInv
    OBVIOUS
<1>1. DataInv /\ TInv
    BY DataInit DEF DataInv
<1>2. PICK ch, tg : Good(ch, tg)
    BY GoodInit
<1>3. \A t \in Thread : pc[t] = "idle" /\ hand[t] = BADINDEX
    BY DEF Init
<1>4. \A t \in Thread : Held(t) = {}
    BY <1>3 DEF Held, PushAt
<1>5. \A q \in Queue : Len(ch[q]) = 1
    BY <1>2, InitLengths
<1>6. \A q \in Queue : Behind(ch, q) = {}
    BY <1>5 DEF Behind
<1>7. \A n : n \notin Taken
    BY <1>2, <1>4, <1>6, TakenIs DEF IsTaken, Good
<1>8. Asked
    BY <1>3 DEF Asked, Asking, PopAt
<1> QED BY <1>1, <1>7, <1>8 DEF ReqInv, Filed, EachRequestOnce

\* Every step keeps it, and keeps the requests.
LEMMA ReqNext ==
    ReqInv /\ Timely /\ Timely' /\ ~strayed'
      /\ [Next /\ LagNext]_<<vars, lags>> => ReqInv' /\ [Kept]_vars
<1> SUFFICES ASSUME ReqInv, Timely, Timely', ~strayed',
                    [Next /\ LagNext]_<<vars, lags>>
             PROVE  ReqInv' /\ [Kept]_vars
    OBVIOUS
<1>0. LinkSwapsFresh /\ PaintSwapsFresh
    BY Fresh DEF ReqInv, DataInv, TInv
<1>1. DataInv'
    BY DataNext DEF ReqInv
<1>2. PICK ch, tg : Good(ch, tg) /\ (\A t \in Thread : OnQueue(t, ch)) /\ Data(ch)
    BY DEF ReqInv, DataInv
<1>3. TInv /\ LagOK /\ TypeOK /\ Shape(ch)
    BY <1>2 DEF ReqInv, DataInv, TInv, Good
<1>4. CASE Next /\ LagNext
  <2>1. PICK t \in Thread : Call(t) \/ Access(t)
      BY <1>4 DEF Next
  <2>2. Links(t) => frame[t].tail.index = ch[frame[t].queue][Len(ch[frame[t].queue])]
      BY <1>0, <1>2, <1>3, LinksLast
  <2>3. PICK ch2, tg2 : Moved(t, ch, ch2) /\ Good(ch2, tg2)'
      BY <1>2, <1>3, <1>4, <2>1, <2>2, GoodStep
  <2>4. Ready(t, ch, tg)
      BY <1>0, <1>2, <1>3 DEF Ready
  <2>5. /\ Filed' /\ Asked' /\ EachRequestOnce'
        /\ \A r \in Carried' \ Carried : Gains(t, r)
        /\ \A r \in Carried \ Carried' : Loses(t, r)
      BY <2>1, <2>3, <2>4, RequestStep DEF ReqInv
  <2>6. Kept
      BY <2>5 DEF Kept, Gains, Loses
  <2> QED BY <1>1, <2>5, <2>6 DEF ReqInv
<1>5. CASE UNCHANGED <<vars, lags>>
  <2>1. UNCHANGED vars
      BY <1>5
  <2>2. Carried' = Carried /\ Taken' = Taken
      BY <2>1 DEF vars, Carried, Taken, Queued, Walk, Follow
  <2>3. Filed' /\ Asked' /\ EachRequestOnce'
      BY <2>1, <2>2 DEF vars, ReqInv, Filed, Asked, EachRequestOnce, Made, Asking
  <2> QED BY <1>1, <2>1, <2>3 DEF ReqInv
<1> QED BY <1>4, <1>5

\* So nothing is carried twice, until a swap strays.
LEMMA ReqAlways == LagSpec /\ []Timely => [](strayed \/ ReqInv)
<1>1. (strayed \/ ReqInv) /\ Timely /\ Timely' /\ [Next /\ LagNext]_<<vars, lags>>
        => (strayed \/ ReqInv)'
    BY ReqNext, StrayStays
<1> QED BY <1>1, ReqInit, PTL DEF LagSpec

\* Until a swap strays, no request is in two of the descriptors that are taken, although
\* mig_dequeue copies it and leaves the old copy where it was.
THEOREM EachRequestOnceHolds == LagSpec /\ []Timely => [](strayed \/ EachRequestOnce)
<1>1. ReqInv => EachRequestOnce
    BY DEF ReqInv
<1> QED BY <1>1, ReqAlways, PTL

\* Until a swap strays, a request enters with the call that takes a descriptor for it
\* and leaves with the call that gives the descriptor back: no other step of any
\* thread, the copying mig_dequeue among them, loses it or brings an old one back.
THEOREM RequestsKeptHolds ==
    LagSpec /\ []Timely =>
        /\ [][strayed' \/ Kept]_vars
        /\ []~strayed => RequestsKept
<1>1. RequestsKept <=> [][Kept]_vars
    BY DEF RequestsKept, Kept
<1>2. (strayed \/ ReqInv) /\ Timely /\ Timely' /\ [Next /\ LagNext]_<<vars, lags>>
        => [strayed' \/ Kept]_vars
    BY ReqNext, StrayStays
<1>3. ~strayed' /\ [strayed' \/ Kept]_vars => [Kept]_vars
    OBVIOUS
<1> QED BY <1>1, <1>2, <1>3, ReqAlways, PTL DEF LagSpec
=============================================================================
