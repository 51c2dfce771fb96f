--------------------------- MODULE MigQueueProofs ---------------------------
(***************************************************************************)
(* What every access of the queues and the freelist does to the thread     *)
(* that makes it, and that all of them keep the types, for any threads,    *)
(* descriptors, queues, colours and counters.                              *)
(***************************************************************************)
EXTENDS MigQueue, TLAPS

-----------------------------------------------------------------------------
(***************************************************************************)
(* Where a thread stands.  TypeOK is not inductive: that an index read     *)
(* from memory names a descriptor, and not BADINDEX, depends on the        *)
(* access the thread stands before and on what it has checked since.       *)
(***************************************************************************)

\* The accesses of each routine.
PopAt == {"pop_top", "pop_next", "pop_cas"}
PushAt == {"push_count", "push_link", "push_cas"}
EnqAt == {"enq_tail", "enq_next", "enq_check", "enq_link", "enq_help", "enq_swing"}
DeqAt == {"deq_head", "deq_tail", "deq_next", "deq_check",
          "deq_empty", "deq_help", "deq_copy", "deq_cas"}
PaintAt == {"paint_head", "paint_tail", "paint_next", "paint_check", "paint_cas", "paint_busy"}

\* What a thread that stands before an access has in its hands.
Role(l, f, d) ==
    /\ l = "idle" => f.ret = BADINDEX
    /\ l \in PopAt =>
         /\ f.ret = BADINDEX /\ d = BADINDEX
         /\ f.back \in {"alloc", "deq"}
         /\ f.back = "deq" => f.queue \in Queue /\ f.next.index # BADINDEX /\ f.head.index # BADINDEX
    /\ l \in {"pop_next", "pop_cas"} => f.top.index # BADINDEX
    /\ l \in PushAt =>
         /\ f.desc # BADINDEX
         /\ f.back \in {"free", "deq"}
         /\ f.back = "free" => f.ret = BADINDEX /\ d \in {f.desc, BADINDEX}
         /\ f.back = "deq" => f.ret # BADINDEX /\ d = BADINDEX
    /\ l \in {"push_link", "push_cas"} => f.new.index = f.desc
    /\ l \in EnqAt => f.queue \in Queue /\ f.ret = BADINDEX /\ f.desc # BADINDEX /\ d = f.desc
    /\ l \in EnqAt \ {"enq_tail"} => f.tail.index # BADINDEX
    /\ l = "enq_help" => f.next.index # BADINDEX
    /\ l = "enq_link" => f.next.index = BADINDEX
    /\ l \in DeqAt => f.queue \in Queue /\ d = BADINDEX
    /\ l \in DeqAt \ {"deq_head"} => f.head.index # BADINDEX
    /\ l \in {"deq_help", "deq_copy", "deq_cas"} => f.next.index # BADINDEX
    /\ l = "deq_help" => f.tail.index = f.head.index
    /\ l = "deq_empty" => f.next.index = BADINDEX
    /\ l \in {"deq_copy", "deq_cas"} => f.ret # BADINDEX
    /\ l \in PaintAt => f.queue \in Queue /\ f.ret = BADINDEX
    /\ l \in PaintAt \ {"paint_head"} => f.head.index # BADINDEX
    /\ l = "paint_cas" => f.next.index = BADINDEX

Roles == \A t \in Thread : Role(pc[t], frame[t], hand[t])

\* The ends of a queue are descriptors, and calls are counted.
Ends == \A q \in Queue : head[q].index # BADINDEX /\ tail[q].index # BADINDEX
Counted == \A t \in Thread : calls[t] <= Calls[t] /\ (pc[t] # "idle" => calls[t] >= 1)

\* The inductive invariant.
TInv == TypeOK /\ Ends /\ Roles /\ Counted

\* Indices and counters.
LEMMA NodeFacts ==
    /\ NDescs \in Nat /\ CountMod \in Nat \ {0} /\ NDescs < CountMod /\ NDescs <= BADINDEX
    /\ BADINDEX \notin Node /\ BADINDEX \in Nat
    /\ \A i \in Index : i # BADINDEX => i \in Node
    /\ Node \subseteq Index /\ Node \subseteq Nat
    /\ \A n \in Count : Bump(n) \in Count
    /\ NoPtr \in Ptr /\ NoLink \in Link /\ 0 \in Color /\ BADINDEX \in Index
    /\ EmptyFrame \in Frame
<1>1. NDescs \in Nat /\ CountMod \in Nat \ {0} /\ NDescs < CountMod /\ NDescs <= BADINDEX /\ 0 \in Color
    BY QueueAssumption
<1>2. BADINDEX \notin Node /\ BADINDEX \in Nat /\ Node \subseteq Nat /\ Node \subseteq Index
    BY <1>1 DEF BADINDEX, Node, Index
<1>3. \A i \in Index : i # BADINDEX => i \in Node
    BY DEF Index
<1>4. \A n \in Count : Bump(n) \in Count
    BY <1>1 DEF Count, Bump
<1>5. NoPtr \in Ptr /\ NoLink \in Link /\ BADINDEX \in Index
    BY <1>1 DEF NoPtr, Ptr, NoLink, Link, Count, Index
<1>6. EmptyFrame \in Frame
    BY <1>1, <1>5 DEF EmptyFrame, Frame
<1> QED BY <1>1, <1>2, <1>3, <1>4, <1>5, <1>6

-----------------------------------------------------------------------------
(***************************************************************************)
(* The effect of each access: what it changes of the shared memory, and    *)
(* where its thread goes, with which frame and what in its hands.  The     *)
(* proofs below, and those of MigQueueChainProofs, go by these lemmas.     *)
(***************************************************************************)

\* The thread t goes to a label with a frame, and something in its caller's hands.
To(t, label, f, d) ==
    /\ pc' = [pc EXCEPT ![t] = label]
    /\ frame' = [frame EXCEPT ![t] = f]
    /\ hand' = [hand EXCEPT ![t] = d]

\* The frame of a call that goes back to its first checkpoint.
Retry(f) == [f EXCEPT !.head = NoPtr, !.tail = NoPtr, !.next = NoLink]

LEMMA CallEffect ==
    ASSUME TypeOK, NEW t \in Thread, Call(t)
    PROVE  /\ UNCHANGED <<word, head, tail, top, aba, result>>
           /\ pc[t] = "idle" /\ calls[t] < Calls[t] /\ calls' = [calls EXCEPT ![t] = @ + 1]
           /\ \/ /\ hand[t] = BADINDEX /\ UNCHANGED next
                 /\ To(t, "pop_top", [EmptyFrame EXCEPT !.back = "alloc"], hand[t])
              \/ /\ hand[t] # BADINDEX /\ UNCHANGED next
                 /\ To(t, "push_count", [EmptyFrame EXCEPT !.desc = hand[t], !.back = "free"], hand[t])
              \/ /\ hand[t] # BADINDEX /\ next' = [next EXCEPT ![hand[t]].index = BADINDEX]
                 /\ \E q \in Queue : To(t, "enq_tail", [EmptyFrame EXCEPT !.queue = q, !.desc = hand[t]],
                      hand[t])
              \/ /\ hand[t] = BADINDEX /\ UNCHANGED next
                 /\ \E q \in Queue : To(t, "deq_head", [EmptyFrame EXCEPT !.queue = q], hand[t])
              \/ /\ UNCHANGED next
                 /\ \E q \in Queue, c \in Color :
                      To(t, "paint_head", [EmptyFrame EXCEPT !.queue = q, !.color = c], hand[t])
<1> USE DEF TypeOK, To, Goto, Enter
<1>1. CASE CallAlloc(t)
    BY <1>1 DEF CallAlloc
<1>2. CASE CallFree(t)
    BY <1>2 DEF CallFree
<1>3. CASE \E q \in Queue : CallEnqueue(t, q)
    BY <1>3 DEF CallEnqueue
<1>4. CASE \E q \in Queue : CallDequeue(t, q)
    BY <1>4 DEF CallDequeue
<1>5. CASE \E q \in Queue, c \in Color : CallPaint(t, q, c)
    BY <1>5 DEF CallPaint
<1> QED BY <1>1, <1>2, <1>3, <1>4, <1>5 DEF Call

LEMMA PushCountEffect ==
    ASSUME TypeOK, NEW t \in Thread, PushCount(t)
    PROVE  /\ UNCHANGED calls /\ UNCHANGED <<next, word, head, tail, top, result>>
           /\ aba' = Bump(aba)
           /\ \E g \in StackColor :
                To(t, "push_link",
                   [frame[t] EXCEPT !.new = [index |-> frame[t].desc, count |-> Bump(aba), color |-> g]],
                     hand[t])
BY DEF TypeOK, To, PushCount, Goto

LEMMA PopTopEffect ==
    ASSUME TypeOK, NEW t \in Thread, PopTop(t)
    PROVE  /\ UNCHANGED calls /\ UNCHANGED shared /\ UNCHANGED result
           /\ \/ top.index # BADINDEX /\ To(t, "pop_next", [frame[t] EXCEPT !.top = top], hand[t])
              \/ top.index = BADINDEX /\ frame[t].back = "alloc" /\ To(t, "idle", EmptyFrame, BADINDEX)
              \/ top.index = BADINDEX /\ frame[t].back # "alloc" /\ To(t, "bug", frame[t], hand[t])
BY DEF TypeOK, To, PopTop, Goto, Return, shared

LEMMA PopNextEffect ==
    ASSUME TypeOK, NEW t \in Thread, PopNext(t)
    PROVE  /\ UNCHANGED calls /\ UNCHANGED shared /\ UNCHANGED result
           /\ To(t, "pop_cas", [frame[t] EXCEPT !.new = next[frame[t].top.index]], hand[t])
BY DEF TypeOK, To, PopNext, Goto, shared

LEMMA PopCasEffect ==
    ASSUME TypeOK, NEW t \in Thread, PopCas(t)
    PROVE  /\ UNCHANGED calls /\ UNCHANGED <<next, head, tail, aba>> /\ UNCHANGED result
           /\ \/ top # frame[t].top /\ To(t, "pop_top", frame[t], hand[t]) /\ UNCHANGED <<top, word>>
              \/ top = frame[t].top /\ frame[t].back = "alloc"
                   /\ To(t, "idle", EmptyFrame, frame[t].top.index) /\ top' = frame[t].new
                   /\ word' = [word EXCEPT ![frame[t].top.index] = <<t, calls[t]>>]
              \/ top = frame[t].top /\ frame[t].back # "alloc"
                   /\ To(t, "deq_copy", [frame[t] EXCEPT !.ret = frame[t].top.index, !.top = NoLink,
                   !.new = NoLink], hand[t]) /\ top' = frame[t].new /\ UNCHANGED word
BY DEF TypeOK, To, PopCas, Goto, Return

LEMMA PushLinkEffect ==
    ASSUME TypeOK, NEW t \in Thread, PushLink(t)
    PROVE  /\ UNCHANGED calls /\ UNCHANGED <<word, head, tail, top, aba>> /\ UNCHANGED result
           /\ To(t, "push_cas", [frame[t] EXCEPT !.top = top], hand[t])
                /\ next' = [next EXCEPT ![frame[t].desc] = top]
BY DEF TypeOK, To, PushLink, Goto

LEMMA PushCasEffect ==
    ASSUME TypeOK, NEW t \in Thread, PushCas(t)
    PROVE  /\ UNCHANGED calls /\ UNCHANGED <<next, word, head, tail, aba>> /\ UNCHANGED result
           /\ \/ top # frame[t].top /\ To(t, "push_link", frame[t], hand[t]) /\ UNCHANGED top
              \/ top = frame[t].top
                   /\ To(t, "idle", EmptyFrame,
                   IF frame[t].back = "deq" THEN frame[t].ret ELSE BADINDEX) /\ top' = frame[t].new
BY DEF TypeOK, To, PushCas, Goto, Return

LEMMA EnqTailEffect ==
    ASSUME TypeOK, NEW t \in Thread, EnqTail(t)
    PROVE  /\ UNCHANGED calls /\ UNCHANGED shared /\ UNCHANGED result
           /\ To(t, "enq_next", [frame[t] EXCEPT !.tail = tail[frame[t].queue]], hand[t])
BY DEF TypeOK, To, EnqTail, Goto, shared

LEMMA EnqNextEffect ==
    ASSUME TypeOK, NEW t \in Thread, EnqNext(t)
    PROVE  /\ UNCHANGED calls /\ UNCHANGED shared /\ UNCHANGED result
           /\ To(t, "enq_check", [frame[t] EXCEPT !.next = next[frame[t].tail.index]], hand[t])
BY DEF TypeOK, To, EnqNext, Goto, shared

LEMMA EnqCheckEffect ==
    ASSUME TypeOK, NEW t \in Thread, EnqCheck(t)
    PROVE  /\ UNCHANGED calls /\ UNCHANGED <<word, head, tail, top, aba>> /\ UNCHANGED result
           /\ \/ frame[t].tail # tail[frame[t].queue] /\ To(t, "enq_tail", Retry(frame[t]), hand[t])
                   /\ UNCHANGED next
              \/ frame[t].tail = tail[frame[t].queue] /\ frame[t].next.index = BADINDEX
                   /\ To(t, "enq_link", frame[t], hand[t])
                   /\ next' = [next EXCEPT ![frame[t].desc].color = frame[t].next.color]
              \/ frame[t].tail = tail[frame[t].queue] /\ frame[t].next.index # BADINDEX
                   /\ To(t, "enq_help", frame[t], hand[t]) /\ UNCHANGED next
BY DEF TypeOK, To, EnqCheck, Goto, Restart, Retry

LEMMA EnqLinkEffect ==
    ASSUME TypeOK, NEW t \in Thread, EnqLink(t)
    PROVE  /\ UNCHANGED calls /\ UNCHANGED <<word, head, tail, top, aba>>
           /\ \/ next[frame[t].tail.index] = frame[t].next /\ To(t, "enq_swing", frame[t], hand[t])
                   /\ next' = [next EXCEPT ![frame[t].tail.index] = [index |-> frame[t].desc,
                   count |-> Bump(frame[t].next.count), color |-> frame[t].next.color]]
                   /\ result' = [result EXCEPT ![t] = [color |-> frame[t].next.color]]
              \/ next[frame[t].tail.index] # frame[t].next
                   /\ To(t, "enq_tail", Retry(frame[t]), hand[t]) /\ UNCHANGED <<next, result>>
BY DEF TypeOK, To, EnqLink, Goto, Restart, Retry, LinkMatches

LEMMA EnqHelpEffect ==
    ASSUME TypeOK, NEW t \in Thread, EnqHelp(t)
    PROVE  /\ UNCHANGED calls /\ UNCHANGED <<next, word, head, top, aba>> /\ UNCHANGED result
           /\ SwingTail(t, frame[t].next.index) /\ To(t, "enq_tail", Retry(frame[t]), hand[t])
BY DEF TypeOK, To, EnqHelp, Goto, Restart, Retry

LEMMA EnqSwingEffect ==
    ASSUME TypeOK, NEW t \in Thread, EnqSwing(t)
    PROVE  /\ UNCHANGED calls /\ UNCHANGED <<next, word, head, top, aba>> /\ UNCHANGED result
           /\ SwingTail(t, frame[t].desc) /\ To(t, "idle", EmptyFrame, BADINDEX)
BY DEF TypeOK, To, EnqSwing, Goto, Return

LEMMA DeqHeadEffect ==
    ASSUME TypeOK, NEW t \in Thread, DeqHead(t)
    PROVE  /\ UNCHANGED calls /\ UNCHANGED shared /\ UNCHANGED result
           /\ To(t, "deq_tail", [frame[t] EXCEPT !.head = head[frame[t].queue]], hand[t])
BY DEF TypeOK, To, DeqHead, Goto, shared

LEMMA DeqTailEffect ==
    ASSUME TypeOK, NEW t \in Thread, DeqTail(t)
    PROVE  /\ UNCHANGED calls /\ UNCHANGED shared /\ UNCHANGED result
           /\ To(t, "deq_next", [frame[t] EXCEPT !.tail = tail[frame[t].queue]], hand[t])
BY DEF TypeOK, To, DeqTail, Goto, shared

LEMMA DeqNextEffect ==
    ASSUME TypeOK, NEW t \in Thread, DeqNext(t)
    PROVE  /\ UNCHANGED calls /\ UNCHANGED shared /\ UNCHANGED result
           /\ To(t, "deq_check", [frame[t] EXCEPT !.next = next[frame[t].head.index]], hand[t])
BY DEF TypeOK, To, DeqNext, Goto, shared

LEMMA DeqCheckEffect ==
    ASSUME TypeOK, NEW t \in Thread, DeqCheck(t)
    PROVE  /\ UNCHANGED calls /\ UNCHANGED shared /\ UNCHANGED result
           /\ \/ frame[t].head # head[frame[t].queue] /\ To(t, "deq_head", Retry(frame[t]), hand[t])
              \/ /\ frame[t].head = head[frame[t].queue]
                 /\ frame[t].tail.index = frame[t].head.index
                 /\ \/ frame[t].next.index = BADINDEX /\ To(t, "deq_empty", frame[t], hand[t])
                    \/ frame[t].next.index # BADINDEX /\ To(t, "deq_help", frame[t], hand[t])
              \/ /\ frame[t].head = head[frame[t].queue]
                 /\ frame[t].tail.index # frame[t].head.index
                 /\ \/ frame[t].next.index = BADINDEX /\ To(t, "bug", frame[t], hand[t])
                    \/ /\ frame[t].next.index # BADINDEX /\ frame[t].ret = BADINDEX
                       /\ To(t, "pop_top", [frame[t] EXCEPT !.back = "deq"], hand[t])
                    \/ /\ frame[t].next.index # BADINDEX /\ frame[t].ret # BADINDEX
                       /\ To(t, "deq_copy", frame[t], hand[t])
<1>1. UNCHANGED calls /\ UNCHANGED shared /\ UNCHANGED result
    BY DEF DeqCheck, shared
<1>2. [frame[t] EXCEPT !.back = frame[t].back] = frame[t] /\ [frame EXCEPT ![t] = frame[t]] = frame
    BY DEF TypeOK, Frame
<1>3. CASE frame[t].head # head[frame[t].queue]
    BY <1>1, <1>3 DEF DeqCheck, TypeOK, To, Goto, Restart, Retry
<1>4. CASE frame[t].head = head[frame[t].queue] /\ DeqBranch(frame[t]) = "pop_top"
  <2>1. frame[t].tail.index # frame[t].head.index /\ frame[t].next.index # BADINDEX
          /\ frame[t].ret = BADINDEX
      BY <1>4 DEF DeqBranch
  <2>2. To(t, "pop_top", [frame[t] EXCEPT !.back = "deq"], hand[t])
      BY <1>4 DEF DeqCheck, TypeOK, To, Goto
  <2> QED BY <1>1, <1>4, <2>1, <2>2
<1>5. CASE frame[t].head = head[frame[t].queue] /\ DeqBranch(frame[t]) # "pop_top"
  <2>1. To(t, DeqBranch(frame[t]), frame[t], hand[t])
      BY <1>1, <1>2, <1>5 DEF DeqCheck, TypeOK, To, Goto
  <2> QED BY <1>1, <1>5, <2>1 DEF DeqBranch
<1> QED BY <1>3, <1>4, <1>5

LEMMA DeqEmptyEffect ==
    ASSUME TypeOK, NEW t \in Thread, DeqEmpty(t)
    PROVE  /\ UNCHANGED calls /\ UNCHANGED shared /\ UNCHANGED result
           /\ \/ frame[t].ret = BADINDEX /\ To(t, "idle", EmptyFrame, BADINDEX)
              \/ frame[t].ret # BADINDEX
                   /\ To(t, "push_count", [EmptyFrame EXCEPT !.desc = frame[t].ret, !.back = "free"],
                   hand[t])
BY DEF TypeOK, To, DeqEmpty, Goto, Return, shared

LEMMA DeqHelpEffect ==
    ASSUME TypeOK, NEW t \in Thread, DeqHelp(t)
    PROVE  /\ UNCHANGED calls /\ UNCHANGED <<next, word, head, top, aba>> /\ UNCHANGED result
           /\ SwingTail(t, frame[t].next.index) /\ To(t, "deq_head", Retry(frame[t]), hand[t])
BY DEF TypeOK, To, DeqHelp, Goto, Restart, Retry

LEMMA DeqCopyEffect ==
    ASSUME TypeOK, NEW t \in Thread, DeqCopy(t)
    PROVE  /\ UNCHANGED calls /\ UNCHANGED <<head, tail, top, aba>> /\ UNCHANGED result
           /\ To(t, "deq_cas", frame[t], hand[t])
                /\ word' = [word EXCEPT ![frame[t].ret] = word[frame[t].next.index]]
                /\ next' = [next EXCEPT ![frame[t].ret].color = next[frame[t].next.index].color]
BY DEF TypeOK, To, DeqCopy, Goto

LEMMA DeqCasEffect ==
    ASSUME TypeOK, NEW t \in Thread, DeqCas(t)
    PROVE  /\ UNCHANGED calls /\ UNCHANGED <<next, word, tail, top, aba>>
           /\ \/ head[frame[t].queue] = frame[t].head
                   /\ To(t, "push_count", [EmptyFrame EXCEPT !.ret = frame[t].ret,
                   !.desc = frame[t].head.index, !.back = "deq"], hand[t])
                   /\ head' = [head EXCEPT ![frame[t].queue] = [index |-> frame[t].next.index,
                   count |-> Bump(frame[t].head.count)]]
                   /\ result' = [result EXCEPT ![t] = [item |-> word[frame[t].ret],
                   color |-> next[frame[t].ret].color]]
              \/ head[frame[t].queue] # frame[t].head /\ To(t, "deq_head", Retry(frame[t]), hand[t])
                   /\ UNCHANGED <<head, result>>
BY DEF TypeOK, To, DeqCas, Goto, Restart, Retry

LEMMA PaintHeadEffect ==
    ASSUME TypeOK, NEW t \in Thread, PaintHead(t)
    PROVE  /\ UNCHANGED calls /\ UNCHANGED shared /\ UNCHANGED result
           /\ To(t, "paint_tail", [frame[t] EXCEPT !.head = head[frame[t].queue]], hand[t])
BY DEF TypeOK, To, PaintHead, Goto, shared

LEMMA PaintTailEffect ==
    ASSUME TypeOK, NEW t \in Thread, PaintTail(t)
    PROVE  /\ UNCHANGED calls /\ UNCHANGED shared /\ UNCHANGED result
           /\ To(t, "paint_next", [frame[t] EXCEPT !.tail = tail[frame[t].queue]], hand[t])
BY DEF TypeOK, To, PaintTail, Goto, shared

LEMMA PaintNextEffect ==
    ASSUME TypeOK, NEW t \in Thread, PaintNext(t)
    PROVE  /\ UNCHANGED calls /\ UNCHANGED shared /\ UNCHANGED result
           /\ To(t, "paint_check", [frame[t] EXCEPT !.next = next[frame[t].head.index]], hand[t])
BY DEF TypeOK, To, PaintNext, Goto, shared

LEMMA PaintCheckEffect ==
    ASSUME TypeOK, NEW t \in Thread, PaintCheck(t)
    PROVE  /\ UNCHANGED calls /\ UNCHANGED shared /\ UNCHANGED result
           /\ \/ frame[t].head = head[frame[t].queue] /\ PaintSeesEmpty(frame[t])
                   /\ To(t, "paint_cas", frame[t], hand[t])
              \/ frame[t].head = head[frame[t].queue] /\ ~PaintSeesEmpty(frame[t])
                   /\ To(t, "paint_busy", frame[t], hand[t])
              \/ frame[t].head # head[frame[t].queue] /\ To(t, "paint_head", Retry(frame[t]), hand[t])
BY DEF TypeOK, To, PaintCheck, Goto, Restart, Retry, shared

LEMMA PaintCasEffect ==
    ASSUME TypeOK, NEW t \in Thread, PaintCas(t)
    PROVE  /\ UNCHANGED calls /\ UNCHANGED <<word, head, tail, top, aba>>
           /\ \/ next[frame[t].head.index] = frame[t].next /\ To(t, "idle", EmptyFrame, hand[t])
                   /\ next' = [next EXCEPT ![frame[t].head.index] = [@ EXCEPT !.color = frame[t].color,
                   !.count = Bump(frame[t].next.count)]]
                   /\ result' = [result EXCEPT ![t] = [color |-> frame[t].next.color]]
              \/ next[frame[t].head.index] # frame[t].next
                   /\ To(t, "paint_head", Retry(frame[t]), hand[t]) /\ UNCHANGED <<next, result>>
BY DEF TypeOK, To, PaintCas, Goto, Return, Restart, Retry

LEMMA PaintBusyEffect ==
    ASSUME TypeOK, NEW t \in Thread, PaintBusy(t)
    PROVE  /\ UNCHANGED calls /\ UNCHANGED shared /\ UNCHANGED result
           /\ To(t, "idle", EmptyFrame, hand[t])
BY DEF TypeOK, To, PaintBusy, Goto, Return, shared

-----------------------------------------------------------------------------
(***************************************************************************)
(* Types.                                                                  *)
(***************************************************************************)

\* A frame with one register overwritten is a frame.
LEMMA FrameWith ==
    ASSUME NEW f \in Frame
    PROVE  /\ f.queue \in Queue \cup {0} /\ f.color \in Color /\ f.desc \in Index /\ f.ret \in Index
           /\ f.head \in Ptr /\ f.tail \in Ptr /\ f.next \in Link /\ f.top \in Link /\ f.new \in Link
           /\ f.back \in {"idle", "alloc", "free", "deq"}
           /\ \A q \in Queue : [f EXCEPT !.queue = q] \in Frame
           /\ \A c \in Color : [f EXCEPT !.color = c] \in Frame
           /\ \A n \in Index : [f EXCEPT !.desc = n] \in Frame
           /\ \A n \in Index : [f EXCEPT !.ret = n] \in Frame
           /\ \A p \in Ptr : [f EXCEPT !.head = p] \in Frame
           /\ \A p \in Ptr : [f EXCEPT !.tail = p] \in Frame
           /\ \A l \in Link : [f EXCEPT !.next = l] \in Frame
           /\ \A l \in Link : [f EXCEPT !.top = l] \in Frame
           /\ \A l \in Link : [f EXCEPT !.new = l] \in Frame
           /\ \A b \in {"idle", "alloc", "free", "deq"} : [f EXCEPT !.back = b] \in Frame
BY DEF Frame

\* The registers of a frame.
Fields(f) ==
    /\ f.queue \in Queue \cup {0} /\ f.color \in Color /\ f.desc \in Index /\ f.ret \in Index
    /\ f.back \in {"idle", "alloc", "free", "deq"}
    /\ f.head \in Ptr /\ f.tail \in Ptr /\ f.next \in Link /\ f.top \in Link /\ f.new \in Link
    /\ f.head.index \in Index /\ f.head.count \in Count
    /\ f.tail.index \in Index /\ f.tail.count \in Count
    /\ f.next.index \in Index /\ f.next.count \in Count /\ f.next.color \in Color
    /\ f.top.index \in Index /\ f.top.count \in Count
    /\ f.new.index \in Index /\ f.new.count \in Count

LEMMA FrameFields == ASSUME NEW f \in Frame PROVE Fields(f)
BY DEF Frame, Fields, Ptr, Link

\* The types of what threads share.
SharedOK ==
    /\ next \in [Node -> Link] /\ word \in [Node -> Item \cup {NoItem}]
    /\ head \in [Queue -> Ptr] /\ tail \in [Queue -> Ptr] /\ top \in Link /\ aba \in Count
    /\ result \in [Thread -> [item : Item \cup {NoItem},
         color : Color] \cup [color : Color] \cup {NoResult}]
    /\ Ends

\* A step of t keeps the invariant when what it writes, and where it goes, fits.
LEMMA ToTInv ==
    ASSUME TInv, SharedOK', Counted', calls' \in [Thread -> Nat], Witness,
           NEW t \in Thread, NEW l, NEW f, NEW d, To(t, l, f, d),
           l \in Labels, f \in Frame, d \in Index, Role(l, f, d)
    PROVE  TInv'
<1>1. pc' \in [Thread -> Labels] /\ frame' \in [Thread -> Frame] /\ hand' \in [Thread -> Index]
    BY DEF TInv, TypeOK, To
<1>2. seen' \in [Thread -> BOOLEAN]
    BY DEF Witness
<1>3. ASSUME NEW u \in Thread PROVE Role(pc'[u], frame'[u], hand'[u])
  <2>1. CASE u = t
      BY <2>1 DEF To, TInv, TypeOK
  <2>2. CASE u # t
    <3>1. pc'[u] = pc[u] /\ frame'[u] = frame[u] /\ hand'[u] = hand[u]
        BY <2>2 DEF To, TInv, TypeOK
    <3> QED BY <3>1 DEF TInv, Roles
  <2> QED BY <2>1, <2>2
<1> QED BY <1>1, <1>2, <1>3 DEF TInv, TypeOK, Roles, SharedOK

\* No step but a call touches the counts of calls.
LEMMA ToCounted ==
    ASSUME TInv, NEW t \in Thread, NEW l, NEW f, NEW d, To(t, l, f, d), pc[t] # "idle", UNCHANGED calls
    PROVE  Counted' /\ calls' \in [Thread -> Nat]
BY DEF TInv, TypeOK, Counted, To

\* One access after the other.
LEMMA PopTopType == ASSUME TInv, NEW t \in Thread, PopTop(t), Witness PROVE TInv'
<1>1. /\ TypeOK /\ Ends /\ pc[t] = "pop_top" /\ frame[t] \in Frame /\ hand[t] \in Index
      /\ Role("pop_top", frame[t], hand[t])
    BY DEF TInv, TypeOK, Roles, PopTop
<1>0. SharedOK /\ Fields(frame[t])
    BY <1>1, FrameFields DEF SharedOK, TypeOK, TInv
<1>2. SharedOK'
    BY <1>1, PopTopEffect DEF SharedOK, TypeOK, Ends, shared
<1>3. CASE top.index # BADINDEX
  <2>1. To(t, "pop_next", [frame[t] EXCEPT !.top = top], hand[t]) /\ UNCHANGED calls
      BY <1>1, <1>2, <1>3, PopTopEffect
  <2>2. [frame[t] EXCEPT !.top = top] \in Frame /\ hand[t] \in Index /\ "pop_next" \in Labels
      BY <1>0, <1>1, NodeFacts, FrameWith DEF SharedOK, Fields, Retry, Labels, Role, PopAt, PushAt,
         EnqAt, DeqAt, PaintAt
  <2>3. Role("pop_next", [frame[t] EXCEPT !.top = top], hand[t])
      BY <1>0, <1>1, <1>2, <1>3, NodeFacts DEF SharedOK, Fields, Ends, Role, PopAt, PushAt, EnqAt, DeqAt,
         PaintAt, Retry, EmptyFrame, Ptr, Link
  <2>4. Counted' /\ calls' \in [Thread -> Nat]
      BY <1>1, <2>1, ToCounted
  <2> QED BY <1>2, <1>3, <2>1, <2>2, <2>3, <2>4, ToTInv
<1>4. CASE top.index = BADINDEX /\ frame[t].back = "alloc"
  <2>1. To(t, "idle", EmptyFrame, BADINDEX) /\ UNCHANGED calls
      BY <1>1, <1>2, <1>4, PopTopEffect
  <2>2. EmptyFrame \in Frame /\ BADINDEX \in Index /\ "idle" \in Labels
      BY <1>0, <1>1, NodeFacts, FrameWith DEF SharedOK, Fields, Retry, Labels, Role, PopAt, PushAt,
         EnqAt, DeqAt, PaintAt
  <2>3. Role("idle", EmptyFrame, BADINDEX)
      BY <1>0, <1>1, <1>2, <1>4, NodeFacts DEF SharedOK, Fields, Ends, Role, PopAt, PushAt, EnqAt, DeqAt,
         PaintAt, Retry, EmptyFrame, Ptr, Link
  <2>4. Counted' /\ calls' \in [Thread -> Nat]
      BY <1>1, <2>1, ToCounted
  <2> QED BY <1>2, <1>4, <2>1, <2>2, <2>3, <2>4, ToTInv
<1>5. CASE top.index = BADINDEX /\ frame[t].back # "alloc"
  <2>1. To(t, "bug", frame[t], hand[t]) /\ UNCHANGED calls
      BY <1>1, <1>2, <1>5, PopTopEffect
  <2>2. frame[t] \in Frame /\ hand[t] \in Index /\ "bug" \in Labels
      BY <1>0, <1>1, NodeFacts, FrameWith DEF SharedOK, Fields, Retry, Labels, Role, PopAt, PushAt,
         EnqAt, DeqAt, PaintAt
  <2>3. Role("bug", frame[t], hand[t])
      BY <1>0, <1>1, <1>2, <1>5, NodeFacts DEF SharedOK, Fields, Ends, Role, PopAt, PushAt, EnqAt, DeqAt,
         PaintAt, Retry, EmptyFrame, Ptr, Link
  <2>4. Counted' /\ calls' \in [Thread -> Nat]
      BY <1>1, <2>1, ToCounted
  <2> QED BY <1>2, <1>5, <2>1, <2>2, <2>3, <2>4, ToTInv
<1> QED BY <1>1, <1>3, <1>4, <1>5

LEMMA PopNextType == ASSUME TInv, NEW t \in Thread, PopNext(t), Witness PROVE TInv'
<1>1. /\ TypeOK /\ Ends /\ pc[t] = "pop_next" /\ frame[t] \in Frame /\ hand[t] \in Index
      /\ Role("pop_next", frame[t], hand[t])
    BY DEF TInv, TypeOK, Roles, PopNext
<1>0. SharedOK /\ Fields(frame[t])
    BY <1>1, FrameFields DEF SharedOK, TypeOK, TInv
<1>2. SharedOK'
    BY <1>1, PopNextEffect DEF SharedOK, TypeOK, Ends, shared
<1> QED
  <2>1. To(t, "pop_cas", [frame[t] EXCEPT !.new = next[frame[t].top.index]], hand[t]) /\ UNCHANGED calls
      BY <1>1, <1>2, PopNextEffect
  <2>2. [frame[t] EXCEPT !.new = next[frame[t].top.index]] \in Frame /\ hand[t] \in Index
          /\ "pop_cas" \in Labels
      BY <1>0, <1>1, NodeFacts, FrameWith DEF SharedOK, Fields, Retry, Labels, Role, PopAt, PushAt,
         EnqAt, DeqAt, PaintAt
  <2>3. Role("pop_cas", [frame[t] EXCEPT !.new = next[frame[t].top.index]], hand[t])
      BY <1>0, <1>1, <1>2, NodeFacts DEF SharedOK, Fields, Ends, Role, PopAt, PushAt, EnqAt, DeqAt,
         PaintAt, Retry, EmptyFrame, Ptr, Link
  <2>4. Counted' /\ calls' \in [Thread -> Nat]
      BY <1>1, <2>1, ToCounted
  <2> QED BY <1>2, <2>1, <2>2, <2>3, <2>4, ToTInv

LEMMA PopCasType == ASSUME TInv, NEW t \in Thread, PopCas(t), Witness PROVE TInv'
<1>1. /\ TypeOK /\ Ends /\ pc[t] = "pop_cas" /\ frame[t] \in Frame /\ hand[t] \in Index
      /\ Role("pop_cas", frame[t], hand[t])
    BY DEF TInv, TypeOK, Roles, PopCas
<1>0. SharedOK /\ Fields(frame[t])
    BY <1>1, FrameFields DEF SharedOK, TypeOK, TInv
<1>2. SharedOK'
  <2>1. top' \in Link /\ word' \in [Node -> Item \cup {NoItem}]
    <3>1. calls[t] \in 1 .. Calls[t] /\ <<t, calls[t]>> \in Item
        BY <1>1, QueueAssumption DEF TInv, Counted, TypeOK, Item
    <3>2. frame[t].top.index \in Node
        BY <1>0, <1>1, NodeFacts DEF Fields, Role, PopAt, PushAt, EnqAt, DeqAt, PaintAt
    <3> QED BY <1>0, <1>1, <3>1, <3>2, PopCasEffect DEF SharedOK, Fields
  <2> QED BY <1>0, <1>1, <2>1, PopCasEffect DEF SharedOK, Ends
<1>3. CASE top # frame[t].top
  <2>1. To(t, "pop_top", frame[t], hand[t]) /\ UNCHANGED calls
      BY <1>1, <1>2, <1>3, PopCasEffect
  <2>2. frame[t] \in Frame /\ hand[t] \in Index /\ "pop_top" \in Labels
      BY <1>0, <1>1, NodeFacts, FrameWith DEF SharedOK, Fields, Retry, Labels, Role, PopAt, PushAt,
         EnqAt, DeqAt, PaintAt
  <2>3. Role("pop_top", frame[t], hand[t])
      BY <1>0, <1>1, <1>2, <1>3, NodeFacts DEF SharedOK, Fields, Ends, Role, PopAt, PushAt, EnqAt, DeqAt,
         PaintAt, Retry, EmptyFrame, Ptr, Link
  <2>4. Counted' /\ calls' \in [Thread -> Nat]
      BY <1>1, <2>1, ToCounted
  <2> QED BY <1>2, <1>3, <2>1, <2>2, <2>3, <2>4, ToTInv
<1>4. CASE top = frame[t].top /\ frame[t].back = "alloc"
  <2>1. To(t, "idle", EmptyFrame, frame[t].top.index) /\ UNCHANGED calls
      BY <1>1, <1>2, <1>4, PopCasEffect
  <2>2. EmptyFrame \in Frame /\ frame[t].top.index \in Index /\ "idle" \in Labels
      BY <1>0, <1>1, NodeFacts, FrameWith DEF SharedOK, Fields, Retry, Labels, Role, PopAt, PushAt,
         EnqAt, DeqAt, PaintAt
  <2>3. Role("idle", EmptyFrame, frame[t].top.index)
      BY <1>0, <1>1, <1>2, <1>4, NodeFacts DEF SharedOK, Fields, Ends, Role, PopAt, PushAt, EnqAt, DeqAt,
         PaintAt, Retry, EmptyFrame, Ptr, Link
  <2>4. Counted' /\ calls' \in [Thread -> Nat]
      BY <1>1, <2>1, ToCounted
  <2> QED BY <1>2, <1>4, <2>1, <2>2, <2>3, <2>4, ToTInv
<1>5. CASE top = frame[t].top /\ frame[t].back # "alloc"
  <2>1. To(t, "deq_copy", [frame[t] EXCEPT !.ret = frame[t].top.index, !.top = NoLink, !.new = NoLink],
          hand[t]) /\ UNCHANGED calls
      BY <1>1, <1>2, <1>5, PopCasEffect
  <2>2. [frame[t] EXCEPT !.ret = frame[t].top.index, !.top = NoLink, !.new = NoLink] \in Frame
          /\ hand[t] \in Index /\ "deq_copy" \in Labels
      BY <1>0, <1>1, NodeFacts, FrameWith DEF SharedOK, Fields, Retry, Labels, Role, PopAt, PushAt,
         EnqAt, DeqAt, PaintAt
  <2>3. Role("deq_copy", [frame[t] EXCEPT !.ret = frame[t].top.index, !.top = NoLink, !.new = NoLink],
          hand[t])
      BY <1>0, <1>1, <1>2, <1>5, NodeFacts DEF SharedOK, Fields, Ends, Role, PopAt, PushAt, EnqAt, DeqAt,
         PaintAt, Retry, EmptyFrame, Ptr, Link
  <2>4. Counted' /\ calls' \in [Thread -> Nat]
      BY <1>1, <2>1, ToCounted
  <2> QED BY <1>2, <1>5, <2>1, <2>2, <2>3, <2>4, ToTInv
<1> QED BY <1>1, <1>3, <1>4, <1>5

LEMMA PushLinkType == ASSUME TInv, NEW t \in Thread, PushLink(t), Witness PROVE TInv'
<1>1. /\ TypeOK /\ Ends /\ pc[t] = "push_link" /\ frame[t] \in Frame /\ hand[t] \in Index
      /\ Role("push_link", frame[t], hand[t])
    BY DEF TInv, TypeOK, Roles, PushLink
<1>0. SharedOK /\ Fields(frame[t])
    BY <1>1, FrameFields DEF SharedOK, TypeOK, TInv
<1>2. SharedOK'
  <2>1. next' \in [Node -> Link]
      BY <1>0, <1>1, PushLinkEffect, NodeFacts DEF SharedOK, Fields, Role, PopAt, PushAt, EnqAt, DeqAt,
         PaintAt
  <2> QED BY <1>0, <1>1, <2>1, PushLinkEffect DEF SharedOK, Ends
<1> QED
  <2>1. To(t, "push_cas", [frame[t] EXCEPT !.top = top], hand[t]) /\ UNCHANGED calls
      BY <1>1, <1>2, PushLinkEffect
  <2>2. [frame[t] EXCEPT !.top = top] \in Frame /\ hand[t] \in Index /\ "push_cas" \in Labels
      BY <1>0, <1>1, NodeFacts, FrameWith DEF SharedOK, Fields, Retry, Labels, Role, PopAt, PushAt,
         EnqAt, DeqAt, PaintAt
  <2>3. Role("push_cas", [frame[t] EXCEPT !.top = top], hand[t])
      BY <1>0, <1>1, <1>2, NodeFacts DEF SharedOK, Fields, Ends, Role, PopAt, PushAt, EnqAt, DeqAt,
         PaintAt, Retry, EmptyFrame, Ptr, Link
  <2>4. Counted' /\ calls' \in [Thread -> Nat]
      BY <1>1, <2>1, ToCounted
  <2> QED BY <1>2, <2>1, <2>2, <2>3, <2>4, ToTInv

LEMMA PushCasType == ASSUME TInv, NEW t \in Thread, PushCas(t), Witness PROVE TInv'
<1>1. /\ TypeOK /\ Ends /\ pc[t] = "push_cas" /\ frame[t] \in Frame /\ hand[t] \in Index
      /\ Role("push_cas", frame[t], hand[t])
    BY DEF TInv, TypeOK, Roles, PushCas
<1>0. SharedOK /\ Fields(frame[t])
    BY <1>1, FrameFields DEF SharedOK, TypeOK, TInv
<1>2. SharedOK'
  BY <1>0, <1>1, PushCasEffect, NodeFacts
       DEF SharedOK, Ends, Fields, Role, PopAt, PushAt, EnqAt, DeqAt, PaintAt, Link, Ptr
<1>3. CASE top # frame[t].top
  <2>1. To(t, "push_link", frame[t], hand[t]) /\ UNCHANGED calls
      BY <1>1, <1>2, <1>3, PushCasEffect
  <2>2. frame[t] \in Frame /\ hand[t] \in Index /\ "push_link" \in Labels
      BY <1>0, <1>1, NodeFacts, FrameWith DEF SharedOK, Fields, Retry, Labels, Role, PopAt, PushAt,
         EnqAt, DeqAt, PaintAt
  <2>3. Role("push_link", frame[t], hand[t])
      BY <1>0, <1>1, <1>2, <1>3, NodeFacts DEF SharedOK, Fields, Ends, Role, PopAt, PushAt, EnqAt, DeqAt,
         PaintAt, Retry, EmptyFrame, Ptr, Link
  <2>4. Counted' /\ calls' \in [Thread -> Nat]
      BY <1>1, <2>1, ToCounted
  <2> QED BY <1>2, <1>3, <2>1, <2>2, <2>3, <2>4, ToTInv
<1>4. CASE top = frame[t].top
  <2>1. To(t, "idle", EmptyFrame, (IF frame[t].back = "deq" THEN frame[t].ret ELSE BADINDEX))
          /\ UNCHANGED calls
      BY <1>1, <1>2, <1>4, PushCasEffect
  <2>2. EmptyFrame \in Frame /\ (IF frame[t].back = "deq" THEN frame[t].ret ELSE BADINDEX) \in Index
          /\ "idle" \in Labels
      BY <1>0, <1>1, NodeFacts, FrameWith DEF SharedOK, Fields, Retry, Labels, Role, PopAt, PushAt,
         EnqAt, DeqAt, PaintAt
  <2>3. Role("idle", EmptyFrame, (IF frame[t].back = "deq" THEN frame[t].ret ELSE BADINDEX))
      BY <1>0, <1>1, <1>2, <1>4, NodeFacts DEF SharedOK, Fields, Ends, Role, PopAt, PushAt, EnqAt, DeqAt,
         PaintAt, Retry, EmptyFrame, Ptr, Link
  <2>4. Counted' /\ calls' \in [Thread -> Nat]
      BY <1>1, <2>1, ToCounted
  <2> QED BY <1>2, <1>4, <2>1, <2>2, <2>3, <2>4, ToTInv
<1> QED BY <1>1, <1>3, <1>4

LEMMA EnqTailType == ASSUME TInv, NEW t \in Thread, EnqTail(t), Witness PROVE TInv'
<1>1. /\ TypeOK /\ Ends /\ pc[t] = "enq_tail" /\ frame[t] \in Frame /\ hand[t] \in Index
      /\ Role("enq_tail", frame[t], hand[t])
    BY DEF TInv, TypeOK, Roles, EnqTail
<1>0. SharedOK /\ Fields(frame[t])
    BY <1>1, FrameFields DEF SharedOK, TypeOK, TInv
<1>2. SharedOK'
    BY <1>1, EnqTailEffect DEF SharedOK, TypeOK, Ends, shared
<1> QED
  <2>1. To(t, "enq_next", [frame[t] EXCEPT !.tail = tail[frame[t].queue]], hand[t]) /\ UNCHANGED calls
      BY <1>1, <1>2, EnqTailEffect
  <2>2. [frame[t] EXCEPT !.tail = tail[frame[t].queue]] \in Frame /\ hand[t] \in Index
          /\ "enq_next" \in Labels
      BY <1>0, <1>1, NodeFacts, FrameWith DEF SharedOK, Fields, Retry, Labels, Role, PopAt, PushAt,
         EnqAt, DeqAt, PaintAt
  <2>3. Role("enq_next", [frame[t] EXCEPT !.tail = tail[frame[t].queue]], hand[t])
      BY <1>0, <1>1, <1>2, NodeFacts DEF SharedOK, Fields, Ends, Role, PopAt, PushAt, EnqAt, DeqAt,
         PaintAt, Retry, EmptyFrame, Ptr, Link
  <2>4. Counted' /\ calls' \in [Thread -> Nat]
      BY <1>1, <2>1, ToCounted
  <2> QED BY <1>2, <2>1, <2>2, <2>3, <2>4, ToTInv

LEMMA EnqNextType == ASSUME TInv, NEW t \in Thread, EnqNext(t), Witness PROVE TInv'
<1>1. /\ TypeOK /\ Ends /\ pc[t] = "enq_next" /\ frame[t] \in Frame /\ hand[t] \in Index
      /\ Role("enq_next", frame[t], hand[t])
    BY DEF TInv, TypeOK, Roles, EnqNext
<1>0. SharedOK /\ Fields(frame[t])
    BY <1>1, FrameFields DEF SharedOK, TypeOK, TInv
<1>2. SharedOK'
    BY <1>1, EnqNextEffect DEF SharedOK, TypeOK, Ends, shared
<1> QED
  <2>1. To(t, "enq_check", [frame[t] EXCEPT !.next = next[frame[t].tail.index]], hand[t])
          /\ UNCHANGED calls
      BY <1>1, <1>2, EnqNextEffect
  <2>2. [frame[t] EXCEPT !.next = next[frame[t].tail.index]] \in Frame /\ hand[t] \in Index
          /\ "enq_check" \in Labels
      BY <1>0, <1>1, NodeFacts, FrameWith DEF SharedOK, Fields, Retry, Labels, Role, PopAt, PushAt,
         EnqAt, DeqAt, PaintAt
  <2>3. Role("enq_check", [frame[t] EXCEPT !.next = next[frame[t].tail.index]], hand[t])
      BY <1>0, <1>1, <1>2, NodeFacts DEF SharedOK, Fields, Ends, Role, PopAt, PushAt, EnqAt, DeqAt,
         PaintAt, Retry, EmptyFrame, Ptr, Link
  <2>4. Counted' /\ calls' \in [Thread -> Nat]
      BY <1>1, <2>1, ToCounted
  <2> QED BY <1>2, <2>1, <2>2, <2>3, <2>4, ToTInv

LEMMA EnqCheckType == ASSUME TInv, NEW t \in Thread, EnqCheck(t), Witness PROVE TInv'
<1>1. /\ TypeOK /\ Ends /\ pc[t] = "enq_check" /\ frame[t] \in Frame /\ hand[t] \in Index
      /\ Role("enq_check", frame[t], hand[t])
    BY DEF TInv, TypeOK, Roles, EnqCheck
<1>0. SharedOK /\ Fields(frame[t])
    BY <1>1, FrameFields DEF SharedOK, TypeOK, TInv
<1>2. SharedOK'
  <2>1. \A n \in Node : [next[n] EXCEPT !.color = frame[t].next.color] \in Link
      BY <1>0 DEF SharedOK, Fields, Link
  <2>3. frame[t].desc \in Node
      BY <1>0, <1>1, NodeFacts DEF Fields, Role, PopAt, PushAt, EnqAt, DeqAt, PaintAt
  <2>4. \/ next' = next
        \/ next' = [next EXCEPT ![frame[t].desc] = [next[frame[t].desc] EXCEPT !.color = frame[t].next.color]]
      BY <1>1, EnqCheckEffect
  <2>2. next' \in [Node -> Link]
      BY <1>0, <2>1, <2>3, <2>4 DEF SharedOK
  <2> QED BY <1>0, <1>1, <2>2, EnqCheckEffect DEF SharedOK, Ends
<1>3. CASE frame[t].tail # tail[frame[t].queue]
  <2>1. To(t, "enq_tail", Retry(frame[t]), hand[t]) /\ UNCHANGED calls
      BY <1>1, <1>2, <1>3, EnqCheckEffect
  <2>2. Retry(frame[t]) \in Frame /\ hand[t] \in Index /\ "enq_tail" \in Labels
      BY <1>0, <1>1, NodeFacts, FrameWith DEF SharedOK, Fields, Retry, Labels, Role, PopAt, PushAt,
         EnqAt, DeqAt, PaintAt
  <2>3. Role("enq_tail", Retry(frame[t]), hand[t])
      BY <1>0, <1>1, <1>2, <1>3, NodeFacts DEF SharedOK, Fields, Ends, Role, PopAt, PushAt, EnqAt, DeqAt,
         PaintAt, Retry, EmptyFrame, Ptr, Link
  <2>4. Counted' /\ calls' \in [Thread -> Nat]
      BY <1>1, <2>1, ToCounted
  <2> QED BY <1>2, <1>3, <2>1, <2>2, <2>3, <2>4, ToTInv
<1>4. CASE frame[t].tail = tail[frame[t].queue] /\ frame[t].next.index = BADINDEX
  <2>1. To(t, "enq_link", frame[t], hand[t]) /\ UNCHANGED calls
      BY <1>1, <1>2, <1>4, EnqCheckEffect
  <2>2. frame[t] \in Frame /\ hand[t] \in Index /\ "enq_link" \in Labels
      BY <1>0, <1>1, NodeFacts, FrameWith DEF SharedOK, Fields, Retry, Labels, Role, PopAt, PushAt,
         EnqAt, DeqAt, PaintAt
  <2>3. Role("enq_link", frame[t], hand[t])
      BY <1>0, <1>1, <1>2, <1>4, NodeFacts DEF SharedOK, Fields, Ends, Role, PopAt, PushAt, EnqAt, DeqAt,
         PaintAt, Retry, EmptyFrame, Ptr, Link
  <2>4. Counted' /\ calls' \in [Thread -> Nat]
      BY <1>1, <2>1, ToCounted
  <2> QED BY <1>2, <1>4, <2>1, <2>2, <2>3, <2>4, ToTInv
<1>5. CASE frame[t].tail = tail[frame[t].queue] /\ frame[t].next.index # BADINDEX
  <2>1. To(t, "enq_help", frame[t], hand[t]) /\ UNCHANGED calls
      BY <1>1, <1>2, <1>5, EnqCheckEffect
  <2>2. frame[t] \in Frame /\ hand[t] \in Index /\ "enq_help" \in Labels
      BY <1>0, <1>1, NodeFacts, FrameWith DEF SharedOK, Fields, Retry, Labels, Role, PopAt, PushAt,
         EnqAt, DeqAt, PaintAt
  <2>3. Role("enq_help", frame[t], hand[t])
      BY <1>0, <1>1, <1>2, <1>5, NodeFacts DEF SharedOK, Fields, Ends, Role, PopAt, PushAt, EnqAt, DeqAt,
         PaintAt, Retry, EmptyFrame, Ptr, Link
  <2>4. Counted' /\ calls' \in [Thread -> Nat]
      BY <1>1, <2>1, ToCounted
  <2> QED BY <1>2, <1>5, <2>1, <2>2, <2>3, <2>4, ToTInv
<1> QED BY <1>1, <1>3, <1>4, <1>5

LEMMA EnqLinkType == ASSUME TInv, NEW t \in Thread, EnqLink(t), Witness PROVE TInv'
<1>1. /\ TypeOK /\ Ends /\ pc[t] = "enq_link" /\ frame[t] \in Frame /\ hand[t] \in Index
      /\ Role("enq_link", frame[t], hand[t])
    BY DEF TInv, TypeOK, Roles, EnqLink
<1>0. SharedOK /\ Fields(frame[t])
    BY <1>1, FrameFields DEF SharedOK, TypeOK, TInv
<1>2. SharedOK'
  <2>1. [index |-> frame[t].desc, count |-> Bump(frame[t].next.count),
          color |-> frame[t].next.color] \in Link
      BY <1>0, NodeFacts DEF SharedOK, Fields, Link
  <2>2. [color |-> frame[t].next.color] \in [color : Color]
      BY <1>0 DEF Fields
  <2>3. next' \in [Node -> Link]
      BY <1>0, <1>1, <2>1, EnqLinkEffect, NodeFacts DEF SharedOK, Fields, Role, PopAt, PushAt, EnqAt,
         DeqAt, PaintAt
  <2>4. result' \in [Thread -> [item : Item \cup {NoItem},
          color : Color] \cup [color : Color] \cup {NoResult}]
    <3> DEFINE Result == [item : Item \cup {NoItem}, color : Color] \cup [color : Color] \cup {NoResult}
    <3>1. PICK r \in Result : r = [color |-> frame[t].next.color]
        BY <2>2
    <3>2. result' = result \/ result' = [result EXCEPT ![t] = r]
        BY <1>1, <3>1, EnqLinkEffect
    <3>3. result \in [Thread -> Result]
        BY <1>0 DEF SharedOK
    <3> HIDE DEF Result
    <3>4. result' \in [Thread -> Result]
        BY <3>1, <3>2, <3>3
    <3> QED BY <3>4 DEF Result
  <2> QED BY <1>0, <1>1, <2>3, <2>4, EnqLinkEffect DEF SharedOK, Ends
<1>3. CASE next[frame[t].tail.index] = frame[t].next
  <2>1. To(t, "enq_swing", frame[t], hand[t]) /\ UNCHANGED calls
      BY <1>1, <1>2, <1>3, EnqLinkEffect
  <2>2. frame[t] \in Frame /\ hand[t] \in Index /\ "enq_swing" \in Labels
      BY <1>0, <1>1, NodeFacts, FrameWith DEF SharedOK, Fields, Retry, Labels, Role, PopAt, PushAt,
         EnqAt, DeqAt, PaintAt
  <2>3. Role("enq_swing", frame[t], hand[t])
      BY <1>0, <1>1, <1>2, <1>3, NodeFacts DEF SharedOK, Fields, Ends, Role, PopAt, PushAt, EnqAt, DeqAt,
         PaintAt, Retry, EmptyFrame, Ptr, Link
  <2>4. Counted' /\ calls' \in [Thread -> Nat]
      BY <1>1, <2>1, ToCounted
  <2> QED BY <1>2, <1>3, <2>1, <2>2, <2>3, <2>4, ToTInv
<1>4. CASE next[frame[t].tail.index] # frame[t].next
  <2>1. To(t, "enq_tail", Retry(frame[t]), hand[t]) /\ UNCHANGED calls
      BY <1>1, <1>2, <1>4, EnqLinkEffect
  <2>2. Retry(frame[t]) \in Frame /\ hand[t] \in Index /\ "enq_tail" \in Labels
      BY <1>0, <1>1, NodeFacts, FrameWith DEF SharedOK, Fields, Retry, Labels, Role, PopAt, PushAt,
         EnqAt, DeqAt, PaintAt
  <2>3. Role("enq_tail", Retry(frame[t]), hand[t])
      BY <1>0, <1>1, <1>2, <1>4, NodeFacts DEF SharedOK, Fields, Ends, Role, PopAt, PushAt, EnqAt, DeqAt,
         PaintAt, Retry, EmptyFrame, Ptr, Link
  <2>4. Counted' /\ calls' \in [Thread -> Nat]
      BY <1>1, <2>1, ToCounted
  <2> QED BY <1>2, <1>4, <2>1, <2>2, <2>3, <2>4, ToTInv
<1> QED BY <1>1, <1>3, <1>4

LEMMA EnqHelpType == ASSUME TInv, NEW t \in Thread, EnqHelp(t), Witness PROVE TInv'
<1>1. /\ TypeOK /\ Ends /\ pc[t] = "enq_help" /\ frame[t] \in Frame /\ hand[t] \in Index
      /\ Role("enq_help", frame[t], hand[t])
    BY DEF TInv, TypeOK, Roles, EnqHelp
<1>0. SharedOK /\ Fields(frame[t])
    BY <1>1, FrameFields DEF SharedOK, TypeOK, TInv
<1>2. SharedOK'
  <2>1. frame[t].queue \in Queue /\ frame[t].next.index \in Node
      BY <1>0, <1>1, NodeFacts DEF Fields, Role, PopAt, PushAt, EnqAt, DeqAt, PaintAt
  <2>2. [index |-> frame[t].next.index, count |-> Bump(frame[t].tail.count)] \in Ptr
      BY <1>0, <2>1, NodeFacts DEF Fields, Ptr
  <2>3. tail' \in [Queue -> Ptr] /\ \A q \in Queue : tail'[q].index # BADINDEX
      BY <1>0, <1>1, <2>1, <2>2, NodeFacts, EnqHelpEffect DEF SharedOK, Ends, SwingTail
  <2> QED BY <1>0, <1>1, <2>3, EnqHelpEffect DEF SharedOK, Ends
<1> QED
  <2>1. To(t, "enq_tail", Retry(frame[t]), hand[t]) /\ UNCHANGED calls
      BY <1>1, <1>2, EnqHelpEffect
  <2>2. Retry(frame[t]) \in Frame /\ hand[t] \in Index /\ "enq_tail" \in Labels
      BY <1>0, <1>1, NodeFacts, FrameWith DEF SharedOK, Fields, Retry, Labels, Role, PopAt, PushAt,
         EnqAt, DeqAt, PaintAt
  <2>3. Role("enq_tail", Retry(frame[t]), hand[t])
      BY <1>0, <1>1, <1>2, NodeFacts DEF SharedOK, Fields, Ends, Role, PopAt, PushAt, EnqAt, DeqAt,
         PaintAt, Retry, EmptyFrame, Ptr, Link
  <2>4. Counted' /\ calls' \in [Thread -> Nat]
      BY <1>1, <2>1, ToCounted
  <2> QED BY <1>2, <2>1, <2>2, <2>3, <2>4, ToTInv

LEMMA EnqSwingType == ASSUME TInv, NEW t \in Thread, EnqSwing(t), Witness PROVE TInv'
<1>1. /\ TypeOK /\ Ends /\ pc[t] = "enq_swing" /\ frame[t] \in Frame /\ hand[t] \in Index
      /\ Role("enq_swing", frame[t], hand[t])
    BY DEF TInv, TypeOK, Roles, EnqSwing
<1>0. SharedOK /\ Fields(frame[t])
    BY <1>1, FrameFields DEF SharedOK, TypeOK, TInv
<1>2. SharedOK'
  <2>1. frame[t].queue \in Queue /\ frame[t].desc \in Node
      BY <1>0, <1>1, NodeFacts DEF Fields, Role, PopAt, PushAt, EnqAt, DeqAt, PaintAt
  <2>2. [index |-> frame[t].desc, count |-> Bump(frame[t].tail.count)] \in Ptr
      BY <1>0, <2>1, NodeFacts DEF Fields, Ptr
  <2>3. tail' \in [Queue -> Ptr] /\ \A q \in Queue : tail'[q].index # BADINDEX
      BY <1>0, <1>1, <2>1, <2>2, NodeFacts, EnqSwingEffect DEF SharedOK, Ends, SwingTail
  <2> QED BY <1>0, <1>1, <2>3, EnqSwingEffect DEF SharedOK, Ends
<1> QED
  <2>1. To(t, "idle", EmptyFrame, BADINDEX) /\ UNCHANGED calls
      BY <1>1, <1>2, EnqSwingEffect
  <2>2. EmptyFrame \in Frame /\ BADINDEX \in Index /\ "idle" \in Labels
      BY <1>0, <1>1, NodeFacts, FrameWith DEF SharedOK, Fields, Retry, Labels, Role, PopAt, PushAt,
         EnqAt, DeqAt, PaintAt
  <2>3. Role("idle", EmptyFrame, BADINDEX)
      BY <1>0, <1>1, <1>2, NodeFacts DEF SharedOK, Fields, Ends, Role, PopAt, PushAt, EnqAt, DeqAt,
         PaintAt, Retry, EmptyFrame, Ptr, Link
  <2>4. Counted' /\ calls' \in [Thread -> Nat]
      BY <1>1, <2>1, ToCounted
  <2> QED BY <1>2, <2>1, <2>2, <2>3, <2>4, ToTInv

LEMMA DeqHeadType == ASSUME TInv, NEW t \in Thread, DeqHead(t), Witness PROVE TInv'
<1>1. /\ TypeOK /\ Ends /\ pc[t] = "deq_head" /\ frame[t] \in Frame /\ hand[t] \in Index
      /\ Role("deq_head", frame[t], hand[t])
    BY DEF TInv, TypeOK, Roles, DeqHead
<1>0. SharedOK /\ Fields(frame[t])
    BY <1>1, FrameFields DEF SharedOK, TypeOK, TInv
<1>2. SharedOK'
    BY <1>1, DeqHeadEffect DEF SharedOK, TypeOK, Ends, shared
<1> QED
  <2>1. To(t, "deq_tail", [frame[t] EXCEPT !.head = head[frame[t].queue]], hand[t]) /\ UNCHANGED calls
      BY <1>1, <1>2, DeqHeadEffect
  <2>2. [frame[t] EXCEPT !.head = head[frame[t].queue]] \in Frame /\ hand[t] \in Index
          /\ "deq_tail" \in Labels
      BY <1>0, <1>1, NodeFacts, FrameWith DEF SharedOK, Fields, Retry, Labels, Role, PopAt, PushAt,
         EnqAt, DeqAt, PaintAt
  <2>3. Role("deq_tail", [frame[t] EXCEPT !.head = head[frame[t].queue]], hand[t])
      BY <1>0, <1>1, <1>2, NodeFacts DEF SharedOK, Fields, Ends, Role, PopAt, PushAt, EnqAt, DeqAt,
         PaintAt, Retry, EmptyFrame, Ptr, Link
  <2>4. Counted' /\ calls' \in [Thread -> Nat]
      BY <1>1, <2>1, ToCounted
  <2> QED BY <1>2, <2>1, <2>2, <2>3, <2>4, ToTInv

LEMMA DeqTailType == ASSUME TInv, NEW t \in Thread, DeqTail(t), Witness PROVE TInv'
<1>1. /\ TypeOK /\ Ends /\ pc[t] = "deq_tail" /\ frame[t] \in Frame /\ hand[t] \in Index
      /\ Role("deq_tail", frame[t], hand[t])
    BY DEF TInv, TypeOK, Roles, DeqTail
<1>0. SharedOK /\ Fields(frame[t])
    BY <1>1, FrameFields DEF SharedOK, TypeOK, TInv
<1>2. SharedOK'
    BY <1>1, DeqTailEffect DEF SharedOK, TypeOK, Ends, shared
<1> QED
  <2>1. To(t, "deq_next", [frame[t] EXCEPT !.tail = tail[frame[t].queue]], hand[t]) /\ UNCHANGED calls
      BY <1>1, <1>2, DeqTailEffect
  <2>2. [frame[t] EXCEPT !.tail = tail[frame[t].queue]] \in Frame /\ hand[t] \in Index
          /\ "deq_next" \in Labels
      BY <1>0, <1>1, NodeFacts, FrameWith DEF SharedOK, Fields, Retry, Labels, Role, PopAt, PushAt,
         EnqAt, DeqAt, PaintAt
  <2>3. Role("deq_next", [frame[t] EXCEPT !.tail = tail[frame[t].queue]], hand[t])
      BY <1>0, <1>1, <1>2, NodeFacts DEF SharedOK, Fields, Ends, Role, PopAt, PushAt, EnqAt, DeqAt,
         PaintAt, Retry, EmptyFrame, Ptr, Link
  <2>4. Counted' /\ calls' \in [Thread -> Nat]
      BY <1>1, <2>1, ToCounted
  <2> QED BY <1>2, <2>1, <2>2, <2>3, <2>4, ToTInv

LEMMA DeqNextType == ASSUME TInv, NEW t \in Thread, DeqNext(t), Witness PROVE TInv'
<1>1. /\ TypeOK /\ Ends /\ pc[t] = "deq_next" /\ frame[t] \in Frame /\ hand[t] \in Index
      /\ Role("deq_next", frame[t], hand[t])
    BY DEF TInv, TypeOK, Roles, DeqNext
<1>0. SharedOK /\ Fields(frame[t])
    BY <1>1, FrameFields DEF SharedOK, TypeOK, TInv
<1>2. SharedOK'
    BY <1>1, DeqNextEffect DEF SharedOK, TypeOK, Ends, shared
<1> QED
  <2>1. To(t, "deq_check", [frame[t] EXCEPT !.next = next[frame[t].head.index]], hand[t])
          /\ UNCHANGED calls
      BY <1>1, <1>2, DeqNextEffect
  <2>2. [frame[t] EXCEPT !.next = next[frame[t].head.index]] \in Frame /\ hand[t] \in Index
          /\ "deq_check" \in Labels
      BY <1>0, <1>1, NodeFacts, FrameWith DEF SharedOK, Fields, Retry, Labels, Role, PopAt, PushAt,
         EnqAt, DeqAt, PaintAt
  <2>3. Role("deq_check", [frame[t] EXCEPT !.next = next[frame[t].head.index]], hand[t])
      BY <1>0, <1>1, <1>2, NodeFacts DEF SharedOK, Fields, Ends, Role, PopAt, PushAt, EnqAt, DeqAt,
         PaintAt, Retry, EmptyFrame, Ptr, Link
  <2>4. Counted' /\ calls' \in [Thread -> Nat]
      BY <1>1, <2>1, ToCounted
  <2> QED BY <1>2, <2>1, <2>2, <2>3, <2>4, ToTInv

LEMMA DeqCheckType == ASSUME TInv, NEW t \in Thread, DeqCheck(t), Witness PROVE TInv'
<1>1. /\ TypeOK /\ Ends /\ pc[t] = "deq_check" /\ frame[t] \in Frame /\ hand[t] \in Index
      /\ Role("deq_check", frame[t], hand[t])
    BY DEF TInv, TypeOK, Roles, DeqCheck
<1>0. SharedOK /\ Fields(frame[t])
    BY <1>1, FrameFields DEF SharedOK, TypeOK, TInv
<1>2. SharedOK'
    BY <1>1, DeqCheckEffect DEF SharedOK, TypeOK, Ends, shared
<1>3. CASE frame[t].head # head[frame[t].queue]
  <2>1. To(t, "deq_head", Retry(frame[t]), hand[t]) /\ UNCHANGED calls
      BY <1>1, <1>2, <1>3, DeqCheckEffect
  <2>2. Retry(frame[t]) \in Frame /\ hand[t] \in Index /\ "deq_head" \in Labels
      BY <1>0, <1>1, NodeFacts, FrameWith DEF SharedOK, Fields, Retry, Labels, Role, PopAt, PushAt,
         EnqAt, DeqAt, PaintAt
  <2>3. Role("deq_head", Retry(frame[t]), hand[t])
      BY <1>0, <1>1, <1>2, <1>3, NodeFacts DEF SharedOK, Fields, Ends, Role, PopAt, PushAt, EnqAt, DeqAt,
         PaintAt, Retry, EmptyFrame, Ptr, Link
  <2>4. Counted' /\ calls' \in [Thread -> Nat]
      BY <1>1, <2>1, ToCounted
  <2> QED BY <1>2, <1>3, <2>1, <2>2, <2>3, <2>4, ToTInv
<1>4. CASE To(t, "deq_empty", frame[t], hand[t]) /\ frame[t].next.index = BADINDEX
  <2>1. To(t, "deq_empty", frame[t], hand[t]) /\ UNCHANGED calls
      BY <1>1, <1>2, <1>4, DeqCheckEffect
  <2>2. frame[t] \in Frame /\ hand[t] \in Index /\ "deq_empty" \in Labels
      BY <1>0, <1>1, NodeFacts, FrameWith DEF SharedOK, Fields, Retry, Labels, Role, PopAt, PushAt,
         EnqAt, DeqAt, PaintAt
  <2>3. Role("deq_empty", frame[t], hand[t])
      BY <1>0, <1>1, <1>2, <1>4, NodeFacts DEF SharedOK, Fields, Ends, Role, PopAt, PushAt, EnqAt, DeqAt,
         PaintAt, Retry, EmptyFrame, Ptr, Link
  <2>4. Counted' /\ calls' \in [Thread -> Nat]
      BY <1>1, <2>1, ToCounted
  <2> QED BY <1>2, <1>4, <2>1, <2>2, <2>3, <2>4, ToTInv
<1>5. CASE To(t, "deq_help", frame[t], hand[t]) /\ frame[t].next.index # BADINDEX
             /\ frame[t].tail.index = frame[t].head.index
  <2>1. To(t, "deq_help", frame[t], hand[t]) /\ UNCHANGED calls
      BY <1>1, <1>2, <1>5, DeqCheckEffect
  <2>2. frame[t] \in Frame /\ hand[t] \in Index /\ "deq_help" \in Labels
      BY <1>0, <1>1, NodeFacts, FrameWith DEF SharedOK, Fields, Retry, Labels, Role, PopAt, PushAt,
         EnqAt, DeqAt, PaintAt
  <2>3. Role("deq_help", frame[t], hand[t])
      BY <1>0, <1>1, <1>2, <1>5, NodeFacts DEF SharedOK, Fields, Ends, Role, PopAt, PushAt, EnqAt, DeqAt,
         PaintAt, Retry, EmptyFrame, Ptr, Link
  <2>4. Counted' /\ calls' \in [Thread -> Nat]
      BY <1>1, <2>1, ToCounted
  <2> QED BY <1>2, <1>5, <2>1, <2>2, <2>3, <2>4, ToTInv
<1>6. CASE To(t, "bug", frame[t], hand[t])
  <2>1. To(t, "bug", frame[t], hand[t]) /\ UNCHANGED calls
      BY <1>1, <1>2, <1>6, DeqCheckEffect
  <2>2. frame[t] \in Frame /\ hand[t] \in Index /\ "bug" \in Labels
      BY <1>0, <1>1, NodeFacts, FrameWith DEF SharedOK, Fields, Retry, Labels, Role, PopAt, PushAt,
         EnqAt, DeqAt, PaintAt
  <2>3. Role("bug", frame[t], hand[t])
      BY <1>0, <1>1, <1>2, <1>6, NodeFacts DEF SharedOK, Fields, Ends, Role, PopAt, PushAt, EnqAt, DeqAt,
         PaintAt, Retry, EmptyFrame, Ptr, Link
  <2>4. Counted' /\ calls' \in [Thread -> Nat]
      BY <1>1, <2>1, ToCounted
  <2> QED BY <1>2, <1>6, <2>1, <2>2, <2>3, <2>4, ToTInv
<1>7. CASE To(t, "pop_top", [frame[t] EXCEPT !.back = "deq"], hand[t]) /\ frame[t].next.index # BADINDEX
             /\ frame[t].ret = BADINDEX
  <2>1. To(t, "pop_top", [frame[t] EXCEPT !.back = "deq"], hand[t]) /\ UNCHANGED calls
      BY <1>1, <1>2, <1>7, DeqCheckEffect
  <2>2. [frame[t] EXCEPT !.back = "deq"] \in Frame /\ hand[t] \in Index /\ "pop_top" \in Labels
      BY <1>0, <1>1, NodeFacts, FrameWith DEF SharedOK, Fields, Retry, Labels, Role, PopAt, PushAt,
         EnqAt, DeqAt, PaintAt
  <2>3. Role("pop_top", [frame[t] EXCEPT !.back = "deq"], hand[t])
      BY <1>0, <1>1, <1>2, <1>7, NodeFacts DEF SharedOK, Fields, Ends, Role, PopAt, PushAt, EnqAt, DeqAt,
         PaintAt, Retry, EmptyFrame, Ptr, Link
  <2>4. Counted' /\ calls' \in [Thread -> Nat]
      BY <1>1, <2>1, ToCounted
  <2> QED BY <1>2, <1>7, <2>1, <2>2, <2>3, <2>4, ToTInv
<1>8. CASE To(t, "deq_copy", frame[t], hand[t]) /\ frame[t].next.index # BADINDEX
             /\ frame[t].ret # BADINDEX
  <2>1. To(t, "deq_copy", frame[t], hand[t]) /\ UNCHANGED calls
      BY <1>1, <1>2, <1>8, DeqCheckEffect
  <2>2. frame[t] \in Frame /\ hand[t] \in Index /\ "deq_copy" \in Labels
      BY <1>0, <1>1, NodeFacts, FrameWith DEF SharedOK, Fields, Retry, Labels, Role, PopAt, PushAt,
         EnqAt, DeqAt, PaintAt
  <2>3. Role("deq_copy", frame[t], hand[t])
      BY <1>0, <1>1, <1>2, <1>8, NodeFacts DEF SharedOK, Fields, Ends, Role, PopAt, PushAt, EnqAt, DeqAt,
         PaintAt, Retry, EmptyFrame, Ptr, Link
  <2>4. Counted' /\ calls' \in [Thread -> Nat]
      BY <1>1, <2>1, ToCounted
  <2> QED BY <1>2, <1>8, <2>1, <2>2, <2>3, <2>4, ToTInv
<1> QED BY <1>1, <1>3, <1>4, <1>5, <1>6, <1>7, <1>8, DeqCheckEffect

LEMMA DeqEmptyType == ASSUME TInv, NEW t \in Thread, DeqEmpty(t), Witness PROVE TInv'
<1>1. /\ TypeOK /\ Ends /\ pc[t] = "deq_empty" /\ frame[t] \in Frame /\ hand[t] \in Index
      /\ Role("deq_empty", frame[t], hand[t])
    BY DEF TInv, TypeOK, Roles, DeqEmpty
<1>0. SharedOK /\ Fields(frame[t])
    BY <1>1, FrameFields DEF SharedOK, TypeOK, TInv
<1>2. SharedOK'
    BY <1>1, DeqEmptyEffect DEF SharedOK, TypeOK, Ends, shared
<1>3. CASE frame[t].ret = BADINDEX
  <2>1. To(t, "idle", EmptyFrame, BADINDEX) /\ UNCHANGED calls
      BY <1>1, <1>2, <1>3, DeqEmptyEffect
  <2>2. EmptyFrame \in Frame /\ BADINDEX \in Index /\ "idle" \in Labels
      BY <1>0, <1>1, NodeFacts, FrameWith DEF SharedOK, Fields, Retry, Labels, Role, PopAt, PushAt,
         EnqAt, DeqAt, PaintAt
  <2>3. Role("idle", EmptyFrame, BADINDEX)
      BY <1>0, <1>1, <1>2, <1>3, NodeFacts DEF SharedOK, Fields, Ends, Role, PopAt, PushAt, EnqAt, DeqAt,
         PaintAt, Retry, EmptyFrame, Ptr, Link
  <2>4. Counted' /\ calls' \in [Thread -> Nat]
      BY <1>1, <2>1, ToCounted
  <2> QED BY <1>2, <1>3, <2>1, <2>2, <2>3, <2>4, ToTInv
<1>4. CASE frame[t].ret # BADINDEX
  <2>1. To(t, "push_count", [EmptyFrame EXCEPT !.desc = frame[t].ret, !.back = "free"], hand[t])
          /\ UNCHANGED calls
      BY <1>1, <1>2, <1>4, DeqEmptyEffect
  <2>2. [EmptyFrame EXCEPT !.desc = frame[t].ret, !.back = "free"] \in Frame /\ hand[t] \in Index
          /\ "push_count" \in Labels
      BY <1>0, <1>1, NodeFacts, FrameWith DEF SharedOK, Fields, Retry, Labels, Role, PopAt, PushAt,
         EnqAt, DeqAt, PaintAt
  <2>3. Role("push_count", [EmptyFrame EXCEPT !.desc = frame[t].ret, !.back = "free"], hand[t])
      BY <1>0, <1>1, <1>2, <1>4, NodeFacts DEF SharedOK, Fields, Ends, Role, PopAt, PushAt, EnqAt, DeqAt,
         PaintAt, Retry, EmptyFrame, Ptr, Link
  <2>4. Counted' /\ calls' \in [Thread -> Nat]
      BY <1>1, <2>1, ToCounted
  <2> QED BY <1>2, <1>4, <2>1, <2>2, <2>3, <2>4, ToTInv
<1> QED BY <1>1, <1>3, <1>4

LEMMA DeqHelpType == ASSUME TInv, NEW t \in Thread, DeqHelp(t), Witness PROVE TInv'
<1>1. /\ TypeOK /\ Ends /\ pc[t] = "deq_help" /\ frame[t] \in Frame /\ hand[t] \in Index
      /\ Role("deq_help", frame[t], hand[t])
    BY DEF TInv, TypeOK, Roles, DeqHelp
<1>0. SharedOK /\ Fields(frame[t])
    BY <1>1, FrameFields DEF SharedOK, TypeOK, TInv
<1>2. SharedOK'
  <2>1. frame[t].queue \in Queue /\ frame[t].next.index \in Node
      BY <1>0, <1>1, NodeFacts DEF Fields, Role, PopAt, PushAt, EnqAt, DeqAt, PaintAt
  <2>2. [index |-> frame[t].next.index, count |-> Bump(frame[t].tail.count)] \in Ptr
      BY <1>0, <2>1, NodeFacts DEF Fields, Ptr
  <2>3. tail' \in [Queue -> Ptr] /\ \A q \in Queue : tail'[q].index # BADINDEX
      BY <1>0, <1>1, <2>1, <2>2, NodeFacts, DeqHelpEffect DEF SharedOK, Ends, SwingTail
  <2> QED BY <1>0, <1>1, <2>3, DeqHelpEffect DEF SharedOK, Ends
<1> QED
  <2>1. To(t, "deq_head", Retry(frame[t]), hand[t]) /\ UNCHANGED calls
      BY <1>1, <1>2, DeqHelpEffect
  <2>2. Retry(frame[t]) \in Frame /\ hand[t] \in Index /\ "deq_head" \in Labels
      BY <1>0, <1>1, NodeFacts, FrameWith DEF SharedOK, Fields, Retry, Labels, Role, PopAt, PushAt,
         EnqAt, DeqAt, PaintAt
  <2>3. Role("deq_head", Retry(frame[t]), hand[t])
      BY <1>0, <1>1, <1>2, NodeFacts DEF SharedOK, Fields, Ends, Role, PopAt, PushAt, EnqAt, DeqAt,
         PaintAt, Retry, EmptyFrame, Ptr, Link
  <2>4. Counted' /\ calls' \in [Thread -> Nat]
      BY <1>1, <2>1, ToCounted
  <2> QED BY <1>2, <2>1, <2>2, <2>3, <2>4, ToTInv

LEMMA DeqCopyType == ASSUME TInv, NEW t \in Thread, DeqCopy(t), Witness PROVE TInv'
<1>1. /\ TypeOK /\ Ends /\ pc[t] = "deq_copy" /\ frame[t] \in Frame /\ hand[t] \in Index
      /\ Role("deq_copy", frame[t], hand[t])
    BY DEF TInv, TypeOK, Roles, DeqCopy
<1>0. SharedOK /\ Fields(frame[t])
    BY <1>1, FrameFields DEF SharedOK, TypeOK, TInv
<1>2. SharedOK'
  <2>1. \A n \in Node, m \in Node : [next[n] EXCEPT !.color = next[m].color] \in Link
      BY <1>0 DEF SharedOK, Link
  <2>2. frame[t].ret \in Node /\ frame[t].next.index \in Node
      BY <1>0, <1>1, NodeFacts DEF Fields, Role, PopAt, PushAt, EnqAt, DeqAt, PaintAt
  <2>4. /\ next' = [next EXCEPT ![frame[t].ret] = [next[frame[t].ret] EXCEPT !.color = next[frame[t].next.index].color]]
        /\ word' = [word EXCEPT ![frame[t].ret] = word[frame[t].next.index]]
      BY <1>1, DeqCopyEffect
  <2>3. next' \in [Node -> Link] /\ word' \in [Node -> Item \cup {NoItem}]
      BY <1>0, <2>1, <2>2, <2>4 DEF SharedOK
  <2> QED BY <1>0, <1>1, <2>3, DeqCopyEffect DEF SharedOK, Ends
<1> QED
  <2>1. To(t, "deq_cas", frame[t], hand[t]) /\ UNCHANGED calls
      BY <1>1, <1>2, DeqCopyEffect
  <2>2. frame[t] \in Frame /\ hand[t] \in Index /\ "deq_cas" \in Labels
      BY <1>0, <1>1, NodeFacts, FrameWith DEF SharedOK, Fields, Retry, Labels, Role, PopAt, PushAt,
         EnqAt, DeqAt, PaintAt
  <2>3. Role("deq_cas", frame[t], hand[t])
      BY <1>0, <1>1, <1>2, NodeFacts DEF SharedOK, Fields, Ends, Role, PopAt, PushAt, EnqAt, DeqAt,
         PaintAt, Retry, EmptyFrame, Ptr, Link
  <2>4. Counted' /\ calls' \in [Thread -> Nat]
      BY <1>1, <2>1, ToCounted
  <2> QED BY <1>2, <2>1, <2>2, <2>3, <2>4, ToTInv

LEMMA DeqCasType == ASSUME TInv, NEW t \in Thread, DeqCas(t), Witness PROVE TInv'
<1>1. /\ TypeOK /\ Ends /\ pc[t] = "deq_cas" /\ frame[t] \in Frame /\ hand[t] \in Index
      /\ Role("deq_cas", frame[t], hand[t])
    BY DEF TInv, TypeOK, Roles, DeqCas
<1>0. SharedOK /\ Fields(frame[t])
    BY <1>1, FrameFields DEF SharedOK, TypeOK, TInv
<1>2. SharedOK'
  <2>1. frame[t].ret \in Node /\ frame[t].next.index \in Node /\ frame[t].queue \in Queue
      BY <1>0, <1>1, NodeFacts DEF Fields, Role, PopAt, PushAt, EnqAt, DeqAt, PaintAt
  <2>2. [index |-> frame[t].next.index, count |-> Bump(frame[t].head.count)] \in Ptr
      BY <1>0, <2>1, NodeFacts DEF Fields, Ptr
  <2>3. [item |-> word[frame[t].ret], color |-> next[frame[t].ret].color]
           \in [item : Item \cup {NoItem}, color : Color]
      BY <1>0, <2>1 DEF SharedOK, Link
  <2>4. result' \in [Thread -> [item : Item \cup {NoItem},
          color : Color] \cup [color : Color] \cup {NoResult}]
    <3> DEFINE Result == [item : Item \cup {NoItem}, color : Color] \cup [color : Color] \cup {NoResult}
    <3>1. PICK r \in Result : r = [item |-> word[frame[t].ret], color |-> next[frame[t].ret].color]
        BY <2>3
    <3>2. result' = result \/ result' = [result EXCEPT ![t] = r]
        BY <1>1, <3>1, DeqCasEffect
    <3>3. result \in [Thread -> Result]
        BY <1>0 DEF SharedOK
    <3> HIDE DEF Result
    <3>4. result' \in [Thread -> Result]
        BY <3>1, <3>2, <3>3
    <3> QED BY <3>4 DEF Result
  <2>6. \/ head' = head
        \/ head' = [head EXCEPT ![frame[t].queue] = [index |-> frame[t].next.index,
             count |-> Bump(frame[t].head.count)]]
      BY <1>1, DeqCasEffect
  <2>5. head' \in [Queue -> Ptr] /\ \A q \in Queue : head'[q].index # BADINDEX
      BY <1>0, <2>1, <2>2, <2>6, NodeFacts DEF SharedOK, Ends
  <2> QED BY <1>0, <1>1, <2>4, <2>5, DeqCasEffect DEF SharedOK, Ends
<1>3. CASE head[frame[t].queue] = frame[t].head
  <2>1. To(t, "push_count", [EmptyFrame EXCEPT !.ret = frame[t].ret, !.desc = frame[t].head.index,
          !.back = "deq"], hand[t]) /\ UNCHANGED calls
      BY <1>1, <1>2, <1>3, DeqCasEffect
  <2>2. [EmptyFrame EXCEPT !.ret = frame[t].ret, !.desc = frame[t].head.index, !.back = "deq"] \in Frame
          /\ hand[t] \in Index /\ "push_count" \in Labels
      BY <1>0, <1>1, NodeFacts, FrameWith DEF SharedOK, Fields, Retry, Labels, Role, PopAt, PushAt,
         EnqAt, DeqAt, PaintAt
  <2>3. Role("push_count", [EmptyFrame EXCEPT !.ret = frame[t].ret, !.desc = frame[t].head.index,
          !.back = "deq"], hand[t])
      BY <1>0, <1>1, <1>2, <1>3, NodeFacts DEF SharedOK, Fields, Ends, Role, PopAt, PushAt, EnqAt, DeqAt,
         PaintAt, Retry, EmptyFrame, Ptr, Link
  <2>4. Counted' /\ calls' \in [Thread -> Nat]
      BY <1>1, <2>1, ToCounted
  <2> QED BY <1>2, <1>3, <2>1, <2>2, <2>3, <2>4, ToTInv
<1>4. CASE head[frame[t].queue] # frame[t].head
  <2>1. To(t, "deq_head", Retry(frame[t]), hand[t]) /\ UNCHANGED calls
      BY <1>1, <1>2, <1>4, DeqCasEffect
  <2>2. Retry(frame[t]) \in Frame /\ hand[t] \in Index /\ "deq_head" \in Labels
      BY <1>0, <1>1, NodeFacts, FrameWith DEF SharedOK, Fields, Retry, Labels, Role, PopAt, PushAt,
         EnqAt, DeqAt, PaintAt
  <2>3. Role("deq_head", Retry(frame[t]), hand[t])
      BY <1>0, <1>1, <1>2, <1>4, NodeFacts DEF SharedOK, Fields, Ends, Role, PopAt, PushAt, EnqAt, DeqAt,
         PaintAt, Retry, EmptyFrame, Ptr, Link
  <2>4. Counted' /\ calls' \in [Thread -> Nat]
      BY <1>1, <2>1, ToCounted
  <2> QED BY <1>2, <1>4, <2>1, <2>2, <2>3, <2>4, ToTInv
<1> QED BY <1>1, <1>3, <1>4

LEMMA PaintHeadType == ASSUME TInv, NEW t \in Thread, PaintHead(t), Witness PROVE TInv'
<1>1. /\ TypeOK /\ Ends /\ pc[t] = "paint_head" /\ frame[t] \in Frame /\ hand[t] \in Index
      /\ Role("paint_head", frame[t], hand[t])
    BY DEF TInv, TypeOK, Roles, PaintHead
<1>0. SharedOK /\ Fields(frame[t])
    BY <1>1, FrameFields DEF SharedOK, TypeOK, TInv
<1>2. SharedOK'
    BY <1>1, PaintHeadEffect DEF SharedOK, TypeOK, Ends, shared
<1> QED
  <2>1. To(t, "paint_tail", [frame[t] EXCEPT !.head = head[frame[t].queue]], hand[t]) /\ UNCHANGED calls
      BY <1>1, <1>2, PaintHeadEffect
  <2>2. [frame[t] EXCEPT !.head = head[frame[t].queue]] \in Frame /\ hand[t] \in Index
          /\ "paint_tail" \in Labels
      BY <1>0, <1>1, NodeFacts, FrameWith DEF SharedOK, Fields, Retry, Labels, Role, PopAt, PushAt,
         EnqAt, DeqAt, PaintAt
  <2>3. Role("paint_tail", [frame[t] EXCEPT !.head = head[frame[t].queue]], hand[t])
      BY <1>0, <1>1, <1>2, NodeFacts DEF SharedOK, Fields, Ends, Role, PopAt, PushAt, EnqAt, DeqAt,
         PaintAt, Retry, EmptyFrame, Ptr, Link
  <2>4. Counted' /\ calls' \in [Thread -> Nat]
      BY <1>1, <2>1, ToCounted
  <2> QED BY <1>2, <2>1, <2>2, <2>3, <2>4, ToTInv

LEMMA PaintTailType == ASSUME TInv, NEW t \in Thread, PaintTail(t), Witness PROVE TInv'
<1>1. /\ TypeOK /\ Ends /\ pc[t] = "paint_tail" /\ frame[t] \in Frame /\ hand[t] \in Index
      /\ Role("paint_tail", frame[t], hand[t])
    BY DEF TInv, TypeOK, Roles, PaintTail
<1>0. SharedOK /\ Fields(frame[t])
    BY <1>1, FrameFields DEF SharedOK, TypeOK, TInv
<1>2. SharedOK'
    BY <1>1, PaintTailEffect DEF SharedOK, TypeOK, Ends, shared
<1> QED
  <2>1. To(t, "paint_next", [frame[t] EXCEPT !.tail = tail[frame[t].queue]], hand[t]) /\ UNCHANGED calls
      BY <1>1, <1>2, PaintTailEffect
  <2>2. [frame[t] EXCEPT !.tail = tail[frame[t].queue]] \in Frame /\ hand[t] \in Index
          /\ "paint_next" \in Labels
      BY <1>0, <1>1, NodeFacts, FrameWith DEF SharedOK, Fields, Retry, Labels, Role, PopAt, PushAt,
         EnqAt, DeqAt, PaintAt
  <2>3. Role("paint_next", [frame[t] EXCEPT !.tail = tail[frame[t].queue]], hand[t])
      BY <1>0, <1>1, <1>2, NodeFacts DEF SharedOK, Fields, Ends, Role, PopAt, PushAt, EnqAt, DeqAt,
         PaintAt, Retry, EmptyFrame, Ptr, Link
  <2>4. Counted' /\ calls' \in [Thread -> Nat]
      BY <1>1, <2>1, ToCounted
  <2> QED BY <1>2, <2>1, <2>2, <2>3, <2>4, ToTInv

LEMMA PaintNextType == ASSUME TInv, NEW t \in Thread, PaintNext(t), Witness PROVE TInv'
<1>1. /\ TypeOK /\ Ends /\ pc[t] = "paint_next" /\ frame[t] \in Frame /\ hand[t] \in Index
      /\ Role("paint_next", frame[t], hand[t])
    BY DEF TInv, TypeOK, Roles, PaintNext
<1>0. SharedOK /\ Fields(frame[t])
    BY <1>1, FrameFields DEF SharedOK, TypeOK, TInv
<1>2. SharedOK'
    BY <1>1, PaintNextEffect DEF SharedOK, TypeOK, Ends, shared
<1> QED
  <2>1. To(t, "paint_check", [frame[t] EXCEPT !.next = next[frame[t].head.index]], hand[t])
          /\ UNCHANGED calls
      BY <1>1, <1>2, PaintNextEffect
  <2>2. [frame[t] EXCEPT !.next = next[frame[t].head.index]] \in Frame /\ hand[t] \in Index
          /\ "paint_check" \in Labels
      BY <1>0, <1>1, NodeFacts, FrameWith DEF SharedOK, Fields, Retry, Labels, Role, PopAt, PushAt,
         EnqAt, DeqAt, PaintAt
  <2>3. Role("paint_check", [frame[t] EXCEPT !.next = next[frame[t].head.index]], hand[t])
      BY <1>0, <1>1, <1>2, NodeFacts DEF SharedOK, Fields, Ends, Role, PopAt, PushAt, EnqAt, DeqAt,
         PaintAt, Retry, EmptyFrame, Ptr, Link
  <2>4. Counted' /\ calls' \in [Thread -> Nat]
      BY <1>1, <2>1, ToCounted
  <2> QED BY <1>2, <2>1, <2>2, <2>3, <2>4, ToTInv

LEMMA PaintCheckType == ASSUME TInv, NEW t \in Thread, PaintCheck(t), Witness PROVE TInv'
<1>1. /\ TypeOK /\ Ends /\ pc[t] = "paint_check" /\ frame[t] \in Frame /\ hand[t] \in Index
      /\ Role("paint_check", frame[t], hand[t])
    BY DEF TInv, TypeOK, Roles, PaintCheck
<1>0. SharedOK /\ Fields(frame[t])
    BY <1>1, FrameFields DEF SharedOK, TypeOK, TInv
<1>2. SharedOK'
    BY <1>1, PaintCheckEffect DEF SharedOK, TypeOK, Ends, shared
<1>3. CASE frame[t].head = head[frame[t].queue] /\ PaintSeesEmpty(frame[t])
  <2>1. To(t, "paint_cas", frame[t], hand[t]) /\ UNCHANGED calls
      BY <1>1, <1>2, <1>3, PaintCheckEffect
  <2>2. frame[t] \in Frame /\ hand[t] \in Index /\ "paint_cas" \in Labels
      BY <1>0, <1>1, NodeFacts, FrameWith DEF SharedOK, Fields, Retry, Labels, Role, PopAt, PushAt,
         EnqAt, DeqAt, PaintAt
  <2>3. Role("paint_cas", frame[t], hand[t])
      BY <1>0, <1>1, <1>2, <1>3, NodeFacts DEF SharedOK, Fields, Ends, Role, PopAt, PushAt, EnqAt, DeqAt,
         PaintAt, Retry, EmptyFrame, Ptr, Link, PaintSeesEmpty
  <2>4. Counted' /\ calls' \in [Thread -> Nat]
      BY <1>1, <2>1, ToCounted
  <2> QED BY <1>2, <1>3, <2>1, <2>2, <2>3, <2>4, ToTInv
<1>4. CASE frame[t].head = head[frame[t].queue] /\ ~PaintSeesEmpty(frame[t])
  <2>1. To(t, "paint_busy", frame[t], hand[t]) /\ UNCHANGED calls
      BY <1>1, <1>2, <1>4, PaintCheckEffect
  <2>2. frame[t] \in Frame /\ hand[t] \in Index /\ "paint_busy" \in Labels
      BY <1>0, <1>1, NodeFacts, FrameWith DEF SharedOK, Fields, Retry, Labels, Role, PopAt, PushAt,
         EnqAt, DeqAt, PaintAt
  <2>3. Role("paint_busy", frame[t], hand[t])
      BY <1>0, <1>1, <1>2, <1>4, NodeFacts DEF SharedOK, Fields, Ends, Role, PopAt, PushAt, EnqAt, DeqAt,
         PaintAt, Retry, EmptyFrame, Ptr, Link, PaintSeesEmpty
  <2>4. Counted' /\ calls' \in [Thread -> Nat]
      BY <1>1, <2>1, ToCounted
  <2> QED BY <1>2, <1>4, <2>1, <2>2, <2>3, <2>4, ToTInv
<1>5. CASE frame[t].head # head[frame[t].queue]
  <2>1. To(t, "paint_head", Retry(frame[t]), hand[t]) /\ UNCHANGED calls
      BY <1>1, <1>2, <1>5, PaintCheckEffect
  <2>2. Retry(frame[t]) \in Frame /\ hand[t] \in Index /\ "paint_head" \in Labels
      BY <1>0, <1>1, NodeFacts, FrameWith DEF SharedOK, Fields, Retry, Labels, Role, PopAt, PushAt,
         EnqAt, DeqAt, PaintAt
  <2>3. Role("paint_head", Retry(frame[t]), hand[t])
      BY <1>0, <1>1, <1>2, <1>5, NodeFacts DEF SharedOK, Fields, Ends, Role, PopAt, PushAt, EnqAt, DeqAt,
         PaintAt, Retry, EmptyFrame, Ptr, Link, PaintSeesEmpty
  <2>4. Counted' /\ calls' \in [Thread -> Nat]
      BY <1>1, <2>1, ToCounted
  <2> QED BY <1>2, <1>5, <2>1, <2>2, <2>3, <2>4, ToTInv
<1> QED BY <1>1, <1>3, <1>4, <1>5

LEMMA PaintCasType == ASSUME TInv, NEW t \in Thread, PaintCas(t), Witness PROVE TInv'
<1>1. /\ TypeOK /\ Ends /\ pc[t] = "paint_cas" /\ frame[t] \in Frame /\ hand[t] \in Index
      /\ Role("paint_cas", frame[t], hand[t])
    BY DEF TInv, TypeOK, Roles, PaintCas
<1>0. SharedOK /\ Fields(frame[t])
    BY <1>1, FrameFields DEF SharedOK, TypeOK, TInv
<1>2. SharedOK'
  <2>1. \A n \in Node : [next[n] EXCEPT !.color = frame[t].color,
          !.count = Bump(frame[t].next.count)] \in Link
      BY <1>0, NodeFacts DEF SharedOK, Fields, Link
  <2>2. [color |-> frame[t].next.color] \in [color : Color]
      BY <1>0 DEF Fields
  <2>5. \/ next' = next
        \/ next' = [next EXCEPT ![frame[t].head.index] =
                       [next[frame[t].head.index] EXCEPT !.color = frame[t].color,
                         !.count = Bump(frame[t].next.count)]]
      BY <1>1, PaintCasEffect
  <2>6. frame[t].head.index \in Node
      BY <1>0, <1>1, NodeFacts DEF Fields, Role, PopAt, PushAt, EnqAt, DeqAt, PaintAt
  <2>3. next' \in [Node -> Link]
      BY <1>0, <2>1, <2>5, <2>6 DEF SharedOK
  <2>4. result' \in [Thread -> [item : Item \cup {NoItem},
          color : Color] \cup [color : Color] \cup {NoResult}]
    <3> DEFINE Result == [item : Item \cup {NoItem}, color : Color] \cup [color : Color] \cup {NoResult}
    <3>1. PICK r \in Result : r = [color |-> frame[t].next.color]
        BY <2>2
    <3>2. result' = result \/ result' = [result EXCEPT ![t] = r]
        BY <1>1, <3>1, PaintCasEffect
    <3>3. result \in [Thread -> Result]
        BY <1>0 DEF SharedOK
    <3> HIDE DEF Result
    <3>4. result' \in [Thread -> Result]
        BY <3>1, <3>2, <3>3
    <3> QED BY <3>4 DEF Result
  <2> QED BY <1>0, <1>1, <2>3, <2>4, PaintCasEffect DEF SharedOK, Ends
<1>3. CASE next[frame[t].head.index] = frame[t].next
  <2>1. To(t, "idle", EmptyFrame, hand[t]) /\ UNCHANGED calls
      BY <1>1, <1>2, <1>3, PaintCasEffect
  <2>2. EmptyFrame \in Frame /\ hand[t] \in Index /\ "idle" \in Labels
      BY <1>0, <1>1, NodeFacts, FrameWith DEF SharedOK, Fields, Retry, Labels, Role, PopAt, PushAt,
         EnqAt, DeqAt, PaintAt
  <2>3. Role("idle", EmptyFrame, hand[t])
      BY <1>0, <1>1, <1>2, <1>3, NodeFacts DEF SharedOK, Fields, Ends, Role, PopAt, PushAt, EnqAt, DeqAt,
         PaintAt, Retry, EmptyFrame, Ptr, Link
  <2>4. Counted' /\ calls' \in [Thread -> Nat]
      BY <1>1, <2>1, ToCounted
  <2> QED BY <1>2, <1>3, <2>1, <2>2, <2>3, <2>4, ToTInv
<1>4. CASE next[frame[t].head.index] # frame[t].next
  <2>1. To(t, "paint_head", Retry(frame[t]), hand[t]) /\ UNCHANGED calls
      BY <1>1, <1>2, <1>4, PaintCasEffect
  <2>2. Retry(frame[t]) \in Frame /\ hand[t] \in Index /\ "paint_head" \in Labels
      BY <1>0, <1>1, NodeFacts, FrameWith DEF SharedOK, Fields, Retry, Labels, Role, PopAt, PushAt,
         EnqAt, DeqAt, PaintAt
  <2>3. Role("paint_head", Retry(frame[t]), hand[t])
      BY <1>0, <1>1, <1>2, <1>4, NodeFacts DEF SharedOK, Fields, Ends, Role, PopAt, PushAt, EnqAt, DeqAt,
         PaintAt, Retry, EmptyFrame, Ptr, Link
  <2>4. Counted' /\ calls' \in [Thread -> Nat]
      BY <1>1, <2>1, ToCounted
  <2> QED BY <1>2, <1>4, <2>1, <2>2, <2>3, <2>4, ToTInv
<1> QED BY <1>1, <1>3, <1>4

LEMMA PaintBusyType == ASSUME TInv, NEW t \in Thread, PaintBusy(t), Witness PROVE TInv'
<1>1. /\ TypeOK /\ Ends /\ pc[t] = "paint_busy" /\ frame[t] \in Frame /\ hand[t] \in Index
      /\ Role("paint_busy", frame[t], hand[t])
    BY DEF TInv, TypeOK, Roles, PaintBusy
<1>0. SharedOK /\ Fields(frame[t])
    BY <1>1, FrameFields DEF SharedOK, TypeOK, TInv
<1>2. SharedOK'
    BY <1>1, PaintBusyEffect DEF SharedOK, TypeOK, Ends, shared
<1> QED
  <2>1. To(t, "idle", EmptyFrame, hand[t]) /\ UNCHANGED calls
      BY <1>1, <1>2, PaintBusyEffect
  <2>2. EmptyFrame \in Frame /\ hand[t] \in Index /\ "idle" \in Labels
      BY <1>0, <1>1, NodeFacts, FrameWith DEF SharedOK, Fields, Retry, Labels, Role, PopAt, PushAt,
         EnqAt, DeqAt, PaintAt
  <2>3. Role("idle", EmptyFrame, hand[t])
      BY <1>0, <1>1, <1>2, NodeFacts DEF SharedOK, Fields, Ends, Role, PopAt, PushAt, EnqAt, DeqAt,
         PaintAt, Retry, EmptyFrame, Ptr, Link
  <2>4. Counted' /\ calls' \in [Thread -> Nat]
      BY <1>1, <2>1, ToCounted
  <2> QED BY <1>2, <2>1, <2>2, <2>3, <2>4, ToTInv

LEMMA PushCountType == ASSUME TInv, NEW t \in Thread, PushCount(t), Witness PROVE TInv'
<1>1. /\ TypeOK /\ Ends /\ pc[t] = "push_count" /\ frame[t] \in Frame /\ hand[t] \in Index
      /\ Role("push_count", frame[t], hand[t])
    BY DEF TInv, TypeOK, Roles, PushCount
<1>0. SharedOK /\ Fields(frame[t])
    BY <1>1, FrameFields DEF SharedOK, TypeOK, TInv
<1>2. SharedOK'
    BY <1>0, <1>1, PushCountEffect, NodeFacts DEF SharedOK, Ends
<1>3. PICK g \in StackColor :
        To(t, "push_link",
           [frame[t] EXCEPT !.new = [index |-> frame[t].desc, count |-> Bump(aba), color |-> g]],
             hand[t])
    BY <1>1, PushCountEffect
<1> DEFINE l == [index |-> frame[t].desc, count |-> Bump(aba), color |-> g]
<1>4. l \in Link /\ l.index = frame[t].desc
    BY <1>0, NodeFacts, QueueAssumption DEF SharedOK, Fields, Link
<1> HIDE DEF l
<1>5. [frame[t] EXCEPT !.new = l] \in Frame
    BY <1>1, <1>4, FrameWith
<1>6. Role("push_link", [frame[t] EXCEPT !.new = l], hand[t])
    BY <1>1, <1>4 DEF Role, PopAt, PushAt, EnqAt, DeqAt, PaintAt, Frame
<1>7. To(t, "push_link", [frame[t] EXCEPT !.new = l], hand[t])
    BY <1>3 DEF l
<1>8. Counted' /\ calls' \in [Thread -> Nat]
    BY <1>1, <1>7, PushCountEffect, ToCounted
<1>9. "push_link" \in Labels
    BY DEF Labels
<1> QED BY <1>1, <1>2, <1>5, <1>6, <1>7, <1>8, <1>9, ToTInv

LEMMA CallType == ASSUME TInv, NEW t \in Thread, Call(t), Witness PROVE TInv'
<1>1. TypeOK /\ Ends /\ pc[t] = "idle" /\ hand[t] \in Index
    BY CallEffect DEF TInv, TypeOK
<1>2. /\ SharedOK /\ EmptyFrame \in Frame /\ EmptyFrame.ret = BADINDEX
      /\ UNCHANGED <<word, head, tail, top, aba, result>>
    BY <1>1, CallEffect, NodeFacts DEF SharedOK, TypeOK, EmptyFrame
<1>3. Counted' /\ calls' \in [Thread -> Nat]
  <2>1. calls \in [Thread -> Nat] /\ Calls \in [Thread -> Nat] /\ Counted /\ pc \in [Thread -> Labels]
      BY <1>1, QueueAssumption DEF TInv, TypeOK
  <2>0. calls[t] < Calls[t] /\ calls' = [calls EXCEPT ![t] = @ + 1]
      BY <1>1, CallEffect
  <2>7. \E l, f, d : To(t, l, f, d)
      BY <1>1, CallEffect, Zenon
  <2>2. calls[t] < Calls[t] /\ calls' = [calls EXCEPT ![t] = @ + 1] /\ \A u \in Thread : u # t
          => pc'[u] = pc[u]
      BY <2>0, <2>1, <2>7 DEF To
  <2>3. calls' \in [Thread -> Nat]
          /\ \A u \in Thread : calls'[u] = IF u = t THEN calls[u] + 1 ELSE calls[u]
      BY <2>1, <2>2
  <2> QED BY <2>1, <2>2, <2>3 DEF Counted
<1>4. SharedOK'
  <2>1. \A n \in Node : [next[n] EXCEPT !.index = BADINDEX] \in Link
      BY <1>2, NodeFacts DEF SharedOK, Link
  <2>2. \/ next' = next
        \/ hand[t] \in Node
             /\ next' = [next EXCEPT ![hand[t]] = [next[hand[t]] EXCEPT !.index = BADINDEX]]
      BY <1>1, CallEffect, NodeFacts
  <2>3. next' \in [Node -> Link]
      BY <1>2, <2>1, <2>2 DEF SharedOK
  <2> QED BY <1>2, <2>3 DEF SharedOK, Ends
<1> DEFINE Goes(l, f) ==
       To(t, l, f, hand[t]) /\ l \in Labels /\ f \in Frame /\ Role(l, f, hand[t])
<1> USE DEF Role, PopAt, PushAt, EnqAt, DeqAt, PaintAt, Labels
<1>5. CASE /\ hand[t] = BADINDEX
           /\ To(t, "pop_top", [EmptyFrame EXCEPT !.back = "alloc"], hand[t])
  <2>1. Goes("pop_top", [EmptyFrame EXCEPT !.back = "alloc"])
      BY <1>2, <1>5, FrameWith DEF EmptyFrame
  <2> QED BY <1>1, <1>3, <1>4, <2>1, ToTInv
<1>6. CASE /\ hand[t] # BADINDEX
           /\ To(t, "push_count", [EmptyFrame EXCEPT !.desc = hand[t], !.back = "free"], hand[t])
  <2>1. Goes("push_count", [EmptyFrame EXCEPT !.desc = hand[t], !.back = "free"])
      BY <1>1, <1>2, <1>6, FrameWith DEF EmptyFrame
  <2> QED BY <1>1, <1>3, <1>4, <2>1, ToTInv
<1>7. ASSUME NEW q \in Queue, hand[t] # BADINDEX,
             To(t, "enq_tail", [EmptyFrame EXCEPT !.queue = q, !.desc = hand[t]], hand[t])
      PROVE  TInv'
  <2>1. Goes("enq_tail", [EmptyFrame EXCEPT !.queue = q, !.desc = hand[t]])
      BY <1>1, <1>2, <1>7, FrameWith DEF EmptyFrame
  <2> QED BY <1>1, <1>3, <1>4, <2>1, ToTInv
<1>8. ASSUME NEW q \in Queue, hand[t] = BADINDEX,
             To(t, "deq_head", [EmptyFrame EXCEPT !.queue = q], hand[t])
      PROVE  TInv'
  <2>1. Goes("deq_head", [EmptyFrame EXCEPT !.queue = q])
      BY <1>1, <1>2, <1>8, FrameWith DEF EmptyFrame
  <2> QED BY <1>1, <1>3, <1>4, <2>1, ToTInv
<1>9. ASSUME NEW q \in Queue, NEW c \in Color,
             To(t, "paint_head", [EmptyFrame EXCEPT !.queue = q, !.color = c], hand[t])
      PROVE  TInv'
  <2>1. Goes("paint_head", [EmptyFrame EXCEPT !.queue = q, !.color = c])
      BY <1>1, <1>2, <1>9, FrameWith DEF EmptyFrame
  <2> QED BY <1>1, <1>3, <1>4, <2>1, ToTInv
<1> QED BY <1>1, <1>5, <1>6, <1>7, <1>8, <1>9, CallEffect

-----------------------------------------------------------------------------
LEMMA TInit == Init => TInv
<1> SUFFICES ASSUME Init PROVE TInv
    OBVIOUS
<1>1. PICK g \in StackColor :
        /\ next = [n \in Node |->
               IF n >= NFree
               THEN [index |-> BADINDEX, count |-> n % CountMod, color |-> QueueColor[NDescs - n]]
               ELSE IF n = 0 THEN NoLink
               ELSE [index |-> n - 1, count |-> n % CountMod, color |-> g]]
        /\ top = [index |-> NFree - 1, count |-> NFree % CountMod, color |-> g]
    BY DEF Init
<1>2. /\ NDescs \in Nat /\ CountMod \in Nat /\ Len(QueueColor) \in Nat /\ Len(QueueColor) < NDescs
      /\ g \in Color /\ \A q \in Queue : QueueColor[q] \in Color
    BY QueueAssumption DEF Queue
<1>3. \A n \in 0 .. NDescs : n % CountMod \in Count
    BY <1>2, QueueAssumption DEF Count
<1>4. next \in [Node -> Link]
  <2>1. ASSUME NEW n \in Node PROVE next[n] \in Link
    <3>1. n \in 0 .. NDescs /\ n \in Nat
        BY <1>2 DEF Node
    <3>2. CASE n >= NFree
      <4>1. NDescs - n \in Queue
          BY <1>2, <3>1, <3>2 DEF NFree, Queue, Node
      <4> QED BY <1>1, <1>2, <1>3, <3>1, <3>2, <4>1, NodeFacts DEF Link
    <3>3. CASE n < NFree
      <4>1. n # 0 => n - 1 \in Node
          BY <1>2, <3>1 DEF Node
      <4> QED BY <1>1, <1>2, <1>3, <3>1, <3>3, <4>1, NodeFacts DEF Link, NFree
    <3> QED BY <1>2, <3>1, <3>2, <3>3 DEF NFree
  <2> QED BY <1>1, <2>1
<1>5. top \in Link
  <2>1. NFree \in 0 .. NDescs /\ NFree - 1 \in Node
      BY <1>2 DEF NFree, Node
  <2> QED BY <1>1, <1>2, <1>3, <2>1, NodeFacts DEF Link
<1>6. head \in [Queue -> Ptr] /\ tail = head /\ Ends
  <2>1. \A q \in Queue : Dummy(q) \in Node
      BY <1>2 DEF Queue, Dummy, Node
  <2>2. 0 \in Count
      BY QueueAssumption DEF Count
  <2> QED BY <2>1, <2>2, NodeFacts DEF Init, Ptr, Ends
<1>7. aba \in Count
    BY <1>2, <1>3 DEF Init
<1>8. TypeOK
    BY <1>4, <1>5, <1>6, <1>7, NodeFacts DEF Init, TypeOK, Labels
<1>9. Roles
    BY NodeFacts DEF Init, Roles, Role, EmptyFrame, PopAt, PushAt, EnqAt, DeqAt, PaintAt
<1>10. Counted
    BY QueueAssumption DEF Init, Counted
<1> QED BY <1>6, <1>8, <1>9, <1>10 DEF TInv

LEMMA TNext == TInv /\ [Next]_vars => TInv'
<1> SUFFICES ASSUME TInv, [Next]_vars PROVE TInv'
    OBVIOUS
<1>1. CASE UNCHANGED vars
    BY <1>1 DEF vars, TInv, TypeOK, Ends, Roles, Counted
<1>2. ASSUME NEW t \in Thread, Call(t), Witness PROVE TInv'
    BY <1>2, CallType
<1>3. ASSUME NEW t \in Thread, Access(t), Witness PROVE TInv'
    BY <1>3, PopTopType, PopNextType, PopCasType, PushCountType, PushLinkType, PushCasType,
       EnqTailType, EnqNextType, EnqCheckType, EnqLinkType, EnqHelpType, EnqSwingType,
       DeqHeadType, DeqTailType, DeqNextType, DeqCheckType, DeqEmptyType, DeqHelpType,
       DeqCopyType, DeqCasType, PaintHeadType, PaintTailType, PaintNextType, PaintCheckType,
       PaintCasType, PaintBusyType DEF Access
<1> QED BY <1>1, <1>2, <1>3 DEF Next

\* Whatever its calls and however they interleave, a thread never goes by an index
\* that names no descriptor: every step of migqueue.c keeps the types.
THEOREM TypeCorrect == Spec => []TypeOK
<1>1. TInv => TypeOK
    BY DEF TInv
<1> QED BY <1>1, TInit, TNext, PTL DEF Spec
=============================================================================
