---------------------------- MODULE MemifProofs ----------------------------
(***************************************************************************)
(* Theorems about Memif, for any sets of users, requests and tables.       *)
(***************************************************************************)
EXTENDS Memif, TLAPS

-----------------------------------------------------------------------------
(***************************************************************************)
(* Types.  TypeOK is not inductive: a transfer that ends with an interrupt *)
(* moves the chain it belongs to, which must be the one waiting for it.    *)
(***************************************************************************)

\* A chain has one transfer that raises an interrupt, and waits for it.
Interrupts ==
    /\ \A i \in DOMAIN chan :
         chan[i].irq => treq[chan[i].table] = chan[i].req /\ tpc[chan[i].table] = "dma"
    /\ \A i, j \in DOMAIN chan :
         chan[i].irq /\ chan[j].irq /\ chan[i].table = chan[j].table => i = j

TypeInv == TypeOK /\ Interrupts

\* What is left of a queue when its head is taken.
LEMMA Pop ==
    ASSUME NEW S, NEW s \in Seq(S), s # <<>>
    PROVE  /\ Head(s) \in S /\ Tail(s) \in Seq(S)
           /\ Head(s) = s[1] /\ 1 \in DOMAIN s
           /\ \A i \in DOMAIN Tail(s) : i + 1 \in DOMAIN s /\ Tail(s)[i] = s[i + 1] /\ i \in Nat /\ i # 0
  OBVIOUS

LEMMA TypeInit == Init => TypeInv
  BY MemifAssumption DEF Init, TypeInv, TypeOK, Interrupts, UserLabels, TableLabels, USR, KER

LEMMA TypeUser ==
    ASSUME TypeInv, NEW u \in User, UserStep(u)
    PROVE  TypeInv'
<1> USE MemifAssumption DEF queues, users, chains, UserGoto, UserLabels, TypeInv, TypeOK,
                            Interrupts, USR, KER
<1>1. ASSUME NEW r \in Req, Submit(u, r) PROVE TypeInv'
  BY <1>1 DEF Submit
<1>2. CASE Collect(u)
  BY <1>2 DEF Collect
<1>3. CASE PollBegin(u)
  BY <1>3 DEF PollBegin
<1>4. CASE PollLook(u)
  BY <1>4 DEF PollLook
<1>5. CASE PollWoken(u)
  BY <1>5 DEF PollWoken
<1>6. CASE Kick(u)
  BY <1>6 DEF Kick
<1>7. CASE FlushTake(u)
  <2>1. CASE qreq = <<>>
    BY <1>7, <2>1 DEF FlushTake
  <2>2. CASE qreq # <<>>
    <3>1. Head(qreq) \in Req /\ Tail(qreq) \in Seq(Req)
      BY <2>2, Pop
    <3>2. /\ qreq' = Tail(qreq) /\ held' = [held EXCEPT ![u] = Head(qreq)]
          /\ upc' = [upc EXCEPT ![u] = "move"]
          /\ UNCHANGED <<free, qissued, qcomp, color, triggered, chan, tpc, treq>>
      BY <1>7, <2>2 DEF FlushTake
    <3> QED
      BY <3>1, <3>2
  <2> QED
    BY <2>1, <2>2
<1>8. CASE FlushMove(u)
  BY <1>8 DEF FlushMove
<1>9. CASE FlushPaint(u)
  BY <1>9 DEF FlushPaint
<1>10. CASE FlushPick(u)
  <2>1. CASE qissued = <<>>
    BY <1>10, <2>1 DEF FlushPick
  <2>2. CASE qissued # <<>>
    <3>1. Head(qissued) \in Req /\ Tail(qissued) \in Seq(Req)
      BY <2>2, Pop
    <3>2. /\ qissued' = Tail(qissued) /\ held' = [held EXCEPT ![u] = Head(qissued)]
          /\ upc' = [upc EXCEPT ![u] = "issue"]
          /\ UNCHANGED <<free, qreq, qcomp, color, triggered, chan, tpc, treq>>
      BY <1>10, <2>2 DEF FlushPick
    <3> QED
      BY <3>1, <3>2
  <2> QED
    BY <2>1, <2>2
<1>11. ASSUME NEW t \in Table, FlushIssue(u, t) PROVE TypeInv'
  BY <1>11 DEF FlushIssue, Issue, TableGoto, TableLabels, Transfer
<1>12. CASE FlushFull(u)
  BY <1>12 DEF FlushFull
<1> QED
  BY <1>1, <1>2, <1>3, <1>4, <1>5, <1>6, <1>7, <1>8, <1>9, <1>10, <1>11, <1>12 DEF UserStep, InKick

LEMMA TypeTable ==
    ASSUME TypeInv, NEW t \in Table, TableStep(t)
    PROVE  TypeInv'
<1> USE MemifAssumption DEF queues, users, chains, TableGoto, TableLabels, TypeInv, TypeOK,
                            Interrupts, USR, KER
<1>1. CASE CallbackPost(t)
  BY <1>1 DEF CallbackPost
<1>2. CASE CallbackNotify(t)
  BY <1>2 DEF CallbackNotify, WakePollers
<1>3. CASE WorkBegin(t)
  BY <1>3 DEF WorkBegin
<1>4. CASE WorkScan(t)
  <2>1. CASE qissued = <<>>
    <3>1. UNCHANGED <<queues, chan, treq, upc, held, triggered>>
      BY <1>4, <2>1 DEF WorkScan
    <3>2. tpc' = [tpc EXCEPT ![t] = "look"] /\ tpc[t] = "scan"
      BY <1>4, <2>1 DEF WorkScan
    <3> QED
      BY <3>1, <3>2
  <2>2. CASE qissued # <<>>
    <3>1. Head(qissued) \in Req /\ Tail(qissued) \in Seq(Req)
      BY <2>2, Pop
    <3>2. /\ qissued' = Tail(qissued) /\ treq' = [treq EXCEPT ![t] = Head(qissued)]
          /\ tpc[t] = "scan" /\ tpc' = [tpc EXCEPT ![t] = "start"]
          /\ UNCHANGED <<free, qreq, qcomp, color, upc, held, triggered, chan>>
      BY <1>4, <2>2 DEF WorkScan
    <3> QED
      BY <3>1, <3>2
  <2> QED
    BY <2>1, <2>2
<1>5. CASE WorkLook(t)
  BY <1>5 DEF WorkLook
<1>6. CASE WorkTake(t)
  <2>1. CASE qreq = <<>>
    <3>1. UNCHANGED <<queues, chan, treq, upc, held, triggered>>
      BY <1>6, <2>1 DEF WorkTake
    <3>2. tpc' = [tpc EXCEPT ![t] = "repaint"] /\ tpc[t] = "take"
      BY <1>6, <2>1 DEF WorkTake
    <3> QED
      BY <3>1, <3>2
  <2>2. CASE qreq # <<>>
    <3>1. Head(qreq) \in Req /\ Tail(qreq) \in Seq(Req)
      BY <2>2, Pop
    <3>2. /\ qreq' = Tail(qreq) /\ treq' = [treq EXCEPT ![t] = Head(qreq)]
          /\ tpc[t] = "take" /\ tpc' = [tpc EXCEPT ![t] = "start"]
          /\ UNCHANGED <<free, qissued, qcomp, color, upc, held, triggered, chan>>
      BY <1>6, <2>2 DEF WorkTake
    <3> QED
      BY <3>1, <3>2
  <2> QED
    BY <2>1, <2>2
<1>7. CASE WorkRepaint(t)
  <2>1. CASE qreq = <<>>
    <3>1. /\ tpc[t] = "repaint" /\ tpc' = [tpc EXCEPT ![t] = "free"] /\ color' = USR
          /\ UNCHANGED <<free, qreq, qissued, qcomp, upc, held, triggered, chan, treq>>
      BY <1>7, <2>1 DEF WorkRepaint
    <3> QED
      BY <3>1
  <2>2. CASE qreq # <<>>
    <3>1. /\ tpc[t] = "repaint" /\ tpc' = [tpc EXCEPT ![t] = "scan"] /\ color' = color
          /\ UNCHANGED <<free, qreq, qissued, qcomp, upc, held, triggered, chan, treq>>
      BY <1>7, <2>2 DEF WorkRepaint
    <3> QED
      BY <3>1
  <2> QED
    BY <2>1, <2>2
<1>8. CASE WorkStart(t)
  BY <1>8, SMTT(20) DEF WorkStart, Issue, Transfer
<1>9. CASE WorkWait(t)
  BY <1>9 DEF WorkWait
<1>10. CASE WorkPost(t)
  BY <1>10 DEF WorkPost
<1>11. CASE WorkWake(t)
  BY <1>11 DEF WorkWake, WakePollers
<1>12. CASE WorkFull(t)
  BY <1>12 DEF WorkFull
<1> QED
  BY <1>1, <1>2, <1>3, <1>4, <1>5, <1>6, <1>7, <1>8, <1>9, <1>10, <1>11, <1>12 DEF TableStep

LEMMA TypeDma ==
    ASSUME TypeInv, DmaDone
    PROVE  TypeInv'
<1> USE DEF TypeInv, DmaDone
<1>1. /\ chan[1] \in Transfer /\ 1 \in DOMAIN chan /\ Head(chan) = chan[1]
      /\ chan' \in Seq(Transfer)
      /\ \A i \in DOMAIN chan' : i + 1 \in DOMAIN chan /\ chan'[i] = chan[i + 1] /\ i \in Nat /\ i # 0
  BY Pop DEF TypeOK
<1>2. TypeOK'
  BY <1>1 DEF TypeOK, Interrupts, TableLabels, Transfer, queues, users
<1>3. Interrupts'
  <2>1. ASSUME chan[1].irq PROVE \A i \in DOMAIN chan' : chan'[i].irq => chan'[i].table # chan[1].table
    BY <1>1, <2>1 DEF Interrupts
  <2>2. \A i, j \in DOMAIN chan' :
          chan'[i].irq /\ chan'[j].irq /\ chan'[i].table = chan'[j].table => i = j
    BY <1>1 DEF Interrupts
  <2>3. \A i \in DOMAIN chan' :
          chan'[i].irq => treq'[chan'[i].table] = chan'[i].req /\ tpc'[chan'[i].table] = "dma"
    BY <1>1, <2>1 DEF Interrupts, TypeOK
  <2> QED
    BY <2>2, <2>3 DEF Interrupts
<1> QED
  BY <1>2, <1>3

LEMMA TypeStutter ==
    ASSUME TypeInv, UNCHANGED vars
    PROVE  TypeInv'
  BY DEF vars, TypeInv, TypeOK, Interrupts

LEMMA TypeStep == TypeInv /\ [Next]_vars => TypeInv'
  BY TypeUser, TypeTable, TypeDma, TypeStutter DEF Next

\* The variables keep their types, however many users and chains there are.
THEOREM Typing == Spec => []TypeOK
<1>1. TypeInv => TypeOK
  BY DEF TypeInv
<1> QED
  BY TypeInit, TypeStep, <1>1, PTL DEF Spec

-----------------------------------------------------------------------------
(***************************************************************************)
(* Wakeups, for any number of users.  A thread falls asleep only on an     *)
(* empty qcomp, or on one whose last append has its wake_up still to come. *)
(***************************************************************************)
LEMMA WakeupUser ==
    ASSUME TypeOK, NoLostWakeup, NEW u \in User, UserStep(u)
    PROVE  NoLostWakeup'
<1> USE DEF queues, users, chains, UserGoto, NoLostWakeup, TypeOK
<1>1. ASSUME NEW r \in Req, Submit(u, r) PROVE NoLostWakeup'
  BY <1>1 DEF Submit
<1>2. CASE Collect(u)
  BY <1>2 DEF Collect
<1>3. CASE PollBegin(u)
  BY <1>3 DEF PollBegin
<1>4. CASE PollLook(u)
  BY <1>4 DEF PollLook, LooksEmpty
<1>5. CASE PollWoken(u)
  BY <1>5 DEF PollWoken
<1>6. CASE Kick(u)
  BY <1>6 DEF Kick
<1>7. CASE FlushTake(u)
  BY <1>7 DEF FlushTake
<1>8. CASE FlushMove(u)
  BY <1>8 DEF FlushMove
<1>9. CASE FlushPaint(u)
  BY <1>9 DEF FlushPaint
<1>10. CASE FlushPick(u)
  BY <1>10 DEF FlushPick
<1>11. ASSUME NEW t \in Table, FlushIssue(u, t) PROVE NoLostWakeup'
  BY <1>11 DEF FlushIssue, Issue, TableGoto
<1>12. CASE FlushFull(u)
  BY <1>12 DEF FlushFull
<1> QED
  BY <1>1, <1>2, <1>3, <1>4, <1>5, <1>6, <1>7, <1>8, <1>9, <1>10, <1>11, <1>12 DEF UserStep, InKick

LEMMA WakeupTable ==
    ASSUME TypeOK, NoLostWakeup, NEW t \in Table, TableStep(t)
    PROVE  NoLostWakeup'
<1> USE DEF queues, users, chains, TableGoto, NoLostWakeup, TypeOK
<1>1. CASE CallbackPost(t)
  BY <1>1 DEF CallbackPost
<1>2. CASE CallbackNotify(t)
  BY <1>2 DEF CallbackNotify, WakePollers
<1>3. CASE WorkBegin(t)
  BY <1>3 DEF WorkBegin
<1>4. CASE WorkScan(t)
  BY <1>4 DEF WorkScan
<1>5. CASE WorkLook(t)
  BY <1>5 DEF WorkLook
<1>6. CASE WorkTake(t)
  BY <1>6 DEF WorkTake
<1>7. CASE WorkRepaint(t)
  BY <1>7 DEF WorkRepaint
<1>8. CASE WorkStart(t)
  BY <1>8 DEF WorkStart, Issue
<1>9. CASE WorkWait(t)
  BY <1>9 DEF WorkWait
<1>10. CASE WorkPost(t)
  BY <1>10 DEF WorkPost
<1>11. CASE WorkWake(t)
  BY <1>11 DEF WorkWake, WakePollers
<1>12. CASE WorkFull(t)
  BY <1>12 DEF WorkFull
<1> QED
  BY <1>1, <1>2, <1>3, <1>4, <1>5, <1>6, <1>7, <1>8, <1>9, <1>10, <1>11, <1>12 DEF TableStep

\* No thread sleeps in poll() on a completion nobody will tell it about: neither
\* the softirq nor the worker can put a request into qcomp between the look of
\* if_poll and the sleep without waking the thread afterwards.
THEOREM Wakeup == Spec => []NoLostWakeup
<1>1. Init => NoLostWakeup
  BY DEF Init, NoLostWakeup
<1>2. TypeInv /\ NoLostWakeup /\ [Next]_vars => NoLostWakeup'
  <2> SUFFICES ASSUME TypeInv, NoLostWakeup, [Next]_vars PROVE NoLostWakeup'
    OBVIOUS
  <2>1. TypeOK
    BY DEF TypeInv
  <2>2. CASE DmaDone
    <3>1. \A t \in Table : tpc[t] \in {"notify", "wake"} => tpc'[t] = tpc[t]
      <4>1. chan[1] = Head(chan) /\ 1 \in DOMAIN chan
        BY <2>1, <2>2, Pop DEF TypeOK, DmaDone
      <4> QED
        BY <4>1, <2>2 DEF DmaDone, TypeInv, TypeOK, Interrupts
    <3> QED
      BY <2>2, <3>1 DEF DmaDone, NoLostWakeup, queues, users
  <2>3. CASE UNCHANGED vars
    BY <2>3 DEF vars, NoLostWakeup
  <2> QED
    BY <2>1, <2>2, <2>3, WakeupUser, WakeupTable DEF Next
<1> QED
  BY <1>1, <1>2, TypeInit, TypeStep, PTL DEF Spec

-----------------------------------------------------------------------------
(***************************************************************************)
(* The colouring protocol, for one user thread.  The invariant is the      *)
(* handover of the queues: a kick and a chain exclude each other, a kick   *)
(* always has a request to start a chain with, and a chain that is about   *)
(* to end has left none behind.                                            *)
(***************************************************************************)
OneUser == \A u, v \in User : u = v

Kicking(u) == upc[u] \in {"kick", "drain", "move", "paint", "pick", "issue", "full"}

KickIsAlone == \A u \in User, t \in Table : ~(Kicking(u) /\ Active(t))

KickHasWork ==
    \A u \in User :
        /\ upc[u] = "kick" => qreq # <<>>
        /\ upc[u] = "drain" => qreq # <<>> \/ qissued # <<>>
        /\ upc[u] \in {"paint", "pick"} => qissued # <<>>

ChainLeavesNone == \A t \in Table : tpc[t] \in {"look", "take", "repaint"} => qissued = <<>>

Handover ==
    /\ NoBug /\ ChainOwnsColor /\ NoStranded
    /\ KickIsAlone /\ KickHasWork /\ ChainLeavesNone

LEMMA HandoverInit == Init => Handover
  BY DEF Init, Handover, NoBug, ChainOwnsColor, NoStranded, Active, Kicking,
         KickIsAlone, KickHasWork, ChainLeavesNone, USR, KER

LEMMA HandoverUser ==
    ASSUME OneUser, TypeOK, Handover, NEW u \in User, UserStep(u)
    PROVE  Handover'
<1> USE DEF queues, users, chains, UserGoto, TypeOK, USR, KER, OneUser, Handover, NoBug,
            ChainOwnsColor, NoStranded, Active, Kicking, KickIsAlone, KickHasWork, ChainLeavesNone
<1>1. ASSUME NEW r \in Req, Submit(u, r) PROVE Handover'
  BY <1>1 DEF Submit
<1>2. CASE Collect(u)
  BY <1>2 DEF Collect
<1>3. CASE PollBegin(u)
  BY <1>3 DEF PollBegin
<1>4. CASE PollLook(u)
  BY <1>4 DEF PollLook
<1>5. CASE PollWoken(u)
  BY <1>5 DEF PollWoken
<1>6. CASE Kick(u)
  BY <1>6 DEF Kick
<1>7. CASE FlushTake(u)
  <2>1. CASE qreq = <<>>
    <3>1. /\ upc[u] = "drain" /\ upc' = [upc EXCEPT ![u] = "paint"]
          /\ UNCHANGED <<qreq, qissued, color, tpc>>
      BY <1>7, <2>1 DEF FlushTake
    <3>2. qissued # <<>> /\ color = USR /\ \A t \in Table : tpc[t] = "free"
      BY <2>1, <3>1
    <3>3. \A v \in User : v = u
      OBVIOUS
    <3> QED
      BY <3>1, <3>2, <3>3
  <2>2. CASE qreq # <<>>
    <3>1. /\ upc[u] = "drain" /\ upc' = [upc EXCEPT ![u] = "move"]
          /\ UNCHANGED <<qissued, color, tpc>>
      BY <1>7, <2>2 DEF FlushTake
    <3> QED
      BY <3>1
  <2> QED
    BY <2>1, <2>2
<1>8. CASE FlushMove(u)
  BY <1>8, SMTT(20) DEF FlushMove
<1>9. CASE FlushPaint(u)
  BY <1>9 DEF FlushPaint
<1>10. CASE FlushPick(u)
  BY <1>10 DEF FlushPick
<1>11. ASSUME NEW t \in Table, FlushIssue(u, t) PROVE Handover'
  BY <1>11 DEF FlushIssue, Issue, TableGoto
<1>12. CASE FlushFull(u)
  BY <1>12 DEF FlushFull
<1> QED
  BY <1>1, <1>2, <1>3, <1>4, <1>5, <1>6, <1>7, <1>8, <1>9, <1>10, <1>11, <1>12 DEF UserStep, InKick

LEMMA HandoverTable ==
    ASSUME OneUser, TypeOK, Handover, NEW t \in Table, TableStep(t)
    PROVE  Handover'
<1> USE DEF queues, users, chains, TableGoto, TypeOK, USR, KER, Handover, NoBug,
            ChainOwnsColor, NoStranded, Active, Kicking, KickIsAlone, KickHasWork, ChainLeavesNone
<1>1. CASE CallbackPost(t)
  BY <1>1 DEF CallbackPost
<1>2. CASE CallbackNotify(t)
  BY <1>2 DEF CallbackNotify, WakePollers
<1>3. CASE WorkBegin(t)
  BY <1>3 DEF WorkBegin
<1>4. CASE WorkScan(t)
  <2>1. /\ tpc[t] = "scan" /\ UNCHANGED <<qreq, color, upc>>
        /\ \/ tpc' = [tpc EXCEPT ![t] = "look"] /\ qissued = <<>> /\ qissued' = qissued
           \/ tpc' = [tpc EXCEPT ![t] = "start"]
    BY <1>4 DEF WorkScan
  <2>2. \A v \in User : upc[v] \notin {"kick", "drain", "move", "paint", "pick", "issue", "full"}
    BY <2>1
  <2>3. color = KER /\ color' = KER /\ \A s \in Table : Active(s)' <=> Active(s)
    BY <2>1
  <2> QED
    BY <2>1, <2>2, <2>3
<1>5. CASE WorkLook(t)
  BY <1>5 DEF WorkLook
<1>6. CASE WorkTake(t)
  <2>1. /\ tpc[t] = "take" /\ UNCHANGED <<qissued, color, upc>>
        /\ tpc' = [tpc EXCEPT ![t] = "repaint"] \/ tpc' = [tpc EXCEPT ![t] = "start"]
    BY <1>6 DEF WorkTake
  <2>2. \A v \in User : upc[v] \notin {"kick", "drain", "move", "paint", "pick", "issue", "full"}
    BY <2>1
  <2>3. color = KER /\ color' = KER /\ \A s \in Table : Active(s)' <=> Active(s)
    BY <2>1
  <2> QED
    BY <2>1, <2>2, <2>3
<1>7. CASE WorkRepaint(t)
  BY <1>7 DEF WorkRepaint
<1>8. CASE WorkStart(t)
  BY <1>8 DEF WorkStart, Issue
<1>9. CASE WorkWait(t)
  BY <1>9 DEF WorkWait
<1>10. CASE WorkPost(t)
  BY <1>10 DEF WorkPost
<1>11. CASE WorkWake(t)
  BY <1>11 DEF WorkWake, WakePollers
<1>12. CASE WorkFull(t)
  BY <1>12 DEF WorkFull
<1> QED
  BY <1>1, <1>2, <1>3, <1>4, <1>5, <1>6, <1>7, <1>8, <1>9, <1>10, <1>11, <1>12 DEF TableStep

LEMMA HandoverDma ==
    ASSUME TypeInv, Handover, DmaDone
    PROVE  Handover'
<1>1. /\ \A t \in Table : tpc[t] # tpc'[t] => tpc[t] = "dma" /\ tpc'[t] = "callback"
      /\ tpc' \in [Table -> TableLabels]
  <2>1. chan[1] = Head(chan) /\ 1 \in DOMAIN chan
    BY Pop DEF TypeInv, TypeOK, DmaDone
  <2>2. CASE chan[1].irq
    <3>1. tpc[chan[1].table] = "dma" /\ tpc' = [tpc EXCEPT ![chan[1].table] = "callback"]
      BY <2>1, <2>2 DEF DmaDone, TypeInv, Interrupts
    <3> QED
      BY <3>1 DEF TypeInv, TypeOK, TableLabels
  <2>3. CASE ~chan[1].irq
    BY <2>1, <2>3 DEF DmaDone, TypeInv, TypeOK
  <2> QED
    BY <2>2, <2>3
<1>2. UNCHANGED <<qreq, qissued, color, upc>>
  BY DEF DmaDone, queues, users
<1>3. \A t \in Table : Active(t)' <=> Active(t)
  BY <1>1 DEF Active
<1> QED
  BY <1>1, <1>2, <1>3 DEF Handover, NoBug, ChainOwnsColor, NoStranded, Kicking,
         KickIsAlone, KickHasWork, ChainLeavesNone

LEMMA HandoverStep == ASSUME OneUser PROVE TypeInv /\ Handover /\ [Next]_vars => Handover'
<1> SUFFICES ASSUME TypeInv, Handover, [Next]_vars PROVE Handover'
  OBVIOUS
<1>1. TypeOK
  BY DEF TypeInv
<1>2. CASE UNCHANGED vars
  BY <1>2 DEF vars, Handover, NoBug, ChainOwnsColor, NoStranded, Active, Kicking,
         KickIsAlone, KickHasWork, ChainLeavesNone
<1> QED
  BY <1>1, <1>2, HandoverUser, HandoverTable, HandoverDma DEF Next

LEMMA HandoverInvariant == ASSUME OneUser PROVE Spec => []Handover
  BY HandoverInit, HandoverStep, TypeInit, TypeStep, PTL DEF Spec

\* The BUG_ON(!desc) of user_flush cannot fire for one user: whoever repaints
\* qreq has moved a request into qissued, and no chain can have taken it.
THEOREM NoBugForOneUser == ASSUME OneUser PROVE Spec => []NoBug
<1>1. Handover => NoBug
  BY DEF Handover
<1> QED
  BY HandoverInvariant, <1>1, PTL

\* For one user the comments of do_dma_complete and dma_callback_noremap hold:
\* user and kernel never flush the queues at the same time.
THEOREM FlushesApart == ASSUME OneUser PROVE Spec => []NeverConcurrentFlush
<1>1. Handover => NeverConcurrentFlush
  BY DEF Handover, KickIsAlone, Kicking, Active, NeverConcurrentFlush, UserFlushes, KernelFlushes
<1> QED
  BY HandoverInvariant, <1>1, PTL

\* For one user the kernel's colour always has exactly one chain, or one kick
\* about to start it, behind it.
THEOREM OwnedColor == ASSUME OneUser PROVE Spec => []ChainOwnsColor
<1>1. Handover => ChainOwnsColor
  BY DEF Handover
<1> QED
  BY HandoverInvariant, <1>1, PTL

\* For one user no request is left in qreq or qissued when the last chain has
\* given the colour back and no kick is under way.
THEOREM NothingStranded == ASSUME OneUser PROVE Spec => []NoStranded
<1>1. Handover => NoStranded
  BY DEF Handover
<1> QED
  BY HandoverInvariant, <1>1, PTL
=============================================================================
