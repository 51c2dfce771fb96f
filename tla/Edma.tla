-------------------------------- MODULE Edma --------------------------------
(***************************************************************************)
(* The user-level library for the EDMA3 engine: channels, PaRAM sets, and  *)
(* the transfers that are programmed into them.                            *)
(*                                                                         *)
(* A PaRAM set describes one transfer and names the set to be loaded after *)
(* it.  A trigger makes a channel carry out its own set and load the next; *)
(* a set that chains triggers the channel again when it is done, one that  *)
(* interrupts sets the channel's bit in the pending register, for which    *)
(* the library waits.  A set that has been loaded is lost: a channel that  *)
(* is used again has to be programmed again, or restored.                  *)
(*                                                                         *)
(* A program uses several channels at a time; a function of the library    *)
(* that does not wait is one step.  One that waits is two, with room for   *)
(* the other channels in between, though a program of one thread has       *)
(* nothing to do then.  A failed assertion ends the program.  The engine   *)
(* and TI's resource manager are external: what a set holds when it is     *)
(* granted is whatever was left in it.                                     *)
(***************************************************************************)
EXTENDS EdmaGeometry, Sequences, FiniteSets

CONSTANTS
    Handle,        \* the channel handles of the program
    Phys,          \* the physical channels, each with its PaRAM set
    Second,        \* channel 2, the one a transfer that chains itself asks for
    Logic,         \* the other PaRAM sets, to be linked to
    Null,          \* the link 0xffff, and no transfer
    Size,          \* Size[h]: the sizes a program asks for with handle h
    MaxCnt         \* MaxCnt[h]: the most transfers in one call for handle h

ASSUME EdmaAssumption ==
    /\ Null \notin Phys \cup Logic /\ Second \in Phys /\ Phys \cap Logic = {}
    /\ Size \in [Handle -> SUBSET (Nat \ {0})]
    /\ MaxCnt \in [Handle -> Nat]

VARIABLES
    sets,      \* sets[h]: the PaRAM sets of handle h, the physical one first
    kind,      \* kind[h]: the function that has allocated it
    preset,    \* preset[h]: the transfer size its sets are preloaded for, or 0
    phase,     \* phase[h]: the transfer it is used for
    kicks,     \* kicks[h]: the triggers that are still to be given
    param,     \* param[s]: what PaRAM set s holds
    trig,      \* the channels that have been triggered
    inflight,  \* inflight[p]: the transfer channel p is carrying out
    ipr,       \* the channels whose completion is pending
    asked,     \* asked[p]: the transfers the program has asked channel p for
    log,       \* log[p]: those it has carried out
    aborted    \* an assertion of the library has failed

handles == <<sets, kind, preset, phase, kicks>>
engine == <<trig, inflight, ipr>>
vars == <<handles, param, engine, asked, log, aborted>>

Kinds == {"none", "linked", "plain", "once", "multiple", "selfchain"}
Phases == {"ready", "xfer", "gather", "preloaded"}

NullSet == [src |-> 0, dst |-> 0, a |-> 0, b |-> 0, link |-> Null, chain |-> FALSE, intr |-> FALSE]

\* The set for the transfer of size bytes from buffer src to offset dst.
Pset(src, dst, size, link, last) ==
    [src |-> src, dst |-> dst, a |-> Acnt(size), b |-> Bcnt(size),
     link |-> link, chain |-> ~last, intr |-> last]

Item(src, dst, size) == [src |-> src, dst |-> dst, n |-> size]

\* The offset of the i-th of the sizes in the destination buffer.
Offset(sizes, i) ==
    LET sum[n \in 0 .. Len(sizes)] == IF n = 0 THEN 0 ELSE sum[n - 1] + sizes[n] IN sum[i - 1]

-----------------------------------------------------------------------------
Init ==
    /\ sets = [h \in Handle |-> <<>>]
    /\ kind = [h \in Handle |-> "none"]
    /\ preset = [h \in Handle |-> 0]
    /\ phase = [h \in Handle |-> "ready"]
    /\ kicks = [h \in Handle |-> 0]
    /\ param = [s \in Phys \cup Logic |-> NullSet]
    /\ trig = {} /\ ipr = {}
    /\ inflight = [p \in Phys |-> NullSet]
    /\ asked = [p \in Phys |-> <<>>]
    /\ log = [p \in Phys |-> <<>>]
    /\ aborted = FALSE

Elems(s) == {s[i] : i \in DOMAIN s}
Taken == UNION {Elems(sets[h]) : h \in Handle}
Channel(h) == sets[h][1]

\* EDMA3_DRV_requestChannel, for a channel and n sets to link: any that are free.
Grants(n) ==
    {s \in [1 .. n + 1 -> (Phys \cup Logic) \ Taken] :
        /\ s[1] \in Phys
        /\ \A i \in 2 .. n + 1 : s[i] \in Logic
        /\ \A i, j \in 1 .. n + 1 : s[i] = s[j] => i = j}

\* The link from the i-th set of a handle to the next one.
Link(s, i) == IF i < Len(s) THEN s[i + 1] ELSE Null

\* The sets a call writes, and the trigger that sets the channel going.
Program(s, written, items) ==
    /\ param' = [t \in Phys \cup Logic |->
                    IF \E i \in DOMAIN written : s[i] = t
                    THEN written[CHOOSE i \in DOMAIN written : s[i] = t]
                    ELSE param[t]]
    /\ trig' = trig \cup {s[1]}
    /\ asked' = [asked EXCEPT ![s[1]] = items]
    /\ log' = [log EXCEPT ![s[1]] = <<>>]
    /\ UNCHANGED <<inflight, ipr>>

Take(h, s, k) ==
    /\ sets' = [sets EXCEPT ![h] = s]
    /\ kind' = [kind EXCEPT ![h] = k]

\* MUTANT: the linked sets are not given back.
MutRelease(h) ==
    /\ sets' = [sets EXCEPT ![h] = Tail(@)]
    /\ kind' = [kind EXCEPT ![h] = "none"]
    /\ preset' = [preset EXCEPT ![h] = 0]

Release(h) ==
    /\ sets' = [sets EXCEPT ![h] = <<>>]
    /\ kind' = [kind EXCEPT ![h] = "none"]
    /\ preset' = [preset EXCEPT ![h] = 0]

\* EDMA3_DRV_waitAndClearTcc returns.
Completed(h) == Channel(h) \in ipr /\ ipr' = ipr \ {Channel(h)}

\* What is left in a set after a call: the buffers and sizes do not matter any
\* more, that it would move something, where it links and how it reports do.
Leftover(x) == IF x.a * x.b = 0 THEN NullSet ELSE [x EXCEPT !.src = 0, !.dst = 0, !.a = 1, !.b = 1]
LeaveSets(h) ==
    param' = [s \in Phys \cup Logic |-> IF s \in Elems(sets[h]) THEN Leftover(param[s]) ELSE param[s]]

\* With that the call is over.
Over(h) ==
    /\ Completed(h)
    /\ phase' = [phase EXCEPT ![h] = "ready"]
    /\ asked' = [asked EXCEPT ![Channel(h)] = <<>>]
    /\ log' = [log EXCEPT ![Channel(h)] = <<>>]
    /\ UNCHANGED <<trig, inflight>>

-----------------------------------------------------------------------------
(***************************************************************************)
(* Channels.                                                               *)
(***************************************************************************)
\* The array of links has an entry for each set, and its last one is written: there is one.
AllocateChannelLinked(h, n) ==
    /\ kind[h] = "none" /\ n > 0
    /\ \E s \in Grants(n) : Take(h, s, "linked")
    /\ UNCHANGED <<preset, phase, kicks, param, engine, asked, log>>

AllocateChannel(h) ==
    /\ kind[h] = "none"
    /\ \E s \in Grants(0) : Take(h, s, "plain")
    /\ UNCHANGED <<preset, phase, kicks, param, engine, asked, log>>

\* For a channel without sets to link chinfo->links is what malloc has left there: freeing
\* it may go well, or not (UninitializedFree).
FreeChannel(h) ==
    /\ kind[h] \in {"linked", "plain"} /\ phase[h] = "ready"
    /\ Release(h) /\ LeaveSets(h)
    /\ UNCHANGED <<phase, kicks, engine, asked, log>>

-----------------------------------------------------------------------------
(***************************************************************************)
(* Single transfers.                                                       *)
(***************************************************************************)
One(s, size) == Program(s, <<Pset(1, 0, size, Null, TRUE)>>, <<Item(1, 0, size)>>)

\* A transfer on a channel that is kept.
StartXferOnce1(h, size) ==
    /\ kind[h] \in {"linked", "plain"} /\ phase[h] = "ready" /\ Movable(size)
    /\ One(sets[h], size)
    /\ phase' = [phase EXCEPT ![h] = "xfer"]
    /\ UNCHANGED <<sets, kind, preset, kicks>>

WaitXfer1(h) ==
    /\ kind[h] \in {"linked", "plain"} /\ phase[h] = "xfer" /\ Over(h) /\ LeaveSets(h)
    /\ UNCHANGED <<sets, kind, preset, kicks>>

\* A transfer with a channel of its own, which the wait gives back.
StartXferOnce(h, size) ==
    /\ kind[h] = "none" /\ Movable(size)
    /\ \E s \in Grants(0) : Take(h, s, "once") /\ One(s, size)
    /\ phase' = [phase EXCEPT ![h] = "xfer"]
    /\ UNCHANGED <<preset, kicks>>

\* MUTANT: the channel is given back without the wait.
MutWaitXfer(h) ==
    /\ kind[h] = "once"
    /\ Release(h) /\ LeaveSets(h)
    /\ phase' = [phase EXCEPT ![h] = "ready"]
    /\ UNCHANGED <<kicks, engine, asked, log>>

WaitXfer(h) ==
    /\ kind[h] = "once" /\ Over(h)
    /\ Release(h) /\ LeaveSets(h)
    /\ UNCHANGED kicks

-----------------------------------------------------------------------------
(***************************************************************************)
(* Several transfers in one call.                                          *)
(***************************************************************************)
\* The same transfer, count times: every set interrupts, and the program
\* triggers the channel anew after each.
StartXferMultiple(h, size, count) ==
    /\ kind[h] = "none" /\ Movable(size)
    /\ \E s \in Grants(count - 1) :
        /\ Take(h, s, "multiple")
        /\ Program(s, [i \in 1 .. count |-> Pset(1, 0, size, Link(s, i), TRUE)],
                      [i \in 1 .. count |-> Item(1, 0, size)])
    /\ phase' = [phase EXCEPT ![h] = "xfer"]
    /\ kicks' = [kicks EXCEPT ![h] = count - 1]
    /\ UNCHANGED preset

KickMultiple(h) ==
    /\ kind[h] = "multiple" /\ kicks[h] > 0 /\ Completed(h)
    /\ kicks' = [kicks EXCEPT ![h] = @ - 1]
    /\ trig' = trig \cup {Channel(h)}
    /\ UNCHANGED <<sets, kind, preset, phase, param, inflight, asked, log>>

FinishMultiple(h) ==
    /\ kind[h] = "multiple" /\ kicks[h] = 0 /\ Over(h)
    /\ Release(h) /\ LeaveSets(h)
    /\ UNCHANGED kicks

\* A transfer cut into count of equal size, on channel 2; every linked set but the last
\* triggers the channel again, and so does the set of the channel: a single one never
\* interrupts.
StartSelfChaining(h, size, count) ==
    /\ kind[h] = "none" /\ Movable(size)
    /\ \E s \in {g \in Grants(count - 1) : g[1] = Second} :
        /\ Take(h, s, "selfchain")
        /\ Program(s, [i \in 1 .. count |->
                          Pset(1, (i - 1) * size, size, Link(s, i), i = count /\ count > 1)],
                      [i \in 1 .. count |-> Item(1, (i - 1) * size, size)])
    /\ phase' = [phase EXCEPT ![h] = "xfer"]
    /\ UNCHANGED <<preset, kicks>>

FinishSelfChaining(h) ==
    /\ kind[h] = "selfchain" /\ Over(h)
    /\ Release(h) /\ LeaveSets(h)
    /\ UNCHANGED kicks

-----------------------------------------------------------------------------
(***************************************************************************)
(* Gathers: several buffers into one.                                      *)
(***************************************************************************)
Gathered(sizes) == [i \in DOMAIN sizes |-> Item(i, Offset(sizes, i), sizes[i])]

\* MUTANT: the link of the last transfer is the one of its set.
MutStartGather(h, sizes) ==
    /\ kind[h] = "linked" /\ phase[h] = "ready"
    /\ Len(sizes) \in 1 .. Len(sets[h])
    /\ \A i \in DOMAIN sizes : Movable(sizes[i])
    /\ Program(sets[h],
               [i \in DOMAIN sizes |->
                   Pset(i, Offset(sizes, i), sizes[i], Link(sets[h], i), FALSE)],
               Gathered(sizes))
    /\ phase' = [phase EXCEPT ![h] = "gather"]
    /\ UNCHANGED <<sets, kind, preset, kicks>>

\* MUTANT: the loop stops before the last transfer.
MutGatherShort(h, sizes) ==
    /\ kind[h] = "linked" /\ phase[h] = "ready"
    /\ Len(sizes) \in 2 .. Len(sets[h])
    /\ \A i \in DOMAIN sizes : Movable(sizes[i])
    /\ Program(sets[h],
               [i \in 1 .. Len(sizes) - 1 |->
                   Pset(i, Offset(sizes, i), sizes[i], Link(sets[h], i), FALSE)],
               Gathered(sizes))
    /\ phase' = [phase EXCEPT ![h] = "gather"]
    /\ UNCHANGED <<sets, kind, preset, kicks>>

\* Every set is written.  (A single transfer links to the second set, though it
\* ends there.)
StartGather(h, sizes) ==
    /\ kind[h] = "linked" /\ phase[h] = "ready"
    /\ Len(sizes) \in 1 .. Len(sets[h])
    /\ \A i \in DOMAIN sizes : Movable(sizes[i])
    /\ Program(sets[h],
               [i \in DOMAIN sizes |->
                   Pset(i, Offset(sizes, i), sizes[i],
                        IF i = Len(sizes) /\ i > 1 THEN Null ELSE Link(sets[h], i),
                        i = Len(sizes))],
               Gathered(sizes))
    /\ phase' = [phase EXCEPT ![h] = "gather"]
    /\ UNCHANGED <<sets, kind, preset, kicks>>

WaitGather(h) ==
    /\ phase[h] = "gather" /\ Over(h) /\ LeaveSets(h)
    /\ UNCHANGED <<sets, kind, preset, kicks>>

\* What a preloaded set holds but for the buffers.
Preloaded(h, i) == Pset(0, 0, preset[h], Link(sets[h], i), FALSE)

\* preload_psets: geometry, link and chaining of all sets, for one size ("never preloaded
\* before").
PreloadPsets(h, size) ==
    /\ kind[h] = "linked" /\ phase[h] = "ready" /\ preset[h] = 0 /\ Movable(size)
    /\ preset' = [preset EXCEPT ![h] = size]
    /\ param' = [t \in Phys \cup Logic |->
                    IF t \in Elems(sets[h])
                    THEN Pset(0, 0, size, Link(sets[h], CHOOSE i \in DOMAIN sets[h] : sets[h][i] = t), FALSE)
                    ELSE param[t]]
    /\ UNCHANGED <<sets, kind, phase, kicks, engine, asked, log>>

\* Only the buffers are written, and the link and the options of the last set.
PreloadedSet(h, i, cnt) ==
    IF i < cnt
    THEN [param[sets[h][i]] EXCEPT !.src = i, !.dst = (i - 1) * preset[h]]
    ELSE [param[sets[h][i]] EXCEPT !.src = i, !.dst = (i - 1) * preset[h],
                                   !.link = Null, !.chain = FALSE, !.intr = TRUE]

StartGatherPreloaded(h, cnt) ==
    /\ phase[h] = "ready" /\ preset[h] # 0 /\ cnt \in 1 .. Len(sets[h])
    /\ Program(sets[h], [i \in 1 .. cnt |-> PreloadedSet(h, i, cnt)],
               Gathered([i \in 1 .. cnt |-> preset[h]]))
    /\ phase' = [phase EXCEPT ![h] = "preloaded"]
    \* xfer->cnt
    /\ kicks' = [kicks EXCEPT ![h] = cnt]
    /\ UNCHANGED <<sets, kind, preset>>

\* MUTANT: only the set of the channel is restored.
MutRestored(h, t) == t = Channel(h)

\* The set of the channel, which the engine has overwritten, and the last one.
Restored(h, t) == t \in {sets[h][1], sets[h][kicks[h]]}

WaitGatherPreloaded(h) ==
    /\ phase[h] = "preloaded" /\ Over(h)
    /\ param' = [t \in Phys \cup Logic |->
                    IF Restored(h, t)
                    THEN Preloaded(h, CHOOSE i \in DOMAIN sets[h] : sets[h][i] = t)
                    ELSE param[t]]
    /\ kicks' = [kicks EXCEPT ![h] = 0]
    /\ UNCHANGED <<sets, kind, preset>>

-----------------------------------------------------------------------------
(***************************************************************************)
(* The engine.                                                             *)
(***************************************************************************)
\* A trigger makes the channel take its set, and load the one it links to; with
\* an empty set it does nothing.
TakeSet(p) ==
    /\ p \in trig /\ inflight[p] = NullSet
    /\ trig' = trig \ {p}
    /\ IF param[p].a * param[p].b = 0
       THEN UNCHANGED <<inflight, param>>
       ELSE /\ inflight' = [inflight EXCEPT ![p] = param[p]]
            /\ param' = [param EXCEPT ![p] =
                            IF param[p].link = Null THEN NullSet ELSE param[param[p].link]]
    /\ UNCHANGED <<handles, ipr, asked, log>>

\* The transfer is done, and reported by the trigger or by the pending bit.
Done(p) ==
    /\ inflight[p] # NullSet
    /\ LET x == inflight[p] IN
       /\ log' = [log EXCEPT ![p] = Append(@, Item(x.src, x.dst, x.a * x.b))]
       /\ trig' = IF x.chain THEN trig \cup {p} ELSE trig
       /\ ipr' = IF x.intr THEN ipr \cup {p} ELSE ipr
    /\ inflight' = [inflight EXCEPT ![p] = NullSet]
    /\ UNCHANGED <<handles, param, asked>>

-----------------------------------------------------------------------------
(***************************************************************************)
(* What ends the program.                                                  *)
(***************************************************************************)
\* EDMA3_DRV_requestChannel has nothing to grant, or channel 2 is in use.
NothingGranted(h) ==
    /\ kind[h] = "none"
    /\ Second \in Taken \/ \E n \in 0 .. MaxCnt[h] - 1 : Grants(n) = {}

\* No number of arrays makes up the size ("not impl").
SizeRefused(h) == phase[h] = "ready" /\ \E size \in Size[h] : ~Movable(size)

\* A gather of more transfers than the channel has sets, or of a channel whose sets have
\* not been preloaded.
GatherRefused(h) ==
    /\ kind[h] = "linked" /\ phase[h] = "ready"
    /\ preset[h] = 0 \/ Len(sets[h]) < MaxCnt[h]

\* The sets have been preloaded before.
PreloadRefused(h) == kind[h] = "linked" /\ phase[h] = "ready" /\ preset[h] # 0

\* edma3_free_channel of a channel without sets to link.
UninitializedFree(h) == kind[h] = "plain" /\ phase[h] = "ready"

Abort(h) ==
    /\ ~aborted /\ aborted' = TRUE
    /\ \/ NothingGranted(h) \/ SizeRefused(h) \/ GatherRefused(h) \/ PreloadRefused(h)
       \/ UninitializedFree(h)
    /\ UNCHANGED <<handles, param, engine, asked, log>>

-----------------------------------------------------------------------------
\* Nothing is followed any more when the program has ended.
Runs == ~aborted /\ UNCHANGED aborted

\* An obligation of the program: "we count on that the geometry of all PSETs (phys/logic)
\* are loaded (and are restored to default if clobbered)" (edma3_start_gather_preloaded).
\* Any other transfer clobbers them, and does not restore them.
Unclobbered(h) == preset[h] = 0

Sizes(h) == UNION {[1 .. n -> Size[h]] : n \in 1 .. MaxCnt[h]}

Start(h) ==
    /\ Runs
    /\ \/ \E n \in 1 .. MaxCnt[h] - 1 : AllocateChannelLinked(h, n)
       \/ AllocateChannel(h) \/ FreeChannel(h)
       \/ \E size \in Size[h] :
           \/ Unclobbered(h) /\ StartXferOnce1(h, size)
           \/ StartXferOnce(h, size) \/ PreloadPsets(h, size)
           \/ \E n \in 1 .. MaxCnt[h] : StartXferMultiple(h, size, n) \/ StartSelfChaining(h, size, n)
       \/ Unclobbered(h) /\ \E sizes \in Sizes(h) : StartGather(h, sizes)
       \/ \E n \in 1 .. MaxCnt[h] : StartGatherPreloaded(h, n)

Wait(h) ==
    /\ Runs
    /\ \/ WaitXfer1(h) \/ WaitXfer(h) \/ KickMultiple(h) \/ FinishMultiple(h)
       \/ FinishSelfChaining(h) \/ WaitGather(h) \/ WaitGatherPreloaded(h)

Work(p) == Runs /\ (TakeSet(p) \/ Done(p))

Next ==
    \/ \E h \in Handle : Start(h) \/ Wait(h) \/ Abort(h)
    \/ \E p \in Phys : Work(p)

Spec == Init /\ [][Next]_vars

\* The engine works, and a wait that can return returns.
FairSpec ==
    /\ Spec
    /\ \A h \in Handle : WF_vars(Wait(h))
    /\ \A p \in Phys : WF_vars(Work(p))

-----------------------------------------------------------------------------
(***************************************************************************)
(* Properties.                                                             *)
(***************************************************************************)
\* Every variable keeps its type, and no set belongs to two handles (the
\* allocations of edma3_allocate_channel_linked, edma3_start_xfer_multiple).
TypeOK ==
    /\ sets \in [Handle -> Seq(Phys \cup Logic)]
    /\ kind \in [Handle -> Kinds] /\ phase \in [Handle -> Phases]
    /\ preset \in [Handle -> Nat] /\ kicks \in [Handle -> Nat]
    /\ trig \subseteq Phys /\ ipr \subseteq Phys /\ aborted \in BOOLEAN
    /\ \A s \in Phys \cup Logic :
        /\ param[s].link \in Logic \cup {Null}
        /\ param[s].a \in Nat /\ param[s].b \in Nat
    /\ \A h \in Handle : kind[h] = "none" <=> sets[h] = <<>>
    /\ \A h, k \in Handle : h # k => Elems(sets[h]) \cap Elems(sets[k]) = {}

\* While a call is under way the engine has done the first of the transfers it
\* was asked for, in order, with the right bytes; when it reports the end it has
\* done them all (the sets written by the edma3_start functions).
CopiedAsAsked ==
    \A h \in Handle : phase[h] # "ready" =>
        LET p == Channel(h)
            left == IF kind[h] = "multiple" THEN kicks[h] ELSE 0
        IN  /\ Len(log[p]) <= Len(asked[p])
            /\ log[p] = SubSeq(asked[p], 1, Len(log[p]))
            /\ p \in ipr => Len(log[p]) = Len(asked[p]) - left

\* A preloaded channel that is idle has all its sets as preload_psets left them,
\* but for the buffers (the restoring in edma3_wait_gather_preloaded).
PreloadIntact ==
    \A h \in Handle : preset[h] # 0 /\ phase[h] = "ready" =>
        \A i \in DOMAIN sets[h] :
            [param[sets[h][i]] EXCEPT !.src = 0, !.dst = 0] = Preloaded(h, i)

\* The sets that channel p will carry out: its own when it will be triggered
\* again, the one that is linked to it then, and so on, up to the end of the call.
GoesOn(h, x) == x.chain \/ kind[h] = "multiple"
WillRun(h) ==
    LET p == Channel(h)
        sure == p \in trig \/ inflight[p].chain \/ (kind[h] = "multiple" /\ kicks[h] > 0)
        run[n \in 0 .. MaxCnt[h]] ==
            IF n = 0 THEN IF sure THEN {p} ELSE {}
            ELSE {param[s].link : s \in {t \in run[n - 1] : GoesOn(h, param[t])}} \ {Null}
    IN  UNION {run[n] : n \in DOMAIN run}

\* What a channel under way will carry out belongs to its handle: no link leads
\* into sets that have been given back, or to another channel's.
LinksAreOwn ==
    \A h \in Handle : phase[h] # "ready" => WillRun(h) \subseteq Elems(sets[h])

\* A channel that no call uses is not triggered, is not working and has no
\* completion pending: the next call, or owner, would take it for its own.
QuietWhenIdle ==
    \A p \in Phys :
        p \in trig \/ p \in ipr \/ inflight[p] # NullSet =>
            \E h \in Handle : phase[h] # "ready" /\ p = Channel(h)

\* A call that nothing reports the end of: a transfer that chains itself and has one set,
\* or one of whose sets is programmed as a transfer of no arrays.
Hung(h) ==
    \/ kind[h] = "selfchain" /\ Len(sets[h]) = 1
    \/ /\ phase[h] # "ready"
       /\ \E x \in Elems(asked[Channel(h)]) : Acnt(x.n) * Bcnt(x.n) = 0

\* A call that has been started comes to an end: the waits return, unless the program has
\* ended, or waits for a call that hangs.
WaitReturns ==
    \A h \in Handle :
        phase[h] # "ready" ~> phase[h] = "ready" \/ aborted \/ \E k \in Handle : Hung(k)
=============================================================================
