---------------------------- MODULE MemifService ----------------------------
(***************************************************************************)
(* What memif does for the program that uses a device: each request that   *)
(* is submitted is reported once, in the order of submission.  That the    *)
(* data has been moved by then is not part of it: see Memif!WorkWait.      *)
(***************************************************************************)
EXTENDS Sequences

CONSTANT Req   \* the requests a program may have outstanding

VARIABLES pending,  \* submitted, and not reported yet
          done      \* reported, and not yet collected by the program

vars == <<pending, done>>

Outstanding == {pending[i] : i \in DOMAIN pending} \cup {done[i] : i \in DOMAIN done}

Init == pending = <<>> /\ done = <<>>

Submit(r) ==
    /\ r \notin Outstanding
    /\ pending' = Append(pending, r)
    /\ UNCHANGED done

Complete ==
    /\ pending # <<>>
    /\ done' = Append(done, Head(pending))
    /\ pending' = Tail(pending)

Collect ==
    /\ done # <<>>
    /\ done' = Tail(done)
    /\ UNCHANGED pending

Next == (\E r \in Req : Submit(r)) \/ Complete \/ Collect

Safety == Init /\ [][Next]_vars

\* Whatever is submitted is reported; collecting is up to the program.
Served == WF_vars(Complete)

Spec == Safety /\ Served
=============================================================================
