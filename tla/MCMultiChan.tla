---------------------------- MODULE MCMultiChan ----------------------------
(* Instances of MultiChan for TLC. *)
EXTENDS MultiChan, TLC

CONSTANTS d1, r1, r2, NoReq

OneDevice == {d1}
TwoReqs == {r1, r2}
ThreePages == [r \in Req |-> 3]
=============================================================================
