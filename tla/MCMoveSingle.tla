---------------------------- MODULE MCMoveSingle ----------------------------
(***************************************************************************)
(* Instances of MoveSingle for TLC.                                        *)
(***************************************************************************)
EXTENDS MoveSingle, TLC

CONSTANTS u, t1, t2, p1, p2, p3, r1, r2, r3, NoOne

TwoTables == {t1, t2}
ThreePages == {p1, p2, p3}
OnlyFirst == {p1}
ThreeReqs == {r1, r2, r3}
\* A page there and back, and two others there: with the first on its way back a table
\* has pages for both nodes.
ThereAndBack == r1 :> <<p1>> @@ r2 :> <<p1>> @@ r3 :> <<p2, p3>>
Targets == r1 :> 1 @@ r2 :> 0 @@ r3 :> 1
=============================================================================
