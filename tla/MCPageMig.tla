----------------------------- MODULE MCPageMig -----------------------------
(***************************************************************************)
(* Instances of PageMig for TLC.                                           *)
(***************************************************************************)
EXTENDS PageMig, TLC

CONSTANTS p1, p2, f1, f2, f3, f4, d1, d2

\* A page, and the same page with another one.
Overlapping == {<<p1>>, <<p1, p2>>}
OnlyFirst == {<<p1>>}

Interchangeable == Permutations(Frame) \cup Permutations(Device)
=============================================================================
