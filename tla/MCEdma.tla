------------------------------- MODULE MCEdma -------------------------------
(* Instances of Edma for TLC: single arrays of less than 8 bytes, several of
   less than 4.  There may be eight arrays, which the field of three bits shows as none. *)
EXTENDS Edma, TLC

CONSTANTS h1, h2, p1, p2, l1, l2, NoSet

TwoHandles == {h1, h2}
TwoChannels == {p1, p2}
TwoLinks == {l1, l2}
Doublings == {2, 4, 8}
\* The first handle is used for up to three transfers, of one array of 5 bytes or
\* of four of 3; the second for up to two, for a size that cannot be split, and for one
\* that takes eight arrays.
UpToThree == [h \in Handle |-> IF h = h1 THEN 3 ELSE 2]
SmallAndLarge == [h \in Handle |-> IF h = h1 THEN {5, 12} ELSE {5, 13, 24}]
=============================================================================
