------------------------------ MODULE MCMemif ------------------------------
(* Instances of Memif for TLC. *)
EXTENDS Memif, TLC

CONSTANTS u1, u2, r1, r2, r3, t1, t2, NoReq

OneUser == {u1}
TwoUsers == {u1, u2}
TwoReqs == {r1, r2}
ThreeReqs == {r1, r2, r3}
OneTable == {t1}
TwoTables == {t1, t2}

\* The names of the requests, users and tables are not compared with anything.
Symmetry == Permutations(Req) \cup Permutations(User) \cup Permutations(Table)
=============================================================================
