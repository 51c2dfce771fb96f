---------------------------- MODULE EdmaGeometry ----------------------------
(***************************************************************************)
(* How the EDMA3 library lays out a transfer: how many arrays, of how many *)
(* bytes, so that one trigger moves them all.                              *)
(***************************************************************************)
EXTENDS Integers

CONSTANTS
    Single,        \* MAX_ARRAY_SIZE_SINGLE: one array is shorter than this
    Multi,         \* MAX_ARRAY_SIZE_MULTI: each of several is, bidx being signed
    ArrayCounts,   \* the numbers of arrays tried: 2, 4, ... up to 2 * max_narrays
    FieldSize      \* ACNT and BCNT are taken modulo this

ASSUME GeometryAssumption ==
    /\ Single \in Nat \ {0} /\ Multi \in Nat \ {0} /\ FieldSize \in Nat \ {0}
    /\ ArrayCounts \subseteq Nat \ {0}

\* MUTANT: arrays that do not make up the size are not ruled out.
MutSplits(size) == {n \in ArrayCounts : size \div n < Multi}

\* The loop tries each number of arrays in turn; bidx is signed.
Splits(size) == {n \in ArrayCounts : size % n = 0 /\ size \div n < Multi}

\* A size no split fits is a failed assertion.
Movable(size) == size < Single \/ Splits(size) # {}

\* get_xfer_geometry: one array when it fits, else as few as possible.
Geometry(size) ==
    IF size < Single
    THEN [a |-> size, b |-> 1]
    ELSE LET n == CHOOSE n \in Splits(size) : \A m \in Splits(size) : n <= m
         IN  [a |-> size \div n, b |-> n]

\* ACNT and BCNT are fields of 16 bits.
Acnt(size) == Geometry(size).a % FieldSize
Bcnt(size) == Geometry(size).b % FieldSize
=============================================================================
