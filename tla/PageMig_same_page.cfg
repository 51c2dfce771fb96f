SPECIFICATION Spec
CONSTANTS
    p1 = p1
    p2 = p2
    f1 = f1
    f2 = f2
    f3 = f3
    f4 = f4
    d1 = d1
    d2 = d2
    Page = {p1}
    Huge = {}
    Frame = {f1, f2, f3, f4}
    Device = {d1, d2}
    Requests <- OnlyFirst
    MaxWrites = 2
    None = None
SYMMETRY Interchangeable
INVARIANTS FramesApart RefsBalance
CHECK_DEADLOCK FALSE
