SPECIFICATION Spec
CONSTANTS
    u = u
    t1 = t1
    t2 = t2
    p1 = p1
    p2 = p2
    p3 = p3
    r1 = r1
    r2 = r2
    r3 = r3
    NoOne = NoOne
    Usr = u
    Table <- TwoTables
    Page <- ThreePages
    Busy <- OnlyFirst
    Req <- ThreeReqs
    PagesOf <- ThereAndBack
    NodeOf <- Targets
    MaxSG = 3
    Passes = 4
    Patience = 2
    None = NoOne
INVARIANT MmStays
CHECK_DEADLOCK FALSE
