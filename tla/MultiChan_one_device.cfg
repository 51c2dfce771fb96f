SPECIFICATION FairSpec
CONSTANTS
    d1 = d1
    r1 = r1
    r2 = r2
    NoReq = NoReq
    None <- NoReq
    NR_DEVICES = 3
    Device <- OneDevice
    Req <- TwoReqs
    Ring = 2
    Count <- ThreePages
INVARIANTS
    CounterCounts
    FinishedIsCopied
    FlagInBounds
PROPERTIES
    ImplementsService
CHECK_DEADLOCK FALSE
