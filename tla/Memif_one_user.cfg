SPECIFICATION FairSpec
CONSTANTS
    u1 = u1
    u2 = u2
    r1 = r1
    r2 = r2
    r3 = r3
    t1 = t1
    t2 = t2
    NoReq = NoReq
    None <- NoReq
    Ring = 2
    User <- OneUser
    Req <- ThreeReqs
    Table <- TwoTables
INVARIANTS
    NoBug
    NeverConcurrentFlush
    ChainOwnsColor
    NoStranded
    OnePlace
    InterruptedIsDone
    NoLostWakeup
PROPERTIES
    ImplementsService
    SleeperWoken
\* A full channel ends in BUG(), and the program may have nothing left to do.
CHECK_DEADLOCK FALSE
