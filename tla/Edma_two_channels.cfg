SPECIFICATION FairSpec
CONSTANTS
    h1 = h1
    h2 = h2
    p1 = p1
    p2 = p2
    l1 = l1
    l2 = l2
    NoSet = NoSet
    Null <- NoSet
    Handle <- TwoHandles
    Phys <- TwoChannels
    Second = p2
    Logic <- TwoLinks
    Single = 8
    Multi = 4
    ArrayCounts <- Doublings
    FieldSize = 8
    Size <- SmallAndLarge
    MaxCnt <- UpToThree
INVARIANTS
    TypeOK
    CopiedAsAsked
    PreloadIntact
    LinksAreOwn
    QuietWhenIdle
PROPERTIES
    WaitReturns
CHECK_DEADLOCK FALSE
