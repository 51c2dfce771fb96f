\* Two producers, two consumers and a painter on one queue, and the descriptors Reserve asks for.
SPECIFICATION Spec
CONSTANTS
    u = u
    v = v
    k = k
    NoResult = NoResult
    Thread <- RaceThreads
    NDescs = 5
    QueueColor <- OneUserQueue
    Color <- FewColors
    StackColor <- NoStackGarbage
    CountMod = 65536
    CanAlloc = {u, v}
    CanFree = {k, v}
    CanEnqueue <- RaceEnqueue
    CanDequeue <- RaceDequeue
    CanPaint <- RacePaint
    Calls <- RaceCalls
INVARIANTS NullIsHonest NoBug EachRequestOnce
PROPERTIES ImplementsColorQueue RequestsKept LockFree
\* The callers stop after their bounded number of calls.
CHECK_DEADLOCK FALSE
