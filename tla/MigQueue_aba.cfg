\* A sender sleeps while the last descriptor of the queue is retired and used again.
SPECIFICATION Spec
CONSTANTS
    u = u
    v = v
    k = k
    NoResult = NoResult
    Thread <- RaceThreads
    NDescs = 4
    QueueColor <- OnePlainQueue
    Color <- OneColor
    StackColor <- OneColor
    CountMod = 65536
    CanAlloc = {u, v, k}
    CanFree = {v}
    CanEnqueue <- RecycleEnqueue
    CanDequeue <- RecycleDequeue
    CanPaint <- RecyclePaint
    Calls <- RecycleCalls
PROPERTY LinksAtTail
\* The callers stop after their bounded number of calls.
CHECK_DEADLOCK FALSE
