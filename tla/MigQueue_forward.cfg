\* Requests move from the user to the kernel and back; the counters wrap.
SPECIFICATION Spec
CONSTANTS
    u = u
    v = v
    k = k
    NoResult = NoResult
    Thread <- ForwardThreads
    NDescs = 6
    QueueColor <- TwoQueues
    Color <- FewColors
    StackColor <- NoStackGarbage
    CountMod = 8
    CanAlloc = {u}
    CanFree = {u}
    CanEnqueue <- ForwardEnqueue
    CanDequeue <- ForwardDequeue
    CanPaint <- ForwardPaint
    Calls <- ForwardCalls
INVARIANTS TypeOK OnePlace ColorsAgree
\* The callers stop after their bounded number of calls.
CHECK_DEADLOCK FALSE
