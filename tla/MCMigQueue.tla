----------------------------- MODULE MCMigQueue -----------------------------
(***************************************************************************)
(* The threads, queues and calls of the runs of MigQueue.  Threads: u, v   *)
(* for callers in user space, k for one in the driver.  The queues are     *)
(* numbered in the order init_migregion creates them: 1 is qreq.           *)
(***************************************************************************)
EXTENDS MigQueue, TLC

CONSTANTS u, v, k

\* The colours a queue is created with: 0 none, 1 the user's, 2 the kernel's.
OneUserQueue == <<1>>
TwoQueues == <<1, 0>>
FewColors == {0, 1, 2}
NoStackGarbage == {0}

\* u appends requests to queue 1, and frees what it takes from queue 2; k moves
\* requests from queue 1 to queue 2, and recolours queue 1.
ForwardThreads == {u, k}
ForwardEnqueue == {<<u, 1>>, <<k, 2>>}
ForwardDequeue == {<<k, 1>>, <<u, 2>>}
ForwardPaint == {<<k, 1, 2>>}
ForwardCalls == (u :> 6) @@ (k :> 4)

\* Producers and consumers race on one queue.
RaceThreads == {u, v, k}
RaceEnqueue == {<<u, 1>>, <<v, 1>>}
RaceDequeue == {<<v, 1>>, <<k, 1>>}
RacePaint == {<<k, 1, 2>>}
RaceCalls == (u :> 2) @@ (v :> 2) @@ (k :> 2)

\* u sends one request, while k takes the last descriptor of the queue, which v
\* frees, and sends it again.
OnePlainQueue == <<0>>
OneColor == {0}
RecycleEnqueue == {<<u, 1>>, <<k, 1>>}
RecycleDequeue == {<<k, 1>>}
RecyclePaint == {}
RecycleCalls == (u :> 2) @@ (v :> 2) @@ (k :> 5)
=============================================================================
