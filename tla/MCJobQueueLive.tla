--------------------------- MODULE MCJobQueueLive ----------------------------
(* JobQueueLive on a small instance: one job with a budget of two          *)
(* attempts, and a worker that names no queue.                             *)
EXTENDS JobQueueLive

CONSTANTS j1, w1, s1, s2

MCJobs == {j1}

MCParams ==
    [j \in MCJobs |-> [tenant |-> NULL, queue |-> NULL, key |-> NULL, priority |-> 0,
                       maxAttempts |-> 2, runAt |-> 0]]

MCPolls == [w \in Workers |-> {}]
=============================================================================
