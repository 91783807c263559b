----------------------------- MODULE MCJobQueue ------------------------------
(* JobQueue on small instances. *)
EXTENDS JobQueue, TLC

CONSTANTS j1, w1, w2, s1, s2

MCOneJob == {j1}

Param(key, priority, maxAttempts, runAt) ==
    [tenant |-> NULL, queue |-> NULL, key |-> key, priority |-> priority,
     maxAttempts |-> maxAttempts, runAt |-> runAt]

(* One job with a budget of two attempts. *)
MCOneParams == [j \in MCOneJob |-> Param(NULL, 0, 2, 0)]

MCPolls == [w \in Workers |-> {"default"}]

Symmetry == Permutations(Sessions) \cup Permutations(Workers)
=============================================================================
