---------------------------- MODULE MCWorkerPool -----------------------------
(* WorkerPool on small instances. *)
EXTENDS WorkerPool, TLC

CONSTANTS j1, w1, w2, a, b, c

MCJobs == {j1}

MCParams ==
    [j \in MCJobs |-> [tenant |-> NULL, queue |-> NULL, key |-> NULL, priority |-> 0,
                       maxAttempts |-> 2, runAt |-> 0]]

MCHandlers == [j \in MCJobs |-> "chaos"]

(* One process with two slots; the same and another with one. *)
MCShared == a :> w1 @@ b :> w1
MCTwo == MCShared @@ c :> w2

Symmetry == Permutations({a, b})
=============================================================================
