----------------------------- MODULE MCScheduler -----------------------------
(* Scheduler on small instances. *)
EXTENDS Scheduler, TLC

CONSTANTS r1, r2, a, b

(* A schedule inserted by SQL without next_run_at. *)
MCLoadedNull == a :> NULL

(* A schedule inserted by SQL with one. *)
MCLoadedDue == a :> 1

(* Every tick, every other tick, never; and one that does not parse.  The  *)
(* occurrences go on beyond the end of the clock.                          *)
MCPeriods == {1 .. MaxNow + 1, {t \in 1 .. MaxNow + 2 : t % 2 = 0}}
MCCrons == MCPeriods \cup {{}, NULL}

Symmetry == Permutations(Replicas)
=============================================================================
