---------------------------- MODULE MCRateLimiter ----------------------------
(* RateLimiter on small instances. *)
EXTENDS RateLimiter, TLC

CONSTANTS c1, c2

Symmetry == Permutations(Callers)
=============================================================================
