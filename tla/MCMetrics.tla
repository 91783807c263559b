------------------------------ MODULE MCMetrics ------------------------------
(* Metrics on a small instance. *)
EXTENDS Metrics

CONSTANTS c1, c2

MCSamples == UNION {[1 .. n -> 1 .. 3] : n \in 0 .. 4}
=============================================================================
