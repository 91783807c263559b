----------------------------- MODULE MCEventHub ------------------------------
(* EventHub on a small instance. *)
EXTENDS EventHub

CONSTANTS c1, c2
=============================================================================
