------------------------------ MODULE JobParams ------------------------------
(* What Enqueue is given, by the API, the scheduler and the tests alike. *)
EXTENDS Integers

CONSTANT NULL  \* uuid.Nil, the empty string, SQL NULL

DefaultTenant == "tenant-1"

(* EnqueueParams, before normalisation.  runAt = 0 is Go's zero time. *)
EnqueueParams ==
    [tenant: STRING \cup {NULL}, queue: STRING \cup {NULL}, key: STRING \cup {NULL},
     priority: Int, maxAttempts: Int, runAt: Nat]

normalizeEnqueueParams(p) ==
    [p EXCEPT !.tenant = IF @ = NULL THEN DefaultTenant ELSE @,
              !.queue = IF @ = NULL THEN "default" ELSE @,
              !.priority = IF @ = 0 THEN 5 ELSE @,
              !.maxAttempts = IF @ <= 0 THEN 5 ELSE @]
=============================================================================
