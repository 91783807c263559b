------------------------------- MODULE JobRows -------------------------------
(***************************************************************************)
(* The rows of the `jobs` table (internal/store/migrations) and the row    *)
(* updates that the SQL of internal/queue/postgres.go makes.  A row update *)
(* is an operator from the old row to the new one; who may apply it, and   *)
(* when, is the business of JobLeases (one atomic step per operation) and  *)
(* of JobQueue (the SQL statements of the transactions, interleaved).      *)
(*                                                                         *)
(* Payloads, handlers, error texts and created_at/updated_at decide        *)
(* nothing in the queue and are left out.                                  *)
(***************************************************************************)
EXTENDS JobParams, FiniteSets

CONSTANTS
    Jobs,     \* the uuids that Enqueue may generate
    Workers,  \* worker identities, the values of locked_by
    Params,   \* what the caller of Enqueue passes with each uuid
    Lease,    \* the lease a worker asks for, in ticks of the clock
    Second,   \* a second, in ticks
    Base,     \* q.baseBackoff, in ticks
    CapDelay, \* the cap of BackoffDelay, ten minutes
    MaxDuration  \* the largest time.Duration

ASSUME ParamsAssumption == Params \in [Jobs -> EnqueueParams]
ASSUME NullAssumption == NULL \notin Workers \cup Jobs \cup Nat \cup STRING
ASSUME LeaseAssumption == Lease \in Nat \ {0}
ASSUME BackoffAssumption ==
    /\ Base \in Int /\ CapDelay \in Nat /\ MaxDuration \in Nat
    /\ Second \in 1 .. CapDelay

Normal(j) == normalizeEnqueueParams(Params[j])

-----------------------------------------------------------------------------
(* Rows. "absent" stands for an id with no row. *)

Status == {"absent", "ready", "running", "succeeded", "failed", "dead"}

Row == [status: Status, attempts: Nat, runAt: Nat,
        lockedBy: Workers \cup {NULL}, lockedUntil: Nat \cup {NULL}]

AbsentRow == [status |-> "absent", attempts |-> 0, runAt |-> 0,
              lockedBy |-> NULL, lockedUntil |-> NULL]

InsertedRow(j, t) ==
    [AbsentRow EXCEPT !.status = "ready",
                      !.runAt = IF Params[j].runAt = 0 THEN t ELSE Params[j].runAt]

(* Lease expiry: back to ready; attempts, run_at and the retry budget are  *)
(* not looked at.                                                          *)
ReclaimedRow(r) ==
    [r EXCEPT !.status = "ready", !.lockedBy = NULL, !.lockedUntil = NULL]

ClaimedRow(r, w, t) ==
    [r EXCEPT !.status = "running", !.lockedBy = w, !.lockedUntil = t + Lease,
              !.attempts = @ + 1]

ExtendedRow(r, t) == [r EXCEPT !.lockedUntil = t + Lease]

SucceededRow(r) ==
    [r EXCEPT !.status = "succeeded", !.lockedBy = NULL, !.lockedUntil = NULL]

RetriedRow(r, at) ==
    [r EXCEPT !.status = "ready", !.lockedBy = NULL, !.lockedUntil = NULL,
              !.runAt = at]

DeadRow(r) ==
    [r EXCEPT !.status = "dead", !.lockedBy = NULL, !.lockedUntil = NULL]

CancelledRow(r) == [r EXCEPT !.status = "failed"]

RequeuedRow(r, t) ==
    [r EXCEPT !.status = "ready", !.attempts = 0, !.lockedBy = NULL,
              !.lockedUntil = NULL, !.runAt = t]

-----------------------------------------------------------------------------
(* The delay of a retry. *)

base == IF Base <= 0 THEN Second ELSE Base

(* math.Pow(2, n) for every n up to k. *)
Pow(k) ==
    LET pow[n \in 0 .. k] == IF n = 0 THEN 1 ELSE 2 * pow[n - 1]
    IN pow

(* float64(base) * pow, which loses nothing. *)
Doubled(attempts) == base * Pow(attempts)[attempts]

(* The conversion of a float to a Duration.  If it does not fit, the       *)
(* result is up to the processor: the least on amd64, the largest on arm64.*)
Converted(x) == IF x <= MaxDuration THEN {x} ELSE {MaxDuration, 0 - MaxDuration - 1}

(* The sum of two Durations that are not both negative. *)
Wrapped(n) == IF n > MaxDuration THEN n - 2 * (MaxDuration + 1) ELSE n

(* BackoffDelay from its addition on. *)
Capped(delay, jitter) ==
    IF Wrapped(delay + jitter) > CapDelay THEN CapDelay ELSE Wrapped(delay + jitter)

intervalLiteral(duration) == IF duration <= 0 THEN Second ELSE duration

(* What run_at may be put off by after so many attempts. *)
Delays(attempts) ==
    {intervalLiteral(Capped(delay, jitter)) :
        delay \in Converted(Doubled(attempts)), jitter \in 0 .. base - 1}

-----------------------------------------------------------------------------
(* The WHERE clauses. *)

(* A slip of Expired: the lease ends one instant early. *)
ExpiredEarly(r, t) ==
    r.status = "running" /\ r.lockedUntil # NULL /\ r.lockedUntil <= t

Expired(r, t) ==
    r.status = "running" /\ r.lockedUntil # NULL /\ r.lockedUntil < t

(* A slip of HeldBy: any worker's lease will do. *)
HeldByAnyone(r, w) == r.status = "running"

(* Ack and Nack: an empty worker id matches every holder. *)
HeldBy(r, w) == r.status = "running" /\ (w = NULL \/ r.lockedBy = w)

(* A slip of Exhausted: one attempt more than max_attempts. *)
ExhaustedLate(j, r) == r.attempts > Normal(j).maxAttempts

Exhausted(j, r) == r.attempts >= Normal(j).maxAttempts

Due(r, t) == r.runAt <= t

(* ORDER BY priority DESC, run_at ASC. *)
Before(j, rj, k, rk) ==
    \/ Normal(j).priority > Normal(k).priority
    \/ Normal(j).priority = Normal(k).priority /\ rj.runAt < rk.runAt

(* The UNIQUE (tenant_id, idempotency_key) constraint: NULL keys never conflict. *)
SameKey(j, k) ==
    /\ Params[j].key # NULL
    /\ Params[j].key = Params[k].key
    /\ Normal(j).tenant = Normal(k).tenant
=============================================================================
