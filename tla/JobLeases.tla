------------------------------ MODULE JobLeases ------------------------------
(***************************************************************************)
(* What internal/queue promises about each row of `jobs`: every operation  *)
(* takes effect on the rows in one step.  A running job is moved only by   *)
(* the worker named in locked_by or, once locked_until has passed, by a    *)
(* Dequeue that reclaims it.  JobQueue, in which the statements of the     *)
(* transactions interleave, is shown to implement this specification.      *)
(***************************************************************************)
EXTENDS JobRows

VARIABLES
    now,        \* the database clock
    job,        \* the jobs table
    deadLetter  \* the job_ids of the dead_letter table

vars == <<now, job, deadLetter>>

Init ==
    /\ now = 0
    /\ job = [j \in Jobs |-> AbsentRow]
    /\ deadLetter = {}

(* SQL now() is the time at which the transaction started. *)
TxTime == 0 .. now

Tick ==
    /\ now' = now + 1
    /\ UNCHANGED <<job, deadLetter>>

(* Enqueue: a new row, unless one with the same idempotency key exists. *)
Enqueue(j, t) ==
    /\ job[j].status = "absent"
    /\ \A k \in Jobs : SameKey(j, k) => job[k].status = "absent"
    /\ job' = [job EXCEPT ![j] = InsertedRow(j, t)]
    /\ UNCHANGED <<now, deadLetter>>

(* Dequeue, at transaction time t: the expired jobs R are reclaimed, and   *)
(* the jobs P are claimed out of those that are ready or just reclaimed.   *)
Dequeue(w, t, R, P) ==
    /\ \A j \in R : Expired(job[j], t)
    /\ \A j \in P : /\ job[j].status = "ready" \/ j \in R
                    /\ Due(job[j], t)
    /\ job' = [j \in Jobs |-> IF j \in P THEN ClaimedRow(job[j], w, t)
                              ELSE IF j \in R THEN ReclaimedRow(job[j])
                              ELSE job[j]]
    /\ UNCHANGED <<now, deadLetter>>

Ack(w, j) ==
    /\ HeldBy(job[j], w)
    /\ job' = [job EXCEPT ![j] = SucceededRow(@)]
    /\ UNCHANGED <<now, deadLetter>>

(* Nack: dead when the retry budget is spent, else ready after a delay. *)
Nack(w, j, t) ==
    /\ HeldBy(job[j], w)
    /\ \/ /\ Exhausted(j, job[j])
          /\ job' = [job EXCEPT ![j] = DeadRow(@)]
          /\ deadLetter' = deadLetter \cup {j}
       \/ /\ ~Exhausted(j, job[j])
          /\ \E d \in Delays(job[j].attempts) : job' = [job EXCEPT ![j] = RetriedRow(@, t + d)]
          /\ UNCHANGED deadLetter
    /\ UNCHANGED now

ExtendLease(w, j, t) ==
    /\ job[j].status = "running"
    /\ job[j].lockedBy = w
    /\ job' = [job EXCEPT ![j] = ExtendedRow(@, t)]
    /\ UNCHANGED <<now, deadLetter>>

Cancel(j) ==
    /\ job[j].status = "ready"
    /\ job' = [job EXCEPT ![j] = CancelledRow(@)]
    /\ UNCHANGED <<now, deadLetter>>

RequeueDLQ(j, t) ==
    /\ job[j].status = "dead"
    /\ job' = [job EXCEPT ![j] = RequeuedRow(@, t)]
    /\ deadLetter' = deadLetter \ {j}
    /\ UNCHANGED now

Next ==
    \/ Tick
    \/ \E j \in Jobs : Cancel(j)
    \/ \E j \in Jobs, t \in TxTime : Enqueue(j, t) \/ RequeueDLQ(j, t)
    \/ \E w \in Workers, t \in TxTime, R, P \in SUBSET Jobs : Dequeue(w, t, R, P)
    \/ \E w \in Workers \cup {NULL}, j \in Jobs : Ack(w, j)
    \/ \E w \in Workers \cup {NULL}, j \in Jobs, t \in TxTime : Nack(w, j, t)
    \/ \E w \in Workers, j \in Jobs, t \in TxTime : ExtendLease(w, j, t)

Spec == Init /\ [][Next]_vars
=============================================================================
