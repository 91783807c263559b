------------------------------ MODULE Scheduler ------------------------------
(***************************************************************************)
(* internal/scheduler: replicas that turn due rows of `schedules` into     *)
(* jobs, and the Store operations that the API calls meanwhile.            *)
(*                                                                         *)
(* A replica's Tick holds a session-level advisory lock on one pinned      *)
(* connection, but all its reads and writes go through other connections   *)
(* of the pool and are autocommitted: each is a step of its own, and if    *)
(* the pinned connection is lost the lock goes and the Tick carries on.    *)
(* What protects the jobs then is the idempotency key.                     *)
(*                                                                         *)
(* A cron expression is the set of times at which it occurs, or NULL if it *)
(* does not parse.  An interval (@every d) occurs every d from the time it *)
(* was first counted from: for such a schedule the set is the one that     *)
(* follows from its first next_run_at, and each time after it is counted   *)
(* from the one before.  Names, payloads, queues and last_run_at, which    *)
(* nothing reads, are left out.                                            *)
(***************************************************************************)
EXTENDS Integers, FiniteSets, Bags

CONSTANTS
    Replicas,    \* scheduler processes
    Schedules,   \* the uuids of schedules
    Crons,       \* the expressions a schedule may be created with
    Loaded,      \* schedules inserted by SQL, with the next_run_at they have
    NULL,        \* SQL NULL; no parse; no holder
    Orphan,      \* the advisory lock is held by a session nobody uses any more
    LockCanBreak,\* may the pinned connection be lost during a Tick?
    MaxNow,      \* bound: the clock stops here
    MaxFaults    \* bound: crashes, lost connections and failed statements

ASSUME ReplicasAssumption == NULL \notin Replicas /\ Orphan \notin Replicas /\ Orphan # NULL
ASSUME CronsAssumption == Crons \subseteq {NULL} \cup SUBSET Nat
ASSUME NullAssumption == NULL \notin Nat
ASSUME LoadedAssumption ==
    \A i \in DOMAIN Loaded : i \in Schedules /\ Loaded[i] \in Nat \cup {NULL}
ASSUME SchedulerBounds ==
    MaxNow \in Nat /\ MaxFaults \in Nat /\ LockCanBreak \in BOOLEAN

VARIABLES
    now,       \* the clock
    schedule,  \* the schedules table
    jobs,      \* the jobs that schedules have enqueued: a bag, as INSERT adds a row each time
    lock,      \* the holder of the advisory lock
    replica,   \* the Tick each replica is in
    faults     \* failures so far

vars == <<now, schedule, jobs, lock, replica, faults>>

Row == [state: {"none", "present", "deleted"}, cron: {NULL} \cup SUBSET Nat,
        enabled: BOOLEAN, next: Nat \cup {NULL}]

NoRow == [state |-> "none", cron |-> NULL, enabled |-> FALSE, next |-> NULL]

(* A row of the result set of Tick's query. *)
Due == [id: Schedules, cron: {NULL} \cup SUBSET Nat, next: Nat]

Job == [schedule: Schedules, at: Nat, key: Schedules \X Nat]

Replica ==
    [pc: {"idle", "ticking", "locked", "initializing", "firing", "enqueued", "unlocking"},
     now: Nat,                    \* the argument of Tick
     missing: SUBSET Schedules,   \* rows of initializeNextRuns still to update
     due: SUBSET Due,             \* rows of Tick's query still to fire
     fired: Due \cup {NULL}]      \* the row whose job has been enqueued

IdleReplica == [pc |-> "idle", now |-> 0, missing |-> {}, due |-> {}, fired |-> NULL]

Init ==
    /\ now = 0
    /\ \E cron \in [DOMAIN Loaded -> Crons] :
          schedule = [i \in Schedules |->
                        IF i \in DOMAIN Loaded
                        THEN [state |-> "present", cron |-> cron[i], enabled |-> TRUE,
                              next |-> Loaded[i]]
                        ELSE NoRow]
    /\ jobs = EmptyBag
    /\ lock = NULL
    /\ replica = [r \in Replicas |-> IdleReplica]
    /\ faults = 0

-----------------------------------------------------------------------------
(* Next: the first occurrence after t; the zero time if there is none, as  *)
(* for a date that no calendar has.                                        *)
NextRun(c, t) ==
    LET first == {u \in c : u > t /\ \A v \in c : v > t => u <= v}
    IN IF first = {} THEN 0 ELSE CHOOSE u \in first : TRUE

(* Schedule id and run timestamp; cron times are whole seconds, which is   *)
(* what the RFC 3339 text keeps.                                           *)
IdempotencyKey(i, t) == <<i, t>>

Goto(r, pc) == replica' = [replica EXCEPT ![r].pc = pc]

-----------------------------------------------------------------------------
(* Tick. *)

BeginTick(r) ==
    /\ replica[r].pc = "idle"
    /\ replica' = [replica EXCEPT ![r] = [IdleReplica EXCEPT !.pc = "ticking", !.now = now]]
    /\ UNCHANGED <<now, schedule, jobs, lock, faults>>

(* A slip of tryLock: the result of pg_try_advisory_lock is not looked at. *)
tryLockIgnored(r) ==
    /\ replica[r].pc = "ticking"
    /\ lock' = IF lock = NULL THEN r ELSE lock
    /\ Goto(r, "locked")
    /\ UNCHANGED <<now, schedule, jobs, faults>>

tryLock(r) ==
    /\ replica[r].pc = "ticking"
    /\ \/ lock = NULL /\ lock' = r /\ Goto(r, "locked")
       \/ lock # NULL /\ lock' = lock /\ Goto(r, "idle")
    /\ UNCHANGED <<now, schedule, jobs, faults>>

(* initializeNextRuns: the query, then one UPDATE per row, in any order.   *)
SelectMissing(r) ==
    /\ replica[r].pc = "locked"
    /\ replica' = [replica EXCEPT
                     ![r].pc = "initializing",
                     ![r].missing = {i \in Schedules : /\ schedule[i].state = "present"
                                                       /\ schedule[i].enabled
                                                       /\ schedule[i].next = NULL}]
    /\ UNCHANGED <<now, schedule, jobs, lock, faults>>

SetNext(i, t) ==
    schedule' = IF schedule[i].state = "present"
                THEN [schedule EXCEPT ![i].next = t]
                ELSE schedule

InitializeNext(r, i) ==
    /\ replica[r].pc = "initializing"
    /\ i \in replica[r].missing
    /\ schedule[i].cron # NULL
    /\ SetNext(i, NextRun(schedule[i].cron, replica[r].now))
    /\ replica' = [replica EXCEPT ![r].missing = @ \ {i}]
    /\ UNCHANGED <<now, jobs, lock, faults>>

(* One expression that does not parse ends the Tick. *)
InitializeFails(r, i) ==
    /\ replica[r].pc = "initializing"
    /\ i \in replica[r].missing
    /\ schedule[i].cron = NULL
    /\ Goto(r, "unlocking")
    /\ UNCHANGED <<now, schedule, jobs, lock, faults>>

(* A slip of SelectDue: the schedules that have a next run, due or not. *)
SelectDueEarly(r) ==
    /\ replica[r].pc = "initializing"
    /\ replica[r].missing = {}
    /\ replica' = [replica EXCEPT
                     ![r].pc = "firing",
                     ![r].due = {[id |-> i, cron |-> schedule[i].cron, next |-> schedule[i].next] :
                                   i \in {k \in Schedules : /\ schedule[k].state = "present"
                                                            /\ schedule[k].enabled
                                                            /\ schedule[k].next # NULL}}]
    /\ UNCHANGED <<now, schedule, jobs, lock, faults>>

(* The due schedules, as they are at this moment. *)
SelectDue(r) ==
    /\ replica[r].pc = "initializing"
    /\ replica[r].missing = {}
    /\ replica' = [replica EXCEPT
                     ![r].pc = "firing",
                     ![r].due = {[id |-> i, cron |-> schedule[i].cron, next |-> schedule[i].next] :
                                   i \in {k \in Schedules : /\ schedule[k].state = "present"
                                                            /\ schedule[k].enabled
                                                            /\ schedule[k].next # NULL
                                                            /\ schedule[k].next <= replica[r].now}}]
    /\ UNCHANGED <<now, schedule, jobs, lock, faults>>

(* ORDER BY next_run_at. *)
Heads(r) == {d \in replica[r].due : \A e \in replica[r].due : d.next <= e.next}

Enqueued == BagToSet(jobs)

(* The job of a row of the query. *)
JobOf(d) == [schedule |-> d.id, at |-> d.next, key |-> IdempotencyKey(d.id, d.next)]

(* A slip of FireEnqueue: an INSERT with no ON CONFLICT clause. *)
FireEnqueueAgain(r) ==
    /\ replica[r].pc = "firing"
    /\ \E d \in Heads(r) :
          /\ d.cron # NULL
          /\ jobs' = jobs (+) SetToBag({JobOf(d)})
          /\ replica' = [replica EXCEPT ![r].pc = "enqueued", ![r].due = @ \ {d}, ![r].fired = d]
    /\ UNCHANGED <<now, schedule, lock, faults>>

(* fire, up to and including Enqueue, whose ON CONFLICT keeps the job that *)
(* has the key already.  The row may be out of date by now.                *)
FireEnqueue(r) ==
    /\ replica[r].pc = "firing"
    /\ \E d \in Heads(r) :
          /\ d.cron # NULL
          /\ jobs' = IF \E job \in Enqueued : job.key = JobOf(d).key THEN jobs
                     ELSE jobs (+) SetToBag({JobOf(d)})
          /\ replica' = [replica EXCEPT ![r].pc = "enqueued", ![r].due = @ \ {d}, ![r].fired = d]
    /\ UNCHANGED <<now, schedule, lock, faults>>

(* A slip of FireAdvance: the next run counted from the time of the Tick. *)
FireAdvanceFromTick(r) ==
    /\ replica[r].pc = "enqueued"
    /\ SetNext(replica[r].fired.id, NextRun(replica[r].fired.cron, replica[r].now))
    /\ replica' = [replica EXCEPT ![r].pc = "firing", ![r].fired = NULL]
    /\ UNCHANGED <<now, jobs, lock, faults>>

(* fire, the UPDATE: unconditional, from the row as it was read. *)
FireAdvance(r) ==
    /\ replica[r].pc = "enqueued"
    /\ SetNext(replica[r].fired.id, NextRun(replica[r].fired.cron, replica[r].fired.next))
    /\ replica' = [replica EXCEPT ![r].pc = "firing", ![r].fired = NULL]
    /\ UNCHANGED <<now, jobs, lock, faults>>

(* An expression that does not parse: the loop goes on with the next row. *)
FireUnparsable(r) ==
    /\ replica[r].pc = "firing"
    /\ \E d \in Heads(r) :
          /\ d.cron = NULL
          /\ replica' = [replica EXCEPT ![r].due = @ \ {d}]
    /\ UNCHANGED <<now, schedule, jobs, lock, faults>>

EndOfRows(r) ==
    /\ replica[r].pc = "firing"
    /\ replica[r].due = {}
    /\ Goto(r, "unlocking")
    /\ UNCHANGED <<now, schedule, jobs, lock, faults>>

unlock(r) ==
    /\ replica[r].pc = "unlocking"
    /\ lock' = IF lock = r THEN NULL ELSE lock
    /\ replica' = [replica EXCEPT ![r] = IdleReplica]
    /\ UNCHANGED <<now, schedule, jobs, faults>>

-----------------------------------------------------------------------------
(* Failures. *)

Fault ==
    /\ faults < MaxFaults
    /\ faults' = faults + 1

(* Enqueue or the UPDATE after it fails: the loop goes on. *)
FireError(r) ==
    /\ Fault
    /\ \/ /\ replica[r].pc = "firing"
          /\ \E d \in Heads(r) : replica' = [replica EXCEPT ![r].due = @ \ {d}]
       \/ /\ replica[r].pc = "enqueued"
          /\ replica' = [replica EXCEPT ![r].pc = "firing", ![r].fired = NULL]
    /\ UNCHANGED <<now, schedule, jobs, lock>>

(* A query or an UPDATE of initializeNextRuns fails, or the context ends. *)
TickError(r) ==
    /\ Fault
    /\ replica[r].pc \in {"locked", "initializing", "firing"}
    /\ Goto(r, "unlocking")
    /\ UNCHANGED <<now, schedule, jobs, lock>>

(* A slip of UnlockError: the connection goes back to the pool, locked. *)
UnlockErrorPooled(r) ==
    /\ Fault
    /\ replica[r].pc = "unlocking"
    /\ replica' = [replica EXCEPT ![r] = IdleReplica]
    /\ UNCHANGED <<now, schedule, jobs, lock>>

(* The unlock fails: the connection is closed, not returned to the pool.   *)
UnlockError(r) ==
    /\ Fault
    /\ replica[r].pc = "unlocking"
    /\ lock' = IF lock = r THEN Orphan ELSE lock
    /\ replica' = [replica EXCEPT ![r] = IdleReplica]
    /\ UNCHANGED <<now, schedule, jobs>>

(* The process dies, and is started again. *)
Crash(r) ==
    /\ Fault
    /\ replica[r].pc # "idle"
    /\ lock' = IF lock = r THEN Orphan ELSE lock
    /\ replica' = [replica EXCEPT ![r] = IdleReplica]
    /\ UNCHANGED <<now, schedule, jobs>>

(* The pinned connection is lost; the other connections still work. *)
BreakLock(r) ==
    /\ LockCanBreak
    /\ Fault
    /\ lock = r
    /\ lock' = NULL
    /\ UNCHANGED <<now, schedule, jobs, replica>>

(* PostgreSQL notices that the client is gone. *)
SessionEnds ==
    /\ lock = Orphan
    /\ lock' = NULL
    /\ UNCHANGED <<now, schedule, jobs, replica, faults>>

-----------------------------------------------------------------------------
(* Store. *)

Create(i) ==
    /\ schedule[i].state = "none"
    /\ \E c \in Crons \ {NULL} :
          schedule' = [schedule EXCEPT ![i] = [state |-> "present", cron |-> c, enabled |-> TRUE,
                                               next |-> NextRun(c, now)]]
    /\ UNCHANGED <<now, jobs, lock, replica, faults>>

SetEnabled(i, enabled) ==
    /\ schedule[i].state = "present"
    /\ schedule' = [schedule EXCEPT ![i].enabled = enabled]
    /\ UNCHANGED <<now, jobs, lock, replica, faults>>

Delete(i) ==
    /\ schedule[i].state = "present"
    /\ schedule' = [schedule EXCEPT ![i].state = "deleted"]
    /\ UNCHANGED <<now, jobs, lock, replica, faults>>

Clock ==
    /\ now < MaxNow
    /\ now' = now + 1
    /\ UNCHANGED <<schedule, jobs, lock, replica, faults>>

-----------------------------------------------------------------------------
(* The steps a Tick takes by itself. *)
TickStep(r) ==
    \/ tryLock(r)
    \/ SelectMissing(r)
    \/ \E i \in Schedules : InitializeNext(r, i) \/ InitializeFails(r, i)
    \/ SelectDue(r)
    \/ FireEnqueue(r)
    \/ FireAdvance(r)
    \/ FireUnparsable(r)
    \/ EndOfRows(r)
    \/ unlock(r)

Failure(r) == FireError(r) \/ TickError(r) \/ UnlockError(r) \/ Crash(r) \/ BreakLock(r)

Next ==
    \/ \E r \in Replicas : BeginTick(r) \/ TickStep(r) \/ Failure(r)
    \/ \E i \in Schedules : Create(i) \/ Delete(i) \/ \E b \in BOOLEAN : SetEnabled(i, b)
    \/ SessionEnds
    \/ Clock

(* Every replica's ticker fires every second and its statements return;    *)
(* PostgreSQL ends the sessions of clients that are gone.                  *)
Fairness ==
    /\ \A r \in Replicas : WF_vars(BeginTick(r)) /\ WF_vars(TickStep(r))
    /\ WF_vars(SessionEnds)

Spec == Init /\ [][Next]_vars

FairSpec == Spec /\ Fairness

-----------------------------------------------------------------------------
(* Properties. *)

(* The tables and the Ticks are well-formed. *)
TypeOK ==
    /\ now \in Nat
    /\ schedule \in [Schedules -> Row]
    /\ IsABag(jobs) /\ Enqueued \subseteq Job
    /\ lock \in Replicas \cup {NULL, Orphan}
    /\ replica \in [Replicas -> Replica]
    /\ faults \in Nat

(* While the advisory lock's connection is up, one replica at most is past *)
(* tryLock.                                                                *)
OneLeader ==
    \A r, q \in Replicas :
        /\ replica[r].pc \notin {"idle", "ticking"}
        /\ replica[q].pc \notin {"idle", "ticking"}
        => r = q

(* One row of jobs at most for each occurrence of a schedule, whatever     *)
(* replicas overlap, crash between Enqueue and the UPDATE, or lose the     *)
(* lock and fire the same row of the query twice.                          *)
AtMostOneJob ==
    \A job \in Enqueued :
        /\ jobs[job] = 1
        /\ \A other \in Enqueued :
              other.schedule = job.schedule /\ other.at = job.at => other = job

(* The times that next_run_at of schedule i may have: an occurrence, what  *)
(* it was loaded with, or the zero time once no occurrence is left.        *)
Proper(i, t) ==
    \/ t \in schedule[i].cron
    \/ i \in DOMAIN Loaded /\ t = Loaded[i]
    \/ t = 0 /\ \A u \in schedule[i].cron : u <= now

(* A job is enqueued for a proper time of its schedule and not before it,  *)
(* whatever stale rows Ticks fire and in which order they move             *)
(* next_run_at.                                                            *)
OnlyOccurrences ==
    \A job \in Enqueued : job.at <= now /\ Proper(job.schedule, job.at)

HasJob(i, t) == \E job \in Enqueued : job.schedule = i /\ job.at = t

(* next_run_at moves past an occurrence only when its job is there: no     *)
(* crash, error, stale Tick or pause makes the scheduler skip one.         *)
NoOccurrenceSkipped ==
    [][\A i \in Schedules :
          LET from == schedule[i].next
              to == schedule'[i].next
          IN from # NULL /\ to # NULL /\ schedule[i].cron # NULL =>
                \A t \in schedule[i].cron :
                    from <= t /\ t < to => HasJob(i, t)]_vars

(* The rows that a replica has read and not done with. *)
Held(r) ==
    replica[r].due \cup IF replica[r].pc = "enqueued" THEN {replica[r].fired} ELSE {}

Covered(i, x, y) ==
    schedule[i].cron # NULL => \A t \in schedule[i].cron : x <= t /\ t < y => HasJob(i, t)

(* The row d as it was read, and the row as it is. *)
InTouch(d) ==
    /\ schedule[d.id].state # "none"
    /\ schedule[d.id].cron = d.cron
    /\ schedule[d.id].next # NULL
    /\ Covered(d.id, d.next, schedule[d.id].next)
    /\ Covered(d.id, schedule[d.id].next, d.next)

(* However far next_run_at and the rows that replicas still hold are       *)
(* apart, there are jobs for all the occurrences between them: a stale     *)
(* Tick may set next_run_at back, but not lose an occurrence.  This is     *)
(* what makes NoOccurrenceSkipped provable.                                *)
NoGaps ==
    \A r \in Replicas : \A d \in Held(r) :
        /\ InTouch(d)
        /\ \A q \in Replicas : \A e \in Held(q) : e.id = d.id => Covered(d.id, d.next, e.next)

(* A due occurrence gets its job, unless the schedule is paused or deleted *)
(* first or its expression does not parse.                                 *)
DueIsEnqueued ==
    \A i \in Schedules, t \in 0 .. MaxNow :
        /\ schedule[i].state = "present" /\ schedule[i].enabled
        /\ schedule[i].cron # NULL /\ schedule[i].next = t /\ t <= now
        ~> \/ HasJob(i, t)
           \/ schedule[i].state # "present" \/ ~schedule[i].enabled
=============================================================================
