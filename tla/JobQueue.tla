------------------------------ MODULE JobQueue -------------------------------
(***************************************************************************)
(* internal/queue/postgres.go at the grain of its SQL statements.          *)
(*                                                                         *)
(* Dequeue, Ack and Nack are transactions of several statements at         *)
(* PostgreSQL's default isolation, READ COMMITTED: a statement sees what   *)
(* was committed when it runs, plus its own transaction's writes; rows it  *)
(* updates stay locked until the transaction ends.  tx[s] is the           *)
(* transaction open in session s: the statement it has reached and the     *)
(* writes it has pending, which commit all at once or, on an error, a      *)
(* cancelled context, a crash or a deadlock, not at all.  Enqueue,         *)
(* ExtendLease and Cancel are single autocommitted statements; RequeueDLQ  *)
(* touches rows no other transaction can hold and is one step.             *)
(*                                                                         *)
(* The callers are unconstrained: any session may call any operation at    *)
(* any time, for any worker and any job.                                   *)
(***************************************************************************)
EXTENDS JobRows, Sequences, FiniteSetsExt

CONSTANTS
    Sessions,  \* database sessions in which transactions run
    Polls,     \* the queues each worker asks Dequeue for
    Limit,     \* the limit each worker passes to Dequeue
    MaxNow,    \* bound: the clock stops here
    MaxRuns,   \* bound: job_runs rows per job
    TxBound    \* assumption: no statement or transaction lasts longer, in ticks

ASSUME SessionsAssumption == NULL \notin Sessions
ASSUME PollsAssumption == Polls \in [Workers -> SUBSET STRING]
ASSUME LimitAssumption == Limit \in Int
ASSUME BoundsAssumption == MaxNow \in Nat /\ MaxRuns \in Nat /\ TxBound \in Nat

VARIABLES
    now,         \* the database clock
    tenants,     \* the ids of the tenants table
    job,         \* the jobs table
    runs,        \* the job_runs table: per job, its rows in order of insertion
    deadLetter,  \* the job_ids of the dead_letter table
    tx           \* the open transaction of each session

vars == <<now, tenants, job, runs, deadLetter, tx>>
tables == <<tenants, job, runs, deadLetter>>

Run == [attempt: Nat, startedAt: Nat, status: {"running", "failed", "succeeded", "dead"}]

(* The last statement a transaction has executed. *)
Stmt == {"idle",
         "begun", "closed", "reclaimed", "picked",   \* Dequeue
         "settling", "waiting"}                      \* Ack and Nack

Tx == [stmt: Stmt,
       at: Nat,                         \* now() of the transaction
       by: Workers \cup {NULL},         \* the workerID argument
       closing: [Jobs -> SUBSET Nat],   \* runs set to failed, rows locked
       reclaiming: SUBSET Jobs,         \* jobs set to ready, rows locked
       picked: SUBSET Jobs,             \* jobs set to running, rows locked
       job: Jobs \cup {NULL},           \* the job Ack or Nack settles, row locked
       outcome: {"succeeded", "failed", "dead"},
       target: Nat]                     \* the run that finishRunSQL waits for

NoTx == [stmt |-> "idle", at |-> 0, by |-> NULL, closing |-> [j \in Jobs |-> {}],
         reclaiming |-> {}, picked |-> {}, job |-> NULL, outcome |-> "failed",
         target |-> 0]

Init ==
    /\ now = 0
    /\ tenants = {}
    /\ job = [j \in Jobs |-> AbsentRow]
    /\ runs = [j \in Jobs |-> <<>>]
    /\ deadLetter = {}
    /\ tx = [s \in Sessions |-> NoTx]

-----------------------------------------------------------------------------
(* Row locks. *)

RowsLocked(s) ==
    tx[s].reclaiming \cup tx[s].picked \cup {j \in Jobs : tx[s].job = j}

(* A slip of JobFree: no FOR UPDATE, no lock. *)
JobFreeIgnoringLocks(s, j) == TRUE

JobFree(s, j) == \A o \in Sessions \ {s} : j \notin RowsLocked(o)

RunFree(s, j, i) == \A o \in Sessions \ {s} : i \notin tx[o].closing[j]

JobUnlocked(j) == \A o \in Sessions : j \notin RowsLocked(o)

(* SQL now() is the time at which the transaction, or the autocommitted    *)
(* statement, started; its first write may come up to TxBound ticks later. *)
StartTimes == {t \in 0 .. now : now - t <= TxBound}

-----------------------------------------------------------------------------
(* Enqueue: ensureTenant, then INSERT ... ON CONFLICT.  A conflicting      *)
(* insert returns the row that is there and changes nothing.               *)

ensureTenant(j) ==
    /\ Normal(j).tenant \notin tenants
    /\ tenants' = tenants \cup {Normal(j).tenant}
    /\ UNCHANGED <<now, job, runs, deadLetter, tx>>

Enqueue(j) ==
    /\ Normal(j).tenant \in tenants
    /\ job[j].status = "absent"
    /\ \A k \in Jobs : SameKey(j, k) => job[k].status = "absent"
    /\ \E t \in StartTimes : job' = [job EXCEPT ![j] = InsertedRow(j, t)]
    /\ UNCHANGED <<now, tenants, runs, deadLetter, tx>>

-----------------------------------------------------------------------------
(* Dequeue. *)

OpenRuns(j) == {i \in DOMAIN runs[j] : runs[j][i].status = "running"}

BeginDequeue(s, w) ==
    /\ tx[s].stmt = "idle"
    /\ tx' = [tx EXCEPT ![s] = [NoTx EXCEPT !.stmt = "begun", !.at = now, !.by = w]]
    /\ UNCHANGED <<now, tables>>

(* A slip of AbandonedRuns: closed after the reclaim, when the subquery     *)
(* finds no expired job any more.                                          *)
AbandonedRunsAfterReclaim(s, j) == {}

(* A slip of AbandonedRuns: every run of an expired job, not only those     *)
(* that are running.                                                       *)
AbandonedRunsEnded(s, j) == IF Expired(job[j], tx[s].at) THEN DOMAIN runs[j] ELSE {}

AbandonedRuns(s, j) == IF Expired(job[j], tx[s].at) THEN OpenRuns(j) ELSE {}

(* UPDATE job_runs: the open runs of the jobs whose lease has expired. *)
CloseExpiredRuns(s) ==
    /\ tx[s].stmt = "begun"
    /\ \A j \in Jobs : \A i \in AbandonedRuns(s, j) : RunFree(s, j, i)
    /\ tx' = [tx EXCEPT ![s].stmt = "closed",
                        ![s].closing = [j \in Jobs |-> AbandonedRuns(s, j)]]
    /\ UNCHANGED <<now, tables>>

(* A slip of ReclaimExpiredJobs: only while retry budget remains, so that  *)
(* nothing ever reclaims the last attempt.                                 *)
ReclaimWithinBudget(s) ==
    /\ tx[s].stmt = "closed"
    /\ LET expired == {j \in Jobs : Expired(job[j], tx[s].at) /\ ~Exhausted(j, job[j])}
       IN /\ \A j \in expired : JobFree(s, j)
          /\ tx' = [tx EXCEPT ![s].stmt = "reclaimed", ![s].reclaiming = expired]
    /\ UNCHANGED <<now, tables>>

(* UPDATE jobs: those jobs go back to ready.  A second statement, so it    *)
(* may see other leases than the first one did.                            *)
ReclaimExpiredJobs(s) ==
    /\ tx[s].stmt = "closed"
    /\ LET expired == {j \in Jobs : Expired(job[j], tx[s].at)}
       IN /\ \A j \in expired : JobFree(s, j)
          /\ tx' = [tx EXCEPT ![s].stmt = "reclaimed", ![s].reclaiming = expired]
    /\ UNCHANGED <<now, tables>>

queues(w) == IF Polls[w] = {} THEN {"default"} ELSE Polls[w]

(* SELECT ... FOR UPDATE SKIP LOCKED: ready jobs, the transaction's own    *)
(* reclaimed ones included, that are due and not locked by others.         *)
Eligible(s) ==
    {j \in Jobs : /\ job[j].status = "ready" \/ j \in tx[s].reclaiming
                  /\ Due(job[j], tx[s].at)
                  /\ Normal(j).queue \in queues(tx[s].by)
                  /\ JobFree(s, j)
                  /\ Len(runs[j]) < MaxRuns}

limit == IF Limit <= 0 THEN 1 ELSE Limit

Picks(s) ==
    {P \in SUBSET Eligible(s) :
        /\ Cardinality(P) = Min({limit, Cardinality(Eligible(s))})
        /\ \A j \in P, k \in Eligible(s) \ P : ~Before(k, job[k], j, job[j])}

PickJobs(s) ==
    /\ tx[s].stmt = "reclaimed"
    /\ \E P \in Picks(s) :
          tx' = [tx EXCEPT ![s].stmt = "picked", ![s].picked = P]
    /\ UNCHANGED <<now, tables>>

(* INSERT INTO job_runs for every picked job, and COMMIT. *)
ClosedRuns(s, j) ==
    [i \in DOMAIN runs[j] |-> IF i \in tx[s].closing[j]
                              THEN [runs[j][i] EXCEPT !.status = "failed"]
                              ELSE runs[j][i]]

(* A slip of NewRun: the attempt number from before the increment. *)
NewRunStale(s, j) ==
    [attempt |-> job[j].attempts, startedAt |-> tx[s].at, status |-> "running"]

NewRun(s, j) ==
    [attempt |-> job[j].attempts + 1, startedAt |-> tx[s].at, status |-> "running"]

CommitDequeue(s) ==
    /\ tx[s].stmt = "picked"
    /\ job' = [j \in Jobs |->
                 IF j \in tx[s].picked THEN ClaimedRow(job[j], tx[s].by, tx[s].at)
                 ELSE IF j \in tx[s].reclaiming THEN ReclaimedRow(job[j])
                 ELSE job[j]]
    /\ runs' = [j \in Jobs |->
                 IF j \in tx[s].picked THEN Append(ClosedRuns(s, j), NewRun(s, j))
                 ELSE ClosedRuns(s, j)]
    /\ tx' = [tx EXCEPT ![s] = NoTx]
    /\ UNCHANGED <<now, tenants, deadLetter>>

-----------------------------------------------------------------------------
(* Ack and Nack. *)

(* The first statement locks the row it finds: Ack's UPDATE, Nack's        *)
(* SELECT ... FOR UPDATE.  Finding none is ErrInvalidTransition, and       *)
(* nothing changes.                                                        *)
BeginSettling(s, w, j, outcome) ==
    /\ tx[s].stmt = "idle"
    /\ HeldBy(job[j], w)
    /\ JobFree(s, j)
    /\ \E t \in StartTimes :
          tx' = [tx EXCEPT ![s] = [NoTx EXCEPT !.stmt = "settling", !.at = t, !.by = w,
                                               !.job = j, !.outcome = outcome]]
    /\ UNCHANGED <<now, tables>>

BeginAck(s, w, j) == BeginSettling(s, w, j, "succeeded")

(* A slip of BeginNack: the retry budget is not checked. *)
BeginNackRetrying(s, w, j) == BeginSettling(s, w, j, "failed")

BeginNack(s, w, j) ==
    BeginSettling(s, w, j, IF Exhausted(j, job[j]) THEN "dead" ELSE "failed")

SettledRow(j, outcome, at) ==
    CASE outcome = "succeeded" -> SucceededRow(job[j])
      [] outcome = "dead"      -> DeadRow(job[j])
      [] outcome = "failed"    -> RetriedRow(job[j], at)

(* finishRunSQL on run i of the job (i = 0: on none), and COMMIT. *)
CommitSettling(s, i) ==
    LET j == tx[s].job
        outcome == tx[s].outcome
    IN /\ \E d \in Delays(job[j].attempts) :
             job' = [job EXCEPT ![j] = SettledRow(j, outcome, tx[s].at + d)]
       /\ deadLetter' = IF outcome = "dead" THEN deadLetter \cup {j} ELSE deadLetter
       /\ runs' = IF i = 0 THEN runs ELSE [runs EXCEPT ![j][i].status = outcome]
       /\ tx' = [tx EXCEPT ![s] = NoTx]
       /\ UNCHANGED <<now, tenants>>

(* The subquery of finishRunSQL: the open run that started last. *)
NewestOpenRuns(j) ==
    {i \in OpenRuns(j) : \A k \in OpenRuns(j) : runs[j][k].startedAt <= runs[j][i].startedAt}

FinishRun(s) ==
    /\ tx[s].stmt = "settling"
    /\ LET j == tx[s].job
       IN \/ /\ OpenRuns(j) = {}
             /\ CommitSettling(s, 0)
          \/ \E i \in NewestOpenRuns(j) :
                /\ RunFree(s, j, i)
                /\ CommitSettling(s, i)

(* The row the subquery found is locked by a Dequeue: wait for it.  The    *)
(* UPDATE then applies to that row whatever its status has become.         *)
WaitForRun(s) ==
    /\ tx[s].stmt = "settling"
    /\ \E i \in NewestOpenRuns(tx[s].job) :
          /\ ~RunFree(s, tx[s].job, i)
          /\ tx' = [tx EXCEPT ![s].stmt = "waiting", ![s].target = i]
    /\ UNCHANGED <<now, tables>>

FinishAwaitedRun(s) ==
    /\ tx[s].stmt = "waiting"
    /\ RunFree(s, tx[s].job, tx[s].target)
    /\ CommitSettling(s, tx[s].target)

(* A slip of rollback: not called on every return, the transaction stays   *)
(* open.                                                                   *)
rollbackForgotten(s) ==
    /\ tx[s].stmt # "idle"
    /\ UNCHANGED vars

(* An error in any statement, a cancelled context, a lost connection, or   *)
(* being chosen as the victim of a deadlock.                               *)
rollback(s) ==
    /\ tx[s].stmt # "idle"
    /\ tx' = [tx EXCEPT ![s] = NoTx]
    /\ UNCHANGED <<now, tables>>

-----------------------------------------------------------------------------
(* Autocommitted statements. *)

ExtendLease(w, j) ==
    /\ job[j].status = "running"
    /\ job[j].lockedBy = w
    /\ JobUnlocked(j)
    /\ \E t \in StartTimes : job' = [job EXCEPT ![j] = ExtendedRow(@, t)]
    /\ UNCHANGED <<now, tenants, runs, deadLetter, tx>>

Cancel(j) ==
    /\ job[j].status = "ready"
    /\ JobUnlocked(j)
    /\ job' = [job EXCEPT ![j] = CancelledRow(@)]
    /\ UNCHANGED <<now, tenants, runs, deadLetter, tx>>

(* Slips of RequeueDLQ: the DELETE is missing; cancelled jobs as well. *)
RequeueKeepingLetter(j) ==
    /\ job[j].status = "dead"
    /\ \E t \in StartTimes : job' = [job EXCEPT ![j] = RequeuedRow(@, t)]
    /\ UNCHANGED <<now, tenants, runs, deadLetter, tx>>

RequeueAlsoCancelled(j) ==
    /\ job[j].status \in {"dead", "failed"}
    /\ \E t \in StartTimes : job' = [job EXCEPT ![j] = RequeuedRow(@, t)]
    /\ deadLetter' = deadLetter \ {j}
    /\ UNCHANGED <<now, tenants, runs, tx>>

RequeueDLQ(j) ==
    /\ job[j].status = "dead"
    /\ \E t \in StartTimes : job' = [job EXCEPT ![j] = RequeuedRow(@, t)]
    /\ deadLetter' = deadLetter \ {j}
    /\ UNCHANGED <<now, tenants, runs, tx>>

Tick ==
    /\ now < MaxNow
    /\ \A s \in Sessions : tx[s].stmt # "idle" => now - tx[s].at < TxBound
    /\ now' = now + 1
    /\ UNCHANGED <<tables, tx>>

-----------------------------------------------------------------------------
(* The next statement of the transaction open in session s. *)
NextStatement(s) ==
    \/ CloseExpiredRuns(s)
    \/ ReclaimExpiredJobs(s)
    \/ PickJobs(s)
    \/ CommitDequeue(s)
    \/ FinishRun(s)
    \/ WaitForRun(s)
    \/ FinishAwaitedRun(s)

BeginTx(s) ==
    \/ \E w \in Workers : BeginDequeue(s, w)
    \/ \E w \in Workers \cup {NULL}, j \in Jobs : BeginAck(s, w, j) \/ BeginNack(s, w, j)

Autocommit ==
    \/ \E j \in Jobs : ensureTenant(j) \/ Enqueue(j) \/ Cancel(j) \/ RequeueDLQ(j)
    \/ \E w \in Workers, j \in Jobs : ExtendLease(w, j)

Next ==
    \/ \E s \in Sessions : BeginTx(s) \/ NextStatement(s) \/ rollback(s)
    \/ Autocommit
    \/ Tick

Spec == Init /\ [][Next]_vars

-----------------------------------------------------------------------------
(* Properties. *)

(* The tables and the transactions are well-formed. *)
TypeOK ==
    /\ now \in Nat
    /\ tenants \subseteq {Normal(j).tenant : j \in Jobs}
    /\ job \in [Jobs -> Row]
    /\ runs \in [Jobs -> Seq(Run)]
    /\ deadLetter \subseteq Jobs
    /\ tx \in [Sessions -> Tx]

(* The rows that session s is about to write are as its statements read them. *)
AsRead(s) ==
    /\ \A j \in tx[s].reclaiming : Expired(job[j], tx[s].at)
    /\ \A j \in tx[s].picked : /\ job[j].status = "ready" \/ j \in tx[s].reclaiming
                               /\ Due(job[j], tx[s].at)
    /\ \A j \in Jobs : tx[s].closing[j] \subseteq OpenRuns(j)
    /\ \A j \in Jobs : tx[s].job = j =>
          /\ HeldBy(job[j], tx[s].by)
          /\ tx[s].outcome = "dead" => Exhausted(j, job[j])
          /\ tx[s].outcome = "failed" => ~Exhausted(j, job[j])

(* Sessions s and o are about to write different rows. *)
Apart(s, o) ==
    /\ RowsLocked(s) \cap RowsLocked(o) = {}
    /\ \A j \in Jobs : tx[s].closing[j] \cap tx[o].closing[j] = {}

(* No lost update: until a transaction of Dequeue, Ack or Nack ends, the   *)
(* rows it is about to write are still as its statements read them, and no *)
(* other transaction is about to write them.  In particular two Dequeues   *)
(* never claim the same job.                                               *)
NoLostUpdate ==
    \A s \in Sessions : AsRead(s) /\ \A o \in Sessions \ {s} : Apart(s, o)

(* What the transaction of session s holds, by the statement it has reached. *)
LocksMatch(s) ==
    /\ tx[s].at <= now
    /\ tx[s].stmt \in {"idle", "begun", "settling", "waiting"}
          => tx[s].closing = [j \in Jobs |-> {}]
    /\ tx[s].stmt \notin {"reclaimed", "picked"} => tx[s].reclaiming = {}
    /\ tx[s].stmt # "picked" => tx[s].picked = {}
    /\ tx[s].stmt \in {"settling", "waiting"} <=> tx[s].job # NULL
    /\ tx[s].stmt \in {"begun", "closed", "reclaimed", "picked"} => tx[s].by # NULL
    /\ tx[s].stmt = "waiting" => tx[s].target \in DOMAIN runs[tx[s].job]

(* A transaction holds the locks of the statements it has executed, and    *)
(* no others; it has not started in the future.  With TypeOK this is what  *)
(* makes NoLostUpdate inductive.                                           *)
LocksMatchStatement == \A s \in Sessions : LocksMatch(s)

(* The columns and tables that the transactions write together agree: a    *)
(* lease is recorded exactly for the running jobs, dead_letter lists       *)
(* exactly the dead jobs, and those have spent their retry budget.         *)
TablesAgree ==
    /\ \A j \in Jobs : job[j].status = "running" <=> job[j].lockedUntil # NULL
    /\ \A j \in Jobs : job[j].status = "running" <=> job[j].lockedBy # NULL
    /\ deadLetter = {j \in Jobs : job[j].status = "dead"}
    /\ \A j \in deadLetter : Exhausted(j, job[j])

(* job_runs is a history: runs are added and never removed or renumbered,  *)
(* a run that has ended is not open again, and one that was recorded as    *)
(* succeeded or dead keeps that outcome.  (A failed one may not: an Ack    *)
(* that waited for a Dequeue overwrites what the Dequeue recorded.)        *)
HistoryKept ==
    [][\A j \in Jobs : \A i \in DOMAIN runs[j] :
          LET was == runs[j][i]
              is == runs'[j][i]
          IN /\ i \in DOMAIN runs'[j]
             /\ is.attempt = was.attempt /\ is.startedAt = was.startedAt
             /\ was.status # "running" => is.status # "running"
             /\ was.status \in {"succeeded", "dead"} => is = was]_vars

(* job_runs is the history of the claims: the job has made at least        *)
(* `attempts` runs, and the last of them are numbered 1 to `attempts`      *)
(* (RequeueDLQ starts the numbering again).                                *)
AttemptsNumbered ==
    \A j \in Jobs :
        LET n == job[j].attempts
            len == Len(runs[j])
        IN /\ n <= len
           /\ \A k \in 1 .. n : runs[j][len - n + k].attempt = k

(* A job that is not running has no open run, and a running one has at     *)
(* most one: lease expiry closes the abandoned run before the job is       *)
(* claimed again.  Needs transactions shorter than the lease.              *)
NoRunLeftOpen ==
    \A j \in Jobs :
        /\ job[j].status # "running" => OpenRuns(j) = {}
        /\ \A i, k \in OpenRuns(j) : i = k

(* A Dequeue that has closed the runs of the expired jobs knows all their  *)
(* open runs until it commits, and an Ack or Nack that waits for a run     *)
(* waits for the only open one.  With transactions no longer than the      *)
(* lease, this is what makes NoRunLeftOpen inductive.                      *)
RunsTracked ==
    \A s \in Sessions :
        /\ tx[s].stmt # "idle" => now - tx[s].at <= TxBound
        /\ tx[s].stmt = "closed" =>
              \A j \in Jobs : Expired(job[j], tx[s].at) => OpenRuns(j) \subseteq tx[s].closing[j]
        /\ \A j \in tx[s].reclaiming : OpenRuns(j) \subseteq tx[s].closing[j]
        /\ tx[s].stmt = "waiting" => OpenRuns(tx[s].job) \subseteq {tx[s].target}

(* Succeeded and cancelled ("failed") jobs never change again. *)
TerminalIsFinal ==
    [][\A j \in Jobs : job[j].status \in {"succeeded", "failed"} => job'[j] = job[j]]_vars

(* A job under a lease is handed to a worker again only after the lease    *)
(* has run out, whatever heartbeats, acknowledgements and claims           *)
(* interleave.                                                             *)
ChangesHandsOnlyAfterExpiry ==
    [][\A j \in Jobs :
          /\ job[j].status = "running"
          /\ job'[j].status = "running"
          /\ job'[j].attempts # job[j].attempts
          => job[j].lockedUntil < now]_vars

(* The abstract specification, over the same clock and rows. *)
Leases == INSTANCE JobLeases

(* The interleaved transactions implement the atomic operations: leaving   *)
(* out job_runs, tenants and the open transactions, every step of the SQL  *)
(* is one operation of JobLeases or changes nothing.                       *)
ImplementsLeases == Leases!Spec

-----------------------------------------------------------------------------
(* What the documentation says and the code does not do. *)

(* docs/ARCHITECTURE.md: after an expired lease a job is run again only    *)
(* while retry budget remains.                                             *)
RetryBudgetKept ==
    \A j \in Jobs : job[j].attempts <= Normal(j).maxAttempts

(* docs/ARCHITECTURE.md: a dequeue closes a run because it is abandoned,   *)
(* so the job of a worker that still holds its lease has its run open.     *)
LeasedRunIsOpen ==
    \A j \in Jobs : job[j].status = "running" => OpenRuns(j) # {}
=============================================================================
