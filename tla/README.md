# Forge: models, checks and proofs

TLA+ specifications of the job queue, the worker pool, the cron scheduler, the
rate limiter, the event hub, the API processes and the metrics in this
repository, TLC configurations that check them on small instances, and TLAPS
proofs of their main properties for every value of the constants.

## The system

Forge is a set of Go processes around one PostgreSQL database and one Redis.

| Part | Source | State | Operations | Module |
| --- | --- | --- | --- | --- |
| Queue | `internal/queue/postgres.go`, `internal/store/migrations` | tables `tenants`, `jobs`, `job_runs`, `dead_letter` | `Enqueue`, `Dequeue`, `Ack`, `Nack`, `ExtendLease`, `Cancel`, `RequeueDLQ`, and reads | `JobParams`, `JobRows`, `JobLeases`, `JobQueue`, `JobQueueLive` |
| Worker pool | `internal/worker/pool.go` | slots, contexts and heartbeats of each process | `Run`, `loop`, `execute`, `heartbeat`, shutdown | `WorkerPool` |
| Handlers | `internal/worker/registry.go` | none (chaos writes a row) | `echo`, `sleep`, `fail`, `chaos` | `Results` of `WorkerPool` |
| Scheduler | `internal/scheduler` | table `schedules`, a session-level advisory lock | `Tick` (once a second per replica), `Create`, `SetEnabled`, `Delete` | `Scheduler` |
| Rate limiter | `internal/ratelimit` | two Redis keys per tenant | `Allow` | `TokenBucket`, `RateLimiter` |
| Live events | `internal/api/events.go` | subscribers and their channels; Redis pub/sub | `Subscribe`, `Publish`, `Run`, `ServeSSE` | `EventHub` |
| REST and gRPC API | `internal/api/server.go`, `internal/grpcsvc`, `cmd/forge-api` | requests under way, the stage of a shutdown | submit, cancel, requeue, start and stop; schedules; reads | `JobParams`, `Api` |
| Metrics | `internal/metrics`, `StartStatsTicks` in `internal/api` | counters in Redis | `RecordComplete`, `Snapshot` | `Metrics` |
| CLI, dashboard, tracing, configuration | `cmd`, `web`, `internal/tracing`, `internal/config` | none that decides anything | call the API, show what it answers | none |

How they interact: clients submit, cancel and requeue jobs through the API;
the scheduler enqueues jobs too, with an idempotency key per occurrence. The
slots of worker processes poll `Dequeue`, which leases a job until
`locked_until`; a heartbeat extends the lease while the handler runs; `Ack` or
`Nack` settles the job. A job whose lease has run out is made ready again by
the next `Dequeue` of any worker. Workers and API processes publish events to
Redis, from which every API process feeds its dashboards; workers count what
they have done in Redis, where API processes read it once a second.

`JobParams` (what `Enqueue` is given and how it is normalised) is shared by the
queue and the API. `JobLeases` links the queue and the pool: `JobQueue`
implements it, and `WorkerPool` is built on it.

What is hard here, and rarely met by a test: statements of several
transactions interleave at READ COMMITTED; workers, schedulers and connections
die between two statements; leases, timeouts, heartbeats and shutdowns race;
slots of a process share one identity; scripts reach Redis in another order
than clocks were read; dashboards come and go while events are published;
callers repeat requests whose answers were lost while a handler still serves
them; counters are written and read one by one.
`PROJECT.json` lists these hazards at the lines where they bite.

## The queue

**JobRows** has the rows of `jobs` and the row updates of the SQL, as operators
from the old row to the new one, the `WHERE` clauses as predicates, and
`BackoffDelay` with the conversion of its floating-point product to a
`time.Duration` (`Converted`: what does not fit is up to the processor), the
addition that may wrap around, and the jitter (`Delays`).

**JobLeases** is the abstract specification: each operation changes the rows
in one atomic step; a running job is moved only by the worker in `locked_by`
or by a `Dequeue` after `locked_until`.

**JobQueue** is `postgres.go` at the grain of its statements. `tx[s]` is the
transaction open in session `s`: which statement it has reached, the rows it
has locked, and the writes that become visible at its commit. A statement sees
what is committed when it runs. The transactions are

| Code | Actions |
| --- | --- |
| `Dequeue` | `BeginDequeue`, `CloseExpiredRuns`, `ReclaimExpiredJobs`, `PickJobs`, `CommitDequeue` |
| `Ack`, `Nack` | `BeginAck` or `BeginNack` (the first statement, which locks the job), then `FinishRun`, or `WaitForRun` and `FinishAwaitedRun` when another transaction has the run locked |
| any error, cancelled context or crash | `rollback` |
| `Enqueue` | `ensureTenant`, `Enqueue` (two autocommitted statements) |
| `ExtendLease`, `Cancel`, `RequeueDLQ` | one step each |

`RequeueDLQ` is a transaction of two statements, but on rows that no other
operation touches while the job is dead. The locks that autocommitted
statements hold for an instant are not modelled, and an `UPDATE` of several
rows takes its locks in one step: that two `Dequeue`s of several jobs block
each other half-way through such an `UPDATE` is outside the model. SQL `now()`
is the start of the transaction (`StartTimes`, at most `TxBound` ticks ago). A
worker that names no queue polls `default` (`queues`), as in `queue_live`.

**JobQueueLive** adds PostgreSQL's deadlock detector, as the only source of
errors, and fairness.

| Run | Shows |
| --- | --- |
| `queue` | Two sessions and two workers on a job with a budget of two attempts: no update is lost, `jobs`, `dead_letter` and `job_runs` agree, no run is left open or opened again, attempts number the runs, finished jobs stay finished, a job changes hands only after its lease; and the statements implement `JobLeases`. |
| `queue_live` | Every transaction ends, although `Dequeue` and `Ack` take their locks in opposite orders, and every expired lease is recovered. |
| `retry_budget`, `leased_run` | Disagreements with the documentation, see below. |

*Bounds.* One job, two sessions, a clock of two or three ticks, a lease of one
tick and two or three runs: enough for a lease to expire during each statement
of another transaction, for a heartbeat or an `Ack` to fall between any two of
them, and for a job to be claimed, lost, claimed again, dead-lettered and
requeued. More sessions or jobs add no new pair of conflicting statements, and
all safety properties of the run are theorems for any number of either. The
delays of a retry are a tick: it is the theorems about `Delays` that cover the
others.

*Fairness (`queue_live`).* An open transaction goes on (its caller is alive; a
dead one's connection is closed, which is `rollback`). A statement that waits
for a row gets it, since PostgreSQL queues waiters (strong fairness on the
three statements that can wait). The detector fails a member of a cycle. Idle
workers poll again. No fairness is assumed of clients, heartbeats or `Ack`.

## The worker pool

**WorkerPool** extends `JobLeases`, the queue as `JobQueue` implements it, with
the slots of several processes. `slot[s]` is a goroutine of `loop` with the
heartbeat of the job it executes: `Poll` is one call of `Dequeue` and the start
of `execute`; `heartbeat` and `HeartbeatEnds` are the rounds of the heartbeat
goroutine; `HandlerReturns` and `Settle` the rest of `execute`; `Shutdown`,
`GraceExceeded` and `Restart` are `Run` and `main`. Failures are `Crash`,
`ClaimLost` (the commit went through, the reply did not) and `SettleFails`.
`claims` numbers the claims of a job, so that a slot's own claim can be told
from a later one; the code has nothing that does this.

With `Punctual`, time passes only as long as heartbeats reach the database
within `Lag`, handlers return within `HandlerGrace` of the end of their context,
and `Ack` and `Nack` end by their timeout; and `ExtendLease` fails only when
the lease is lost.

| Run | Shows |
| --- | --- |
| `pool` | One process with two slots under one `WorkerID`, punctual: no job is executed twice at a time, `Ack` and `Nack` settle the slot's own claim; a leased job has a slot, and its lease does not run out, unless something has failed; and each failure costs a job at most one attempt beyond its budget, which is what bounds the first disagreement below. |
| `pool_late` | A process with two slots and one with a single slot, with no bound on delays: what a slot settles is never a claim that a slot of the other process still executes or settles, since `locked_by` tells them apart, and the single slot settles its own claim (`FencedByWorker`). Slots of one process cannot be told apart this way; that they do not settle each other's claims is what `pool` shows, for punctual ones. |

*Bounds.* In `pool` a lease of 5 ticks is a heartbeat interval of one, plus the
two lags, the grace and the timeout of `Ack` (one each): the least that the
theorem `Exclusion` allows. The clock goes on for nine ticks, beyond the job's
timeout of seven and a second claim; five claims are one more than
`AttemptsBounded` allows a job with a budget of two after both failures; the
shutdown grace of three covers a
handler's grace and an `Ack`, without which `LeaseHasSlot` would not hold. In
`pool_late` a lease of three ticks runs out within the five of the clock, while
the first slot still executes or settles; two claims are enough for a stale
`Ack`, of the same process or of the other one.

The deployment in `deploy/docker-compose.yml` sets a lease of five seconds,
which is the timeout of `Ack` alone: there the hypothesis of `Exclusion` does
not hold, and as eight slots share a `WorkerID`, an `Ack` that takes its full
timeout may meet a claim of another slot.

## The scheduler

**Scheduler** has one step per statement of `Tick`: `BeginTick`, `tryLock`,
`SelectMissing` and `InitializeNext`, `SelectDue`, then `FireEnqueue` and
`FireAdvance` per row, and `unlock`, on several replicas. The lock is held by
one pinned connection while everything else uses others, so `BreakLock` (only
if `LockCanBreak`) leaves a leader that goes on beside its successor. `Crash`,
`FireError`, `TickError` and `UnlockError` fail any statement; `UnlockError`
closes the session, as the code does. `Create`, `SetEnabled` and `Delete`
happen at any time. `jobs` is the bag of the rows that `fire` has inserted, so
that a second row for an occurrence would count: what keeps it out is the key of
`fire` with `ON CONFLICT` of `Enqueue`. A cron expression is the set of its
occurrences, or `NULL` if it does not parse. An `@every` descriptor has no such
set, as its next run counts from the moment it is computed; it is not modelled.
`Loaded` schedules were inserted by SQL.

| Run | Shows |
| --- | --- |
| `scheduler` | Two replicas and two schedules, one of them without a `next_run_at`, with a failure anywhere: one leader, and no occurrence skipped. |
| `scheduler_live` | Two leaders at once after the lock's connection is lost: still one row per occurrence, none for another time and none skipped, the zero time of an expression that never occurs included; and a due occurrence gets its job whatever fails, a failed `unlock` included. |

*Bounds.* Two replicas, a clock of two ticks and up to two failures: a stale
leader needs one failure, and a crash of its successor a second one; in two
ticks its successor fires two occurrences before it sets `next_run_at` back.
Expressions occur every tick, every other tick or never, and go on past the
end of the clock. *Fairness (`scheduler_live`):* each replica starts a `Tick`
every second and its statements return (weak fairness); PostgreSQL ends the
sessions of clients that are gone, and with them their locks. Failures are
finite.

## The rate limiter

**TokenBucket** is what a limiter promises. **RateLimiter** is the Lua script on
two keys: `Allow` reads the clock, `bucketScript` runs at most `MaxDelay` ticks
later, scripts of different callers in any order; keys expire; `AllowFails` is
an unreachable Redis, in which case the call is let through. When a reply is
lost, the client of Redis may send the script again with the time it was given,
which takes a second token for one call. A token is counted
in parts, which makes the script's floating-point product exact. One tenant is
modelled, as buckets share nothing. Loss of Redis's data is not modelled.

| Run | Shows |
| --- | --- |
| `limiter` | Scripts up to two ticks late, and sent again when a reply is lost: every script that sets `ts` back adds at most the delay's worth of tokens (without that term the bound is violated), and every step that is not a late script is a step of a token bucket, expired keys included. |

*Bounds.* Two callers, a bucket of two tokens, nine ticks and ten calls: the
bucket is emptied and refilled, and the keys expire, more than once.

## The event hub

**EventHub** has the mutex, the loop of `Publish` one channel at a time
(`Lock`, `Send`, `Unlock`), the two goroutines that publish (`Run` for the job
events out of Redis, `StartStatsTicks`), and per dashboard the reader
(`Receive`, `Return`) and the goroutine that waits for its context (`Delete`,
`Close`). Redis delivers in order, at most once (`Lost`). Messages are numbered,
and a `PUBLISH` that the client of Redis sends again is a second message;
payloads, pings and encoding are left out. `Publish` without a client of Redis,
which hands events to the hub directly, is not modelled: both processes give it
one.

| Run | Shows |
| --- | --- |
| `hub` | Two dashboards with a channel of one event: no send on a closed channel, the same order of events for all, nothing missed but what found the channel full; `Publish` returns although nobody reads, and the channel of a dashboard that disconnects is closed. |

*Bounds.* A channel of one is full after one event, as one of 64 is after 64;
two events of two publishers are enough to fill it, to drop, and to arrive in
another order.
*Fairness:* goroutines that can run do run, and `sync.Mutex` hands over to a
waiter that starves (strong fairness on `Lock` and `Delete`). Readers get none.
The run may stop, when all dashboards are gone and the bound on events is
reached, as that of the limiter may when the bound on calls is.

## The API

**Api** has the handlers of REST and gRPC that change something, as goroutines
that serve one request statement by statement, and the callers. The records
`client[c]` and `handler[h]` say how far each has come.

| Code | Actions |
| --- | --- |
| a caller | `Send` (to any process, again after a lost answer, a 429 or a 500), `GiveUp` |
| `submitJob`, `SubmitJob` | `Reject` (REST checks ranges, gRPC converts to `int16`: `Valid`, `Params`), `Limit` or `Admit` (REST only asks the limiter), `ensureTenant`, `Enqueue` or `CheckFails`, `Notify` |
| `cancelJob`, `requeueDLQ`, `CancelJob`, `RequeueDLQ` | `cancelJob`, `requeueDLQ` |
| a failed statement or an ended context | `Fails`: the statement may have been executed all the same |
| the answer | `Respond` |
| `main` of `cmd/forge-api` | `Signal`, `Shutdown` or `ShutdownTimeout`, `GracefulStop`, `Crash`, `Start` |

`Work` stands for the workers, `RedisFails` for the loss of Redis. The
operations of the queue are single steps here.

| Run | Shows |
| --- | --- |
| `api` | Two callers in seven workloads: submissions with the same key over both protocols, with keys of two tenants, without keys, with priorities that REST refuses, that wrap around or that the table refuses, and a submission beside a cancel or a requeue. There is one job per key and tenant and at most one caller is told that it created it, the job is stored as asked, a cancelled job is not brought back, no RPC is lost by a shutdown, every caller is answered although Redis is gone, and a shutdown ends. |

*Bounds.* Two callers and two handlers, one failure and one shutdown. One
failure is enough for a handler to be left behind by its caller, for the
repeated request to run beside it, and for an answer to be lost after the
commit. One process serves all: a request is never split between processes,
and the theorems hold for any number. The run may stop, once all callers are
answered.

*Fairness.* Goroutines take their next step; callers try again; a shutdown
takes its course (weak fairness). The limiter lets a caller who keeps asking
through in the end (strong fairness on `Admit`): its bucket is refilled, see
`RateLimiter`. A process that is down need not be started again, as
`deploy/docker-compose.yml` restarts only workers, so `Answered` promises
something only while a process is up.

The limits of these promises: a submission without a key that is repeated makes
a second job. gRPC has neither the limiter nor the range checks, and answers a
priority that the table refuses as an internal error. REST requests that are
active when the shutdown timeout passes are cut off.

## The metrics

**Metrics** has `RecordComplete` and `StartStatsTicks` with `Snapshot`, and every
command of Redis is a step: a pipeline is not a transaction (`Settle`, `Exec`,
`Reply`), and when its replies do not come in time the client sends all of it
again on another connection, up to `MaxRetries` times (`Resend`; the workers
leave the default of three), while what was sent first may still be executed;
a snapshot is a series of `GET`s (`Snapshot`, `ReadWindow`, `ReadTotal`,
`Publish`), seconds pass and keys expire in between (`Pass`), and any command
may fail (`ExecFails`, `ReadFails`). `Sorted` and `percentile` are operators,
checked on all small samples against the rank that a percentile stands for; the
integer index of the model is the floating-point one of the code for every list
of up to 2000 latencies, which is what `LTRIM` leaves. `counted`, `atStart` and
`floor` record what could be seen when, and `resent` counts the repetitions.

| Run | Shows |
| --- | --- |
| `metrics` | The counters hold no more than the settled attempts and the pipelines sent again together; a tick has at least all that was counted when it began to read, and no more in the window than in total; the total never falls unless a `GET` failed; the window covers the seconds it says; and the ticks come to show every attempt unless something fails. |

*Bounds.* One attempt, two connections and one failure, which may be a second
sending: two pipelines at once, each of which may be overtaken by the clock.
Three seconds with a window of two and an expiry of three: keys enter and leave
the window while they are read, outlive it by a second and expire. More attempts
are the business of the theorems. Samples have up to four latencies.
*Fairness:* pipelines are executed and the ticker goes on; `Pass`,
`Settle` and failures need not happen. The run may stop.

A `GET` that fails counts as zero, so the total that a dashboard shows may dip
then. A pipeline that is executed twice leaves the counters too high for good.
Two counters have more than their texts in `metrics.go` say:
`forge_jobs_completed_total` ("by final status") counts failed attempts that
will be retried, and `forge_jobs_enqueued_total` counts submissions that found
their job by its key.

## Disagreements with the documentation

| Run | The code | The text |
| --- | --- | --- |
| `retry_budget` | An expired lease makes a job ready whatever its attempts. | `docs/ARCHITECTURE.md:11`: while retry budget remains. |
| `leased_run` | A heartbeat between the first two statements of a `Dequeue` saves the lease, but its run is already closed. | `docs/ARCHITECTURE.md:15`: a dequeue closes *abandoned* runs. |

Two more are plain from the lines and need no run: `RequeueDLQ` sets
`attempts = 0`, where `docs/ARCHITECTURE.md:13` says that the lifetime attempt
count is preserved; and `SetEnabled` leaves `next_run_at` in place, so that
resuming a schedule fires what the pause missed, where `docs/API.md:29` says
"enable future occurrences".

Two need numbers that the runs do not reach. A claim that commits later than
its lease (`TxBound > Lease`) is born expired: a `Dequeue` that closes runs
before that commit and reclaims jobs after it leaves the new run open for good,
where `README.md:17` says that expiry closes abandoned runs. And `BackoffDelay`,
"capped exponential backoff", caps after it converts: with a base of one second
the product does not fit a `Duration` from 34 attempts on (`max_attempts` may be
100), and where the conversion then yields the least integer, as on amd64, the
retry waits for one second instead of ten minutes (`BackoffOverflow`).

## What is proved

All theorems are for arbitrary sets and bounds; their assumptions are the
`ASSUME`s of the modules (what constants are) and those named here.

| Theorem (module) | Says | Assumes |
| --- | --- | --- |
| `NoUpdateIsLost` (`JobQueueProofs`) | `TypeOK`, `LocksMatchStatement` and `NoLostUpdate` hold always | |
| `Refinement` (`JobQueueProofs`) | `JobQueue` implements `JobLeases` | |
| `TerminalStates`, `LeaseIsExclusive` (`JobQueueProofs`) | finished jobs stay finished; a job changes hands only after its lease | |
| `Consistency` (`JobQueueProofs`) | `TablesAgree` | |
| `TableTypes` (`JobQueueProofs`) | `TypeOK` | |
| `HistoryIsKept` (`JobQueueProofs`) | `HistoryKept`: runs are never opened again, removed or renumbered, and one that succeeded or is dead never changes | |
| `RunHistory` (`JobQueueProofs`) | `NoRunLeftOpen` | `TxBound <= Lease` |
| `ClaimHistory` (`JobQueueProofs`) | `AttemptsNumbered` | |
| `BackoffBounded` (`JobRowsProofs`) | a retry waits for something, and no longer than the cap | |
| `BackoffExact` (`JobRowsProofs`) | the delay is `base * 2^attempts` plus jitter, or the cap | the product and its jitter fit |
| `BackoffGrows` (`JobRowsProofs`) | the next delay is longer whatever the jitters, or the cap | the next product and its jitter fit |
| `BackoffOverflow` (`JobRowsProofs`) | from some number of attempts on the product never fits, and the delay may be a second | the conversion yields the least integer |
| `Leadership` (`SchedulerProofs`) | one leader | the lock's connection holds |
| `OneJobPerOccurrence` (`SchedulerProofs`) | `AtMostOneJob` | |
| `NothingSkipped` (`SchedulerProofs`) | `NoGaps`, `NoOccurrenceSkipped` | expressions that occur, occur again after any time (`Endless`); no two replicas initialise one schedule (`OneInitializer`) |
| `JobsOnlyForOccurrences` (`SchedulerProofs`) | `OnlyOccurrences` | |
| `PoolUsesQueue` (`WorkerPoolProofs`) | `WorkerPool` implements `JobLeases` | |
| `Fencing` (`WorkerPoolProofs`) | `FencedByWorker` | |
| `Exclusion` (`WorkerPoolProofs`) | `ExclusiveExecution`, `SettlesOwnClaim` | `Punctual`, and a lease of at least `interval + 2*Lag + HandlerGrace + SettleTimeout` |
| `NoLeaseAbandoned` (`WorkerPoolProofs`) | `LeaseHasSlot` | `Punctual`, and a shutdown grace longer than `HandlerGrace + SettleTimeout` |
| `BudgetKept` (`WorkerPoolProofs`) | `LeasesOutlastWork`, `AttemptsBounded` | those of `Exclusion` and of `NoLeaseAbandoned` |
| `BoundedOvershoot` (`RateLimiterProofs`) | `Overshoot` | a bucket fills in less than `Expiry - MaxDelay` |
| `LimiterRefinesBucket` (`RateLimiterProofs`) | every step but a late script is one of `TokenBucket` | the same |
| `HubTypes` (`EventHubProofs`) | `TypeOK` | |
| `ClosedChannels` (`EventHubProofs`) | `TypeOK`, `NoSendOnClosed` | |
| `Completeness` (`EventHubProofs`) | `NothingMissed` | |
| `OneOrder` (`EventHubProofs`) | `SameOrder` | |
| `Idempotence`, `Storage`, `Cancellation` (`ApiProofs`) | `OneJobPerKey`, `StoredAsRequested`, `CancelStands` | |
| `Graceful` (`ApiProofs`) | `RpcsSurviveShutdown` | |
| `MetricsTypes`, `AddingUp`, `WindowIsCounted`, `Percentiles` (`MetricsProofs`) | `MetricsTypeOK`, `TotalAddsUp`, `WindowCounts`, `PercentilesRanked` | |
| `TotalRises` (`MetricsProofs`) | `TotalNeverFalls` | |

The arguments, in short:

- *No lost update.* `NoLostUpdate` says that what a transaction is about to
  write is still as it read it and that no two transactions are about to write
  the same row. It is inductive only together with `LocksMatchStatement`: which
  locks a transaction has at which statement. The refinement then needs no
  more: the commit of a transaction is the abstract operation, on the rows as
  they were read, and all other statements are stutters.
- *Run history.* `NoRunLeftOpen` needs `RunsTracked`: between the statement that
  closes runs and the commit, a `Dequeue` knows all open runs of what it
  reclaims. This is where a claim born expired must be excluded.
  `HistoryKept` needs no bound on transactions. Its invariant is `AwaitedOpen`:
  the run that an `Ack` or `Nack` waits for is still open, or was closed as
  failed by the `Dequeue` it waited for. It then overwrites that outcome, as
  `finishRunSQL` asks for the status only when it chooses the run; but by the
  lock on the job it never overwrites that of another `Ack` or `Nack`.
- *Tables.* `TablesAgree` and `AttemptsNumbered` are kept by each row update
  alone; the proofs show that a commit applies one update to a row that is as
  the transaction has read it, which `NoLostUpdate` says.
- *Backoff.* `Doubling` says by induction that each power of two is twice the
  one before it. Since the jitter is less than the base, and the product grows
  by at least the base, delays grow; since it grows without a bound, it
  overflows in the end.
- *Scheduler.* `OneJobPerOccurrence` rests on the key being a function of the
  occurrence: the invariant `Keys` says that every row is there once, under the
  key of its occurrence. `NothingSkipped` rests on `NoGaps`: between `next_run_at` and any
  row that any replica still holds, every occurrence has its job, so setting
  `next_run_at` to either loses nothing. `JobsOnlyForOccurrences` needs no lock
  and nothing of the expressions: every `next_run_at` that is in the table, or
  that a replica holds, is an occurrence, what the row was loaded with, or the
  zero time if no occurrence is left (`Proper`), and a row is held as due only
  when the clock has reached it (`Timely`); no step changes the expression of a
  row (`Steady`).
- *Pool.* `Exclusion` has the invariant that each busy slot owns its job and
  that its lease lasts until its next heartbeat, or until the handler has
  returned and settled (`BeatsInTime`, `SettlesInTime`). `Fencing` has the
  invariant that a lease is of the worker whose slot has made the last claim, as
  long as that slot is busy, that no slot has a later claim than the last one, and
  that a lease of a worker with a single slot is by that slot's claim (`Fence`).
  `NoLeaseAbandoned` has `Served`, that a leased job has a slot as long as
  nothing has failed, and `Drains`: a slot that is busy when its process is told
  to stop is done within `HandlerGrace + SettleTimeout`, so that none is busy
  when the grace is exceeded. With an equal grace TLC finds a lease without a
  slot. `BudgetKept` joins the three: a lease runs out only if no slot serves the
  job, which costs a failure, and `Budget` counts failures against attempts: a
  job that is ready, or leased without a slot, has an attempt to spare.
- *Limiter.* `Earnings` bounds what was taken and what is left by what was
  earned, time set back included. That a step is one of the bucket needs only
  that keys outlive their time stamp by `Expiry` (`KeptLong`).
- *Hub.* A channel is closed only when it is neither in `clients` nor in a loop
  that holds the mutex (`HubInv`); `Tally` counts what each dashboard was sent
  while a loop is under way. For `OneOrder`, `Feed` numbers the events: the log
  has none twice, and an event that waits for the mutex is not in it; then
  `Ordered` says that what a dashboard has been sent is a part of the log, in
  its order, and lacks the last event until the loop has reached it.
- *API.* The unique index (`UniqueKeys`) alone does not give `OneJobPerKey`: an
  answer may be on its way. `Promised` says what each answer, be it still with
  its handler or with its caller, says of the tables; `Prepared` what a handler
  has established before its next statement; `Links` that the caller and the
  handler it waits for have the same request; and `Owners` that a job which was
  created, or has no key, is in at most one answer. `Grows` says what no step
  undoes. A process ends only when no RPC is active, or by a failure, which is
  all that `Graceful` needs beside the links.
- *Metrics.* Each increment of a second's key comes after that of a counter.
  `Counts` says how many attempts are between the two and how many are settled
  but not counted: the sum over all seconds and the attempts halfway is at most
  the total, and the total and the pipelines that have not counted yet are at most
  what was settled or sent again. `Kept` says that a key holds all it was incremented by until
  `Expiry` seconds after its second at least, and `Reading` compares what a tick has read so far with
  what the keys held when it began and hold now: keys already read only grow, so
  the sum read lies between. The sums are a recursive function of the seconds;
  `SumBeforeDef` shows that its definition defines one.
- *Percentiles.* `Sortable` shows by induction on the length that a sample can
  be sorted, so `Sorted` chooses a permutation that does; the places up to an
  index of the sorted sample are then as many as the values not above the one
  there (`RankOfPlace`), and a permutation keeps that number (`SameRank`).

The library's induction rules take a predicate as a parameter, which the provers
cannot instantiate. `SetInduction` states induction about a set instead, and is
proved from the well-foundedness of `<` on the natural numbers: every non-empty
set of them has a least member.

Only model-checked: the liveness properties (`TransactionsEnd`,
`ExpiredLeaseRecovered`, `DueIsEnqueued`, `PublishReturns`, `ChannelsClosed`,
`Answered`, `ShutdownEnds`, `TotalConverges`), as the prover handles neither
fairness nor `ENABLED`. The type invariants are part of the inductive
invariants; they are proved, and no run repeats them. All invariants and action properties of the passing runs
are stated by theorems.

## Abstractions that matter

- One clock: the clocks of the database and of the processes do not differ.
- A row's payload, handler name, error and time stamps of creation are left out.
- `Create` reads the clock and inserts in one step; `last_run_at` is left out.
- The `job.started` event, published between a claim and the start of its
  handler, is left out; a slow Redis there counts as lag.
- The limiter of a rate of zero or less, which is absent, is not modelled.
- In `Api`, requests that do not decode, texts that are too long and ids that
  name no job are left out: they are refused before anything changes. Redis,
  once lost, stays lost. `RecordEnqueue` and the events of a handler change
  nothing that a property is about; gRPC sends no event for a cancel or a
  requeue.
- In `Metrics`, the list of latencies is any sample, and a queue is one queue.

## Not modelled

- The reads (`GetJob`, `RecentJobs`, `ListDLQ`, `Depth`, `StateCounts`, `List`
  and the endpoints that return them): they change nothing.
- The row that the chaos handler inserts: it is idempotent by its key, and
  nothing in the system reads it.
- The Prometheus collectors, the depth sampler and the list of latencies: values
  that are shown, and that nothing decides on. Tracing likewise.
- The CLI and the dashboard: they call the operations above and show what these
  return. The dashboard's state is a view.
- Configuration, opening the database and migrations: constants and tables here.
- Generated code, deployment files, scripts and test support.
- Liveness of the pool (a job is executed until it succeeds or is dead): with a
  clock that stops at its bound, a lease that never expires within it refutes or
  trivialises such a property. `ExpiredLeaseRecovered` has the queue's part.
- What a second initialisation of one schedule by a stale leader skips:
  `initializeNextRuns` does not guard against one, and `OneInitializer` excludes
  it in `NothingSkipped`. `OnlyOccurrences` does cover it.

Some things the code leaves to its users, and no property is about: jobs of low
priority wait as long as others keep coming; a handler that a shutdown
interrupts has used up an attempt; a schedule that is paused after a `Tick` has
read it is still fired once; an expression that does not parse, put into the
table by other means, ends every `Tick`.
