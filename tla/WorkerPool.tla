----------------------------- MODULE WorkerPool ------------------------------
(***************************************************************************)
(* internal/worker: processes whose slots claim jobs, run their handlers,  *)
(* keep the leases alive with heartbeats and settle the jobs.  The queue   *)
(* is JobLeases, which internal/queue implements.                          *)
(*                                                                         *)
(* A slot is a goroutine of loop together with the heartbeat goroutine of  *)
(* the job it executes.  All slots of a process call the queue under the   *)
(* same WorkerID.  Time is what the module is about: leases, heartbeats    *)
(* every third of a lease, job timeouts, the grace periods of handlers and *)
(* of shutdown.  Events, metrics and logging are left out.                 *)
(***************************************************************************)
EXTENDS JobLeases

CONSTANTS
    Slots,          \* the slots of all processes
    WorkerOf,       \* the process of each slot, known by its WorkerID
    Handlers,       \* the handler that each job names
    JobTimeout,     \* Pool.JobTimeout, in ticks
    ShutdownGrace,  \* Pool.ShutdownGrace
    MaxInterval,    \* the longest heartbeat interval, 5 s
    SettleTimeout,  \* the timeout of Ack and Nack, 5 s
    Punctual,       \* do processes, handlers and heartbeats keep the bounds below?
    Lag,            \* bound: from the start of a statement to its effect
    HandlerGrace,   \* bound: from the end of its context to a handler's return
    MaxNow,         \* bound: the clock stops here
    MaxClaims,      \* bound: claims per job
    MaxFaults       \* bound: crashes and failed statements

ASSUME WorkerOfAssumption == WorkerOf \in [Slots -> Workers]
ASSUME HandlersAssumption == Handlers \in [Jobs -> STRING]
ASSUME TimesAssumption ==
    /\ JobTimeout \in Nat /\ ShutdownGrace \in Nat /\ SettleTimeout \in Nat
    /\ MaxInterval \in Nat \ {0} /\ Lag \in Nat /\ HandlerGrace \in Nat
    /\ Punctual \in BOOLEAN
ASSUME PoolBounds == MaxNow \in Nat /\ MaxClaims \in Nat /\ MaxFaults \in Nat

VARIABLES
    claims,    \* per job, the number of its job_runs rows: one per claim
    slot,      \* what each slot is doing
    stopping,  \* when each process was told to stop, or NULL
    faults     \* failures so far

(* vars, of JobLeases, is the clock and the tables. *)
poolVars == <<vars, claims, slot, stopping, faults>>

Slot ==
    [pc: {"polling", "running", "settling", "stopped"},
     job: Jobs \cup {NULL},
     claim: Nat,          \* which claim of the job this is
     deadline: Nat,       \* of the handler's context
     beating: BOOLEAN,    \* is the heartbeat goroutine alive?
     nextBeat: Nat,       \* the next tick of its ticker
     result: {"ok", "error"},
     settleBy: Nat]       \* the deadline of the context of Ack and Nack

PollingSlot ==
    [pc |-> "polling", job |-> NULL, claim |-> 0, deadline |-> 0, beating |-> FALSE,
     nextBeat |-> 0, result |-> "ok", settleBy |-> 0]

StoppedSlot == [PollingSlot EXCEPT !.pc = "stopped"]

PoolInit ==
    /\ Init
    /\ claims = [j \in Jobs |-> 0]
    /\ slot = [s \in Slots |-> PollingSlot]
    /\ stopping = [w \in Workers |-> NULL]
    /\ faults = 0

SlotsOf(w) == {s \in Slots : WorkerOf[s] = w}

(* A slip of interval: the lease itself. *)
intervalWhole == Lease

(* A third of the lease, but at most five seconds, and never zero. *)
interval ==
    IF Lease \div 3 <= 0 \/ Lease \div 3 > MaxInterval THEN MaxInterval ELSE Lease \div 3

(* SQL now() when a statement takes effect. *)
StartTimes == {t \in 0 .. now : now - t <= Lag}

(* The contexts of the handler and of its heartbeat have ended: by the     *)
(* timeout of the job or by the shutdown of the process.                   *)
EndTimes(s) ==
    {t \in {slot[s].deadline, stopping[WorkerOf[s]]} \ {NULL} : t <= now}

ContextDone(s) == EndTimes(s) # {}

-----------------------------------------------------------------------------
(* loop: Dequeue with a limit of one. *)

Eligible(t) ==
    {j \in Jobs : /\ job[j].status = "ready" \/ Expired(job[j], t)
                  /\ Due(job[j], t)
                  /\ claims[j] < MaxClaims}

(* No job if none is eligible, else one that no other comes before. *)
Picks(t) ==
    {P \in SUBSET Eligible(t) :
        /\ P = {} <=> Eligible(t) = {}
        /\ \A j \in P : \A k \in Eligible(t) : ~Before(k, job[k], j, job[j]) /\ (k \in P => k = j)}

Claim(w, t, P) ==
    /\ P \in Picks(t)
    /\ Dequeue(w, t, {j \in Jobs : Expired(job[j], t)}, P)
    /\ claims' = [j \in Jobs |-> IF j \in P THEN claims[j] + 1 ELSE claims[j]]

(* The start of execute: the contexts, and the heartbeat goroutine. *)
StartedSlot(j) ==
    [PollingSlot EXCEPT !.pc = "running", !.job = j, !.claim = claims[j] + 1,
                        !.deadline = now + JobTimeout, !.beating = TRUE,
                        !.nextBeat = now + interval]

(* Nothing to do: sleep for the poll interval, and poll again. *)
Poll(s) ==
    /\ slot[s].pc = "polling"
    /\ stopping[WorkerOf[s]] = NULL
    /\ \E t \in StartTimes :
          \/ /\ Claim(WorkerOf[s], t, {})
             /\ UNCHANGED slot
          \/ \E j \in Jobs : /\ Claim(WorkerOf[s], t, {j})
                             /\ slot' = [slot EXCEPT ![s] = StartedSlot(j)]
    /\ UNCHANGED <<stopping, faults>>

StopSlot(s) ==
    /\ slot[s].pc = "polling"
    /\ stopping[WorkerOf[s]] # NULL
    /\ slot' = [slot EXCEPT ![s] = StoppedSlot]
    /\ UNCHANGED <<vars, claims, stopping, faults>>

-----------------------------------------------------------------------------
(* heartbeat. *)

BeatDue(s) ==
    /\ slot[s].pc = "running"
    /\ slot[s].beating
    /\ slot[s].nextBeat <= now
    /\ now <= slot[s].deadline
    /\ stopping[WorkerOf[s]] = NULL

(* A slip of heartbeat: the lease is renewed once. *)
heartbeatOnce(s) ==
    /\ BeatDue(s)
    /\ \E t \in slot[s].nextBeat .. now : ExtendLease(WorkerOf[s], slot[s].job, t)
    /\ slot' = [slot EXCEPT ![s].beating = FALSE]
    /\ UNCHANGED <<claims, stopping, faults>>

(* ExtendLease at a tick of the ticker. *)
heartbeat(s) ==
    /\ BeatDue(s)
    /\ \E t \in slot[s].nextBeat .. now : ExtendLease(WorkerOf[s], slot[s].job, t)
    /\ slot' = [slot EXCEPT ![s].nextBeat = @ + interval]
    /\ UNCHANGED <<claims, stopping, faults>>

(* ExtendLease finds the lease lost, or fails: the heartbeat ends, and the *)
(* handler is not told.                                                    *)
HeartbeatEnds(s) ==
    /\ BeatDue(s)
    /\ Punctual => job[slot[s].job].status # "running" \/ job[slot[s].job].lockedBy # WorkerOf[s]
    /\ slot' = [slot EXCEPT ![s].beating = FALSE]
    /\ UNCHANGED <<vars, claims, stopping, faults>>

-----------------------------------------------------------------------------
(* The handler, and what follows it in execute. *)

(* What the handlers of DefaultRegistry return, before and after the end   *)
(* of their context; a name that is not registered gets an error.          *)
Results(handler, done) ==
    CASE handler = "echo"  -> IF done THEN {"error"} ELSE {"ok"}
      [] handler = "sleep" -> IF done THEN {"ok", "error"} ELSE {"ok"}
      [] handler = "chaos" -> {"ok", "error"}
      [] OTHER             -> {"error"}

HandlerReturns(s) ==
    /\ slot[s].pc = "running"
    /\ \E result \in Results(Handlers[slot[s].job], ContextDone(s)) :
          slot' = [slot EXCEPT ![s].pc = "settling", ![s].beating = FALSE,
                               ![s].result = result, ![s].settleBy = now + SettleTimeout]
    /\ UNCHANGED <<vars, claims, stopping, faults>>

(* A slip of Settle: Ack and Nack in the context of the process, which a   *)
(* shutdown cancels.                                                       *)
SettleInParentContext(s) ==
    LET w == WorkerOf[s]
        j == slot[s].job
    IN /\ slot[s].pc = "settling"
       /\ \/ slot[s].result = "ok" /\ stopping[w] = NULL /\ Ack(w, j)
          \/ slot[s].result = "error" /\ stopping[w] = NULL /\ \E t \in StartTimes : Nack(w, j, t)
          \/ (~HeldBy(job[j], w) \/ stopping[w] # NULL) /\ UNCHANGED vars
       /\ slot' = [slot EXCEPT ![s] = PollingSlot]
       /\ UNCHANGED <<claims, stopping, faults>>

(* Ack or Nack, in a context of its own that a shutdown does not cancel.   *)
(* When the job is no longer this worker's, nothing happens.               *)
Settle(s) ==
    LET w == WorkerOf[s]
        j == slot[s].job
    IN /\ slot[s].pc = "settling"
       /\ \/ slot[s].result = "ok" /\ Ack(w, j)
          \/ slot[s].result = "error" /\ \E t \in StartTimes : Nack(w, j, t)
          \/ ~HeldBy(job[j], w) /\ UNCHANGED vars
       /\ slot' = [slot EXCEPT ![s] = PollingSlot]
       /\ UNCHANGED <<claims, stopping, faults>>

-----------------------------------------------------------------------------
(* Shutdown and failures of a process. *)

Shutdown(w) ==
    /\ stopping[w] = NULL
    /\ stopping' = [stopping EXCEPT ![w] = now]
    /\ UNCHANGED <<vars, claims, slot, faults>>

(* Run gives up on its slots, main returns, and they end where they are. *)
GraceExceeded(w) ==
    /\ stopping[w] # NULL
    /\ stopping[w] + ShutdownGrace <= now
    /\ \E s \in SlotsOf(w) : slot[s].pc # "stopped"
    /\ slot' = [s \in Slots |-> IF WorkerOf[s] = w THEN StoppedSlot ELSE slot[s]]
    /\ UNCHANGED <<vars, claims, stopping, faults>>

(* The process has ended and is started again. *)
Restart(w) ==
    /\ stopping[w] # NULL
    /\ \A s \in SlotsOf(w) : slot[s].pc = "stopped"
    /\ slot' = [s \in Slots |-> IF WorkerOf[s] = w THEN PollingSlot ELSE slot[s]]
    /\ stopping' = [stopping EXCEPT ![w] = NULL]
    /\ UNCHANGED <<vars, claims, faults>>

Fault ==
    /\ faults < MaxFaults
    /\ faults' = faults + 1

(* The process is killed, and started again. *)
Crash(w) ==
    /\ Fault
    /\ slot' = [s \in Slots |-> IF WorkerOf[s] = w THEN PollingSlot ELSE slot[s]]
    /\ stopping' = [stopping EXCEPT ![w] = NULL]
    /\ UNCHANGED <<vars, claims>>

(* The connection is lost, or the context ends, after the claim has been   *)
(* committed and before Dequeue returns.                                   *)
ClaimLost(s) ==
    /\ Fault
    /\ slot[s].pc = "polling"
    /\ \E t \in StartTimes, j \in Jobs : Claim(WorkerOf[s], t, {j})
    /\ UNCHANGED <<slot, stopping>>

(* Ack or Nack fails, or its timeout passes: logged, and that is all. *)
SettleFails(s) ==
    /\ Fault
    /\ slot[s].pc = "settling"
    /\ slot' = [slot EXCEPT ![s] = PollingSlot]
    /\ UNCHANGED <<vars, claims, stopping>>

-----------------------------------------------------------------------------
(* The other callers of the queue, and the clock. *)

Client(j) ==
    /\ \/ \E t \in StartTimes : Enqueue(j, t) \/ RequeueDLQ(j, t)
       \/ Cancel(j)
    /\ UNCHANGED <<claims, slot, stopping, faults>>

(* Heartbeats go out on time, handlers heed their context, and Ack and     *)
(* Nack end by their timeout.                                              *)
OnTime(s) ==
    /\ slot[s].pc = "running" /\ slot[s].beating /\ ~ContextDone(s) => now < slot[s].nextBeat + Lag
    /\ slot[s].pc = "running" => \A t \in EndTimes(s) : now < t + HandlerGrace
    /\ slot[s].pc = "settling" => now < slot[s].settleBy

Clock ==
    /\ now < MaxNow
    /\ Punctual => \A s \in Slots : OnTime(s)
    /\ Tick
    /\ UNCHANGED <<claims, slot, stopping, faults>>

SlotStep(s) ==
    Poll(s) \/ StopSlot(s) \/ heartbeat(s) \/ HeartbeatEnds(s) \/ HandlerReturns(s) \/ Settle(s)

PoolNext ==
    \/ \E s \in Slots : SlotStep(s) \/ ClaimLost(s) \/ SettleFails(s)
    \/ \E w \in Workers : Shutdown(w) \/ GraceExceeded(w) \/ Restart(w) \/ Crash(w)
    \/ \E j \in Jobs : Client(j)
    \/ Clock

PoolSpec == PoolInit /\ [][PoolNext]_poolVars

-----------------------------------------------------------------------------
(* Properties. *)

(* Does the slot execute or settle a job? *)
Busy(s) == slot[s].pc \in {"running", "settling"}

(* The slots and the tables are well-formed, and a busy slot has a job. *)
PoolTypeOK ==
    /\ now \in Nat
    /\ job \in [Jobs -> Row]
    /\ deadLetter \subseteq Jobs
    /\ claims \in [Jobs -> Nat]
    /\ slot \in [Slots -> Slot]
    /\ stopping \in [Workers -> Nat \cup {NULL}]
    /\ faults \in Nat
    /\ \A s \in Slots : Busy(s) => slot[s].job \in Jobs

(* No two slots execute a job at the same time, as long as heartbeats and  *)
(* handlers are punctual: a lease outlasts the longest gap between two     *)
(* heartbeats, and the time a handler takes to stop after the last one.    *)
ExclusiveExecution ==
    \A s, q \in Slots :
        /\ slot[s].pc = "running" /\ slot[q].pc = "running"
        /\ slot[s].job = slot[q].job
        => s = q

(* Ack and Nack settle the claim that the slot has made, never a later one *)
(* of another worker: a slot that comes back after its lease was taken     *)
(* over changes nothing.                                                   *)
SettlesOwnClaim ==
    [][\A s \in Slots :
          Settle(s) /\ job' # job => slot[s].claim = claims[slot[s].job]]_poolVars

(* However late heartbeats, handlers, Ack and Nack are, locked_by keeps    *)
(* the workers apart: what a slot settles is not a claim that a slot of    *)
(* another worker still executes or settles.  Slots of one process share   *)
(* their WorkerID and may settle each other's claims; a slot that is alone *)
(* in its process settles its own.                                         *)
FencedByWorker ==
    [][\A s \in Slots : Settle(s) /\ job' # job =>
          LET last == claims[slot[s].job]
          IN /\ \A q \in Slots : Busy(q) /\ slot[q].job = slot[s].job /\ slot[q].claim = last
                                 => WorkerOf[q] = WorkerOf[s]
             /\ SlotsOf(WorkerOf[s]) = {s} => slot[s].claim = last]_poolVars

(* A leased job has a slot that executes or settles it, unless something   *)
(* has failed: in particular a process that is told to stop settles what   *)
(* it has claimed.                                                         *)
LeaseHasSlot ==
    faults = 0 =>
        \A j \in Jobs : job[j].status = "running" =>
            \E s \in Slots : Busy(s) /\ slot[s].job = j /\ slot[s].claim = claims[j]

(* No lease runs out, so nothing is executed twice, unless something has   *)
(* failed: heartbeats and settlement come in time, during a shutdown too.  *)
LeasesOutlastWork ==
    faults = 0 => \A j \in Jobs : ~Expired(job[j], now)

(* The retry budget, which lease expiry does not look at, is exceeded by   *)
(* at most one attempt per crash, lost claim or failed Ack or Nack.        *)
AttemptsBounded ==
    \A j \in Jobs : job[j].attempts <= Normal(j).maxAttempts + faults
=============================================================================
