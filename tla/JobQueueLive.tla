---------------------------- MODULE JobQueueLive -----------------------------
(***************************************************************************)
(* Liveness of JobQueue.  Dequeue locks rows of job_runs and then of jobs, *)
(* Ack and Nack lock a row of jobs and then one of job_runs, so they can   *)
(* wait for each other.  PostgreSQL's deadlock detector then fails one of  *)
(* them; here it is the only source of errors.                             *)
(***************************************************************************)
EXTENDS JobQueue, Relation

(* The sessions that hold a row the next statement of session s needs. *)
WaitsFor(s) ==
    {o \in Sessions \ {s} :
        \/ /\ tx[s].stmt = "begun"
           /\ \E j \in Jobs : AbandonedRuns(s, j) \cap tx[o].closing[j] # {}
        \/ /\ tx[s].stmt = "closed"
           /\ \E j \in RowsLocked(o) : Expired(job[j], tx[s].at)
        \/ /\ tx[s].stmt = "waiting"
           /\ tx[s].target \in tx[o].closing[tx[s].job]}

Deadlocked(s) ==
    LET waits == [p \in Sessions \X Sessions |-> p[2] \in WaitsFor(p[1])]
    IN TransitiveClosure(waits, Sessions)[s, s]

DeadlockVictim(s) == Deadlocked(s) /\ rollback(s)

LiveNext ==
    \/ \E s \in Sessions : BeginTx(s) \/ NextStatement(s) \/ DeadlockVictim(s)
    \/ Autocommit
    \/ Tick

(* An open transaction goes on to its next statement, its caller being     *)
(* alive.  A statement that waits for a row gets it when the row is        *)
(* released: those that come later queue behind it.  The detector runs     *)
(* after deadlock_timeout.  Idle workers keep polling.                     *)
Fairness ==
    \A s \in Sessions :
        /\ WF_vars(NextStatement(s))
        /\ SF_vars(CloseExpiredRuns(s))
        /\ SF_vars(ReclaimExpiredJobs(s))
        /\ SF_vars(FinishAwaitedRun(s))
        /\ WF_vars(DeadlockVictim(s))
        /\ WF_vars(\E w \in Workers : BeginDequeue(s, w))

LiveSpec == Init /\ [][LiveNext]_vars /\ Fairness

(* Every transaction ends, committed or failed: nothing stays locked       *)
(* although Dequeue and Ack take their locks in opposite orders.           *)
TransactionsEnd ==
    \A s \in Sessions : tx[s].stmt # "idle" ~> tx[s].stmt = "idle"

(* A job whose lease ran out does not stay that way: a Dequeue reclaims    *)
(* it, unless its worker settles it or extends the lease after all.        *)
ExpiredLeaseRecovered ==
    \A j \in Jobs : Expired(job[j], now) ~> ~Expired(job[j], now)
=============================================================================
