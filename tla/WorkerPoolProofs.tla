-------------------------- MODULE WorkerPoolProofs ---------------------------
(***************************************************************************)
(* Theorems about WorkerPool: a slot never settles the claim of another    *)
(* worker; while heartbeats and handlers are punctual, no job is executed  *)
(* twice at the same time; a process that stops abandons no lease; the     *)
(* pool implements JobLeases; and each failure costs a job at most one     *)
(* attempt beyond its retry budget.                                        *)
(***************************************************************************)
EXTENDS WorkerPool, JobRowsProofs, TLAPS

(* The heartbeat interval is a number of ticks. *)
LEMMA IntervalType == interval \in Nat
  BY SMTT(60), LeaseAssumption, TimesAssumption DEF interval

(* SQL times are natural numbers, not in the future. *)
LEMMA Times ==
    ASSUME PoolTypeOK
    PROVE  \A t \in StartTimes : t \in Nat /\ t <= now /\ now - t <= Lag
  BY DEF PoolTypeOK, StartTimes

(* The slots that the actions make are well-formed. *)
LEMMA SlotTypes ==
    /\ PollingSlot \in Slot /\ PollingSlot.pc = "polling"
    /\ StoppedSlot \in Slot /\ StoppedSlot.pc = "stopped"
  BY Zenon DEF PollingSlot, StoppedSlot, Slot

(* A claim keeps the tables well-formed, and counts. *)
LEMMA ClaimFacts ==
    ASSUME PoolTypeOK, NEW w \in Workers, NEW t \in Nat, NEW P \in SUBSET Jobs, Claim(w, t, P)
    PROVE  /\ job' \in [Jobs -> Row] /\ claims' \in [Jobs -> Nat] /\ UNCHANGED <<now, deadLetter>>
           /\ \A j \in Jobs : IF j \in P
                              THEN /\ job[j].status = "ready" \/ Expired(job[j], t)
                                   /\ job'[j] = ClaimedRow(job[j], w, t)
                                   /\ claims'[j] = claims[j] + 1
                              ELSE /\ job'[j] = IF Expired(job[j], t) THEN ReclaimedRow(job[j]) ELSE job[j]
                                   /\ claims'[j] = claims[j]
<1>1. /\ UNCHANGED <<now, deadLetter>>
      /\ job' = [j \in Jobs |-> IF j \in P THEN ClaimedRow(job[j], w, t)
                                ELSE IF Expired(job[j], t) THEN ReclaimedRow(job[j])
                                ELSE job[j]]
      /\ \A j \in P : job[j].status = "ready" \/ Expired(job[j], t)
      /\ claims' = [j \in Jobs |-> IF j \in P THEN claims[j] + 1 ELSE claims[j]]
  BY DEF Claim, Dequeue
<1>2. \A j \in Jobs : job[j] \in Row /\ claims[j] \in Nat
  BY DEF PoolTypeOK
<1>3. job' \in [Jobs -> Row]
  BY <1>1, <1>2, RowTypes, ClaimedRowType
<1>4. claims' \in [Jobs -> Nat]
  BY <1>1, <1>2
<1> QED
  BY <1>1, <1>3, <1>4

(* What a slot that starts a job looks like. *)
LEMMA StartedFacts ==
    ASSUME PoolTypeOK, NEW j \in Jobs
    PROVE  /\ StartedSlot(j) \in Slot
           /\ StartedSlot(j).pc = "running" /\ StartedSlot(j).job = j
           /\ StartedSlot(j).claim = claims[j] + 1 /\ StartedSlot(j).beating
           /\ StartedSlot(j).nextBeat = now + interval
           /\ StartedSlot(j).deadline = now + JobTimeout
<1>1. now + interval \in Nat /\ now + JobTimeout \in Nat /\ claims[j] + 1 \in Nat
  BY IntervalType, TimesAssumption DEF PoolTypeOK
<1> QED
  BY Zenon, <1>1 DEF StartedSlot, PollingSlot, Slot

(* The queue's operations keep the types of the tables. *)
LEMMA AckFacts ==
    ASSUME PoolTypeOK, NEW w \in Workers, NEW j \in Jobs, Ack(w, j)
    PROVE  /\ job' \in [Jobs -> Row] /\ UNCHANGED <<now, deadLetter>>
           /\ HeldBy(job[j], w)
           /\ job'[j].status # "running"
           /\ \A k \in Jobs : k # j => job'[k] = job[k]
<1>1. job \in [Jobs -> Row] /\ job[j] \in Row
  BY DEF PoolTypeOK
<1>2. job' = [job EXCEPT ![j] = SucceededRow(job[j])] /\ HeldBy(job[j], w) /\ UNCHANGED <<now, deadLetter>>
  BY DEF Ack
<1>3. SucceededRow(job[j]) \in Row
  BY <1>1, RowTypes, 0 \in Nat
<1>4. SucceededRow(job[j]).status # "running"
  BY <1>1 DEF SucceededRow, Row
<1> QED
  BY <1>1, <1>2, <1>3, <1>4

(* Nack takes a job that its worker holds out of the running state. *)
LEMMA NackFacts ==
    ASSUME PoolTypeOK, NEW w \in Workers, NEW j \in Jobs, NEW t \in Nat, Nack(w, j, t)
    PROVE  /\ job' \in [Jobs -> Row] /\ deadLetter' \subseteq Jobs /\ UNCHANGED now
           /\ HeldBy(job[j], w)
           /\ job'[j].status # "running"
           /\ \A k \in Jobs : k # j => job'[k] = job[k]
<1>1. job \in [Jobs -> Row] /\ job[j] \in Row /\ deadLetter \subseteq Jobs
  BY DEF PoolTypeOK
<1>2. \A d \in Delays(job[j].attempts) : t + d \in Nat
  <2>1. job[j].attempts \in Nat
    BY <1>1 DEF Row
  <2> QED
    BY <2>1, DelayType
<1>3. HeldBy(job[j], w) /\ UNCHANGED now
  BY DEF Nack
<1>4. CASE job' = [job EXCEPT ![j] = DeadRow(job[j])] /\ deadLetter' = deadLetter \cup {j}
  <2>1. DeadRow(job[j]) \in Row
    BY <1>1, RowTypes, 0 \in Nat
  <2>2. DeadRow(job[j]).status # "running"
    BY <1>1 DEF DeadRow, Row
  <2> QED
    BY <1>1, <1>3, <1>4, <2>1, <2>2
<1>5. ASSUME NEW d \in Delays(job[j].attempts), job' = [job EXCEPT ![j] = RetriedRow(job[j], t + d)], UNCHANGED deadLetter
      PROVE  /\ job' \in [Jobs -> Row] /\ deadLetter' \subseteq Jobs
             /\ job'[j].status # "running"
             /\ \A k \in Jobs : k # j => job'[k] = job[k]
  <2>1. RetriedRow(job[j], t + d) \in Row
    BY Zenon, <1>1, <1>2, RowTypes
  <2>2. RetriedRow(job[j], t + d).status # "running"
    BY <1>1 DEF RetriedRow, Row
  <2> QED
    BY <1>1, <1>5, <2>1, <2>2
<1> QED
  BY <1>3, <1>4, <1>5 DEF Nack

(* ExtendLease moves the end of a lease and nothing else. *)
LEMMA ExtendFacts ==
    ASSUME PoolTypeOK, NEW w \in Workers, NEW j \in Jobs, NEW t \in Nat, ExtendLease(w, j, t)
    PROVE  /\ job' \in [Jobs -> Row] /\ UNCHANGED <<now, deadLetter>>
           /\ job'[j].status = job[j].status /\ job'[j].lockedBy = job[j].lockedBy
           /\ job'[j].attempts = job[j].attempts
           /\ job'[j].lockedUntil = t + Lease
           /\ \A k \in Jobs : k # j => job'[k] = job[k]
<1>1. job \in [Jobs -> Row] /\ job[j] \in Row
  BY DEF PoolTypeOK
<1>2. job' = [job EXCEPT ![j] = ExtendedRow(job[j], t)] /\ UNCHANGED <<now, deadLetter>>
  BY DEF ExtendLease
<1>3. ExtendedRow(job[j], t) \in Row
  BY SMTT(60), <1>1, RowTypes
<1>4. /\ ExtendedRow(job[j], t).status = job[j].status
      /\ ExtendedRow(job[j], t).lockedBy = job[j].lockedBy
      /\ ExtendedRow(job[j], t).attempts = job[j].attempts
      /\ ExtendedRow(job[j], t).lockedUntil = t + Lease
  BY <1>1 DEF ExtendedRow, Row
<1> QED
  BY <1>1, <1>2, <1>3, <1>4

(* A client changes one job, which is not running before or after. *)
LEMMA ClientFacts ==
    ASSUME PoolTypeOK, NEW j \in Jobs, Client(j)
    PROVE  /\ job' \in [Jobs -> Row] /\ deadLetter' \subseteq Jobs
           /\ UNCHANGED <<now, claims, slot, stopping, faults>>
           /\ job[j].status # "running" /\ job'[j].status # "running"
           /\ \A k \in Jobs : k # j => job'[k] = job[k]
<1>1. job \in [Jobs -> Row] /\ job[j] \in Row /\ deadLetter \subseteq Jobs
  BY DEF PoolTypeOK
<1>2. UNCHANGED <<claims, slot, stopping, faults>>
  BY DEF Client
<1>3. ASSUME NEW t \in StartTimes, Enqueue(j, t)
      PROVE  /\ job' \in [Jobs -> Row] /\ deadLetter' \subseteq Jobs /\ UNCHANGED now
             /\ job[j].status # "running" /\ job'[j].status # "running"
             /\ \A k \in Jobs : k # j => job'[k] = job[k]
  <2>1. InsertedRow(j, t) \in Row /\ InsertedRow(j, t).status = "ready"
    BY Zenon, Times, InsertedRowType DEF InsertedRow, AbsentRow
  <2> QED
    BY <1>1, <1>3, <2>1 DEF Enqueue
<1>4. ASSUME NEW t \in StartTimes, RequeueDLQ(j, t)
      PROVE  /\ job' \in [Jobs -> Row] /\ deadLetter' \subseteq Jobs /\ UNCHANGED now
             /\ job[j].status # "running" /\ job'[j].status # "running"
             /\ \A k \in Jobs : k # j => job'[k] = job[k]
  <2>1. RequeuedRow(job[j], t) \in Row
    BY Zenon, <1>1, Times, RowTypes
  <2>2. RequeuedRow(job[j], t).status = "ready"
    BY <1>1 DEF RequeuedRow, Row
  <2> QED
    BY <1>1, <1>4, <2>1, <2>2 DEF RequeueDLQ
<1>5. ASSUME Cancel(j)
      PROVE  /\ job' \in [Jobs -> Row] /\ deadLetter' \subseteq Jobs /\ UNCHANGED now
             /\ job[j].status # "running" /\ job'[j].status # "running"
             /\ \A k \in Jobs : k # j => job'[k] = job[k]
  <2>1. CancelledRow(job[j]) \in Row
    BY <1>1, RowTypes, 0 \in Nat
  <2>2. CancelledRow(job[j]).status = "failed"
    BY <1>1 DEF CancelledRow, Row
  <2> QED
    BY <1>1, <1>5, <2>1, <2>2 DEF Cancel
<1> QED
  BY <1>2, <1>3, <1>4, <1>5 DEF Client

-----------------------------------------------------------------------------
(* What the steps of the slots do. *)

(* Dequeue leaves the slot polling, or starts the job it has claimed. *)
LEMMA PollFacts ==
    ASSUME PoolTypeOK, NEW s \in Slots, Poll(s) \/ ClaimLost(s)
    PROVE  \E t \in StartTimes, P \in SUBSET Jobs :
              /\ Claim(WorkerOf[s], t, P)
              /\ slot[s].pc = "polling" /\ UNCHANGED stopping /\ faults' \in Nat
              /\ \/ UNCHANGED slot
                 \/ /\ stopping[WorkerOf[s]] = NULL
                    /\ \E j \in P : slot' = [slot EXCEPT ![s] = StartedSlot(j)]
<1>1. CASE Poll(s)
  <2>1. slot[s].pc = "polling" /\ stopping[WorkerOf[s]] = NULL /\ UNCHANGED <<stopping, faults>>
    BY <1>1 DEF Poll
  <2>2. faults' \in Nat
    BY <2>1 DEF PoolTypeOK
  <2>3. PICK t \in StartTimes :
          \/ Claim(WorkerOf[s], t, {}) /\ UNCHANGED slot
          \/ \E j \in Jobs : Claim(WorkerOf[s], t, {j}) /\ slot' = [slot EXCEPT ![s] = StartedSlot(j)]
    BY Zenon, <1>1 DEF Poll
  <2>4. CASE Claim(WorkerOf[s], t, {}) /\ UNCHANGED slot
    BY <2>1, <2>2, <2>4
  <2>5. ASSUME NEW j \in Jobs, Claim(WorkerOf[s], t, {j}), slot' = [slot EXCEPT ![s] = StartedSlot(j)]
        PROVE  \E P \in SUBSET Jobs : Claim(WorkerOf[s], t, P) /\ \E k \in P : slot' = [slot EXCEPT ![s] = StartedSlot(k)]
    BY Zenon, <2>5
  <2> QED
    BY Zenon, <2>1, <2>2, <2>3, <2>4, <2>5
<1>2. CASE ClaimLost(s)
  <2>1. PICK t \in StartTimes, j \in Jobs : Claim(WorkerOf[s], t, {j})
    BY Zenon, <1>2 DEF ClaimLost
  <2>2. slot[s].pc = "polling" /\ UNCHANGED <<slot, stopping>> /\ faults' \in Nat
    BY <1>2 DEF ClaimLost, Fault, PoolTypeOK
  <2>3. {j} \in SUBSET Jobs
    OBVIOUS
  <2> QED
    BY <2>1, <2>2, <2>3
<1> QED
  BY <1>1, <1>2

(* A heartbeat renews the lease of the slot's job, at a recent time. *)
LEMMA HeartbeatFacts ==
    ASSUME PoolTypeOK, NEW s \in Slots, heartbeat(s)
    PROVE  /\ BeatDue(s) /\ slot[s].job \in Jobs
           /\ \E t \in Nat : /\ slot[s].nextBeat <= t /\ t <= now
                             /\ ExtendLease(WorkerOf[s], slot[s].job, t)
           /\ slot' = [slot EXCEPT ![s] = [slot[s] EXCEPT !.nextBeat = slot[s].nextBeat + interval]]
           /\ [slot[s] EXCEPT !.nextBeat = slot[s].nextBeat + interval] \in Slot
           /\ UNCHANGED <<claims, stopping, faults>>
<1>1. now \in Nat /\ slot \in [Slots -> Slot] /\ slot[s].nextBeat \in Nat
  BY DEF PoolTypeOK, Slot
<1>2. PICK t \in slot[s].nextBeat .. now : ExtendLease(WorkerOf[s], slot[s].job, t)
  BY DEF heartbeat
<1>3. t \in Nat /\ slot[s].nextBeat <= t /\ t <= now
  BY <1>1, <1>2
<1>4. BeatDue(s) /\ slot[s].job \in Jobs
  BY DEF heartbeat, BeatDue, PoolTypeOK, Busy
<1>5. slot[s].nextBeat + interval \in Nat
  BY <1>1, IntervalType
<1>6. [slot[s] EXCEPT !.nextBeat = slot[s].nextBeat + interval] \in Slot
  BY <1>1, <1>5 DEF Slot
<1>7. slot' = [slot EXCEPT ![s].nextBeat = @ + interval] /\ UNCHANGED <<claims, stopping, faults>>
  BY DEF heartbeat
<1> QED
  BY <1>1, <1>2, <1>3, <1>4, <1>6, <1>7

(* The slot that settles the result r of its handler. *)
SettlingSlot(s, r) ==
    [slot[s] EXCEPT !.pc = "settling", !.beating = FALSE, !.result = r,
                    !.settleBy = now + SettleTimeout]

(* A handler that returns leaves its slot to settle the result. *)
LEMMA ReturnFacts ==
    ASSUME PoolTypeOK, NEW s \in Slots, HandlerReturns(s)
    PROVE  /\ slot[s].pc = "running" /\ slot[s].job \in Jobs
           /\ \E r \in {"ok", "error"} : /\ SettlingSlot(s, r) \in Slot
                                         /\ slot' = [slot EXCEPT ![s] = SettlingSlot(s, r)]
           /\ UNCHANGED <<vars, claims, stopping, faults>>
<1>1. PICK r \in Results(Handlers[slot[s].job], ContextDone(s)) :
        slot' = [slot EXCEPT ![s].pc = "settling", ![s].beating = FALSE,
                             ![s].result = r, ![s].settleBy = now + SettleTimeout]
  BY Zenon DEF HandlerReturns
<1>2. r \in {"ok", "error"}
  BY <1>1 DEF Results
<1>3. slot[s].pc = "running" /\ UNCHANGED <<vars, claims, stopping, faults>>
  BY DEF HandlerReturns
<1>4. slot[s].job \in Jobs /\ slot \in [Slots -> Slot]
  BY <1>3 DEF PoolTypeOK, Busy
<1>5. slot' = [slot EXCEPT ![s] = SettlingSlot(s, r)]
  BY Zenon, <1>1, <1>4 DEF SettlingSlot
<1>6. now + SettleTimeout \in Nat
  BY TimesAssumption DEF PoolTypeOK
<1>7. SettlingSlot(s, r) \in Slot
  BY ZenonT(60), <1>2, <1>4, <1>6 DEF SettlingSlot, Slot
<1> QED
  BY Zenon, <1>2, <1>3, <1>4, <1>5, <1>7

(* Ack and Nack end the lease of a job that the worker holds, or fail. *)
LEMMA SettleFacts ==
    ASSUME PoolTypeOK, NEW s \in Slots, Settle(s)
    PROVE  /\ slot[s].pc = "settling" /\ slot[s].job \in Jobs
           /\ slot' = [slot EXCEPT ![s] = PollingSlot]
           /\ UNCHANGED <<now, claims, stopping, faults>>
           /\ job' \in [Jobs -> Row] /\ deadLetter' \subseteq Jobs
           /\ \/ UNCHANGED job
              \/ /\ job[slot[s].job].status = "running" /\ job[slot[s].job].lockedBy = WorkerOf[s]
                 /\ job'[slot[s].job].status # "running"
                 /\ \A k \in Jobs : k # slot[s].job => job'[k] = job[k]
<1>1. slot[s].pc = "settling" /\ slot' = [slot EXCEPT ![s] = PollingSlot]
      /\ UNCHANGED <<claims, stopping, faults>>
  BY Zenon DEF Settle
<1>2. slot[s].job \in Jobs
  BY <1>1 DEF PoolTypeOK, Busy
<1>3. WorkerOf[s] \in Workers /\ WorkerOf[s] # NULL
  BY WorkerOfAssumption, NullAssumption
<1>4. HeldBy(job[slot[s].job], WorkerOf[s])
        => job[slot[s].job].status = "running" /\ job[slot[s].job].lockedBy = WorkerOf[s]
  BY <1>3 DEF HeldBy
<1>5. CASE Ack(WorkerOf[s], slot[s].job)
  BY <1>1, <1>2, <1>3, <1>4, <1>5, AckFacts DEF PoolTypeOK
<1>6. ASSUME NEW t \in StartTimes, Nack(WorkerOf[s], slot[s].job, t)
      PROVE  /\ job' \in [Jobs -> Row] /\ deadLetter' \subseteq Jobs /\ UNCHANGED now
             /\ job[slot[s].job].status = "running" /\ job[slot[s].job].lockedBy = WorkerOf[s]
             /\ job'[slot[s].job].status # "running"
             /\ \A k \in Jobs : k # slot[s].job => job'[k] = job[k]
  BY Zenon, <1>2, <1>3, <1>4, <1>6, Times, NackFacts
<1>7. CASE UNCHANGED vars
  BY Zenon, <1>1, <1>2, <1>7 DEF PoolTypeOK, vars
<1> QED
  BY Zenon, <1>1, <1>2, <1>5, <1>6, <1>7 DEF Settle

(* Slots that stop, fail to settle or end with their process become idle; *)
(* nothing else changes.                                                  *)
Idles ==
    \/ \E s \in Slots : StopSlot(s) \/ SettleFails(s)
    \/ \E w \in Workers : GraceExceeded(w) \/ Restart(w) \/ Crash(w)

(* The steps of Idles leave the rows alone, and no job to a slot they touch. *)
LEMMA IdleFacts ==
    ASSUME PoolTypeOK, Idles
    PROVE  /\ UNCHANGED <<vars, claims>>
           /\ slot' \in [Slots -> Slot] /\ stopping' \in [Workers -> Nat \cup {NULL}] /\ faults' \in Nat
           /\ \A q \in Slots :
                 \/ slot'[q] = slot[q] /\ stopping'[WorkerOf[q]] = stopping[WorkerOf[q]]
                 \/ slot'[q].pc \in {"polling", "stopped"}
<1>0. slot \in [Slots -> Slot] /\ stopping \in [Workers -> Nat \cup {NULL}] /\ faults \in Nat
  BY DEF PoolTypeOK
<1>1. ASSUME NEW s \in Slots, StopSlot(s) \/ SettleFails(s)
      PROVE  /\ UNCHANGED <<vars, claims, stopping>> /\ faults' \in Nat
             /\ slot' \in [Slots -> Slot]
             /\ \A q \in Slots : slot'[q] = slot[q] \/ slot'[q].pc \in {"polling", "stopped"}
  <2>1. CASE StopSlot(s)
    BY <1>0, <2>1, SlotTypes DEF StopSlot
  <2>2. CASE SettleFails(s)
    BY <1>0, <2>2, SlotTypes DEF SettleFails, Fault
  <2> QED
    BY <1>1, <2>1, <2>2
<1>2. ASSUME NEW w \in Workers, GraceExceeded(w) \/ Restart(w) \/ Crash(w)
      PROVE  /\ UNCHANGED <<vars, claims>> /\ faults' \in Nat
             /\ stopping' \in [Workers -> Nat \cup {NULL}]
             /\ \A v \in Workers : v # w => stopping'[v] = stopping[v]
             /\ slot' \in [Slots -> Slot]
             /\ \A q \in Slots : IF WorkerOf[q] = w THEN slot'[q].pc \in {"polling", "stopped"}
                                 ELSE slot'[q] = slot[q]
  <2>1. CASE GraceExceeded(w)
    BY <1>0, <2>1, SlotTypes DEF GraceExceeded
  <2>2. CASE Restart(w)
    BY <1>0, <2>2, SlotTypes DEF Restart
  <2>3. CASE Crash(w)
    BY <1>0, <2>3, SlotTypes DEF Crash, Fault
  <2> QED
    BY <1>2, <2>1, <2>2, <2>3
<1>3. \A q \in Slots : WorkerOf[q] \in Workers
  BY WorkerOfAssumption
<1>4. CASE \E s \in Slots : StopSlot(s) \/ SettleFails(s)
  BY <1>0, <1>1, <1>4
<1>5. CASE \E w \in Workers : GraceExceeded(w) \/ Restart(w) \/ Crash(w)
  BY <1>2, <1>3, <1>5
<1> QED
  BY <1>4, <1>5 DEF Idles

(* The steps of the pool, as the proofs below split them. *)
LEMMA PoolSteps ==
    ASSUME [PoolNext]_poolVars
    PROVE  \/ \E s \in Slots : Poll(s) \/ ClaimLost(s)
           \/ \E s \in Slots : heartbeat(s)
           \/ \E s \in Slots : HeartbeatEnds(s)
           \/ \E s \in Slots : HandlerReturns(s)
           \/ \E s \in Slots : Settle(s)
           \/ \E w \in Workers : Shutdown(w)
           \/ Idles
           \/ \E j \in Jobs : Client(j)
           \/ Clock
           \/ UNCHANGED poolVars
  BY DEF PoolNext, SlotStep, Idles

-----------------------------------------------------------------------------
(* Types. *)

(* Every step keeps the types. *)
LEMMA PoolTypeOKStep ==
    ASSUME PoolTypeOK, [PoolNext]_poolVars
    PROVE  PoolTypeOK'
<1>0. /\ now \in Nat /\ job \in [Jobs -> Row] /\ deadLetter \subseteq Jobs
      /\ claims \in [Jobs -> Nat] /\ slot \in [Slots -> Slot]
      /\ stopping \in [Workers -> Nat \cup {NULL}] /\ faults \in Nat
      /\ \A s \in Slots : slot[s].pc \in {"running", "settling"} => slot[s].job \in Jobs
  BY Zenon DEF PoolTypeOK, Busy
<1> USE DEF PoolTypeOK, Busy
<1>1. ASSUME NEW s \in Slots, Poll(s) \/ ClaimLost(s) PROVE PoolTypeOK'
  <2>1. PICK t \in StartTimes, P \in SUBSET Jobs :
              /\ Claim(WorkerOf[s], t, P)
              /\ slot[s].pc = "polling" /\ UNCHANGED stopping /\ faults' \in Nat
              /\ \/ UNCHANGED slot
                 \/ /\ stopping[WorkerOf[s]] = NULL
                    /\ \E j \in P : slot' = [slot EXCEPT ![s] = StartedSlot(j)]
    BY <1>1, PollFacts
  <2>2. WorkerOf[s] \in Workers /\ t \in Nat
    BY WorkerOfAssumption, Times
  <2>3. job' \in [Jobs -> Row] /\ claims' \in [Jobs -> Nat] /\ UNCHANGED <<now, deadLetter>>
    BY Zenon, <2>1, <2>2, ClaimFacts
  <2>4. /\ slot' \in [Slots -> Slot]
        /\ \A q \in Slots : slot'[q].pc \in {"running", "settling"} => slot'[q].job \in Jobs
    BY SMTT(60), <1>0, <2>1, StartedFacts
  <2> QED
    BY <1>0, <2>1, <2>3, <2>4
<1>2. ASSUME NEW s \in Slots, heartbeat(s) PROVE PoolTypeOK'
  <2>1. /\ slot[s].pc = "running" /\ slot[s].job \in Jobs
        /\ slot' = [slot EXCEPT ![s] = [slot[s] EXCEPT !.nextBeat = slot[s].nextBeat + interval]]
        /\ [slot[s] EXCEPT !.nextBeat = slot[s].nextBeat + interval] \in Slot
        /\ UNCHANGED <<claims, stopping, faults>>
    BY <1>2, HeartbeatFacts DEF BeatDue
  <2>2. PICK t \in Nat : ExtendLease(WorkerOf[s], slot[s].job, t)
    BY Zenon, <1>2, HeartbeatFacts
  <2>3. job' \in [Jobs -> Row] /\ UNCHANGED <<now, deadLetter>>
    BY Zenon, <2>1, <2>2, ExtendFacts, WorkerOfAssumption
  <2>4. [slot[s] EXCEPT !.nextBeat = slot[s].nextBeat + interval].job = slot[s].job
    BY <1>0 DEF Slot
  <2> QED
    BY <1>0, <2>1, <2>3, <2>4
<1>3. ASSUME NEW s \in Slots, HeartbeatEnds(s) PROVE PoolTypeOK'
  <2>1. [slot[s] EXCEPT !.beating = FALSE] \in Slot
    BY ZenonT(60), <1>0 DEF Slot
  <2>2. /\ [slot[s] EXCEPT !.beating = FALSE].job = slot[s].job
        /\ [slot[s] EXCEPT !.beating = FALSE].pc = slot[s].pc
    BY <1>0 DEF Slot
  <2>3. /\ slot' = [slot EXCEPT ![s] = [slot[s] EXCEPT !.beating = FALSE]]
        /\ UNCHANGED <<now, job, deadLetter, claims, stopping, faults>>
    BY <1>0, <1>3 DEF HeartbeatEnds, vars
  <2> QED
    BY <1>0, <2>1, <2>2, <2>3
<1>4. ASSUME NEW s \in Slots, HandlerReturns(s) PROVE PoolTypeOK'
  <2>1. PICK r \in {"ok", "error"} : /\ SettlingSlot(s, r) \in Slot
                                     /\ slot' = [slot EXCEPT ![s] = SettlingSlot(s, r)]
    BY <1>4, ReturnFacts
  <2>2. SettlingSlot(s, r).job \in Jobs /\ UNCHANGED <<now, job, deadLetter, claims, stopping, faults>>
    BY ZenonT(60), <1>0, <1>4, ReturnFacts DEF SettlingSlot, Slot, vars
  <2> QED
    BY <1>0, <2>1, <2>2
<1>5. ASSUME NEW s \in Slots, Settle(s) PROVE PoolTypeOK'
  BY SMTT(60), <1>0, <1>5, SettleFacts, SlotTypes
<1>6. ASSUME NEW w \in Workers, Shutdown(w) PROVE PoolTypeOK'
  BY <1>0, <1>6 DEF Shutdown, vars
<1>7. CASE Idles
  BY Zenon, <1>0, <1>7, IdleFacts DEF vars
<1>8. ASSUME NEW j \in Jobs, Client(j) PROVE PoolTypeOK'
  BY Zenon, <1>0, <1>8, ClientFacts
<1>9. CASE Clock
  BY <1>0, <1>9 DEF Clock, Tick
<1>10. CASE UNCHANGED poolVars
  BY <1>0, <1>10 DEF poolVars, vars
<1> QED
  BY Zenon, <1>1, <1>2, <1>3, <1>4, <1>5, <1>6, <1>7, <1>8, <1>9, <1>10, PoolSteps

(* The initial states have the types. *)
LEMMA PoolTypeOKInit == PoolInit => PoolTypeOK
<1> SUFFICES ASSUME PoolInit PROVE PoolTypeOK
  OBVIOUS
<1>1. AbsentRow \in Row
  BY DEF AbsentRow, Row, Status
<1>2. now = 0 /\ job = [j \in Jobs |-> AbsentRow] /\ deadLetter = {}
  BY DEF PoolInit, Init
<1> QED
  BY <1>1, <1>2, SlotTypes DEF PoolInit, PoolTypeOK, Busy

-----------------------------------------------------------------------------
(* Fencing, whatever the timing. *)

Alone(s) == SlotsOf(WorkerOf[s]) = {s}

(* The claim of a busy slot is not after the last one of its job.  If it   *)
(* is the last one, then the lease, if there is one, is its worker's; and  *)
(* if a slot is alone in its process, a lease of its worker is by its own  *)
(* claim.                                                                  *)
Fence(s) ==
    LET row == job[slot[s].job]
        last == claims[slot[s].job]
    IN /\ slot[s].claim <= last
       /\ row.status = "running" /\ slot[s].claim = last => row.lockedBy = WorkerOf[s]
       /\ row.status = "running" /\ row.lockedBy = WorkerOf[s] /\ Alone(s) => slot[s].claim = last

Fenced == \A s \in Slots : Busy(s) => Fence(s)

(* A slot that keeps its claim keeps its fence, unless the job is claimed. *)
LEMMA FenceKept ==
    ASSUME NEW q \in Slots, Fence(q), slot'[q].job = slot[q].job, slot'[q].claim = slot[q].claim,
           claims'[slot[q].job] = claims[slot[q].job],
           job'[slot[q].job].status = "running" =>
              job[slot[q].job].status = "running" /\ job'[slot[q].job].lockedBy = job[slot[q].job].lockedBy
    PROVE  Fence(q)'
  BY Zenon DEF Fence, Alone, SlotsOf

(* Every step keeps Fenced. *)
LEMMA FencedStep ==
    ASSUME PoolTypeOK, Fenced, [PoolNext]_poolVars
    PROVE  Fenced'
<1>0. /\ job \in [Jobs -> Row] /\ claims \in [Jobs -> Nat] /\ slot \in [Slots -> Slot]
      /\ \A q \in Slots : slot[q].pc \in {"running", "settling"} => slot[q].job \in Jobs
  BY Zenon DEF PoolTypeOK, Busy
<1>1. \A q \in Slots : slot[q].pc \in {"running", "settling"} => Fence(q)
  BY Zenon DEF Fenced, Busy
<1> SUFFICES ASSUME NEW q \in Slots, slot'[q].pc \in {"running", "settling"}
             PROVE  Fence(q)'
  BY Zenon DEF Fenced, Busy
<1>2. ASSUME NEW s \in Slots, Poll(s) \/ ClaimLost(s) PROVE Fence(q)'
  <2>1. PICK t \in StartTimes, P \in SUBSET Jobs :
              /\ Claim(WorkerOf[s], t, P)
              /\ slot[s].pc = "polling" /\ UNCHANGED stopping /\ faults' \in Nat
              /\ \/ UNCHANGED slot
                 \/ /\ stopping[WorkerOf[s]] = NULL
                    /\ \E j \in P : slot' = [slot EXCEPT ![s] = StartedSlot(j)]
    BY Zenon, <1>2, PollFacts
  <2>2. WorkerOf[s] \in Workers /\ t \in Nat
    BY WorkerOfAssumption, Times
  <2>3. \A j \in Jobs : IF j \in P
                        THEN job'[j] = ClaimedRow(job[j], WorkerOf[s], t) /\ claims'[j] = claims[j] + 1
                        ELSE /\ job'[j] = job[j] \/ job'[j] = ReclaimedRow(job[j])
                             /\ claims'[j] = claims[j]
    <3>1. \A j \in Jobs : IF j \in P
                          THEN /\ job[j].status = "ready" \/ Expired(job[j], t)
                               /\ job'[j] = ClaimedRow(job[j], WorkerOf[s], t)
                               /\ claims'[j] = claims[j] + 1
                          ELSE /\ job'[j] = IF Expired(job[j], t) THEN ReclaimedRow(job[j]) ELSE job[j]
                               /\ claims'[j] = claims[j]
      BY ZenonT(60), <2>1, <2>2, ClaimFacts
    <3> QED
      BY Zenon, <3>1
  <2>4. \A j \in Jobs : /\ ClaimedRow(job[j], WorkerOf[s], t).lockedBy = WorkerOf[s]
                        /\ ReclaimedRow(job[j]).status = "ready"
    BY <1>0 DEF ClaimedRow, ReclaimedRow, Row
  <2>5. CASE q = s
    <3>1. PICK j \in P : slot' = [slot EXCEPT ![s] = StartedSlot(j)]
      BY Zenon, <2>1, <2>5
    <3>2. slot'[q] = StartedSlot(j)
      BY Zenon, <1>0, <2>5, <3>1
    <3>3. StartedSlot(j).job = j /\ StartedSlot(j).claim = claims[j] + 1 /\ claims'[j] = claims[j] + 1
      BY Zenon, <2>3, StartedFacts
    <3>4. claims[j] + 1 <= claims[j] + 1
      BY <1>0
    <3>5. job'[j].lockedBy = WorkerOf[q]
      BY Zenon, <2>3, <2>4, <2>5
    <3> QED
      BY Zenon, <3>2, <3>3, <3>4, <3>5 DEF Fence
  <2>6. CASE q # s
    <3> DEFINE k == slot[q].job
    <3>1. slot'[q] = slot[q]
      BY Zenon, <1>0, <2>1, <2>6
    <3>2. k \in Jobs /\ Fence(q) /\ slot[q].claim \in Nat /\ claims[k] \in Nat
      BY Zenon, <1>0, <1>1, <3>1 DEF Slot
    <3>3. CASE k \in P
      <4>1. job'[k].lockedBy = WorkerOf[s] /\ claims'[k] = claims[k] + 1
        BY Zenon, <2>3, <2>4, <3>2, <3>3
      <4>2. slot[q].claim <= claims[k]
        BY Zenon, <3>2 DEF Fence
      <4> HIDE DEF k
      <4>3. slot[q].claim <= claims[k] + 1 /\ slot[q].claim # claims[k] + 1
        BY <3>2, <4>2
      <4>4. ~(Alone(q) /\ WorkerOf[s] = WorkerOf[q])
        BY Zenon, <2>6 DEF Alone, SlotsOf
      <4>5. Alone(q)' <=> Alone(q)
        BY Zenon DEF Alone, SlotsOf
      <4> QED
        BY Zenon, <3>1, <4>1, <4>3, <4>4, <4>5 DEF Fence, k
    <3>4. CASE k \notin P
      <4>1. /\ job'[k] = job[k] \/ job'[k] = ReclaimedRow(job[k])
            /\ ReclaimedRow(job[k]).status = "ready"
        BY Zenon, <2>3, <2>4, <3>2, <3>4
      <4>2. job'[k].status = "running" => job'[k] = job[k]
        BY Zenon, <4>1
      <4>3. claims'[k] = claims[k]
        BY Zenon, <2>3, <3>2, <3>4
      <4> QED
        BY Zenon, <3>1, <3>2, <4>2, <4>3, FenceKept
    <3> QED
      BY Zenon, <3>3, <3>4
  <2> QED
    BY <2>5, <2>6
<1>3. ASSUME NEW s \in Slots, heartbeat(s) PROVE Fence(q)'
  <2>1. PICK t \in Nat : ExtendLease(WorkerOf[s], slot[s].job, t)
    BY Zenon, <1>3, HeartbeatFacts
  <2>2. /\ slot[s].job \in Jobs /\ UNCHANGED claims
        /\ slot' = [slot EXCEPT ![s] = [slot[s] EXCEPT !.nextBeat = slot[s].nextBeat + interval]]
    BY Zenon, <1>3, HeartbeatFacts
  <2>3. \A j \in Jobs : job'[j].status = job[j].status /\ job'[j].lockedBy = job[j].lockedBy
    BY SMTT(60), <2>1, <2>2, ExtendFacts, WorkerOfAssumption
  <2>4. slot'[q].pc = slot[q].pc /\ slot'[q].job = slot[q].job /\ slot'[q].claim = slot[q].claim
    BY <1>0, <2>2 DEF Slot
  <2> QED
    BY Zenon, <1>0, <1>1, <2>2, <2>3, <2>4, FenceKept
<1>4. ASSUME NEW s \in Slots, HeartbeatEnds(s) PROVE Fence(q)'
  <2>1. /\ slot' = [slot EXCEPT ![s] = [slot[s] EXCEPT !.beating = FALSE]]
        /\ UNCHANGED <<job, claims>>
    BY <1>0, <1>4 DEF HeartbeatEnds, vars
  <2>2. slot'[q].pc = slot[q].pc /\ slot'[q].job = slot[q].job /\ slot'[q].claim = slot[q].claim
    BY <1>0, <2>1 DEF Slot
  <2> QED
    BY Zenon, <1>1, <2>1, <2>2, FenceKept
<1>5. ASSUME NEW s \in Slots, HandlerReturns(s) PROVE Fence(q)'
  <2>1. PICK r \in {"ok", "error"} : slot' = [slot EXCEPT ![s] = SettlingSlot(s, r)]
    BY Zenon, <1>5, ReturnFacts
  <2>2. slot[s].pc = "running" /\ UNCHANGED <<job, claims>>
    BY Zenon, <1>5, ReturnFacts DEF vars
  <2>3. slot'[q].job = slot[q].job /\ slot'[q].claim = slot[q].claim
    BY <1>0, <2>1 DEF SettlingSlot, Slot
  <2>4. slot[q].pc \in {"running", "settling"}
    BY Zenon, <1>0, <2>1, <2>2
  <2> QED
    BY Zenon, <1>1, <2>2, <2>3, <2>4, FenceKept
<1>6. ASSUME NEW s \in Slots, Settle(s) PROVE Fence(q)'
  <2>1. slot'[q] = slot[q] /\ UNCHANGED claims
    BY Zenon, <1>0, <1>6, SettleFacts, SlotTypes
  <2>2. slot[q].job \in Jobs
    BY Zenon, <1>0, <2>1
  <2>3. job'[slot[q].job].status = "running" => job'[slot[q].job] = job[slot[q].job]
    <3>1. \/ UNCHANGED job
          \/ /\ job'[slot[s].job].status # "running"
             /\ \A k \in Jobs : k # slot[s].job => job'[k] = job[k]
      BY Zenon, <1>6, SettleFacts
    <3> QED
      BY Zenon, <2>2, <3>1
  <2> QED
    BY Zenon, <1>1, <2>1, <2>3, FenceKept
<1>7. ASSUME NEW w \in Workers, Shutdown(w) PROVE Fence(q)'
  BY Zenon, <1>1, <1>7, FenceKept DEF Shutdown, vars
<1>8. CASE Idles
  <2>1. UNCHANGED <<job, claims>> /\ slot'[q] = slot[q]
    BY Zenon, <1>8, IdleFacts DEF vars
  <2> QED
    BY Zenon, <1>1, <2>1, FenceKept
<1>9. ASSUME NEW j \in Jobs, Client(j) PROVE Fence(q)'
  <2>1. UNCHANGED <<claims, slot>> /\ slot[q].job \in Jobs
    BY Zenon, <1>0, <1>9, ClientFacts
  <2>2. job'[slot[q].job].status = "running" => job'[slot[q].job] = job[slot[q].job]
    BY Zenon, <1>9, <2>1, ClientFacts
  <2> QED
    BY Zenon, <1>1, <2>1, <2>2, FenceKept
<1>10. CASE Clock
  BY Zenon, <1>1, <1>10, FenceKept DEF Clock, Tick
<1>11. CASE UNCHANGED poolVars
  BY Zenon, <1>1, <1>11, FenceKept DEF poolVars, vars
<1> QED
  BY Zenon, <1>2, <1>3, <1>4, <1>5, <1>6, <1>7, <1>8, <1>9, <1>10, <1>11, PoolSteps

(* locked_by fences Ack and Nack, however late a heartbeat, a handler or   *)
(* an Ack is, whatever fails, and however many slots share a WorkerID:     *)
(* what a slot settles is never a claim that another worker still holds,   *)
(* and with a Concurrency of one it is the slot's own.                     *)
THEOREM Fencing == PoolSpec => FencedByWorker
<1> DEFINE Apart(s) ==
             Settle(s) /\ job' # job =>
                LET last == claims[slot[s].job]
                IN /\ \A q \in Slots : Busy(q) /\ slot[q].job = slot[s].job /\ slot[q].claim = last
                                       => WorkerOf[q] = WorkerOf[s]
                   /\ SlotsOf(WorkerOf[s]) = {s} => slot[s].claim = last
<1>1. PoolInit => PoolTypeOK /\ Fenced
  <2>1. PoolInit => \A s \in Slots : ~Busy(s)
    BY SMTT(60) DEF PoolInit, Busy, PollingSlot
  <2> QED
    BY Zenon, <2>1, PoolTypeOKInit DEF Fenced
<1>2. PoolTypeOK /\ Fenced /\ [PoolNext]_poolVars => PoolTypeOK' /\ Fenced'
  BY Zenon, PoolTypeOKStep, FencedStep
<1>3. PoolTypeOK /\ Fenced => [\A s \in Slots : Apart(s)]_poolVars
  <2> SUFFICES ASSUME PoolTypeOK, Fenced, NEW s \in Slots, Settle(s), job' # job
               PROVE  Apart(s)
    BY Zenon
  <2>1. /\ Busy(s) /\ job[slot[s].job].status = "running"
        /\ job[slot[s].job].lockedBy = WorkerOf[s]
    BY Zenon, SettleFacts DEF Busy
  <2>2. ASSUME NEW q \in Slots, Busy(q), slot[q].job = slot[s].job, slot[q].claim = claims[slot[s].job]
        PROVE  WorkerOf[q] = WorkerOf[s]
    BY Zenon, <2>1, <2>2 DEF Fenced, Fence
  <2>3. SlotsOf(WorkerOf[s]) = {s} => slot[s].claim = claims[slot[s].job]
    BY Zenon, <2>1 DEF Fenced, Fence, Alone
  <2> QED
    BY Zenon, <2>2, <2>3
<1> QED
  BY <1>1, <1>2, <1>3, PTL DEF PoolSpec, FencedByWorker

-----------------------------------------------------------------------------
(* Exclusion, for punctual slots. *)

(* A lease outlasts the gap between two heartbeats, the time a handler     *)
(* takes to heed its context, and Ack or Nack.                             *)
LongLease == interval + 2 * Lag + HandlerGrace + SettleTimeout <= Lease

(* The job is leased to this slot, by this claim. *)
Owns(s) ==
    /\ job[slot[s].job].status = "running"
    /\ job[slot[s].job].lockedBy = WorkerOf[s]
    /\ job[slot[s].job].lockedUntil \in Nat
    /\ claims[slot[s].job] = slot[s].claim

(* The lease is renewed in time, as long as the heartbeat goroutine has    *)
(* its context; after that the handler soon returns.                       *)
BeatsInTime(s) ==
    /\ slot[s].beating
    /\ slot[s].nextBeat + Lease <= job[slot[s].job].lockedUntil + interval + Lag
    /\ now <= slot[s].nextBeat + Lag \/ \E t \in EndTimes(s) : t <= slot[s].nextBeat + Lag
    /\ \A t \in EndTimes(s) : now <= t + HandlerGrace

(* Ack or Nack takes effect before the lease ends. *)
SettlesInTime(s) == now <= slot[s].settleBy /\ slot[s].settleBy <= job[slot[s].job].lockedUntil

Leased ==
    /\ \A s \in Slots : Busy(s) => Owns(s)
    /\ \A s \in Slots : slot[s].pc = "running" => BeatsInTime(s)
    /\ \A s \in Slots : slot[s].pc = "settling" => SettlesInTime(s)
    /\ \A s, q \in Slots : Busy(s) /\ Busy(q) /\ slot[s].job = slot[q].job => s = q

(* The lease of a busy slot has not expired, and lasts until Ack or Nack.  *)
LEMMA NotExpired ==
    ASSUME LongLease, PoolTypeOK, Leased, NEW s \in Slots, Busy(s)
    PROVE  /\ now <= job[slot[s].job].lockedUntil
           /\ slot[s].pc = "running" => now + SettleTimeout <= job[slot[s].job].lockedUntil
<1>1. now \in Nat /\ slot[s].nextBeat \in Nat /\ slot[s].settleBy \in Nat /\ slot[s].deadline \in Nat
  BY DEF PoolTypeOK, Slot
<1>2. stopping[WorkerOf[s]] \in Nat \cup {NULL}
  BY WorkerOfAssumption DEF PoolTypeOK
<1>3. \A t \in EndTimes(s) : t \in Nat
  BY Zenon, <1>1, <1>2 DEF EndTimes
<1>4. job[slot[s].job].lockedUntil \in Nat
  BY Zenon DEF Leased, Owns
<1>5. CASE slot[s].pc = "running"
  <2>1. /\ slot[s].nextBeat + Lease <= job[slot[s].job].lockedUntil + interval + Lag
        /\ now <= slot[s].nextBeat + Lag \/ \E t \in EndTimes(s) : t <= slot[s].nextBeat + Lag
        /\ \A t \in EndTimes(s) : now <= t + HandlerGrace
    BY Zenon, <1>5 DEF Leased, BeatsInTime
  <2>2. now <= slot[s].nextBeat + Lag + HandlerGrace
    BY SMTT(60), <1>1, <1>3, <2>1, TimesAssumption
  <2>3. interval + 2 * Lag + HandlerGrace + SettleTimeout <= Lease
    BY Zenon DEF LongLease
  <2>4. /\ interval \in Nat /\ Lag \in Nat /\ HandlerGrace \in Nat /\ SettleTimeout \in Nat
        /\ Lease \in Nat
    BY Zenon, TimesAssumption, IntervalType, LeaseAssumption
  <2>5. slot[s].nextBeat + Lease <= job[slot[s].job].lockedUntil + interval + Lag
    BY Zenon, <2>1
  <2> QED
    BY <1>1, <1>4, <2>2, <2>3, <2>4, <2>5
<1>6. CASE slot[s].pc = "settling"
  <2>1. now <= slot[s].settleBy /\ slot[s].settleBy <= job[slot[s].job].lockedUntil
    BY Zenon, <1>6 DEF Leased, SettlesInTime
  <2>2. \A a, b, c \in Nat : a <= b /\ b <= c => a <= c
    OBVIOUS
  <2> QED
    BY Zenon, <1>1, <1>4, <1>6, <2>1, <2>2
<1> QED
  BY Zenon, <1>5, <1>6 DEF Busy

(* A slot that a step leaves alone, together with the row of its job, the  *)
(* clock and the fate of its process, stays as it is.                      *)
LEMMA Frame ==
    ASSUME Leased, NEW q \in Slots, Busy(q)', slot'[q] = slot[q], UNCHANGED now,
           stopping'[WorkerOf[q]] = stopping[WorkerOf[q]],
           claims'[slot[q].job] = claims[slot[q].job], job'[slot[q].job] = job[slot[q].job]
    PROVE  /\ Busy(q) /\ Owns(q)'
           /\ slot'[q].pc = "running" => BeatsInTime(q)'
           /\ slot'[q].pc = "settling" => SettlesInTime(q)'
<1>1. Busy(q)
  BY Zenon DEF Busy
<1>2. Owns(q)'
  <2>1. Owns(q)
    BY Zenon, <1>1 DEF Leased
  <2>2. job'[slot'[q].job] = job[slot[q].job] /\ claims'[slot'[q].job] = claims[slot[q].job]
    OBVIOUS
  <2> QED
    BY Zenon, <2>1, <2>2 DEF Owns
<1>3. EndTimes(q)' = EndTimes(q)
  BY Zenon DEF EndTimes
<1>4. slot'[q].pc = "running" => BeatsInTime(q)'
  BY Zenon, <1>3 DEF Leased, BeatsInTime
<1>5. slot'[q].pc = "settling" => SettlesInTime(q)'
  BY Zenon DEF Leased, SettlesInTime
<1> QED
  BY Zenon, <1>1, <1>2, <1>4, <1>5

(* The slot that has just claimed a job. *)
LEMMA ClaimLeased ==
    ASSUME LongLease, PoolTypeOK, Leased, NEW s \in Slots, Poll(s) \/ ClaimLost(s)
    PROVE  Leased'
<1>0. /\ now \in Nat /\ job \in [Jobs -> Row] /\ claims \in [Jobs -> Nat] /\ slot \in [Slots -> Slot]
      /\ \A q \in Slots : Busy(q) => slot[q].job \in Jobs
  BY DEF PoolTypeOK
<1>1. PICK t \in StartTimes, P \in SUBSET Jobs :
            /\ Claim(WorkerOf[s], t, P)
            /\ slot[s].pc = "polling" /\ UNCHANGED stopping
            /\ \/ UNCHANGED slot
               \/ /\ stopping[WorkerOf[s]] = NULL
                  /\ \E j \in P : slot' = [slot EXCEPT ![s] = StartedSlot(j)]
  BY Zenon, PollFacts
<1>2. WorkerOf[s] \in Workers /\ t \in Nat /\ t <= now /\ now - t <= Lag
  BY WorkerOfAssumption, Times
<1>3. /\ UNCHANGED now
      /\ \A j \in Jobs : IF j \in P
                         THEN /\ job[j].status = "ready" \/ Expired(job[j], t)
                              /\ job'[j] = ClaimedRow(job[j], WorkerOf[s], t)
                              /\ claims'[j] = claims[j] + 1
                         ELSE /\ job'[j] = IF Expired(job[j], t) THEN ReclaimedRow(job[j]) ELSE job[j]
                              /\ claims'[j] = claims[j]
  BY ZenonT(60), <1>1, <1>2, ClaimFacts
<1>4. \A q \in Slots : Busy(q) => ~Expired(job[slot[q].job], t) /\ slot[q].job \notin P
  <2> SUFFICES ASSUME NEW q \in Slots, Busy(q)
               PROVE  ~Expired(job[slot[q].job], t) /\ slot[q].job \notin P
    BY Zenon
  <2>1. /\ job[slot[q].job].status = "running" /\ job[slot[q].job].lockedUntil \in Nat
        /\ now <= job[slot[q].job].lockedUntil
    BY Zenon, NotExpired DEF Leased, Owns
  <2>2. ~Expired(job[slot[q].job], t)
    BY SMTT(60), <1>0, <1>2, <2>1 DEF Expired
  <2> QED
    BY Zenon, <1>0, <1>3, <2>1, <2>2
<1>5. \A q \in Slots : Busy(q) => /\ job'[slot[q].job] = job[slot[q].job]
                                  /\ claims'[slot[q].job] = claims[slot[q].job]
  BY Zenon, <1>0, <1>3, <1>4
<1>6. ~Busy(s)
  BY Zenon, <1>1 DEF Busy
<1>7. CASE UNCHANGED slot
  <2>1. \A q \in Slots : Busy(q)' => Busy(q)
    BY Zenon, <1>7 DEF Busy
  <2>2. \A q \in Slots : Busy(q)' =>
          /\ Owns(q)'
          /\ slot'[q].pc = "running" => BeatsInTime(q)'
          /\ slot'[q].pc = "settling" => SettlesInTime(q)'
    BY Zenon, <1>1, <1>3, <1>5, <1>7, <2>1, Frame
  <2> QED
    BY Zenon, <1>7, <2>1, <2>2 DEF Leased, Busy
<1>8. ASSUME NEW j \in P, slot' = [slot EXCEPT ![s] = StartedSlot(j)], stopping[WorkerOf[s]] = NULL
      PROVE  Leased'
  <2>1. /\ slot'[s] = StartedSlot(j)
        /\ \A q \in Slots : q # s => slot'[q] = slot[q]
    BY Zenon, <1>0, <1>8
  <2>2. /\ slot'[s].pc = "running" /\ slot'[s].job = j /\ slot'[s].beating
        /\ slot'[s].claim = claims[j] + 1
        /\ slot'[s].nextBeat = now + interval /\ slot'[s].deadline = now + JobTimeout
    BY SMTT(60), <2>1, StartedFacts
  <2>3. /\ job'[j].status = "running" /\ job'[j].lockedBy = WorkerOf[s]
        /\ job'[j].lockedUntil = t + Lease
    BY ZenonT(60), <1>0, <1>3 DEF ClaimedRow, Row
  <2>4. Owns(s)'
    <3>1. t + Lease \in Nat
      BY <1>2, LeaseAssumption
    <3>2. claims'[j] = claims[j] + 1
      BY Zenon, <1>3
    <3> QED
      BY Zenon, <2>2, <2>3, <3>1, <3>2 DEF Owns
  <2>5. BeatsInTime(s)'
    <3>1. now' = now /\ stopping'[WorkerOf[s]] = NULL
      BY Zenon, <1>1, <1>3, <1>8
    <3>2. \A e \in EndTimes(s)' : e = now + JobTimeout
      BY Zenon, <2>2, <3>1 DEF EndTimes
    <3>3. \A e \in EndTimes(s)' : now' <= e + HandlerGrace
      <4>1. now <= now + JobTimeout + HandlerGrace
        BY <1>0, TimesAssumption
      <4> QED
        BY Zenon, <3>1, <3>2, <4>1
    <3>4. slot'[s].nextBeat + Lease <= job'[slot'[s].job].lockedUntil + interval + Lag
      <4>1. now + interval + Lease <= t + Lease + interval + Lag
        BY <1>0, <1>2, TimesAssumption, IntervalType, LeaseAssumption
      <4> QED
        BY Zenon, <2>2, <2>3, <4>1
    <3>5. now' <= slot'[s].nextBeat + Lag
      <4>1. now <= now + interval + Lag
        BY <1>0, TimesAssumption, IntervalType
      <4> QED
        BY Zenon, <2>2, <3>1, <4>1
    <3> QED
      BY Zenon, <2>2, <3>3, <3>4, <3>5 DEF BeatsInTime
  <2>6. \A q \in Slots : q # s /\ Busy(q)' =>
          /\ Busy(q)
          /\ Owns(q)'
          /\ slot'[q].pc = "running" => BeatsInTime(q)'
          /\ slot'[q].pc = "settling" => SettlesInTime(q)'
    <3> SUFFICES ASSUME NEW q \in Slots, q # s, Busy(q)'
                 PROVE  /\ Busy(q)
                        /\ Owns(q)'
                        /\ slot'[q].pc = "running" => BeatsInTime(q)'
                        /\ slot'[q].pc = "settling" => SettlesInTime(q)'
      BY Zenon
    <3>1. slot'[q] = slot[q] /\ Busy(q)
      BY Zenon, <2>1 DEF Busy
    <3> QED
      BY Zenon, <1>1, <1>3, <1>5, <3>1, Frame
  <2>7. \A q \in Slots : q # s /\ Busy(q)' => slot'[q].job # slot'[s].job
    BY Zenon, <1>4, <2>1, <2>2, <2>6
  <2>8. \A q, r \in Slots : Busy(q)' /\ Busy(r)' /\ slot'[q].job = slot'[r].job => q = r
    BY Zenon, <2>1, <2>6, <2>7 DEF Leased
  <2> QED
    BY Zenon, <2>2, <2>4, <2>5, <2>6, <2>8 DEF Leased, Busy
<1> QED
  BY Zenon, <1>1, <1>7, <1>8

(* A heartbeat renews the lease of the slot that owns the job. *)
LEMMA HeartbeatLeased ==
    ASSUME PoolTypeOK, Leased, NEW s \in Slots, heartbeat(s)
    PROVE  Leased'
<1>0. /\ now \in Nat /\ slot \in [Slots -> Slot] /\ \A q \in Slots : Busy(q) => slot[q].job \in Jobs
  BY Zenon DEF PoolTypeOK
<1>1. PICK t \in Nat : /\ slot[s].nextBeat <= t /\ t <= now
                       /\ ExtendLease(WorkerOf[s], slot[s].job, t)
  BY Zenon, HeartbeatFacts
<1>2. /\ slot[s].pc = "running" /\ slot[s].job \in Jobs /\ UNCHANGED <<claims, stopping>>
      /\ slot' = [slot EXCEPT ![s] = [slot[s] EXCEPT !.nextBeat = slot[s].nextBeat + interval]]
  BY Zenon, HeartbeatFacts DEF BeatDue
<1>3. /\ slot'[s].pc = "running" /\ slot'[s].job = slot[s].job /\ slot'[s].claim = slot[s].claim
      /\ slot'[s].beating = slot[s].beating /\ slot'[s].deadline = slot[s].deadline
      /\ slot'[s].nextBeat = slot[s].nextBeat + interval
  BY <1>0, <1>2 DEF Slot
<1>4. /\ UNCHANGED now
      /\ job'[slot[s].job].status = job[slot[s].job].status
      /\ job'[slot[s].job].lockedBy = job[slot[s].job].lockedBy
      /\ job'[slot[s].job].lockedUntil = t + Lease
      /\ \A k \in Jobs : k # slot[s].job => job'[k] = job[k]
  BY <1>1, <1>2, ExtendFacts, WorkerOfAssumption
<1>5. Busy(s) /\ Owns(s) /\ BeatsInTime(s)
  BY <1>2 DEF Leased, Busy
<1>6. Owns(s)'
  <2>1. t + Lease \in Nat
    BY LeaseAssumption
  <2>2. /\ job'[slot'[s].job].status = job[slot[s].job].status
        /\ job'[slot'[s].job].lockedBy = job[slot[s].job].lockedBy
        /\ job'[slot'[s].job].lockedUntil = t + Lease
        /\ claims'[slot'[s].job] = claims[slot[s].job]
    BY Zenon, <1>2, <1>3, <1>4
  <2> QED
    BY Zenon, <1>3, <1>5, <2>1, <2>2 DEF Owns
<1>7. BeatsInTime(s)'
  <2>1. slot[s].nextBeat \in Nat /\ slot[s].deadline \in Nat
    BY Zenon, <1>0 DEF Slot
  <2>2. stopping[WorkerOf[s]] \in Nat \cup {NULL}
    BY WorkerOfAssumption DEF PoolTypeOK
  <2>3. EndTimes(s)' = EndTimes(s) /\ \A e \in EndTimes(s) : e \in Nat
    BY <1>2, <1>3, <1>4, <2>1, <2>2 DEF EndTimes
  <2>4. now' <= slot'[s].nextBeat + Lag \/ \E e \in EndTimes(s)' : e <= slot'[s].nextBeat + Lag
    <3>1. \A n, b, i, l \in Nat : n <= b + l => n <= b + i + l
      OBVIOUS
    <3>2. interval \in Nat /\ Lag \in Nat
      BY TimesAssumption, IntervalType
    <3>3. now <= slot[s].nextBeat + Lag \/ \E e \in EndTimes(s) : e <= slot[s].nextBeat + Lag
      BY Zenon, <1>5 DEF BeatsInTime
    <3>4. ASSUME NEW n \in Nat, n <= slot[s].nextBeat + Lag PROVE n <= slot'[s].nextBeat + Lag
      BY Zenon, <1>3, <2>1, <3>1, <3>2, <3>4
    <3> QED
      BY Zenon, <1>0, <1>4, <2>3, <3>3, <3>4
  <2>5. slot'[s].nextBeat + Lease <= job'[slot'[s].job].lockedUntil + interval + Lag
    <3>1. \A b, u, i, l, g \in Nat : b <= u => b + i + l <= u + l + i + g
      OBVIOUS
    <3>2. interval \in Nat /\ Lag \in Nat /\ Lease \in Nat
      BY TimesAssumption, IntervalType, LeaseAssumption
    <3>3. slot[s].nextBeat + interval + Lease <= t + Lease + interval + Lag
      BY Zenon, <1>1, <2>1, <3>1, <3>2
    <3> QED
      BY Zenon, <1>3, <1>4, <3>3
  <2>6. \A e \in EndTimes(s)' : now' <= e + HandlerGrace
    BY Zenon, <1>4, <1>5, <2>3 DEF BeatsInTime
  <2> QED
    BY Zenon, <1>3, <1>5, <2>4, <2>5, <2>6 DEF BeatsInTime
<1>8. \A q \in Slots : q # s => slot'[q] = slot[q]
  BY <1>0, <1>2
<1>9. ASSUME NEW q \in Slots, q # s, Busy(q)'
      PROVE  /\ Busy(q) /\ Owns(q)'
             /\ slot'[q].pc = "running" => BeatsInTime(q)'
             /\ slot'[q].pc = "settling" => SettlesInTime(q)'
  <2>1. Busy(q) /\ slot[q].job \in Jobs
    BY Zenon, <1>0, <1>8, <1>9 DEF Busy
  <2>2. slot[q].job # slot[s].job
    BY Zenon, <1>5, <1>9, <2>1 DEF Leased
  <2> QED
    BY Zenon, <1>2, <1>4, <1>8, <1>9, <2>1, <2>2, Frame
<1>10. \A q, r \in Slots : Busy(q)' /\ Busy(r)' /\ slot'[q].job = slot'[r].job => q = r
  BY Zenon, <1>3, <1>5, <1>8, <1>9 DEF Leased
<1> QED
  BY Zenon, <1>3, <1>6, <1>7, <1>9, <1>10 DEF Leased, Busy

(* When the handler returns, enough of the lease is left for Ack or Nack. *)
LEMMA ReturnLeased ==
    ASSUME LongLease, PoolTypeOK, Leased, NEW s \in Slots, HandlerReturns(s)
    PROVE  Leased'
<1>0. now \in Nat /\ slot \in [Slots -> Slot]
  BY DEF PoolTypeOK
<1>1. PICK r \in {"ok", "error"} : slot' = [slot EXCEPT ![s] = SettlingSlot(s, r)]
  BY ReturnFacts
<1>2. slot[s].pc = "running" /\ UNCHANGED <<now, job, claims, stopping>>
  BY ReturnFacts DEF vars
<1>3. /\ slot'[s].pc = "settling" /\ slot'[s].job = slot[s].job /\ slot'[s].claim = slot[s].claim
      /\ slot'[s].settleBy = now + SettleTimeout
  BY <1>0, <1>1 DEF SettlingSlot, Slot
<1>4. Busy(s) /\ Owns(s)
  BY Zenon, <1>2 DEF Leased, Busy
<1>5. Owns(s)'
  BY Zenon, <1>2, <1>3, <1>4 DEF Owns
<1>6. now + SettleTimeout <= job[slot[s].job].lockedUntil
  BY Zenon, <1>2, <1>4, NotExpired
<1>7. SettlesInTime(s)'
  BY SMTT(60), <1>0, <1>2, <1>3, <1>6, TimesAssumption DEF SettlesInTime
<1>8. \A q \in Slots : q # s => slot'[q] = slot[q]
  BY <1>0, <1>1
<1>9. ASSUME NEW q \in Slots, q # s, Busy(q)'
      PROVE  /\ Busy(q) /\ Owns(q)'
             /\ slot'[q].pc = "running" => BeatsInTime(q)'
             /\ slot'[q].pc = "settling" => SettlesInTime(q)'
  BY Zenon, <1>2, <1>8, <1>9, Frame
<1>10. \A q, p \in Slots : Busy(q)' /\ Busy(p)' /\ slot'[q].job = slot'[p].job => q = p
  <2>1. \A q \in Slots : Busy(q)' => Busy(q) /\ slot'[q].job = slot[q].job
    BY Zenon, <1>3, <1>4, <1>8, <1>9
  <2> QED
    BY Zenon, <2>1 DEF Leased
<1> QED
  BY Zenon, <1>3, <1>5, <1>7, <1>9, <1>10 DEF Leased, Busy

(* Ack and Nack touch the job of the slot that ends. *)
LEMMA SettleLeased ==
    ASSUME PoolTypeOK, Leased, NEW s \in Slots, Settle(s)
    PROVE  Leased'
<1>0. slot \in [Slots -> Slot] /\ \A q \in Slots : Busy(q) => slot[q].job \in Jobs
  BY DEF PoolTypeOK
<1>1. /\ slot[s].pc = "settling" /\ slot' = [slot EXCEPT ![s] = PollingSlot]
      /\ UNCHANGED <<now, claims, stopping>>
      /\ \A k \in Jobs : k # slot[s].job => job'[k] = job[k]
  BY Zenon, SettleFacts
<1>2. ~Busy(s)' /\ Busy(s)
  BY Zenon, <1>0, <1>1, SlotTypes DEF Busy
<1>3. ASSUME NEW q \in Slots, Busy(q)'
      PROVE  /\ Busy(q) /\ Owns(q)' /\ slot'[q] = slot[q]
             /\ slot'[q].pc = "running" => BeatsInTime(q)'
             /\ slot'[q].pc = "settling" => SettlesInTime(q)'
  <2>1. q # s
    BY Zenon, <1>2, <1>3
  <2>2. slot'[q] = slot[q]
    BY Zenon, <1>0, <1>1, <2>1
  <2>3. Busy(q) /\ slot[q].job \in Jobs
    BY Zenon, <1>0, <1>3, <2>2 DEF Busy
  <2>4. slot[q].job # slot[s].job
    BY Zenon, <1>2, <2>1, <2>3 DEF Leased
  <2> QED
    BY Zenon, <1>1, <1>3, <2>2, <2>3, <2>4, Frame
<1> QED
  BY Zenon, <1>3 DEF Leased, Busy

(* A shutdown ends the contexts of the slots: their handlers have the      *)
(* grace from now.                                                         *)
LEMMA ShutdownLeased ==
    ASSUME PoolTypeOK, Leased, NEW w \in Workers, Shutdown(w)
    PROVE  Leased'
<1>0. now \in Nat /\ slot \in [Slots -> Slot] /\ stopping \in [Workers -> Nat \cup {NULL}]
  BY DEF PoolTypeOK
<1>1. /\ stopping[w] = NULL /\ stopping' = [stopping EXCEPT ![w] = now]
      /\ UNCHANGED <<now, job, claims, slot>>
  BY DEF Shutdown, vars
<1>2. ASSUME NEW q \in Slots, slot[q].pc = "running" PROVE BeatsInTime(q)'
  <2>1. WorkerOf[q] \in Workers
    BY WorkerOfAssumption
  <2>2. EndTimes(q)' \subseteq EndTimes(q) \cup {now} /\ EndTimes(q) \subseteq EndTimes(q)'
    BY Zenon, <1>0, <1>1, <2>1 DEF EndTimes
  <2>3. BeatsInTime(q)
    BY Zenon, <1>2 DEF Leased
  <2>4. now <= now + HandlerGrace
    BY <1>0, TimesAssumption
  <2> QED
    BY Zenon, <1>1, <2>2, <2>3, <2>4 DEF BeatsInTime
<1>3. \A q \in Slots : /\ Busy(q)' <=> Busy(q)
                       /\ Owns(q)' <=> Owns(q)
                       /\ SettlesInTime(q)' <=> SettlesInTime(q)
  BY Zenon, <1>1 DEF Busy, Owns, SettlesInTime
<1> QED
  BY Zenon, <1>1, <1>2, <1>3 DEF Leased

(* The clock waits for heartbeats, handlers, Acks and Nacks. *)
LEMMA ClockLeased ==
    ASSUME Punctual, PoolTypeOK, Leased, Clock
    PROVE  Leased'
<1>0. now \in Nat /\ slot \in [Slots -> Slot] /\ stopping \in [Workers -> Nat \cup {NULL}]
  BY Zenon DEF PoolTypeOK
<1>1. /\ now' = now + 1 /\ UNCHANGED <<job, claims, slot, stopping>>
      /\ \A q \in Slots : OnTime(q)
  BY DEF Clock, Tick
<1>2. ASSUME NEW q \in Slots, slot[q].pc = "running" PROVE BeatsInTime(q)'
  <2>1. slot[q].deadline \in Nat /\ slot[q].nextBeat \in Nat /\ stopping[WorkerOf[q]] \in Nat \cup {NULL}
    BY Zenon, <1>0, WorkerOfAssumption DEF Slot
  <2>2. /\ EndTimes(q) \subseteq EndTimes(q)'
        /\ \A t \in EndTimes(q)' : t \in Nat /\ (t \in EndTimes(q) \/ t = now + 1)
    BY SMTT(60), <1>0, <1>1, <2>1 DEF EndTimes
  <2>3. \A t \in EndTimes(q) : t <= now /\ t \in Nat
    BY Zenon, <1>0, <2>1 DEF EndTimes
  <2>4. BeatsInTime(q)
    BY Zenon, <1>2 DEF Leased
  <2>5. EndTimes(q) = {} => now < slot[q].nextBeat + Lag
    BY Zenon, <1>1, <1>2, <2>4 DEF OnTime, ContextDone, BeatsInTime
  <2>6. \A t \in EndTimes(q) : now < t + HandlerGrace
    BY Zenon, <1>1, <1>2 DEF OnTime
  <2>7. \A t \in EndTimes(q)' : now' <= t + HandlerGrace
    BY SMTT(60), <1>0, <1>1, <2>2, <2>3, <2>6, TimesAssumption
  <2>8. now' <= slot[q].nextBeat + Lag \/ \E t \in EndTimes(q)' : t <= slot[q].nextBeat + Lag
    <3>1. CASE EndTimes(q) = {}
      BY SMTT(60), <1>0, <1>1, <2>1, <2>5, <3>1, TimesAssumption
    <3>2. CASE EndTimes(q) # {}
      <4>1. \E t \in EndTimes(q) : t <= slot[q].nextBeat + Lag
        BY SMTT(60), <1>0, <2>1, <2>3, <2>4, <3>2, TimesAssumption DEF BeatsInTime
      <4> QED
        BY Zenon, <2>2, <4>1
    <3> QED
      BY Zenon, <3>1, <3>2
  <2> QED
    BY Zenon, <1>1, <2>4, <2>7, <2>8 DEF BeatsInTime
<1>3. ASSUME NEW q \in Slots, slot[q].pc = "settling" PROVE SettlesInTime(q)'
  <2>1. slot[q].settleBy \in Nat /\ now < slot[q].settleBy
    BY Zenon, <1>0, <1>1, <1>3 DEF OnTime, Slot
  <2>2. slot[q].settleBy <= job[slot[q].job].lockedUntil
    BY Zenon, <1>3 DEF Leased, SettlesInTime
  <2> QED
    BY SMTT(60), <1>0, <1>1, <2>1, <2>2 DEF SettlesInTime
<1>4. \A q \in Slots : (Busy(q)' <=> Busy(q)) /\ (Owns(q)' <=> Owns(q))
  BY Zenon, <1>1 DEF Busy, Owns
<1> QED
  BY Zenon, <1>1, <1>2, <1>3, <1>4 DEF Leased

(* Every step of punctual slots keeps the leases. *)
LEMMA LeasedStep ==
    ASSUME Punctual, LongLease, PoolTypeOK, Leased, [PoolNext]_poolVars
    PROVE  Leased'
<1>1. ASSUME NEW s \in Slots, HeartbeatEnds(s) PROVE FALSE
  BY Zenon, <1>1 DEF HeartbeatEnds, BeatDue, Leased, Busy, Owns
<1>2. CASE Idles
  <2>1. ASSUME NEW q \in Slots, Busy(q)'
        PROVE  /\ Busy(q) /\ Owns(q)' /\ slot'[q] = slot[q]
               /\ slot'[q].pc = "running" => BeatsInTime(q)'
               /\ slot'[q].pc = "settling" => SettlesInTime(q)'
    <3>1. slot'[q] = slot[q] /\ stopping'[WorkerOf[q]] = stopping[WorkerOf[q]]
      BY Zenon, <1>2, <2>1, IdleFacts DEF Busy
    <3>2. UNCHANGED <<now, job, claims>>
      BY Zenon, <1>2, IdleFacts DEF vars
    <3> QED
      BY Zenon, <2>1, <3>1, <3>2, Frame
  <2> QED
    BY Zenon, <2>1 DEF Leased, Busy
<1>3. ASSUME NEW j \in Jobs, Client(j) PROVE Leased'
  <2>1. /\ UNCHANGED <<now, claims, slot, stopping>> /\ job[j].status # "running"
        /\ \A k \in Jobs : k # j => job'[k] = job[k]
    BY Zenon, <1>3, ClientFacts
  <2>2. ASSUME NEW q \in Slots, Busy(q)'
        PROVE  /\ Busy(q) /\ Owns(q)'
               /\ slot'[q].pc = "running" => BeatsInTime(q)'
               /\ slot'[q].pc = "settling" => SettlesInTime(q)'
    <3>1. Busy(q) /\ slot[q].job \in Jobs
      BY Zenon, <2>1, <2>2 DEF Busy, PoolTypeOK
    <3>2. slot[q].job # j
      BY ZenonT(60), <2>1, <3>1 DEF Leased, Owns
    <3> QED
      BY Zenon, <2>1, <2>2, <3>1, <3>2, Frame
  <2> QED
    BY Zenon, <2>1, <2>2 DEF Leased, Busy
<1>4. CASE UNCHANGED poolVars
  <2>1. UNCHANGED <<now, job, claims, slot, stopping>>
    BY <1>4 DEF poolVars, vars
  <2>2. \A q \in Slots : EndTimes(q)' = EndTimes(q)
    BY Zenon, <2>1 DEF EndTimes
  <2> QED
    BY ZenonT(60), <2>1, <2>2 DEF Leased, Busy, Owns, BeatsInTime, SettlesInTime
<1> QED
  BY Zenon, <1>1, <1>2, <1>3, <1>4, PoolSteps, ClaimLeased, HeartbeatLeased, ReturnLeased, SettleLeased,
     ShutdownLeased, ClockLeased

(* No job is executed by two slots at the same time, and Ack and Nack      *)
(* settle the slot's own claim, even when all slots of a process share its *)
(* WorkerID: if heartbeats and handlers are punctual and a lease is longer *)
(* than LongLease asks for.                                                *)
THEOREM Exclusion ==
    ASSUME Punctual, LongLease
    PROVE  PoolSpec => []ExclusiveExecution /\ SettlesOwnClaim
<1>1. PoolInit => PoolTypeOK /\ Leased
  <2>1. PoolInit => Leased
    <3>1. PoolInit => \A s \in Slots : slot[s].pc = "polling"
      BY SlotTypes DEF PoolInit
    <3> QED
      BY Zenon, <3>1 DEF Leased, Busy
  <2> QED
    BY <2>1, PoolTypeOKInit
<1>2. PoolTypeOK /\ Leased /\ [PoolNext]_poolVars => PoolTypeOK' /\ Leased'
  BY PoolTypeOKStep, LeasedStep
<1>3. PoolTypeOK /\ Leased => ExclusiveExecution
  BY Zenon DEF Leased, ExclusiveExecution, Busy
<1>4. PoolTypeOK /\ Leased =>
        [\A s \in Slots : Settle(s) /\ job' # job => slot[s].claim = claims[slot[s].job]]_poolVars
  <2> SUFFICES ASSUME PoolTypeOK, Leased, NEW s \in Slots, Settle(s), job' # job
               PROVE  slot[s].claim = claims[slot[s].job]
    BY Zenon
  <2> QED
    BY ZenonT(60), SettleFacts DEF Leased, Owns, Busy
<1> QED
  BY <1>1, <1>2, <1>3, <1>4, PTL DEF PoolSpec, SettlesOwnClaim

-----------------------------------------------------------------------------
(* A lease has a slot: a process that is told to stop drains its slots in  *)
(* the grace it has, and they settle what they have claimed.               *)

(* The grace of the process outlasts those of a handler and of Ack or Nack. *)
LongGrace == HandlerGrace + SettleTimeout < ShutdownGrace

(* How long slot s may still be busy. *)
Drains(s) ==
    /\ slot[s].pc = "settling" => now <= slot[s].settleBy /\ slot[s].settleBy <= now + SettleTimeout
    /\ Busy(s) /\ stopping[WorkerOf[s]] # NULL =>
          /\ stopping[WorkerOf[s]] <= now
          /\ slot[s].pc = "running" => now <= stopping[WorkerOf[s]] + HandlerGrace
          /\ slot[s].pc = "settling" =>
                slot[s].settleBy <= stopping[WorkerOf[s]] + HandlerGrace + SettleTimeout

(* Slot s executes or settles the claim that job j is leased to. *)
Serves(s, j) ==
    /\ Busy(s)
    /\ slot[s].job = j /\ slot[s].claim = claims[j]
    /\ job[j].lockedBy = WorkerOf[s]

Served == faults = 0 => \A j \in Jobs : job[j].status = "running" => \E s \in Slots : Serves(s, j)

(* A slot that is left alone at the same time drains as it did. *)
LEMMA DrainsFrame ==
    ASSUME NEW q \in Slots, Drains(q), UNCHANGED now,
           slot'[q].pc = slot[q].pc, slot'[q].settleBy = slot[q].settleBy,
           stopping'[WorkerOf[q]] = stopping[WorkerOf[q]]
    PROVE  Drains(q)'
  BY Zenon DEF Drains, Busy

(* Every step of punctual slots keeps the bounds on draining. *)
LEMMA DrainsStep ==
    ASSUME Punctual, PoolTypeOK, \A s \in Slots : Drains(s), [PoolNext]_poolVars, NEW q \in Slots
    PROVE  Drains(q)'
<1>0. /\ now \in Nat /\ slot \in [Slots -> Slot] /\ stopping \in [Workers -> Nat \cup {NULL}]
      /\ slot[q].settleBy \in Nat /\ stopping[WorkerOf[q]] \in Nat \cup {NULL}
  BY WorkerOfAssumption DEF PoolTypeOK, Slot
<1>1. Drains(q)
  OBVIOUS
<1>2. ASSUME NEW s \in Slots, Poll(s) \/ ClaimLost(s) PROVE Drains(q)'
  <2>1. PICK t \in StartTimes, P \in SUBSET Jobs :
              /\ Claim(WorkerOf[s], t, P)
              /\ slot[s].pc = "polling" /\ UNCHANGED stopping
              /\ \/ UNCHANGED slot
                 \/ /\ stopping[WorkerOf[s]] = NULL
                    /\ \E j \in P : slot' = [slot EXCEPT ![s] = StartedSlot(j)]
    BY Zenon, <1>2, PollFacts
  <2>2. WorkerOf[s] \in Workers /\ t \in Nat
    BY WorkerOfAssumption, Times
  <2>3. UNCHANGED now
    BY Zenon, <2>1, <2>2, ClaimFacts
  <2>4. CASE slot'[q] = slot[q]
    BY Zenon, <1>1, <2>1, <2>3, <2>4, DrainsFrame
  <2>5. CASE slot'[q] # slot[q]
    <3>1. PICK j \in P : slot' = [slot EXCEPT ![s] = StartedSlot(j)]
      BY Zenon, <2>1, <2>5
    <3>2. q = s /\ slot'[q] = StartedSlot(j) /\ stopping'[WorkerOf[q]] = NULL
      BY Zenon, <1>0, <2>1, <2>5, <3>1
    <3>3. j \in Jobs /\ slot'[q].pc = "running"
      <4>1. j \in Jobs
        BY Zenon
      <4>2. StartedSlot(j).pc = "running"
        BY Zenon, <4>1, StartedFacts
      <4> QED
        BY Zenon, <3>2, <4>1, <4>2
    <3> QED
      BY Zenon, <3>2, <3>3 DEF Drains, Busy
  <2> QED
    BY <2>4, <2>5
<1>3. ASSUME NEW s \in Slots, heartbeat(s) PROVE Drains(q)'
  <2>1. PICK t \in Nat : ExtendLease(WorkerOf[s], slot[s].job, t)
    BY Zenon, <1>3, HeartbeatFacts
  <2>2. /\ slot[s].job \in Jobs /\ UNCHANGED stopping
        /\ slot' = [slot EXCEPT ![s] = [slot[s] EXCEPT !.nextBeat = slot[s].nextBeat + interval]]
    BY Zenon, <1>3, HeartbeatFacts
  <2>3. UNCHANGED now
    BY Zenon, <2>1, <2>2, ExtendFacts, WorkerOfAssumption
  <2>4. slot'[q].pc = slot[q].pc /\ slot'[q].settleBy = slot[q].settleBy
    BY <1>0, <2>2 DEF Slot
  <2> QED
    BY Zenon, <1>1, <2>2, <2>3, <2>4, DrainsFrame
<1>4. ASSUME NEW s \in Slots, HeartbeatEnds(s) PROVE Drains(q)'
  <2>1. /\ slot' = [slot EXCEPT ![s] = [slot[s] EXCEPT !.beating = FALSE]]
        /\ UNCHANGED <<now, stopping>>
    BY <1>0, <1>4 DEF HeartbeatEnds, vars
  <2>2. slot'[q].pc = slot[q].pc /\ slot'[q].settleBy = slot[q].settleBy
    BY <1>0, <2>1 DEF Slot
  <2> QED
    BY Zenon, <1>1, <2>1, <2>2, DrainsFrame
<1>5. ASSUME NEW s \in Slots, HandlerReturns(s) PROVE Drains(q)'
  <2>1. PICK r \in {"ok", "error"} : slot' = [slot EXCEPT ![s] = SettlingSlot(s, r)]
    BY Zenon, <1>5, ReturnFacts
  <2>2. slot[s].pc = "running" /\ UNCHANGED <<now, stopping>>
    BY Zenon, <1>5, ReturnFacts DEF vars
  <2>3. CASE q = s
    <3>1. slot'[q].pc = "settling" /\ slot'[q].settleBy = now + SettleTimeout
      BY <1>0, <2>1, <2>3 DEF SettlingSlot, Slot
    <3>2. stopping[WorkerOf[q]] # NULL => /\ stopping[WorkerOf[q]] \in Nat
                                          /\ stopping[WorkerOf[q]] <= now
                                          /\ now <= stopping[WorkerOf[q]] + HandlerGrace
      BY Zenon, <1>0, <1>1, <2>2, <2>3 DEF Drains, Busy
    <3>3. stopping[WorkerOf[q]] # NULL =>
            now + SettleTimeout <= stopping[WorkerOf[q]] + HandlerGrace + SettleTimeout
      BY SMTT(60), <1>0, <3>2, TimesAssumption
    <3>4. now <= now + SettleTimeout /\ now + SettleTimeout <= now + SettleTimeout
      BY <1>0, TimesAssumption
    <3>5. stopping'[WorkerOf[q]] = stopping[WorkerOf[q]] /\ now' = now
      BY Zenon, <2>2
    <3> QED
      BY Zenon, <3>1, <3>2, <3>3, <3>4, <3>5 DEF Drains
  <2>4. CASE q # s
    <3>1. slot'[q] = slot[q]
      BY Zenon, <1>0, <2>1, <2>4
    <3> QED
      BY Zenon, <1>1, <2>2, <3>1, DrainsFrame
  <2> QED
    BY <2>3, <2>4
<1>6. ASSUME NEW s \in Slots, Settle(s) PROVE Drains(q)'
  <2>1. slot' = [slot EXCEPT ![s] = PollingSlot] /\ UNCHANGED <<now, stopping>>
    BY Zenon, <1>6, SettleFacts
  <2>2. slot'[q] = slot[q] \/ slot'[q] = PollingSlot
    BY Zenon, <1>0, <2>1
  <2>3. CASE slot'[q] = PollingSlot
    BY Zenon, <2>3, SlotTypes DEF Drains, Busy
  <2> QED
    BY Zenon, <1>1, <2>1, <2>2, <2>3, DrainsFrame
<1>7. ASSUME NEW w \in Workers, Shutdown(w) PROVE Drains(q)'
  <2>1. stopping' = [stopping EXCEPT ![w] = now] /\ UNCHANGED <<now, slot>>
    BY <1>7 DEF Shutdown, vars
  <2>2. CASE WorkerOf[q] = w
    <3>1. stopping'[WorkerOf[q]] = now
      BY Zenon, <1>0, <2>1, <2>2
    <3>2. slot[q].pc = "settling" => /\ now <= slot[q].settleBy
                                     /\ slot[q].settleBy <= now + SettleTimeout
      BY Zenon, <1>1 DEF Drains
    <3>3. /\ now <= now /\ now <= now + HandlerGrace
          /\ slot[q].settleBy <= now + SettleTimeout =>
               slot[q].settleBy <= now + HandlerGrace + SettleTimeout
      BY SMTT(60), <1>0, TimesAssumption
    <3> QED
      BY Zenon, <2>1, <3>1, <3>2, <3>3 DEF Drains, Busy
  <2>3. CASE WorkerOf[q] # w
    <3>1. stopping'[WorkerOf[q]] = stopping[WorkerOf[q]]
      BY Zenon, <1>0, <2>1, <2>3, WorkerOfAssumption
    <3> QED
      BY Zenon, <1>1, <2>1, <3>1, DrainsFrame
  <2> QED
    BY <2>2, <2>3
<1>8. CASE Idles
  <2>1. UNCHANGED now
    BY Zenon, <1>8, IdleFacts DEF vars
  <2>2. CASE slot'[q].pc \in {"polling", "stopped"}
    BY Zenon, <2>2 DEF Drains, Busy
  <2> QED
    BY Zenon, <1>1, <1>8, <2>1, <2>2, IdleFacts, DrainsFrame
<1>9. ASSUME NEW j \in Jobs, Client(j) PROVE Drains(q)'
  BY Zenon, <1>1, <1>9, ClientFacts, DrainsFrame
<1>10. CASE Clock
  <2>1. now' = now + 1 /\ UNCHANGED <<slot, stopping>> /\ OnTime(q)
    BY <1>10 DEF Clock, Tick
  <2>2. slot[q].pc = "settling" => /\ now < slot[q].settleBy
                                   /\ slot[q].settleBy <= now + SettleTimeout
    BY Zenon, <1>1, <2>1 DEF Drains, OnTime
  <2>3. slot[q].pc = "settling" => /\ now + 1 <= slot[q].settleBy
                                   /\ slot[q].settleBy <= now + 1 + SettleTimeout
    BY SMTT(60), <1>0, <2>2, TimesAssumption
  <2>4. Busy(q) /\ stopping[WorkerOf[q]] # NULL =>
          /\ stopping[WorkerOf[q]] \in Nat /\ stopping[WorkerOf[q]] <= now
          /\ slot[q].pc = "running" => now < stopping[WorkerOf[q]] + HandlerGrace
          /\ slot[q].pc = "settling" =>
                slot[q].settleBy <= stopping[WorkerOf[q]] + HandlerGrace + SettleTimeout
    BY Zenon, <1>0, <1>1, <2>1 DEF Drains, OnTime, EndTimes
  <2>5. Busy(q) /\ stopping[WorkerOf[q]] # NULL =>
          /\ stopping[WorkerOf[q]] <= now + 1
          /\ slot[q].pc = "running" => now + 1 <= stopping[WorkerOf[q]] + HandlerGrace
    BY SMTT(60), <1>0, <2>4, TimesAssumption
  <2> QED
    BY Zenon, <2>1, <2>3, <2>4, <2>5 DEF Drains, Busy
<1>11. CASE UNCHANGED poolVars
  BY Zenon, <1>1, <1>11, DrainsFrame DEF poolVars, vars
<1> QED
  BY Zenon, <1>2, <1>3, <1>4, <1>5, <1>6, <1>7, <1>8, <1>9, <1>10, <1>11, PoolSteps

(* Ack and Nack end a lease that is the worker's own. *)
LEMMA SettleEnds ==
    ASSUME PoolTypeOK, NEW s \in Slots, Settle(s)
    PROVE  \/ job'[slot[s].job].status # "running"
           \/ job'[slot[s].job].lockedBy # WorkerOf[s]
<1>1. slot[s].job \in Jobs /\ WorkerOf[s] \in Workers
  BY SettleFacts, WorkerOfAssumption
<1>2. CASE Ack(WorkerOf[s], slot[s].job)
  BY Zenon, <1>1, <1>2, AckFacts
<1>3. ASSUME NEW t \in StartTimes, Nack(WorkerOf[s], slot[s].job, t)
      PROVE  job'[slot[s].job].status # "running"
  BY Zenon, <1>1, <1>3, Times, NackFacts
<1>4. CASE ~HeldBy(job[slot[s].job], WorkerOf[s]) /\ UNCHANGED vars
  BY Zenon, <1>4 DEF HeldBy, vars
<1> QED
  BY Zenon, <1>2, <1>3, <1>4 DEF Settle

(* A step in which nothing fails leaves a slot to every lease that has one *)
(* or is new.                                                              *)
LEMMA ServesStep ==
    ASSUME LongGrace, PoolTypeOK, \A s \in Slots : Drains(s), [PoolNext]_poolVars, faults' = faults,
           NEW j \in Jobs, job'[j].status = "running",
           job[j].status = "running" /\ job'[j].attempts = job[j].attempts
                => \E q \in Slots : Serves(q, j)
    PROVE  \E q \in Slots : Serves(q, j)'
<1>0. /\ now \in Nat /\ slot \in [Slots -> Slot] /\ stopping \in [Workers -> Nat \cup {NULL}]
      /\ job \in [Jobs -> Row] /\ claims \in [Jobs -> Nat] /\ faults \in Nat
      /\ \A q \in Slots : Busy(q) => slot[q].job \in Jobs
  BY DEF PoolTypeOK
<1>1. ASSUME job'[j].attempts = job[j].attempts, job[j].status = "running"
      PROVE  \E q \in Slots : Serves(q, j)
  BY Zenon, <1>1
<1>2. ~Fault
  BY <1>0 DEF Fault
<1>3. ASSUME NEW s \in Slots, Poll(s) \/ ClaimLost(s) PROVE \E q \in Slots : Serves(q, j)'
  <2>1. Poll(s) /\ slot[s].pc = "polling"
    BY Zenon, <1>2, <1>3 DEF Poll, ClaimLost
  <2>2. PICK t \in StartTimes :
          \/ Claim(WorkerOf[s], t, {}) /\ UNCHANGED slot
          \/ \E k \in Jobs : Claim(WorkerOf[s], t, {k}) /\ slot' = [slot EXCEPT ![s] = StartedSlot(k)]
    BY Zenon, <2>1 DEF Poll
  <2>3. WorkerOf[s] \in Workers /\ t \in Nat
    BY WorkerOfAssumption, Times
  <2>4. ASSUME NEW P \in SUBSET Jobs, Claim(WorkerOf[s], t, P), j \notin P,
               \A q \in Slots : q # s => slot'[q] = slot[q]
        PROVE  \E q \in Slots : Serves(q, j)'
    <3>1. /\ job'[j] = IF Expired(job[j], t) THEN ReclaimedRow(job[j]) ELSE job[j]
          /\ claims'[j] = claims[j]
      BY ZenonT(60), <2>3, <2>4, ClaimFacts
    <3>2. ReclaimedRow(job[j]).status = "ready"
      BY <1>0 DEF ReclaimedRow, Row
    <3>3. job'[j] = job[j]
      BY Zenon, <3>1, <3>2
    <3>4. PICK q \in Slots : Serves(q, j)
      BY Zenon, <1>1, <2>1, <3>3
    <3>5. slot'[q] = slot[q]
      BY Zenon, <2>1, <2>4, <3>4 DEF Serves, Busy
    <3> QED
      BY Zenon, <3>1, <3>3, <3>4, <3>5 DEF Serves, Busy
  <2>5. CASE Claim(WorkerOf[s], t, {}) /\ UNCHANGED slot
    <3>1. {} \in SUBSET Jobs /\ j \notin {} /\ \A q \in Slots : slot'[q] = slot[q]
      BY Zenon, <2>5
    <3> QED
      BY Zenon, <2>4, <2>5, <3>1
  <2>6. ASSUME NEW k \in Jobs, Claim(WorkerOf[s], t, {k}), slot' = [slot EXCEPT ![s] = StartedSlot(k)]
        PROVE  \E q \in Slots : Serves(q, j)'
    <3>1. /\ slot'[s] = StartedSlot(k)
          /\ \A q \in Slots : q # s => slot'[q] = slot[q]
      BY Zenon, <1>0, <2>6
    <3>0. {k} \in SUBSET Jobs
      OBVIOUS
    <3>2. CASE j = k
      <4>1. job'[j] = ClaimedRow(job[j], WorkerOf[s], t) /\ claims'[j] = claims[j] + 1
        <5>1. k \in {k}
          OBVIOUS
        <5>2. job'[k] = ClaimedRow(job[k], WorkerOf[s], t) /\ claims'[k] = claims[k] + 1
          BY ZenonT(60), <2>3, <2>6, <3>0, <5>1, ClaimFacts
        <5> QED
          BY Zenon, <3>2, <5>2
      <4>2. ClaimedRow(job[j], WorkerOf[s], t).lockedBy = WorkerOf[s]
        BY <1>0 DEF ClaimedRow, Row
      <4>3. slot'[s].pc = "running" /\ slot'[s].job = j /\ slot'[s].claim = claims[j] + 1
        <5>1. /\ StartedSlot(k).pc = "running" /\ StartedSlot(k).job = k
              /\ StartedSlot(k).claim = claims[k] + 1
          BY Zenon, StartedFacts
        <5> QED
          BY Zenon, <3>1, <3>2, <5>1
      <4> QED
        BY Zenon, <4>1, <4>2, <4>3 DEF Serves, Busy
    <3>3. CASE j # k
      BY Zenon, <2>4, <2>6, <3>0, <3>1, <3>3
    <3> QED
      BY <3>2, <3>3
  <2> QED
    BY Zenon, <2>2, <2>5, <2>6
<1>4. ASSUME UNCHANGED claims, job'[j].attempts = job[j].attempts,
             job'[j].status = job[j].status, job'[j].lockedBy = job[j].lockedBy,
             \A q \in Slots : Serves(q, j) => /\ slot'[q].job = slot[q].job /\ slot'[q].claim = slot[q].claim
                                             /\ Busy(q)'
      PROVE  \E q \in Slots : Serves(q, j)'
  BY ZenonT(60), <1>1, <1>4 DEF Serves
<1>5. ASSUME NEW s \in Slots, heartbeat(s) PROVE \E q \in Slots : Serves(q, j)'
  <2>1. PICK t \in Nat : ExtendLease(WorkerOf[s], slot[s].job, t)
    BY Zenon, <1>5, HeartbeatFacts
  <2>2. /\ slot[s].job \in Jobs /\ UNCHANGED <<claims, faults>>
        /\ slot' = [slot EXCEPT ![s] = [slot[s] EXCEPT !.nextBeat = slot[s].nextBeat + interval]]
    BY Zenon, <1>5, HeartbeatFacts
  <2>3. /\ job'[j].status = job[j].status /\ job'[j].lockedBy = job[j].lockedBy
        /\ job'[j].attempts = job[j].attempts
    <3>1. WorkerOf[s] \in Workers
      BY WorkerOfAssumption
    <3>2. /\ job'[slot[s].job].status = job[slot[s].job].status
          /\ job'[slot[s].job].lockedBy = job[slot[s].job].lockedBy
          /\ job'[slot[s].job].attempts = job[slot[s].job].attempts
          /\ \A k \in Jobs : k # slot[s].job => job'[k] = job[k]
      BY Zenon, <2>1, <2>2, <3>1, ExtendFacts
    <3> QED
      BY Zenon, <3>2
  <2>4. \A q \in Slots : slot'[q].pc = slot[q].pc /\ slot'[q].job = slot[q].job /\ slot'[q].claim = slot[q].claim
    BY <1>0, <2>2 DEF Slot
  <2> QED
    BY ZenonT(60), <1>4, <2>2, <2>3, <2>4 DEF Serves, Busy
<1>6. ASSUME NEW s \in Slots, HeartbeatEnds(s) PROVE \E q \in Slots : Serves(q, j)'
  <2>1. /\ slot' = [slot EXCEPT ![s] = [slot[s] EXCEPT !.beating = FALSE]]
        /\ UNCHANGED <<job, claims, faults>>
    BY <1>0, <1>6 DEF HeartbeatEnds, vars
  <2>2. \A q \in Slots : slot'[q].pc = slot[q].pc /\ slot'[q].job = slot[q].job /\ slot'[q].claim = slot[q].claim
    BY <1>0, <2>1 DEF Slot
  <2> QED
    BY ZenonT(60), <1>4, <2>1, <2>2 DEF Serves, Busy
<1>7. ASSUME NEW s \in Slots, HandlerReturns(s) PROVE \E q \in Slots : Serves(q, j)'
  <2>1. PICK r \in {"ok", "error"} : slot' = [slot EXCEPT ![s] = SettlingSlot(s, r)]
    BY Zenon, <1>7, ReturnFacts
  <2>2. UNCHANGED <<job, claims, faults>>
    BY Zenon, <1>7, ReturnFacts DEF vars
  <2>3. \A q \in Slots : /\ slot'[q].pc = IF q = s THEN "settling" ELSE slot[q].pc
                         /\ slot'[q].job = slot[q].job /\ slot'[q].claim = slot[q].claim
    BY <1>0, <2>1 DEF SettlingSlot, Slot
  <2> QED
    BY ZenonT(60), <1>4, <2>2, <2>3 DEF Serves, Busy
<1>8. ASSUME NEW s \in Slots, Settle(s) PROVE \E q \in Slots : Serves(q, j)'
  <2>1. /\ slot[s].job \in Jobs /\ slot' = [slot EXCEPT ![s] = PollingSlot]
        /\ UNCHANGED <<claims, faults>>
    BY Zenon, <1>8, SettleFacts
  <2>2. job'[j] = job[j]
    BY Zenon, <1>8, SettleFacts
  <2>3. \A q \in Slots : q # s => slot'[q] = slot[q]
    BY Zenon, <1>0, <2>1
  <2>4. ~Serves(s, j)
    BY ZenonT(60), <1>8, <2>2, SettleEnds DEF Serves
  <2> QED
    BY ZenonT(60), <1>4, <2>1, <2>2, <2>3, <2>4 DEF Serves, Busy
<1>9. ASSUME NEW w \in Workers, Shutdown(w) PROVE \E q \in Slots : Serves(q, j)'
  BY ZenonT(60), <1>4, <1>9 DEF Shutdown, vars, Serves, Busy
<1>10. CASE Idles
  <2>1. ASSUME NEW s \in Slots, StopSlot(s) PROVE \E q \in Slots : Serves(q, j)'
    <3>1. /\ slot[s].pc = "polling" /\ slot' = [slot EXCEPT ![s] = StoppedSlot]
          /\ UNCHANGED <<job, claims, faults>>
      BY Zenon, <2>1 DEF StopSlot, vars
    <3>2. \A q \in Slots : q # s => slot'[q] = slot[q]
      BY Zenon, <1>0, <3>1
    <3>3. ~Serves(s, j)
      BY Zenon, <3>1 DEF Serves, Busy
    <3> QED
      BY ZenonT(60), <1>4, <3>1, <3>2, <3>3 DEF Serves, Busy
  <2>2. ASSUME NEW w \in Workers, GraceExceeded(w) PROVE \E q \in Slots : Serves(q, j)'
    <3>1. /\ stopping[w] # NULL /\ stopping[w] + ShutdownGrace <= now
          /\ slot' = [s \in Slots |-> IF WorkerOf[s] = w THEN StoppedSlot ELSE slot[s]]
          /\ UNCHANGED <<job, claims, faults>>
      BY Zenon, <2>2 DEF GraceExceeded, vars
    <3>2. stopping[w] \in Nat
      BY Zenon, <1>0, <3>1
    <3>3. ASSUME NEW q \in Slots, Serves(q, j) PROVE WorkerOf[q] # w
      <4>1. SUFFICES ASSUME WorkerOf[q] = w PROVE FALSE
        BY Zenon
      <4>2. Busy(q) /\ slot[q].settleBy \in Nat
        BY <1>0, <3>3 DEF Serves, Slot
      <4>3. /\ slot[q].pc = "running" => now <= stopping[w] + HandlerGrace
            /\ slot[q].pc = "settling" => /\ now <= slot[q].settleBy
                                          /\ slot[q].settleBy <= stopping[w] + HandlerGrace + SettleTimeout
        BY Zenon, <3>1, <4>1, <4>2 DEF Drains
      <4>4. now <= stopping[w] + HandlerGrace + SettleTimeout
        <5>1. now \in Nat /\ HandlerGrace \in Nat /\ SettleTimeout \in Nat
          BY Zenon, <1>0, TimesAssumption
        <5>2. \/ now <= stopping[w] + HandlerGrace
              \/ /\ now <= slot[q].settleBy
                 /\ slot[q].settleBy <= stopping[w] + HandlerGrace + SettleTimeout
          BY Zenon, <4>2, <4>3 DEF Busy
        <5>3. \A n, t, g, h, b \in Nat : n <= t + g \/ (n <= b /\ b <= t + g + h) => n <= t + g + h
          OBVIOUS
        <5> QED
          BY Zenon, <3>2, <4>2, <5>1, <5>2, <5>3
      <4> QED
        BY SMTT(60), <1>0, <3>1, <3>2, <4>4, TimesAssumption DEF LongGrace
    <3>4. \A q \in Slots : WorkerOf[q] # w => slot'[q] = slot[q]
      BY Zenon, <3>1
    <3> QED
      BY ZenonT(60), <1>4, <3>1, <3>3, <3>4 DEF Serves, Busy
  <2>3. ASSUME NEW w \in Workers, Restart(w) PROVE \E q \in Slots : Serves(q, j)'
    <3>1. /\ \A s \in Slots : WorkerOf[s] = w => slot[s].pc = "stopped"
          /\ slot' = [s \in Slots |-> IF WorkerOf[s] = w THEN PollingSlot ELSE slot[s]]
          /\ UNCHANGED <<job, claims, faults>>
      BY Zenon, <2>3 DEF Restart, SlotsOf, vars
    <3>2. \A q \in Slots : Serves(q, j) => slot'[q] = slot[q]
      BY Zenon, <3>1 DEF Serves, Busy
    <3> QED
      BY ZenonT(60), <1>4, <3>1, <3>2 DEF Serves, Busy
  <2> QED
    BY Zenon, <1>2, <1>10, <2>1, <2>2, <2>3 DEF Idles, SettleFails, Crash
<1>11. ASSUME NEW k \in Jobs, Client(k) PROVE \E q \in Slots : Serves(q, j)'
  <2>1. job'[j] = job[j] /\ UNCHANGED <<claims, slot, faults>>
    BY Zenon, <1>11, ClientFacts
  <2> QED
    BY ZenonT(60), <1>4, <2>1 DEF Serves, Busy
<1>12. CASE Clock
  BY ZenonT(60), <1>4, <1>12 DEF Clock, Tick, Serves, Busy
<1>13. CASE UNCHANGED poolVars
  BY ZenonT(60), <1>4, <1>13 DEF poolVars, vars, Serves, Busy
<1> QED
  BY Zenon, <1>3, <1>5, <1>6, <1>7, <1>8, <1>9, <1>10, <1>11, <1>12, <1>13, PoolSteps

(* A step counts one fault or none. *)
LEMMA FaultsStep ==
    ASSUME [PoolNext]_poolVars
    PROVE  faults' = faults \/ faults' = faults + 1
  BY DEF PoolNext, poolVars, SlotStep, Poll, StopSlot, heartbeat, HeartbeatEnds, HandlerReturns, Settle,
         ClaimLost, SettleFails, Shutdown, GraceExceeded, Restart, Crash, Client, Clock, Fault

(* As long as nothing has failed, every step leaves a slot to each lease. *)
LEMMA ServedStep ==
    ASSUME LongGrace, PoolTypeOK, \A s \in Slots : Drains(s), Served, [PoolNext]_poolVars
    PROVE  Served'
<1> SUFFICES ASSUME faults' = 0, NEW j \in Jobs, job'[j].status = "running"
             PROVE  \E q \in Slots : Serves(q, j)'
  BY Zenon DEF Served
<1>1. faults \in Nat
  BY DEF PoolTypeOK
<1>2. faults' = faults /\ faults = 0
  BY <1>1, FaultsStep
<1>3. job[j].status = "running" => \E q \in Slots : Serves(q, j)
  BY Zenon, <1>2 DEF Served
<1> QED
  BY Zenon, <1>2, <1>3, ServesStep

(* As long as no process crashes and no statement fails, a leased job has  *)
(* a slot that executes or settles it under its last claim: a process that *)
(* is told to stop settles all it has claimed, if its grace is LongGrace.  *)
(* Leases may expire meanwhile, and jobs be claimed anew.                  *)
THEOREM NoLeaseAbandoned ==
    ASSUME Punctual, LongGrace
    PROVE  PoolSpec => []LeaseHasSlot
<1> DEFINE AllDrain == \A s \in Slots : Drains(s)
<1>1. PoolInit => PoolTypeOK /\ AllDrain /\ Served
  <2> SUFFICES ASSUME PoolInit PROVE AllDrain /\ Served
    BY PoolTypeOKInit
  <2>1. \A s \in Slots : slot[s].pc = "polling"
    BY SlotTypes DEF PoolInit
  <2>2. \A j \in Jobs : job[j].status = "absent"
    BY DEF PoolInit, Init, AbsentRow
  <2> QED
    BY <2>1, <2>2 DEF Drains, Served, Busy
<1>2. PoolTypeOK /\ AllDrain /\ Served /\ [PoolNext]_poolVars => (PoolTypeOK /\ AllDrain /\ Served)'
  <2> SUFFICES ASSUME PoolTypeOK, AllDrain, Served, [PoolNext]_poolVars
               PROVE  PoolTypeOK' /\ AllDrain' /\ Served'
    OBVIOUS
  <2>1. \A q \in Slots : Drains(q)'
    BY DrainsStep
  <2> QED
    BY <2>1, PoolTypeOKStep, ServedStep
<1>3. Served => LeaseHasSlot
  BY Zenon DEF Served, Serves, LeaseHasSlot
<1> HIDE DEF AllDrain
<1> QED
  BY <1>1, <1>2, <1>3, PTL DEF PoolSpec

-----------------------------------------------------------------------------
(* The pool and the queue. *)

(* Every step of the pool is an operation of the queue, or leaves the      *)
(* tables and the clock alone.                                             *)
LEMMA LeaseStep ==
    ASSUME PoolTypeOK, [PoolNext]_poolVars
    PROVE  [Next]_vars
<1>0. /\ \A t \in StartTimes : t \in TxTime
      /\ \A s \in Slots : WorkerOf[s] \in Workers
  BY WorkerOfAssumption DEF StartTimes, TxTime
<1>1. ASSUME NEW s \in Slots, Poll(s) \/ ClaimLost(s) PROVE Next
  <2>1. PICK t \in StartTimes, P \in SUBSET Jobs : Claim(WorkerOf[s], t, P)
    BY Zenon, <1>1, PollFacts
  <2>2. Dequeue(WorkerOf[s], t, {j \in Jobs : Expired(job[j], t)}, P)
    BY Zenon, <2>1 DEF Claim
  <2>3. {j \in Jobs : Expired(job[j], t)} \in SUBSET Jobs
    OBVIOUS
  <2> QED
    BY Zenon, <1>0, <2>2, <2>3 DEF Next
<1>2. ASSUME NEW s \in Slots, heartbeat(s) PROVE Next
  <2>1. PICK t \in Nat : t <= now /\ ExtendLease(WorkerOf[s], slot[s].job, t)
    BY Zenon, <1>2, HeartbeatFacts
  <2>2. t \in TxTime
    BY <2>1 DEF TxTime, PoolTypeOK
  <2>3. slot[s].job \in Jobs
    BY Zenon, <1>2, HeartbeatFacts
  <2> QED
    BY Zenon, <1>0, <2>1, <2>2, <2>3 DEF Next
<1>3. ASSUME NEW s \in Slots, Settle(s) PROVE [Next]_vars
  <2>1. slot[s].job \in Jobs
    BY Zenon, <1>3, SettleFacts
  <2>2. \/ Ack(WorkerOf[s], slot[s].job)
        \/ \E t \in StartTimes : Nack(WorkerOf[s], slot[s].job, t)
        \/ UNCHANGED vars
    BY Zenon, <1>3 DEF Settle
  <2>3. WorkerOf[s] \in Workers \cup {NULL}
    BY <1>0
  <2> QED
    BY Zenon, <1>0, <2>1, <2>2, <2>3 DEF Next
<1>4. ASSUME NEW j \in Jobs, Client(j) PROVE Next
  BY Zenon, <1>0, <1>4 DEF Client, Next
<1>5. CASE Clock
  BY Zenon, <1>5 DEF Clock, Next
<1>6. CASE Idles
  BY Zenon, <1>6 DEF Idles, StopSlot, SettleFails, GraceExceeded, Restart, Crash
<1> QED
  BY Zenon, <1>1, <1>2, <1>3, <1>4, <1>5, <1>6, PoolSteps
     DEF HeartbeatEnds, HandlerReturns, Shutdown, poolVars

(* Whatever the slots do, the jobs and the dead letters change only by the *)
(* operations that internal/queue offers: the pool keeps all that          *)
(* JobLeases promises of them.                                             *)
THEOREM PoolUsesQueue == PoolSpec => Spec
<1>1. PoolInit => Init
  BY DEF PoolInit
<1>2. PoolTypeOK /\ [PoolNext]_poolVars => [Next]_vars
  BY LeaseStep
<1> QED
  BY <1>1, <1>2, PoolTypeOKInit, PoolTypeOKStep, PTL DEF PoolSpec, Spec

-----------------------------------------------------------------------------
(* The retry budget. *)

(* normalizeEnqueueParams leaves a job with at least one attempt. *)
LEMMA BudgetType == \A j \in Jobs : Normal(j).maxAttempts \in Nat \ {0}
<1> SUFFICES ASSUME NEW j \in Jobs PROVE Normal(j).maxAttempts \in Nat \ {0}
  OBVIOUS
<1>1. Params[j] \in EnqueueParams
  BY ParamsAssumption
<1>2. Params[j].maxAttempts \in Int
  BY <1>1 DEF EnqueueParams
<1>3. Normal(j).maxAttempts = IF Params[j].maxAttempts <= 0 THEN 5 ELSE Params[j].maxAttempts
  BY <1>1 DEF Normal, normalizeEnqueueParams, EnqueueParams
<1> QED
  BY <1>2, <1>3

(* A lease that had run out by the time t has run out now. *)
LEMMA ExpiredByNow ==
    ASSUME PoolTypeOK, NEW j \in Jobs, NEW t \in TxTime, Expired(job[j], t)
    PROVE  Expired(job[j], now)
  BY DEF PoolTypeOK, Row, TxTime, Expired

(* How an operation of the queue may change the attempts of job j. *)
SameAttempts(j) ==
    /\ job'[j].attempts = job[j].attempts
    /\ job'[j].status = job[j].status \/ job'[j].status \notin {"ready", "running"}

NewAttempt(j) ==
    /\ job[j].status = "ready" \/ Expired(job[j], now)
    /\ job'[j].attempts = job[j].attempts + 1 /\ job'[j].status = "running"

Reclaimed(j) ==
    /\ Expired(job[j], now)
    /\ job'[j].attempts = job[j].attempts /\ job'[j].status = "ready"

WithinBudget(j) ==
    job'[j].attempts \in Nat /\ job'[j].attempts < Normal(j).maxAttempts /\ job'[j].status = "ready"

(* An operation of the queue claims a job, reclaims it, gives it back with *)
(* budget left, or does not make it ready or running.                      *)
LEMMA AttemptsStep ==
    ASSUME PoolTypeOK, [Next]_vars, NEW j \in Jobs
    PROVE  SameAttempts(j) \/ NewAttempt(j) \/ Reclaimed(j) \/ WithinBudget(j)
<1>0. job \in [Jobs -> Row] /\ job[j] \in Row /\ job[j].attempts \in Nat
  BY DEF PoolTypeOK, Row
<1>1. ASSUME job'[j] = job[j] PROVE SameAttempts(j)
  BY Zenon, <1>1 DEF SameAttempts
<1>2. ASSUME NEW w \in Workers, NEW t \in TxTime, NEW R \in SUBSET Jobs, NEW P \in SUBSET Jobs, Dequeue(w, t, R, P)
      PROVE  SameAttempts(j) \/ NewAttempt(j) \/ Reclaimed(j)
  <2>1. /\ \A k \in R : Expired(job[k], t)
        /\ \A k \in P : job[k].status = "ready" \/ k \in R
        /\ job'[j] = IF j \in P THEN ClaimedRow(job[j], w, t)
                     ELSE IF j \in R THEN ReclaimedRow(job[j]) ELSE job[j]
    BY ZenonT(60), <1>2 DEF Dequeue
  <2>2. j \in R => Expired(job[j], now)
    BY Zenon, <2>1, ExpiredByNow
  <2>3. /\ ClaimedRow(job[j], w, t).status = "running"
        /\ ClaimedRow(job[j], w, t).attempts = job[j].attempts + 1
    BY <1>0 DEF ClaimedRow, Row
  <2>4. ReclaimedRow(job[j]).status = "ready" /\ ReclaimedRow(job[j]).attempts = job[j].attempts
    BY <1>0 DEF ReclaimedRow, Row
  <2> QED
    BY ZenonT(60), <1>1, <2>1, <2>2, <2>3, <2>4 DEF NewAttempt, Reclaimed
<1>3. ASSUME NEW k \in Jobs, NEW r, job' = [job EXCEPT ![k] = r]
      PROVE  job'[j] = IF j = k THEN r ELSE job[j]
  BY Zenon, <1>0, <1>3
<1>4. /\ SucceededRow(job[j]).status = "succeeded" /\ SucceededRow(job[j]).attempts = job[j].attempts
      /\ DeadRow(job[j]).status = "dead" /\ DeadRow(job[j]).attempts = job[j].attempts
      /\ CancelledRow(job[j]).status = "failed" /\ CancelledRow(job[j]).attempts = job[j].attempts
  BY <1>0 DEF SucceededRow, DeadRow, CancelledRow, Row
<1>5. ASSUME NEW w, NEW k \in Jobs, Ack(w, k) PROVE SameAttempts(j)
  <2>1. job' = [job EXCEPT ![k] = SucceededRow(job[k])]
    BY Zenon, <1>5 DEF Ack
  <2>2. job'[j] = IF j = k THEN SucceededRow(job[j]) ELSE job[j]
    BY Zenon, <1>3, <2>1
  <2> QED
    BY Zenon, <1>1, <1>4, <2>2 DEF SameAttempts
<1>6. ASSUME NEW k \in Jobs, Cancel(k) PROVE SameAttempts(j)
  <2>1. job' = [job EXCEPT ![k] = CancelledRow(job[k])]
    BY Zenon, <1>6 DEF Cancel
  <2>2. job'[j] = IF j = k THEN CancelledRow(job[j]) ELSE job[j]
    BY Zenon, <1>3, <2>1
  <2> QED
    BY Zenon, <1>1, <1>4, <2>2 DEF SameAttempts
<1>7. ASSUME NEW w, NEW k \in Jobs, NEW t \in TxTime, Nack(w, k, t) PROVE SameAttempts(j) \/ WithinBudget(j)
  <2>1. CASE job' = [job EXCEPT ![k] = DeadRow(job[k])]
    <3>1. job'[j] = IF j = k THEN DeadRow(job[j]) ELSE job[j]
      BY Zenon, <1>3, <2>1
    <3> QED
      BY Zenon, <1>1, <1>4, <3>1 DEF SameAttempts
  <2>2. ASSUME NEW d, job' = [job EXCEPT ![k] = RetriedRow(job[k], t + d)], ~Exhausted(k, job[k])
        PROVE  SameAttempts(j) \/ WithinBudget(j)
    <3>1. CASE j = k
      <4>1. RetriedRow(job[j], t + d).status = "ready" /\ RetriedRow(job[j], t + d).attempts = job[j].attempts
        BY <1>0 DEF RetriedRow, Row
      <4>2. job[j].attempts < Normal(j).maxAttempts
        BY <1>0, <2>2, <3>1, BudgetType DEF Exhausted
      <4>3. job'[j] = RetriedRow(job[j], t + d)
        BY Zenon, <1>3, <2>2, <3>1
      <4> QED
        BY Zenon, <1>0, <4>1, <4>2, <4>3 DEF WithinBudget
    <3> QED
      BY Zenon, <1>1, <1>3, <2>2, <3>1
  <2> QED
    BY Zenon, <1>7, <2>1, <2>2 DEF Nack
<1>8. ASSUME NEW k \in Jobs, NEW t \in TxTime, Enqueue(k, t) \/ RequeueDLQ(k, t)
      PROVE  SameAttempts(j) \/ WithinBudget(j)
  <2>1. /\ InsertedRow(j, t).status = "ready" /\ InsertedRow(j, t).attempts = 0
        /\ RequeuedRow(job[j], t).status = "ready" /\ RequeuedRow(job[j], t).attempts = 0
    BY <1>0 DEF InsertedRow, AbsentRow, RequeuedRow, Row
  <2>2. 0 \in Nat /\ 0 < Normal(j).maxAttempts
    BY BudgetType
  <2>3. job' = [job EXCEPT ![k] = InsertedRow(k, t)] \/ job' = [job EXCEPT ![k] = RequeuedRow(job[k], t)]
    BY Zenon, <1>8 DEF Enqueue, RequeueDLQ
  <2> QED
    BY ZenonT(60), <1>1, <1>3, <2>1, <2>2, <2>3 DEF WithinBudget
<1>9. ASSUME NEW w \in Workers, NEW k \in Jobs, NEW t \in TxTime, ExtendLease(w, k, t) PROVE SameAttempts(j)
  <2>1. t \in Nat
    BY DEF TxTime, PoolTypeOK
  <2> QED
    BY ZenonT(60), <1>1, <1>9, <2>1, ExtendFacts DEF SameAttempts
<1>10. CASE Tick \/ UNCHANGED vars
  BY Zenon, <1>1, <1>10 DEF Tick, vars
<1> QED
  BY Zenon, <1>2, <1>5, <1>6, <1>7, <1>8, <1>9, <1>10 DEF Next

(* Job j may be claimed once more without a further fault. *)
Spare(j) == job[j].attempts < Normal(j).maxAttempts + faults

(* A job that is ready, or leased to nobody who would settle it, has an    *)
(* attempt to spare.                                                       *)
Budget ==
    \A j \in Jobs :
        /\ job[j].attempts <= Normal(j).maxAttempts + faults
        /\ job[j].status = "ready" => Spare(j)
        /\ job[j].status = "running" /\ ~(\E s \in Slots : Serves(s, j)) => Spare(j)

(* The lease of a job that has a slot has not run out. *)
LEMMA ServedNotExpired ==
    ASSUME LongLease, PoolTypeOK, Leased, NEW j \in Jobs, \E s \in Slots : Serves(s, j)
    PROVE  ~Expired(job[j], now)
<1>1. PICK s \in Slots : Busy(s) /\ slot[s].job = j
  BY Zenon DEF Serves
<1>2. now <= job[j].lockedUntil /\ job[j].lockedUntil \in Nat
  BY Zenon, <1>1, NotExpired DEF Leased, Owns
<1>3. now \in Nat
  BY DEF PoolTypeOK
<1>4. ~(job[j].lockedUntil < now)
  BY <1>2, <1>3
<1> QED
  BY Zenon, <1>4 DEF Expired

(* Every step keeps Budget. *)
LEMMA BudgetStep ==
    ASSUME LongLease, LongGrace, PoolTypeOK, PoolTypeOK', Leased, \A s \in Slots : Drains(s), Budget,
           [PoolNext]_poolVars
    PROVE  Budget'
<1> SUFFICES ASSUME NEW j \in Jobs
             PROVE  /\ job'[j].attempts <= Normal(j).maxAttempts + faults'
                    /\ job'[j].status = "ready" => Spare(j)'
                    /\ job'[j].status = "running" /\ ~(\E s \in Slots : Serves(s, j)') => Spare(j)'
  BY Zenon DEF Budget
<1> DEFINE m == Normal(j).maxAttempts
           a == job[j].attempts
           b == job'[j].attempts
<1>1. m \in Nat /\ m > 0 /\ a \in Nat /\ b \in Nat /\ faults \in Nat
  BY BudgetType DEF PoolTypeOK, Row
<1>2. /\ a <= m + faults
      /\ job[j].status = "ready" => a < m + faults
      /\ job[j].status = "running" /\ ~(\E s \in Slots : Serves(s, j)) => a < m + faults
  BY Zenon DEF Budget, Spare
<1>3. Expired(job[j], now) => a < m + faults
  BY Zenon, <1>2, ServedNotExpired DEF Expired
<1>4. Spare(j)' <=> b < m + faults'
  BY Zenon DEF Spare
<1>5. SameAttempts(j) \/ NewAttempt(j) \/ Reclaimed(j) \/ WithinBudget(j)
  BY Zenon, LeaseStep, AttemptsStep
<1>6. \/ b = a
      \/ a < m + faults /\ b = a + 1
      \/ b < m
  BY Zenon, <1>2, <1>3, <1>5 DEF SameAttempts, NewAttempt, Reclaimed, WithinBudget
<1> HIDE DEF m, a, b
<1>7. CASE faults' = faults + 1
  <2>1. b < m + faults'
    BY <1>1, <1>2, <1>6, <1>7
  <2>2. b <= m + faults'
    BY <1>1, <1>7, <2>1
  <2> QED
    BY Zenon, <1>4, <2>1, <2>2 DEF m, b
<1>8. CASE faults' = faults
  <2>1. b <= m + faults
    BY <1>1, <1>2, <1>6
  <2>2. job'[j].status = "ready" => b < m + faults
    <3>1. job'[j].status = "ready" => (a < m + faults /\ b = a) \/ b < m
      BY Zenon, <1>2, <1>3, <1>5 DEF SameAttempts, NewAttempt, Reclaimed, WithinBudget, a, b, m
    <3> QED
      BY <1>1, <3>1
  <2>3. ASSUME job'[j].status = "running", ~(\E s \in Slots : Serves(s, j)') PROVE b < m + faults
    <3>1. /\ job[j].status = "running" /\ job'[j].attempts = job[j].attempts
          /\ ~(\E s \in Slots : Serves(s, j))
      BY Zenon, <1>8, <2>3, ServesStep
    <3> QED
      BY Zenon, <1>2, <3>1 DEF a, b
  <2> QED
    BY Zenon, <1>4, <1>8, <2>1, <2>2, <2>3 DEF m, b
<1> QED
  BY <1>7, <1>8, FaultsStep

(* With punctual slots, leases that outlast the work (LongLease) and a     *)
(* grace in which they can stop (LongGrace), no lease runs out unless      *)
(* something fails, and every failure costs a job at most one attempt      *)
(* beyond its retry budget.  The inductive invariant joins that of         *)
(* Exclusion and that of NoLeaseAbandoned with Budget.                     *)
THEOREM BudgetKept ==
    ASSUME Punctual, LongLease, LongGrace
    PROVE  PoolSpec => []LeasesOutlastWork /\ []AttemptsBounded
<1> DEFINE IInv == PoolTypeOK /\ Leased /\ (\A s \in Slots : Drains(s)) /\ Served /\ Budget
<1>1. PoolInit => IInv
  <2> SUFFICES ASSUME PoolInit PROVE Leased /\ (\A s \in Slots : Drains(s)) /\ Served /\ Budget
    BY PoolTypeOKInit
  <2>1. \A s \in Slots : slot[s].pc = "polling"
    BY SlotTypes DEF PoolInit
  <2>2. \A j \in Jobs : job[j].status = "absent" /\ job[j].attempts = 0
    BY DEF PoolInit, Init, AbsentRow
  <2>3. Leased /\ (\A s \in Slots : Drains(s)) /\ Served
    BY <2>1, <2>2 DEF Leased, Drains, Served, Busy
  <2>4. \A j \in Jobs : 0 <= Normal(j).maxAttempts + faults
    BY BudgetType DEF PoolInit
  <2> QED
    BY Zenon, <2>2, <2>3, <2>4 DEF Budget
<1>2. IInv /\ [PoolNext]_poolVars => IInv'
  <2> SUFFICES ASSUME PoolTypeOK, Leased, \A s \in Slots : Drains(s), Served, Budget, [PoolNext]_poolVars
               PROVE  IInv'
    BY Zenon
  <2>1. PoolTypeOK' /\ Leased' /\ Served'
    BY Zenon, PoolTypeOKStep, LeasedStep, ServedStep
  <2>2. \A s \in Slots : Drains(s)'
    BY DrainsStep
  <2>3. Budget'
    BY Zenon, <2>1, BudgetStep
  <2> QED
    BY Zenon, <2>1, <2>2, <2>3
<1>3. IInv => LeasesOutlastWork
  BY Zenon, ServedNotExpired DEF Served, LeasesOutlastWork, Expired
<1>4. IInv => AttemptsBounded
  BY Zenon DEF Budget, AttemptsBounded
<1> HIDE DEF IInv
<1> QED
  BY <1>1, <1>2, <1>3, <1>4, PTL DEF PoolSpec
=============================================================================
