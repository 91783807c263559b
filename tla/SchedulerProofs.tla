--------------------------- MODULE SchedulerProofs ---------------------------
(***************************************************************************)
(* Proofs about Scheduler, for any replicas, schedules and expressions and *)
(* with no bound on the clock or on the failures.                          *)
(***************************************************************************)
EXTENDS Scheduler, WellFoundedInduction, TLAPS

(* Next returns a time. *)
LEMMA NextRunType ==
    ASSUME NEW c \in SUBSET Nat, NEW t \in Nat
    PROVE  NextRun(c, t) \in Nat
  BY Zenon DEF NextRun

(* A set of times that is not empty has a first one. *)
LEMMA FirstTime ==
    ASSUME NEW S \in SUBSET Nat, S # {}
    PROVE  \E u \in S : \A v \in S : u <= v
<1> DEFINE R == OpToRel(<, Nat)
<1>1. \A x, y \in Nat : x < y => <<x, y>> \in R
  BY Zenon DEF OpToRel
<1>2. PICK u \in S : \A v \in S : ~(<<v, u>> \in R)
  <2>1. IsWellFoundedOn(R, Nat)
    BY Zenon, NatLessThanWellFounded
  <2> HIDE DEF R
  <2> QED
    BY Zenon, <2>1, WFMin
<1>3. \A v \in S : ~(v < u)
  BY Zenon, <1>1, <1>2
<1> QED
  BY <1>3

(* Next returns the first occurrence after t, or the zero time when there  *)
(* is none.                                                                *)
LEMMA NextRunValue ==
    ASSUME NEW c \in SUBSET Nat, NEW t \in Nat
    PROVE  \/ /\ NextRun(c, t) \in c /\ NextRun(c, t) > t
              /\ \A u \in c : u > t => NextRun(c, t) <= u
           \/ NextRun(c, t) = 0 /\ \A u \in c : u <= t
<1> DEFINE later == {u \in c : u > t}
           first == {u \in c : u > t /\ \A v \in c : v > t => u <= v}
<1>1. CASE later = {}
  <2>1. first = {}
    BY Zenon, <1>1
  <2>2. NextRun(c, t) = 0
    BY Zenon, <2>1 DEF NextRun
  <2> QED
    BY <1>1, <2>2
<1>2. CASE later # {}
  <2>1. PICK u \in later : \A v \in later : u <= v
    <3>1. later \in SUBSET Nat
      OBVIOUS
    <3> HIDE DEF later
    <3> QED
      BY Zenon, <1>2, <3>1, FirstTime
  <2>2. u \in first
    BY Zenon, <2>1
  <2>3. NextRun(c, t) \in first
    BY Zenon, <2>2 DEF NextRun
  <2> QED
    BY Zenon, <2>3
<1> QED
  BY Zenon, <1>1, <1>2

(* initializeNextRuns and fire write a time into one row, if it exists. *)
LEMMA SetNextRow ==
    ASSUME TypeOK, NEW i \in Schedules, NEW t \in Nat, SetNext(i, t)
    PROVE  /\ schedule' \in [Schedules -> Row]
           /\ \A k \in Schedules :
                 /\ schedule'[k].state = schedule[k].state
                 /\ schedule'[k].cron = schedule[k].cron
                 /\ k # i => schedule'[k] = schedule[k]
           /\ schedule[i].state = "present" => schedule'[i].next = t
           /\ schedule[i].state # "present" => schedule'[i] = schedule[i]
<1>1. schedule \in [Schedules -> Row]
  BY DEF TypeOK
<1>2. CASE schedule[i].state = "present"
  <2>1. schedule' = [schedule EXCEPT ![i].next = t]
    BY <1>2 DEF SetNext
  <2> QED
    BY <1>1, <1>2, <2>1 DEF Row
<1>3. CASE schedule[i].state # "present"
  BY <1>1, <1>3 DEF SetNext
<1> QED
  BY <1>2, <1>3

(* The rows of a Tick. *)
LEMMA HeldType ==
    ASSUME TypeOK, NEW r \in Replicas
    PROVE  /\ replica[r].due \subseteq Due
           /\ Heads(r) \subseteq replica[r].due
  BY DEF TypeOK, Replica, Heads

(* A row that is being fired is a row of the query's result. *)
FiredRow == \A r \in Replicas : replica[r].pc = "enqueued" => replica[r].fired \in Due /\ replica[r].fired.cron # NULL

(* A replica that moves on, keeping what it holds or some of it. *)
LEMMA ReplicaStep ==
    ASSUME TypeOK, FiredRow, NEW r \in Replicas, NEW x \in Replica,
           x.pc = "enqueued" => x.fired \in Due /\ x.fired.cron # NULL,
           replica' = [replica EXCEPT ![r] = x]
    PROVE  replica' \in [Replicas -> Replica] /\ FiredRow'
  BY DEF TypeOK, FiredRow

(* Initially there are no jobs. *)
LEMMA NoJobs == Init => IsABag(jobs) /\ Enqueued = {}
<1>1. EmptyBag = [e \in {} |-> 1]
  BY Zenon DEF EmptyBag, SetToBag
<1>2. DOMAIN EmptyBag = {} /\ IsABag(EmptyBag)
  BY <1>1 DEF IsABag
<1> QED
  BY Zenon, <1>2 DEF Init, Enqueued, BagToSet

(* What FireEnqueue does to the jobs: it adds the one job of the row it    *)
(* fires, or finds one with its key.                                       *)
LEMMA JobAdded ==
    ASSUME TypeOK, NEW r \in Replicas, FireEnqueue(r)
    PROVE  \E d \in Heads(r) :
              /\ d.cron # NULL
              /\ replica' = [replica EXCEPT ![r].pc = "enqueued", ![r].due = @ \ {d}, ![r].fired = d]
              /\ IsABag(jobs') /\ Enqueued \subseteq Enqueued'
              /\ Enqueued' \subseteq Enqueued \cup {JobOf(d)}
              /\ \E job \in Enqueued' : job.key = JobOf(d).key
              /\ \A job \in Enqueued : jobs'[job] = jobs[job]
              /\ \A job \in Enqueued' \ Enqueued : jobs'[job] = 1
<1>1. PICK d \in Heads(r) :
        /\ d.cron # NULL
        /\ replica' = [replica EXCEPT ![r].pc = "enqueued", ![r].due = @ \ {d}, ![r].fired = d]
        /\ jobs' = IF \E job \in Enqueued : job.key = JobOf(d).key THEN jobs
                   ELSE jobs (+) SetToBag({JobOf(d)})
  BY Zenon DEF FireEnqueue
<1>2. IsABag(jobs) /\ Enqueued = DOMAIN jobs /\ Enqueued' = DOMAIN jobs'
  BY Zenon DEF TypeOK, Enqueued, BagToSet
<1>3. CASE \E job \in Enqueued : job.key = JobOf(d).key
  <2>1. jobs' = jobs /\ Enqueued' = Enqueued
    BY Zenon, <1>1, <1>2, <1>3
  <2> QED
    BY Zenon, <1>1, <1>2, <1>3, <2>1
<1>4. CASE ~\E job \in Enqueued : job.key = JobOf(d).key
  <2>1. jobs' = jobs (+) SetToBag({JobOf(d)}) /\ JobOf(d) \notin DOMAIN jobs
    BY Zenon, <1>1, <1>2, <1>4
  <2>2. /\ IsABag(jobs') /\ DOMAIN jobs' = DOMAIN jobs \cup {JobOf(d)}
        /\ jobs'[JobOf(d)] = 1 /\ \A x \in DOMAIN jobs : jobs'[x] = jobs[x]
    <3> DEFINE e == JobOf(d)
               C == jobs'
    <3>1. IsABag(jobs) /\ e \notin DOMAIN jobs /\ C = jobs (+) SetToBag({e})
      BY Zenon, <1>2, <2>1
    <3> HIDE DEF e, C
    <3>2. DOMAIN SetToBag({e}) = {e} /\ SetToBag({e})[e] = 1
      BY DEF SetToBag
    <3>3. C = [x \in DOMAIN jobs \cup {e} |->
                 (IF x \in DOMAIN jobs THEN jobs[x] ELSE 0) + (IF x \in {e} THEN 1 ELSE 0)]
      BY <3>1, <3>2 DEF (+)
    <3>4. \A x \in DOMAIN jobs : jobs[x] \in Nat /\ jobs[x] > 0
      BY <1>2 DEF IsABag
    <3>5. C[e] = 1 /\ DOMAIN C = DOMAIN jobs \cup {e}
      BY <3>1, <3>3
    <3>6. ASSUME NEW x \in DOMAIN jobs PROVE C[x] = jobs[x]
      <4>1. x # e /\ x \in DOMAIN jobs \cup {e}
        BY Zenon, <3>1
      <4>2. C[x] = jobs[x] + 0
        BY <3>3, <4>1
      <4> QED
        BY <3>4, <4>2
    <3>7. IsABag(C)
      <4>1. \A x \in DOMAIN C : C[x] \in {n \in Nat : n > 0}
        BY <3>4, <3>5, <3>6
      <4>2. C = [x \in DOMAIN C |-> C[x]]
        BY <3>3
      <4> QED
        BY Zenon, <4>1, <4>2 DEF IsABag
    <3> QED
      BY Zenon, <3>5, <3>6, <3>7 DEF e, C
  <2>3. Enqueued' = Enqueued \cup {JobOf(d)}
    BY Zenon, <1>2, <2>2
  <2>4. \A job \in Enqueued : jobs'[job] = jobs[job]
    BY Zenon, <1>2, <2>1, <2>2
  <2>5. \A job \in Enqueued' \ Enqueued : jobs'[job] = 1
    BY Zenon, <2>2, <2>3
  <2>6. \E job \in Enqueued' : job.key = JobOf(d).key
    BY Zenon, <2>3
  <2>7. Enqueued \subseteq Enqueued' /\ Enqueued' \subseteq Enqueued \cup {JobOf(d)}
    BY Zenon, <2>3
  <2> QED
    BY Zenon, <1>1, <2>2, <2>4, <2>5, <2>6, <2>7
<1> QED
  BY Zenon, <1>3, <1>4

(* Every step keeps the tables and the Ticks well-formed. *)
LEMMA TypeOKStep ==
    ASSUME TypeOK, FiredRow, [Next]_vars
    PROVE  TypeOK' /\ FiredRow'
<1> USE DEF TypeOK, Enqueued
<1>1. ASSUME NEW r \in Replicas, BeginTick(r) PROVE TypeOK' /\ FiredRow'
  BY Zenon, <1>1 DEF BeginTick, IdleReplica, Replica, FiredRow
<1>2. ASSUME NEW r \in Replicas, tryLock(r) PROVE TypeOK' /\ FiredRow'
  BY SMTT(60), <1>2 DEF tryLock, Goto, Replica, FiredRow
<1>3. ASSUME NEW r \in Replicas, SelectMissing(r) PROVE TypeOK' /\ FiredRow'
  <2> DEFINE M == {i \in Schedules : /\ schedule[i].state = "present"
                                     /\ schedule[i].enabled
                                     /\ schedule[i].next = NULL}
             x == [replica[r] EXCEPT !.pc = "initializing", !.missing = M]
  <2>1. replica' = [replica EXCEPT ![r] = x]
    BY Zenon, <1>3 DEF SelectMissing
  <2>2. M \in SUBSET Schedules
    OBVIOUS
  <2> HIDE DEF M
  <2>3. x \in Replica /\ x.pc # "enqueued"
    BY ZenonT(60), <2>2 DEF Replica
  <2> QED
    BY Zenon, <1>3, <2>1, <2>3, ReplicaStep DEF SelectMissing
<1>4. ASSUME NEW r \in Replicas, NEW i \in Schedules, InitializeNext(r, i) PROVE TypeOK' /\ FiredRow'
  <2>1. schedule[i].cron \in SUBSET Nat /\ replica[r].now \in Nat
    BY <1>4 DEF InitializeNext, Row, Replica
  <2>2. schedule' \in [Schedules -> Row]
    BY <1>4, <2>1, NextRunType, SetNextRow DEF InitializeNext
  <2> QED
    BY SMTT(60), <1>4, <2>2 DEF InitializeNext, Replica, FiredRow
<1>5. ASSUME NEW r \in Replicas, NEW i \in Schedules, InitializeFails(r, i) PROVE TypeOK' /\ FiredRow'
  BY SMTT(60), <1>5 DEF InitializeFails, Goto, Replica, FiredRow
<1>6. ASSUME NEW r \in Replicas, SelectDue(r) PROVE TypeOK' /\ FiredRow'
  <2> DEFINE R == {[id |-> i, cron |-> schedule[i].cron, next |-> schedule[i].next] :
                     i \in {k \in Schedules : /\ schedule[k].state = "present"
                                              /\ schedule[k].enabled
                                              /\ schedule[k].next # NULL
                                              /\ schedule[k].next <= replica[r].now}}
  <2>1. R \subseteq Due
    BY DEF Row, Due
  <2> DEFINE x == [replica[r] EXCEPT !.pc = "firing", !.due = R]
  <2>2. replica' = [replica EXCEPT ![r] = x]
    BY Zenon, <1>6 DEF SelectDue
  <2> HIDE DEF R
  <2>3. x \in Replica /\ x.pc # "enqueued"
    BY ZenonT(60), <2>1 DEF Replica
  <2> QED
    BY Zenon, <1>6, <2>2, <2>3, ReplicaStep DEF SelectDue
<1>7. ASSUME NEW r \in Replicas, FireEnqueue(r) PROVE TypeOK' /\ FiredRow'
  <2>1. PICK d \in Heads(r) :
          /\ d.cron # NULL
          /\ IsABag(jobs') /\ Enqueued' \subseteq Enqueued \cup {JobOf(d)}
          /\ replica' = [replica EXCEPT ![r].pc = "enqueued", ![r].due = @ \ {d}, ![r].fired = d]
    BY Zenon, <1>7, JobAdded
  <2>2. d \in Due
    BY HeldType
  <2> DEFINE x == [replica[r] EXCEPT !.pc = "enqueued", !.due = @ \ {d}, !.fired = d]
  <2>3. replica' = [replica EXCEPT ![r] = x] /\ d.cron # NULL
    BY Zenon, <2>1
  <2>4. x \in Replica /\ x.fired = d
    BY ZenonT(60), <2>2 DEF Replica
  <2>5. IsABag(jobs') /\ Enqueued' \subseteq Job
    <3>1. JobOf(d) \in Job
      BY <2>2 DEF JobOf, Job, Due, IdempotencyKey
    <3> QED
      BY Zenon, <2>1, <3>1
  <2> HIDE DEF x
  <2>6. replica' \in [Replicas -> Replica] /\ FiredRow'
    BY Zenon, <2>2, <2>3, <2>4, ReplicaStep
  <2>7. UNCHANGED <<now, schedule, lock, faults>>
    BY <1>7 DEF FireEnqueue
  <2> QED
    BY <2>5, <2>6, <2>7
<1>8. ASSUME NEW r \in Replicas, FireAdvance(r) PROVE TypeOK' /\ FiredRow'
  <2>1. /\ replica[r].fired.id \in Schedules /\ replica[r].fired.cron \in SUBSET Nat
        /\ replica[r].fired.next \in Nat
    BY <1>8 DEF FireAdvance, FiredRow, Due
  <2>2. schedule' \in [Schedules -> Row]
    BY <1>8, <2>1, NextRunType, SetNextRow DEF FireAdvance
  <2> DEFINE x == [replica[r] EXCEPT !.pc = "firing", !.fired = NULL]
  <2>3. replica' = [replica EXCEPT ![r] = x]
    BY Zenon, <1>8 DEF FireAdvance
  <2>4. x \in Replica /\ x.pc # "enqueued"
    BY ZenonT(60) DEF Replica
  <2> HIDE DEF x
  <2> QED
    BY Zenon, <1>8, <2>2, <2>3, <2>4, ReplicaStep DEF FireAdvance
<1>9. ASSUME NEW r \in Replicas, FireUnparsable(r) \/ EndOfRows(r) PROVE TypeOK' /\ FiredRow'
  BY <1>9 DEF FireUnparsable, EndOfRows, Goto, Replica, FiredRow
<1>10. ASSUME NEW r \in Replicas, unlock(r) PROVE TypeOK' /\ FiredRow'
  BY <1>10 DEF unlock, IdleReplica, Replica, FiredRow
<1>11. ASSUME NEW r \in Replicas, FireError(r) PROVE TypeOK' /\ FiredRow'
  <2>1. ASSUME replica[r].pc = "firing"
        PROVE  replica' \in [Replicas -> Replica] /\ FiredRow'
    <3>1. PICK d \in Heads(r) : replica' = [replica EXCEPT ![r].due = @ \ {d}]
      BY <1>11, <2>1 DEF FireError
    <3> QED
      BY <2>1, <3>1 DEF Replica, FiredRow
  <2>2. ASSUME replica[r].pc = "enqueued"
        PROVE  replica' \in [Replicas -> Replica] /\ FiredRow'
    <3> DEFINE x == [replica[r] EXCEPT !.pc = "firing", !.fired = NULL]
    <3>1. replica' = [replica EXCEPT ![r] = x]
      BY Zenon, <1>11, <2>2 DEF FireError
    <3>2. x \in Replica /\ x.pc # "enqueued"
      BY Zenon DEF Replica
    <3> HIDE DEF x
    <3> QED
      BY Zenon, <3>1, <3>2, ReplicaStep
  <2>3. replica[r].pc = "firing" \/ replica[r].pc = "enqueued"
    BY <1>11 DEF FireError
  <2>4. UNCHANGED <<now, schedule, jobs, lock>> /\ faults' = faults + 1
    BY <1>11 DEF FireError, Fault
  <2>5. replica' \in [Replicas -> Replica] /\ FiredRow'
    BY <2>1, <2>2, <2>3
  <2> QED
    BY <2>4, <2>5
<1>12. ASSUME NEW r \in Replicas, TickError(r) PROVE TypeOK' /\ FiredRow'
  BY <1>12 DEF TickError, Fault, Goto, Replica, FiredRow
<1>13. ASSUME NEW r \in Replicas, UnlockError(r) \/ Crash(r) PROVE TypeOK' /\ FiredRow'
  BY SMTT(60), <1>13 DEF UnlockError, Crash, Fault, IdleReplica, Replica, FiredRow
<1>14. ASSUME NEW r \in Replicas, BreakLock(r) PROVE TypeOK' /\ FiredRow'
  BY <1>14 DEF BreakLock, Fault, FiredRow
<1>15. ASSUME NEW i \in Schedules, Create(i) PROVE TypeOK' /\ FiredRow'
  <2>1. PICK c \in Crons \ {NULL} :
          schedule' = [schedule EXCEPT ![i] = [state |-> "present", cron |-> c, enabled |-> TRUE,
                                               next |-> NextRun(c, now)]]
    BY Zenon, <1>15 DEF Create
  <2>2. c \in SUBSET Nat /\ NextRun(c, now) \in Nat
    BY CronsAssumption, NextRunType
  <2>3. schedule' \in [Schedules -> Row]
    BY <2>1, <2>2 DEF Row
  <2> QED
    BY <1>15, <2>3 DEF Create, FiredRow
<1>16. ASSUME NEW i \in Schedules, NEW b \in BOOLEAN, SetEnabled(i, b) PROVE TypeOK' /\ FiredRow'
  BY <1>16 DEF SetEnabled, Row, FiredRow
<1>17. ASSUME NEW i \in Schedules, Delete(i) PROVE TypeOK' /\ FiredRow'
  BY <1>17 DEF Delete, Row, FiredRow
<1>18. CASE SessionEnds \/ Clock
  BY <1>18 DEF SessionEnds, Clock, FiredRow
<1>19. CASE UNCHANGED vars
  BY <1>19 DEF vars, FiredRow
<1> QED
  BY Zenon, <1>1, <1>2, <1>3, <1>4, <1>5, <1>6, <1>7, <1>8, <1>9, <1>10, <1>11, <1>12, <1>13, <1>14,
     <1>15, <1>16, <1>17, <1>18, <1>19 DEF Next, TickStep, Failure

-----------------------------------------------------------------------------
(* Leadership. *)

Leads ==
    ~LockCanBreak =>
        \A r \in Replicas : replica[r].pc \notin {"idle", "ticking"} => lock = r

(* Every step keeps the lock with the replica that is past tryLock. *)
LEMMA LeadsStep ==
    ASSUME TypeOK, Leads, [Next]_vars
    PROVE  Leads'
<1> SUFFICES ASSUME ~LockCanBreak,
                    NEW q \in Replicas, replica'[q].pc \notin {"idle", "ticking"}
             PROVE  lock' = q
  BY DEF Leads
<1>1. /\ replica \in [Replicas -> Replica]
      /\ \A r \in Replicas : replica[r].pc \notin {"idle", "ticking"} => lock = r
  BY DEF TypeOK, Leads
<1> USE DEF Replica
<1>2. ASSUME NEW r \in Replicas, BeginTick(r) PROVE lock' = q
  BY <1>1, <1>2 DEF BeginTick, IdleReplica
<1>3. ASSUME NEW r \in Replicas, tryLock(r) PROVE lock' = q
  BY <1>1, <1>3, ReplicasAssumption DEF tryLock, Goto
<1>4. ASSUME NEW r \in Replicas, replica[r].pc \notin {"idle", "ticking"}, lock' = lock,
             \A o \in Replicas : o # r => replica'[o] = replica[o]
      PROVE  lock' = q
  BY <1>1, <1>4
<1>5. ASSUME NEW r \in Replicas, TickStep(r), ~tryLock(r), ~unlock(r)
      PROVE  /\ replica[r].pc \notin {"idle", "ticking"} /\ lock' = lock
             /\ \A o \in Replicas : o # r => replica'[o] = replica[o]
  BY ZenonT(60), <1>1, <1>5 DEF TickStep, SelectMissing, InitializeNext, InitializeFails, SelectDue, FireEnqueue,
     FireAdvance, FireUnparsable, EndOfRows, Goto
<1>6. ASSUME NEW r \in Replicas, unlock(r) \/ UnlockError(r) \/ Crash(r) PROVE lock' = q
  <2>1. /\ replica' = [replica EXCEPT ![r] = IdleReplica]
        /\ lock' \in {NULL, Orphan} \/ lock' = lock
        /\ lock # r => lock' = lock
    BY <1>6 DEF unlock, UnlockError, Crash
  <2>2. q # r /\ replica'[q] = replica[q]
    BY <1>1, <2>1 DEF IdleReplica
  <2> QED
    BY <1>1, <2>1, <2>2
<1>7. ASSUME NEW r \in Replicas, FireError(r) \/ TickError(r)
      PROVE  /\ replica[r].pc \notin {"idle", "ticking"} /\ lock' = lock
             /\ \A o \in Replicas : o # r => replica'[o] = replica[o]
  BY <1>1, <1>7 DEF FireError, TickError, Goto
<1>8. ASSUME NEW r \in Replicas, BreakLock(r) PROVE FALSE
  BY <1>8 DEF BreakLock
<1>9. CASE SessionEnds
  BY <1>1, <1>9, ReplicasAssumption DEF SessionEnds
<1>10. ASSUME UNCHANGED <<lock, replica>> PROVE lock' = q
  BY <1>1, <1>10
<1>11. ASSUME NEW i \in Schedules, Create(i) \/ Delete(i) \/ \E b \in BOOLEAN : SetEnabled(i, b)
       PROVE  UNCHANGED <<lock, replica>>
  BY <1>11 DEF Create, Delete, SetEnabled
<1>12. CASE Clock
  BY <1>10, <1>12 DEF Clock
<1>13. CASE UNCHANGED vars
  BY <1>10, <1>13 DEF vars
<1> QED
  BY <1>2, <1>3, <1>4, <1>5, <1>6, <1>7, <1>8, <1>9, <1>10, <1>11, <1>12, <1>13
     DEF Next, Failure

(* The initial state is well-formed, and nobody is in a Tick. *)
LEMMA InitTypes == Init => TypeOK /\ FiredRow /\ Leads
<1> SUFFICES ASSUME Init PROVE TypeOK /\ FiredRow /\ Leads
  OBVIOUS
<1>1. \A r \in Replicas : replica[r] = IdleReplica
  BY DEF Init
<1>2. IdleReplica \in Replica /\ IdleReplica.pc = "idle"
  BY DEF IdleReplica, Replica
<1>3. schedule \in [Schedules -> Row]
  <2>1. PICK cron \in [DOMAIN Loaded -> Crons] :
          schedule = [i \in Schedules |->
                        IF i \in DOMAIN Loaded
                        THEN [state |-> "present", cron |-> cron[i], enabled |-> TRUE,
                              next |-> Loaded[i]]
                        ELSE NoRow]
    BY Zenon DEF Init
  <2>2. NoRow \in Row
    BY DEF NoRow, Row
  <2>3. ASSUME NEW i \in DOMAIN Loaded
        PROVE  [state |-> "present", cron |-> cron[i], enabled |-> TRUE, next |-> Loaded[i]] \in Row
    BY LoadedAssumption, CronsAssumption DEF Row
  <2> QED
    BY <2>1, <2>2, <2>3
<1> QED
  BY <1>1, <1>2, <1>3, NoJobs DEF Init, TypeOK, FiredRow, Leads

(* As long as the pinned connections are up, there is one leader at most.  *)
THEOREM Leadership ==
    ASSUME ~LockCanBreak
    PROVE  Spec => [](TypeOK /\ OneLeader)
<1>1. TypeOK /\ Leads => OneLeader
  BY DEF Leads, OneLeader
<1>2. TypeOK /\ FiredRow /\ Leads /\ [Next]_vars => (TypeOK /\ FiredRow /\ Leads)'
  BY TypeOKStep, LeadsStep
<1> QED
  BY <1>1, <1>2, InitTypes, PTL DEF Spec

-----------------------------------------------------------------------------
(* One job for each occurrence. *)

(* Every job is there once, under the key of its occurrence. *)
Keys ==
    \A job \in Enqueued :
        jobs[job] = 1 /\ job.key = IdempotencyKey(job.schedule, job.at)

(* The row being fired has its job: a new one, or the one with its key. *)
FiredJob ==
    \A r \in Replicas :
        replica[r].pc = "enqueued" => HasJob(replica[r].fired.id, replica[r].fired.next)

(* Only FireEnqueue adds a job; it adds or finds that of the row it fires. *)
LEMMA JobsGrow ==
    ASSUME TypeOK, Keys, [Next]_vars
    PROVE  /\ Enqueued \subseteq Enqueued'
           /\ Keys'
           /\ \A r \in Replicas : FireEnqueue(r) =>
                 /\ replica'[r].pc = "enqueued"
                 /\ HasJob(replica[r].fired.id, replica[r].fired.next)'
<1>1. ASSUME NEW r \in Replicas, FireEnqueue(r)
      PROVE  /\ Enqueued \subseteq Enqueued' /\ Keys'
             /\ replica'[r].pc = "enqueued"
             /\ HasJob(replica[r].fired.id, replica[r].fired.next)'
  <2>1. PICK d \in Heads(r) :
          /\ replica' = [replica EXCEPT ![r].pc = "enqueued", ![r].due = @ \ {d}, ![r].fired = d]
          /\ Enqueued \subseteq Enqueued' /\ Enqueued' \subseteq Enqueued \cup {JobOf(d)}
          /\ \E job \in Enqueued' : job.key = JobOf(d).key
          /\ \A job \in Enqueued : jobs'[job] = jobs[job]
          /\ \A job \in Enqueued' \ Enqueued : jobs'[job] = 1
    BY Zenon, <1>1, JobAdded
  <2>2. replica'[r].pc = "enqueued" /\ replica'[r].fired = d
    BY <2>1 DEF TypeOK, Replica
  <2>3. Enqueued \subseteq Enqueued' /\ Keys'
    <3>1. JobOf(d).key = IdempotencyKey(JobOf(d).schedule, JobOf(d).at)
      BY DEF JobOf
    <3>2. \A job \in Enqueued' : job.key = IdempotencyKey(job.schedule, job.at)
      BY Zenon, <2>1, <3>1 DEF Keys
    <3>3. \A job \in Enqueued : jobs[job] = 1
      BY Zenon DEF Keys
    <3>4. \A job \in Enqueued' : jobs'[job] = 1
      BY Zenon, <2>1, <3>3
    <3> QED
      BY Zenon, <2>1, <3>2, <3>4 DEF Keys
  <2>4. JobOf(d).key = IdempotencyKey(d.id, d.next)
    BY DEF JobOf
  <2>5. PICK job \in Enqueued' : job.key = IdempotencyKey(d.id, d.next)
    BY Zenon, <2>1, <2>4
  <2>6. <<job.schedule, job.at>> = <<d.id, d.next>>
    BY <2>3, <2>5 DEF Keys, IdempotencyKey
  <2>7. job.schedule = d.id /\ job.at = d.next
    BY <2>6
  <2> QED
    BY <2>2, <2>3, <2>7 DEF HasJob
<1>2. ASSUME NEW r \in Replicas, TickStep(r) \/ Failure(r) \/ BeginTick(r), ~FireEnqueue(r)
      PROVE  jobs' = jobs
  BY Zenon, <1>2 DEF TickStep, Failure, BeginTick, tryLock, SelectMissing, InitializeNext, InitializeFails,
     SelectDue, FireAdvance, FireUnparsable, EndOfRows, unlock, FireError, TickError, UnlockError,
     Crash, BreakLock
<1>3. ASSUME NEW i \in Schedules, Create(i) \/ Delete(i) \/ \E b \in BOOLEAN : SetEnabled(i, b)
      PROVE  jobs' = jobs
  BY <1>3 DEF Create, Delete, SetEnabled
<1>4. ASSUME SessionEnds \/ Clock \/ UNCHANGED vars PROVE jobs' = jobs
  BY Zenon, <1>4 DEF SessionEnds, Clock, vars
<1>5. jobs' = jobs => Enqueued \subseteq Enqueued' /\ Keys'
  BY DEF Keys, Enqueued, IdempotencyKey
<1> QED
  BY Zenon, <1>1, <1>2, <1>3, <1>4, <1>5 DEF Next

(* Whatever fails and whoever overlaps, an occurrence gets one job.  The   *)
(* key is a function of the occurrence, and Enqueue keeps keys unique.     *)
THEOREM OneJobPerOccurrence == Spec => []AtMostOneJob
<1>1. Init => Keys
  BY Zenon, NoJobs DEF Keys
<1>2. TypeOK /\ FiredRow /\ Keys /\ [Next]_vars => (TypeOK /\ FiredRow /\ Keys)'
  BY TypeOKStep, JobsGrow
<1>3. TypeOK /\ Keys => AtMostOneJob
  BY DEF TypeOK, Keys, AtMostOneJob, Job
<1> QED
  BY <1>1, <1>2, <1>3, InitTypes, PTL DEF Spec

-----------------------------------------------------------------------------
(* No occurrence is skipped. *)

(* What a Tick holds, by how far it has come. *)
Phases ==
    \A r \in Replicas :
        /\ replica[r].pc \in {"idle", "ticking", "locked", "initializing"} => replica[r].due = {}
        /\ replica[r].pc \in {"idle", "ticking", "locked"} => replica[r].missing = {}

(* The rows that initializeNextRuns is about to update have no next run. *)
Uninitialized ==
    \A r \in Replicas : \A i \in replica[r].missing :
        schedule[i].state # "none" /\ schedule[i].next = NULL

AllLoaded == \A i \in DOMAIN Loaded : Loaded[i] # NULL

RowsOK ==
    \A i \in Schedules :
        /\ schedule[i].state = "none" => schedule[i].next = NULL
        /\ schedule[i].cron = NULL \/ schedule[i].cron \in Crons
        /\ AllLoaded /\ schedule[i].state # "none" => schedule[i].next # NULL

(* An expression that occurs at all occurs again. *)
Endless == \A c \in Crons \ {NULL} : c = {} \/ \A t \in Nat : \E u \in c : u > t

(* The next run after t is the first occurrence after t. *)
LEMMA NextRunIsFirst ==
    ASSUME NEW c \in Crons \ {NULL}, NEW t \in Nat, NEW u \in c, u > t
    PROVE  NextRun(c, t) > t /\ NextRun(c, t) <= u
<1>1. c \in SUBSET Nat
  BY CronsAssumption
<1>2. ~(u <= t)
  BY <1>1
<1> QED
  BY Zenon, <1>1, <1>2, NextRunValue

(* Jobs stay, so what was covered stays covered. *)
LEMMA CoveredKept ==
    ASSUME Enqueued \subseteq Enqueued', NEW i \in Schedules, schedule'[i].cron = schedule[i].cron,
           NEW x, NEW y, Covered(i, x, y)
    PROVE  Covered(i, x, y)'
  BY DEF Covered, HasJob

(* A step that takes no new row and moves no next run. *)
Keeping ==
    /\ \A r \in Replicas : Held(r)' \subseteq Held(r)
    /\ \A i \in Schedules : schedule[i].state # "none" =>
          /\ schedule'[i].state # "none"
          /\ schedule'[i].cron = schedule[i].cron
          /\ schedule'[i].next = schedule[i].next

(* Only the query of Tick takes new rows, and only fire and                *)
(* initializeNextRuns move next runs.                                      *)
LEMMA MostStepsKeep ==
    ASSUME TypeOK, Phases, [Next]_vars,
           ~\E r \in Replicas : SelectDue(r) \/ FireAdvance(r) \/ \E i \in Schedules : InitializeNext(r, i)
    PROVE  Keeping
<1>0. replica \in [Replicas -> Replica] /\ schedule \in [Schedules -> Row]
  BY DEF TypeOK
<1> USE DEF Replica
<1>1. ASSUME UNCHANGED schedule,
             NEW r \in Replicas, NEW x, replica' = [replica EXCEPT ![r] = x],
             x.due = {}, x.pc # "enqueued"
      PROVE  Keeping
  BY <1>0, <1>1 DEF Keeping, Held
<1>2. ASSUME NEW r \in Replicas, unlock(r) \/ UnlockError(r) \/ Crash(r) PROVE Keeping
  <2>1. IdleReplica.due = {} /\ IdleReplica.pc # "enqueued"
    BY DEF IdleReplica
  <2> QED
    BY <1>1, <1>2, <2>1 DEF unlock, UnlockError, Crash
<1>3. ASSUME NEW r \in Replicas, BeginTick(r) PROVE Keeping
  <2>1. [IdleReplica EXCEPT !.pc = "ticking", !.now = now].due = {}
    BY DEF IdleReplica
  <2>2. [IdleReplica EXCEPT !.pc = "ticking", !.now = now].pc # "enqueued"
    BY DEF IdleReplica
  <2> QED
    BY Zenon, <1>1, <1>3, <2>1, <2>2 DEF BeginTick
<1>4. ASSUME NEW r \in Replicas, tryLock(r) \/ SelectMissing(r) PROVE Keeping
  BY <1>0, <1>4 DEF tryLock, SelectMissing, Goto, Keeping, Held, Phases
<1>5. ASSUME NEW r \in Replicas, NEW i \in Schedules, InitializeFails(r, i) PROVE Keeping
  BY <1>0, <1>5 DEF InitializeFails, Goto, Keeping, Held
<1>6. ASSUME NEW r \in Replicas, FireEnqueue(r) PROVE Keeping
  <2>1. PICK d \in Heads(r) :
          replica' = [replica EXCEPT ![r].pc = "enqueued", ![r].due = @ \ {d}, ![r].fired = d]
    BY Zenon, <1>6 DEF FireEnqueue
  <2>2. d \in replica[r].due
    BY DEF Heads
  <2>3. \A o \in Replicas : Held(o)' \subseteq Held(o)
    BY <1>0, <2>1, <2>2 DEF Held
  <2> QED
    BY <1>6, <2>3 DEF Keeping, FireEnqueue
<1>7. ASSUME NEW r \in Replicas, FireUnparsable(r) \/ EndOfRows(r) \/ FireError(r) \/ TickError(r)
      PROVE  Keeping
  BY <1>0, <1>7 DEF FireUnparsable, EndOfRows, FireError, TickError, Goto, Keeping, Held
<1>8. ASSUME UNCHANGED replica,
             \A i \in Schedules : schedule[i].state # "none" =>
                /\ schedule'[i].state # "none"
                /\ schedule'[i].cron = schedule[i].cron
                /\ schedule'[i].next = schedule[i].next
      PROVE  Keeping
  BY <1>8 DEF Keeping, Held
<1>9. ASSUME NEW r \in Replicas, BreakLock(r) PROVE Keeping
  BY <1>8, <1>9 DEF BreakLock
<1>10. ASSUME NEW i \in Schedules, Create(i) PROVE Keeping
  BY <1>0, <1>8, <1>10 DEF Create
<1>11. ASSUME NEW i \in Schedules, Delete(i) \/ \E b \in BOOLEAN : SetEnabled(i, b) PROVE Keeping
  BY SMTT(60), <1>0, <1>8, <1>11 DEF Delete, SetEnabled, Row
<1>12. CASE SessionEnds \/ Clock \/ UNCHANGED vars
  BY Zenon, <1>8, <1>12 DEF SessionEnds, Clock, vars
<1> QED
  BY <1>2, <1>3, <1>4, <1>5, <1>6, <1>7, <1>9, <1>10, <1>11, <1>12 DEF Next, TickStep, Failure

(* What a step does to the replicas: a row is marked as fired only by      *)
(* FireEnqueue, and rows without a next run are only read by the query of  *)
(* initializeNextRuns.                                                     *)
LEMMA ReplicaMoves ==
    ASSUME TypeOK, Phases, [Next]_vars, NEW q \in Replicas
    PROVE  /\ replica'[q].pc = "enqueued" =>
                 \/ FireEnqueue(q)
                 \/ replica[q].pc = "enqueued" /\ replica'[q].fired = replica[q].fired
           /\ replica'[q].missing \subseteq replica[q].missing \/ SelectMissing(q)
           /\ replica'[q].pc \in {"idle", "ticking", "locked", "initializing"} => replica'[q].due = {}
           /\ replica'[q].pc \in {"idle", "ticking", "locked"} => replica'[q].missing = {}
<1> DEFINE Goal ==
           /\ replica'[q].pc = "enqueued" =>
                 \/ FireEnqueue(q)
                 \/ replica[q].pc = "enqueued" /\ replica'[q].fired = replica[q].fired
           /\ replica'[q].missing \subseteq replica[q].missing \/ SelectMissing(q)
           /\ replica'[q].pc \in {"idle", "ticking", "locked", "initializing"} => replica'[q].due = {}
           /\ replica'[q].pc \in {"idle", "ticking", "locked"} => replica'[q].missing = {}
<1>1. replica \in [Replicas -> Replica]
  BY DEF TypeOK
<1>2. replica'[q] = replica[q] => Goal
  BY DEF Phases
<1> USE DEF Replica
<1>3. ASSUME NEW r \in Replicas, unlock(r) \/ UnlockError(r) \/ Crash(r) \/ BeginTick(r) PROVE Goal
  <2>1. PICK x : /\ replica' = [replica EXCEPT ![r] = x]
                 /\ x.pc \in {"idle", "ticking"} /\ x.missing = {} /\ x.due = {}
    <3>1. /\ IdleReplica.pc = "idle" /\ IdleReplica.missing = {} /\ IdleReplica.due = {}
          /\ [IdleReplica EXCEPT !.pc = "ticking", !.now = now].pc = "ticking"
          /\ [IdleReplica EXCEPT !.pc = "ticking", !.now = now].missing = {}
          /\ [IdleReplica EXCEPT !.pc = "ticking", !.now = now].due = {}
      BY DEF IdleReplica
    <3> QED
      BY Zenon, <1>3, <3>1 DEF unlock, UnlockError, Crash, BeginTick
  <2> QED
    BY <1>1, <1>2, <2>1
<1>4. ASSUME NEW r \in Replicas, tryLock(r) PROVE Goal
  BY <1>1, <1>2, <1>4 DEF tryLock, Goto, Phases
<1>5. ASSUME NEW r \in Replicas, SelectMissing(r) PROVE Goal
  <2>1. r # q => replica'[q] = replica[q]
    BY <1>1, <1>5 DEF SelectMissing
  <2>2. r = q => replica'[q].pc = "initializing" /\ replica'[q].due = replica[q].due
    BY <1>1, <1>5 DEF SelectMissing
  <2>3. replica[r].due = {}
    BY <1>5 DEF SelectMissing, Phases
  <2> QED
    BY <1>2, <1>5, <2>1, <2>2, <2>3
<1>6. ASSUME NEW r \in Replicas, NEW i \in Schedules, InitializeNext(r, i) \/ InitializeFails(r, i)
      PROVE  Goal
  BY <1>1, <1>2, <1>6 DEF InitializeNext, InitializeFails, Goto, Phases
<1>7. ASSUME NEW r \in Replicas, SelectDue(r) PROVE Goal
  BY Zenon, <1>1, <1>2, <1>7 DEF SelectDue
<1>8. ASSUME NEW r \in Replicas, FireEnqueue(r) PROVE Goal
  <2>1. PICK d \in Heads(r) :
          replica' = [replica EXCEPT ![r].pc = "enqueued", ![r].due = @ \ {d}, ![r].fired = d]
    BY Zenon, <1>8 DEF FireEnqueue
  <2>2. r # q => replica'[q] = replica[q]
    BY <1>1, <2>1
  <2>3. r = q => replica'[q].pc = "enqueued" /\ replica'[q].missing = replica[q].missing
    BY <1>1, <2>1
  <2> QED
    BY Zenon, <1>2, <1>8, <2>2, <2>3
<1>9. ASSUME NEW r \in Replicas, FireAdvance(r) \/ FireUnparsable(r) \/ EndOfRows(r) PROVE Goal
  BY <1>1, <1>2, <1>9 DEF FireAdvance, FireUnparsable, EndOfRows, Goto
<1>10. ASSUME NEW r \in Replicas, FireError(r) \/ TickError(r) PROVE Goal
  BY <1>1, <1>2, <1>10 DEF FireError, TickError, Goto
<1>11. ASSUME NEW r \in Replicas, BreakLock(r) PROVE Goal
  BY <1>2, <1>11 DEF BreakLock
<1>12. ASSUME NEW i \in Schedules, Create(i) \/ Delete(i) \/ \E b \in BOOLEAN : SetEnabled(i, b)
       PROVE  Goal
  BY <1>2, <1>12 DEF Create, Delete, SetEnabled
<1>13. CASE SessionEnds \/ Clock \/ UNCHANGED vars
  BY <1>2, <1>13 DEF SessionEnds, Clock, vars
<1> QED
  BY Zenon, <1>3, <1>4, <1>5, <1>6, <1>7, <1>8, <1>9, <1>10, <1>11, <1>12, <1>13
     DEF Next, TickStep, Failure

(* Every step keeps the rows in order. *)
LEMMA RowsOKStep ==
    ASSUME TypeOK, FiredRow, RowsOK, [Next]_vars
    PROVE  RowsOK'
<1>1. schedule \in [Schedules -> Row]
  BY DEF TypeOK
<1>2. ASSUME NEW i \in Schedules, NEW t \in Nat, SetNext(i, t) PROVE RowsOK'
  BY <1>2, SetNextRow, NullAssumption DEF RowsOK
<1>3. ASSUME NEW r \in Replicas, NEW i \in Schedules, InitializeNext(r, i) PROVE RowsOK'
  <2>1. NextRun(schedule[i].cron, replica[r].now) \in Nat
    BY <1>1, <1>3, NextRunType DEF InitializeNext, Row, TypeOK, Replica
  <2> QED
    BY <1>2, <1>3, <2>1 DEF InitializeNext
<1>4. ASSUME NEW r \in Replicas, FireAdvance(r) PROVE RowsOK'
  <2>1. /\ replica[r].fired.id \in Schedules
        /\ NextRun(replica[r].fired.cron, replica[r].fired.next) \in Nat
    BY <1>4, NextRunType DEF FireAdvance, FiredRow, Due
  <2> QED
    BY <1>2, <1>4, <2>1 DEF FireAdvance
<1>5. ASSUME NEW i \in Schedules, Create(i) PROVE RowsOK'
  <2>1. PICK c \in Crons \ {NULL} :
          schedule' = [schedule EXCEPT ![i] = [state |-> "present", cron |-> c, enabled |-> TRUE,
                                               next |-> NextRun(c, now)]]
    BY Zenon, <1>5 DEF Create
  <2>2. NextRun(c, now) \in Nat
    BY CronsAssumption, NextRunType DEF TypeOK
  <2> QED
    BY <1>1, <2>1, <2>2, NullAssumption DEF RowsOK
<1>6. ASSUME NEW i \in Schedules, Delete(i) \/ \E b \in BOOLEAN : SetEnabled(i, b) PROVE RowsOK'
  BY <1>1, <1>6 DEF Delete, SetEnabled, RowsOK, Row
<1>7. UNCHANGED schedule => RowsOK'
  BY DEF RowsOK
<1>8. ASSUME NEW r \in Replicas, BeginTick(r) \/ TickStep(r) \/ Failure(r), ~FireAdvance(r),
             ~\E i \in Schedules : InitializeNext(r, i)
      PROVE  UNCHANGED schedule
  BY Zenon, <1>8 DEF TickStep, Failure, BeginTick, tryLock, SelectMissing, InitializeFails,
     SelectDue, FireEnqueue, FireUnparsable, EndOfRows, unlock, FireError, TickError, UnlockError,
     Crash, BreakLock
<1>9. CASE SessionEnds \/ Clock \/ UNCHANGED vars
  BY <1>7, <1>9 DEF SessionEnds, Clock, vars
<1> QED
  BY <1>3, <1>4, <1>5, <1>6, <1>7, <1>8, <1>9 DEF Next

(* What fire needs to know: once the occurrence p has its job, moving the  *)
(* next run from p to the following occurrence leaves no gap.              *)
LEMMA AdvanceCovers ==
    ASSUME Endless, NEW i \in Schedules, schedule[i].cron \in Crons \ {NULL},
           NEW p \in Nat, HasJob(i, p)
    PROVE  /\ \A x \in Nat : Covered(i, x, p) => Covered(i, x, NextRun(schedule[i].cron, p))
           /\ \A y \in Nat : Covered(i, p, y) => Covered(i, NextRun(schedule[i].cron, p), y)
<1> DEFINE c == schedule[i].cron
           n == NextRun(c, p)
<1>1. c \in SUBSET Nat /\ c \in Crons \ {NULL}
  BY CronsAssumption
<1>2. n \in Nat
  BY <1>1, NextRunType
<1> HIDE DEF n
<1>3. ASSUME NEW x \in Nat, Covered(i, x, p), NEW t \in c, x <= t, t < n
      PROVE  HasJob(i, t)
  <2>1. ~(t > p)
    BY <1>1, <1>2, <1>3, NextRunIsFirst DEF n
  <2>2. t < p \/ t = p
    BY <1>1, <2>1
  <2> QED
    BY <1>1, <1>3, <2>2 DEF Covered
<1>4. ASSUME NEW y \in Nat, Covered(i, p, y), NEW t \in c, n <= t, t < y
      PROVE  HasJob(i, t)
  <2>1. n > p
    <3>1. PICK u \in c : u > p
      BY Zenon, <1>1, <1>4 DEF Endless
    <3> QED
      BY Zenon, <1>1, <3>1, NextRunIsFirst DEF n
  <2>2. p <= t
    BY <1>1, <1>2, <1>4, <2>1
  <2> QED
    BY <1>1, <1>4, <2>2 DEF Covered
<1> QED
  BY <1>3, <1>4 DEF Covered, n

SInv ==
    /\ TypeOK /\ FiredRow /\ Leads /\ Keys /\ FiredJob
    /\ Phases /\ RowsOK /\ Uninitialized /\ NoGaps

(* The facts about the row that FireAdvance writes. *)
LEMMA AdvanceFacts ==
    ASSUME SInv, Endless, NEW r \in Replicas, FireAdvance(r)
    PROVE  LET f == replica[r].fired
           IN /\ f \in Held(r) /\ f \in Due /\ HasJob(f.id, f.next)
              /\ schedule[f.id].cron = f.cron /\ f.cron \in Crons \ {NULL}
              /\ schedule[f.id].next \in Nat /\ schedule[f.id].state # "none"
              /\ SetNext(f.id, NextRun(f.cron, f.next)) /\ NextRun(f.cron, f.next) \in Nat
              /\ \A q \in Replicas : Held(q)' \subseteq Held(q)
              /\ jobs' = jobs
<1> DEFINE f == replica[r].fired
<1>1. replica[r].pc = "enqueued" /\ replica \in [Replicas -> Replica] /\ schedule \in [Schedules -> Row]
  BY DEF FireAdvance, SInv, TypeOK
<1>2. f \in Held(r) /\ f \in Due /\ f.cron # NULL /\ HasJob(f.id, f.next)
  BY <1>1 DEF Held, SInv, FiredRow, FiredJob
<1>3. f.id \in Schedules /\ f.next \in Nat
  BY <1>2 DEF Due
<1>4. schedule[f.id].cron = f.cron /\ schedule[f.id].state # "none" /\ schedule[f.id].next # NULL
  BY Zenon, <1>2 DEF SInv, NoGaps, InTouch
<1>5. f.cron \in Crons \ {NULL} /\ schedule[f.id].next \in Nat
  BY Zenon, <1>1, <1>2, <1>3, <1>4 DEF SInv, RowsOK, Row
<1>6. NextRun(f.cron, f.next) \in Nat
  BY Zenon, <1>3, <1>5, CronsAssumption, NextRunType
<1>7. \A q \in Replicas : Held(q)' \subseteq Held(q)
  BY <1>1 DEF FireAdvance, Held, Replica
<1> QED
  BY Zenon, <1>2, <1>4, <1>5, <1>6, <1>7 DEF FireAdvance

(* A row that is in touch stays so while the table's row keeps its place. *)
LEMMA InTouchKept ==
    ASSUME Enqueued \subseteq Enqueued', NEW d \in Due, InTouch(d), schedule'[d.id].state # "none",
           schedule'[d.id].cron = schedule[d.id].cron, schedule'[d.id].next = schedule[d.id].next
    PROVE  InTouch(d)'
<1>1. d.id \in Schedules
  BY DEF Due
<1>2. /\ Covered(d.id, d.next, schedule[d.id].next)
      /\ Covered(d.id, schedule[d.id].next, d.next)
  BY DEF InTouch
<1> QED
  BY Zenon, <1>1, <1>2 DEF InTouch, Covered, HasJob

(* Every step keeps NoGaps. *)
LEMMA NoGapsStep ==
    ASSUME SInv, Endless, [Next]_vars
    PROVE  NoGaps'
<1>0. /\ TypeOK /\ Enqueued \subseteq Enqueued' /\ replica \in [Replicas -> Replica]
      /\ schedule \in [Schedules -> Row]
  BY Zenon, JobsGrow DEF SInv, TypeOK
<1>1. \A q \in Replicas : \A d \in Held(q) : d \in Due /\ d.id \in Schedules /\ d.next \in Nat
  BY <1>0 DEF SInv, Held, FiredRow, Replica, Due
<1>2. \A q \in Replicas : \A d \in Held(q) :
         /\ InTouch(d)
         /\ \A o \in Replicas : \A e \in Held(o) : e.id = d.id => Covered(d.id, d.next, e.next)
  BY DEF SInv, NoGaps
<1>3. CASE Keeping
  <2> SUFFICES ASSUME NEW q \in Replicas, NEW d \in Held(q)'
               PROVE  /\ InTouch(d)'
                      /\ \A o \in Replicas : \A e \in Held(o)' : e.id = d.id => Covered(d.id, d.next, e.next)'
    BY DEF NoGaps
  <2>1. d \in Held(q) /\ d \in Due /\ d.id \in Schedules /\ InTouch(d)
    BY Zenon, <1>1, <1>2, <1>3 DEF Keeping
  <2>2. /\ schedule'[d.id].state # "none" /\ schedule'[d.id].cron = schedule[d.id].cron
        /\ schedule'[d.id].next = schedule[d.id].next
    BY Zenon, <1>3, <2>1 DEF Keeping, InTouch
  <2>3. InTouch(d)'
    BY Zenon, <1>0, <2>1, <2>2, InTouchKept
  <2>4. ASSUME NEW o \in Replicas, NEW e \in Held(o)', e.id = d.id PROVE Covered(d.id, d.next, e.next)'
    <3>1. Covered(d.id, d.next, e.next)
      BY Zenon, <1>2, <1>3, <2>1, <2>4 DEF Keeping
    <3> QED
      BY Zenon, <1>0, <2>1, <2>2, <3>1, CoveredKept
  <2> QED
    BY <2>3, <2>4
<1>4. ASSUME NEW r \in Replicas, SelectDue(r) PROVE NoGaps'
  <2>1. schedule' = schedule /\ jobs' = jobs /\ replica[r].due = {} /\ Held(r) = {}
    BY <1>4 DEF SelectDue, SInv, Phases, Held
  <2>2. \A q \in Replicas : q # r => Held(q)' = Held(q)
    BY <1>0, <1>4 DEF SelectDue, Held
  <2>3. \A d \in Held(r)' :
           /\ d.id \in Schedules /\ schedule[d.id].state = "present" /\ schedule[d.id].cron = d.cron
           /\ schedule[d.id].next # NULL /\ schedule[d.id].next = d.next
    <3> DEFINE R == {[id |-> i, cron |-> schedule[i].cron, next |-> schedule[i].next] :
                       i \in {k \in Schedules : /\ schedule[k].state = "present"
                                                /\ schedule[k].enabled
                                                /\ schedule[k].next # NULL
                                                /\ schedule[k].next <= replica[r].now}}
    <3>1. Held(r)' = R
      BY <1>0, <1>4 DEF SelectDue, Held, Replica
    <3> QED
      BY SMTT(60), <3>1
  <2>4. \A i \in Schedules : \A x, y : Covered(i, x, y) <=> Covered(i, x, y)'
    BY <2>1 DEF Covered, HasJob, Enqueued
  <2>5. \A d : InTouch(d) <=> InTouch(d)'
    BY Zenon, <2>1 DEF InTouch, Covered, HasJob, Enqueued
  <2>6. \A i \in Schedules : \A x \in Nat : Covered(i, x, x)
    <3> SUFFICES ASSUME NEW i \in Schedules, NEW x \in Nat, schedule[i].cron # NULL,
                        NEW t \in schedule[i].cron, x <= t, t < x
                 PROVE  FALSE
      BY DEF Covered
    <3>1. t \in Nat
      BY <1>0 DEF Row
    <3> QED
      BY <3>1
  <2>7. \A d \in Held(r)' : d.next \in Nat /\ InTouch(d)
    BY Zenon, <1>0, <2>3, <2>6 DEF InTouch, Row
  <2>8. \A q \in Replicas : \A d \in Held(q)' : d.id \in Schedules /\ InTouch(d)
    BY Zenon, <1>1, <1>2, <2>2, <2>3, <2>7
  <2>9. ASSUME NEW q \in Replicas, NEW d \in Held(q)', NEW o \in Replicas, NEW e \in Held(o)', e.id = d.id
        PROVE  Covered(d.id, d.next, e.next)
    <3>1. CASE q # r /\ o # r
      BY <1>2, <2>2, <2>9, <3>1
    <3>2. CASE q = r /\ o = r
      BY Zenon, <2>3, <2>6, <2>7, <2>9, <3>2
    <3>3. CASE q = r /\ o # r
      <4>1. Covered(e.id, schedule[e.id].next, e.next)
        BY Zenon, <2>8 DEF InTouch
      <4> QED
        BY Zenon, <2>3, <2>9, <3>3, <4>1
    <3>4. CASE q # r /\ o = r
      <4>1. Covered(d.id, d.next, schedule[d.id].next)
        BY Zenon, <2>8 DEF InTouch
      <4> QED
        BY Zenon, <2>3, <2>9, <3>4, <4>1
    <3> QED
      BY <3>1, <3>2, <3>3, <3>4
  <2> QED
    BY <2>4, <2>5, <2>8, <2>9 DEF NoGaps
<1>5. ASSUME NEW r \in Replicas, FireAdvance(r) PROVE NoGaps'
  <2>0. PICK f : f = replica[r].fired
    OBVIOUS
  <2> DEFINE i == f.id
             n == NextRun(f.cron, f.next)
  <2>1. /\ f \in Held(r) /\ f \in Due /\ HasJob(i, f.next)
        /\ schedule[i].cron = f.cron /\ f.cron \in Crons \ {NULL} /\ SetNext(i, n) /\ n \in Nat
        /\ schedule[i].state # "none"
        /\ \A q \in Replicas : Held(q)' \subseteq Held(q)
        /\ jobs' = jobs /\ i \in Schedules /\ f.next \in Nat
    BY Zenon, <1>5, <2>0, AdvanceFacts DEF Due
  <2>2. /\ \A k \in Schedules : /\ schedule'[k].state = schedule[k].state
                                /\ schedule'[k].cron = schedule[k].cron
                                /\ k # i => schedule'[k] = schedule[k]
        /\ schedule'[i].next = n \/ schedule'[i] = schedule[i]
    BY Zenon, <1>0, <2>1, SetNextRow
  <2>3. CASE schedule'[i].next # n
    BY Zenon, <1>3, <2>1, <2>2, <2>3 DEF Keeping
  <2>4. CASE schedule'[i].next = n
    <3>1. \A k \in Schedules : \A x, y : Covered(k, x, y) => Covered(k, x, y)'
      BY Zenon, <2>1, <2>2 DEF Covered, HasJob, Enqueued
    <3>2. /\ \A x \in Nat : Covered(i, x, f.next) => Covered(i, x, n)
          /\ \A y \in Nat : Covered(i, f.next, y) => Covered(i, n, y)
      BY Zenon, <2>1, AdvanceCovers
    <3>3. ASSUME NEW q \in Replicas, NEW d \in Held(q)' PROVE InTouch(d)'
      <4>1. d \in Held(q) /\ d \in Due /\ d.id \in Schedules /\ d.next \in Nat /\ InTouch(d)
        BY Zenon, <1>1, <1>2, <2>1
      <4>2. CASE d.id # i
        BY Zenon, <1>0, <2>2, <4>1, <4>2, InTouchKept DEF InTouch
      <4>3. CASE d.id = i
        <5>1. Covered(i, d.next, f.next) /\ Covered(i, f.next, d.next)
          BY Zenon, <1>2, <2>1, <4>1, <4>3
        <5>2. Covered(i, d.next, n)' /\ Covered(i, n, d.next)'
          BY Zenon, <2>1, <3>1, <3>2, <4>1, <5>1
        <5> QED
          BY ZenonT(60), <2>1, <2>2, <2>4, <4>1, <4>3, <5>2, NullAssumption DEF InTouch
      <4> QED
        BY <4>2, <4>3
    <3>4. ASSUME NEW q \in Replicas, NEW d \in Held(q)', NEW o \in Replicas, NEW e \in Held(o)', e.id = d.id
          PROVE  Covered(d.id, d.next, e.next)'
      BY Zenon, <1>1, <1>2, <2>1, <3>1, <3>4
    <3> QED
      BY <3>3, <3>4 DEF NoGaps
  <2> QED
    BY <2>3, <2>4
<1>6. ASSUME NEW r \in Replicas, NEW i \in Schedules, InitializeNext(r, i) PROVE NoGaps'
  <2>1. schedule[i].next = NULL
    BY <1>6 DEF InitializeNext, SInv, Uninitialized
  <2>2. \A q \in Replicas : Held(q)' = Held(q)
    BY <1>0, <1>6 DEF InitializeNext, Held, Replica
  <2>3. \A q \in Replicas : \A d \in Held(q) : d.id # i
    BY Zenon, <1>2, <2>1 DEF InTouch
  <2>4. \A k \in Schedules : k # i => schedule'[k] = schedule[k]
    BY <1>0, <1>6 DEF InitializeNext, SetNext
  <2>5. \A k \in Schedules : k # i => \A x, y : Covered(k, x, y) => Covered(k, x, y)'
    BY Zenon, <1>0, <2>4 DEF Covered, HasJob
  <2>6. ASSUME NEW q \in Replicas, NEW d \in Held(q) PROVE InTouch(d)'
    BY ZenonT(60), <1>0, <1>1, <1>2, <2>3, <2>4, InTouchKept DEF InTouch
  <2> QED
    BY <1>1, <1>2, <2>2, <2>3, <2>5, <2>6 DEF NoGaps
<1> QED
  BY <1>3, <1>4, <1>5, <1>6, MostStepsKeep DEF SInv

(* Either the lock holds, or no schedule is inserted without a next run:   *)
(* then no two replicas initialise the same schedule.                      *)
OneInitializer == ~LockCanBreak \/ AllLoaded

(* Every step keeps Uninitialized. *)
LEMMA UninitializedStep ==
    ASSUME SInv, Endless, OneInitializer, [Next]_vars
    PROVE  Uninitialized'
<1> SUFFICES ASSUME NEW q \in Replicas, NEW k \in replica'[q].missing
             PROVE  schedule'[k].state # "none" /\ schedule'[k].next = NULL
  BY DEF Uninitialized
<1>0. /\ TypeOK /\ Phases /\ replica \in [Replicas -> Replica] /\ schedule \in [Schedules -> Row]
  BY DEF SInv, TypeOK
<1>1. ASSUME SelectMissing(q) PROVE schedule'[k].state # "none" /\ schedule'[k].next = NULL
  <2>1. replica'[q].missing = {i \in Schedules : /\ schedule[i].state = "present"
                                                 /\ schedule[i].enabled
                                                 /\ schedule[i].next = NULL}
    BY <1>0, <1>1 DEF SelectMissing, Replica
  <2> QED
    BY Zenon, <1>1, <2>1 DEF SelectMissing
<1>2. ASSUME ~SelectMissing(q)
      PROVE  k \in replica[q].missing /\ k \in Schedules /\ schedule[k].state # "none" /\ schedule[k].next = NULL
  <2>1. k \in replica[q].missing
    BY Zenon, <1>0, <1>2, ReplicaMoves
  <2> QED
    BY <1>0, <2>1 DEF SInv, Uninitialized, Replica
<1>3. ASSUME ~SelectMissing(q), Keeping PROVE schedule'[k].state # "none" /\ schedule'[k].next = NULL
  BY Zenon, <1>2, <1>3 DEF Keeping
<1>4. ASSUME ~SelectMissing(q), NEW r \in Replicas, SelectDue(r)
      PROVE  schedule'[k].state # "none" /\ schedule'[k].next = NULL
  BY <1>2, <1>4 DEF SelectDue
<1>5. ASSUME ~SelectMissing(q), NEW r \in Replicas, FireAdvance(r)
      PROVE  schedule'[k].state # "none" /\ schedule'[k].next = NULL
  <2>1. /\ replica[r].fired.id \in Schedules /\ schedule[replica[r].fired.id].next \in Nat
        /\ SetNext(replica[r].fired.id, NextRun(replica[r].fired.cron, replica[r].fired.next))
    BY Zenon, <1>5, AdvanceFacts DEF Due
  <2>2. k # replica[r].fired.id
    BY Zenon, <1>2, <1>5, <2>1, NullAssumption
  <2>3. schedule'[k] = schedule[k]
    BY <1>0, <1>2, <1>5, <2>1, <2>2 DEF SetNext
  <2> QED
    BY <1>2, <1>5, <2>3
<1>6. ASSUME ~SelectMissing(q), NEW r \in Replicas, NEW i \in Schedules, InitializeNext(r, i)
      PROVE  schedule'[k].state # "none" /\ schedule'[k].next = NULL
  <2>1. k # i
    <3>1. CASE AllLoaded
      BY Zenon, <1>2, <1>6, <3>1 DEF SInv, RowsOK
    <3>2. CASE ~LockCanBreak
      <4>1. lock = q /\ lock = r
        <5>1. replica[q].pc \notin {"idle", "ticking"} /\ replica[r].pc = "initializing"
          BY <1>0, <1>2, <1>6 DEF Phases, InitializeNext
        <5> QED
          BY <3>2, <5>1 DEF SInv, Leads
      <4>2. i \notin replica'[q].missing
        BY <1>0, <1>6, <4>1 DEF InitializeNext, Replica
      <4> QED
        BY <4>2
    <3> QED
      BY <3>1, <3>2 DEF OneInitializer
  <2>2. schedule'[k] = schedule[k]
    BY <1>0, <1>2, <1>6, <2>1 DEF InitializeNext, SetNext
  <2> QED
    BY Zenon, <1>2, <1>6, <2>2
<1> QED
  BY Zenon, <1>0, <1>1, <1>3, <1>4, <1>5, <1>6, MostStepsKeep

(* The invariant, initially and after every step. *)
LEMMA SInvStep ==
    ASSUME Endless, OneInitializer
    PROVE  /\ Init => SInv
           /\ SInv /\ [Next]_vars => SInv'
<1>1. ASSUME Init PROVE SInv
  <2>1. \A r \in Replicas : replica[r] = IdleReplica
    BY <1>1 DEF Init
  <2>2. /\ IdleReplica.pc = "idle" /\ IdleReplica.due = {} /\ IdleReplica.missing = {}
    BY DEF IdleReplica
  <2>3. Keys /\ FiredJob /\ Phases /\ Uninitialized /\ \A r \in Replicas : Held(r) = {}
    BY Zenon, <1>1, <2>1, <2>2, NoJobs DEF Keys, FiredJob, Phases, Uninitialized, Held
  <2>4. NoGaps
    BY <2>3 DEF NoGaps
  <2>5. RowsOK
    <3>1. PICK cron \in [DOMAIN Loaded -> Crons] :
            schedule = [i \in Schedules |->
                          IF i \in DOMAIN Loaded
                          THEN [state |-> "present", cron |-> cron[i], enabled |-> TRUE,
                                next |-> Loaded[i]]
                          ELSE NoRow]
      BY Zenon, <1>1 DEF Init
    <3>2. ASSUME NEW i \in Schedules, i \in DOMAIN Loaded
          PROVE  /\ schedule[i].state = "present" /\ schedule[i].cron \in Crons
                 /\ schedule[i].next = Loaded[i]
      BY <3>1, <3>2
    <3>3. ASSUME NEW i \in Schedules, i \notin DOMAIN Loaded
          PROVE  schedule[i].state = "none" /\ schedule[i].cron = NULL /\ schedule[i].next = NULL
      BY <3>1, <3>3 DEF NoRow
    <3> QED
      BY Zenon, <3>2, <3>3 DEF RowsOK, AllLoaded
  <2> QED
    BY <1>1, <2>3, <2>4, <2>5, InitTypes DEF SInv
<1>2. ASSUME SInv, [Next]_vars PROVE SInv'
  <2>1. (TypeOK /\ FiredRow /\ Leads /\ Keys /\ RowsOK)'
    BY Zenon, <1>2, TypeOKStep, LeadsStep, JobsGrow, RowsOKStep DEF SInv
  <2>2. Phases'
    BY Zenon, <1>2, ReplicaMoves DEF SInv, Phases
  <2>3. FiredJob'
    <3> SUFFICES ASSUME NEW r \in Replicas, replica'[r].pc = "enqueued"
                 PROVE  HasJob(replica[r].fired.id, replica[r].fired.next)'
      BY DEF FiredJob
    <3>1. CASE FireEnqueue(r)
      BY Zenon, <1>2, <3>1, JobsGrow DEF SInv
    <3>2. CASE ~FireEnqueue(r)
      <4>1. replica[r].pc = "enqueued" /\ replica'[r].fired = replica[r].fired
        BY Zenon, <1>2, <3>2, ReplicaMoves DEF SInv
      <4>2. Enqueued \subseteq Enqueued' /\ HasJob(replica[r].fired.id, replica[r].fired.next)
        BY Zenon, <1>2, <4>1, JobsGrow DEF SInv, FiredJob
      <4> QED
        BY Zenon, <4>1, <4>2 DEF HasJob
    <3> QED
      BY <3>1, <3>2
  <2>4. Uninitialized' /\ NoGaps'
    BY <1>2, UninitializedStep, NoGapsStep
  <2> QED
    BY <2>1, <2>2, <2>3, <2>4 DEF SInv
<1> QED
  BY <1>1, <1>2

(* What a step may do to next_run_at: the body of NoOccurrenceSkipped. *)
LEMMA SkipStep ==
    ASSUME SInv, Endless, [Next]_vars, NEW i \in Schedules,
           schedule[i].next # NULL, schedule'[i].next # NULL, schedule[i].cron # NULL,
           NEW t \in schedule[i].cron, schedule[i].next <= t, t < schedule'[i].next
    PROVE  HasJob(i, t)
<1>0. TypeOK /\ schedule \in [Schedules -> Row]
  BY Zenon DEF SInv, TypeOK
<1>1. schedule[i].next \in Nat /\ t \in Nat /\ schedule[i].state # "none"
  BY Zenon, <1>0 DEF Row, SInv, RowsOK
<1>2. CASE schedule'[i].next = schedule[i].next
  BY <1>1, <1>2
<1>3. CASE Keeping
  BY Zenon, <1>1, <1>2, <1>3 DEF Keeping
<1>4. ASSUME NEW r \in Replicas, SelectDue(r) PROVE HasJob(i, t)
  BY <1>2, <1>4 DEF SelectDue
<1>5. ASSUME NEW r \in Replicas, NEW k \in Schedules, InitializeNext(r, k) PROVE HasJob(i, t)
  <2>1. k # i
    BY <1>5 DEF InitializeNext, SInv, Uninitialized
  <2> QED
    BY <1>0, <1>2, <1>5, <2>1 DEF InitializeNext, SetNext
<1>6. ASSUME NEW r \in Replicas, FireAdvance(r) PROVE HasJob(i, t)
  <2>0. PICK f : f = replica[r].fired
    OBVIOUS
  <2>1. /\ f \in Held(r) /\ HasJob(f.id, f.next) /\ f.id \in Schedules /\ f.next \in Nat
        /\ schedule[f.id].cron = f.cron /\ f.cron \in Crons \ {NULL}
        /\ SetNext(f.id, NextRun(f.cron, f.next))
    BY Zenon, <1>6, <2>0, AdvanceFacts DEF Due
  <2>2. CASE i = f.id /\ schedule'[i].next = NextRun(f.cron, f.next)
    <3>1. Covered(i, schedule[i].next, f.next)
      BY Zenon, <2>1, <2>2 DEF SInv, NoGaps, InTouch
    <3>2. Covered(i, schedule[i].next, NextRun(schedule[i].cron, f.next))
      BY Zenon, <1>1, <2>1, <2>2, <3>1, AdvanceCovers
    <3> QED
      BY Zenon, <2>1, <2>2, <3>2 DEF Covered
  <2>3. CASE ~(i = f.id /\ schedule'[i].next = NextRun(f.cron, f.next))
    BY <1>0, <1>2, <2>1, <2>3 DEF SetNext
  <2> QED
    BY Zenon, <2>2, <2>3
<1> QED
  BY Zenon, <1>3, <1>4, <1>5, <1>6, MostStepsKeep DEF SInv

(* No occurrence is skipped: neither crashes and errors between the insert *)
(* of the job and the update of next_run_at, nor a Tick that works from    *)
(* rows read long ago, nor two replicas that both think they lead, make    *)
(* Tick move next_run_at past an occurrence without a job.                 *)
THEOREM NothingSkipped ==
    ASSUME Endless, OneInitializer
    PROVE  Spec => []NoGaps /\ NoOccurrenceSkipped
<1>1. Init => SInv
  BY SInvStep
<1>2. SInv /\ [Next]_vars => SInv'
  BY SInvStep
<1>3. SInv => NoGaps
  BY DEF SInv
<1> DEFINE Skip == \A i \in Schedules :
          LET from == schedule[i].next
              to == schedule'[i].next
          IN from # NULL /\ to # NULL /\ schedule[i].cron # NULL =>
                \A t \in schedule[i].cron :
                    from <= t /\ t < to => HasJob(i, t)
<1>4. SInv /\ [Next]_vars => [Skip]_vars
  BY Zenon, SkipStep
<1> QED
  BY <1>1, <1>2, <1>3, <1>4, PTL DEF Spec, NoOccurrenceSkipped

-----------------------------------------------------------------------------
(* Only occurrences get jobs. *)

(* The times in a row of the table, in the rows that replicas hold and in  *)
(* the jobs are proper ones; those of rows and jobs are not in the future. *)
ProperRow(i) ==
    schedule[i].state # "none" /\ schedule[i].cron # NULL /\ schedule[i].next # NULL
        => Proper(i, schedule[i].next)

ProperHeld(d) ==
    /\ schedule[d.id].state # "none" /\ schedule[d.id].cron = d.cron
    /\ d.next <= now
    /\ d.cron # NULL => Proper(d.id, d.next)

ProperJob(job) ==
    /\ schedule[job.schedule].state # "none" /\ schedule[job.schedule].cron # NULL
    /\ job.at <= now /\ Proper(job.schedule, job.at)

Timely ==
    /\ \A i \in Schedules : ProperRow(i)
    /\ \A r \in Replicas : replica[r].now <= now
    /\ \A r \in Replicas : \A d \in Held(r) : ProperHeld(d)
    /\ \A job \in Enqueued : ProperJob(job)

(* The rows that exist stay, with their expressions, and the clock does    *)
(* not go back.                                                            *)
Steady ==
    /\ now' \in Nat /\ now <= now'
    /\ \A i \in Schedules : schedule[i].state # "none" =>
          schedule'[i].state # "none" /\ schedule'[i].cron = schedule[i].cron

(* What initializeNextRuns and fire write is proper. *)
LEMMA NextRunProper ==
    ASSUME TypeOK, NEW i \in Schedules, schedule[i].cron # NULL, NEW t \in Nat, t <= now
    PROVE  NextRun(schedule[i].cron, t) \in Nat /\ Proper(i, NextRun(schedule[i].cron, t))
<1>1. now \in Nat /\ schedule[i].cron \in SUBSET Nat
  BY Zenon DEF TypeOK, Row
<1> DEFINE c == schedule[i].cron
           n == NextRun(c, t)
<1>2. n \in Nat
  BY Zenon, <1>1, NextRunType
<1>3. n \in c \/ (n = 0 /\ \A u \in c : u <= t)
  BY Zenon, <1>1, NextRunValue
<1> HIDE DEF n
<1>4. (\A u \in c : u <= t) => \A u \in c : u <= now
  BY <1>1
<1> QED
  BY Zenon, <1>2, <1>3, <1>4 DEF Proper, n

(* A proper time stays proper. *)
LEMMA ProperKept ==
    ASSUME TypeOK, Steady, NEW i \in Schedules, schedule[i].state # "none", schedule[i].cron # NULL,
           NEW t, Proper(i, t)
    PROVE  Proper(i, t)'
<1>1. now \in Nat /\ schedule[i].cron \in SUBSET Nat
  BY Zenon DEF TypeOK, Row
<1>2. schedule'[i].cron = schedule[i].cron /\ now' \in Nat /\ now <= now'
  BY Zenon DEF Steady
<1>3. (\A u \in schedule[i].cron : u <= now) => \A u \in schedule[i].cron : u <= now'
  BY <1>1, <1>2
<1> QED
  BY Zenon, <1>2, <1>3 DEF Proper

(* What is read, and what is enqueued, stays in order. *)
LEMMA ProperKeptRows ==
    ASSUME TypeOK, Steady
    PROVE  /\ \A d \in Due : ProperHeld(d) => ProperHeld(d)'
           /\ \A job \in Job : ProperJob(job) => ProperJob(job)'
<1>1. ASSUME NEW d \in Due, ProperHeld(d) PROVE ProperHeld(d)'
  <2>1. d.id \in Schedules /\ d.next \in Nat /\ now \in Nat
    BY Zenon DEF Due, TypeOK
  <2>2. schedule[d.id].state # "none" /\ schedule[d.id].cron = d.cron /\ d.next <= now
    BY Zenon, <1>1 DEF ProperHeld
  <2>3. d.next <= now'
    BY <2>1, <2>2 DEF Steady
  <2>4. d.cron # NULL => Proper(d.id, d.next)'
    BY Zenon, <1>1, <2>1, <2>2, ProperKept DEF ProperHeld
  <2> QED
    BY Zenon, <2>1, <2>2, <2>3, <2>4 DEF ProperHeld, Steady
<1>2. ASSUME NEW job \in Job, ProperJob(job) PROVE ProperJob(job)'
  <2>1. job.schedule \in Schedules /\ job.at \in Nat /\ now \in Nat
    BY Zenon DEF Job, TypeOK
  <2>2. /\ schedule[job.schedule].state # "none" /\ schedule[job.schedule].cron # NULL
        /\ job.at <= now /\ Proper(job.schedule, job.at)
    BY Zenon, <1>2 DEF ProperJob
  <2>3. job.at <= now'
    BY <2>1, <2>2 DEF Steady
  <2>4. Proper(job.schedule, job.at)'
    BY Zenon, <2>1, <2>2, ProperKept
  <2> QED
    BY Zenon, <2>1, <2>2, <2>3, <2>4 DEF ProperJob, Steady
<1> QED
  BY Zenon, <1>1, <1>2

(* The clock. *)
LEMMA ClockStep ==
    ASSUME TypeOK, [Next]_vars
    PROVE  now' = now \/ now' = now + 1
<1>1. ASSUME NEW r \in Replicas, BeginTick(r) \/ TickStep(r) \/ Failure(r) PROVE now' = now
  BY Zenon, <1>1 DEF TickStep, Failure, BeginTick, tryLock, SelectMissing, InitializeNext, InitializeFails,
     SelectDue, FireEnqueue, FireAdvance, FireUnparsable, EndOfRows, unlock, FireError, TickError,
     UnlockError, Crash, BreakLock
<1>2. ASSUME NEW i \in Schedules, Create(i) \/ Delete(i) \/ \E b \in BOOLEAN : SetEnabled(i, b)
      PROVE  now' = now
  BY Zenon, <1>2 DEF Create, Delete, SetEnabled
<1>3. CASE SessionEnds \/ Clock \/ UNCHANGED vars
  BY Zenon, <1>3 DEF SessionEnds, Clock, vars
<1> QED
  BY Zenon, <1>1, <1>2, <1>3 DEF Next

(* fire and initializeNextRuns write one proper time. *)
Written(i, t) ==
    /\ t \in Nat /\ SetNext(i, t) /\ Proper(i, t) /\ now' = now /\ jobs' = jobs
    /\ \A q \in Replicas : Held(q)' \subseteq Held(q)

(* initializeNextRuns counts from the argument of the Tick. *)
LEMMA InitializeWrites ==
    ASSUME TypeOK, Timely, NEW r \in Replicas, NEW i \in Schedules, InitializeNext(r, i)
    PROVE  \E t : Written(i, t)
<1>1. /\ schedule[i].cron # NULL /\ SetNext(i, NextRun(schedule[i].cron, replica[r].now))
      /\ replica' = [replica EXCEPT ![r].missing = @ \ {i}] /\ now' = now /\ jobs' = jobs
  BY Zenon DEF InitializeNext
<1>2. replica \in [Replicas -> Replica] /\ replica[r].now \in Nat /\ replica[r].now <= now
  BY Zenon DEF TypeOK, Replica, Timely
<1>3. \A q \in Replicas : Held(q)' \subseteq Held(q)
  BY <1>1, <1>2 DEF Held, Replica
<1> QED
  BY Zenon, <1>1, <1>2, <1>3, NextRunProper DEF Written

(* fire counts from the time of the row it has read. *)
LEMMA AdvanceWrites ==
    ASSUME TypeOK, FiredRow, Timely, NEW r \in Replicas, FireAdvance(r)
    PROVE  \E i \in Schedules : \E t : Written(i, t)
<1> DEFINE f == replica[r].fired
<1>1. /\ replica[r].pc = "enqueued" /\ SetNext(f.id, NextRun(f.cron, f.next))
      /\ replica' = [replica EXCEPT ![r].pc = "firing", ![r].fired = NULL] /\ now' = now /\ jobs' = jobs
  BY Zenon DEF FireAdvance
<1>2. f \in Due /\ f.cron # NULL /\ f \in Held(r)
  BY Zenon, <1>1 DEF FiredRow, Held
<1>3. f.id \in Schedules /\ f.next \in Nat
  BY Zenon, <1>2 DEF Due
<1>4. schedule[f.id].cron = f.cron /\ f.next <= now
  BY Zenon, <1>2 DEF Timely, ProperHeld
<1>5. replica \in [Replicas -> Replica]
  BY Zenon DEF TypeOK
<1>6. \A q \in Replicas : Held(q)' \subseteq Held(q)
  BY <1>1, <1>5 DEF Held, Replica
<1>7. NextRun(f.cron, f.next) \in Nat /\ Proper(f.id, NextRun(f.cron, f.next))
  BY Zenon, <1>2, <1>3, <1>4, NextRunProper
<1> QED
  BY Zenon, <1>1, <1>3, <1>6, <1>7 DEF Written

(* Every step is steady. *)
LEMMA SteadyStep ==
    ASSUME TypeOK, FiredRow, Phases, Timely, [Next]_vars
    PROVE  Steady
<1>1. now' \in Nat /\ now <= now'
  <2>1. now \in Nat
    BY Zenon DEF TypeOK
  <2> QED
    BY <2>1, ClockStep
<1>2. CASE Keeping
  BY Zenon, <1>1, <1>2 DEF Keeping, Steady
<1>3. ASSUME NEW i \in Schedules, NEW t, Written(i, t) PROVE Steady
  BY Zenon, <1>1, <1>3, SetNextRow DEF Written, Steady
<1>4. ASSUME NEW r \in Replicas, SelectDue(r) PROVE Steady
  BY Zenon, <1>1, <1>4 DEF SelectDue, Steady
<1> QED
  BY Zenon, <1>2, <1>3, <1>4, MostStepsKeep, InitializeWrites, AdvanceWrites

(* The argument of a Tick is not in the future. *)
LEMMA TickTime ==
    ASSUME TypeOK, \A r \in Replicas : replica[r].now <= now, [Next]_vars, NEW q \in Replicas
    PROVE  replica'[q].now <= now'
<1>1. replica \in [Replicas -> Replica] /\ now \in Nat /\ replica[q].now \in Nat /\ replica[q].now <= now
  BY Zenon DEF TypeOK, Replica
<1>2. ASSUME replica'[q].now \in {replica[q].now, now, 0} PROVE replica'[q].now <= now'
  BY <1>1, <1>2, ClockStep
<1> DEFINE Same == replica'[q].now = replica[q].now
<1> SUFFICES replica'[q].now \in {replica[q].now, now, 0}
  BY Zenon, <1>2
<1> USE DEF Replica
<1>3. ASSUME NEW r \in Replicas, unlock(r) \/ UnlockError(r) \/ Crash(r)
      PROVE  replica'[q].now \in {replica[q].now, now, 0}
  <2>1. replica' = [replica EXCEPT ![r] = IdleReplica] /\ IdleReplica.now = 0
    BY Zenon, <1>3 DEF unlock, UnlockError, Crash, IdleReplica
  <2> QED
    BY <1>1, <2>1
<1>4. ASSUME NEW r \in Replicas, BeginTick(r) PROVE replica'[q].now \in {replica[q].now, now, 0}
  BY <1>1, <1>4 DEF BeginTick, IdleReplica
<1>5. ASSUME NEW r \in Replicas, tryLock(r) \/ SelectMissing(r) \/ SelectDue(r) PROVE Same
  BY <1>1, <1>5 DEF tryLock, SelectMissing, SelectDue, Goto
<1>6. ASSUME NEW r \in Replicas, NEW i \in Schedules, InitializeNext(r, i) \/ InitializeFails(r, i)
      PROVE  Same
  BY <1>1, <1>6 DEF InitializeNext, InitializeFails, Goto
<1>7. ASSUME NEW r \in Replicas, FireEnqueue(r) PROVE Same
  <2>1. PICK d \in Heads(r) :
          replica' = [replica EXCEPT ![r].pc = "enqueued", ![r].due = @ \ {d}, ![r].fired = d]
    BY Zenon, <1>7 DEF FireEnqueue
  <2> QED
    BY <1>1, <2>1
<1>8. ASSUME NEW r \in Replicas, FireAdvance(r) \/ FireUnparsable(r) \/ EndOfRows(r) PROVE Same
  BY <1>1, <1>8 DEF FireAdvance, FireUnparsable, EndOfRows, Goto
<1>9. ASSUME NEW r \in Replicas, FireError(r) \/ TickError(r) PROVE Same
  BY <1>1, <1>9 DEF FireError, TickError, Goto
<1>10. ASSUME NEW r \in Replicas, BreakLock(r) PROVE Same
  BY Zenon, <1>10 DEF BreakLock
<1>11. ASSUME NEW i \in Schedules, Create(i) \/ Delete(i) \/ \E b \in BOOLEAN : SetEnabled(i, b)
       PROVE  Same
  BY Zenon, <1>11 DEF Create, Delete, SetEnabled
<1>12. CASE SessionEnds \/ Clock \/ UNCHANGED vars
  BY Zenon, <1>12 DEF SessionEnds, Clock, vars
<1> QED
  BY Zenon, <1>3, <1>4, <1>5, <1>6, <1>7, <1>8, <1>9, <1>10, <1>11, <1>12 DEF Next, TickStep, Failure

(* A row is inserted by Create only. *)
LEMMA NewRow ==
    ASSUME TypeOK, FiredRow, Timely, [Next]_vars, NEW i \in Schedules, schedule[i].state = "none"
    PROVE  schedule'[i] = schedule[i] \/ Create(i)
<1>0. schedule \in [Schedules -> Row]
  BY Zenon DEF TypeOK
<1>1. ASSUME NEW k \in Schedules, NEW t, Written(k, t) PROVE schedule'[i] = schedule[i]
  <2>1. t \in Nat /\ SetNext(k, t)
    BY Zenon, <1>1 DEF Written
  <2>2. schedule[k].state # "present" => schedule'[k] = schedule[k]
    BY Zenon, <2>1, SetNextRow
  <2>3. k # i => schedule'[i] = schedule[i]
    BY Zenon, <2>1, SetNextRow
  <2>4. k = i => schedule[k].state # "present"
    OBVIOUS
  <2> QED
    BY Zenon, <2>2, <2>3, <2>4
<1>2. ASSUME NEW r \in Replicas, BeginTick(r) \/ TickStep(r) \/ Failure(r), ~FireAdvance(r),
             ~\E k \in Schedules : InitializeNext(r, k)
      PROVE  schedule' = schedule
  BY Zenon, <1>2 DEF TickStep, Failure, BeginTick, tryLock, SelectMissing, InitializeFails,
     SelectDue, FireEnqueue, FireUnparsable, EndOfRows, unlock, FireError, TickError, UnlockError,
     Crash, BreakLock
<1>3. ASSUME NEW k \in Schedules, Create(k) \/ Delete(k) \/ \E b \in BOOLEAN : SetEnabled(k, b), ~Create(i)
      PROVE  schedule'[i] = schedule[i]
  BY <1>0, <1>3 DEF Create, Delete, SetEnabled
<1>4. CASE SessionEnds \/ Clock \/ UNCHANGED vars
  BY Zenon, <1>4 DEF SessionEnds, Clock, vars
<1>5. ASSUME NEW r \in Replicas, BeginTick(r) \/ TickStep(r) \/ Failure(r) PROVE schedule'[i] = schedule[i]
  BY Zenon, <1>1, <1>2, <1>5, InitializeWrites, AdvanceWrites
<1> QED
  BY Zenon, <1>3, <1>4, <1>5 DEF Next

(* Every step keeps the times of the table proper. *)
LEMMA ProperRowStep ==
    ASSUME TypeOK, FiredRow, Phases, Timely, Steady, [Next]_vars, NEW i \in Schedules
    PROVE  ProperRow(i)'
<1>0. ProperRow(i) /\ schedule \in [Schedules -> Row] /\ now \in Nat
  BY Zenon DEF Timely, TypeOK
<1>1. ASSUME schedule[i].state # "none", schedule'[i].next = schedule[i].next PROVE ProperRow(i)'
  <2>1. schedule'[i].cron = schedule[i].cron
    BY Zenon, <1>1 DEF Steady
  <2> QED
    BY Zenon, <1>0, <1>1, <2>1, ProperKept DEF ProperRow
<1>2. CASE schedule[i].state = "none"
  <2>1. CASE schedule'[i] = schedule[i]
    BY Zenon, <1>2, <2>1 DEF ProperRow
  <2>2. CASE Create(i)
    <3>1. PICK c \in Crons \ {NULL} :
            schedule' = [schedule EXCEPT ![i] = [state |-> "present", cron |-> c, enabled |-> TRUE,
                                                 next |-> NextRun(c, now)]]
      BY Zenon, <2>2 DEF Create
    <3>2. schedule'[i].cron = c /\ schedule'[i].next = NextRun(c, now) /\ now' = now
      BY <1>0, <2>2, <3>1 DEF Create
    <3>3. NextRun(c, now) \in c \/ (NextRun(c, now) = 0 /\ \A u \in c : u <= now)
      BY Zenon, <1>0, CronsAssumption, NextRunValue
    <3>4. Proper(i, NextRun(c, now))'
      BY Zenon, <3>2, <3>3 DEF Proper
    <3> QED
      BY Zenon, <3>2, <3>4 DEF ProperRow
  <2> QED
    BY Zenon, <1>2, <2>1, <2>2, NewRow
<1>3. ASSUME schedule[i].state # "none", NEW k \in Schedules, NEW t, Written(k, t) PROVE ProperRow(i)'
  <2>1. t \in Nat /\ SetNext(k, t) /\ Proper(k, t) /\ now' = now
    BY Zenon, <1>3 DEF Written
  <2>2. /\ schedule'[i].cron = schedule[i].cron
        /\ k # i => schedule'[i] = schedule[i]
        /\ k = i => schedule'[i].next = t \/ schedule'[i] = schedule[i]
    BY Zenon, <2>1, SetNextRow
  <2>3. CASE schedule'[i] = schedule[i]
    BY Zenon, <1>1, <1>3, <2>3
  <2>4. CASE k = i /\ schedule'[i].next = t
    <3>1. Proper(i, t)'
      BY Zenon, <2>1, <2>2, <2>4 DEF Proper
    <3> QED
      BY Zenon, <2>4, <3>1 DEF ProperRow
  <2> QED
    BY Zenon, <2>2, <2>3, <2>4
<1>4. ASSUME schedule[i].state # "none", NEW r \in Replicas, SelectDue(r) PROVE ProperRow(i)'
  BY Zenon, <1>1, <1>4 DEF SelectDue
<1>5. ASSUME schedule[i].state # "none", Keeping PROVE ProperRow(i)'
  BY Zenon, <1>1, <1>5 DEF Keeping
<1> QED
  BY Zenon, <1>2, <1>3, <1>4, <1>5, MostStepsKeep, InitializeWrites, AdvanceWrites

(* Every step keeps the times of the rows that replicas hold proper. *)
LEMMA ProperHeldStep ==
    ASSUME TypeOK, FiredRow, Phases, Timely, Steady, [Next]_vars, NEW q \in Replicas, NEW d \in Held(q)'
    PROVE  ProperHeld(d)'
<1>0. /\ replica \in [Replicas -> Replica] /\ schedule \in [Schedules -> Row] /\ now \in Nat
      /\ \A i \in Schedules : ProperRow(i)
  BY Zenon DEF TypeOK, Timely
<1>1. \A r \in Replicas : Held(r) \subseteq Due
  BY <1>0 DEF Held, FiredRow, Replica
<1>2. ASSUME d \in Held(q) PROVE ProperHeld(d)'
  BY Zenon, <1>1, <1>2, ProperKeptRows DEF Timely
<1>3. ASSUME NEW r \in Replicas, SelectDue(r) PROVE ProperHeld(d)'
  <2> DEFINE R == {[id |-> i, cron |-> schedule[i].cron, next |-> schedule[i].next] :
                     i \in {k \in Schedules : /\ schedule[k].state = "present"
                                              /\ schedule[k].enabled
                                              /\ schedule[k].next # NULL
                                              /\ schedule[k].next <= replica[r].now}}
  <2>1. CASE q # r
    <3>1. replica'[q] = replica[q]
      BY <1>0, <1>3, <2>1 DEF SelectDue
    <3> QED
      BY Zenon, <1>2, <3>1 DEF Held
  <2>2. CASE q = r
    <3>1. Held(r)' = R
      BY <1>0, <1>3 DEF SelectDue, Held, Replica
    <3>2. PICK i \in Schedules :
            /\ schedule[i].state = "present" /\ schedule[i].next # NULL
            /\ schedule[i].next <= replica[r].now
            /\ d = [id |-> i, cron |-> schedule[i].cron, next |-> schedule[i].next]
      BY Zenon, <2>2, <3>1
    <3>3. d.id = i /\ d.cron = schedule[i].cron /\ d.next = schedule[i].next
      BY Zenon, <3>2
    <3>4. d.next \in Nat /\ replica[r].now \in Nat /\ replica[r].now <= now
      BY Zenon, <1>0, <3>2, <3>3 DEF Row, Replica, Timely
    <3>5. d.next <= now
      BY <1>0, <3>2, <3>3, <3>4
    <3>6. schedule' = schedule /\ now' = now
      BY Zenon, <1>3 DEF SelectDue
    <3>7. schedule[i].cron # NULL => Proper(i, schedule[i].next)
      BY Zenon, <1>0, <3>2 DEF ProperRow
    <3> QED
      BY Zenon, <3>2, <3>3, <3>5, <3>6, <3>7 DEF ProperHeld, Proper
  <2> QED
    BY Zenon, <2>1, <2>2
<1>4. ASSUME NEW i \in Schedules, NEW t, Written(i, t) PROVE ProperHeld(d)'
  BY Zenon, <1>2, <1>4 DEF Written
<1>5. CASE Keeping
  BY Zenon, <1>2, <1>5 DEF Keeping
<1> QED
  BY Zenon, <1>3, <1>4, <1>5, MostStepsKeep, InitializeWrites, AdvanceWrites

(* Every step keeps the times of the jobs proper. *)
LEMMA ProperJobStep ==
    ASSUME TypeOK, FiredRow, Timely, Steady, [Next]_vars, NEW job \in Enqueued'
    PROVE  ProperJob(job)'
<1>1. ASSUME job \in Enqueued PROVE ProperJob(job)'
  <2>1. job \in Job
    BY Zenon, <1>1 DEF TypeOK
  <2> QED
    BY Zenon, <1>1, <2>1, ProperKeptRows DEF Timely
<1>2. ASSUME NEW r \in Replicas, FireEnqueue(r), job \notin Enqueued PROVE ProperJob(job)'
  <2>1. PICK d \in Heads(r) :
          d.cron # NULL /\ Enqueued' \subseteq Enqueued \cup {JobOf(d)}
    BY Zenon, <1>2, JobAdded
  <2>2. job = JobOf(d)
    BY Zenon, <1>2, <2>1
  <2>3. job.schedule = d.id /\ job.at = d.next
    BY Zenon, <2>2 DEF JobOf
  <2>4. d \in Due /\ d \in Held(r)
    BY Zenon, HeldType DEF Held
  <2>5. ProperHeld(d)'
    BY Zenon, <2>4, ProperKeptRows DEF Timely
  <2> QED
    BY Zenon, <2>1, <2>3, <2>5 DEF ProperHeld, ProperJob
<1>3. ASSUME NEW r \in Replicas, TickStep(r) \/ Failure(r) \/ BeginTick(r), ~FireEnqueue(r)
      PROVE  jobs' = jobs
  BY Zenon, <1>3 DEF TickStep, Failure, BeginTick, tryLock, SelectMissing, InitializeNext, InitializeFails,
     SelectDue, FireAdvance, FireUnparsable, EndOfRows, unlock, FireError, TickError, UnlockError,
     Crash, BreakLock
<1>4. ASSUME NEW i \in Schedules, Create(i) \/ Delete(i) \/ \E b \in BOOLEAN : SetEnabled(i, b)
      PROVE  jobs' = jobs
  BY Zenon, <1>4 DEF Create, Delete, SetEnabled
<1>5. CASE SessionEnds \/ Clock \/ UNCHANGED vars
  BY Zenon, <1>1, <1>5 DEF SessionEnds, Clock, vars, Enqueued
<1>6. jobs' = jobs => job \in Enqueued
  BY Zenon DEF Enqueued
<1> QED
  BY Zenon, <1>1, <1>2, <1>3, <1>4, <1>5, <1>6 DEF Next

(* Initially the times in the table are those it was loaded with. *)
LEMMA TimelyInit ==
    ASSUME Init
    PROVE  Phases /\ Timely
<1>1. \A r \in Replicas : replica[r] = IdleReplica
  BY DEF Init
<1>2. /\ IdleReplica.pc = "idle" /\ IdleReplica.due = {} /\ IdleReplica.missing = {}
      /\ IdleReplica.now = 0
  BY DEF IdleReplica
<1>3. Phases /\ \A r \in Replicas : Held(r) = {}
  BY Zenon, <1>1, <1>2 DEF Phases, Held
<1>4. Enqueued = {} /\ now = 0 /\ \A r \in Replicas : replica[r].now <= now
  <2>1. now = 0 /\ 0 <= 0
    BY DEF Init
  <2> QED
    BY Zenon, <1>1, <1>2, <2>1, NoJobs
<1>5. ASSUME NEW i \in Schedules PROVE ProperRow(i)
  <2>1. PICK cron \in [DOMAIN Loaded -> Crons] :
          schedule = [k \in Schedules |->
                        IF k \in DOMAIN Loaded
                        THEN [state |-> "present", cron |-> cron[k], enabled |-> TRUE,
                              next |-> Loaded[k]]
                        ELSE NoRow]
    BY Zenon DEF Init
  <2>2. i \in DOMAIN Loaded => schedule[i].next = Loaded[i]
    BY <2>1
  <2>3. i \notin DOMAIN Loaded => schedule[i].state = "none"
    BY <2>1 DEF NoRow
  <2> QED
    BY Zenon, <2>2, <2>3 DEF ProperRow, Proper
<1> QED
  BY Zenon, <1>3, <1>4, <1>5 DEF Timely

(* Only occurrences get jobs, and not before they are due.  Any number of  *)
(* replicas may overlap, fire rows that are out of date and set            *)
(* next_run_at back: every time they write comes from the schedule's own   *)
(* expression.  Neither the lock nor Endless is needed.                    *)
THEOREM JobsOnlyForOccurrences == Spec => []OnlyOccurrences
<1> DEFINE TInv == TypeOK /\ FiredRow /\ Phases /\ Timely
<1>1. Init => TInv
  BY InitTypes, TimelyInit
<1>2. ASSUME TInv, [Next]_vars PROVE TInv'
  <2>1. TypeOK' /\ FiredRow'
    BY Zenon, <1>2, TypeOKStep
  <2>2. Phases'
    BY Zenon, <1>2, ReplicaMoves DEF Phases
  <2>3. Steady
    BY Zenon, <1>2, SteadyStep
  <2>4. Timely'
    <3>1. \A i \in Schedules : ProperRow(i)'
      BY Zenon, <1>2, <2>3, ProperRowStep
    <3>2. \A r \in Replicas : replica'[r].now <= now'
      BY Zenon, <1>2, TickTime DEF Timely
    <3>3. \A r \in Replicas : \A d \in Held(r)' : ProperHeld(d)'
      BY Zenon, <1>2, <2>3, ProperHeldStep
    <3>4. \A job \in Enqueued' : ProperJob(job)'
      BY Zenon, <1>2, <2>3, ProperJobStep
    <3> QED
      BY Zenon, <3>1, <3>2, <3>3, <3>4 DEF Timely
  <2> QED
    BY Zenon, <2>1, <2>2, <2>4
<1>3. TInv => OnlyOccurrences
  BY Zenon DEF Timely, ProperJob, OnlyOccurrences
<1> QED
  BY <1>1, <1>2, <1>3, PTL DEF Spec
=============================================================================
