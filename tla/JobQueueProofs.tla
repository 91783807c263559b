--------------------------- MODULE JobQueueProofs ----------------------------
(***************************************************************************)
(* Theorems about JobQueue, for every value of its constants: what the     *)
(* statements of its transactions keep, that they implement JobLeases, and *)
(* what job_runs records.                                                  *)
(***************************************************************************)
EXTENDS JobQueue, JobRowsProofs, TLAPS

-----------------------------------------------------------------------------
(* The times of transactions are natural numbers. *)
LEMMA Times ==
    ASSUME TypeOK
    PROVE  /\ StartTimes \subseteq Nat
           /\ \A t \in StartTimes : t <= now
  BY SMTT(60) DEF TypeOK, StartTimes

(* Closing runs, appending one and settling one keep job_runs well typed. *)
LEMMA RunUpdates ==
    ASSUME TypeOK, NEW s \in Sessions, NEW j \in Jobs
    PROVE  /\ ClosedRuns(s, j) \in Seq(Run)
           /\ Len(ClosedRuns(s, j)) = Len(runs[j])
           /\ NewRun(s, j) \in Run
           /\ Append(ClosedRuns(s, j), NewRun(s, j)) \in Seq(Run)
<1>1. runs[j] \in Seq(Run) /\ job[j] \in Row /\ tx[s] \in Tx
  BY DEF TypeOK
<1>2. \A i \in DOMAIN runs[j] : ClosedRuns(s, j)[i] \in Run
  <2> SUFFICES ASSUME NEW i \in DOMAIN runs[j] PROVE ClosedRuns(s, j)[i] \in Run
    OBVIOUS
  <2>1. runs[j][i] \in Run
    BY <1>1
  <2>2. [runs[j][i] EXCEPT !.status = "failed"] \in Run
    BY <2>1 DEF Run
  <2> QED
    BY <2>1, <2>2 DEF ClosedRuns
<1>3. ClosedRuns(s, j) \in Seq(Run) /\ Len(ClosedRuns(s, j)) = Len(runs[j])
  <2>1. DOMAIN runs[j] = 1 .. Len(runs[j]) /\ Len(runs[j]) \in Nat
    BY <1>1
  <2>2. ClosedRuns(s, j) \in [1 .. Len(runs[j]) -> Run]
    BY Zenon, <1>2, <2>1 DEF ClosedRuns
  <2> QED
    BY <2>1, <2>2
<1>4. NewRun(s, j) \in Run
  BY SMTT(60), <1>1 DEF NewRun, Run, Row, Tx
<1> QED
  BY <1>3, <1>4

(* The statements keep the record of their transaction well typed. *)
LEMMA TxTypes ==
    ASSUME NEW t \in Tx
    PROVE  /\ \A c \in [Jobs -> SUBSET Nat] : [t EXCEPT !.stmt = "closed", !.closing = c] \in Tx
           /\ \A J \in SUBSET Jobs : [t EXCEPT !.stmt = "reclaimed", !.reclaiming = J] \in Tx
           /\ \A J \in SUBSET Jobs : [t EXCEPT !.stmt = "picked", !.picked = J] \in Tx
           /\ \A i \in Nat : [t EXCEPT !.stmt = "waiting", !.target = i] \in Tx
<1>1. ASSUME NEW c \in [Jobs -> SUBSET Nat]
      PROVE  [t EXCEPT !.stmt = "closed", !.closing = c] \in Tx
  BY Zenon DEF Tx, Stmt
<1>2. ASSUME NEW J \in SUBSET Jobs
      PROVE  [t EXCEPT !.stmt = "reclaimed", !.reclaiming = J] \in Tx
  BY Zenon DEF Tx, Stmt
<1>3. ASSUME NEW J \in SUBSET Jobs
      PROVE  [t EXCEPT !.stmt = "picked", !.picked = J] \in Tx
  BY Zenon DEF Tx, Stmt
<1>4. ASSUME NEW i \in Nat
      PROVE  [t EXCEPT !.stmt = "waiting", !.target = i] \in Tx
  BY Zenon DEF Tx, Stmt
<1> QED
  BY Zenon, <1>1, <1>2, <1>3, <1>4

(* Open runs are numbered from 1, as 0 stands for none. *)
LEMMA OpenRunNumbers ==
    ASSUME NEW j \in Jobs, runs[j] \in Seq(Run)
    PROVE  OpenRuns(j) \subseteq 1 .. Len(runs[j]) /\ OpenRuns(j) \subseteq Nat \ {0}
<1>1. DOMAIN runs[j] = 1 .. Len(runs[j]) /\ Len(runs[j]) \in Nat
  OBVIOUS
<1>2. OpenRuns(j) \subseteq DOMAIN runs[j]
  BY Zenon DEF OpenRuns
<1>3. 1 .. Len(runs[j]) \subseteq Nat \ {0}
  BY <1>1
<1> QED
  BY Zenon, <1>1, <1>2, <1>3

(* finishRunSQL keeps job_runs well typed, whichever run it names. *)
LEMMA FinishedRuns ==
    ASSUME NEW q \in Seq(Run), NEW i, NEW o \in {"succeeded", "failed", "dead"}
    PROVE  [q EXCEPT ![i].status = o] \in Seq(Run)
<1>1. q \in [1 .. Len(q) -> Run] /\ DOMAIN q = 1 .. Len(q) /\ Len(q) \in Nat
  OBVIOUS
<1>2. CASE i \in DOMAIN q
  <2>1. q[i] \in Run
    BY <1>1, <1>2
  <2>2. [q[i] EXCEPT !.status = o] \in Run
    BY Zenon, <2>1 DEF Run
  <2>3. [q EXCEPT ![i] = [q[i] EXCEPT !.status = o]] \in [1 .. Len(q) -> Run]
    BY Zenon, <1>1, <2>2
  <2>4. [q EXCEPT ![i] = [q[i] EXCEPT !.status = o]] \in Seq(Run)
    BY <1>1, <2>3
  <2> QED
    BY <2>4
<1>3. CASE i \notin DOMAIN q
  <2>1. [q EXCEPT ![i].status = o] = q
    BY <1>1, <1>3
  <2> QED
    BY Zenon, <2>1
<1> QED
  BY <1>2, <1>3

-----------------------------------------------------------------------------
(* The tables and the transactions keep their types in every step. *)
LEMMA TypeOKStep == TypeOK /\ LocksMatchStatement /\ [Next]_vars => TypeOK'
<1> SUFFICES ASSUME TypeOK, LocksMatchStatement, [Next]_vars PROVE TypeOK'
  BY Zenon
<1>t. /\ now \in Nat
      /\ tenants \subseteq {Normal(j).tenant : j \in Jobs}
      /\ job \in [Jobs -> Row]
      /\ runs \in [Jobs -> Seq(Run)]
      /\ deadLetter \subseteq Jobs
      /\ tx \in [Sessions -> Tx]
  BY DEF TypeOK
<1>j. \A s \in Sessions : tx[s].stmt \in {"settling", "waiting"} => tx[s].job \in Jobs
  BY <1>t DEF LocksMatchStatement, LocksMatch, Tx
<1>n. NoTx \in Tx
  BY DEF NoTx, Tx, Stmt
<1>1. ASSUME NEW s \in Sessions, NEW w \in Workers, BeginDequeue(s, w) PROVE TypeOK'
  <2>1. [NoTx EXCEPT !.stmt = "begun", !.at = now, !.by = w] \in Tx
    BY Zenon, <1>t, <1>n DEF Tx, Stmt
  <2> QED
    BY <1>1, <1>t, <2>1 DEF BeginDequeue, TypeOK, tables
<1>2. ASSUME NEW s \in Sessions, CloseExpiredRuns(s) PROVE TypeOK'
  <2>1. \A j \in Jobs : AbandonedRuns(s, j) \in SUBSET Nat
    BY <1>t DEF AbandonedRuns, OpenRuns
  <2> DEFINE c == [j \in Jobs |-> AbandonedRuns(s, j)]
  <2>2. c \in [Jobs -> SUBSET Nat]
    BY <2>1
  <2> HIDE DEF c
  <2>3. [tx[s] EXCEPT !.stmt = "closed", !.closing = c] \in Tx
    BY Zenon, <1>t, <2>2, TxTypes
  <2> QED
    BY <1>2, <1>t, <2>3 DEF CloseExpiredRuns, TypeOK, tables, c
<1>3. ASSUME NEW s \in Sessions, ReclaimExpiredJobs(s) PROVE TypeOK'
  <2> DEFINE expired == {j \in Jobs : Expired(job[j], tx[s].at)}
  <2>1. expired \in SUBSET Jobs
    OBVIOUS
  <2> HIDE DEF expired
  <2>2. [tx[s] EXCEPT !.stmt = "reclaimed", !.reclaiming = expired] \in Tx
    BY Zenon, <1>t, <2>1, TxTypes
  <2> QED
    BY <1>3, <1>t, <2>2 DEF ReclaimExpiredJobs, TypeOK, tables, expired
<1>4. ASSUME NEW s \in Sessions, PickJobs(s) PROVE TypeOK'
  <2>1. PICK P \in Picks(s) : tx' = [tx EXCEPT ![s].stmt = "picked", ![s].picked = P]
    BY Zenon, <1>4 DEF PickJobs
  <2>2. P \in SUBSET Jobs
    BY DEF Picks, Eligible
  <2>3. [tx[s] EXCEPT !.stmt = "picked", !.picked = P] \in Tx
    BY Zenon, <1>t, <2>2, TxTypes
  <2> QED
    BY Zenon, <1>4, <1>t, <2>1, <2>3 DEF PickJobs, TypeOK, tables
<1>5. ASSUME NEW s \in Sessions, CommitDequeue(s) PROVE TypeOK'
  <2>1. tx[s].by \in Workers \cup {NULL} /\ tx[s].at \in Nat
    BY <1>t DEF Tx
  <2>2. \A j \in Jobs : /\ ClaimedRow(job[j], tx[s].by, tx[s].at) \in Row
                        /\ ReclaimedRow(job[j]) \in Row
                        /\ job[j] \in Row
    BY Zenon, <1>t, <2>1, ClaimedRowType, RowTypes
  <2>3. job' \in [Jobs -> Row]
    BY <1>5, <2>2 DEF CommitDequeue
  <2>4. \A j \in Jobs : /\ ClosedRuns(s, j) \in Seq(Run)
                        /\ Append(ClosedRuns(s, j), NewRun(s, j)) \in Seq(Run)
    BY RunUpdates
  <2>5. runs' \in [Jobs -> Seq(Run)]
    BY <1>5, <2>4 DEF CommitDequeue
  <2> QED
    BY Zenon, <1>5, <1>t, <1>n, <2>3, <2>5 DEF CommitDequeue, TypeOK
<1>6. ASSUME NEW s \in Sessions, NEW w \in Workers \cup {NULL}, NEW j \in Jobs,
             BeginAck(s, w, j) \/ BeginNack(s, w, j)
      PROVE TypeOK'
  <2>1. PICK o \in {"succeeded", "failed", "dead"} : BeginSettling(s, w, j, o)
    BY <1>6 DEF BeginAck, BeginNack
  <2>2. PICK t \in StartTimes :
           tx' = [tx EXCEPT ![s] = [NoTx EXCEPT !.stmt = "settling", !.at = t, !.by = w,
                                                !.job = j, !.outcome = o]]
    BY Zenon, <2>1 DEF BeginSettling
  <2>3. [NoTx EXCEPT !.stmt = "settling", !.at = t, !.by = w, !.job = j, !.outcome = o] \in Tx
    BY Zenon, <1>n, Times DEF Tx, Stmt
  <2> QED
    BY <2>1, <1>t, <2>2, <2>3 DEF BeginSettling, TypeOK, tables
<1>7. ASSUME NEW s \in Sessions, NEW i, tx[s].job \in Jobs, CommitSettling(s, i)
      PROVE TypeOK'
  <2>1. PICK d \in Delays(job[tx[s].job].attempts) :
           job' = [job EXCEPT ![tx[s].job] =
                      SettledRow(tx[s].job, tx[s].outcome, tx[s].at + d)]
    BY Zenon, <1>7 DEF CommitSettling
  <2>2. tx[s].at + d \in Nat /\ tx[s].outcome \in {"succeeded", "failed", "dead"}
    <3>1. job[tx[s].job].attempts \in Nat
      BY <1>7, <1>t DEF Row
    <3> QED
      BY <1>t, <3>1, DelayType DEF Tx
  <2>3. \A j \in Jobs : SettledRow(j, tx[s].outcome, tx[s].at + d) \in Row
    BY <1>t, <2>2, RowTypes DEF SettledRow
  <2>4. job' \in [Jobs -> Row]
    BY Zenon, <1>t, <2>1, <2>3
  <2>5. deadLetter' \subseteq Jobs
    BY <1>7, <1>t DEF CommitSettling
  <2>6. runs' \in [Jobs -> Seq(Run)]
    <3>1. [runs[tx[s].job] EXCEPT ![i].status = tx[s].outcome] \in Seq(Run)
      BY Zenon, <1>7, <1>t, <2>2, FinishedRuns
    <3> QED
      BY Zenon, <1>7, <1>t, <3>1 DEF CommitSettling
  <2> QED
    BY Zenon, <1>7, <1>t, <1>n, <2>4, <2>5, <2>6 DEF CommitSettling, TypeOK
<1>8. ASSUME NEW s \in Sessions, FinishRun(s) PROVE TypeOK'
  BY <1>7, <1>8, <1>j DEF FinishRun
<1>9. ASSUME NEW s \in Sessions, WaitForRun(s) PROVE TypeOK'
  <2>1. PICK i \in NewestOpenRuns(tx[s].job) :
           tx' = [tx EXCEPT ![s].stmt = "waiting", ![s].target = i]
    BY Zenon, <1>9 DEF WaitForRun
  <2>2. i \in Nat
    <3>1. tx[s].job \in Jobs /\ i \in OpenRuns(tx[s].job)
      BY Zenon, <1>9, <1>j, <2>1 DEF WaitForRun, NewestOpenRuns
    <3> QED
      BY Zenon, <1>t, <3>1, OpenRunNumbers
  <2>3. [tx[s] EXCEPT !.stmt = "waiting", !.target = i] \in Tx
    BY Zenon, <1>t, <2>2, TxTypes
  <2> QED
    BY Zenon, <1>9, <1>t, <2>1, <2>3 DEF WaitForRun, TypeOK, tables
<1>10. ASSUME NEW s \in Sessions, FinishAwaitedRun(s) PROVE TypeOK'
  BY <1>7, <1>10, <1>j DEF FinishAwaitedRun
<1>11. ASSUME NEW s \in Sessions, rollback(s) PROVE TypeOK'
  BY <1>11, <1>t, <1>n DEF rollback, TypeOK, tables
<1>12. ASSUME NEW j \in Jobs, ensureTenant(j) PROVE TypeOK'
  BY <1>12, <1>t DEF ensureTenant, TypeOK
<1>13. ASSUME NEW j \in Jobs, Enqueue(j) PROVE TypeOK'
  BY <1>13, <1>t, Times, InsertedRowType DEF Enqueue, TypeOK
<1>14. ASSUME NEW j \in Jobs, Cancel(j) PROVE TypeOK'
  BY <1>14, <1>t, RowTypes DEF Cancel, TypeOK
<1>15. ASSUME NEW j \in Jobs, RequeueDLQ(j) PROVE TypeOK'
  <2>1. PICK t \in StartTimes : job' = [job EXCEPT ![j] = RequeuedRow(@, t)]
    BY Zenon, <1>15 DEF RequeueDLQ
  <2>2. RequeuedRow(job[j], t) \in Row
    BY Zenon, <1>t, Times, RowTypes
  <2> QED
    BY <1>15, <1>t, <2>1, <2>2 DEF RequeueDLQ, TypeOK
<1>16. ASSUME NEW w \in Workers, NEW j \in Jobs, ExtendLease(w, j) PROVE TypeOK'
  <2>1. PICK t \in StartTimes : job' = [job EXCEPT ![j] = ExtendedRow(@, t)]
    BY Zenon, <1>16 DEF ExtendLease
  <2>2. ExtendedRow(job[j], t) \in Row
    BY Zenon, <1>t, Times, RowTypes
  <2> QED
    BY <1>16, <1>t, <2>1, <2>2 DEF ExtendLease, TypeOK
<1>17. ASSUME Tick PROVE TypeOK'
  BY <1>17, <1>t DEF Tick, TypeOK, tables
<1>18. CASE UNCHANGED vars
  BY <1>18, <1>t DEF vars, TypeOK
<1> QED
  BY <1>1, <1>2, <1>3, <1>4, <1>5, <1>6, <1>8, <1>9, <1>10, <1>11, <1>12, <1>13,
     <1>14, <1>15, <1>16, <1>17, <1>18
  DEF Next, BeginTx, NextStatement, Autocommit

-----------------------------------------------------------------------------
(* What a statement does to the record of its transaction. *)
LEMMA CloseExpiredRunsTx ==
    ASSUME TypeOK, NEW s \in Sessions, CloseExpiredRuns(s)
    PROVE  /\ tx'[s].stmt = "closed" /\ tx'[s].at = tx[s].at /\ tx'[s].by = tx[s].by
           /\ tx'[s].closing = [j \in Jobs |-> AbandonedRuns(s, j)]
           /\ tx'[s].reclaiming = tx[s].reclaiming /\ tx'[s].picked = tx[s].picked
           /\ tx'[s].job = tx[s].job
  BY DEF CloseExpiredRuns, TypeOK, Tx

(* ReclaimExpiredJobs changes the statement and the reclaimed jobs only. *)
LEMMA ReclaimExpiredJobsTx ==
    ASSUME TypeOK, NEW s \in Sessions, ReclaimExpiredJobs(s)
    PROVE  /\ tx'[s].stmt = "reclaimed" /\ tx'[s].at = tx[s].at /\ tx'[s].by = tx[s].by
           /\ tx'[s].closing = tx[s].closing
           /\ tx'[s].reclaiming = {j \in Jobs : Expired(job[j], tx[s].at)}
           /\ tx'[s].picked = tx[s].picked /\ tx'[s].job = tx[s].job
  BY DEF ReclaimExpiredJobs, TypeOK, Tx

(* PickJobs changes the statement and the picked jobs only. *)
LEMMA PickJobsTx ==
    ASSUME TypeOK, NEW s \in Sessions, PickJobs(s)
    PROVE  /\ tx'[s].stmt = "picked" /\ tx'[s].at = tx[s].at /\ tx'[s].by = tx[s].by
           /\ tx'[s].closing = tx[s].closing /\ tx'[s].reclaiming = tx[s].reclaiming
           /\ tx'[s].picked \subseteq Eligible(s)
           /\ tx'[s].job = tx[s].job
  BY DEF PickJobs, Picks, TypeOK, Tx

(* WaitForRun changes the statement and the awaited run only. *)
LEMMA WaitForRunTx ==
    ASSUME TypeOK, NEW s \in Sessions, WaitForRun(s)
    PROVE  /\ tx'[s].stmt = "waiting" /\ tx'[s].at = tx[s].at /\ tx'[s].by = tx[s].by
           /\ tx'[s].closing = tx[s].closing /\ tx'[s].reclaiming = tx[s].reclaiming
           /\ tx'[s].picked = tx[s].picked /\ tx'[s].job = tx[s].job
           /\ tx'[s].outcome = tx[s].outcome
           /\ tx'[s].target \in OpenRuns(tx[s].job)
  BY DEF WaitForRun, NewestOpenRuns, TypeOK, Tx

(* Ack and Nack open a transaction that holds one job row and no run. *)
LEMMA BeginSettlingTx ==
    ASSUME TypeOK, NEW s \in Sessions, NEW w, NEW j, NEW o, BeginSettling(s, w, j, o)
    PROVE  /\ tx'[s].stmt = "settling" /\ tx'[s].at <= now /\ tx'[s].by = w
           /\ tx'[s].closing = [k \in Jobs |-> {}] /\ tx'[s].reclaiming = {}
           /\ tx'[s].picked = {} /\ tx'[s].job = j /\ tx'[s].outcome = o
  BY Times DEF BeginSettling, TypeOK, NoTx

(* A session other than the one that acts keeps its transaction. *)
LEMMA OthersKeepTx ==
    ASSUME TypeOK, NEW s \in Sessions, NEW o \in Sessions \ {s},
           BeginTx(s) \/ NextStatement(s) \/ rollback(s)
    PROVE  tx'[o] = tx[o]
<1>1. tx \in [Sessions -> Tx]
  BY DEF TypeOK
<1>2. CASE BeginTx(s)
  BY Zenon, <1>1, <1>2 DEF BeginTx, BeginDequeue, BeginAck, BeginNack, BeginSettling
<1>3. CASE NextStatement(s)
  BY Zenon, <1>1, <1>3 DEF NextStatement, CloseExpiredRuns, ReclaimExpiredJobs, PickJobs,
     CommitDequeue, FinishRun, WaitForRun, FinishAwaitedRun, CommitSettling
<1>4. CASE rollback(s)
  BY <1>1, <1>4 DEF rollback
<1> QED
  BY <1>2, <1>3, <1>4

(* job_runs only grows. *)
LEMMA RunsGrow ==
    ASSUME TypeOK, [Next]_vars
    PROVE  \A j \in Jobs : DOMAIN runs[j] \subseteq DOMAIN runs'[j]
<1>1. runs \in [Jobs -> Seq(Run)]
  BY DEF TypeOK
<1>2. ASSUME NEW s \in Sessions, NEW i, CommitSettling(s, i)
      PROVE  \A j \in Jobs : DOMAIN runs[j] \subseteq DOMAIN runs'[j]
  BY <1>1, <1>2 DEF CommitSettling
<1>3. ASSUME NEW s \in Sessions, CommitDequeue(s)
      PROVE  \A j \in Jobs : DOMAIN runs[j] \subseteq DOMAIN runs'[j]
  <2> SUFFICES ASSUME NEW j \in Jobs PROVE DOMAIN runs[j] \subseteq DOMAIN runs'[j]
    OBVIOUS
  <2>1. runs'[j] = ClosedRuns(s, j) \/ runs'[j] = Append(ClosedRuns(s, j), NewRun(s, j))
    BY <1>3 DEF CommitDequeue
  <2>2. /\ ClosedRuns(s, j) \in Seq(Run) /\ Len(ClosedRuns(s, j)) = Len(runs[j])
        /\ NewRun(s, j) \in Run
    BY RunUpdates
  <2> QED
    BY <1>1, <2>1, <2>2
<1>4. ASSUME runs' = runs PROVE \A j \in Jobs : DOMAIN runs[j] \subseteq DOMAIN runs'[j]
  BY <1>4
<1>5. ASSUME NEW s \in Sessions, BeginTx(s) \/ rollback(s) PROVE runs' = runs
  BY Zenon, <1>5 DEF BeginTx, BeginDequeue, BeginAck, BeginNack, BeginSettling, rollback, tables
<1>6. ASSUME NEW s \in Sessions, NextStatement(s)
      PROVE  \A j \in Jobs : DOMAIN runs[j] \subseteq DOMAIN runs'[j]
  <2>1. \/ CommitDequeue(s) \/ \E i : CommitSettling(s, i)
        \/ runs' = runs
    BY Zenon, <1>6 DEF NextStatement, CloseExpiredRuns, ReclaimExpiredJobs, PickJobs, FinishRun,
       WaitForRun, FinishAwaitedRun, tables
  <2> QED
    BY <2>1, <1>2, <1>3, <1>4
<1>7. ASSUME Autocommit \/ Tick \/ UNCHANGED vars PROVE runs' = runs
  BY Zenon, <1>7 DEF Autocommit, ensureTenant, Enqueue, Cancel, RequeueDLQ, ExtendLease, Tick,
     vars, tables
<1> QED
  BY <1>4, <1>5, <1>6, <1>7 DEF Next

-----------------------------------------------------------------------------
(* A transaction holds exactly the locks of its statements. *)
LEMMA LocksMatchStep ==
    TypeOK /\ LocksMatchStatement /\ [Next]_vars => LocksMatchStatement'
<1> SUFFICES ASSUME TypeOK, LocksMatchStatement, [Next]_vars, NEW o \in Sessions
             PROVE  LocksMatch(o)'
  BY DEF LocksMatchStatement
<1>t. now \in Nat /\ tx \in [Sessions -> Tx] /\ tx[o] \in Tx
  BY DEF TypeOK
<1>m. LocksMatch(o)
  BY DEF LocksMatchStatement
<1>1. ASSUME tx'[o] = tx[o], now' \in {now, now + 1} PROVE LocksMatch(o)'
  <2>1. tx[o].at <= now' /\ tx[o].job \in Jobs \cup {NULL}
    BY SMTT(60), <1>1, <1>t, <1>m DEF LocksMatch, Tx
  <2>2. tx[o].stmt = "waiting" => tx[o].target \in DOMAIN runs'[tx[o].job]
    BY <2>1, <1>m, RunsGrow DEF LocksMatch
  <2> QED
    BY Zenon, <1>1, <1>m, <2>1, <2>2 DEF LocksMatch
<1>2. ASSUME tx'[o] = NoTx, now' = now PROVE LocksMatch(o)'
  BY SMTT(60), <1>2, <1>t DEF LocksMatch, NoTx
<1>3. ASSUME NEW s \in Sessions, BeginTx(s) \/ NextStatement(s) \/ rollback(s), s # o
      PROVE  LocksMatch(o)'
  <2>1. tx'[o] = tx[o]
    BY <1>3, OthersKeepTx
  <2>2. now' = now
    BY Zenon, <1>3 DEF BeginTx, BeginDequeue, BeginAck, BeginNack, BeginSettling, NextStatement,
       CloseExpiredRuns, ReclaimExpiredJobs, PickJobs, CommitDequeue, FinishRun, WaitForRun,
       FinishAwaitedRun, CommitSettling, rollback
  <2> QED
    BY <1>1, <2>1, <2>2
<1>4. ASSUME NEW w \in Workers, BeginDequeue(o, w) PROVE LocksMatch(o)'
  <2>1. w # NULL
    BY NullAssumption
  <2> QED
    BY <1>4, <1>t, <2>1 DEF BeginDequeue, LocksMatch, NoTx
<1>5. ASSUME NEW w, NEW j \in Jobs, NEW out, BeginSettling(o, w, j, out)
      PROVE  LocksMatch(o)'
  <2>1. j # NULL
    BY NullAssumption
  <2>2. now' = now
    BY <1>5 DEF BeginSettling
  <2>3. /\ tx'[o].stmt = "settling" /\ tx'[o].at <= now
        /\ tx'[o].closing = [k \in Jobs |-> {}] /\ tx'[o].reclaiming = {}
        /\ tx'[o].picked = {} /\ tx'[o].job = j
    BY Zenon, <1>5, BeginSettlingTx
  <2> QED
    BY <2>1, <2>2, <2>3 DEF LocksMatch
<1>6. CASE CloseExpiredRuns(o)
  BY Zenon, <1>6, <1>m, CloseExpiredRunsTx DEF CloseExpiredRuns, LocksMatch
<1>7. CASE ReclaimExpiredJobs(o)
  BY Zenon, <1>7, <1>m, ReclaimExpiredJobsTx DEF ReclaimExpiredJobs, LocksMatch
<1>8. CASE PickJobs(o)
  BY Zenon, <1>8, <1>m, PickJobsTx DEF PickJobs, LocksMatch
<1>9. CASE WaitForRun(o)
  BY Zenon, <1>9, <1>m, WaitForRunTx DEF WaitForRun, LocksMatch, OpenRuns, tables
<1>10. CASE CommitDequeue(o) \/ (\E i : CommitSettling(o, i)) \/ rollback(o)
  BY Zenon, <1>10, <1>2, <1>t DEF CommitDequeue, CommitSettling, rollback
<1>11. CASE Autocommit \/ Tick \/ UNCHANGED vars
  <2>1. tx' = tx /\ now' \in {now, now + 1}
    BY Zenon, <1>11 DEF Autocommit, ensureTenant, Enqueue, Cancel, RequeueDLQ, ExtendLease, Tick, vars
  <2> QED
    BY <1>1, <2>1
<1>12. CASE BeginTx(o)
  BY <1>4, <1>5, <1>12 DEF BeginTx, BeginAck, BeginNack
<1>13. CASE NextStatement(o)
  BY Zenon, <1>6, <1>7, <1>8, <1>9, <1>10, <1>13 DEF NextStatement, FinishRun, FinishAwaitedRun
<1> QED
  BY <1>3, <1>10, <1>11, <1>12, <1>13 DEF Next

-----------------------------------------------------------------------------
(* What keeps the rows of a session as it read them while others act: its  *)
(* own record, the jobs it has locked and the runs it has locked.          *)
LEMMA AsReadFrame ==
    ASSUME NEW o \in Sessions, TypeOK, AsRead(o), tx'[o] = tx[o],
           \A j \in RowsLocked(o) : job'[j] = job[j],
           \A j \in Jobs : tx[o].closing[j] \subseteq OpenRuns(j)'
    PROVE  AsRead(o)'
<1>1. tx[o] \in Tx
  BY DEF TypeOK
<1>2. \A j \in tx[o].reclaiming \cup tx[o].picked : job'[j] = job[j]
  BY DEF RowsLocked
<1>3. \A j \in Jobs : tx[o].job = j => job'[j] = job[j]
  BY DEF RowsLocked
<1> QED
  BY Zenon, <1>1, <1>2, <1>3 DEF AsRead

(* A session that is left without locks has nothing to lose. *)
LEMMA NoLocks ==
    ASSUME NEW s \in Sessions, tx'[s].closing = [j \in Jobs |-> {}],
           tx'[s].reclaiming = {}, tx'[s].picked = {}, tx'[s].job = NULL
    PROVE  AsRead(s)' /\ \A o \in Sessions : Apart(s, o)'
<1>1. \A j \in Jobs : tx'[s].job # j
  BY NullAssumption
<1>2. RowsLocked(s)' = {}
  BY <1>1 DEF RowsLocked
<1>3. AsRead(s)'
  BY Zenon, <1>1 DEF AsRead
<1> QED
  BY <1>2, <1>3 DEF Apart

(* A job in a transaction is running, or ready and being claimed. *)
LEMMA LockedStatus ==
    ASSUME NEW s \in Sessions, TypeOK, AsRead(s), NEW j \in RowsLocked(s)
    PROVE  j \in Jobs /\ job[j].status \in {"ready", "running"}
<1>1. tx[s] \in Tx
  BY Zenon DEF TypeOK
<1> QED
  BY Zenon, <1>1 DEF RowsLocked, AsRead, Expired, HeldBy, Tx

(* The statement that a session executes takes only free rows, and only    *)
(* rows in the state that the statement asks for.                          *)
LEMMA OwnRows ==
    ASSUME TypeOK, LocksMatchStatement, NoLostUpdate, NEW s \in Sessions,
           BeginTx(s) \/ NextStatement(s) \/ rollback(s)
    PROVE  AsRead(s)' /\ \A o \in Sessions \ {s} : Apart(s, o)'
<1>t. /\ tx \in [Sessions -> Tx] /\ tx[s] \in Tx
      /\ LocksMatch(s) /\ AsRead(s)
      /\ \A o \in Sessions \ {s} : Apart(s, o)
  BY Zenon DEF TypeOK, LocksMatchStatement, NoLostUpdate
<1>o. \A o \in Sessions \ {s} : tx'[o] = tx[o]
  BY OthersKeepTx
<1>r. \A o \in Sessions \ {s} : RowsLocked(o)' = RowsLocked(o)
  BY <1>o DEF RowsLocked
<1>1. ASSUME NEW w \in Workers, BeginDequeue(s, w)
      PROVE  AsRead(s)' /\ \A o \in Sessions \ {s} : Apart(s, o)'
  <2>1. /\ tx'[s].closing = [j \in Jobs |-> {}] /\ tx'[s].reclaiming = {}
        /\ tx'[s].picked = {} /\ tx'[s].job = NULL
    BY <1>1, <1>t DEF BeginDequeue, NoTx
  <2> QED
    BY Zenon, <2>1, NoLocks
<1>2. ASSUME NEW w \in Workers \cup {NULL}, NEW j \in Jobs, NEW out,
             BeginSettling(s, w, j, out),
             out = "dead" => Exhausted(j, job[j]), out = "failed" => ~Exhausted(j, job[j])
      PROVE  AsRead(s)' /\ \A o \in Sessions \ {s} : Apart(s, o)'
  <2>1. /\ tx'[s].closing = [k \in Jobs |-> {}] /\ tx'[s].reclaiming = {}
        /\ tx'[s].picked = {} /\ tx'[s].job = j /\ tx'[s].by = w /\ tx'[s].outcome = out
    BY Zenon, <1>2, BeginSettlingTx
  <2>2. job' = job /\ HeldBy(job[j], w) /\ JobFree(s, j)
    BY <1>2 DEF BeginSettling, tables
  <2>3. AsRead(s)'
    BY Zenon, <1>2, <2>1, <2>2 DEF AsRead
  <2>4. RowsLocked(s)' = {j}
    BY Zenon, <2>1 DEF RowsLocked
  <2>5. \A o \in Sessions \ {s} : Apart(s, o)'
    BY Zenon, <2>1, <2>2, <2>4, <1>r DEF Apart, JobFree
  <2> QED
    BY <2>3, <2>5
<1>3. CASE CloseExpiredRuns(s)
  <2>1. /\ tx[s].reclaiming = {} /\ tx[s].picked = {} /\ tx[s].job = NULL
    BY Zenon, <1>3, <1>t DEF CloseExpiredRuns, LocksMatch
  <2>2. /\ tx'[s].closing = [j \in Jobs |-> AbandonedRuns(s, j)]
        /\ tx'[s].reclaiming = {} /\ tx'[s].picked = {} /\ tx'[s].job = NULL
    BY Zenon, <1>3, <2>1, CloseExpiredRunsTx
  <2>3. /\ job' = job /\ runs' = runs
        /\ \A j \in Jobs : \A i \in AbandonedRuns(s, j) : RunFree(s, j, i)
    BY <1>3 DEF CloseExpiredRuns, tables
  <2>4. \A j \in Jobs : AbandonedRuns(s, j) \subseteq OpenRuns(j)
    BY DEF AbandonedRuns
  <2>5. \A j \in Jobs : tx'[s].job # j
    BY <2>2, NullAssumption
  <2>6. AsRead(s)'
    BY Zenon, <2>2, <2>3, <2>4, <2>5 DEF AsRead, OpenRuns
  <2>7. RowsLocked(s)' = {}
    BY Zenon, <2>2, <2>5 DEF RowsLocked
  <2>8. \A o \in Sessions \ {s} : Apart(s, o)'
    BY Zenon, <2>2, <2>3, <2>7, <1>o DEF Apart, RunFree
  <2> QED
    BY <2>6, <2>8
<1>4. CASE ReclaimExpiredJobs(s)
  <2>1. tx[s].picked = {} /\ tx[s].job = NULL
    BY Zenon, <1>4, <1>t DEF ReclaimExpiredJobs, LocksMatch
  <2>2. /\ tx'[s].closing = tx[s].closing /\ tx'[s].at = tx[s].at
        /\ tx'[s].reclaiming = {j \in Jobs : Expired(job[j], tx[s].at)}
        /\ tx'[s].picked = {} /\ tx'[s].job = NULL
    BY Zenon, <1>4, <2>1, ReclaimExpiredJobsTx
  <2>3. /\ job' = job /\ runs' = runs
        /\ \A j \in Jobs : Expired(job[j], tx[s].at) => JobFree(s, j)
    BY <1>4 DEF ReclaimExpiredJobs, tables
  <2>4. \A j \in Jobs : tx'[s].job # j
    BY Zenon, <2>2, NullAssumption
  <2>5. AsRead(s)'
    BY Zenon, <1>t, <2>2, <2>3, <2>4 DEF AsRead, OpenRuns
  <2>6. RowsLocked(s)' = {j \in Jobs : Expired(job[j], tx[s].at)}
    BY Zenon, <2>2, <2>4 DEF RowsLocked
  <2>7. \A o \in Sessions \ {s} : Apart(s, o)'
    <3>1. \A o \in Sessions \ {s} : RowsLocked(s)' \cap RowsLocked(o)' = {}
      BY Zenon, <1>r, <2>3, <2>6 DEF JobFree
    <3> QED
      BY Zenon, <1>t, <1>o, <2>2, <3>1 DEF Apart
  <2> QED
    BY <2>5, <2>7
<1>5. CASE PickJobs(s)
  <2>1. tx[s].picked = {} /\ tx[s].job = NULL
    BY <1>5, <1>t DEF PickJobs, LocksMatch
  <2>2. /\ tx'[s].closing = tx[s].closing /\ tx'[s].at = tx[s].at
        /\ tx'[s].reclaiming = tx[s].reclaiming
        /\ tx'[s].picked \subseteq Eligible(s) /\ tx'[s].job = NULL
    BY Zenon, <1>5, <2>1, PickJobsTx
  <2>3. job' = job /\ runs' = runs
    BY <1>5 DEF PickJobs, tables
  <2>4. \A j \in Jobs : tx'[s].job # j
    BY Zenon, <2>2, NullAssumption
  <2>5. \A j \in tx'[s].picked : /\ job[j].status = "ready" \/ j \in tx[s].reclaiming
                                 /\ Due(job[j], tx[s].at)
                                 /\ JobFree(s, j)
    BY Zenon, <2>2 DEF Eligible
  <2>6. AsRead(s)'
    BY Zenon, <1>t, <2>2, <2>3, <2>4, <2>5 DEF AsRead, OpenRuns
  <2>7. RowsLocked(s)' = tx[s].reclaiming \cup tx'[s].picked
    BY Zenon, <2>2, <2>4 DEF RowsLocked
  <2>8. \A o \in Sessions \ {s} : RowsLocked(s)' \cap RowsLocked(o)' = {}
    <3>1. \A o \in Sessions \ {s} : RowsLocked(s) \cap RowsLocked(o) = {}
      BY Zenon, <1>t DEF Apart
    <3>2. \A o \in Sessions \ {s} : tx[s].reclaiming \cap RowsLocked(o) = {}
      BY Zenon, <3>1 DEF RowsLocked
    <3>3. \A o \in Sessions \ {s} : tx'[s].picked \cap RowsLocked(o) = {}
      BY Zenon, <2>5 DEF JobFree
    <3> QED
      BY Zenon, <1>r, <2>7, <3>2, <3>3
  <2>9. \A o \in Sessions \ {s} : Apart(s, o)'
    BY Zenon, <1>t, <1>o, <2>2, <2>8 DEF Apart
  <2> QED
    BY <2>6, <2>9
<1>6. CASE WaitForRun(s)
  <2>1. /\ tx'[s].closing = tx[s].closing /\ tx'[s].at = tx[s].at
        /\ tx'[s].reclaiming = tx[s].reclaiming /\ tx'[s].picked = tx[s].picked
        /\ tx'[s].job = tx[s].job /\ tx'[s].by = tx[s].by /\ tx'[s].outcome = tx[s].outcome
    BY Zenon, <1>6, WaitForRunTx
  <2>2. job' = job /\ runs' = runs
    BY <1>6 DEF WaitForRun, tables
  <2>3. AsRead(s)'
    BY Zenon, <1>t, <2>1, <2>2 DEF AsRead, OpenRuns
  <2>4. RowsLocked(s)' = RowsLocked(s)
    BY Zenon, <2>1 DEF RowsLocked
  <2>5. \A o \in Sessions \ {s} : Apart(s, o)'
    BY Zenon, <1>t, <1>o, <1>r, <2>1, <2>4 DEF Apart
  <2> QED
    BY <2>3, <2>5
<1>7. CASE CommitDequeue(s) \/ (\E i : CommitSettling(s, i)) \/ rollback(s)
  <2>1. tx'[s] = NoTx
    BY Zenon, <1>7, <1>t DEF CommitDequeue, CommitSettling, rollback
  <2>2. /\ tx'[s].closing = [j \in Jobs |-> {}] /\ tx'[s].reclaiming = {}
        /\ tx'[s].picked = {} /\ tx'[s].job = NULL
    BY SMTT(60), <2>1 DEF NoTx
  <2> QED
    BY Zenon, <2>2, NoLocks
<1>8. CASE BeginTx(s)
  BY Zenon, <1>1, <1>2, <1>8 DEF BeginTx, BeginAck, BeginNack
<1>9. CASE NextStatement(s)
  BY Zenon, <1>3, <1>4, <1>5, <1>6, <1>7, <1>9 DEF NextStatement, FinishRun, FinishAwaitedRun
<1> QED
  BY <1>7, <1>8, <1>9

(* No step of a session touches a row that another session has locked. *)
LEMMA OthersRows ==
    ASSUME TypeOK, LocksMatchStatement, NoLostUpdate, NEW s \in Sessions,
           BeginTx(s) \/ NextStatement(s) \/ rollback(s), NEW o \in Sessions \ {s}
    PROVE  AsRead(o)'
<1>t. /\ tx \in [Sessions -> Tx] /\ tx[s] \in Tx /\ tx[o] \in Tx
      /\ job \in [Jobs -> Row] /\ runs \in [Jobs -> Seq(Run)]
      /\ AsRead(s) /\ AsRead(o) /\ Apart(s, o) /\ LocksMatch(s)
  BY Zenon DEF TypeOK, NoLostUpdate, LocksMatchStatement
<1>o. tx'[o] = tx[o]
  BY OthersKeepTx
<1>l. RowsLocked(o) \subseteq Jobs
  BY <1>t DEF RowsLocked, Tx
<1>1. ASSUME job' = job, runs' = runs PROVE AsRead(o)'
  BY Zenon, <1>1, <1>t, <1>o DEF AsRead, OpenRuns
<1>2. CASE CommitDequeue(s)
  <2>1. \A j \in RowsLocked(o) : job'[j] = job[j]
    BY Zenon, <1>2, <1>t, <1>l DEF CommitDequeue, Apart, RowsLocked
  <2>2. ASSUME NEW j \in Jobs, NEW i \in tx[o].closing[j]
        PROVE  i \in DOMAIN runs'[j] /\ runs'[j][i].status = "running"
    <3>1. i \in DOMAIN runs[j] /\ runs[j][i].status = "running"
      BY Zenon, <1>t, <2>2 DEF AsRead, OpenRuns
    <3>2. i \notin tx[s].closing[j]
      BY Zenon, <1>t, <2>2 DEF Apart
    <3>3. ClosedRuns(s, j)[i] = runs[j][i]
      BY <3>1, <3>2 DEF ClosedRuns
    <3>4. /\ ClosedRuns(s, j) \in Seq(Run) /\ Len(ClosedRuns(s, j)) = Len(runs[j])
          /\ NewRun(s, j) \in Run
      BY Zenon, RunUpdates
    <3>5. i \in 1 .. Len(runs[j])
      BY SMTT(60), <1>t, <3>1
    <3>6. runs'[j] = ClosedRuns(s, j) \/ runs'[j] = Append(ClosedRuns(s, j), NewRun(s, j))
      BY Zenon, <1>2 DEF CommitDequeue
    <3>7. ASSUME NEW e \in Run
          PROVE  i \in DOMAIN Append(ClosedRuns(s, j), e) /\ Append(ClosedRuns(s, j), e)[i] = ClosedRuns(s, j)[i]
      BY <3>4, <3>5
    <3>8. i \in DOMAIN ClosedRuns(s, j)
      BY <3>4, <3>5
    <3> QED
      BY Zenon, <3>1, <3>3, <3>4, <3>6, <3>7, <3>8
  <2>3. \A j \in Jobs : tx[o].closing[j] \subseteq OpenRuns(j)'
    BY <2>2 DEF OpenRuns
  <2> QED
    BY Zenon, <1>t, <1>o, <2>1, <2>3, AsReadFrame
<1>3. ASSUME NEW i, CommitSettling(s, i), tx[s].job \in Jobs,
             i = 0 \/ RunFree(s, tx[s].job, i)
      PROVE  AsRead(o)'
  <2>1. tx[s].job \notin RowsLocked(o)
    BY Zenon, <1>3, <1>t DEF Apart, RowsLocked
  <2>2. \A j \in RowsLocked(o) : job'[j] = job[j]
    BY Zenon, <1>3, <1>t, <1>l, <2>1 DEF CommitSettling
  <2>3. ASSUME NEW j \in Jobs, NEW k \in tx[o].closing[j]
        PROVE  k \in DOMAIN runs'[j] /\ runs'[j][k].status = "running"
    <3>1. k \in DOMAIN runs[j] /\ runs[j][k].status = "running"
      BY <1>t, <2>3 DEF AsRead, OpenRuns
    <3>2. i # 0 => ~(j = tx[s].job /\ k = i)
      BY Zenon, <1>3, <2>3 DEF RunFree
    <3>3. runs' = IF i = 0 THEN runs
                  ELSE [runs EXCEPT ![tx[s].job][i].status = tx[s].outcome]
      BY Zenon, <1>3 DEF CommitSettling
    <3>4. runs'[j][k] = runs[j][k] /\ DOMAIN runs'[j] = DOMAIN runs[j]
      BY Zenon, <1>t, <3>1, <3>2, <3>3
    <3> QED
      BY Zenon, <3>1, <3>4
  <2>4. \A j \in Jobs : tx[o].closing[j] \subseteq OpenRuns(j)'
    BY <2>3 DEF OpenRuns
  <2> QED
    BY <1>t, <1>o, <2>2, <2>4, AsReadFrame
<1>j. tx[s].stmt \in {"settling", "waiting"} => tx[s].job \in Jobs
  BY Zenon, <1>t DEF LocksMatch, Tx
<1>4. CASE FinishRun(s) \/ FinishAwaitedRun(s)
  BY Zenon, <1>3, <1>4, <1>j DEF FinishRun, FinishAwaitedRun
<1>5. CASE BeginTx(s) \/ rollback(s)
  BY Zenon, <1>1, <1>5 DEF BeginTx, BeginDequeue, BeginAck, BeginNack, BeginSettling, rollback, tables
<1>6. CASE CloseExpiredRuns(s) \/ ReclaimExpiredJobs(s) \/ PickJobs(s) \/ WaitForRun(s)
  BY Zenon, <1>1, <1>6 DEF CloseExpiredRuns, ReclaimExpiredJobs, PickJobs, WaitForRun, tables
<1> QED
  BY Zenon, <1>2, <1>4, <1>5, <1>6 DEF NextStatement

(* Autocommitted statements and the clock leave locked rows alone. *)
LEMMA AutocommitRows ==
    ASSUME TypeOK, NoLostUpdate, Autocommit \/ Tick \/ UNCHANGED vars, NEW o \in Sessions
    PROVE  AsRead(o)'
<1>t. job \in [Jobs -> Row] /\ AsRead(o)
  BY Zenon DEF TypeOK, NoLostUpdate
<1>1. tx' = tx /\ runs' = runs
  BY Zenon DEF Autocommit, ensureTenant, Enqueue, Cancel, RequeueDLQ, ExtendLease, Tick, vars, tables
<1>2. ASSUME NEW j \in RowsLocked(o) PROVE job'[j] = job[j]
  <2>1. j \in Jobs /\ job[j].status \in {"ready", "running"}
    BY Zenon, <1>t, <1>2, LockedStatus
  <2>2. ASSUME NEW k \in Jobs, Enqueue(k) \/ RequeueDLQ(k) PROVE job'[j] = job[j]
    BY Zenon, <2>1, <2>2, <1>t DEF Enqueue, RequeueDLQ
  <2>3. ASSUME NEW k \in Jobs, Cancel(k) PROVE job'[j] = job[j]
    BY Zenon, <2>1, <2>3, <1>t, <1>2 DEF Cancel, JobUnlocked
  <2>4. ASSUME NEW w \in Workers, NEW k \in Jobs, ExtendLease(w, k) PROVE job'[j] = job[j]
    BY Zenon, <2>1, <2>4, <1>t, <1>2 DEF ExtendLease, JobUnlocked
  <2>5. CASE (\E k \in Jobs : ensureTenant(k)) \/ Tick \/ UNCHANGED vars
    BY Zenon, <2>5 DEF ensureTenant, Tick, vars, tables
  <2> QED
    BY Zenon, <2>2, <2>3, <2>4, <2>5 DEF Autocommit
<1>3. \A j \in Jobs : tx[o].closing[j] \subseteq OpenRuns(j)'
  BY Zenon, <1>t, <1>1 DEF AsRead, OpenRuns
<1> QED
  BY Zenon, <1>t, <1>1, <1>2, <1>3, AsReadFrame

(* Locked rows stay as they were read. *)
LEMMA NoLostUpdateStep ==
    TypeOK /\ LocksMatchStatement /\ NoLostUpdate /\ [Next]_vars => NoLostUpdate'
<1> SUFFICES ASSUME TypeOK, LocksMatchStatement, NoLostUpdate, [Next]_vars
             PROVE  NoLostUpdate'
  OBVIOUS
<1>1. ASSUME NEW s \in Sessions, BeginTx(s) \/ NextStatement(s) \/ rollback(s)
      PROVE  NoLostUpdate'
  <2>1. \A o \in Sessions : AsRead(o)'
    BY <1>1, OwnRows, OthersRows
  <2>2. ASSUME NEW a \in Sessions, NEW b \in Sessions \ {a} PROVE Apart(a, b)'
    <3>1. CASE a = s
      BY Zenon, <1>1, <3>1, OwnRows
    <3>2. CASE b = s
      <4>1. Apart(s, a)'
        BY <1>1, <3>2, OwnRows
      <4> QED
        BY Zenon, <3>2, <4>1 DEF Apart
    <3>3. CASE a # s /\ b # s
      <4>1. tx'[a] = tx[a] /\ tx'[b] = tx[b]
        BY Zenon, <1>1, <3>3, OthersKeepTx
      <4>2. Apart(a, b)
        BY DEF NoLostUpdate
      <4> QED
        BY Zenon, <4>1, <4>2 DEF Apart, RowsLocked
    <3> QED
      BY <3>1, <3>2, <3>3
  <2> QED
    BY <2>1, <2>2 DEF NoLostUpdate
<1>2. CASE Autocommit \/ Tick \/ UNCHANGED vars
  <2>1. \A o \in Sessions : AsRead(o)'
    BY <1>2, AutocommitRows
  <2>2. tx' = tx
    BY Zenon, <1>2 DEF Autocommit, ensureTenant, Enqueue, Cancel, RequeueDLQ, ExtendLease, Tick, vars
  <2>3. \A a \in Sessions : \A b \in Sessions \ {a} : Apart(a, b)'
    BY SMTT(60), <2>2 DEF NoLostUpdate, Apart, RowsLocked
  <2> QED
    BY <2>1, <2>3 DEF NoLostUpdate
<1> QED
  BY <1>1, <1>2 DEF Next

-----------------------------------------------------------------------------
(* The inductive invariant. *)
Inv == TypeOK /\ LocksMatchStatement /\ NoLostUpdate

(* The empty database, with no transaction open, satisfies the invariant. *)
LEMMA InitInvariant == Init => TypeOK /\ LocksMatchStatement /\ NoLostUpdate
<1> SUFFICES ASSUME Init PROVE TypeOK /\ LocksMatchStatement /\ NoLostUpdate
  OBVIOUS
<1>1. NoTx \in Tx
  BY Zenon DEF NoTx, Tx, Stmt
<1>2. TypeOK
  <2>1. AbsentRow \in Row
    BY Zenon DEF AbsentRow, Row, Status
  <2> QED
    BY SMTT(60), <1>1, <2>1 DEF Init, TypeOK
<1>3. \A s \in Sessions : /\ tx[s].closing = [j \in Jobs |-> {}] /\ tx[s].reclaiming = {}
                          /\ tx[s].picked = {} /\ tx[s].job = NULL
                          /\ tx[s].stmt = "idle" /\ tx[s].at = 0 /\ now = 0
  BY Zenon DEF Init, NoTx
<1>4. LocksMatchStatement
  <2> SUFFICES ASSUME NEW s \in Sessions PROVE LocksMatch(s)
    BY DEF LocksMatchStatement
  <2>1. tx[s].at <= now
    BY <1>3
  <2> QED
    BY Zenon, <1>3, <2>1 DEF LocksMatch
<1>5. \A s \in Sessions : RowsLocked(s) = {}
  BY <1>3, NullAssumption DEF RowsLocked
<1>6. NoLostUpdate
  BY Zenon, <1>3, <1>5, NullAssumption DEF NoLostUpdate, AsRead, Apart
<1> QED
  BY <1>2, <1>4, <1>6

(* The tables stay well typed, and no transaction of Dequeue, Ack or Nack  *)
(* writes over what another has written since it read: the rows a          *)
(* transaction has locked are as it read them until it ends.               *)
THEOREM NoUpdateIsLost == Spec => [](TypeOK /\ LocksMatchStatement /\ NoLostUpdate)
<1>1. TypeOK /\ LocksMatchStatement /\ NoLostUpdate /\ [Next]_vars
        => TypeOK' /\ LocksMatchStatement' /\ NoLostUpdate'
  BY TypeOKStep, LocksMatchStep, NoLostUpdateStep
<1> QED
  BY <1>1, InitInvariant, PTL DEF Spec

(* The tables and the transactions stay well-formed: the rows that the SQL *)
(* writes satisfy the types and the NOT NULL columns of the schema.        *)
THEOREM TableTypes == Spec => []TypeOK
  BY NoUpdateIsLost, PTL

-----------------------------------------------------------------------------
(* The refinement: a transaction takes effect on the rows in the step in   *)
(* which it commits, and NoLostUpdate makes that step legal in JobLeases.  *)

(* Both specifications are written over the same rows. *)
LEMMA SameRows ==
    /\ Leases!AbsentRow = AbsentRow
    /\ \A j, t : Leases!InsertedRow(j, t) = InsertedRow(j, t)
    /\ \A r : Leases!ReclaimedRow(r) = ReclaimedRow(r)
    /\ \A r, w, t : Leases!ClaimedRow(r, w, t) = ClaimedRow(r, w, t)
    /\ \A r, t : Leases!ExtendedRow(r, t) = ExtendedRow(r, t)
    /\ \A r : Leases!SucceededRow(r) = SucceededRow(r)
    /\ \A r, t : Leases!RetriedRow(r, t) = RetriedRow(r, t)
    /\ \A r : Leases!DeadRow(r) = DeadRow(r)
    /\ \A r : Leases!CancelledRow(r) = CancelledRow(r)
    /\ \A r, t : Leases!RequeuedRow(r, t) = RequeuedRow(r, t)
  BY Zenon DEF Leases!AbsentRow, AbsentRow, Leases!InsertedRow, InsertedRow,
     Leases!ReclaimedRow, ReclaimedRow, Leases!ClaimedRow, ClaimedRow,
     Leases!ExtendedRow, ExtendedRow, Leases!SucceededRow, SucceededRow,
     Leases!RetriedRow, RetriedRow, Leases!DeadRow, DeadRow,
     Leases!CancelledRow, CancelledRow, Leases!RequeuedRow, RequeuedRow

(* The delays of retries are the same. *)
LEMMA SameDelays == \A n : Leases!Delays(n) = Delays(n)
<1>1. Leases!base = base
  BY Zenon DEF Leases!base, base
<1>2. \A n : Leases!Doubled(n) = Doubled(n)
  BY Zenon, <1>1 DEF Leases!Doubled, Doubled, Leases!Pow, Pow
<1>3. \A x : Leases!Converted(x) = Converted(x)
  BY Zenon DEF Leases!Converted, Converted
<1>4. \A d, k : Leases!intervalLiteral(Leases!Capped(d, k)) = intervalLiteral(Capped(d, k))
  BY Zenon DEF Leases!Wrapped, Wrapped, Leases!Capped, Capped, Leases!intervalLiteral, intervalLiteral
<1> SUFFICES ASSUME NEW n, NEW e
             PROVE  e \in Leases!Delays(n) <=> e \in Delays(n)
  OBVIOUS
<1>5. e \in Delays(n) <=> \E d \in Converted(Doubled(n)), k \in 0 .. base - 1 :
                            e = intervalLiteral(Capped(d, k))
  BY DEF Delays
<1>6. e \in Leases!Delays(n) <=> \E d \in Leases!Converted(Leases!Doubled(n)), k \in 0 .. Leases!base - 1 :
                                   e = Leases!intervalLiteral(Leases!Capped(d, k))
  BY DEF Leases!Delays
<1> QED
  BY Zenon, <1>1, <1>2, <1>3, <1>4, <1>5, <1>6

(* And its WHERE clauses are those of JobRows. *)
LEMMA SameConditions ==
    /\ \A r, t : Leases!Expired(r, t) <=> Expired(r, t)
    /\ \A r, w : Leases!HeldBy(r, w) <=> HeldBy(r, w)
    /\ \A j, r : Leases!Exhausted(j, r) <=> Exhausted(j, r)
    /\ \A r, t : Leases!Due(r, t) <=> Due(r, t)
    /\ \A j, k : Leases!SameKey(j, k) <=> SameKey(j, k)
  BY DEF Leases!Expired, Expired, Leases!HeldBy, HeldBy, Leases!Exhausted, Exhausted,
     Leases!Due, Due, Leases!SameKey, SameKey, Leases!Normal, Normal,
     Leases!normalizeEnqueueParams, normalizeEnqueueParams, Leases!DefaultTenant, DefaultTenant

(* The COMMIT of Dequeue is the atomic Dequeue of the jobs it has locked. *)
LEMMA DequeueIsAtomic ==
    ASSUME Inv, NEW s \in Sessions, CommitDequeue(s)
    PROVE  Leases!Next
<1>1. /\ tx[s] \in Tx /\ now \in Nat /\ LocksMatch(s) /\ AsRead(s)
  BY DEF Inv, TypeOK, LocksMatchStatement, NoLostUpdate
<1>2. tx[s].by \in Workers /\ tx[s].at \in 0 .. now
  <2>1. tx[s].by \in Workers /\ tx[s].at \in Nat /\ tx[s].at <= now
    BY Zenon, <1>1 DEF CommitDequeue, LocksMatch, Tx
  <2> QED
    BY <1>1, <2>1
<1>3. tx[s].reclaiming \in SUBSET Jobs /\ tx[s].picked \in SUBSET Jobs
  BY <1>1 DEF Tx
<1>4. Leases!Dequeue(tx[s].by, tx[s].at, tx[s].reclaiming, tx[s].picked)
  BY Zenon, <1>1, SameRows, SameConditions DEF Leases!Dequeue, CommitDequeue, AsRead
<1> QED
  BY <1>2, <1>3, <1>4 DEF Leases!Next, Leases!TxTime

(* The COMMIT of Ack or Nack is the atomic Ack or Nack. *)
LEMMA SettlingIsAtomic ==
    ASSUME Inv, NEW s \in Sessions, NEW i, tx[s].job \in Jobs, CommitSettling(s, i)
    PROVE  Leases!Next
<1> DEFINE j == tx[s].job
           w == tx[s].by
           t == tx[s].at
<1>1. /\ tx[s] \in Tx /\ now \in Nat /\ LocksMatch(s) /\ AsRead(s)
  BY DEF Inv, TypeOK, LocksMatchStatement, NoLostUpdate
<1>2. w \in Workers \cup {NULL} /\ t \in 0 .. now /\ j \in Jobs
  <2>1. w \in Workers \cup {NULL} /\ t \in Nat /\ t <= now
    BY Zenon, <1>1 DEF LocksMatch, Tx
  <2> QED
    BY <1>1, <2>1
<1>3. PICK d \in Delays(job[j].attempts) : job' = [job EXCEPT ![j] = SettledRow(j, tx[s].outcome, t + d)]
  BY Zenon DEF CommitSettling
<1>4. /\ HeldBy(job[j], w)
      /\ tx[s].outcome = "dead" => Exhausted(j, job[j])
      /\ tx[s].outcome = "failed" => ~Exhausted(j, job[j])
  BY <1>1, <1>2 DEF AsRead
<1>5. deadLetter' = IF tx[s].outcome = "dead" THEN deadLetter \cup {j} ELSE deadLetter
  BY DEF CommitSettling
<1>6. now' = now
  BY DEF CommitSettling
<1>7. CASE tx[s].outcome = "succeeded"
  <2>1. Leases!Ack(w, j)
    BY Zenon, <1>3, <1>4, <1>5, <1>6, <1>7, SameRows, SameConditions DEF Leases!Ack, SettledRow
  <2> QED
    BY <1>2, <2>1 DEF Leases!Next
<1>8. CASE tx[s].outcome = "dead"
  <2>1. Leases!Nack(w, j, t)
    BY Zenon, <1>3, <1>4, <1>5, <1>6, <1>8, SameRows, SameConditions DEF Leases!Nack, SettledRow
  <2> QED
    BY Zenon, <1>2, <2>1 DEF Leases!Next, Leases!TxTime
<1>9. CASE tx[s].outcome = "failed"
  <2>1. Leases!Nack(w, j, t)
    BY Zenon, <1>3, <1>4, <1>5, <1>6, <1>9, SameRows, SameDelays, SameConditions DEF Leases!Nack, SettledRow
  <2> QED
    BY <1>2, <2>1 DEF Leases!Next, Leases!TxTime
<1> QED
  BY <1>1, <1>7, <1>8, <1>9 DEF Tx

(* An autocommitted statement is its atomic operation, or changes no row. *)
LEMMA AutocommitIsAtomic ==
    ASSUME Inv, Autocommit
    PROVE  Leases!Next \/ UNCHANGED Leases!vars
<1>1. now \in Nat /\ StartTimes \subseteq 0 .. now
  BY DEF Inv, TypeOK, StartTimes
<1>2. ASSUME NEW j \in Jobs, ensureTenant(j) PROVE UNCHANGED Leases!vars
  BY <1>2 DEF ensureTenant, Leases!vars
<1>3. ASSUME NEW j \in Jobs, Enqueue(j) PROVE Leases!Next
  BY Zenon, <1>1, <1>3, SameRows, SameConditions DEF Enqueue, Leases!Next, Leases!Enqueue, Leases!TxTime
<1>4. ASSUME NEW j \in Jobs, Cancel(j) PROVE Leases!Next
  BY Zenon, <1>4, SameRows, SameConditions DEF Cancel, Leases!Next, Leases!Cancel
<1>5. ASSUME NEW j \in Jobs, RequeueDLQ(j) PROVE Leases!Next
  BY Zenon, <1>1, <1>5, SameRows, SameConditions DEF RequeueDLQ, Leases!Next, Leases!RequeueDLQ, Leases!TxTime
<1>6. ASSUME NEW w \in Workers, NEW j \in Jobs, ExtendLease(w, j) PROVE Leases!Next
  BY Zenon, <1>1, <1>6, SameRows, SameConditions DEF ExtendLease, Leases!Next, Leases!ExtendLease, Leases!TxTime
<1> QED
  BY Zenon, <1>2, <1>3, <1>4, <1>5, <1>6 DEF Autocommit

(* Every step of the interleaved transactions is a step of JobLeases or    *)
(* leaves the rows, the dead letters and the clock alone.                  *)
LEMMA StepRefines == Inv /\ [Next]_vars => [Leases!Next]_(Leases!vars)
<1> SUFFICES ASSUME Inv, [Next]_vars PROVE Leases!Next \/ UNCHANGED Leases!vars
  BY Zenon
<1>1. ASSUME NEW s \in Sessions, BeginTx(s) \/ rollback(s) PROVE UNCHANGED Leases!vars
  BY Zenon, <1>1 DEF BeginTx, BeginDequeue, BeginAck, BeginNack, BeginSettling, rollback, tables,
     Leases!vars
<1>2. ASSUME NEW s \in Sessions,
             CloseExpiredRuns(s) \/ ReclaimExpiredJobs(s) \/ PickJobs(s) \/ WaitForRun(s)
      PROVE  UNCHANGED Leases!vars
  BY <1>2 DEF CloseExpiredRuns, ReclaimExpiredJobs, PickJobs, WaitForRun, tables, Leases!vars
<1>3. ASSUME NEW s \in Sessions, FinishRun(s) \/ FinishAwaitedRun(s) PROVE Leases!Next
  <2>1. tx[s].job \in Jobs
    BY <1>3 DEF Inv, TypeOK, Tx, LocksMatchStatement, LocksMatch, FinishRun, FinishAwaitedRun
  <2> QED
    BY Zenon, <1>3, <2>1, SettlingIsAtomic DEF FinishRun, FinishAwaitedRun
<1>4. CASE Tick
  BY <1>4 DEF Tick, tables, Leases!Next, Leases!Tick
<1>5. CASE UNCHANGED vars
  BY <1>5 DEF vars, Leases!vars
<1> QED
  BY <1>1, <1>2, <1>3, <1>4, <1>5, DequeueIsAtomic, AutocommitIsAtomic DEF Next, NextStatement

(* The interleaved SQL statements of internal/queue/postgres.go implement  *)
(* the atomic operations, whatever the jobs, workers, sessions and bounds. *)
THEOREM Refinement == Spec => ImplementsLeases
<1>1. Init => Leases!Init
  BY SameRows DEF Init, Leases!Init
<1>2. Spec => []Inv
  BY NoUpdateIsLost DEF Inv
<1> QED
  BY <1>1, <1>2, StepRefines, PTL DEF Spec, ImplementsLeases, Leases!Spec

-----------------------------------------------------------------------------
(* What a step of JobLeases does to one row: it leaves finished rows alone *)
(* and claims a running one only after its lease.                          *)
LEMMA RowSteps ==
    ASSUME Inv, Leases!Next, NEW j \in Jobs
    PROVE  /\ job[j].status \in {"succeeded", "failed"} => job'[j] = job[j]
           /\ (/\ job[j].status = "running"
               /\ job'[j].status = "running"
               /\ job'[j].attempts # job[j].attempts)
              => job[j].lockedUntil < now
<1>t. now \in Nat /\ job \in [Jobs -> Row] /\ job[j] \in Row
  BY Zenon DEF Inv, TypeOK
<1> DEFINE G == /\ job[j].status \in {"succeeded", "failed"} => job'[j] = job[j]
                /\ (/\ job[j].status = "running"
                    /\ job'[j].status = "running"
                    /\ job'[j].attempts # job[j].attempts)
                   => job[j].lockedUntil < now
<1>1. ASSUME job'[j] = job[j] PROVE G
  BY <1>1
<1>2. CASE Leases!Tick
  BY <1>1, <1>2 DEF Leases!Tick
<1>3. ASSUME NEW k \in Jobs, Leases!Cancel(k) PROVE G
  BY <1>t, <1>3, SameRows DEF Leases!Cancel, CancelledRow, Row
<1>4. ASSUME NEW k \in Jobs, NEW t, Leases!Enqueue(k, t) \/ Leases!RequeueDLQ(k, t) PROVE G
  BY <1>t, <1>4 DEF Leases!Enqueue, Leases!RequeueDLQ
<1>5. ASSUME NEW w \in Workers, NEW t \in 0 .. now, NEW R \in SUBSET Jobs,
             NEW P \in SUBSET Jobs, Leases!Dequeue(w, t, R, P)
      PROVE  G
  <2>1. CASE j \notin R /\ j \notin P
    BY <1>1, <1>5, <2>1 DEF Leases!Dequeue
  <2>2. CASE j \in R
    <3>1. Expired(job[j], t)
      BY Zenon, <1>5, <2>2, SameConditions DEF Leases!Dequeue
    <3>2. job[j].status = "running" /\ job[j].lockedUntil < t /\ job[j].lockedUntil \in Nat
      BY <1>t, <3>1 DEF Expired, Row
    <3> QED
      BY <1>t, <3>2
  <2>3. CASE j \in P /\ j \notin R
    BY Zenon, <1>5, <2>3 DEF Leases!Dequeue
  <2> QED
    BY <2>1, <2>2, <2>3
<1>6. ASSUME NEW w, NEW k \in Jobs, Leases!Ack(w, k) PROVE G
  BY Zenon, <1>t, <1>6, SameRows, SameConditions DEF Leases!Ack, SucceededRow, HeldBy, Row
<1>7. ASSUME NEW w, NEW k \in Jobs, NEW t, Leases!Nack(w, k, t) PROVE G
  <2>1. HeldBy(job[k], w)
    BY <1>7, SameConditions DEF Leases!Nack
  <2>2. CASE k = j
    <3>1. job'[j] = DeadRow(job[j]) \/ \E d : job'[j] = RetriedRow(job[j], d)
      BY <1>t, <1>7, <2>2, SameRows DEF Leases!Nack
    <3>2. job'[j].status # "running" /\ job[j].status = "running"
      BY ZenonT(60), <1>t, <2>1, <2>2, <3>1 DEF DeadRow, RetriedRow, HeldBy, Row
    <3> QED
      BY <3>2
  <2>3. CASE k # j
    BY Zenon, <1>t, <1>1, <1>7, <2>3 DEF Leases!Nack
  <2> QED
    BY Zenon, <2>2, <2>3
<1>8. ASSUME NEW w, NEW k \in Jobs, NEW t, Leases!ExtendLease(w, k, t) PROVE G
  BY <1>t, <1>8, SameRows DEF Leases!ExtendLease, ExtendedRow, Row
<1> QED
  BY Zenon, <1>2, <1>3, <1>4, <1>5, <1>6, <1>7, <1>8 DEF Leases!Next, Leases!TxTime

(* Succeeded and cancelled jobs never change again. *)
THEOREM TerminalStates == Spec => TerminalIsFinal
<1>1. Inv /\ [Next]_vars =>
        [\A j \in Jobs : job[j].status \in {"succeeded", "failed"} => job'[j] = job[j]]_vars
  BY StepRefines, RowSteps DEF Leases!vars
<1>2. Spec => []Inv
  BY NoUpdateIsLost DEF Inv
<1> QED
  BY <1>1, <1>2, PTL DEF Spec, TerminalIsFinal

(* A leased job is claimed again only after its lease has run out. *)
THEOREM LeaseIsExclusive == Spec => ChangesHandsOnlyAfterExpiry
<1>1. Inv /\ [Next]_vars =>
        [\A j \in Jobs : /\ job[j].status = "running"
                         /\ job'[j].status = "running"
                         /\ job'[j].attempts # job[j].attempts
                         => job[j].lockedUntil < now]_vars
  BY StepRefines, RowSteps DEF Leases!vars
<1>2. Spec => []Inv
  BY NoUpdateIsLost DEF Inv
<1> QED
  BY <1>1, <1>2, PTL DEF Spec, ChangesHandsOnlyAfterExpiry

-----------------------------------------------------------------------------
(* TablesAgree, one job at a time. *)
Agrees(r, j, letter) ==
    /\ r.status = "running" <=> r.lockedUntil # NULL
    /\ r.status = "running" <=> r.lockedBy # NULL
    /\ letter <=> r.status = "dead"
    /\ r.status = "dead" => Exhausted(j, r)

(* TablesAgree, said of each job by itself. *)
LEMMA TablesAgreeByJob ==
    ASSUME TypeOK
    PROVE  TablesAgree <=> \A j \in Jobs : Agrees(job[j], j, j \in deadLetter)
  BY Zenon DEF TypeOK, TablesAgree, Agrees

(* What each update of a row does to the columns that TablesAgree is about. *)
LEMMA UpdatesAgree ==
    ASSUME NEW j \in Jobs, NEW r \in Row
    PROVE  /\ \A t \in Nat : Agrees(InsertedRow(j, t), j, FALSE)
           /\ \A w \in Workers, t \in Nat : Agrees(ClaimedRow(r, w, t), j, FALSE)
           /\ Agrees(ReclaimedRow(r), j, FALSE)
           /\ Agrees(SucceededRow(r), j, FALSE)
           /\ \A t : Agrees(RetriedRow(r, t), j, FALSE)
           /\ \A t : Agrees(RequeuedRow(r, t), j, FALSE)
           /\ Exhausted(j, r) => Agrees(DeadRow(r), j, TRUE)
           /\ r.status = "ready" /\ Agrees(r, j, FALSE) => Agrees(CancelledRow(r), j, FALSE)
           /\ \A t \in Nat : r.status = "running" /\ Agrees(r, j, FALSE)
                             => Agrees(ExtendedRow(r, t), j, FALSE)
<1>1. \A t \in Nat : t + Lease \in Nat /\ t + Lease # NULL
  BY LeaseAssumption, NullAssumption
<1>2. \A w \in Workers : w # NULL
  BY NullAssumption
<1>3. \A t \in Nat : Agrees(InsertedRow(j, t), j, FALSE)
  BY Zenon DEF Agrees, InsertedRow, AbsentRow
<1>4. \A w \in Workers, t \in Nat : Agrees(ClaimedRow(r, w, t), j, FALSE)
  BY Zenon, <1>1, <1>2 DEF Agrees, ClaimedRow, Row
<1>5. Agrees(ReclaimedRow(r), j, FALSE) /\ Agrees(SucceededRow(r), j, FALSE)
  BY Zenon DEF Agrees, ReclaimedRow, SucceededRow, Row
<1>6. \A t : Agrees(RetriedRow(r, t), j, FALSE) /\ Agrees(RequeuedRow(r, t), j, FALSE)
  BY Zenon DEF Agrees, RetriedRow, RequeuedRow, Row
<1>7. Exhausted(j, r) => Agrees(DeadRow(r), j, TRUE)
  BY Zenon DEF Agrees, DeadRow, Exhausted, Row
<1>8. r.status = "ready" /\ Agrees(r, j, FALSE) => Agrees(CancelledRow(r), j, FALSE)
  BY Zenon DEF Agrees, CancelledRow, Row
<1>9. \A t \in Nat : r.status = "running" /\ Agrees(r, j, FALSE)
                     => Agrees(ExtendedRow(r, t), j, FALSE)
  BY Zenon, <1>1 DEF Agrees, ExtendedRow, Row
<1> QED
  BY Zenon, <1>3, <1>4, <1>5, <1>6, <1>7, <1>8, <1>9

(* Every operation of JobLeases keeps the tables in agreement. *)
LEMMA TablesAgreeStep ==
    ASSUME Inv, Leases!Next, NEW j \in Jobs, Agrees(job[j], j, j \in deadLetter)
    PROVE  Agrees(job'[j], j, j \in deadLetter')
<1>t. now \in Nat /\ job \in [Jobs -> Row] /\ job[j] \in Row
  BY Zenon DEF Inv, TypeOK
<1> DEFINE G == Agrees(job'[j], j, j \in deadLetter')
<1>1. ASSUME job'[j] = job[j], j \in deadLetter' <=> j \in deadLetter PROVE G
  BY <1>1 DEF Agrees
<1>l. ASSUME job[j].status # "dead" PROVE j \notin deadLetter /\ Agrees(job[j], j, FALSE)
  BY Zenon, <1>l DEF Agrees
<1>f. ASSUME j \notin deadLetter', Agrees(job'[j], j, FALSE) PROVE G
  BY Zenon, <1>f DEF Agrees
<1>2. CASE Leases!Tick
  BY Zenon, <1>1, <1>2 DEF Leases!Tick
<1>3. ASSUME NEW k \in Jobs, Leases!Cancel(k) PROVE G
  <2>1. CASE k = j
    <3>1. job[j].status = "ready" /\ job'[j] = CancelledRow(job[j]) /\ deadLetter' = deadLetter
      BY Zenon, <1>t, <1>3, <2>1, SameRows DEF Leases!Cancel
    <3> QED
      BY Zenon, <1>t, <1>l, <1>f, <3>1, UpdatesAgree
  <2>2. CASE k # j
    BY Zenon, <1>t, <1>1, <1>3, <2>2 DEF Leases!Cancel
  <2> QED
    BY <2>1, <2>2
<1>4. ASSUME NEW k \in Jobs, NEW t \in 0 .. now, Leases!Enqueue(k, t) PROVE G
  <2>1. CASE k = j
    <3>1. job[j].status = "absent" /\ job'[j] = InsertedRow(j, t) /\ deadLetter' = deadLetter
      BY Zenon, <1>t, <1>4, <2>1, SameRows DEF Leases!Enqueue
    <3>2. t \in Nat
      BY <1>t
    <3> QED
      BY Zenon, <1>t, <1>l, <1>f, <3>1, <3>2, UpdatesAgree
  <2>2. CASE k # j
    BY Zenon, <1>t, <1>1, <1>4, <2>2 DEF Leases!Enqueue
  <2> QED
    BY <2>1, <2>2
<1>5. ASSUME NEW k \in Jobs, NEW t \in 0 .. now, Leases!RequeueDLQ(k, t) PROVE G
  <2>1. CASE k = j
    <3>1. job'[j] = RequeuedRow(job[j], t) /\ j \notin deadLetter'
      BY Zenon, <1>t, <1>5, <2>1, SameRows DEF Leases!RequeueDLQ
    <3> QED
      BY Zenon, <1>t, <1>f, <3>1, UpdatesAgree
  <2>2. CASE k # j
    BY Zenon, <1>t, <1>1, <1>5, <2>2 DEF Leases!RequeueDLQ
  <2> QED
    BY <2>1, <2>2
<1>6. ASSUME NEW w \in Workers, NEW t \in 0 .. now, NEW R \in SUBSET Jobs,
             NEW P \in SUBSET Jobs, Leases!Dequeue(w, t, R, P)
      PROVE  G
  <2>1. deadLetter' = deadLetter /\ t \in Nat
    BY <1>t, <1>6 DEF Leases!Dequeue
  <2>2. CASE j \notin R /\ j \notin P
    BY Zenon, <1>1, <1>6, <2>2 DEF Leases!Dequeue
  <2>3. CASE j \in R \/ j \in P
    <3>1. job[j].status \in {"ready", "running"}
      BY Zenon, <1>6, <2>3, SameConditions DEF Leases!Dequeue, Expired
    <3>2. job'[j] = ClaimedRow(job[j], w, t) \/ job'[j] = ReclaimedRow(job[j])
      BY Zenon, <1>6, <2>3, SameRows DEF Leases!Dequeue
    <3>3. job[j].status # "dead"
      BY <3>1
    <3> QED
      BY Zenon, <1>t, <1>l, <1>f, <2>1, <3>2, <3>3, UpdatesAgree
  <2> QED
    BY <2>2, <2>3
<1>7. ASSUME NEW w, NEW k \in Jobs, Leases!Ack(w, k) PROVE G
  <2>1. CASE k = j
    <3>1. job[j].status = "running" /\ job'[j] = SucceededRow(job[j]) /\ deadLetter' = deadLetter
      BY Zenon, <1>t, <1>7, <2>1, SameRows, SameConditions DEF Leases!Ack, HeldBy
    <3> QED
      BY Zenon, <1>t, <1>l, <1>f, <3>1, UpdatesAgree
  <2>2. CASE k # j
    BY Zenon, <1>t, <1>1, <1>7, <2>2 DEF Leases!Ack
  <2> QED
    BY <2>1, <2>2
<1>8. ASSUME NEW w, NEW k \in Jobs, NEW t, Leases!Nack(w, k, t) PROVE G
  <2>1. CASE k = j
    <3>1. job[j].status = "running"
      BY Zenon, <1>8, <2>1, SameConditions DEF Leases!Nack, HeldBy
    <3>2. \/ Exhausted(j, job[j]) /\ job'[j] = DeadRow(job[j]) /\ j \in deadLetter'
          \/ (\E d : job'[j] = RetriedRow(job[j], d)) /\ deadLetter' = deadLetter
      BY Zenon, <1>t, <1>8, <2>1, SameRows, SameConditions DEF Leases!Nack
    <3>3. CASE Exhausted(j, job[j]) /\ job'[j] = DeadRow(job[j]) /\ j \in deadLetter'
      <4>1. Agrees(job'[j], j, TRUE)
        BY Zenon, <1>t, <3>3, UpdatesAgree
      <4> QED
        BY Zenon, <3>3, <4>1 DEF Agrees
    <3>4. CASE (\E d : job'[j] = RetriedRow(job[j], d)) /\ deadLetter' = deadLetter
      BY Zenon, <1>t, <1>l, <1>f, <3>1, <3>4, UpdatesAgree
    <3> QED
      BY Zenon, <3>2, <3>3, <3>4
  <2>2. CASE k # j
    BY Zenon, <1>t, <1>1, <1>8, <2>2 DEF Leases!Nack
  <2> QED
    BY <2>1, <2>2
<1>9. ASSUME NEW w, NEW k \in Jobs, NEW t \in 0 .. now, Leases!ExtendLease(w, k, t) PROVE G
  <2>1. CASE k = j
    <3>1. job[j].status = "running" /\ job'[j] = ExtendedRow(job[j], t) /\ deadLetter' = deadLetter
      BY Zenon, <1>t, <1>9, <2>1, SameRows DEF Leases!ExtendLease
    <3>2. t \in Nat
      BY <1>t
    <3> QED
      BY Zenon, <1>t, <1>l, <1>f, <3>1, <3>2, UpdatesAgree
  <2>2. CASE k # j
    BY Zenon, <1>t, <1>1, <1>9, <2>2 DEF Leases!ExtendLease
  <2> QED
    BY <2>1, <2>2
<1> QED
  BY Zenon, <1>2, <1>3, <1>4, <1>5, <1>6, <1>7, <1>8, <1>9 DEF Leases!Next, Leases!TxTime

(* The tables written together agree: leases are recorded for the running  *)
(* jobs only, and dead_letter lists the dead jobs, which have spent their  *)
(* retry budget, whatever transactions interleave.                         *)
THEOREM Consistency == Spec => []TablesAgree
<1>1. Spec => []Inv
  BY NoUpdateIsLost DEF Inv
<1>2. Init => TablesAgree
  <2> SUFFICES ASSUME Init PROVE TablesAgree
    OBVIOUS
  <2>1. \A j \in Jobs : /\ job[j].status = "absent" /\ j \notin deadLetter
                        /\ job[j].lockedBy = NULL /\ job[j].lockedUntil = NULL
    BY Zenon DEF Init, AbsentRow
  <2> QED
    BY <2>1 DEF Init, TablesAgree
<1>3. Inv /\ Inv' /\ TablesAgree /\ [Next]_vars => TablesAgree'
  <2> SUFFICES ASSUME Inv, Inv', TablesAgree, [Next]_vars PROVE TablesAgree'
    OBVIOUS
  <2>1. \A j \in Jobs : Agrees(job[j], j, j \in deadLetter)
    BY Zenon, TablesAgreeByJob DEF Inv
  <2>2. \A j \in Jobs : Agrees(job'[j], j, j \in deadLetter')
    <3>1. CASE Leases!Next
      BY Zenon, <2>1, <3>1, TablesAgreeStep
    <3>2. CASE UNCHANGED <<job, deadLetter>>
      BY Zenon, <2>1, <3>2
    <3> QED
      BY <3>1, <3>2, StepRefines DEF Leases!vars
  <2> QED
    BY Zenon, <2>2 DEF Inv, TypeOK, TablesAgree, Agrees
<1> QED
  BY <1>1, <1>2, <1>3, PTL DEF Spec

-----------------------------------------------------------------------------
(* The history of runs: if no transaction outlasts the lease, a job that   *)
(* is not running has no open run and a running one at most one; and the   *)
(* runs are numbered as the attempts are counted.                          *)

(* How the commits change the open runs of a job. *)
LEMMA CommitDequeueRuns ==
    ASSUME TypeOK, NEW s \in Sessions, CommitDequeue(s), NEW j \in Jobs
    PROVE  /\ j \notin tx[s].picked => OpenRuns(j)' = OpenRuns(j) \ tx[s].closing[j]
           /\ j \in tx[s].picked =>
                OpenRuns(j)' = (OpenRuns(j) \ tx[s].closing[j]) \cup {Len(runs[j]) + 1}
<1>1. runs[j] \in Seq(Run)
  BY DEF TypeOK
<1>2. /\ ClosedRuns(s, j) \in Seq(Run) /\ Len(ClosedRuns(s, j)) = Len(runs[j])
      /\ NewRun(s, j) \in Run
  BY RunUpdates
<1>3. \A i \in 1 .. Len(runs[j]) :
        ClosedRuns(s, j)[i].status = "running"
          <=> i \in OpenRuns(j) \ tx[s].closing[j]
  <2> SUFFICES ASSUME NEW i \in 1 .. Len(runs[j])
               PROVE  ClosedRuns(s, j)[i].status = "running"
                        <=> i \in OpenRuns(j) \ tx[s].closing[j]
    OBVIOUS
  <2>1. i \in DOMAIN runs[j] /\ runs[j][i] \in Run
    BY <1>1
  <2>2. CASE i \in tx[s].closing[j]
    <3>1. ClosedRuns(s, j)[i] = [runs[j][i] EXCEPT !.status = "failed"]
      BY <2>1, <2>2 DEF ClosedRuns
    <3>2. ClosedRuns(s, j)[i].status = "failed"
      BY <2>1, <3>1 DEF Run
    <3> QED
      BY <2>2, <3>2
  <2>3. CASE i \notin tx[s].closing[j]
    BY <2>1, <2>3 DEF ClosedRuns, OpenRuns
  <2> QED
    BY <2>2, <2>3
<1>4. CASE j \notin tx[s].picked
  <2>1. runs'[j] = ClosedRuns(s, j)
    BY <1>4 DEF CommitDequeue
  <2> QED
    <3>1. DOMAIN runs'[j] = 1 .. Len(runs[j])
      BY <1>2, <2>1
    <3>2. OpenRuns(j)' = {i \in 1 .. Len(runs[j]) : ClosedRuns(s, j)[i].status = "running"}
      BY Zenon, <2>1, <3>1 DEF OpenRuns
    <3> QED
      BY Zenon, <1>1, <1>3, <1>4, <3>2, OpenRunNumbers
<1>5. CASE j \in tx[s].picked
  <2>1. runs'[j] = Append(ClosedRuns(s, j), NewRun(s, j))
    BY Zenon, <1>5 DEF CommitDequeue
  <2>2. NewRun(s, j).status = "running"
    BY DEF NewRun
  <2>3. DOMAIN runs'[j] = 1 .. Len(runs[j]) + 1 /\ Len(runs[j]) \in Nat
    BY <1>1, <1>2, <2>1
  <2>4. /\ runs'[j][Len(runs[j]) + 1] = NewRun(s, j)
        /\ \A i \in 1 .. Len(runs[j]) : runs'[j][i] = ClosedRuns(s, j)[i]
    <3> DEFINE q == ClosedRuns(s, j)
               e == NewRun(s, j)
    <3>1. q \in Seq(Run) /\ Len(q) = Len(runs[j]) /\ e \in Run
      BY Zenon, <1>2
    <3> HIDE DEF q, e
    <3>2. /\ Append(q, e)[Len(q) + 1] = e
          /\ \A i \in 1 .. Len(q) : Append(q, e)[i] = q[i]
      BY <3>1
    <3> QED
      BY Zenon, <2>1, <3>1, <3>2 DEF q, e
  <2>5. OpenRuns(j) \subseteq 1 .. Len(runs[j])
    BY Zenon, <1>1, OpenRunNumbers
  <2>6. \A i : i \in DOMAIN runs'[j] <=> i \in 1 .. Len(runs[j]) \/ i = Len(runs[j]) + 1
    BY <2>3
  <2>7. \A i : i \in OpenRuns(j)' <=> i \in DOMAIN runs'[j] /\ runs'[j][i].status = "running"
    BY Zenon DEF OpenRuns
  <2>8. \A i : i \in OpenRuns(j)' <=> i \in OpenRuns(j) \ tx[s].closing[j] \/ i = Len(runs[j]) + 1
    BY Zenon, <1>3, <2>2, <2>4, <2>5, <2>6, <2>7
  <2> QED
    BY Zenon, <1>5, <2>8
<1> QED
  BY Zenon, <1>4, <1>5

(* The COMMIT of Ack or Nack opens no run, and closes the one it finished. *)
LEMMA CommitSettlingRuns ==
    ASSUME TypeOK, NEW s \in Sessions, NEW i, CommitSettling(s, i), tx[s].job \in Jobs,
           NEW j \in Jobs
    PROVE  /\ OpenRuns(j)' \subseteq OpenRuns(j)
           /\ j = tx[s].job /\ i # 0 => i \notin OpenRuns(j)'
<1>1. runs \in [Jobs -> Seq(Run)] /\ tx[s].outcome \in {"succeeded", "failed", "dead"}
  BY DEF TypeOK, Tx
<1>2. CASE i = 0 \/ j # tx[s].job
  <2>1. runs'[j] = runs[j]
    BY Zenon, <1>1, <1>2 DEF CommitSettling
  <2> QED
    BY <1>2, <2>1 DEF OpenRuns
<1>3. CASE i # 0 /\ j = tx[s].job
  <2>1. runs'[j] = [runs[j] EXCEPT ![i].status = tx[s].outcome]
    BY Zenon, <1>1, <1>3 DEF CommitSettling
  <2>2. DOMAIN runs'[j] = DOMAIN runs[j]
    BY <1>1, <2>1
  <2>3. \A k \in DOMAIN runs[j] \ {i} : runs'[j][k] = runs[j][k]
    BY <1>1, <2>1
  <2>4. i \in DOMAIN runs[j] => runs'[j][i].status # "running"
    <3> SUFFICES ASSUME i \in DOMAIN runs[j] PROVE runs'[j][i].status # "running"
      OBVIOUS
    <3>1. runs[j][i] \in Run
      BY <1>1
    <3>2. runs'[j][i] = [runs[j][i] EXCEPT !.status = tx[s].outcome]
      BY <1>1, <2>1
    <3>3. runs'[j][i].status = tx[s].outcome
      BY <3>1, <3>2 DEF Run
    <3> QED
      BY <1>1, <3>3
  <2> QED
    BY <2>2, <2>3, <2>4 DEF OpenRuns
<1> QED
  BY <1>2, <1>3

(* A lease written by a step is not expired for any open transaction:      *)
(* whoever writes it started at most TxBound, hence at most Lease, ago.    *)
LEMMA NewLeases ==
    ASSUME TxBound <= Lease, Inv, RunsTracked, [Next]_vars,
           NEW t \in Nat, t <= now, NEW j \in Jobs, Expired(job'[j], t)
    PROVE  Expired(job[j], t) /\ OpenRuns(j)' \subseteq OpenRuns(j)
<1>t. /\ now \in Nat /\ job \in [Jobs -> Row] /\ job[j] \in Row /\ tx \in [Sessions -> Tx]
      /\ TxBound \in Nat /\ Lease \in Nat
  BY Zenon, BoundsAssumption, LeaseAssumption DEF Inv, TypeOK
<1>e. job'[j].status = "running" /\ job'[j].lockedUntil < t
  BY DEF Expired
<1>1. ASSUME job'[j] = job[j], runs' = runs
      PROVE  Expired(job[j], t) /\ OpenRuns(j)' \subseteq OpenRuns(j)
  BY <1>1 DEF OpenRuns
<1>2. ASSUME NEW s \in Sessions, CommitDequeue(s)
      PROVE  Expired(job[j], t) /\ OpenRuns(j)' \subseteq OpenRuns(j)
  <2>1. tx[s].at \in Nat /\ now - tx[s].at <= TxBound
    BY Zenon, <1>t, <1>2 DEF CommitDequeue, RunsTracked, Tx
  <2>2. j \notin tx[s].picked
    <3> SUFFICES ASSUME j \in tx[s].picked PROVE FALSE
      OBVIOUS
    <3>1. job'[j] = ClaimedRow(job[j], tx[s].by, tx[s].at)
      BY <1>2 DEF CommitDequeue
    <3>2. job'[j].lockedUntil = tx[s].at + Lease
      BY <1>t, <3>1 DEF ClaimedRow, Row
    <3> QED
      BY <1>t, <1>e, <2>1, <3>2
  <2>3. j \notin tx[s].reclaiming
    <3> SUFFICES ASSUME j \in tx[s].reclaiming PROVE FALSE
      OBVIOUS
    <3>1. job'[j] = ReclaimedRow(job[j])
      BY <1>2, <2>2 DEF CommitDequeue
    <3>2. job'[j].status = "ready"
      BY <1>t, <3>1 DEF ReclaimedRow, Row
    <3> QED
      BY <1>e, <3>2
  <2>4. job'[j] = job[j]
    BY <1>2, <2>2, <2>3 DEF CommitDequeue
  <2>5. OpenRuns(j)' \subseteq OpenRuns(j)
    BY <1>2, <2>2, CommitDequeueRuns DEF Inv
  <2> QED
    BY <2>4, <2>5
<1>3. ASSUME NEW s \in Sessions, NEW i, tx[s].job \in Jobs, CommitSettling(s, i)
      PROVE  Expired(job[j], t) /\ OpenRuns(j)' \subseteq OpenRuns(j)
  <2>1. PICK d : job' = [job EXCEPT ![tx[s].job] = SettledRow(tx[s].job, tx[s].outcome, d)]
    BY Zenon, <1>3 DEF CommitSettling
  <2>2. j # tx[s].job
    <3> SUFFICES ASSUME j = tx[s].job PROVE FALSE
      OBVIOUS
    <3>1. tx[s].outcome \in {"succeeded", "failed", "dead"}
      BY <1>t DEF Tx
    <3>2. \/ job'[j] = SucceededRow(job[j])
          \/ job'[j] = DeadRow(job[j])
          \/ job'[j] = RetriedRow(job[j], d)
      BY Zenon, <1>t, <2>1, <3>1 DEF SettledRow
    <3>3. job'[j].status # "running"
      BY Zenon, <1>t, <3>2 DEF SucceededRow, DeadRow, RetriedRow, Row
    <3> QED
      BY <1>e, <3>3
  <2>3. job'[j] = job[j]
    BY <1>t, <2>1, <2>2
  <2> QED
    BY <1>3, <2>3, CommitSettlingRuns DEF Inv
<1>4. ASSUME NEW w \in Workers, NEW k \in Jobs, ExtendLease(w, k)
      PROVE  Expired(job[j], t) /\ OpenRuns(j)' \subseteq OpenRuns(j)
  <2>1. PICK u \in StartTimes : job' = [job EXCEPT ![k] = ExtendedRow(@, u)]
    BY Zenon, <1>4 DEF ExtendLease
  <2>2. u \in Nat /\ now - u <= TxBound
    BY <1>t DEF StartTimes
  <2>3. k # j
    <3> SUFFICES ASSUME k = j PROVE FALSE
      OBVIOUS
    <3>1. job'[j] = ExtendedRow(job[j], u)
      BY <1>t, <2>1
    <3>2. job'[j].lockedUntil = u + Lease
      BY <1>t, <3>1 DEF ExtendedRow, Row
    <3> QED
      BY <1>t, <1>e, <2>2, <3>2
  <2>4. job'[j] = job[j] /\ runs' = runs
    BY <1>4, <1>t, <2>1, <2>3 DEF ExtendLease
  <2> QED
    BY <1>1, <2>4
<1>5. ASSUME NEW k \in Jobs, Enqueue(k) \/ RequeueDLQ(k) \/ Cancel(k)
      PROVE  Expired(job[j], t) /\ OpenRuns(j)' \subseteq OpenRuns(j)
  <2>1. k # j
    <3> SUFFICES ASSUME k = j PROVE FALSE
      OBVIOUS
    <3>1. \/ \E u : job'[j] = InsertedRow(j, u)
          \/ \E u : job'[j] = RequeuedRow(job[j], u)
          \/ job'[j] = CancelledRow(job[j])
      BY <1>5, <1>t DEF Enqueue, RequeueDLQ, Cancel
    <3>2. job'[j].status # "running"
      BY Zenon, <1>t, <3>1 DEF InsertedRow, AbsentRow, RequeuedRow, CancelledRow, Row
    <3> QED
      BY <1>e, <3>2
  <2>2. job'[j] = job[j] /\ runs' = runs
    BY Zenon, <1>5, <1>t, <2>1 DEF Enqueue, RequeueDLQ, Cancel
  <2> QED
    BY <1>1, <2>2
<1>6. CASE (\E k \in Jobs : ensureTenant(k)) \/ Tick \/ UNCHANGED vars
  BY <1>1, <1>6 DEF ensureTenant, Tick, vars, tables
<1>7. ASSUME NEW s \in Sessions, BeginTx(s) \/ rollback(s)
      PROVE  Expired(job[j], t) /\ OpenRuns(j)' \subseteq OpenRuns(j)
  BY Zenon, <1>1, <1>7 DEF BeginTx, BeginDequeue, BeginAck, BeginNack, BeginSettling, rollback, tables
<1>8. ASSUME NEW s \in Sessions, NextStatement(s)
      PROVE  Expired(job[j], t) /\ OpenRuns(j)' \subseteq OpenRuns(j)
  <2>1. tx[s].stmt \in {"settling", "waiting"} => tx[s].job \in Jobs
    BY Zenon, <1>t DEF Inv, LocksMatchStatement, LocksMatch, Tx
  <2>2. CASE FinishRun(s) \/ FinishAwaitedRun(s)
    BY Zenon, <1>3, <2>1, <2>2 DEF FinishRun, FinishAwaitedRun
  <2>3. CASE CloseExpiredRuns(s) \/ ReclaimExpiredJobs(s) \/ PickJobs(s) \/ WaitForRun(s)
    BY Zenon, <1>1, <2>3 DEF CloseExpiredRuns, ReclaimExpiredJobs, PickJobs, WaitForRun, tables
  <2> QED
    BY Zenon, <1>2, <1>8, <2>2, <2>3 DEF NextStatement
<1> QED
  BY <1>4, <1>5, <1>6, <1>7, <1>8 DEF Next, Autocommit

(* No step of another session opens a run of a job that is locked. *)
LEMMA LockedRunsShrink ==
    ASSUME Inv, NEW s \in Sessions, NextStatement(s) \/ BeginTx(s) \/ rollback(s),
           NEW j \in Jobs, j \notin tx[s].picked
    PROVE  OpenRuns(j)' \subseteq OpenRuns(j)
<1>1. ASSUME runs' = runs PROVE OpenRuns(j)' \subseteq OpenRuns(j)
  BY <1>1 DEF OpenRuns
<1>2. CASE CommitDequeue(s)
  <2>1. TypeOK
    BY Zenon DEF Inv
  <2>2. OpenRuns(j)' = OpenRuns(j) \ tx[s].closing[j]
    BY Zenon, <1>2, <2>1, CommitDequeueRuns
  <2> QED
    BY Zenon, <2>2
<1>3. CASE FinishRun(s) \/ FinishAwaitedRun(s)
  <2>1. tx[s].job \in Jobs
    BY Zenon, <1>3 DEF Inv, TypeOK, Tx, LocksMatchStatement, LocksMatch, FinishRun, FinishAwaitedRun
  <2> QED
    BY Zenon, <1>3, <2>1, CommitSettlingRuns DEF Inv, FinishRun, FinishAwaitedRun
<1>4. CASE CloseExpiredRuns(s) \/ ReclaimExpiredJobs(s) \/ PickJobs(s) \/ WaitForRun(s)
  BY Zenon, <1>1, <1>4 DEF CloseExpiredRuns, ReclaimExpiredJobs, PickJobs, WaitForRun, tables
<1>5. CASE BeginTx(s) \/ rollback(s)
  BY Zenon, <1>1, <1>5 DEF BeginTx, BeginDequeue, BeginAck, BeginNack, BeginSettling, rollback, tables
<1> QED
  BY <1>2, <1>3, <1>4, <1>5 DEF NextStatement

(* What RunsTracked says of one session. *)
Tracked(s) ==
    /\ tx[s].stmt # "idle" => now - tx[s].at <= TxBound
    /\ tx[s].stmt = "closed" =>
          \A j \in Jobs : Expired(job[j], tx[s].at) => OpenRuns(j) \subseteq tx[s].closing[j]
    /\ \A j \in tx[s].reclaiming : OpenRuns(j) \subseteq tx[s].closing[j]
    /\ tx[s].stmt = "waiting" => OpenRuns(tx[s].job) \subseteq {tx[s].target}

(* Every step keeps RunsTracked, the leases outlasting the transactions. *)
LEMMA RunsTrackedStep ==
    ASSUME TxBound <= Lease, Inv, RunsTracked, NoRunLeftOpen, [Next]_vars
    PROVE  RunsTracked'
<1> SUFFICES ASSUME NEW o \in Sessions PROVE Tracked(o)'
  BY Zenon DEF RunsTracked, Tracked
<1>t. /\ now \in Nat /\ tx \in [Sessions -> Tx] /\ tx[o] \in Tx /\ TxBound \in Nat
      /\ LocksMatch(o) /\ Tracked(o)
  BY Zenon, BoundsAssumption DEF Inv, TypeOK, LocksMatchStatement, RunsTracked, Tracked
<1>l. \A j \in Jobs : Expired(job'[j], tx[o].at) =>
         Expired(job[j], tx[o].at) /\ OpenRuns(j)' \subseteq OpenRuns(j)
  BY Zenon, <1>t, NewLeases DEF LocksMatch, Tx
<1>1. ASSUME tx'[o] = tx[o], tx[o].stmt # "idle" => now' - tx[o].at <= TxBound,
             \A j \in RowsLocked(o) : OpenRuns(j)' \subseteq OpenRuns(j)
      PROVE  Tracked(o)'
  <2>1. \A j \in tx[o].reclaiming : OpenRuns(j)' \subseteq OpenRuns(j)
    BY Zenon, <1>1 DEF RowsLocked
  <2>2. tx[o].stmt = "waiting" => OpenRuns(tx[o].job)' \subseteq OpenRuns(tx[o].job)
    BY Zenon, <1>1, <1>t DEF RowsLocked, LocksMatch, Tx
  <2>3. tx[o].stmt = "closed" =>
          \A j \in Jobs : Expired(job'[j], tx[o].at) => OpenRuns(j)' \subseteq tx[o].closing[j]
    <3>1. tx[o].stmt = "closed" =>
            \A j \in Jobs : Expired(job[j], tx[o].at) => OpenRuns(j) \subseteq tx[o].closing[j]
      BY Zenon, <1>t DEF Tracked
    <3> QED
      BY Zenon, <1>l, <3>1
  <2>4. \A j \in tx[o].reclaiming : OpenRuns(j)' \subseteq tx[o].closing[j]
    BY <1>t, <2>1 DEF Tracked
  <2>5. tx[o].stmt = "waiting" => OpenRuns(tx[o].job)' \subseteq {tx[o].target}
    BY Zenon, <1>t, <2>2 DEF Tracked
  <2> QED
    BY Zenon, <1>1, <2>3, <2>4, <2>5 DEF Tracked
<1>2. ASSUME tx'[o] = NoTx PROVE Tracked(o)'
  <2>n. NoTx.stmt = "idle" /\ NoTx.reclaiming = {}
    BY Zenon DEF NoTx
  <2>1. tx'[o].stmt = "idle" /\ tx'[o].reclaiming = {}
    BY Zenon, <1>2, <2>n
  <2> QED
    BY Zenon, <2>1 DEF Tracked
<1>3. ASSUME NEW s \in Sessions, BeginTx(s) \/ NextStatement(s) \/ rollback(s), s # o
      PROVE  Tracked(o)'
  <2>1. tx'[o] = tx[o]
    BY Zenon, <1>3, OthersKeepTx DEF Inv
  <2>2. now' = now
    BY Zenon, <1>3 DEF BeginTx, BeginDequeue, BeginAck, BeginNack, BeginSettling, NextStatement,
       CloseExpiredRuns, ReclaimExpiredJobs, PickJobs, CommitDequeue, FinishRun, WaitForRun,
       FinishAwaitedRun, CommitSettling, rollback
  <2>3. \A j \in RowsLocked(o) : j \in Jobs /\ j \notin tx[s].picked
    <3>1. Apart(s, o)
      BY <1>3 DEF Inv, NoLostUpdate
    <3> QED
      BY Zenon, <1>t, <3>1 DEF Apart, RowsLocked, Tx
  <2>4. \A j \in RowsLocked(o) : OpenRuns(j)' \subseteq OpenRuns(j)
    BY Zenon, <1>3, <2>3, LockedRunsShrink
  <2> QED
    BY Zenon, <1>1, <1>t, <2>1, <2>2, <2>4 DEF Tracked
<1>4. CASE Autocommit \/ Tick \/ UNCHANGED vars
  <2>1. tx' = tx /\ runs' = runs
    BY Zenon, <1>4 DEF Autocommit, ensureTenant, Enqueue, Cancel, RequeueDLQ, ExtendLease, Tick,
       vars, tables
  <2>2. CASE now' = now
    BY Zenon, <1>1, <1>t, <2>1, <2>2 DEF Tracked, OpenRuns
  <2>3. CASE Tick
    <3>1. tx[o].stmt # "idle" => now' - tx[o].at <= TxBound
      BY SMTT(60), <1>t, <2>3 DEF Tick, Tx
    <3> QED
      BY Zenon, <1>1, <2>1, <3>1 DEF OpenRuns
  <2> QED
    BY Zenon, <1>4, <2>2, <2>3
    DEF Autocommit, ensureTenant, Enqueue, Cancel, RequeueDLQ, ExtendLease, vars
<1>5. ASSUME NEW w \in Workers, BeginDequeue(o, w) PROVE Tracked(o)'
  <2>1. tx'[o].stmt = "begun" /\ tx'[o].at = now /\ tx'[o].reclaiming = {}
    BY <1>5, <1>t DEF BeginDequeue, NoTx
  <2>2. now' = now
    BY <1>5 DEF BeginDequeue
  <2>3. tx'[o].stmt # "closed" /\ tx'[o].stmt # "waiting"
    BY <2>1
  <2>4. now' - tx'[o].at <= TxBound
    <3>1. now - now <= TxBound
      BY <1>t
    <3> QED
      BY Zenon, <2>1, <2>2, <3>1
  <2> QED
    BY Zenon, <2>1, <2>3, <2>4 DEF Tracked
<1>6. ASSUME NEW w, NEW j \in Jobs, NEW out, BeginSettling(o, w, j, out) PROVE Tracked(o)'
  <2>1. PICK t \in StartTimes :
           tx' = [tx EXCEPT ![o] = [NoTx EXCEPT !.stmt = "settling", !.at = t, !.by = w,
                                                !.job = j, !.outcome = out]]
    BY Zenon, <1>6 DEF BeginSettling
  <2>2. tx'[o].stmt = "settling" /\ tx'[o].at = t /\ tx'[o].reclaiming = {}
    BY <1>t, <2>1 DEF NoTx
  <2>3. now' = now /\ now - t <= TxBound
    BY <1>6 DEF BeginSettling, StartTimes
  <2> QED
    BY Zenon, <2>2, <2>3 DEF Tracked
<1>7. CASE CloseExpiredRuns(o)
  <2>1. /\ tx'[o].stmt = "closed" /\ tx'[o].at = tx[o].at
        /\ tx'[o].closing = [j \in Jobs |-> AbandonedRuns(o, j)]
        /\ tx'[o].reclaiming = tx[o].reclaiming
    BY Zenon, <1>7, CloseExpiredRunsTx DEF Inv
  <2>2. tx[o].stmt = "begun" /\ tx[o].reclaiming = {} /\ now' = now /\ job' = job /\ runs' = runs
    BY <1>7, <1>t DEF CloseExpiredRuns, LocksMatch, tables
  <2>3. \A j \in Jobs : Expired(job[j], tx[o].at) => OpenRuns(j) \subseteq AbandonedRuns(o, j)
    BY DEF AbandonedRuns
  <2> QED
    BY Zenon, <1>t, <2>1, <2>2, <2>3 DEF Tracked, OpenRuns
<1>8. CASE ReclaimExpiredJobs(o)
  <2>1. /\ tx'[o].stmt = "reclaimed" /\ tx'[o].at = tx[o].at
        /\ tx'[o].closing = tx[o].closing
        /\ tx'[o].reclaiming = {j \in Jobs : Expired(job[j], tx[o].at)}
    BY Zenon, <1>8, ReclaimExpiredJobsTx DEF Inv
  <2>2. tx[o].stmt = "closed" /\ now' = now /\ job' = job /\ runs' = runs
    BY <1>8 DEF ReclaimExpiredJobs, tables
  <2> QED
    BY Zenon, <1>t, <2>1, <2>2 DEF Tracked, OpenRuns
<1>9. CASE PickJobs(o)
  <2>1. /\ tx'[o].stmt = "picked" /\ tx'[o].at = tx[o].at
        /\ tx'[o].closing = tx[o].closing /\ tx'[o].reclaiming = tx[o].reclaiming
    BY Zenon, <1>9, PickJobsTx DEF Inv
  <2>2. tx[o].stmt = "reclaimed" /\ now' = now /\ runs' = runs
    BY <1>9 DEF PickJobs, tables
  <2> QED
    BY Zenon, <1>t, <2>1, <2>2 DEF Tracked, OpenRuns
<1>10. CASE WaitForRun(o)
  <2>1. /\ tx'[o].stmt = "waiting" /\ tx'[o].at = tx[o].at
        /\ tx'[o].reclaiming = tx[o].reclaiming /\ tx'[o].job = tx[o].job
        /\ tx'[o].target \in OpenRuns(tx[o].job)
    BY Zenon, <1>10, WaitForRunTx DEF Inv
  <2>2. tx[o].stmt = "settling" /\ now' = now /\ runs' = runs
    BY <1>10 DEF WaitForRun, tables
  <2>3. tx[o].job \in Jobs /\ tx[o].reclaiming = {}
    BY Zenon, <1>t, <2>2 DEF LocksMatch, Tx
  <2>4. OpenRuns(tx[o].job) \subseteq {tx'[o].target}
    BY Zenon, <2>1, <2>3 DEF NoRunLeftOpen
  <2> QED
    BY Zenon, <1>t, <2>1, <2>2, <2>3, <2>4 DEF Tracked, OpenRuns
<1>11. CASE CommitDequeue(o) \/ (\E i : CommitSettling(o, i)) \/ rollback(o)
  BY Zenon, <1>11, <1>2, <1>t DEF CommitDequeue, CommitSettling, rollback
<1>12. CASE BeginTx(o)
  BY Zenon, <1>5, <1>6, <1>12 DEF BeginTx, BeginAck, BeginNack
<1>13. CASE NextStatement(o)
  BY Zenon, <1>7, <1>8, <1>9, <1>10, <1>11, <1>13 DEF NextStatement, FinishRun, FinishAwaitedRun
<1> QED
  BY <1>3, <1>4, <1>11, <1>12, <1>13 DEF Next

(* Every step keeps NoRunLeftOpen. *)
LEMMA NoRunLeftOpenStep ==
    ASSUME Inv, RunsTracked, NoRunLeftOpen, [Next]_vars
    PROVE  NoRunLeftOpen'
<1> SUFFICES ASSUME NEW j \in Jobs
             PROVE  /\ job'[j].status # "running" => OpenRuns(j)' = {}
                    /\ \A i, k \in OpenRuns(j)' : i = k
  BY Zenon DEF NoRunLeftOpen
<1> DEFINE G == /\ job'[j].status # "running" => OpenRuns(j)' = {}
                /\ \A i, k \in OpenRuns(j)' : i = k
<1>t. /\ job \in [Jobs -> Row] /\ job[j] \in Row /\ tx \in [Sessions -> Tx]
      /\ job[j].status # "running" => OpenRuns(j) = {}
      /\ \A i, k \in OpenRuns(j) : i = k
  BY DEF Inv, TypeOK, NoRunLeftOpen
<1>1. ASSUME OpenRuns(j)' \subseteq OpenRuns(j), job[j].status = "running" => job'[j].status = "running"
      PROVE  G
  BY <1>1, <1>t
<1>2. ASSUME NEW s \in Sessions, CommitDequeue(s) PROVE G
  <2>1. tx[s] \in Tx /\ LocksMatch(s) /\ AsRead(s)
    BY Zenon, <1>t DEF Inv, LocksMatchStatement, NoLostUpdate
  <2>2. j \in tx[s].reclaiming => OpenRuns(j) \subseteq tx[s].closing[j]
    BY Zenon DEF RunsTracked
  <2>3. CASE j \in tx[s].picked
    <3>1. job[j].status = "ready" \/ j \in tx[s].reclaiming
      BY Zenon, <2>1, <2>3 DEF AsRead
    <3>2. OpenRuns(j) \ tx[s].closing[j] = {}
      BY Zenon, <1>t, <2>2, <3>1
    <3>3. OpenRuns(j)' = {Len(runs[j]) + 1}
      BY Zenon, <1>2, <2>3, <3>2, CommitDequeueRuns DEF Inv
    <3>4. job'[j] = ClaimedRow(job[j], tx[s].by, tx[s].at)
      BY Zenon, <1>2, <2>3 DEF CommitDequeue
    <3>5. job'[j].status = "running"
      BY <1>t, <3>4 DEF ClaimedRow, Row
    <3> QED
      BY <3>3, <3>5
  <2>4. CASE j \notin tx[s].picked /\ j \in tx[s].reclaiming
    BY Zenon, <1>2, <2>2, <2>4, CommitDequeueRuns DEF Inv
  <2>5. CASE j \notin tx[s].picked /\ j \notin tx[s].reclaiming
    <3>1. job'[j] = job[j]
      BY Zenon, <1>2, <2>5 DEF CommitDequeue
    <3> QED
      BY Zenon, <1>1, <1>2, <2>5, <3>1, CommitDequeueRuns DEF Inv
  <2> QED
    BY Zenon, <2>3, <2>4, <2>5
<1>3. ASSUME NEW s \in Sessions, FinishRun(s) \/ FinishAwaitedRun(s) PROVE G
  <2>1. tx[s].job \in Jobs
    BY Zenon, <1>3 DEF Inv, TypeOK, Tx, LocksMatchStatement, LocksMatch, FinishRun, FinishAwaitedRun
  <2>2. PICK i : /\ CommitSettling(s, i)
                 /\ OpenRuns(tx[s].job) \subseteq {i} \/ OpenRuns(tx[s].job) = {}
                 /\ i = 0 => OpenRuns(tx[s].job) = {}
    <3>1. CASE FinishRun(s)
      <4>1. CASE OpenRuns(tx[s].job) = {} /\ CommitSettling(s, 0)
        BY Zenon, <4>1
      <4>2. ASSUME NEW i \in NewestOpenRuns(tx[s].job), CommitSettling(s, i)
            PROVE  /\ OpenRuns(tx[s].job) \subseteq {i}
                   /\ i # 0
        <5>1. i \in OpenRuns(tx[s].job)
          BY Zenon DEF NewestOpenRuns
        <5>2. OpenRuns(tx[s].job) \subseteq Nat \ {0}
          BY Zenon, <2>1, OpenRunNumbers DEF Inv, TypeOK
        <5> QED
          BY Zenon, <2>1, <5>1, <5>2 DEF NoRunLeftOpen
      <4> QED
        BY Zenon, <3>1, <4>1, <4>2 DEF FinishRun
    <3>2. CASE FinishAwaitedRun(s)
      <4>1. OpenRuns(tx[s].job) \subseteq {tx[s].target} /\ CommitSettling(s, tx[s].target)
        BY Zenon, <3>2 DEF FinishAwaitedRun, RunsTracked
      <4>2. tx[s].target # 0
        <5>1. tx[s].target \in DOMAIN runs[tx[s].job]
          BY Zenon, <3>2 DEF FinishAwaitedRun, Inv, LocksMatchStatement, LocksMatch
        <5>2. runs[tx[s].job] \in Seq(Run)
          BY Zenon, <2>1 DEF Inv, TypeOK
        <5> QED
          BY <5>1, <5>2
      <4> QED
        BY Zenon, <4>1, <4>2
    <3> QED
      BY Zenon, <1>3, <3>1, <3>2
  <2>3. OpenRuns(j)' \subseteq OpenRuns(j)
    BY Zenon, <2>1, <2>2, CommitSettlingRuns DEF Inv
  <2>4. CASE j = tx[s].job
    <3>1. i # 0 => i \notin OpenRuns(j)'
      BY Zenon, <2>1, <2>2, <2>4, CommitSettlingRuns DEF Inv
    <3>2. OpenRuns(j)' = {}
      BY Zenon, <2>2, <2>3, <2>4, <3>1
    <3> QED
      BY Zenon, <3>2
  <2>5. CASE j # tx[s].job
    <3>1. job'[j] = job[j]
      BY Zenon, <1>t, <2>1, <2>2, <2>5 DEF CommitSettling
    <3> QED
      BY Zenon, <1>1, <2>3, <3>1
  <2> QED
    BY Zenon, <2>4, <2>5
<1>4. ASSUME runs' = runs, job[j].status = "running" => job'[j].status = "running" PROVE G
  BY Zenon, <1>1, <1>4 DEF OpenRuns
<1>5. ASSUME NEW s \in Sessions,
             \/ BeginTx(s) \/ rollback(s) \/ CloseExpiredRuns(s)
             \/ ReclaimExpiredJobs(s) \/ PickJobs(s) \/ WaitForRun(s)
      PROVE  G
  BY Zenon, <1>4, <1>5 DEF BeginTx, BeginDequeue, BeginAck, BeginNack, BeginSettling, rollback,
     CloseExpiredRuns, ReclaimExpiredJobs, PickJobs, WaitForRun, tables
<1>6. CASE Autocommit
  <2>1. runs' = runs
    BY Zenon, <1>6 DEF Autocommit, ensureTenant, Enqueue, Cancel, RequeueDLQ, ExtendLease
  <2>2. ASSUME NEW k \in Jobs, Enqueue(k) \/ Cancel(k) \/ RequeueDLQ(k), job[j].status = "running"
        PROVE  job'[j] = job[j]
    BY Zenon, <1>t, <2>2 DEF Enqueue, Cancel, RequeueDLQ
  <2>3. ASSUME NEW w \in Workers, NEW k \in Jobs, ExtendLease(w, k)
        PROVE  job'[j].status = job[j].status
    BY <1>t, <2>3 DEF ExtendLease, ExtendedRow, Row
  <2>4. ASSUME NEW k \in Jobs, ensureTenant(k) PROVE job' = job
    BY <2>4 DEF ensureTenant
  <2> QED
    BY Zenon, <1>4, <1>6, <2>1, <2>2, <2>3, <2>4 DEF Autocommit
<1>7. CASE Tick \/ UNCHANGED vars
  BY Zenon, <1>4, <1>7 DEF Tick, vars, tables
<1> QED
  BY Zenon, <1>2, <1>3, <1>5, <1>6, <1>7 DEF Next, NextStatement

(* If no transaction lasts longer than the lease, then a job that is not   *)
(* running has no open run, and a running job has at most one: Dequeue     *)
(* closes an abandoned run before the job is claimed again, whatever       *)
(* heartbeats, acknowledgements and other Dequeues do in between.          *)
THEOREM RunHistory == ASSUME TxBound <= Lease PROVE Spec => []NoRunLeftOpen
<1>1. Init => RunsTracked /\ NoRunLeftOpen
  <2> SUFFICES ASSUME Init PROVE RunsTracked /\ NoRunLeftOpen
    OBVIOUS
  <2>1. \A s \in Sessions : tx[s].stmt = "idle" /\ tx[s].reclaiming = {}
    BY Zenon DEF Init, NoTx
  <2>2. \A j \in Jobs : OpenRuns(j) = {}
    BY DEF Init, OpenRuns
  <2> QED
    BY Zenon, <2>1, <2>2 DEF RunsTracked, NoRunLeftOpen
<1>2. Inv /\ RunsTracked /\ NoRunLeftOpen /\ [Next]_vars => RunsTracked' /\ NoRunLeftOpen'
  BY RunsTrackedStep, NoRunLeftOpenStep
<1>3. Spec => []Inv
  BY NoUpdateIsLost DEF Inv
<1> QED
  BY <1>1, <1>2, <1>3, PTL DEF Spec

-----------------------------------------------------------------------------
(* AttemptsNumbered, for one job with n attempts and runs q. *)
Numbered(n, q) ==
    /\ n <= Len(q)
    /\ \A k \in 1 .. n : q[Len(q) - n + k].attempt = k

(* Two histories that differ in the outcomes of the runs at most. *)
SameAttempts(q, r) ==
    /\ Len(q) = Len(r)
    /\ \A i \in 1 .. Len(q) : q[i].attempt = r[i].attempt

(* The numbering does not depend on outcomes, and holds of no attempts. *)
LEMMA NumberedKept ==
    ASSUME NEW n \in Nat, NEW q \in Seq(Run), NEW r \in Seq(Run),
           Numbered(n, q), SameAttempts(q, r)
    PROVE  Numbered(n, r) /\ Numbered(0, r)
<1>1. Len(q) \in Nat /\ Len(r) = Len(q) /\ n <= Len(q)
  BY DEF SameAttempts, Numbered
<1>2. \A k \in 1 .. n : Len(q) - n + k \in 1 .. Len(q)
  BY <1>1
<1>3. \A k \in 1 .. n : r[Len(r) - n + k].attempt = k
  BY <1>1, <1>2 DEF SameAttempts, Numbered
<1> QED
  BY <1>1, <1>3 DEF Numbered

(* A claim numbers its run one more than the last. *)
LEMMA NumberedAppend ==
    ASSUME NEW n \in Nat, NEW q \in Seq(Run), NEW e \in Run, Numbered(n, q), e.attempt = n + 1
    PROVE  Numbered(n + 1, Append(q, e))
<1> DEFINE r == Append(q, e)
<1>1. /\ Len(q) \in Nat /\ Len(r) = Len(q) + 1 /\ r[Len(q) + 1] = e
      /\ \A i \in 1 .. Len(q) : r[i] = q[i]
  OBVIOUS
<1> HIDE DEF r
<1>2. n <= Len(q)
  BY DEF Numbered
<1>3. ASSUME NEW k \in 1 .. n + 1 PROVE r[Len(r) - (n + 1) + k].attempt = k
  <2>1. Len(r) - (n + 1) + k = Len(q) - n + k
    BY <1>1
  <2>2. CASE k \in 1 .. n
    <3>1. Len(q) - n + k \in 1 .. Len(q) /\ q[Len(q) - n + k].attempt = k
      BY <1>1, <1>2, <2>2 DEF Numbered
    <3> QED
      BY <1>1, <2>1, <3>1
  <2>3. CASE k = n + 1
    <3>1. Len(q) - n + k = Len(q) + 1
      BY <1>1, <2>3
    <3> QED
      BY <1>1, <2>1, <2>3, <3>1
  <2> QED
    BY <2>2, <2>3
<1>4. n + 1 <= Len(r)
  BY <1>1, <1>2
<1>5. Numbered(n + 1, r)
  BY Zenon, <1>3, <1>4 DEF Numbered
<1> QED
  BY <1>5 DEF r

(* The updates of a row leave attempts alone, but for those of Enqueue and *)
(* RequeueDLQ, which set it to zero, and that of Dequeue.                  *)
LEMMA AttemptsOfUpdates ==
    ASSUME NEW j \in Jobs, NEW r \in Row
    PROVE  /\ \A t : InsertedRow(j, t).attempts = 0 /\ RequeuedRow(r, t).attempts = 0
           /\ \A w, t : ClaimedRow(r, w, t).attempts = r.attempts + 1
           /\ ReclaimedRow(r).attempts = r.attempts /\ SucceededRow(r).attempts = r.attempts
           /\ DeadRow(r).attempts = r.attempts /\ CancelledRow(r).attempts = r.attempts
           /\ \A t : RetriedRow(r, t).attempts = r.attempts
           /\ \A t : ExtendedRow(r, t).attempts = r.attempts
<1>1. \A t : InsertedRow(j, t).attempts = 0 /\ RequeuedRow(r, t).attempts = 0
  BY Zenon DEF InsertedRow, AbsentRow, RequeuedRow, Row
<1>2. \A w, t : ClaimedRow(r, w, t).attempts = r.attempts + 1
  BY Zenon DEF ClaimedRow, Row
<1>3. /\ ReclaimedRow(r).attempts = r.attempts /\ SucceededRow(r).attempts = r.attempts
      /\ DeadRow(r).attempts = r.attempts /\ CancelledRow(r).attempts = r.attempts
  BY Zenon DEF ReclaimedRow, SucceededRow, DeadRow, CancelledRow, Row
<1>4. \A t : RetriedRow(r, t).attempts = r.attempts /\ ExtendedRow(r, t).attempts = r.attempts
  BY Zenon DEF RetriedRow, ExtendedRow, Row
<1> QED
  BY Zenon, <1>1, <1>2, <1>3, <1>4

(* Every step keeps AttemptsNumbered. *)
LEMMA AttemptsNumberedStep ==
    ASSUME Inv, Inv', [Next]_vars, NEW j \in Jobs, Numbered(job[j].attempts, runs[j])
    PROVE  Numbered(job'[j].attempts, runs'[j])
<1>t. /\ job \in [Jobs -> Row] /\ job[j] \in Row /\ runs \in [Jobs -> Seq(Run)]
      /\ runs[j] \in Seq(Run) /\ runs'[j] \in Seq(Run) /\ tx \in [Sessions -> Tx]
  BY Zenon DEF Inv, TypeOK
<1>n. job[j].attempts \in Nat
  BY <1>t DEF Row
<1>u. /\ \A t : InsertedRow(j, t).attempts = 0 /\ RequeuedRow(job[j], t).attempts = 0
      /\ \A w, t : ClaimedRow(job[j], w, t).attempts = job[j].attempts + 1
      /\ ReclaimedRow(job[j]).attempts = job[j].attempts /\ SucceededRow(job[j]).attempts = job[j].attempts
      /\ DeadRow(job[j]).attempts = job[j].attempts /\ CancelledRow(job[j]).attempts = job[j].attempts
      /\ \A t : RetriedRow(job[j], t).attempts = job[j].attempts
      /\ \A t : ExtendedRow(job[j], t).attempts = job[j].attempts
  BY Zenon, <1>t, AttemptsOfUpdates
<1> DEFINE G == Numbered(job'[j].attempts, runs'[j])
<1>1. ASSUME SameAttempts(runs[j], runs'[j]), job'[j].attempts \in {job[j].attempts, 0} PROVE G
  BY Zenon, <1>t, <1>n, <1>1, NumberedKept
<1>2. ASSUME runs' = runs, job'[j].attempts \in {job[j].attempts, 0} PROVE G
  BY <1>1, <1>2 DEF SameAttempts
<1>3. ASSUME NEW s \in Sessions, CommitDequeue(s) PROVE G
  <2>1. /\ ClosedRuns(s, j) \in Seq(Run) /\ Len(ClosedRuns(s, j)) = Len(runs[j])
        /\ NewRun(s, j) \in Run
    BY RunUpdates DEF Inv
  <2>2. SameAttempts(runs[j], ClosedRuns(s, j))
    <3> SUFFICES ASSUME NEW i \in 1 .. Len(runs[j])
                 PROVE  runs[j][i].attempt = ClosedRuns(s, j)[i].attempt
      BY <2>1 DEF SameAttempts
    <3>1. i \in DOMAIN runs[j] /\ runs[j][i] \in Run
      BY <1>t
    <3> QED
      BY <3>1 DEF ClosedRuns, Run
  <2>3. CASE j \in tx[s].picked
    <3>1. /\ runs'[j] = Append(ClosedRuns(s, j), NewRun(s, j))
          /\ job'[j] = ClaimedRow(job[j], tx[s].by, tx[s].at)
      BY Zenon, <1>3, <2>3 DEF CommitDequeue
    <3>2. job'[j].attempts = job[j].attempts + 1 /\ NewRun(s, j).attempt = job[j].attempts + 1
      <4>1. ClaimedRow(job[j], tx[s].by, tx[s].at).attempts = job[j].attempts + 1
        BY Zenon, <1>u
      <4>2. NewRun(s, j).attempt = job[j].attempts + 1
        BY Zenon DEF NewRun
      <4> QED
        BY Zenon, <3>1, <4>1, <4>2
    <3>3. Numbered(job[j].attempts, ClosedRuns(s, j))
      BY Zenon, <1>t, <1>n, <2>1, <2>2, NumberedKept
    <3> QED
      BY Zenon, <1>n, <2>1, <3>1, <3>2, <3>3, NumberedAppend
  <2>4. CASE j \notin tx[s].picked
    <3>1. runs'[j] = ClosedRuns(s, j) /\ (job'[j] = ReclaimedRow(job[j]) \/ job'[j] = job[j])
      BY Zenon, <1>3, <2>4 DEF CommitDequeue
    <3>2. job'[j].attempts = job[j].attempts
      BY Zenon, <1>u, <3>1
    <3> QED
      BY Zenon, <1>1, <2>2, <3>1, <3>2
  <2> QED
    BY <2>3, <2>4
<1>4. ASSUME NEW s \in Sessions, NEW i, tx[s].job \in Jobs, CommitSettling(s, i) PROVE G
  <2>1. SameAttempts(runs[j], runs'[j])
    <3>1. runs'[j] = runs[j] \/ runs'[j] = [runs[j] EXCEPT ![i].status = tx[s].outcome]
      BY Zenon, <1>t, <1>4 DEF CommitSettling
    <3>2. CASE runs'[j] = [runs[j] EXCEPT ![i].status = tx[s].outcome]
      <4>1. /\ DOMAIN runs'[j] = DOMAIN runs[j]
            /\ \A k \in DOMAIN runs[j] : k # i => runs'[j][k] = runs[j][k]
            /\ i \in DOMAIN runs[j] => runs'[j][i] = [runs[j][i] EXCEPT !.status = tx[s].outcome]
        BY <1>t, <3>2
      <4>2. /\ Len(runs'[j]) = Len(runs[j]) /\ DOMAIN runs[j] = 1 .. Len(runs[j])
            /\ \A k \in DOMAIN runs[j] : runs[j][k] \in Run
        BY <1>t, <4>1
      <4>3. i \in DOMAIN runs[j] => runs'[j][i].attempt = runs[j][i].attempt
        BY Zenon, <4>1, <4>2 DEF Run
      <4> QED
        BY Zenon, <4>1, <4>2, <4>3 DEF SameAttempts
    <3>3. CASE runs'[j] = runs[j]
      BY <3>3 DEF SameAttempts
    <3> QED
      BY <3>1, <3>2, <3>3
  <2>2. \/ job'[j] = job[j] \/ job'[j] = SucceededRow(job[j]) \/ job'[j] = DeadRow(job[j])
        \/ \E d : job'[j] = RetriedRow(job[j], d)
    <3>1. tx[s].outcome \in {"succeeded", "failed", "dead"}
      BY Zenon, <1>t DEF Tx
    <3>2. CASE j = tx[s].job
      <4>1. \E d : job'[j] = SettledRow(j, tx[s].outcome, d)
        BY Zenon, <1>t, <1>4, <3>2 DEF CommitSettling
      <4> QED
        BY <3>1, <4>1 DEF SettledRow
    <3>3. CASE j # tx[s].job
      BY Zenon, <1>t, <1>4, <3>3 DEF CommitSettling
    <3> QED
      BY <3>2, <3>3
  <2>3. job'[j].attempts = job[j].attempts
    BY Zenon, <1>u, <2>2
  <2> QED
    BY Zenon, <1>1, <2>1, <2>3
<1>5. ASSUME NEW s \in Sessions,
             \/ BeginTx(s) \/ rollback(s) \/ CloseExpiredRuns(s)
             \/ ReclaimExpiredJobs(s) \/ PickJobs(s) \/ WaitForRun(s)
      PROVE  G
  BY Zenon, <1>2, <1>5 DEF BeginTx, BeginDequeue, BeginAck, BeginNack, BeginSettling, rollback,
     CloseExpiredRuns, ReclaimExpiredJobs, PickJobs, WaitForRun, tables
<1>6. ASSUME NEW s \in Sessions, FinishRun(s) \/ FinishAwaitedRun(s) PROVE G
  <2>1. tx[s].job \in Jobs
    BY Zenon, <1>6 DEF Inv, TypeOK, Tx, LocksMatchStatement, LocksMatch, FinishRun, FinishAwaitedRun
  <2> QED
    BY Zenon, <1>4, <1>6, <2>1 DEF FinishRun, FinishAwaitedRun
<1>7. CASE Autocommit
  <2>1. runs' = runs
    BY Zenon, <1>7 DEF Autocommit, ensureTenant, Enqueue, Cancel, RequeueDLQ, ExtendLease
  <2>2. \/ job'[j] = job[j] \/ job'[j] = CancelledRow(job[j])
        \/ \E t : \/ job'[j] = InsertedRow(j, t) \/ job'[j] = RequeuedRow(job[j], t)
                  \/ job'[j] = ExtendedRow(job[j], t)
    BY ZenonT(60), <1>t, <1>7 DEF Autocommit, ensureTenant, Enqueue, Cancel, RequeueDLQ, ExtendLease
  <2>3. job'[j].attempts = job[j].attempts \/ job'[j].attempts = 0
    BY Zenon, <1>u, <2>2
  <2> QED
    BY Zenon, <1>2, <2>1, <2>3
<1>8. CASE Tick \/ UNCHANGED vars
  BY Zenon, <1>2, <1>8 DEF Tick, vars, tables
<1> QED
  BY Zenon, <1>3, <1>5, <1>6, <1>7, <1>8 DEF Next, NextStatement

(* job_runs is the history of the claims since the last requeue, numbered  *)
(* 1 to `attempts`, whatever transactions interleave and however long they *)
(* take.                                                                   *)
THEOREM ClaimHistory == Spec => []AttemptsNumbered
<1> DEFINE AllNumbered == \A j \in Jobs : Numbered(job[j].attempts, runs[j])
<1>1. Spec => []Inv
  BY NoUpdateIsLost DEF Inv
<1>2. Init => AllNumbered
  <2> SUFFICES ASSUME Init, NEW j \in Jobs PROVE Numbered(job[j].attempts, runs[j])
    OBVIOUS
  <2>1. job[j].attempts = 0 /\ runs[j] = <<>>
    BY DEF Init, AbsentRow
  <2> QED
    BY <2>1 DEF Numbered
<1>3. Inv /\ Inv' /\ AllNumbered /\ [Next]_vars => AllNumbered'
  BY Zenon, AttemptsNumberedStep
<1>4. AllNumbered => AttemptsNumbered
  BY Zenon DEF AttemptsNumbered, Numbered
<1> QED
  BY <1>1, <1>2, <1>3, <1>4, PTL DEF Spec

-----------------------------------------------------------------------------
(* What has been recorded of a run stays. *)

(* A run that Ack or Nack waits for is still open, or has been closed by   *)
(* the Dequeue that it waited for: the lock on the job keeps others away.  *)
Awaits(s) ==
    tx[s].stmt = "waiting" => runs[tx[s].job][tx[s].target].status \in {"running", "failed"}

AwaitedOpen == \A s \in Sessions : Awaits(s)

(* The members of a history are runs. *)
LEMMA RunAt ==
    ASSUME NEW h \in Seq(Run), NEW n \in DOMAIN h
    PROVE  h[n] \in Run
  OBVIOUS

(* The COMMIT of Dequeue closes open runs and changes no other. *)
LEMMA CommitDequeueKeeps ==
    ASSUME Inv, NEW s \in Sessions, CommitDequeue(s), NEW j \in Jobs, NEW i \in DOMAIN runs[j]
    PROVE  /\ i \in DOMAIN runs'[j]
           /\ \/ runs'[j][i] = runs[j][i]
              \/ /\ runs[j][i].status = "running"
                 /\ runs'[j][i] = [runs[j][i] EXCEPT !.status = "failed"]
<1>1. runs[j] \in Seq(Run) /\ tx[s].closing[j] \subseteq OpenRuns(j)
  BY Zenon DEF Inv, TypeOK, NoLostUpdate, AsRead
<1>2. i \in tx[s].closing[j] => runs[j][i].status = "running"
  BY Zenon, <1>1 DEF OpenRuns
<1>3. ClosedRuns(s, j)[i] = IF i \in tx[s].closing[j] THEN [runs[j][i] EXCEPT !.status = "failed"]
                            ELSE runs[j][i]
  BY Zenon DEF ClosedRuns
<1>4. /\ ClosedRuns(s, j) \in Seq(Run) /\ Len(ClosedRuns(s, j)) = Len(runs[j])
      /\ NewRun(s, j) \in Run
  BY Zenon, RunUpdates DEF Inv
<1>5. runs'[j] = ClosedRuns(s, j) \/ runs'[j] = Append(ClosedRuns(s, j), NewRun(s, j))
  BY Zenon DEF CommitDequeue
<1>6. i \in 1 .. Len(runs[j])
  BY <1>1
<1>7. i \in DOMAIN ClosedRuns(s, j)
  BY <1>4, <1>6
<1>8. ASSUME NEW e \in Run
      PROVE  i \in DOMAIN Append(ClosedRuns(s, j), e) /\ Append(ClosedRuns(s, j), e)[i] = ClosedRuns(s, j)[i]
  BY <1>4, <1>6
<1>9. i \in DOMAIN runs'[j] /\ runs'[j][i] = ClosedRuns(s, j)[i]
  BY Zenon, <1>4, <1>5, <1>7, <1>8
<1> QED
  BY Zenon, <1>2, <1>3, <1>9

(* The COMMIT of Ack or Nack changes the run that it has found. *)
LEMMA CommitSettlingKeeps ==
    ASSUME Inv, NEW s \in Sessions, tx[s].job \in Jobs, NEW k, CommitSettling(s, k),
           NEW j \in Jobs, NEW i \in DOMAIN runs[j]
    PROVE  /\ i \in DOMAIN runs'[j]
           /\ \/ runs'[j][i] = runs[j][i]
              \/ /\ j = tx[s].job /\ i = k /\ k # 0
                 /\ runs'[j][i] = [runs[j][i] EXCEPT !.status = tx[s].outcome]
<1>1. runs \in [Jobs -> Seq(Run)]
  BY Zenon DEF Inv, TypeOK
<1>2. CASE k = 0 \/ j # tx[s].job
  <2>1. runs'[j] = runs[j]
    BY Zenon, <1>1, <1>2 DEF CommitSettling
  <2> QED
    BY Zenon, <2>1
<1>3. CASE k # 0 /\ j = tx[s].job
  <2>1. runs'[j] = [runs[j] EXCEPT ![k].status = tx[s].outcome]
    BY Zenon, <1>1, <1>3 DEF CommitSettling
  <2>2. DOMAIN runs'[j] = DOMAIN runs[j]
    BY <1>1, <2>1
  <2>3. i # k => runs'[j][i] = runs[j][i]
    BY <1>1, <2>1
  <2>4. i = k => runs'[j][i] = [runs[j][i] EXCEPT !.status = tx[s].outcome]
    BY <1>1, <2>1
  <2> QED
    BY Zenon, <1>3, <2>2, <2>3, <2>4
<1> QED
  BY Zenon, <1>2, <1>3

(* The sessions' steps other than COMMITs, and the autocommitted           *)
(* statements, leave job_runs alone.                                       *)
LEMMA RunsWrittenByCommits ==
    ASSUME Inv, [Next]_vars
    PROVE  \/ runs' = runs
           \/ \E s \in Sessions : CommitDequeue(s)
           \/ \E s \in Sessions : /\ tx[s].job \in Jobs
                                  /\ FinishRun(s) \/ FinishAwaitedRun(s)
<1>1. ASSUME NEW s \in Sessions,
             \/ BeginTx(s) \/ rollback(s) \/ CloseExpiredRuns(s)
             \/ ReclaimExpiredJobs(s) \/ PickJobs(s) \/ WaitForRun(s)
      PROVE  runs' = runs
  BY Zenon, <1>1 DEF BeginTx, BeginDequeue, BeginAck, BeginNack, BeginSettling, rollback,
     CloseExpiredRuns, ReclaimExpiredJobs, PickJobs, WaitForRun, tables
<1>2. ASSUME NEW s \in Sessions, FinishRun(s) \/ FinishAwaitedRun(s) PROVE tx[s].job \in Jobs
  BY Zenon, <1>2 DEF Inv, TypeOK, Tx, LocksMatchStatement, LocksMatch, FinishRun, FinishAwaitedRun
<1>3. CASE Autocommit
  BY Zenon, <1>3 DEF Autocommit, ensureTenant, Enqueue, Cancel, RequeueDLQ, ExtendLease
<1>4. CASE Tick \/ UNCHANGED vars
  BY Zenon, <1>4 DEF Tick, vars, tables
<1> QED
  BY Zenon, <1>1, <1>2, <1>3, <1>4 DEF Next, NextStatement

(* What finishRunSQL updates is open, or was when it was found. *)
LEMMA FinishedWasOpen ==
    ASSUME Inv, AwaitedOpen, NEW s \in Sessions, tx[s].job \in Jobs, FinishRun(s) \/ FinishAwaitedRun(s)
    PROVE  \E k : /\ CommitSettling(s, k)
                  /\ k # 0 => runs[tx[s].job][k].status \in {"running", "failed"}
<1>1. CASE FinishRun(s)
  <2>1. \/ CommitSettling(s, 0)
        \/ \E k \in NewestOpenRuns(tx[s].job) : CommitSettling(s, k)
    BY Zenon, <1>1 DEF FinishRun
  <2>2. \A k \in NewestOpenRuns(tx[s].job) : runs[tx[s].job][k].status = "running"
    BY Zenon DEF NewestOpenRuns, OpenRuns
  <2> QED
    BY Zenon, <2>1, <2>2
<1>2. CASE FinishAwaitedRun(s)
  BY Zenon, <1>2 DEF FinishAwaitedRun, AwaitedOpen, Awaits
<1> QED
  BY Zenon, <1>1, <1>2

(* A run that changes gets another status, and was open or failed. *)
LEMMA RunChanges ==
    ASSUME Inv, AwaitedOpen, [Next]_vars, NEW j \in Jobs, NEW i \in DOMAIN runs[j]
    PROVE  /\ i \in DOMAIN runs'[j]
           /\ \/ runs'[j][i] = runs[j][i]
              \/ /\ runs[j][i].status \in {"running", "failed"}
                 /\ \E o \in {"succeeded", "failed", "dead"} :
                       runs'[j][i] = [runs[j][i] EXCEPT !.status = o]
<1>1. CASE runs' = runs
  BY Zenon, <1>1
<1>2. ASSUME NEW s \in Sessions, CommitDequeue(s)
      PROVE  /\ i \in DOMAIN runs'[j]
             /\ \/ runs'[j][i] = runs[j][i]
                \/ /\ runs[j][i].status = "running"
                   /\ runs'[j][i] = [runs[j][i] EXCEPT !.status = "failed"]
  BY Zenon, <1>2, CommitDequeueKeeps
<1>3. ASSUME NEW s \in Sessions, tx[s].job \in Jobs, FinishRun(s) \/ FinishAwaitedRun(s)
      PROVE  /\ i \in DOMAIN runs'[j]
             /\ \/ runs'[j][i] = runs[j][i]
                \/ /\ runs[j][i].status \in {"running", "failed"}
                   /\ \E o \in {"succeeded", "failed", "dead"} :
                         runs'[j][i] = [runs[j][i] EXCEPT !.status = o]
  <2>1. PICK k : /\ CommitSettling(s, k)
                 /\ k # 0 => runs[tx[s].job][k].status \in {"running", "failed"}
    BY Zenon, <1>3, FinishedWasOpen
  <2>2. tx[s].outcome \in {"succeeded", "failed", "dead"}
    BY Zenon DEF Inv, TypeOK, Tx
  <2>3. /\ i \in DOMAIN runs'[j]
        /\ \/ runs'[j][i] = runs[j][i]
           \/ /\ j = tx[s].job /\ i = k /\ k # 0
              /\ runs'[j][i] = [runs[j][i] EXCEPT !.status = tx[s].outcome]
    BY <1>3, <2>1, CommitSettlingKeeps
  <2> QED
    BY Zenon, <2>1, <2>2, <2>3
<1> QED
  BY Zenon, <1>1, <1>2, <1>3, RunsWrittenByCommits

(* Every step keeps AwaitedOpen: while Ack or Nack waits, only the Dequeue *)
(* that it waits for can change the run.                                   *)
LEMMA AwaitedOpenStep ==
    ASSUME Inv, AwaitedOpen, [Next]_vars
    PROVE  AwaitedOpen'
<1> SUFFICES ASSUME NEW o \in Sessions, tx'[o].stmt = "waiting"
             PROVE  runs'[tx'[o].job][tx'[o].target].status \in {"running", "failed"}
  BY Zenon DEF AwaitedOpen, Awaits
<1>t. /\ TypeOK /\ tx \in [Sessions -> Tx] /\ runs \in [Jobs -> Seq(Run)]
      /\ LocksMatch(o) /\ Awaits(o)
  BY Zenon DEF Inv, TypeOK, LocksMatchStatement, AwaitedOpen
<1>1. CASE WaitForRun(o)
  <2>1. tx'[o].job = tx[o].job /\ tx'[o].target \in OpenRuns(tx[o].job)
    BY Zenon, <1>1, <1>t, WaitForRunTx
  <2>2. runs' = runs
    BY Zenon, <1>1 DEF WaitForRun, tables
  <2> QED
    BY Zenon, <2>1, <2>2 DEF OpenRuns
<1> DEFINE j == tx[o].job
           i == tx[o].target
<1>2. ASSUME tx'[o] = tx[o]
      PROVE  /\ j \in Jobs /\ i \in DOMAIN runs[j] /\ runs[j][i].status \in {"running", "failed"}
             /\ j \in RowsLocked(o)
  <2>1. j # NULL /\ i \in DOMAIN runs[j] /\ runs[j][i].status \in {"running", "failed"}
    BY Zenon, <1>2, <1>t DEF LocksMatch, Awaits
  <2>2. j \in Jobs
    BY Zenon, <1>t, <2>1 DEF Tx
  <2> QED
    BY Zenon, <2>1, <2>2 DEF RowsLocked
<1>3. ASSUME tx'[o] = tx[o], runs' = runs PROVE runs'[tx'[o].job][tx'[o].target].status \in {"running", "failed"}
  BY Zenon, <1>2, <1>3
<1>4. ASSUME NEW s \in Sessions, s # o, CommitDequeue(s), tx'[o] = tx[o]
      PROVE  runs'[j][i].status \in {"running", "failed"}
  <2>1. \/ runs'[j][i] = runs[j][i]
        \/ runs'[j][i] = [runs[j][i] EXCEPT !.status = "failed"]
    BY Zenon, <1>2, <1>4, CommitDequeueKeeps
  <2>2. runs[j][i] \in Run
    <3>1. runs[j] \in Seq(Run) /\ i \in DOMAIN runs[j]
      BY Zenon, <1>t, <1>2, <1>4
    <3> QED
      BY Zenon, <3>1, RunAt
  <2>3. [runs[j][i] EXCEPT !.status = "failed"].status = "failed"
    BY Zenon, <2>2 DEF Run
  <2> QED
    BY Zenon, <1>2, <1>4, <2>1, <2>3
<1>5. ASSUME NEW s \in Sessions, s # o, tx[s].job \in Jobs, FinishRun(s) \/ FinishAwaitedRun(s),
             tx'[o] = tx[o]
      PROVE  runs'[j][i].status \in {"running", "failed"}
  <2>1. PICK k : CommitSettling(s, k)
    BY Zenon, <1>5, FinishedWasOpen
  <2>2. tx[s].job \in RowsLocked(s) /\ RowsLocked(s) \cap RowsLocked(o) = {}
    BY Zenon, <1>5 DEF RowsLocked, Inv, NoLostUpdate, Apart
  <2>3. j # tx[s].job
    BY Zenon, <1>2, <1>5, <2>2
  <2>4. runs'[j] = runs[j]
    BY Zenon, <1>t, <1>2, <1>5, <2>1, <2>3 DEF CommitSettling
  <2> QED
    BY Zenon, <1>2, <1>5, <2>4
<1>6. ASSUME NEW s \in Sessions, BeginTx(s) \/ NextStatement(s) \/ rollback(s), s # o
      PROVE  tx'[o] = tx[o]
  BY Zenon, <1>6, <1>t, OthersKeepTx
<1>7. ASSUME BeginTx(o) \/ NextStatement(o) \/ rollback(o) PROVE WaitForRun(o)
  <2>1. tx'[o].stmt = "waiting" /\ NoTx.stmt = "idle"
    BY Zenon DEF NoTx
  <2>2. ~rollback(o) /\ ~CommitDequeue(o) /\ ~\E k : CommitSettling(o, k)
    BY Zenon, <1>t, <2>1 DEF rollback, CommitDequeue, CommitSettling
  <2>3. ~BeginTx(o)
    <3>1. \A w : ~BeginDequeue(o, w)
      BY <1>t, <2>1 DEF BeginDequeue, NoTx
    <3>2. \A w, k, r : ~BeginSettling(o, w, k, r)
      BY Zenon, <1>t, <2>1, BeginSettlingTx
    <3> QED
      BY Zenon, <3>1, <3>2 DEF BeginTx, BeginAck, BeginNack
  <2>4. ~CloseExpiredRuns(o) /\ ~ReclaimExpiredJobs(o) /\ ~PickJobs(o)
    BY Zenon, <1>t, <2>1, CloseExpiredRunsTx, ReclaimExpiredJobsTx, PickJobsTx
  <2>5. ~FinishRun(o) /\ ~FinishAwaitedRun(o)
    BY Zenon, <2>2 DEF FinishRun, FinishAwaitedRun
  <2> QED
    BY Zenon, <1>7, <2>2, <2>3, <2>4, <2>5 DEF NextStatement
<1>8. CASE Autocommit \/ Tick \/ UNCHANGED vars
  <2>1. tx' = tx /\ runs' = runs
    BY Zenon, <1>8 DEF Autocommit, ensureTenant, Enqueue, Cancel, RequeueDLQ, ExtendLease, Tick, vars, tables
  <2> QED
    BY Zenon, <1>3, <2>1
<1>9. ASSUME NEW s \in Sessions, BeginTx(s) \/ NextStatement(s) \/ rollback(s), s # o
      PROVE  runs'[tx'[o].job][tx'[o].target].status \in {"running", "failed"}
  <2>1. tx'[o] = tx[o]
    BY Zenon, <1>6, <1>9
  <2>2. CASE CommitDequeue(s)
    BY Zenon, <1>4, <1>9, <2>1, <2>2
  <2>3. CASE FinishRun(s) \/ FinishAwaitedRun(s)
    <3>1. tx[s].job \in Jobs
      BY Zenon, <2>3 DEF Inv, TypeOK, Tx, LocksMatchStatement, LocksMatch, FinishRun, FinishAwaitedRun
    <3> QED
      BY Zenon, <1>5, <1>9, <2>1, <2>3, <3>1
  <2>4. CASE \/ BeginTx(s) \/ rollback(s) \/ CloseExpiredRuns(s)
             \/ ReclaimExpiredJobs(s) \/ PickJobs(s) \/ WaitForRun(s)
    <3>1. runs' = runs
      BY Zenon, <2>4 DEF BeginTx, BeginDequeue, BeginAck, BeginNack, BeginSettling, rollback,
         CloseExpiredRuns, ReclaimExpiredJobs, PickJobs, WaitForRun, tables
    <3> QED
      BY Zenon, <1>3, <2>1, <3>1
  <2> QED
    BY Zenon, <1>9, <2>2, <2>3, <2>4 DEF NextStatement
<1> QED
  BY Zenon, <1>1, <1>7, <1>8, <1>9 DEF Next

(* What has been recorded of a run stays recorded: the body of             *)
(* HistoryKept.                                                            *)
LEMMA HistoryStep ==
    ASSUME Inv, AwaitedOpen, [Next]_vars, NEW j \in Jobs, NEW i \in DOMAIN runs[j]
    PROVE  LET was == runs[j][i]
               is == runs'[j][i]
           IN /\ i \in DOMAIN runs'[j]
              /\ is.attempt = was.attempt /\ is.startedAt = was.startedAt
              /\ was.status # "running" => is.status # "running"
              /\ was.status \in {"succeeded", "dead"} => is = was
<1>1. runs[j] \in Seq(Run)
  BY Zenon DEF Inv, TypeOK
<1>2. runs[j][i] \in Run
  BY <1>1
<1>3. /\ i \in DOMAIN runs'[j]
      /\ \/ runs'[j][i] = runs[j][i]
         \/ /\ runs[j][i].status \in {"running", "failed"}
            /\ \E o \in {"succeeded", "failed", "dead"} :
                  runs'[j][i] = [runs[j][i] EXCEPT !.status = o]
  BY Zenon, RunChanges
<1>4. CASE runs'[j][i] = runs[j][i]
  BY Zenon, <1>3, <1>4
<1>5. ASSUME runs[j][i].status \in {"running", "failed"},
             NEW o \in {"succeeded", "failed", "dead"}, runs'[j][i] = [runs[j][i] EXCEPT !.status = o]
      PROVE  /\ runs'[j][i].attempt = runs[j][i].attempt
             /\ runs'[j][i].startedAt = runs[j][i].startedAt
             /\ runs'[j][i].status # "running"
             /\ runs[j][i].status \notin {"succeeded", "dead"}
  BY <1>2, <1>5 DEF Run
<1> QED
  BY Zenon, <1>3, <1>4, <1>5

(* The history of runs is never rewritten, apart from a failure that a     *)
(* Dequeue recorded while the job was being settled.  The transactions may *)
(* be as long as they like: it is the lock on the job, held from the first *)
(* statement of Ack or Nack on, that keeps a finished run finished.        *)
THEOREM HistoryIsKept == Spec => HistoryKept
<1>1. Spec => []Inv
  BY NoUpdateIsLost DEF Inv
<1>2. Init => AwaitedOpen
  <2> SUFFICES ASSUME Init, NEW s \in Sessions PROVE tx[s].stmt # "waiting"
    BY Zenon DEF AwaitedOpen, Awaits
  <2>1. tx[s] = NoTx
    BY Zenon DEF Init
  <2>2. NoTx.stmt = "idle"
    BY DEF NoTx
  <2> QED
    BY Zenon, <2>1, <2>2
<1>3. Inv /\ AwaitedOpen /\ [Next]_vars => AwaitedOpen'
  BY Zenon, AwaitedOpenStep
<1> DEFINE Kept == \A j \in Jobs : \A i \in DOMAIN runs[j] :
          LET was == runs[j][i]
              is == runs'[j][i]
          IN /\ i \in DOMAIN runs'[j]
             /\ is.attempt = was.attempt /\ is.startedAt = was.startedAt
             /\ was.status # "running" => is.status # "running"
             /\ was.status \in {"succeeded", "dead"} => is = was
<1>4. Inv /\ AwaitedOpen /\ [Next]_vars => [Kept]_vars
  BY Zenon, HistoryStep
<1> QED
  BY <1>1, <1>2, <1>3, <1>4, PTL DEF Spec, HistoryKept
=============================================================================
