------------------------------- MODULE Metrics -------------------------------
(***************************************************************************)
(* internal/metrics, and StartStatsTicks of internal/api.  Workers count   *)
(* their completions in Redis (RecordComplete); once a second an API       *)
(* process reads them (Snapshot) and publishes a stats.tick, which is what *)
(* a dashboard shows.                                                      *)
(*                                                                         *)
(* A pipeline of Redis is not a transaction: each command is a step, and   *)
(* so is each GET of a Snapshot.  What a tick reads from the database is   *)
(* left out, and so are the Prometheus counters and histograms, which only *)
(* grow within their process.                                              *)
(***************************************************************************)
EXTENDS Integers, FiniteSets, Sequences, Functions

CONSTANTS
    Conns,      \* connections of the workers to Redis
    MaxRetries, \* how often the client sends a pipeline again, 3
    NULL,       \* nothing
    Window,     \* the seconds that throughput_per_sec covers, 60
    Expiry,     \* the seconds that a key of throughput is kept, 300
    Samples,    \* what the list of latencies may hold
    MaxNow,     \* bound: the time
    MaxRuns,    \* bound: attempts
    MaxFaults   \* bound: failed commands and queries, lost replies, crashes

ASSUME MetricsAssumption ==
    /\ IsFiniteSet(Conns) /\ NULL \notin Nat
    /\ \A sample \in Samples : sample \in Seq(Int)
    /\ {Window, Expiry} \subseteq Nat \ {0}
    /\ {MaxNow, MaxRuns, MaxFaults, MaxRetries} \subseteq Nat
    /\ Window <= Expiry

VARIABLES
    now,         \* the time in seconds
    settled,     \* attempts that the table has recorded the end of
    resent,      \* how often a pipeline was sent again
    recorder,    \* RecordComplete on each connection
    completed,   \* the keys forge:completed of the queue
    throughput,  \* the keys forge:throughput of the queue
    expires,     \* when each of these expires, or NULL
    counted,     \* how often each of these was ever incremented
    tick,        \* the goroutine of StartStatsTicks
    published,   \* the last stats.tick, or NULL
    faults       \* failures so far

redis == <<completed, throughput, expires, counted>>
ticks == <<tick, published>>
vars == <<now, settled, resent, recorder, redis, ticks, faults>>

Seconds == 0 .. MaxNow

(* The statuses that the worker pool passes to RecordComplete. *)
Completed == {"succeeded", "dead", "failed"}

(* A slip of Statuses: only those that are final. *)
StatusesFinal == <<"succeeded", "dead">>

(* The order in which Snapshot reads the counters. *)
Statuses == <<"succeeded", "dead", "failed">>

(* The steps of RecordComplete that are still to come, its argument, the   *)
(* second that it counts the attempt in, and how often the client would    *)
(* send it again; NULL if the client does not wait for the replies.        *)
Recorder ==
    [todo: Seq({"time", "completed", "throughput", "expire"}), status: Completed \cup {NULL},
     second: Seconds \cup {NULL}, retries: Nat \cup {NULL}]

Idle == [todo |-> <<>>, status |-> NULL, second |-> NULL, retries |-> NULL]

(* What a tick has gathered.  atStart is what could be counted when the    *)
(* loop over the window began, floor when that over the counters did;      *)
(* intact tells that no GET has failed.                                    *)
Tick ==
    [pc: {"idle", "window", "total", "publish"}, at: Seconds, i: Nat,
     window: Nat, atStart: Nat, total: Nat, floor: Nat, intact: BOOLEAN]

IdleTick ==
    [pc |-> "idle", at |-> 0, i |-> 0, window |-> 0, atStart |-> 0,
     total |-> 0, floor |-> 0, intact |-> TRUE]

Init ==
    /\ now = 0 /\ settled = 0 /\ resent = 0 /\ faults = 0
    /\ recorder = [c \in Conns |-> Idle]
    /\ completed = [s \in Completed |-> 0]
    /\ throughput = [t \in Seconds |-> 0]
    /\ expires = [t \in Seconds |-> NULL]
    /\ counted = [t \in Seconds |-> 0]
    /\ tick = IdleTick
    /\ published = NULL

Fault ==
    /\ faults < MaxFaults
    /\ faults' = faults + 1

Total == completed["succeeded"] + completed["dead"] + completed["failed"]

(* The sums of f over the seconds before each. *)
SumBefore(f) ==
    LET sum[n \in 0 .. MaxNow + 1] == IF n = 0 THEN 0 ELSE sum[n - 1] + f[n - 1]
    IN sum

(* The second from which on the k seconds up to t are. *)
From(t, k) == IF k <= t THEN t + 1 - k ELSE 0

(* Increments of the window's keys that end at second t. *)
Countable(t) == SumBefore(counted)[t + 1] - SumBefore(counted)[From(t, Window)]

-----------------------------------------------------------------------------
(* The workers. *)

(* A slip of RecordComplete: the second's key first. *)
RecordCompleteSwapped == <<"time", "throughput", "completed", "expire">>

(* It reads the clock, and sends the others in a pipeline. *)
RecordComplete == <<"time", "completed", "throughput", "expire">>

(* Ack or Nack has recorded the end of an attempt; the slot goes on to     *)
(* RecordComplete, which will use the connection c.                        *)
Settle(c) ==
    /\ recorder[c] = Idle
    /\ settled < MaxRuns
    /\ settled' = settled + 1
    /\ \E status \in Completed :
          recorder' = [recorder EXCEPT ![c] = [todo |-> RecordComplete, status |-> status,
                                               second |-> NULL, retries |-> MaxRetries]]
    /\ UNCHANGED <<now, resent, redis, ticks, faults>>

(* One step of RecordComplete: it reads the clock, then the commands are   *)
(* executed, maybe in a later second.                                      *)
Exec(c) ==
    LET command == Head(recorder[c].todo)
        status == recorder[c].status
        second == recorder[c].second
        retries == recorder[c].retries
        rest == Tail(recorder[c].todo)
    IN /\ recorder[c].todo # <<>>
       /\ recorder' = [recorder EXCEPT ![c] =
                         IF rest = <<>> /\ retries = NULL THEN Idle
                         ELSE [todo |-> rest, status |-> status,
                               second |-> IF command = "time" THEN now ELSE second,
                               retries |-> retries]]
       /\ completed' = IF command = "completed" THEN [completed EXCEPT ![status] = @ + 1] ELSE completed
       /\ IF command = "throughput"
          THEN /\ throughput' = [throughput EXCEPT ![second] = @ + 1]
               /\ counted' = [counted EXCEPT ![second] = @ + 1]
          ELSE UNCHANGED <<throughput, counted>>
       /\ expires' = IF command = "expire" /\ throughput[second] > 0
                     THEN [expires EXCEPT ![second] = now + Expiry] ELSE expires
       /\ UNCHANGED <<now, settled, resent, ticks, faults>>

(* The replies to all commands arrive, and RecordComplete returns. *)
Reply(c) ==
    /\ recorder[c] # Idle
    /\ recorder[c].todo = <<>>
    /\ recorder' = [recorder EXCEPT ![c] = Idle]
    /\ UNCHANGED <<now, settled, resent, redis, ticks, faults>>

(* The replies do not come in time, or the connection breaks: the client   *)
(* gives c up and sends the whole pipeline again, on d.  What Redis has    *)
(* not executed by then it may still execute, or lose (ExecFails).         *)
Resend(c, d) ==
    LET sent == recorder[c]
    IN /\ Fault
       /\ sent.second # NULL /\ sent.retries \notin {NULL, 0}
       /\ c # d /\ recorder[d] = Idle
       /\ recorder' = [recorder EXCEPT
                         ![c] = IF sent.todo = <<>> THEN Idle ELSE [sent EXCEPT !.retries = NULL],
                         ![d] = [todo |-> Tail(RecordComplete), status |-> sent.status, second |-> sent.second,
                                 retries |-> sent.retries - 1]]
       /\ resent' = resent + 1
       /\ UNCHANGED <<now, settled, redis, ticks>>

(* Redis does not get the rest of the commands, because the worker has     *)
(* crashed, the connection is gone, or no retry is left.                   *)
ExecFails(c) ==
    /\ Fault
    /\ recorder[c] # Idle
    /\ recorder' = [recorder EXCEPT ![c] = Idle]
    /\ UNCHANGED <<now, settled, resent, redis, ticks>>

(* A second passes, and Redis drops the keys whose time is over. *)
Pass ==
    /\ now < MaxNow
    /\ now' = now + 1
    /\ throughput' = [t \in Seconds |-> IF expires[t] = now' THEN 0 ELSE throughput[t]]
    /\ expires' = [t \in Seconds |-> IF expires[t] = now' THEN NULL ELSE expires[t]]
    /\ UNCHANGED <<settled, resent, recorder, completed, counted, ticks, faults>>

-----------------------------------------------------------------------------
(* StartStatsTicks. *)

(* sort.Float64s: the values in a nondecreasing order. *)
Sorted(values) ==
    LET Places == 1 .. Len(values)
        order == CHOOSE p \in Bijection(Places, Places) :
                    \A i, j \in Places : i < j => values[p[i]] <= values[p[j]]
    IN [i \in Places |-> values[order[i]]]

(* A slip of percentile: the index is a share of the length. *)
percentileOfLength(values, p) ==
    IF values = <<>> THEN 0 ELSE values[(Len(values) * p) \div 100 + 1]

(* p is in percent; the index of the code starts at 0. *)
percentile(values, p) ==
    IF values = <<>> THEN 0 ELSE values[((Len(values) - 1) * p) \div 100 + 1]

(* The ticker: the depth is read, which may fail, and Snapshot reads the   *)
(* clock.                                                                  *)
Snapshot ==
    /\ tick.pc = "idle"
    /\ tick' = [tick EXCEPT !.pc = "window", !.at = now, !.atStart = Countable(now)]
    /\ UNCHANGED <<now, settled, resent, recorder, redis, published, faults>>

(* A slip of Second: the window ends with the second before. *)
SecondBefore(i) == tick.at - i - 1

(* The second whose key the i-th GET asks for. *)
Second(i) == tick.at - i

(* A GET of throughput is done and gave the value. *)
WindowRead(value) ==
    [tick EXCEPT !.window = @ + value, !.i = IF @ + 1 < Window THEN @ + 1 ELSE 0,
                 !.pc = IF tick.i + 1 < Window THEN @ ELSE "total",
                 !.floor = IF tick.i + 1 < Window THEN @ ELSE Total]

ReadWindow ==
    /\ tick.pc = "window"
    /\ tick' = WindowRead(IF Second(tick.i) \in Seconds THEN throughput[Second(tick.i)] ELSE 0)
    /\ UNCHANGED <<now, settled, resent, recorder, redis, published, faults>>

(* A GET of a counter is done and gave the value. *)
TotalRead(value) ==
    IF tick.i + 1 < Len(Statuses) THEN [tick EXCEPT !.total = @ + value, !.i = @ + 1]
    ELSE [tick EXCEPT !.total = @ + value, !.pc = "publish", !.at = 0, !.atStart = 0]

ReadTotal ==
    /\ tick.pc = "total"
    /\ tick' = TotalRead(completed[Statuses[tick.i + 1]])
    /\ UNCHANGED <<now, settled, resent, recorder, redis, published, faults>>

(* A GET that fails counts as zero. *)
ReadFails ==
    /\ Fault
    /\ \/ tick.pc = "window" /\ tick' = [WindowRead(0) EXCEPT !.intact = FALSE]
       \/ tick.pc = "total" /\ tick' = [TotalRead(0) EXCEPT !.intact = FALSE]
    /\ UNCHANGED <<now, settled, resent, recorder, redis, published>>

(* A slip of Publish: the total of the window is taken for that of all. *)
PublishWindow ==
    /\ tick.pc = "publish"
    /\ published' = [total |-> tick.window, intact |-> tick.intact]
    /\ tick' = IdleTick
    /\ UNCHANGED <<now, settled, resent, recorder, redis, faults>>

(* The hub gets the tick. *)
Publish ==
    /\ tick.pc = "publish"
    /\ published' = [total |-> tick.total, intact |-> tick.intact]
    /\ tick' = IdleTick
    /\ UNCHANGED <<now, settled, resent, recorder, redis, faults>>

-----------------------------------------------------------------------------
Ticking == Snapshot \/ ReadWindow \/ ReadTotal \/ Publish

Next ==
    \/ \E c \in Conns : Settle(c) \/ Exec(c) \/ Reply(c) \/ ExecFails(c)
    \/ \E c, d \in Conns : Resend(c, d)
    \/ Pass
    \/ Ticking \/ ReadFails

Spec == Init /\ [][Next]_vars

(* Pipelines are executed and answered, and the ticker goes on. *)
Fairness ==
    /\ \A c \in Conns : WF_vars(Exec(c) \/ Reply(c))
    /\ WF_vars(Ticking)

FairSpec == Spec /\ Fairness

-----------------------------------------------------------------------------
(* Properties. *)

(* The pipelines, the keys of Redis, and the ticks are well-formed. *)
MetricsTypeOK ==
    /\ now \in Seconds /\ settled \in Nat /\ resent \in Nat /\ faults \in Nat
    /\ recorder \in [Conns -> Recorder]
    /\ completed \in [Completed -> Nat]
    /\ throughput \in [Seconds -> Nat] /\ counted \in [Seconds -> Nat]
    /\ expires \in [Seconds -> Nat \cup {NULL}]
    /\ tick \in Tick
    /\ published \in [total: Nat, intact: BOOLEAN] \cup {NULL}

(* total_processed of a tick counts no attempt that Ack or Nack has not    *)
(* settled, and each once, but for one more with every pipeline that the   *)
(* client has sent again; and, unless a GET failed, it counts every one    *)
(* that was counted before the counters were read, and at least those that *)
(* throughput_per_sec counts: although the keys are incremented and read   *)
(* one by one, and pipelines overlap with their own repetitions.           *)
TotalAddsUp ==
    /\ Total <= settled + resent
    /\ tick.pc = "publish" =>
          /\ tick.total <= Total
          /\ tick.intact => tick.floor <= tick.total /\ tick.window <= tick.total

(* throughput_per_sec of a tick counts completions of the last Window      *)
(* seconds only, and, unless a GET failed, all that were counted when it   *)
(* began: the keys of the window cannot expire while they are read, if     *)
(* that takes less than the rest of their time.                            *)
WindowCounts ==
    tick.pc = "total" =>
        /\ tick.window <= Countable(tick.at)
        /\ tick.intact /\ now < tick.at + 1 + Expiry - Window => tick.atStart <= tick.window

(* total_processed never falls from a tick to the next, unless a GET failed. *)
TotalNeverFalls ==
    [][published # NULL /\ published'.intact => published.total <= published'.total]_published

(* A percentile of a sample is one of its values, and has the rank that it *)
(* stands for: no more of the sample than p percent is below it, and more  *)
(* than p percent is not above it, counting from 0 as the code does.       *)
Ranked(sample, p) ==
    LET v == percentile(Sorted(sample), p)
        last == Len(sample) - 1
    IN /\ v \in Range(sample)
       /\ 100 * Cardinality({i \in DOMAIN sample : sample[i] < v}) <= last * p
       /\ 100 * Cardinality({i \in DOMAIN sample : sample[i] <= v}) > last * p

AllRanked == \A sample \in Samples, p \in {50, 95, 99} : sample # <<>> => Ranked(sample, p)

(* The percentiles that Snapshot takes of the latencies it has read, which *)
(* may be any, are among them and have the rank they stand for.            *)
PercentilesRanked == tick.pc = "window" /\ tick.i = 0 => AllRanked

(* Unless something fails, the ticks come to show every attempt. *)
TotalConverges == <>[](published # NULL /\ (faults = 0 => published.total = settled))
=============================================================================
