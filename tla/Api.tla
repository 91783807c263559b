--------------------------------- MODULE Api ---------------------------------
(***************************************************************************)
(* The API processes (cmd/forge-api): the handlers of internal/api and     *)
(* internal/grpcsvc that submit, cancel and requeue jobs, their callers,   *)
(* and the start and shutdown of a process.                                *)
(*                                                                         *)
(* A handler is a goroutine that serves one request, statement by          *)
(* statement.  A caller that gets no answer in time, or one that tells it  *)
(* to try again, sends its request once more, to any process; the handler  *)
(* it gave up on may still be at work.  The queue's operations are single  *)
(* steps here; JobQueue has their statements.  Payloads, queues, run_at,   *)
(* logging and the encoding of answers are left out, and so are the reads. *)
(***************************************************************************)
EXTENDS JobParams, FiniteSets

CONSTANTS
    Clients,    \* callers, each with one request
    Handlers,   \* goroutines that serve requests
    Processes,  \* API processes
    Ids,        \* the uuids that Enqueue may generate
    Tenants,    \* the tenant_ids that parse
    Workloads,  \* what the callers may ask for, each its own request
    MaxFaults,  \* bound: crashes, failed statements, lost answers
    MaxStops    \* bound: shutdowns

(* A JSON body or a structpb.Struct, or the path of a cancel or requeue.   *)
(* The job to cancel or requeue is chosen when it is sent.                 *)
Request ==
    [op: {"submit", "cancel", "requeue"}, via: {"rest", "grpc"},
     handler: STRING \cup {NULL}, params: EnqueueParams]

(* A row of the jobs table. *)
Row == [tenant: STRING, key: STRING \cup {NULL}, handler: STRING \cup {NULL},
        priority: Int, maxAttempts: Int,
        status: {"ready", "succeeded", "failed", "dead"}]

ASSUME WorkloadsAssumption == Workloads \subseteq [Clients -> Request]
ASSUME NullAssumption ==
    NULL \notin Clients \cup Handlers \cup Processes \cup Ids \cup Request \cup Row \cup STRING
ASSUME TenantsAssumption == Tenants \cup {DefaultTenant} \subseteq STRING
ASSUME ApiBounds == MaxFaults \in Nat /\ MaxStops \in Nat

VARIABLES
    tenants,  \* the ids of the tenants table
    jobs,     \* the jobs table: a row for each id in use, else NULL
    client,   \* the callers
    handler,  \* the goroutines
    process,  \* how far each process is: "up", "http", "grpc" or "down"
    redis,    \* can Redis be reached?
    faults,   \* failures so far
    stops     \* shutdowns so far

tables == <<tenants, jobs>>
world == <<process, redis, stops>>
vars == <<tables, client, handler, world, faults>>

(* What a caller learns: 200 or 201, 400, 429, 409, 500 and their gRPC     *)
(* counterparts.                                                           *)
Code == {"ok", "invalid", "limited", "conflict", "error"}

Client ==
    [pc: {"sending", "waiting", "answered"}, request: Request \cup {NULL},
     target: Ids \cup {NULL},                 \* the job to cancel or requeue
     by: Handlers \cup {NULL},                \* the handler it waits for
     code: Code, job: Ids \cup {NULL}, created: BOOLEAN]   \* the answer

NewClient == [pc |-> "sending", request |-> NULL, target |-> NULL, by |-> NULL,
              code |-> "error", job |-> NULL, created |-> FALSE]

Handler ==
    [pc: {"free", "received", "admitted", "tenant", "stored", "answering"},
     at: Processes \cup {NULL}, request: Request \cup {NULL}, target: Ids \cup {NULL},
     code: Code, job: Ids \cup {NULL}, created: BOOLEAN]

FreeHandler == [pc |-> "free", at |-> NULL, request |-> NULL, target |-> NULL,
                code |-> "error", job |-> NULL, created |-> FALSE]

Init ==
    /\ tenants = {}
    /\ jobs = [i \in Ids |-> NULL]
    /\ \E q \in Workloads :
          client = [c \in Clients |-> [NewClient EXCEPT !.request = q[c]]]
    /\ handler = [h \in Handlers |-> FreeHandler]
    /\ process = [p \in Processes |-> "up"]
    /\ redis = TRUE
    /\ faults = 0
    /\ stops = 0

Fault ==
    /\ faults < MaxFaults
    /\ faults' = faults + 1

Rows == {i \in Ids : jobs[i] # NULL}

-----------------------------------------------------------------------------
(* The callers. *)

(* While HTTP shuts down, gRPC still accepts calls. *)
Accepts(p, via) == process[p] = "up" \/ (process[p] = "http" /\ via = "grpc")

FreeHandlers == {h \in Handlers : handler[h].pc = "free"}

(* The caller sends its request, the first time or again, to any process.  *)
(* What it cancels or requeues is a job that it has seen.                  *)
Send(c) ==
    LET h == CHOOSE g \in Handlers : g \in FreeHandlers
    IN /\ client[c].pc = "sending"
       /\ FreeHandlers # {}
       /\ \E p \in Processes, target \in Rows \cup {NULL} :
             /\ Accepts(p, client[c].request.via)
             /\ target = NULL <=> client[c].request.op = "submit"
             /\ client[c].target # NULL => target = client[c].target
             /\ handler' = [handler EXCEPT
                              ![h] = [FreeHandler EXCEPT !.pc = "received", !.at = p, !.target = target,
                                                         !.request = client[c].request]]
             /\ client' = [client EXCEPT ![c].pc = "waiting", ![c].by = h, ![c].target = target]
       /\ UNCHANGED <<tables, world, faults>>

(* The caller's timeout passes, or its connection is lost. *)
GiveUp(c) ==
    /\ Fault
    /\ client[c].pc = "waiting"
    /\ client' = [client EXCEPT ![c].pc = "sending", ![c].by = NULL]
    /\ UNCHANGED <<tables, handler, world>>

WaitsFor(c, h) == client[c].pc = "waiting" /\ client[c].by = h

(* Nobody waits for the answer: the context of the request may be done, in *)
(* which case statements fail.                                             *)
Abandoned(h) == \A c \in Clients : ~WaitsFor(c, h)

-----------------------------------------------------------------------------
(* Decoding, and admission. *)

(* The largest priority: math.MaxInt16. *)
MaxInt16 == 32767

(* Go's conversion of an integer to int16. *)
int16(n) == ((n + 32768) % 65536) - 32768

(* A slip of Valid: no upper bound on the priority. *)
ValidUnbounded(q) ==
    /\ q.handler # NULL
    /\ q.params.priority >= 0
    /\ q.params.maxAttempts \in 0 .. 100

(* submitJob checks the ranges, SubmitJob does not. *)
Valid(q) ==
    q.via = "rest" =>
        /\ q.handler # NULL
        /\ q.params.priority \in 0 .. MaxInt16
        /\ q.params.maxAttempts \in 0 .. 100

Parses(q) == q.params.tenant \in Tenants \cup {NULL}

Answer(h, code) ==
    handler' = [handler EXCEPT ![h].pc = "answering", ![h].code = code]

Reject(h) ==
    /\ handler[h].pc = "received"
    /\ handler[h].request.op = "submit"
    /\ ~Valid(handler[h].request) \/ ~Parses(handler[h].request)
    /\ Answer(h, "invalid")
    /\ UNCHANGED <<tables, client, world, faults>>

(* The limiter has no token.  It is asked by REST only, and lets everyone  *)
(* through when Redis cannot be reached.                                   *)
Limit(h) ==
    /\ handler[h].pc = "received"
    /\ handler[h].request.op = "submit"
    /\ handler[h].request.via = "rest"
    /\ Valid(handler[h].request) /\ Parses(handler[h].request)
    /\ redis
    /\ Answer(h, "limited")
    /\ UNCHANGED <<tables, client, world, faults>>

Admit(h) ==
    /\ handler[h].pc = "received"
    /\ handler[h].request.op = "submit"
    /\ Valid(handler[h].request) /\ Parses(handler[h].request)
    /\ handler' = [handler EXCEPT ![h].pc = "admitted"]
    /\ UNCHANGED <<tables, client, world, faults>>

-----------------------------------------------------------------------------
(* Enqueue. *)

(* What the handler passes to Enqueue, as Enqueue normalises it. *)
Params(q) == normalizeEnqueueParams([q.params EXCEPT !.priority = int16(@)])

ensureTenant(h) ==
    /\ handler[h].pc = "admitted"
    /\ tenants' = tenants \cup {Params(handler[h].request).tenant}
    /\ handler' = [handler EXCEPT ![h].pc = "tenant"]
    /\ UNCHANGED <<jobs, client, world, faults>>

NewRow(q) ==
    LET p == Params(q)
    IN [tenant |-> p.tenant, key |-> p.key, handler |-> q.handler,
        priority |-> p.priority, maxAttempts |-> p.maxAttempts, status |-> "ready"]

(* The CHECK constraints of the table. *)
Checked(row) == row.priority \in 0 .. MaxInt16 /\ row.maxAttempts > 0

(* A slip of Conflicting: the table has no unique index on tenant and key. *)
ConflictingNever(q) == {}

(* The rows that an INSERT conflicts with. *)
Conflicting(q) ==
    {i \in Rows : q.params.key # NULL /\ jobs[i].key = q.params.key /\ jobs[i].tenant = Params(q).tenant}

(* uuid.New: an id that is not in use. *)
NewId == CHOOSE i \in Ids : i \notin Rows

(* A slip of Insert: ON CONFLICT makes the job ready again. *)
InsertReadying(q, i, created) ==
    /\ Checked(NewRow(q))
    /\ \/ /\ Conflicting(q) = {} /\ Ids # Rows
          /\ i = NewId
          /\ created
          /\ jobs' = [jobs EXCEPT ![i] = NewRow(q)]
       \/ /\ i \in Conflicting(q)
          /\ ~created
          /\ jobs' = [jobs EXCEPT ![i].status = "ready"]

(* The INSERT of Enqueue: a new row, or the one that has the key already. *)
Insert(q, i, created) ==
    /\ Checked(NewRow(q))
    /\ \/ /\ Conflicting(q) = {} /\ Ids # Rows
          /\ i = NewId
          /\ created
          /\ jobs' = [jobs EXCEPT ![i] = NewRow(q)]
       \/ /\ i \in Conflicting(q)
          /\ ~created
          /\ UNCHANGED jobs

(* REST answers 201 for a new job and 200 otherwise; gRPC does not tell. *)
Enqueue(h) ==
    /\ handler[h].pc = "tenant"
    /\ \E i \in Ids, created \in BOOLEAN :
          /\ Insert(handler[h].request, i, created)
          /\ handler' = [handler EXCEPT ![h].pc = "stored", ![h].job = i, ![h].code = "ok",
                                        ![h].created = created /\ handler[h].request.via = "rest"]
    /\ UNCHANGED <<tenants, client, world, faults>>

CheckFails(h) ==
    /\ handler[h].pc = "tenant"
    /\ ~Checked(NewRow(handler[h].request))
    /\ Answer(h, "error")
    /\ UNCHANGED <<tables, client, world, faults>>

-----------------------------------------------------------------------------
(* cancelJob and requeueDLQ, and CancelJob and RequeueDLQ of gRPC. *)

(* The status that the operation's WHERE clause asks for. *)
Moves(op) == IF op = "cancel" THEN {"ready"} ELSE {"dead"}

Move(op, i) ==
    /\ jobs[i].status \in Moves(op)
    /\ jobs' = [jobs EXCEPT ![i].status = IF op = "cancel" THEN "failed" ELSE "ready"]

(* The same for both and over both protocols: a job in another status is a *)
(* conflict.                                                               *)
Operate(h, op) ==
    LET i == handler[h].target
    IN /\ handler[h].pc = "received"
       /\ handler[h].request.op = op
       /\ \/ /\ Move(op, i)
             /\ handler' = [handler EXCEPT ![h].pc = "stored", ![h].job = i, ![h].code = "ok"]
          \/ /\ jobs[i].status \notin Moves(op)
             /\ UNCHANGED jobs
             /\ Answer(h, "conflict")
       /\ UNCHANGED <<tenants, client, world, faults>>

cancelJob(h) == Operate(h, "cancel")

requeueDLQ(h) == Operate(h, "requeue")

-----------------------------------------------------------------------------
(* A statement fails, or the context of the request ends.  It may have     *)
(* been executed all the same.                                             *)
Fails(h) ==
    LET q == handler[h].request
    IN /\ \/ Fault
          \/ Abandoned(h) /\ UNCHANGED faults
       /\ \/ /\ handler[h].pc = "admitted"
             /\ tenants' \in {tenants, tenants \cup {Params(q).tenant}}
             /\ UNCHANGED jobs
          \/ /\ handler[h].pc = "tenant"
             /\ UNCHANGED jobs \/ \E i \in Ids, created \in BOOLEAN : Insert(q, i, created)
             /\ UNCHANGED tenants
          \/ /\ handler[h].pc = "received" /\ q.op # "submit"
             /\ UNCHANGED jobs \/ Move(q.op, handler[h].target)
             /\ UNCHANGED tenants
       /\ Answer(h, "error")
       /\ UNCHANGED <<client, world>>

(* The workers: the job succeeds or is dead-lettered. *)
Work(i) ==
    /\ i \in Rows
    /\ jobs[i].status = "ready"
    /\ \E status \in {"succeeded", "dead"} : jobs' = [jobs EXCEPT ![i].status = status]
    /\ UNCHANGED <<tenants, client, handler, world, faults>>

-----------------------------------------------------------------------------
(* The rest of a handler. *)

(* A slip of Notify: the handler waits until Redis takes its commands. *)
NotifyReliably(h) ==
    /\ handler[h].pc = "stored"
    /\ redis
    /\ handler' = [handler EXCEPT ![h].pc = "answering"]
    /\ UNCHANGED <<tables, client, world, faults>>

(* RecordEnqueue and the event: their errors are dropped. *)
Notify(h) ==
    /\ handler[h].pc = "stored"
    /\ handler' = [handler EXCEPT ![h].pc = "answering"]
    /\ UNCHANGED <<tables, client, world, faults>>

(* The caller tries again when it is told to. *)
Retryable(code) == code \in {"limited", "error"}

Delivered(h) ==
    [c \in Clients |->
       IF ~WaitsFor(c, h) THEN client[c]
       ELSE IF Retryable(handler[h].code) THEN [client[c] EXCEPT !.pc = "sending", !.by = NULL]
       ELSE [client[c] EXCEPT !.pc = "answered", !.by = NULL, !.code = handler[h].code,
                              !.job = handler[h].job, !.created = handler[h].created]]

Respond(h) ==
    /\ handler[h].pc = "answering"
    /\ client' = Delivered(h)
    /\ handler' = [handler EXCEPT ![h] = FreeHandler]
    /\ UNCHANGED <<tables, world, faults>>

-----------------------------------------------------------------------------
(* The processes: cmd/forge-api. *)

Serving(p, via) ==
    {h \in Handlers : handler[h].pc # "free" /\ handler[h].at = p /\ handler[h].request.via = via}

(* The signal: ctx is done, and Shutdown closes the listener of HTTP. *)
Signal(p) ==
    /\ stops < MaxStops
    /\ stops' = stops + 1
    /\ process[p] = "up"
    /\ process' = [process EXCEPT ![p] = "http"]
    /\ UNCHANGED <<tables, client, handler, redis, faults>>

(* Shutdown returns when no handler is active: not while a dashboard is    *)
(* connected to the event stream, which this module does not follow.       *)
Shutdown(p) ==
    /\ process[p] = "http"
    /\ Serving(p, "rest") = {}
    /\ process' = [process EXCEPT ![p] = "grpc"]
    /\ UNCHANGED <<tables, client, handler, redis, stops, faults>>

(* A slip of ShutdownTimeout: Shutdown is given the background context. *)
ShutdownTimeoutNone(p) == FALSE /\ UNCHANGED vars

(* Or when the ten seconds of its context are over. *)
ShutdownTimeout(p) ==
    /\ process[p] = "http"
    /\ process' = [process EXCEPT ![p] = "grpc"]
    /\ UNCHANGED <<tables, client, handler, redis, stops, faults>>

(* The process has ended.  What its handlers had still to do is lost. *)
Ended(p) ==
    /\ process' = [process EXCEPT ![p] = "down"]
    /\ handler' = [h \in Handlers |-> IF handler[h].at = p THEN FreeHandler ELSE handler[h]]
    /\ client' = [c \in Clients |->
                    IF client[c].pc = "waiting" /\ handler[client[c].by].at = p
                    THEN [client[c] EXCEPT !.pc = "sending", !.by = NULL]
                    ELSE client[c]]
    /\ UNCHANGED <<tables, redis, stops>>

(* A slip of GracefulStop: Stop, which does not wait for calls. *)
StopAtOnce(p) ==
    /\ process[p] = "grpc"
    /\ Ended(p)
    /\ UNCHANGED faults

(* GracefulStop returns when no RPC is active, however long that takes;    *)
(* then main returns.                                                      *)
GracefulStop(p) ==
    /\ process[p] = "grpc"
    /\ Serving(p, "grpc") = {}
    /\ Ended(p)
    /\ UNCHANGED faults

Crash(p) ==
    /\ Fault
    /\ process[p] # "down"
    /\ Ended(p)

Start(p) ==
    /\ process[p] = "down"
    /\ process' = [process EXCEPT ![p] = "up"]
    /\ UNCHANGED <<tables, client, handler, redis, stops, faults>>

RedisFails ==
    /\ Fault
    /\ redis
    /\ redis' = FALSE
    /\ UNCHANGED <<tables, client, handler, process, stops>>

-----------------------------------------------------------------------------
(* The steps of a handler that nothing prevents. *)
Step(h) ==
    \/ Reject(h) \/ Limit(h) \/ Admit(h)
    \/ ensureTenant(h) \/ Enqueue(h) \/ CheckFails(h)
    \/ cancelJob(h) \/ requeueDLQ(h) \/ Notify(h) \/ Respond(h)

(* The steps of a shutdown that come by themselves: Shutdown need not.     *)
Stopping(p) == ShutdownTimeout(p) \/ GracefulStop(p)

Next ==
    \/ \E c \in Clients : Send(c) \/ GiveUp(c)
    \/ \E h \in Handlers : Step(h) \/ Fails(h)
    \/ \E i \in Ids : Work(i)
    \/ \E p \in Processes : Signal(p) \/ Shutdown(p) \/ Stopping(p) \/ Crash(p) \/ Start(p)
    \/ RedisFails

Spec == Init /\ [][Next]_vars

(* Handlers go on to their next step; callers try again; the limiter lets  *)
(* a caller through in the end; a shutdown takes its course.  Nothing is   *)
(* assumed of Redis, of dashboards, or of when a process is started again. *)
Fairness ==
    /\ \A h \in Handlers : WF_vars(Step(h))
    /\ \A c \in Clients : WF_vars(Send(c)) /\ SF_vars(\E h \in Handlers : WaitsFor(c, h) /\ Admit(h))
    /\ \A p \in Processes : WF_vars(Stopping(p))

FairSpec == Spec /\ Fairness

-----------------------------------------------------------------------------
(* Properties. *)

(* The tables, the callers, the goroutines and the processes are well-formed. *)
TypeOK ==
    /\ tenants \subseteq STRING
    /\ jobs \in [Ids -> Row \cup {NULL}]
    /\ client \in [Clients -> Client]
    /\ handler \in [Handlers -> Handler]
    /\ process \in [Processes -> {"up", "http", "grpc", "down"}]
    /\ redis \in BOOLEAN
    /\ faults \in Nat /\ stops \in Nat

(* The caller has been told that its request succeeded. *)
Acknowledged(c, op) ==
    /\ client[c].pc = "answered" /\ client[c].code = "ok"
    /\ client[c].request.op = op

Key(c) == client[c].request.params.key

Tenant(c) == Params(client[c].request).tenant

(* Two callers are given the same job if and only if they asked with the   *)
(* same idempotency key for the same tenant, and then at most one is told  *)
(* that it has created the job: however often requests were sent, over     *)
(* REST or gRPC, whatever answers were lost and handlers left behind.      *)
OneJobPerKey ==
    \A c, d \in Clients :
        Acknowledged(c, "submit") /\ Acknowledged(d, "submit") /\ c # d =>
            /\ client[c].job = client[d].job
                  <=> Key(c) # NULL /\ Key(c) = Key(d) /\ Tenant(c) = Tenant(d)
            /\ client[c].job = client[d].job => ~(client[c].created /\ client[d].created)

(* An acknowledged job is in the table, for the tenant and under the key   *)
(* of its request; one that REST says it has created has the priority and  *)
(* the retry budget that were asked for, or the defaults.                  *)
StoredAsRequested ==
    \A c \in Clients : Acknowledged(c, "submit") =>
        LET row == jobs[client[c].job]
            p == client[c].request.params
        IN /\ client[c].job \in Rows
           /\ row.tenant = Tenant(c) /\ row.key = Key(c) /\ row.tenant \in tenants
           /\ client[c].created =>
                 /\ row.handler = client[c].request.handler /\ row.handler # NULL
                 /\ row.priority = IF p.priority = 0 THEN 5 ELSE p.priority
                 /\ row.maxAttempts = IF p.maxAttempts = 0 THEN 5 ELSE p.maxAttempts

(* A job whose cancellation was acknowledged stays cancelled: no requeue,  *)
(* no worker and no repeated submission with its key brings it back.       *)
CancelStands ==
    \A c \in Clients : Acknowledged(c, "cancel") => jobs[client[c].job].status = "failed"

(* An RPC that a process has accepted is answered, unless something fails: *)
(* a shutdown waits for it.                                                *)
RpcsSurviveShutdown ==
    [][\A c \in Clients :
          /\ client[c].pc = "waiting" /\ client[c].request.via = "grpc"
          /\ client'[c].pc = "sending"
          => \/ faults' # faults
             \/ LET h == client[c].by
                IN handler[h].pc = "answering" /\ Retryable(handler[h].code)]_vars

(* Every caller gets its answer in the end, although Redis may be gone for *)
(* good, as long as a process is up; except for a gRPC request that the    *)
(* table's constraints refuse, which is answered like a failure.           *)
Answered ==
    \A c \in Clients :
        /\ client[c].pc = "sending"
        /\ \/ client[c].target # NULL
           \/ client[c].request.op = "submit" /\ Checked(NewRow(client[c].request))
        ~> client[c].pc = "answered" \/ \A p \in Processes : process[p] # "up"

(* A process that is told to stop does, although event streams never end   *)
(* by themselves.                                                          *)
ShutdownEnds ==
    \A p \in Processes : process[p] \in {"http", "grpc"} ~> process[p] = "down"
=============================================================================
