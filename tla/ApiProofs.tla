------------------------------ MODULE ApiProofs ------------------------------
(***************************************************************************)
(* Theorems about Api, for any number of callers, handlers, processes and  *)
(* failures.  The invariant says what each record promises: a result, be   *)
(* it still with its handler or already with its caller, is in the table,  *)
(* and a job that a submission has created, or that has no key, is in the  *)
(* hands of at most one of them.                                           *)
(***************************************************************************)
EXTENDS Api, TLAPS

(* The unique index on tenant and key. *)
UniqueKeys(J) ==
    \A i, k \in Ids :
        /\ J[i] # NULL /\ J[k] # NULL
        /\ J[i].key # NULL /\ J[i].key = J[k].key /\ J[i].tenant = J[k].tenant
        => i = k

(* The row has what the request asked for, or the defaults. *)
AsAsked(row, q) ==
    /\ row.handler = q.handler /\ row.handler # NULL
    /\ row.priority = IF q.params.priority = 0 THEN 5 ELSE q.params.priority
    /\ row.maxAttempts = IF q.params.maxAttempts = 0 THEN 5 ELSE q.params.maxAttempts

(* The record is the result of a successful submission. *)
Submitted(x) == x.code = "ok" /\ x.request.op = "submit"

(* What a result says of the tables J and T. *)
Promised(x, J, T) ==
    /\ Submitted(x) =>
          /\ x.job \in Ids /\ J[x.job] # NULL
          /\ J[x.job].tenant = Params(x.request).tenant /\ J[x.job].key = x.request.params.key
          /\ J[x.job].tenant \in T
          /\ x.created => AsAsked(J[x.job], x.request)
    /\ x.code = "ok" /\ x.request.op = "cancel" =>
          x.job \in Ids /\ J[x.job] # NULL /\ J[x.job].status = "failed"

(* What a handler has established before its next statement. *)
Prepared(x, J, T) ==
    x.pc # "free" =>
        /\ x.request \in Request /\ x.at \in Processes
        /\ x.request.op # "submit" => x.target \in Ids /\ J[x.target] # NULL
        /\ x.pc \in {"admitted", "tenant"} => x.request.op = "submit" /\ Valid(x.request)
        /\ x.pc = "tenant" => Params(x.request).tenant \in T

(* The result is the only one of its kind for its job. *)
Owns(x) == Submitted(x) /\ (x.created \/ x.request.params.key = NULL)

Owners(cl, hn) ==
    /\ \A c, d \in Clients : Owns(cl[c]) /\ Owns(cl[d]) /\ cl[c].job = cl[d].job => c = d
    /\ \A h, g \in Handlers : Owns(hn[h]) /\ Owns(hn[g]) /\ hn[h].job = hn[g].job => h = g
    /\ \A c \in Clients, h \in Handlers : Owns(cl[c]) /\ Owns(hn[h]) => cl[c].job # hn[h].job

(* A caller that waits has a handler of its own, which serves its request. *)
Links(cl, hn) ==
    /\ \A c \in Clients :
          /\ cl[c].request \in Request
          /\ cl[c].pc = "waiting" =>
                /\ cl[c].by \in Handlers
                /\ hn[cl[c].by].pc # "free" /\ hn[cl[c].by].request = cl[c].request
    /\ \A c, d \in Clients :
          cl[c].pc = "waiting" /\ cl[d].pc = "waiting" /\ cl[c].by = cl[d].by => c = d

TablesOK(J, T) == T \subseteq STRING /\ J \in [Ids -> Row \cup {NULL}] /\ UniqueKeys(J)

Inv ==
    /\ TypeOK
    /\ UniqueKeys(jobs)
    /\ Links(client, handler)
    /\ \A h \in Handlers : Prepared(handler[h], jobs, tenants) /\ Promised(handler[h], jobs, tenants)
    /\ \A c \in Clients : Promised(client[c], jobs, tenants)
    /\ Owners(client, handler)

-----------------------------------------------------------------------------
(* Requests and rows. *)

(* Normalisation, field by field. *)
LEMMA Normalized ==
    ASSUME NEW p \in EnqueueParams
    PROVE  LET n == normalizeEnqueueParams(p)
           IN /\ n.tenant = IF p.tenant = NULL THEN DefaultTenant ELSE p.tenant
              /\ n.key = p.key
              /\ n.priority = IF p.priority = 0 THEN 5 ELSE p.priority
              /\ n.maxAttempts = IF p.maxAttempts <= 0 THEN 5 ELSE p.maxAttempts
  BY DEF normalizeEnqueueParams, EnqueueParams

(* What Enqueue makes of a request, field by field. *)
LEMMA ParamsFields ==
    ASSUME NEW q \in Request
    PROVE  /\ Params(q).tenant = IF q.params.tenant = NULL THEN DefaultTenant ELSE q.params.tenant
           /\ Params(q).key = q.params.key
           /\ Params(q).priority = IF int16(q.params.priority) = 0 THEN 5 ELSE int16(q.params.priority)
           /\ Params(q).maxAttempts = IF q.params.maxAttempts <= 0 THEN 5 ELSE q.params.maxAttempts
           /\ int16(q.params.priority) \in Int
<1> DEFINE n == int16(q.params.priority)
           p == [q.params EXCEPT !.priority = n]
<1>1. q.params \in EnqueueParams
  BY DEF Request
<1>2. n \in Int
  BY <1>1 DEF int16, EnqueueParams
<1>3. Params(q) = normalizeEnqueueParams(p)
  BY DEF Params
<1> HIDE DEF n
<1>4. /\ p \in EnqueueParams
      /\ p.tenant = q.params.tenant /\ p.key = q.params.key
      /\ p.priority = n /\ p.maxAttempts = q.params.maxAttempts
  BY <1>1, <1>2 DEF EnqueueParams
<1> HIDE DEF p
<1>5. /\ Params(q).tenant = IF p.tenant = NULL THEN DefaultTenant ELSE p.tenant
      /\ Params(q).key = p.key
      /\ Params(q).priority = IF p.priority = 0 THEN 5 ELSE p.priority
      /\ Params(q).maxAttempts = IF p.maxAttempts <= 0 THEN 5 ELSE p.maxAttempts
  BY <1>3, <1>4, Normalized
<1>6. n = int16(q.params.priority)
  BY DEF n
<1> QED
  BY <1>2, <1>4, <1>5, <1>6

(* Enqueue's parameters are well typed. *)
LEMMA ParamsType ==
    ASSUME NEW q \in Request
    PROVE  /\ Params(q).tenant \in STRING /\ Params(q).key = q.params.key
           /\ Params(q).priority \in Int /\ Params(q).maxAttempts \in Int
<1>1. q.params.tenant \in STRING \cup {NULL} /\ q.params.maxAttempts \in Int
  BY DEF Request, EnqueueParams
<1>2. DefaultTenant \in STRING
  BY TenantsAssumption
<1> QED
  BY <1>1, <1>2, ParamsFields

(* The new row is well typed, with the tenant and the key of the request. *)
LEMMA NewRowType ==
    ASSUME NEW q \in Request
    PROVE  NewRow(q) \in Row /\ NewRow(q).tenant = Params(q).tenant /\ NewRow(q).key = q.params.key
<1>1. q.handler \in STRING \cup {NULL} /\ q.params.key \in STRING \cup {NULL}
  BY DEF Request, EnqueueParams
<1> QED
  BY <1>1, ParamsType DEF NewRow, Row

(* The conversion to int16 changes nothing that REST has let through. *)
LEMMA NewRowAsAsked ==
    ASSUME NEW q \in Request, Valid(q), q.via = "rest"
    PROVE  AsAsked(NewRow(q), q)
<1>1. /\ q.handler # NULL
      /\ q.params.priority \in 0 .. MaxInt16 /\ q.params.maxAttempts \in 0 .. 100
  BY DEF Valid
<1>2. MaxInt16 \in Int /\ MaxInt16 <= 32767
  BY DEF MaxInt16
<1>3. q.params.priority \in Int /\ 0 <= q.params.priority /\ q.params.priority <= 32767
  BY <1>1, <1>2
<1>4. int16(q.params.priority) = q.params.priority
  BY <1>3 DEF int16
<1>5. /\ Params(q).priority = IF q.params.priority = 0 THEN 5 ELSE q.params.priority
      /\ Params(q).maxAttempts = IF q.params.maxAttempts = 0 THEN 5 ELSE q.params.maxAttempts
  BY <1>1, <1>4, ParamsFields
<1> QED
  BY <1>1, <1>5 DEF AsAsked, NewRow

-----------------------------------------------------------------------------
(* The statements on the tables. *)

(* Rows stay, and only their status changes; a cancelled job stays one. *)
Grows(J, T, J2, T2) ==
    /\ T \subseteq T2
    /\ \A i \in Ids : J[i] # NULL =>
          /\ J2[i] # NULL
          /\ J2[i].tenant = J[i].tenant /\ J2[i].key = J[i].key
          /\ J2[i].handler = J[i].handler
          /\ J2[i].priority = J[i].priority /\ J2[i].maxAttempts = J[i].maxAttempts
          /\ J[i].status = "failed" => J2[i].status = "failed"

(* A change of one row's status. *)
LEMMA StatusSet ==
    ASSUME TablesOK(jobs, tenants), NEW i \in Ids, jobs[i] # NULL, jobs[i].status # "failed",
           NEW s \in {"ready", "succeeded", "failed", "dead"},
           jobs' = [jobs EXCEPT ![i].status = s]
    PROVE  TablesOK(jobs', tenants) /\ Grows(jobs, tenants, jobs', tenants) /\ jobs'[i].status = s
<1>1. jobs[i] \in Row
  BY DEF TablesOK
<1> DEFINE r == [jobs[i] EXCEPT !.status = s]
<1>2. /\ r \in Row /\ r.status = s
      /\ r.tenant = jobs[i].tenant /\ r.key = jobs[i].key /\ r.handler = jobs[i].handler
      /\ r.priority = jobs[i].priority /\ r.maxAttempts = jobs[i].maxAttempts
  BY <1>1 DEF Row
<1>3. r # NULL
  BY <1>2, NullAssumption
<1>4. jobs' = [jobs EXCEPT ![i] = r]
  OBVIOUS
<1> HIDE DEF r
<1>5. /\ jobs' \in [Ids -> Row \cup {NULL}]
      /\ jobs'[i] = r /\ \A k \in Ids : k # i => jobs'[k] = jobs[k]
  BY <1>2, <1>4 DEF TablesOK
<1>6. UniqueKeys(jobs')
  <2>1. \A k \in Ids : jobs'[k] # NULL =>
            jobs[k] # NULL /\ jobs'[k].key = jobs[k].key /\ jobs'[k].tenant = jobs[k].tenant
    BY <1>2, <1>5
  <2> QED
    BY <2>1 DEF TablesOK, UniqueKeys
<1>7. Grows(jobs, tenants, jobs', tenants)
  BY <1>2, <1>3, <1>5 DEF Grows
<1> QED
  BY <1>2, <1>5, <1>6, <1>7 DEF TablesOK

(* A new row under a key that is free. *)
LEMMA RowAdded ==
    ASSUME TablesOK(jobs, tenants), NEW i \in Ids, jobs[i] = NULL,
           NEW r \in Row,
           \A k \in Ids : jobs[k] # NULL /\ r.key # NULL /\ jobs[k].key = r.key => jobs[k].tenant # r.tenant,
           jobs' = [jobs EXCEPT ![i] = r]
    PROVE  TablesOK(jobs', tenants) /\ Grows(jobs, tenants, jobs', tenants) /\ jobs'[i] = r /\ r # NULL
<1>1. r # NULL
  BY NullAssumption
<1>2. /\ jobs' \in [Ids -> Row \cup {NULL}]
      /\ jobs'[i] = r /\ \A k \in Ids : k # i => jobs'[k] = jobs[k]
  BY DEF TablesOK
<1>3. UniqueKeys(jobs')
  BY <1>2, Zenon DEF TablesOK, UniqueKeys
<1>4. Grows(jobs, tenants, jobs', tenants)
  BY <1>2 DEF Grows
<1> QED
  BY <1>1, <1>2, <1>3, <1>4 DEF TablesOK

(* The tables grow when they stay the same. *)
LEMMA GrowsNot ==
    ASSUME NEW J, NEW T PROVE Grows(J, T, J, T)
  BY DEF Grows

(* Enqueue's INSERT returns a row with the tenant and the key, one of its  *)
(* own unless the key was in use.                                          *)
LEMMA InsertOK ==
    ASSUME TablesOK(jobs, tenants), NEW q \in Request, NEW i \in Ids, NEW created \in BOOLEAN,
           Insert(q, i, created)
    PROVE  /\ TablesOK(jobs', tenants) /\ Grows(jobs, tenants, jobs', tenants)
           /\ jobs'[i] # NULL
           /\ jobs'[i].tenant = Params(q).tenant /\ jobs'[i].key = q.params.key
           /\ created => jobs[i] = NULL /\ jobs'[i] = NewRow(q)
           /\ ~created => q.params.key # NULL
<1>1. CASE /\ Conflicting(q) = {} /\ Ids # Rows /\ i = NewId /\ created
           /\ jobs' = [jobs EXCEPT ![i] = NewRow(q)]
  <2>1. jobs[i] = NULL
    <3>1. \E k \in Ids : k \notin Rows
      BY <1>1, Zenon DEF Rows
    <3>2. NewId \in Ids /\ NewId \notin Rows
      BY <3>1, Zenon DEF NewId
    <3> QED
      BY <1>1, <3>2 DEF Rows
  <2>2. /\ NewRow(q) \in Row
        /\ NewRow(q).tenant = Params(q).tenant /\ NewRow(q).key = q.params.key
    BY NewRowType
  <2>3. \A k \in Ids : jobs[k] # NULL /\ NewRow(q).key # NULL /\ jobs[k].key = NewRow(q).key
                           => jobs[k].tenant # NewRow(q).tenant
    BY <1>1, <2>2, Zenon DEF Conflicting, Rows
  <2>4. /\ TablesOK(jobs', tenants) /\ Grows(jobs, tenants, jobs', tenants)
        /\ jobs'[i] = NewRow(q) /\ NewRow(q) # NULL
    BY <1>1, <2>1, <2>2, <2>3, RowAdded, Zenon
  <2> QED
    BY <1>1, <2>1, <2>2, <2>4, Zenon
<1>2. CASE i \in Conflicting(q) /\ ~created /\ UNCHANGED jobs
  <2>1. /\ jobs[i] # NULL /\ q.params.key # NULL
        /\ jobs[i].key = q.params.key /\ jobs[i].tenant = Params(q).tenant
    BY <1>2, Zenon DEF Conflicting, Rows
  <2> QED
    BY <1>2, <2>1, GrowsNot
<1> QED
  BY <1>1, <1>2, Zenon DEF Insert

(* cancelJob and requeueDLQ. *)
LEMMA MoveOK ==
    ASSUME TablesOK(jobs, tenants), NEW op \in {"cancel", "requeue"}, NEW i \in Ids, jobs[i] # NULL,
           Move(op, i)
    PROVE  /\ TablesOK(jobs', tenants) /\ Grows(jobs, tenants, jobs', tenants)
           /\ jobs'[i] # NULL /\ (op = "cancel" => jobs'[i].status = "failed")
<1> DEFINE s == IF op = "cancel" THEN "failed" ELSE "ready"
<1>1. jobs[i].status # "failed" /\ s \in {"ready", "succeeded", "failed", "dead"}
  BY DEF Move, Moves
<1>2. jobs' = [jobs EXCEPT ![i].status = s]
  BY DEF Move
<1>3. s = IF op = "cancel" THEN "failed" ELSE "ready"
  OBVIOUS
<1> HIDE DEF s
<1>4. /\ TablesOK(jobs', tenants) /\ Grows(jobs, tenants, jobs', tenants)
      /\ jobs'[i].status = s
  BY <1>1, <1>2, StatusSet, Zenon
<1> QED
  BY <1>3, <1>4 DEF Grows

-----------------------------------------------------------------------------
(* Steps of a handler. *)

(* The processes, Redis and the counters. *)
WorldOK ==
    /\ process \in [Processes -> {"up", "http", "grpc", "down"}]
    /\ redis \in BOOLEAN
    /\ faults \in Nat /\ stops \in Nat

(* What a record says of the tables stays true as they grow. *)
LEMMA Kept ==
    ASSUME NEW x, Grows(jobs, tenants, jobs', tenants')
    PROVE  /\ Promised(x, jobs, tenants) => Promised(x, jobs', tenants')
           /\ Prepared(x, jobs, tenants) => Prepared(x, jobs', tenants')
<1>1. Promised(x, jobs, tenants) => Promised(x, jobs', tenants')
  BY Zenon DEF Promised, Grows, AsAsked
<1>2. Prepared(x, jobs, tenants) => Prepared(x, jobs', tenants')
  BY Zenon DEF Prepared, Grows
<1> QED
  BY <1>1, <1>2

(* A handler goes on with its request.  When it comes to own a job, the    *)
(* job is new.                                                             *)
LEMMA HandlerStep ==
    ASSUME Inv, NEW h \in Handlers, WorldOK', UNCHANGED client,
           TablesOK(jobs', tenants'), Grows(jobs, tenants, jobs', tenants'),
           handler' \in [Handlers -> Handler],
           \A g \in Handlers : g # h => handler'[g] = handler[g],
           handler'[h].pc # "free", handler'[h].request = handler[h].request,
           Prepared(handler'[h], jobs', tenants'), Promised(handler'[h], jobs', tenants'),
           Owns(handler'[h]) => \/ Owns(handler[h]) /\ handler'[h].job = handler[h].job
                                \/ jobs[handler'[h].job] = NULL
    PROVE  Inv'
<1>1. TypeOK' /\ UniqueKeys(jobs')
  BY DEF Inv, TypeOK, WorldOK, TablesOK
<1>2. Links(client', handler')
  BY ZenonT(60) DEF Inv, Links
<1>3. \A g \in Handlers : Prepared(handler'[g], jobs', tenants') /\ Promised(handler'[g], jobs', tenants')
  BY Kept, Zenon DEF Inv
<1>4. \A c \in Clients : Promised(client'[c], jobs', tenants')
  BY Kept, Zenon DEF Inv
<1>5. Owners(client', handler')
  <2>1. \A g \in Handlers : Owns(handler[g]) => jobs[handler[g].job] # NULL
    BY Zenon DEF Inv, Promised, Owns
  <2>2. \A c \in Clients : Owns(client[c]) => jobs[client[c].job] # NULL
    BY Zenon DEF Inv, Promised, Owns
  <2>3. ASSUME NEW g \in Handlers, g # h, Owns(handler'[g]), Owns(handler'[h])
        PROVE  handler'[g].job # handler'[h].job
    BY <2>1, <2>3, ZenonT(60) DEF Inv, Owners
  <2>4. ASSUME NEW c \in Clients, NEW g \in Handlers, Owns(client'[c]), Owns(handler'[g])
        PROVE  client'[c].job # handler'[g].job
    BY <2>2, <2>4 DEF Inv, Owners
  <2>5. Owners(client, handler)
    BY DEF Inv
  <2>6. \A g, k \in Handlers :
            Owns(handler'[g]) /\ Owns(handler'[k]) /\ handler'[g].job = handler'[k].job => g = k
    <3> TAKE g, k \in Handlers
    <3>1. CASE g = h \/ k = h
      BY <2>3, <3>1, Zenon
    <3>2. CASE g # h /\ k # h
      BY <2>5, <3>2, Zenon DEF Owners
    <3> QED
      BY <3>1, <3>2, Zenon
  <2> QED
    BY <2>4, <2>5, <2>6, Zenon DEF Owners
<1> QED
  BY <1>1, <1>2, <1>3, <1>4, <1>5 DEF Inv

(* An answer without a result. *)
LEMMA AnswerOK ==
    ASSUME Inv, NEW h \in Handlers, NEW code \in Code \ {"ok"}, Answer(h, code),
           handler[h].pc # "free", WorldOK', UNCHANGED client,
           TablesOK(jobs', tenants'), Grows(jobs, tenants, jobs', tenants')
    PROVE  Inv'
<1>1. handler \in [Handlers -> Handler]
  BY DEF Inv, TypeOK
<1>2. handler[h] \in Handler
  BY <1>1
<1>3. /\ handler' \in [Handlers -> Handler]
      /\ \A g \in Handlers : g # h => handler'[g] = handler[g]
  BY <1>1, <1>2, ZenonT(60) DEF Answer, Handler, Code
<1>4. /\ handler'[h].pc = "answering" /\ handler'[h].code = code
      /\ handler'[h].request = handler[h].request /\ handler'[h].at = handler[h].at
      /\ handler'[h].target = handler[h].target
  BY <1>1, <1>2 DEF Answer, Handler
<1>5. Prepared(handler[h], jobs', tenants')
  BY Kept, Zenon DEF Inv
<1>6. Prepared(handler'[h], jobs', tenants')
  BY <1>4, <1>5 DEF Prepared
<1>7. Promised(handler'[h], jobs', tenants') /\ ~Owns(handler'[h])
  BY <1>4 DEF Promised, Owns, Submitted
<1>8. handler'[h].pc # "free"
  BY <1>4
<1> QED
  BY <1>3, <1>4, <1>6, <1>7, <1>8, HandlerStep, Zenon

(* The tables and the world, when a step leaves them alone. *)
LEMMA Same ==
    ASSUME Inv
    PROVE  /\ TablesOK(jobs, tenants) /\ Grows(jobs, tenants, jobs, tenants) /\ WorldOK
           /\ UNCHANGED <<world, faults>> => WorldOK'
           /\ UNCHANGED world /\ Fault => WorldOK'
           /\ UNCHANGED tables => TablesOK(jobs', tenants') /\ Grows(jobs, tenants, jobs', tenants')
<1>1. TablesOK(jobs, tenants) /\ Grows(jobs, tenants, jobs, tenants) /\ WorldOK
  BY GrowsNot DEF Inv, TypeOK, TablesOK, WorldOK
<1>2. UNCHANGED <<world, faults>> => WorldOK'
  BY <1>1 DEF WorldOK, world
<1>3. UNCHANGED world /\ Fault => WorldOK'
  BY <1>1 DEF WorldOK, world, Fault
<1>4. UNCHANGED tables => TablesOK(jobs', tenants') /\ Grows(jobs, tenants, jobs', tenants')
  <2> HAVE UNCHANGED tables
  <2>1. jobs' = jobs /\ tenants' = tenants
    BY DEF tables
  <2> QED
    BY <1>1, <2>1, Zenon
<1> QED
  BY <1>1, <1>2, <1>3, <1>4

(* Decoding and admission. *)
LEMMA AdmissionOK ==
    ASSUME Inv, NEW h \in Handlers, Reject(h) \/ Limit(h) \/ CheckFails(h)
    PROVE  Inv'
<1>1. \E code \in Code \ {"ok"} : Answer(h, code)
  BY DEF Reject, Limit, CheckFails, Code
<1>2. handler[h].pc # "free" /\ UNCHANGED <<tables, client, world, faults>>
  BY DEF Reject, Limit, CheckFails
<1>3. WorldOK' /\ UNCHANGED client /\ TablesOK(jobs', tenants') /\ Grows(jobs, tenants, jobs', tenants')
  BY <1>2, Same
<1> QED
  BY <1>1, <1>2, <1>3, AnswerOK, Zenon

(* Admission keeps the invariant. *)
LEMMA AdmitOK ==
    ASSUME Inv, NEW h \in Handlers, Admit(h)
    PROVE  Inv'
<1>1. handler \in [Handlers -> Handler] /\ handler[h] \in Handler
  BY DEF Inv, TypeOK
<1>2. /\ handler' \in [Handlers -> Handler]
      /\ \A g \in Handlers : g # h => handler'[g] = handler[g]
  BY <1>1 DEF Admit, Handler
<1>3. /\ handler'[h].pc = "admitted"
      /\ handler'[h].request = handler[h].request /\ handler'[h].at = handler[h].at
      /\ handler'[h].target = handler[h].target /\ handler'[h].code = handler[h].code
      /\ handler'[h].job = handler[h].job /\ handler'[h].created = handler[h].created
  BY <1>1 DEF Admit, Handler
<1>4. /\ WorldOK' /\ UNCHANGED client
      /\ TablesOK(jobs', tenants') /\ Grows(jobs, tenants, jobs', tenants')
  BY Same DEF Admit
<1>5. handler[h].pc # "free" /\ handler[h].request.op = "submit" /\ Valid(handler[h].request)
  BY DEF Admit
<1>6. Prepared(handler[h], jobs', tenants') /\ Promised(handler[h], jobs', tenants')
  BY <1>4, Kept, Zenon DEF Inv
<1>7. Prepared(handler'[h], jobs', tenants') /\ handler'[h].pc # "free"
  BY <1>3, <1>5, <1>6 DEF Prepared
<1>8. Promised(handler'[h], jobs', tenants') /\ (Owns(handler'[h]) => Owns(handler[h]))
  BY <1>3, <1>6 DEF Promised, Owns, Submitted
<1> QED
  BY <1>2, <1>3, <1>4, <1>7, <1>8, HandlerStep, Zenon

(* The tenant's row is there before the job's is inserted. *)
LEMMA ensureTenantOK ==
    ASSUME Inv, NEW h \in Handlers, ensureTenant(h)
    PROVE  Inv'
<1>1. handler \in [Handlers -> Handler] /\ handler[h] \in Handler
  BY DEF Inv, TypeOK
<1>2. /\ handler' \in [Handlers -> Handler]
      /\ \A g \in Handlers : g # h => handler'[g] = handler[g]
  BY <1>1 DEF ensureTenant, Handler
<1>3. /\ handler'[h].pc = "tenant"
      /\ handler'[h].request = handler[h].request /\ handler'[h].at = handler[h].at
      /\ handler'[h].target = handler[h].target /\ handler'[h].code = handler[h].code
      /\ handler'[h].job = handler[h].job /\ handler'[h].created = handler[h].created
  BY <1>1 DEF ensureTenant, Handler
<1>4. handler[h].request \in Request /\ handler[h].pc = "admitted"
  BY DEF Inv, Prepared, ensureTenant
<1>5. Params(handler[h].request).tenant \in STRING
  BY <1>4, ParamsType
<1>6. /\ WorldOK' /\ UNCHANGED client /\ jobs' = jobs
      /\ tenants' = tenants \cup {Params(handler[h].request).tenant}
  BY Same DEF ensureTenant
<1>7. TablesOK(jobs', tenants') /\ Grows(jobs, tenants, jobs', tenants')
  BY <1>5, <1>6, Same DEF TablesOK, Grows
<1>8. Prepared(handler[h], jobs', tenants') /\ Promised(handler[h], jobs', tenants')
  BY <1>7, Kept, Zenon DEF Inv
<1>9. Prepared(handler'[h], jobs', tenants') /\ handler'[h].pc # "free"
  BY <1>3, <1>4, <1>6, <1>8 DEF Prepared
<1>10. Promised(handler'[h], jobs', tenants') /\ (Owns(handler'[h]) => Owns(handler[h]))
  BY <1>3, <1>8 DEF Promised, Owns, Submitted
<1> QED
  BY <1>2, <1>3, <1>6, <1>7, <1>9, <1>10, HandlerStep, Zenon

(* Enqueue keeps the invariant: a job that it owns is a new one. *)
LEMMA EnqueueOK ==
    ASSUME Inv, NEW h \in Handlers, Enqueue(h)
    PROVE  Inv'
<1> DEFINE q == handler[h].request
<1>1. handler \in [Handlers -> Handler] /\ handler[h] \in Handler
  BY DEF Inv, TypeOK
<1>2. PICK i \in Ids, created \in BOOLEAN :
          /\ Insert(q, i, created)
          /\ handler' = [handler EXCEPT ![h].pc = "stored", ![h].job = i, ![h].code = "ok",
                                        ![h].created = created /\ q.via = "rest"]
  BY Zenon DEF Enqueue
<1>3. /\ handler[h].pc = "tenant" /\ WorldOK' /\ UNCHANGED client /\ tenants' = tenants
      /\ TablesOK(jobs, tenants)
  BY Same DEF Enqueue
<1>4. /\ q \in Request /\ handler[h].at \in Processes /\ q.op = "submit" /\ Valid(q)
      /\ Params(q).tenant \in tenants
  BY <1>3 DEF Inv, Prepared
<1>5. /\ handler' \in [Handlers -> Handler]
      /\ \A g \in Handlers : g # h => handler'[g] = handler[g]
  BY <1>1, <1>2, Zenon DEF Handler, Code
<1>6. /\ handler'[h].pc = "stored" /\ handler'[h].code = "ok" /\ handler'[h].job = i
      /\ handler'[h].created = (created /\ q.via = "rest")
      /\ handler'[h].request = q /\ handler'[h].at = handler[h].at
  BY <1>1, <1>2 DEF Handler
<1> HIDE DEF q
<1>7. /\ TablesOK(jobs', tenants) /\ Grows(jobs, tenants, jobs', tenants)
      /\ jobs'[i] # NULL
      /\ jobs'[i].tenant = Params(q).tenant /\ jobs'[i].key = q.params.key
      /\ created => jobs[i] = NULL /\ jobs'[i] = NewRow(q)
      /\ ~created => q.params.key # NULL
  BY <1>2, <1>3, <1>4, InsertOK, Zenon
<1>8. Prepared(handler'[h], jobs', tenants') /\ handler'[h].pc # "free"
  BY <1>4, <1>6 DEF Prepared
<1>9. created /\ q.via = "rest" => AsAsked(jobs'[i], q)
  BY <1>4, <1>7, NewRowAsAsked, Zenon
<1>10. Promised(handler'[h], jobs', tenants')
  BY <1>3, <1>4, <1>6, <1>7, <1>9, Zenon DEF Promised, Submitted
<1>11. Owns(handler'[h]) => jobs[handler'[h].job] = NULL
  BY <1>6, <1>7, Zenon DEF Owns
<1> QED
  BY <1>3, <1>5, <1>6, <1>7, <1>8, <1>10, <1>11, HandlerStep, ZenonT(60) DEF q

(* cancelJob and requeueDLQ keep the invariant. *)
LEMMA OperateOK ==
    ASSUME Inv, NEW h \in Handlers, NEW op \in {"cancel", "requeue"}, Operate(h, op)
    PROVE  Inv'
<1> DEFINE q == handler[h].request
           i == handler[h].target
<1>1. handler \in [Handlers -> Handler] /\ handler[h] \in Handler
  BY DEF Inv, TypeOK
<1>2. handler[h].pc = "received" /\ q.op = op /\ q.op # "submit"
  BY DEF Operate
<1>3. /\ q \in Request /\ handler[h].at \in Processes
      /\ i \in Ids /\ jobs[i] # NULL
  BY <1>2 DEF Inv, Prepared
<1>4. WorldOK' /\ UNCHANGED client /\ tenants' = tenants /\ TablesOK(jobs, tenants)
  BY Same DEF Operate
<1>5. CASE /\ Move(op, i)
           /\ handler' = [handler EXCEPT ![h].pc = "stored", ![h].job = i, ![h].code = "ok"]
  <2>1. /\ handler' \in [Handlers -> Handler]
        /\ \A g \in Handlers : g # h => handler'[g] = handler[g]
    BY <1>1, <1>3, <1>5, Zenon DEF Handler, Code
  <2>2. /\ handler'[h].pc = "stored" /\ handler'[h].code = "ok" /\ handler'[h].job = i
        /\ handler'[h].request = q /\ handler'[h].at = handler[h].at /\ handler'[h].target = i
    BY <1>1, <1>5 DEF Handler
  <2> HIDE DEF q, i
  <2>3. /\ TablesOK(jobs', tenants) /\ Grows(jobs, tenants, jobs', tenants)
        /\ jobs'[i] # NULL /\ (op = "cancel" => jobs'[i].status = "failed")
    BY <1>3, <1>4, <1>5, MoveOK, Zenon
  <2>4. Prepared(handler'[h], jobs', tenants') /\ handler'[h].pc # "free"
    BY <1>3, <2>2, <2>3 DEF Prepared
  <2>5. Promised(handler'[h], jobs', tenants') /\ ~Owns(handler'[h])
    BY <1>2, <1>3, <2>2, <2>3 DEF Promised, Submitted, Owns
  <2> QED
    BY <1>4, <2>1, <2>2, <2>3, <2>4, <2>5, HandlerStep, Zenon DEF q
<1>6. CASE UNCHANGED jobs /\ Answer(h, "conflict")
  <2>1. "conflict" \in Code \ {"ok"} /\ handler[h].pc # "free"
    BY <1>2 DEF Code
  <2>2. TablesOK(jobs', tenants') /\ Grows(jobs, tenants, jobs', tenants')
    BY <1>4, <1>6, Same
  <2> QED
    BY <1>4, <1>6, <2>1, <2>2, AnswerOK, Zenon
<1> QED
  BY <1>5, <1>6 DEF Operate

(* RecordEnqueue and the event keep the invariant. *)
LEMMA NotifyOK ==
    ASSUME Inv, NEW h \in Handlers, Notify(h)
    PROVE  Inv'
<1>1. handler \in [Handlers -> Handler] /\ handler[h] \in Handler
  BY DEF Inv, TypeOK
<1>2. /\ handler' \in [Handlers -> Handler]
      /\ \A g \in Handlers : g # h => handler'[g] = handler[g]
  BY <1>1 DEF Notify, Handler
<1>3. /\ handler'[h].pc = "answering"
      /\ handler'[h].request = handler[h].request /\ handler'[h].at = handler[h].at
      /\ handler'[h].target = handler[h].target /\ handler'[h].code = handler[h].code
      /\ handler'[h].job = handler[h].job /\ handler'[h].created = handler[h].created
  BY <1>1 DEF Notify, Handler
<1>4. /\ WorldOK' /\ UNCHANGED client /\ handler[h].pc = "stored"
      /\ TablesOK(jobs', tenants') /\ Grows(jobs, tenants, jobs', tenants')
  BY Same DEF Notify
<1>5. Prepared(handler[h], jobs', tenants') /\ Promised(handler[h], jobs', tenants')
  BY <1>4, Kept, Zenon DEF Inv
<1>6. Prepared(handler'[h], jobs', tenants') /\ handler'[h].pc # "free"
  BY SMTT(60), <1>3, <1>4, <1>5 DEF Prepared
<1>7. Promised(handler'[h], jobs', tenants') /\ (Owns(handler'[h]) => Owns(handler[h]))
  BY <1>3, <1>5 DEF Promised, Owns, Submitted
<1> QED
  BY <1>2, <1>3, <1>4, <1>6, <1>7, HandlerStep, Zenon

(* A statement that fails, executed or not, keeps the invariant. *)
LEMMA FailsOK ==
    ASSUME Inv, NEW h \in Handlers, Fails(h)
    PROVE  Inv'
<1> DEFINE q == handler[h].request
           i == handler[h].target
<1>1. handler[h].pc # "free" /\ Answer(h, "error") /\ "error" \in Code \ {"ok"}
  BY DEF Fails, Code
<1>2. UNCHANGED client /\ TablesOK(jobs, tenants)
  BY Same DEF Fails
<1>3. WorldOK'
  BY Same DEF Fails
<1>4. q \in Request /\ (q.op # "submit" => i \in Ids /\ jobs[i] # NULL)
  BY <1>1, Zenon DEF Inv, Prepared
<1>5. TablesOK(jobs', tenants') /\ Grows(jobs, tenants, jobs', tenants')
  <2>1. CASE UNCHANGED tables
    BY <1>2, <2>1, Same DEF tables
  <2>2. ASSUME NEW k \in Ids, NEW created \in BOOLEAN, Insert(q, k, created), UNCHANGED tenants
        PROVE  TablesOK(jobs', tenants') /\ Grows(jobs, tenants, jobs', tenants')
    <3> HIDE DEF q
    <3> QED
      BY <1>2, <1>4, <2>2, InsertOK, Zenon
  <2>3. CASE q.op # "submit" /\ Move(q.op, i) /\ UNCHANGED tenants
    <3>1. q.op \in {"cancel", "requeue"}
      BY <1>4, <2>3 DEF Request
    <3> HIDE DEF q, i
    <3> QED
      BY <1>2, <1>4, <2>3, <3>1, MoveOK, Zenon
  <2>4. CASE UNCHANGED jobs /\ tenants' = tenants \cup {Params(q).tenant}
    <3>1. Params(q).tenant \in STRING
      BY <1>4, ParamsType
    <3> QED
      BY <1>2, <2>4, <3>1, Same DEF TablesOK, Grows
  <2> QED
    BY <2>1, <2>2, <2>3, <2>4, Zenon DEF Fails, tables
<1> QED
  BY <1>1, <1>2, <1>3, <1>5, AnswerOK, Zenon

-----------------------------------------------------------------------------
(* Steps that end the service of a request. *)

(* A free handler promises nothing. *)
LEMMA Freed ==
    /\ FreeHandler \in Handler /\ FreeHandler.pc = "free" /\ ~Owns(FreeHandler)
    /\ Prepared(FreeHandler, jobs', tenants') /\ Promised(FreeHandler, jobs', tenants')
  BY DEF FreeHandler, Handler, Code, Owns, Submitted, Prepared, Promised

(* The caller's answer is as it was, and it does not wait. *)
Left(c) ==
    /\ client'[c].pc # "waiting"
    /\ client'[c].request = client[c].request /\ client'[c].code = client[c].code
    /\ client'[c].job = client[c].job /\ client'[c].created = client[c].created

(* The caller has the answer of the handler it waited for, which is free. *)
Told(c) ==
    LET h == client[c].by
    IN /\ client[c].pc = "waiting" /\ client'[c].pc # "waiting"
       /\ client'[c].request = client[c].request /\ client'[c].code = handler[h].code
       /\ client'[c].job = handler[h].job /\ client'[c].created = handler[h].created
       /\ handler'[h] = FreeHandler

(* A step that frees handlers, and gives their callers the result or nothing. *)
LEMMA Released ==
    ASSUME Inv, UNCHANGED tables, WorldOK',
           handler' \in [Handlers -> Handler], client' \in [Clients -> Client],
           \A h \in Handlers : handler'[h] = handler[h] \/ handler'[h] = FreeHandler,
           \A c \in Clients :
              \/ /\ client'[c] = client[c]
                 /\ client[c].pc = "waiting" => handler'[client[c].by] = handler[client[c].by]
              \/ Left(c)
              \/ Told(c)
    PROVE  Inv'
<1>1. TablesOK(jobs', tenants') /\ Grows(jobs, tenants, jobs', tenants')
  BY Same
<1>2. TypeOK' /\ UniqueKeys(jobs')
  BY <1>1 DEF TypeOK, WorldOK, TablesOK
<1>3. Links(client, handler)
  BY DEF Inv
<1>4. Links(client', handler')
  <2>1. ASSUME NEW c \in Clients, client'[c].pc = "waiting"
        PROVE  /\ client'[c] = client[c] /\ client[c].pc = "waiting"
               /\ handler'[client[c].by] = handler[client[c].by]
    BY <2>1, Zenon DEF Left, Told
  <2>2. \A c \in Clients : client'[c].request = client[c].request
    BY Zenon DEF Left, Told
  <2> QED
    BY <1>3, <2>1, <2>2 DEF Links
<1>5. \A h \in Handlers : Prepared(handler'[h], jobs', tenants') /\ Promised(handler'[h], jobs', tenants')
  BY <1>1, Kept, Freed, Zenon DEF Inv
<1>6. ASSUME NEW c \in Clients, Told(c)
      PROVE  /\ client[c].by \in Handlers /\ client'[c].request = handler[client[c].by].request
             /\ Owns(client'[c]) => Owns(handler[client[c].by])
             /\ Promised(client'[c], jobs', tenants')
  <2>1. client[c].by \in Handlers /\ client'[c].request = handler[client[c].by].request
    BY <1>3, <1>6, Zenon DEF Links, Told
  <2>2. Promised(handler[client[c].by], jobs', tenants')
    BY <1>1, <2>1, Kept, Zenon DEF Inv
  <2> QED
    BY <1>6, <2>1, <2>2, Zenon DEF Told, Owns, Submitted, Promised
<1>7. ASSUME NEW c \in Clients, client'[c] = client[c] \/ Left(c)
      PROVE  /\ Owns(client'[c]) => Owns(client[c]) /\ client'[c].job = client[c].job
             /\ Promised(client'[c], jobs', tenants')
  <2>1. Promised(client[c], jobs', tenants')
    BY <1>1, Kept, Zenon DEF Inv
  <2> QED
    BY <1>7, <2>1, Zenon DEF Left, Owns, Submitted, Promised
<1>8. \A c \in Clients : Promised(client'[c], jobs', tenants')
  BY <1>6, <1>7, Zenon
<1>9. Owners(client', handler')
  <2>1. Owners(client, handler)
    BY DEF Inv
  <2>2. ASSUME NEW h \in Handlers, Owns(handler'[h])
        PROVE  handler'[h] = handler[h] /\ handler'[h] # FreeHandler
    BY <2>2, Freed, Zenon
  <2>3. \A h, g \in Handlers :
            Owns(handler'[h]) /\ Owns(handler'[g]) /\ handler'[h].job = handler'[g].job => h = g
    BY <2>1, <2>2 DEF Owners
  <2>4. ASSUME NEW c \in Clients, Owns(client'[c])
        PROVE  \/ Owns(client[c]) /\ client'[c].job = client[c].job
               \/ /\ client[c].pc = "waiting" /\ client[c].by \in Handlers
                  /\ Owns(handler[client[c].by]) /\ client'[c].job = handler[client[c].by].job
                  /\ handler'[client[c].by] = FreeHandler
    <3>1. CASE Told(c)
      BY <1>6, <2>4, <3>1 DEF Told
    <3>2. CASE client'[c] = client[c] \/ Left(c)
      BY <1>7, <2>4, <3>2
    <3> QED
      BY <3>1, <3>2, ZenonT(60)
  <2>5. ASSUME NEW c \in Clients, NEW h \in Handlers, Owns(client'[c]), Owns(handler'[h])
        PROVE  client'[c].job # handler'[h].job
    BY <2>1, <2>2, <2>4, <2>5 DEF Owners
  <2>6. ASSUME NEW c \in Clients, NEW d \in Clients, Owns(client'[c]), Owns(client'[d]),
               client'[c].job = client'[d].job
        PROVE  c = d
    <3>1. CASE /\ client[c].pc = "waiting" /\ client[d].pc = "waiting"
               /\ client[c].by = client[d].by
      BY <1>3, <3>1, Zenon DEF Links
    <3>2. CASE ~(/\ client[c].pc = "waiting" /\ client[d].pc = "waiting"
                 /\ client[c].by = client[d].by)
      BY <2>1, <2>4, <2>6, <3>2 DEF Owners
    <3> QED
      BY <3>1, <3>2, Zenon
  <2> QED
    BY <2>3, <2>5, <2>6, Zenon DEF Owners
<1> QED
  BY <1>2, <1>4, <1>5, <1>8, <1>9 DEF Inv

(* The result passes from the handler to its caller, if it has one. *)
LEMMA RespondOK ==
    ASSUME Inv, NEW h \in Handlers, Respond(h)
    PROVE  Inv'
<1>1. /\ handler \in [Handlers -> Handler] /\ client \in [Clients -> Client]
      /\ handler[h] \in Handler
  BY DEF Inv, TypeOK
<1>2. UNCHANGED tables /\ WorldOK'
  BY Same DEF Respond
<1>3. /\ handler' \in [Handlers -> Handler] /\ handler'[h] = FreeHandler
      /\ \A g \in Handlers : g # h => handler'[g] = handler[g]
  BY <1>1, Freed DEF Respond
<1>4. ASSUME NEW c \in Clients
      PROVE  /\ client'[c] \in Client
             /\ \/ /\ client'[c] = client[c]
                   /\ client[c].pc = "waiting" => handler'[client[c].by] = handler[client[c].by]
                \/ Left(c)
                \/ Told(c)
  <2>1. client[c] \in Client
    BY <1>1
  <2>2. CASE ~WaitsFor(c, h)
    <3>1. client'[c] = client[c]
      BY <2>2, Zenon DEF Respond, Delivered
    <3>2. client[c].pc = "waiting" => client[c].by \in Handlers /\ client[c].by # h
      BY <2>2, Zenon DEF WaitsFor, Inv, Links
    <3> QED
      BY <1>3, <2>1, <3>1, <3>2
  <2>3. CASE WaitsFor(c, h) /\ Retryable(handler[h].code)
    <3>1. client'[c] = [client[c] EXCEPT !.pc = "sending", !.by = NULL]
      BY <2>3, Zenon DEF Respond, Delivered
    <3> QED
      BY <2>1, <3>1, Zenon DEF Left, Client
  <2>4. CASE WaitsFor(c, h) /\ ~Retryable(handler[h].code)
    <3>1. client'[c] = [client[c] EXCEPT !.pc = "answered", !.by = NULL, !.code = handler[h].code,
                                         !.job = handler[h].job, !.created = handler[h].created]
      BY <2>4, Zenon DEF Respond, Delivered
    <3>2. client[c].pc = "waiting" /\ client[c].by = h
      BY <2>4 DEF WaitsFor
    <3>3. client'[c] \in Client
      BY <1>1, <2>1, <3>1, Zenon DEF Client, Handler
    <3>4. /\ client'[c].pc = "answered" /\ client'[c].request = client[c].request
          /\ client'[c].code = handler[h].code
          /\ client'[c].job = handler[h].job /\ client'[c].created = handler[h].created
      BY <2>1, <3>1 DEF Client
    <3> QED
      BY <1>3, <3>2, <3>3, <3>4 DEF Told
  <2> QED
    BY <2>2, <2>3, <2>4, Zenon
<1>5. client' \in [Clients -> Client]
  BY <1>4, Zenon DEF Respond, Delivered
<1> QED
  BY <1>2, <1>3, <1>4, <1>5, Released, Zenon

(* A caller that gives up keeps the invariant. *)
LEMMA GiveUpOK ==
    ASSUME Inv, NEW c \in Clients, GiveUp(c)
    PROVE  Inv'
<1>1. handler \in [Handlers -> Handler] /\ client \in [Clients -> Client] /\ client[c] \in Client
  BY DEF Inv, TypeOK
<1>2. UNCHANGED tables /\ WorldOK' /\ handler' = handler
  BY Same DEF GiveUp
<1>3. /\ client' \in [Clients -> Client] /\ \A d \in Clients : d # c => client'[d] = client[d]
      /\ Left(c)
  BY <1>1, Zenon DEF GiveUp, Client, Left
<1> QED
  BY <1>1, <1>2, <1>3, Released, Zenon

(* The end of a process. *)
LEMMA EndedOK ==
    ASSUME Inv, NEW p \in Processes, Ended(p), Fault \/ UNCHANGED faults
    PROVE  Inv'
<1>1. handler \in [Handlers -> Handler] /\ client \in [Clients -> Client]
  BY DEF Inv, TypeOK
<1>2. UNCHANGED tables /\ WorldOK'
  <2>1. WorldOK
    BY Same
  <2>2. faults' \in Nat
    BY <2>1, SMTT(30) DEF WorldOK, Fault
  <2> QED
    BY <2>1, <2>2, Zenon DEF Ended, WorldOK
<1>3. /\ handler' \in [Handlers -> Handler]
      /\ \A h \in Handlers : handler'[h] = IF handler[h].at = p THEN FreeHandler ELSE handler[h]
  BY <1>1, Freed, Zenon DEF Ended
<1>4. ASSUME NEW c \in Clients
      PROVE  /\ client'[c] \in Client
             /\ \/ /\ client'[c] = client[c]
                   /\ client[c].pc = "waiting" => handler'[client[c].by] = handler[client[c].by]
                \/ Left(c)
  <2>1. client[c] \in Client
    BY <1>1
  <2>2. CASE client[c].pc = "waiting" /\ handler[client[c].by].at = p
    <3>1. client'[c] = [client[c] EXCEPT !.pc = "sending", !.by = NULL]
      BY <2>2, Zenon DEF Ended
    <3> QED
      BY <2>1, <3>1, Zenon DEF Left, Client
  <2>3. CASE ~(client[c].pc = "waiting" /\ handler[client[c].by].at = p)
    <3>1. client'[c] = client[c]
      BY <2>3, Zenon DEF Ended
    <3>2. client[c].pc = "waiting" => client[c].by \in Handlers
      BY Zenon DEF Inv, Links
    <3> QED
      BY <1>3, <2>1, <2>3, <3>1, <3>2
  <2> QED
    BY <2>2, <2>3, Zenon
<1>5. client' \in [Clients -> Client]
  BY <1>4, Zenon DEF Ended
<1> QED
  BY <1>2, <1>3, <1>4, <1>5, Released, Zenon

(* The steps of a process that leave its requests alone. *)
LEMMA WorldStep ==
    ASSUME Inv, WorldOK', UNCHANGED <<tables, client, handler>>
    PROVE  Inv'
<1>1. handler \in [Handlers -> Handler] /\ client \in [Clients -> Client]
  BY DEF Inv, TypeOK
<1> QED
  BY <1>1, Released, Zenon

(* The workers keep the invariant. *)
LEMMA WorkOK ==
    ASSUME Inv, NEW i \in Ids, Work(i)
    PROVE  Inv'
<1>1. PICK s \in {"succeeded", "dead"} : jobs' = [jobs EXCEPT ![i].status = s]
  BY Zenon DEF Work
<1>2. /\ jobs[i] # NULL /\ jobs[i].status # "failed" /\ tenants' = tenants
      /\ client' = client /\ handler' = handler /\ TablesOK(jobs, tenants) /\ WorldOK'
  BY Same DEF Work, Rows
<1>3. s \in {"ready", "succeeded", "failed", "dead"}
  OBVIOUS
<1>4. TablesOK(jobs', tenants') /\ Grows(jobs, tenants, jobs', tenants')
  BY <1>1, <1>2, <1>3, StatusSet, Zenon
<1>5. TypeOK' /\ UniqueKeys(jobs')
  BY SMTT(60), <1>2, <1>4 DEF Inv, TypeOK, TablesOK, WorldOK
<1> QED
  BY <1>2, <1>4, <1>5, Kept, Zenon DEF Inv

-----------------------------------------------------------------------------
(* A request reaches a process. *)
LEMMA SendOK ==
    ASSUME Inv, NEW c \in Clients, Send(c)
    PROVE  Inv'
<1> DEFINE h == CHOOSE g \in Handlers : g \in FreeHandlers
           q == client[c].request
<1>1. handler \in [Handlers -> Handler] /\ client \in [Clients -> Client] /\ client[c] \in Client
  BY DEF Inv, TypeOK
<1>2. h \in Handlers /\ handler[h].pc = "free"
  <2>1. \E g \in Handlers : g \in FreeHandlers
    BY Zenon DEF Send, FreeHandlers
  <2>2. h \in Handlers /\ h \in FreeHandlers
    BY <2>1, ZenonT(60)
  <2> QED
    BY <2>2, Zenon DEF FreeHandlers
<1>3. PICK p \in Processes, target \in Rows \cup {NULL} :
          /\ target = NULL <=> q.op = "submit"
          /\ handler' = [handler EXCEPT
                            ![h] = [FreeHandler EXCEPT !.pc = "received", !.at = p, !.target = target,
                                                       !.request = q]]
          /\ client' = [client EXCEPT ![c].pc = "waiting", ![c].by = h, ![c].target = target]
  BY ZenonT(60) DEF Send
<1> HIDE DEF h
<1>4. /\ UNCHANGED tables /\ WorldOK' /\ jobs' = jobs /\ tenants' = tenants
      /\ TablesOK(jobs', tenants') /\ Grows(jobs, tenants, jobs', tenants')
  BY Same, Zenon DEF Send, tables
<1>5. q \in Request
  BY DEF Inv, Links
<1> HIDE DEF q
<1> DEFINE r == [FreeHandler EXCEPT !.pc = "received", !.at = p, !.target = target, !.request = q]
<1>6. target \in Ids \cup {NULL} /\ (target # NULL => jobs[target] # NULL)
  BY DEF Rows
<1>7. /\ r \in Handler /\ r.pc = "received" /\ r.at = p /\ r.target = target /\ r.request = q
      /\ r.code = "error"
  BY <1>5, <1>6, Zenon DEF FreeHandler, Handler, Code
<1>8. handler' = [handler EXCEPT ![h] = r]
  BY <1>3
<1> HIDE DEF r
<1>9. /\ handler' \in [Handlers -> Handler] /\ handler'[h] = r
      /\ \A g \in Handlers : g # h => handler'[g] = handler[g]
  BY <1>1, <1>2, <1>7, <1>8
<1>10. /\ client' \in [Clients -> Client] /\ \A d \in Clients : d # c => client'[d] = client[d]
       /\ client'[c].pc = "waiting" /\ client'[c].by = h
       /\ client'[c].request = q /\ client'[c].code = client[c].code
       /\ client'[c].job = client[c].job /\ client'[c].created = client[c].created
  BY <1>1, <1>2, <1>3, <1>6, Zenon DEF Client, q
<1>11. TypeOK' /\ UniqueKeys(jobs')
  BY <1>4, <1>9, <1>10 DEF TypeOK, WorldOK, TablesOK
<1>12. Links(client', handler')
  <2>1. Links(client, handler)
    BY DEF Inv
  <2>2. \A d \in Clients : d # c /\ client'[d].pc = "waiting" =>
            /\ client'[d].by \in Handlers /\ client'[d].by # h
            /\ handler'[client'[d].by].pc # "free"
            /\ handler'[client'[d].by].request = client'[d].request
    BY <1>2, <1>9, <1>10, <2>1 DEF Links
  <2>3. \A d \in Clients : client'[d].request \in Request
    BY <1>5, <1>10, <2>1, Zenon DEF Links
  <2>4. handler'[h].pc # "free" /\ handler'[h].request = client'[c].request
    BY <1>7, <1>9, <1>10
  <2>5. \A d, e \in Clients :
            client'[d].pc = "waiting" /\ client'[e].pc = "waiting" /\ client'[d].by = client'[e].by
            => d = e
    <3> SUFFICES ASSUME NEW d \in Clients, NEW e \in Clients, client'[d].pc = "waiting",
                        client'[e].pc = "waiting", client'[d].by = client'[e].by
                 PROVE  d = e
      OBVIOUS
    <3>1. CASE d # c /\ e # c
      <4>1. client'[d] = client[d] /\ client'[e] = client[e]
        BY Zenon, <1>10, <3>1
      <4>2. client[d].pc = "waiting" /\ client[e].pc = "waiting" /\ client[d].by = client[e].by
        BY Zenon, <4>1
      <4> QED
        BY Zenon, <2>1, <4>2 DEF Links
    <3>2. CASE d = c \/ e = c
      BY Zenon, <1>10, <2>2, <3>2
    <3> QED
      BY Zenon, <3>1, <3>2
  <2> QED
    BY <1>2, <1>10, <2>2, <2>3, <2>4, <2>5 DEF Links
<1>13. Prepared(r, jobs', tenants') /\ Promised(r, jobs', tenants') /\ ~Owns(r)
  BY <1>3, <1>4, <1>5, <1>6, <1>7 DEF Prepared, Promised, Owns, Submitted
<1>14. \A g \in Handlers : Prepared(handler'[g], jobs', tenants') /\ Promised(handler'[g], jobs', tenants')
  BY <1>4, <1>9, <1>13, Kept, Zenon DEF Inv
<1>15. \A d \in Clients :
          /\ Owns(client'[d]) <=> Owns(client[d])
          /\ client'[d].job = client[d].job
          /\ Promised(client'[d], jobs', tenants')
  <2>1. \A d \in Clients : Promised(client[d], jobs', tenants')
    BY <1>4, Kept, Zenon DEF Inv
  <2>2. /\ Owns(client'[c]) <=> Owns(client[c])
        /\ Promised(client'[c], jobs', tenants')
    BY <1>10, <2>1, Zenon DEF Owns, Submitted, Promised, q
  <2> QED
    BY <1>10, <2>1, <2>2, Zenon
<1>16. Owners(client', handler')
  <2>1. Owners(client, handler)
    BY DEF Inv
  <2>2. \A g \in Handlers : Owns(handler'[g]) => handler'[g] = handler[g]
    BY <1>9, <1>13, Zenon
  <2>3. ASSUME NEW d \in Clients, NEW e \in Clients, Owns(client'[d]), Owns(client'[e]),
               client'[d].job = client'[e].job
        PROVE  d = e
    BY Zenon, <1>15, <2>1, <2>3 DEF Owners
  <2>4. ASSUME NEW f \in Handlers, NEW g \in Handlers, Owns(handler'[f]), Owns(handler'[g]),
               handler'[f].job = handler'[g].job
        PROVE  f = g
    BY Zenon, <2>1, <2>2, <2>4 DEF Owners
  <2>5. ASSUME NEW d \in Clients, NEW g \in Handlers, Owns(client'[d]), Owns(handler'[g])
        PROVE  client'[d].job # handler'[g].job
    <3>1. Owns(client[d]) /\ client'[d].job = client[d].job
      BY Zenon, <1>15, <2>5
    <3>2. Owns(handler[g]) /\ handler'[g] = handler[g]
      BY Zenon, <2>2, <2>5
    <3>3. client[d].job # handler[g].job
      BY Zenon, <2>1, <3>1, <3>2 DEF Owners
    <3> QED
      BY Zenon, <3>1, <3>2, <3>3
  <2> QED
    BY Zenon, <2>3, <2>4, <2>5 DEF Owners
<1>17. \A d \in Clients : Promised(client'[d], jobs', tenants')
  BY <1>15, Zenon
<1> QED
  BY <1>11, <1>12, <1>14, <1>16, <1>17 DEF Inv

-----------------------------------------------------------------------------
(* The theorems. *)

(* The invariant holds at first. *)
LEMMA Initially == Init => Inv
<1> SUFFICES ASSUME Init PROVE Inv
  OBVIOUS
<1>1. PICK q \in Workloads : client = [c \in Clients |-> [NewClient EXCEPT !.request = q[c]]]
  BY DEF Init
<1>2. \A c \in Clients : q[c] \in Request
  BY WorkloadsAssumption
<1>3. \A c \in Clients :
          /\ client[c] \in Client /\ client[c].request \in Request
          /\ client[c].pc = "sending" /\ client[c].code = "error"
  BY <1>1, <1>2, Zenon DEF NewClient, Client, Code
<1>4. client \in [Clients -> Client]
  BY <1>1, <1>3
<1>5. /\ FreeHandler \in Handler /\ FreeHandler.pc = "free" /\ FreeHandler.code = "error"
      /\ handler = [h \in Handlers |-> FreeHandler]
  BY DEF Init, FreeHandler, Handler, Code
<1>6. TypeOK
  BY <1>4, <1>5 DEF Init, TypeOK
<1>7. UniqueKeys(jobs)
  BY DEF Init, UniqueKeys
<1>8. Links(client, handler)
  BY <1>3 DEF Links
<1>9. \A h \in Handlers : Prepared(handler[h], jobs, tenants) /\ Promised(handler[h], jobs, tenants)
                          /\ ~Owns(handler[h])
  BY Zenon, <1>5 DEF Prepared, Promised, Owns, Submitted
<1>10. \A c \in Clients : Promised(client[c], jobs, tenants) /\ ~Owns(client[c])
  BY <1>3 DEF Promised, Owns, Submitted
<1> QED
  BY <1>6, <1>7, <1>8, <1>9, <1>10 DEF Inv, Owners

(* Every step keeps the invariant. *)
LEMMA Preserved == Inv /\ [Next]_vars => Inv'
<1> SUFFICES ASSUME Inv, [Next]_vars PROVE Inv'
  OBVIOUS
<1>1. ASSUME NEW c \in Clients, Send(c) \/ GiveUp(c) PROVE Inv'
  BY <1>1, SendOK, GiveUpOK, Zenon
<1>2. ASSUME NEW h \in Handlers, Step(h) \/ Fails(h) PROVE Inv'
  BY <1>2, AdmissionOK, AdmitOK, ensureTenantOK, EnqueueOK, OperateOK, NotifyOK, RespondOK, FailsOK,
     Zenon DEF Step, cancelJob, requeueDLQ
<1>3. ASSUME NEW i \in Ids, Work(i) PROVE Inv'
  BY <1>3, WorkOK, Zenon
<1>4. WorldOK
  BY Same
<1>5. ASSUME NEW p \in Processes, Signal(p) \/ Shutdown(p) \/ ShutdownTimeout(p) \/ Start(p)
      PROVE  Inv'
  <2>1. UNCHANGED <<tables, client, handler, redis, faults>>
    BY <1>5 DEF Signal, Shutdown, ShutdownTimeout, Start
  <2>2. WorldOK'
    BY <1>4, <1>5, <2>1 DEF WorldOK, Signal, Shutdown, ShutdownTimeout, Start
  <2> QED
    BY <2>1, <2>2, WorldStep
<1>6. ASSUME NEW p \in Processes, GracefulStop(p) \/ Crash(p) PROVE Inv'
  BY <1>6, EndedOK, Zenon DEF GracefulStop, Crash
<1>7. CASE RedisFails
  <2>1. faults' \in Nat
    BY <1>4, <1>7 DEF RedisFails, WorldOK, Fault
  <2>2. UNCHANGED <<tables, client, handler, process, stops>> /\ redis' \in BOOLEAN
    BY <1>7, Zenon DEF RedisFails
  <2>3. WorldOK'
    BY <1>4, <2>1, <2>2, Zenon DEF WorldOK
  <2> QED
    BY <2>2, <2>3, WorldStep
<1>8. CASE UNCHANGED vars
  BY <1>4, <1>8, WorldStep DEF vars, world, WorldOK
<1> QED
  BY <1>1, <1>2, <1>3, <1>5, <1>6, <1>7, <1>8, Zenon DEF Next, Stopping

(* The invariant holds in every state of every API: results promise what the
   tables hold, and what a submission created has one owner. *)
THEOREM Invariance == Spec => []Inv
  BY Initially, Preserved, PTL DEF Spec

(* Tables, callers, goroutines and processes stay well-formed. *)
THEOREM ApiTypes == Spec => []TypeOK
<1>1. Inv => TypeOK
  BY DEF Inv
<1> QED
  BY <1>1, Invariance, PTL

(* Two callers get the same job if and only if they asked with the same    *)
(* idempotency key for the same tenant, and at most one is told that it    *)
(* has created it: for any number of callers, retries, lost answers,       *)
(* crashes and orphaned handlers.                                          *)
THEOREM Idempotence == Spec => []OneJobPerKey
<1>1. Inv => OneJobPerKey
  <2> SUFFICES ASSUME Inv, NEW c \in Clients, NEW d \in Clients, c # d,
                      Acknowledged(c, "submit"), Acknowledged(d, "submit")
               PROVE  /\ client[c].job = client[d].job
                            <=> Key(c) # NULL /\ Key(c) = Key(d) /\ Tenant(c) = Tenant(d)
                      /\ client[c].job = client[d].job => ~(client[c].created /\ client[d].created)
    BY DEF OneJobPerKey
  <2>1. Submitted(client[c]) /\ Submitted(client[d])
    BY DEF Acknowledged, Submitted
  <2>2. /\ client[c].job \in Ids /\ jobs[client[c].job] # NULL
        /\ jobs[client[c].job].tenant = Tenant(c) /\ jobs[client[c].job].key = Key(c)
    BY <2>1, Zenon DEF Inv, Promised, Tenant, Key
  <2>3. /\ client[d].job \in Ids /\ jobs[client[d].job] # NULL
        /\ jobs[client[d].job].tenant = Tenant(d) /\ jobs[client[d].job].key = Key(d)
    BY <2>1, Zenon DEF Inv, Promised, Tenant, Key
  <2>4. Owns(client[c]) /\ Owns(client[d]) => client[c].job # client[d].job
    BY Zenon DEF Inv, Owners
  <2>5. /\ client[c].created \/ Key(c) = NULL => Owns(client[c])
        /\ client[d].created \/ Key(d) = NULL => Owns(client[d])
    BY <2>1, Zenon DEF Owns, Key
  <2>6. Key(c) # NULL /\ Key(c) = Key(d) /\ Tenant(c) = Tenant(d) => client[c].job = client[d].job
    BY <2>2, <2>3, ZenonT(60) DEF Inv, UniqueKeys
  <2> QED
    BY <2>2, <2>3, <2>4, <2>5, <2>6, Zenon
<1> QED
  BY <1>1, Invariance, PTL

(* An acknowledged job is stored for the tenant and under the key of its   *)
(* request, and one that REST says it created is as the request asked.     *)
THEOREM Storage == Spec => []StoredAsRequested
<1>1. Inv => StoredAsRequested
  <2> SUFFICES ASSUME Inv, NEW c \in Clients, Acknowledged(c, "submit")
               PROVE  /\ client[c].job \in Rows
                      /\ jobs[client[c].job].tenant = Tenant(c) /\ jobs[client[c].job].key = Key(c)
                      /\ jobs[client[c].job].tenant \in tenants
                      /\ client[c].created => AsAsked(jobs[client[c].job], client[c].request)
    BY Zenon DEF StoredAsRequested, AsAsked
  <2>1. Submitted(client[c])
    BY DEF Acknowledged, Submitted
  <2> QED
    BY <2>1, Zenon DEF Inv, Promised, Tenant, Key, Rows
<1> QED
  BY <1>1, Invariance, PTL

(* An acknowledged cancellation stands. *)
THEOREM Cancellation == Spec => []CancelStands
<1>1. Inv => CancelStands
  BY Zenon DEF Inv, CancelStands, Promised, Acknowledged
<1> QED
  BY <1>1, Invariance, PTL

(* A shutdown answers the RPCs that the process has accepted: nobody is    *)
(* sent away by GracefulStop.                                              *)
THEOREM Graceful == Spec => RpcsSurviveShutdown
<1> DEFINE Excused(c) ==
        \/ faults' # faults
        \/ LET h == client[c].by
           IN handler[h].pc = "answering" /\ Retryable(handler[h].code)
<1>1. ASSUME Inv, [Next]_vars, NEW c \in Clients,
             client[c].pc = "waiting", client[c].request.via = "grpc", client'[c].pc = "sending"
      PROVE  Excused(c)
  <2>1. client \in [Clients -> Client] /\ faults \in Nat
    BY <1>1 DEF Inv, TypeOK
  <2>2. client' # client
    BY <1>1
  <2>3. ASSUME Fault PROVE Excused(c)
    BY <2>1, <2>3 DEF Fault
  <2>4. ASSUME NEW d \in Clients, Send(d) PROVE FALSE
    <3>1. PICK h, target : client' = [client EXCEPT ![d].pc = "waiting", ![d].by = h, ![d].target = target]
      BY <2>4, ZenonT(120) DEF Send
    <3> QED
      BY <1>1, <2>1, <3>1
  <2>5. ASSUME NEW h \in Handlers, Respond(h) PROVE Excused(c)
    <3>1. WaitsFor(c, h) /\ Retryable(handler[h].code)
      <4>1. CASE ~WaitsFor(c, h)
        BY <1>1, <2>5, <4>1, Zenon DEF Respond, Delivered
      <4>2. CASE WaitsFor(c, h) /\ ~Retryable(handler[h].code)
        BY <1>1, <2>1, <2>5, <4>2, Zenon DEF Respond, Delivered, Client
      <4> QED
        BY <4>1, <4>2, Zenon
    <3> QED
      BY <2>5, <3>1 DEF Respond, WaitsFor
  <2>6. ASSUME NEW p \in Processes, GracefulStop(p) PROVE FALSE
    <3>1. handler[client[c].by].at = p
      <4>1. client'[c] = IF client[c].pc = "waiting" /\ handler[client[c].by].at = p
                         THEN [client[c] EXCEPT !.pc = "sending", !.by = NULL]
                         ELSE client[c]
        BY <2>6, Zenon DEF GracefulStop, Ended
      <4> QED
        BY <1>1, <4>1
    <3>2. /\ client[c].by \in Handlers /\ handler[client[c].by].pc # "free"
          /\ handler[client[c].by].request = client[c].request
      BY <1>1, Zenon DEF Inv, Links
    <3> QED
      BY <1>1, <2>6, <3>1, <3>2, Zenon DEF GracefulStop, Serving
  <2>7. ASSUME NEW h \in Handlers, Step(h) PROVE Respond(h)
    BY <2>2, <2>7, Zenon DEF Step, Reject, Limit, Admit, ensureTenant, Enqueue, CheckFails, Notify,
       cancelJob, requeueDLQ, Operate
  <2>8. ASSUME NEW h \in Handlers, Fails(h) PROVE FALSE
    BY <2>2, <2>8, Zenon DEF Fails
  <2>9. ASSUME NEW p \in Processes, Signal(p) \/ Shutdown(p) \/ ShutdownTimeout(p) \/ Start(p)
        PROVE  FALSE
    BY <2>2, <2>9, Zenon DEF Signal, Shutdown, ShutdownTimeout, Start
  <2>10. ASSUME NEW i \in Ids, Work(i) PROVE FALSE
    BY <2>2, <2>10, Zenon DEF Work
  <2>11. ~UNCHANGED vars
    BY <2>2 DEF vars
  <2> HIDE DEF Excused
  <2> QED
    BY <1>1, <2>3, <2>4, <2>5, <2>6, <2>7, <2>8, <2>9, <2>10, <2>11, Zenon
       DEF Next, Stopping, GiveUp, Crash, RedisFails
<1>2. Inv /\ [Next]_vars =>
        [\A c \in Clients :
            /\ client[c].pc = "waiting" /\ client[c].request.via = "grpc"
            /\ client'[c].pc = "sending"
            => Excused(c)]_vars
  BY <1>1
<1> QED
  BY <1>2, Invariance, PTL DEF Spec, RpcsSurviveShutdown
=============================================================================
