--------------------------- MODULE EventHubProofs ----------------------------
(***************************************************************************)
(* Theorems about EventHub: Publish never sends on a closed channel, a     *)
(* connected dashboard is sent every event that its channel has room for,  *)
(* and all dashboards see the events in one order.                         *)
(***************************************************************************)
EXTENDS EventHub, SequenceTheorems, TLAPS

(* Every step keeps the types. *)
LEMMA TypeOKStep ==
    ASSUME TypeOK, [Next]_vars
    PROVE  TypeOK'
<1>0. /\ wire \in Seq(Event) /\ jobs \in Nat /\ ticks \in Nat
      /\ mu \subseteq Publishers /\ clients \subseteq Clients /\ log \in Seq(Event)
      /\ sending \in [Publishers -> Event \cup {NULL}] /\ \A p \in mu : sending[p] # NULL
      /\ todo \in [Publishers -> SUBSET Clients]
      /\ chan \in [Clients -> Seq(Event)] /\ \A c \in Clients : Len(chan[c]) <= Cap
      /\ closed \in [Clients -> BOOLEAN] /\ gone \in [Clients -> BOOLEAN]
      /\ reader \in [Clients -> {"new", "serving", "returned"}]
      /\ written \in [Clients -> Seq(Event)]
      /\ dropped \in [Clients -> Nat] /\ since \in [Clients -> Nat]
  BY DEF TypeOK
<1> USE DEF vars, hubVars, feedVars, clientVars
<1>1. CASE PublishJob
  <2>1. <<"job", jobs + 1>> \in Event
    BY <1>0 DEF Event
  <2>2. wire' \in Seq(Event) /\ jobs' \in Nat
    BY <1>0, <1>1, <2>1 DEF PublishJob
  <2> QED
    BY SMTT(60), <1>0, <1>1, <2>2 DEF PublishJob, TypeOK
<1>2. CASE Lost
  <2>1. wire' \in Seq(Event)
    BY <1>0, <1>2 DEF Lost
  <2> QED
    BY <1>0, <1>2, <2>1 DEF Lost, TypeOK
<1>3. CASE Run
  <2>1. wire' \in Seq(Event) /\ Head(wire) \in Event
    BY <1>0, <1>3 DEF Run
  <2>2. sending' \in [Publishers -> Event \cup {NULL}]
    BY Zenon, <1>0, <1>3, <2>1 DEF Run
  <2> QED
    BY <1>0, <1>3, <2>1, <2>2 DEF Run, TypeOK
<1>4. CASE StartStatsTicks
  <2>1. <<"tick", ticks + 1>> \in Event
    BY <1>0 DEF Event
  <2>2. sending' \in [Publishers -> Event \cup {NULL}]
    BY Zenon, <1>0, <1>4, <2>1 DEF StartStatsTicks
  <2> QED
    BY <1>0, <1>4, <2>2 DEF StartStatsTicks, TypeOK
<1>5. ASSUME NEW p \in Publishers, Lock(p) PROVE TypeOK'
  <2>1. sending[p] \in Event
    BY <1>0, <1>5 DEF Lock
  <2>2. log' \in Seq(Event) /\ mu' \subseteq Publishers /\ todo' \in [Publishers -> SUBSET Clients]
    BY <1>0, <1>5, <2>1 DEF Lock
  <2> QED
    BY <1>0, <1>5, <2>2 DEF Lock, TypeOK
<1>6. ASSUME NEW p \in Publishers, NEW c \in Clients, Send(p, c) PROVE TypeOK'
  <2>1. sending[p] \in Event /\ chan[c] \in Seq(Event) /\ Len(chan[c]) <= Cap
    BY <1>0, <1>6 DEF Send
  <2>2. todo' \in [Publishers -> SUBSET Clients]
    BY <1>0, <1>6 DEF Send
  <2>3. UNCHANGED <<wire, jobs, ticks, mu, clients, sending, log, closed, gone, reader, written, since>>
    BY <1>6 DEF Send
  <2>4. CASE HasRoom(c) /\ chan' = [chan EXCEPT ![c] = Append(chan[c], sending[p])] /\ UNCHANGED dropped
    <3>1. Append(chan[c], sending[p]) \in Seq(Event) /\ Len(Append(chan[c], sending[p])) = Len(chan[c]) + 1
      BY <2>1
    <3>2. Len(Append(chan[c], sending[p])) <= Cap
      BY <2>1, <2>4, <3>1, HubAssumption DEF HasRoom
    <3> QED
      BY Zenon, <1>0, <2>2, <2>3, <2>4, <3>1, <3>2 DEF TypeOK
  <2>5. CASE dropped' = [dropped EXCEPT ![c] = dropped[c] + 1] /\ UNCHANGED chan
    <3>1. dropped[c] + 1 \in Nat
      BY <1>0
    <3> QED
      BY Zenon, <1>0, <2>2, <2>3, <2>5, <3>1 DEF TypeOK
  <2> QED
    BY <1>6, <2>4, <2>5 DEF Send
<1>7. ASSUME NEW p \in Publishers, Unlock(p) PROVE TypeOK'
  BY <1>0, <1>7 DEF Unlock, TypeOK
<1>8. ASSUME NEW c \in Clients, Subscribe(c) PROVE TypeOK'
  <2>1. Len(log) \in Nat
    BY <1>0
  <2> QED
    BY Zenon, <1>0, <1>8, <2>1 DEF Subscribe, TypeOK
<1>9. ASSUME NEW c \in Clients, Disconnect(c) \/ Delete(c) \/ Close(c) \/ Return(c) PROVE TypeOK'
  <2>1. CASE Disconnect(c)
    BY Zenon, <1>0, <2>1 DEF Disconnect, TypeOK
  <2>2. CASE Delete(c)
    BY Zenon, <1>0, <2>2 DEF Delete, TypeOK
  <2>3. CASE Close(c)
    BY Zenon, <1>0, <2>3 DEF Close, TypeOK
  <2>4. CASE Return(c)
    BY <1>0, <2>4 DEF Return, TypeOK
  <2> QED
    BY <1>9, <2>1, <2>2, <2>3, <2>4
<1>10. ASSUME NEW c \in Clients, Receive(c) PROVE TypeOK'
  <2>1. chan[c] \in Seq(Event) /\ chan[c] # <<>> /\ written[c] \in Seq(Event) /\ Len(chan[c]) <= Cap
    BY <1>0, <1>10 DEF Receive
  <2>2. /\ Tail(chan[c]) \in Seq(Event) /\ Len(Tail(chan[c])) = Len(chan[c]) - 1
        /\ Append(written[c], Head(chan[c])) \in Seq(Event)
    BY <2>1
  <2>3. Len(Tail(chan[c])) <= Cap
    BY <2>1, <2>2, HubAssumption
  <2>4. /\ written' = [written EXCEPT ![c] = Append(written[c], Head(chan[c]))]
        /\ chan' = [chan EXCEPT ![c] = Tail(chan[c])]
        /\ UNCHANGED <<wire, jobs, ticks, mu, clients, sending, todo, log, closed, gone, reader, dropped, since>>
    BY <1>10 DEF Receive
  <2> QED
    BY Zenon, <1>0, <2>2, <2>3, <2>4 DEF TypeOK
<1>11. CASE UNCHANGED vars
  BY <1>0, <1>11 DEF TypeOK
<1> QED
  BY Zenon, <1>1, <1>2, <1>3, <1>4, <1>5, <1>6, <1>7, <1>8, <1>9, <1>10, <1>11 DEF Next, Publish

(* The hub starts with the right types. *)
LEMMA TypeOKInit == Init => TypeOK
  BY HubAssumption DEF Init, TypeOK, Event

-----------------------------------------------------------------------------
(* Closed channels, and the clients of the loop of Publish. *)

(* The mutex has one holder; its loop visits clients; a channel is closed  *)
(* after it has been deleted, and is not added again.                      *)
HubInv ==
    /\ \A p, q \in mu : p = q
    /\ \A p \in mu : todo[p] \subseteq clients
    /\ \A c \in Clients : closed[c] => gone[c] /\ c \notin clients
    /\ \A c \in Clients : gone[c] \/ c \in clients => reader[c] # "new"

(* Every step keeps HubInv. *)
LEMMA HubInvStep ==
    ASSUME TypeOK, HubInv, [Next]_vars
    PROVE  HubInv'
<1>0. /\ mu \subseteq Publishers /\ clients \subseteq Clients
      /\ todo \in [Publishers -> SUBSET Clients]
      /\ closed \in [Clients -> BOOLEAN] /\ gone \in [Clients -> BOOLEAN]
      /\ reader \in [Clients -> {"new", "serving", "returned"}]
  BY DEF TypeOK
<1> USE DEF vars, hubVars, feedVars, clientVars
<1>1. CASE PublishJob \/ Lost \/ Run \/ StartStatsTicks
  <2>1. UNCHANGED <<mu, clients, todo, closed, gone, reader>>
    BY <1>1 DEF PublishJob, Lost, Run, StartStatsTicks
  <2> QED
    BY <2>1 DEF HubInv
<1>2. ASSUME NEW p \in Publishers, Lock(p) PROVE HubInv'
  BY <1>0, <1>2 DEF Lock, HubInv
<1>3. ASSUME NEW p \in Publishers, NEW c \in Clients, Send(p, c) PROVE HubInv'
  <2>1. /\ todo' = [todo EXCEPT ![p] = todo[p] \ {c}]
        /\ UNCHANGED <<mu, clients, closed, gone, reader>>
    BY <1>3 DEF Send
  <2>2. \A q \in mu : todo'[q] \subseteq clients
    BY <1>0, <2>1 DEF HubInv
  <2> QED
    BY <2>1, <2>2 DEF HubInv
<1>4. ASSUME NEW p \in Publishers, Unlock(p) PROVE HubInv'
  BY <1>4 DEF Unlock, HubInv
<1>5. ASSUME NEW c \in Clients, Subscribe(c) PROVE HubInv'
  BY <1>0, <1>5 DEF Subscribe, HubInv
<1>6. ASSUME NEW c \in Clients, Disconnect(c) PROVE HubInv'
  BY <1>0, <1>6 DEF Disconnect, HubInv
<1>7. ASSUME NEW c \in Clients, Delete(c) PROVE HubInv'
  BY <1>0, <1>7 DEF Delete, HubInv
<1>8. ASSUME NEW c \in Clients, Close(c) PROVE HubInv'
  BY <1>0, <1>8 DEF Close, HubInv
<1>9. ASSUME NEW c \in Clients, Receive(c) \/ Return(c) PROVE HubInv'
  <2>1. CASE Receive(c)
    BY <2>1 DEF Receive, HubInv
  <2>2. CASE Return(c)
    BY <1>0, <2>2 DEF Return, HubInv
  <2> QED
    BY <1>9, <2>1, <2>2
<1>10. CASE UNCHANGED vars
  BY Zenon, <1>10 DEF HubInv
<1> QED
  BY <1>1, <1>2, <1>3, <1>4, <1>5, <1>6, <1>7, <1>8, <1>9, <1>10 DEF Next, Publish

(* HubInv holds before anyone has subscribed. *)
LEMMA HubInvInit == Init => HubInv
  BY DEF Init, HubInv

(* Publish never sends on a closed channel, for any number of dashboards   *)
(* that connect and disconnect at any time.                                *)
THEOREM ClosedChannels == Spec => []TypeOK /\ []NoSendOnClosed
<1>1. Init => TypeOK /\ HubInv
  BY TypeOKInit, HubInvInit
<1>2. TypeOK /\ HubInv /\ [Next]_vars => TypeOK' /\ HubInv'
  BY TypeOKStep, HubInvStep
<1>3. TypeOK /\ HubInv => NoSendOnClosed
  BY Zenon DEF HubInv, NoSendOnClosed
<1> QED
  BY <1>1, <1>2, <1>3, PTL DEF Spec

(* The hub and its clients stay well-formed: in particular no channel ever *)
(* holds more events than its buffer, however slowly it is drained.        *)
THEOREM HubTypes == Spec => []TypeOK
  BY ClosedChannels, PTL

-----------------------------------------------------------------------------
(* Nothing is missed. *)

(* What has been published since before the client subscribed, as far as   *)
(* the client knows.                                                       *)
Counted(c) == Len(written[c]) + Len(chan[c]) + dropped[c] + since[c]

(* A connected client lacks the last event until the loop has reached it.  *)
Tally ==
    \A c \in clients :
        /\ mu = {} => Counted(c) = Len(log)
        /\ \A p \in mu : Counted(c) = IF c \in todo[p] THEN Len(log) - 1 ELSE Len(log)

(* A client that has not subscribed has been sent nothing. *)
Fresh ==
    \A c \in Clients : reader[c] = "new" =>
        chan[c] = <<>> /\ written[c] = <<>> /\ dropped[c] = 0

(* No step sends anything to a client that has not subscribed. *)
LEMMA FreshStep ==
    ASSUME TypeOK, HubInv, Fresh, [Next]_vars
    PROVE  Fresh'
<1>0. /\ clients \subseteq Clients /\ chan \in [Clients -> Seq(Event)]
      /\ reader \in [Clients -> {"new", "serving", "returned"}]
      /\ written \in [Clients -> Seq(Event)] /\ dropped \in [Clients -> Nat]
  BY DEF TypeOK
<1> USE DEF vars, hubVars, feedVars, clientVars
<1>1. ASSUME NEW p \in Publishers, NEW c \in Clients, Send(p, c) PROVE Fresh'
  <2>1. c \in clients /\ reader[c] # "new"
    BY <1>1 DEF Send, HubInv
  <2>2. UNCHANGED <<reader, written>> /\ \A d \in Clients : d # c => chan'[d] = chan[d] /\ dropped'[d] = dropped[d]
    BY <1>0, <1>1 DEF Send
  <2> QED
    BY <2>1, <2>2 DEF Fresh
<1>2. ASSUME NEW c \in Clients, Receive(c) PROVE Fresh'
  <2>1. reader[c] # "new" /\ UNCHANGED <<reader, dropped>>
    BY Zenon, <1>2 DEF Receive
  <2>2. \A d \in Clients : d # c => chan'[d] = chan[d] /\ written'[d] = written[d]
    BY <1>0, <1>2 DEF Receive
  <2> QED
    BY <2>1, <2>2 DEF Fresh
<1>3. ASSUME NEW c \in Clients, Subscribe(c) \/ Return(c) PROVE Fresh'
  <2>1. UNCHANGED <<chan, written, dropped>> /\ \A d \in Clients : reader'[d] = "new" => reader[d] = "new"
    BY <1>0, <1>3 DEF Subscribe, Return
  <2> QED
    BY <2>1 DEF Fresh
<1>4. ASSUME UNCHANGED <<chan, written, dropped, reader>> PROVE Fresh'
  BY <1>4 DEF Fresh
<1>5. PublishJob \/ Lost \/ Run \/ StartStatsTicks => Fresh'
  BY <1>4 DEF PublishJob, Lost, Run, StartStatsTicks
<1>6. ASSUME NEW p \in Publishers, Lock(p) \/ Unlock(p) PROVE Fresh'
  BY <1>4, <1>6 DEF Lock, Unlock
<1>7. ASSUME NEW c \in Clients, Disconnect(c) \/ Delete(c) \/ Close(c) PROVE Fresh'
  BY <1>4, <1>7 DEF Disconnect, Delete, Close
<1> QED
  BY <1>1, <1>2, <1>3, <1>4, <1>5, <1>6, <1>7 DEF Next, Publish

(* Every step keeps the tally: Lock, Send and Subscribe are the ones that count. *)
LEMMA TallyStep ==
    ASSUME TypeOK, HubInv, Fresh, Tally, [Next]_vars
    PROVE  Tally'
<1>0. /\ mu \subseteq Publishers /\ clients \subseteq Clients /\ log \in Seq(Event)
      /\ todo \in [Publishers -> SUBSET Clients] /\ chan \in [Clients -> Seq(Event)]
      /\ written \in [Clients -> Seq(Event)] /\ dropped \in [Clients -> Nat] /\ since \in [Clients -> Nat]
      /\ sending \in [Publishers -> Event \cup {NULL}] /\ \A p \in mu : sending[p] # NULL
  BY DEF TypeOK
<1> USE DEF vars, hubVars, feedVars, clientVars
<1>1. ASSUME UNCHANGED <<mu, todo, log>>, clients' \subseteq clients, \A c \in clients' : UNCHANGED Counted(c)
      PROVE  Tally'
  BY <1>1 DEF Tally
<1>2. PublishJob \/ Lost \/ Run \/ StartStatsTicks \/ UNCHANGED vars => Tally'
  <2> SUFFICES ASSUME PublishJob \/ Lost \/ Run \/ StartStatsTicks \/ UNCHANGED vars PROVE Tally'
    OBVIOUS
  <2>1. UNCHANGED <<mu, clients, todo, log, chan, written, dropped, since>>
    BY DEF PublishJob, Lost, Run, StartStatsTicks
  <2> QED
    BY <1>1, <2>1 DEF Counted
<1>3. ASSUME NEW c \in Clients, Disconnect(c) \/ Delete(c) \/ Close(c) \/ Return(c) PROVE Tally'
  <2>1. UNCHANGED <<mu, todo, log, chan, written, dropped, since>> /\ clients' \subseteq clients
    BY <1>3 DEF Disconnect, Delete, Close, Return
  <2> QED
    BY Zenon, <1>1, <2>1 DEF Counted
<1>4. ASSUME NEW p \in Publishers, Lock(p) PROVE Tally'
  <2>1. sending[p] \in Event
    BY <1>0, <1>4 DEF Lock
  <2>2. mu = {} /\ mu' = {p} /\ todo'[p] = clients /\ UNCHANGED <<clients, chan, written, dropped, since>>
    BY <1>0, <1>4 DEF Lock
  <2>3. Len(log') = Len(log) + 1 /\ Len(log) \in Nat
    BY <1>0, <1>4, <2>1 DEF Lock
  <2>4. \A c \in clients : UNCHANGED Counted(c)
    BY <2>2 DEF Counted
  <2> QED
    BY SMTT(60), <2>2, <2>3, <2>4 DEF Tally
<1>5. ASSUME NEW p \in Publishers, Unlock(p) PROVE Tally'
  <2>1. p \in mu /\ todo[p] = {} /\ mu' = {} /\ UNCHANGED <<clients, todo, log, chan, written, dropped, since>>
    BY <1>5 DEF Unlock, HubInv
  <2>2. \A c \in clients : UNCHANGED Counted(c)
    BY <2>1 DEF Counted
  <2> QED
    BY <2>1, <2>2 DEF Tally
<1>6. ASSUME NEW p \in Publishers, NEW c \in Clients, Send(p, c) PROVE Tally'
  <2>1. /\ p \in mu /\ mu = {p} /\ c \in todo[p] /\ c \in clients
        /\ todo'[p] = todo[p] \ {c} /\ UNCHANGED <<mu, clients, log, written, since>>
    BY SMTT(60), <1>0, <1>6 DEF Send, HubInv
  <2>2. /\ chan[c] \in Seq(Event) /\ sending[p] \in Event /\ dropped[c] \in Nat
        /\ Len(chan[c]) \in Nat /\ Len(written[c]) \in Nat /\ since[c] \in Nat /\ Len(log) \in Nat
    BY <1>0, <2>1
  <2>3. Counted(c)' = Counted(c) + 1
    <3>0. /\ Counted(c)' = Len(written[c]) + Len(chan'[c]) + dropped'[c] + since[c]
          /\ Counted(c) = Len(written[c]) + Len(chan[c]) + dropped[c] + since[c]
      BY <2>1 DEF Counted
    <3>a. PICK a, b, d, e \in Nat : a = Len(written[c]) /\ b = Len(chan[c]) /\ d = dropped[c] /\ e = since[c]
      BY Zenon, <2>2
    <3>1. CASE chan' = [chan EXCEPT ![c] = Append(chan[c], sending[p])] /\ UNCHANGED dropped
      <4>1. Len(chan'[c]) = Len(chan[c]) + 1 /\ dropped'[c] = dropped[c]
        BY <1>0, <2>2, <3>1
      <4>2. Counted(c)' = a + (b + 1) + d + e /\ Counted(c) = a + b + d + e
        BY <3>0, <3>a, <4>1, Zenon
      <4> QED
        BY <4>2
    <3>2. CASE dropped' = [dropped EXCEPT ![c] = dropped[c] + 1] /\ UNCHANGED chan
      <4>1. dropped'[c] = dropped[c] + 1 /\ Len(chan'[c]) = Len(chan[c])
        BY <1>0, <3>2
      <4>2. Counted(c)' = a + b + (d + 1) + e /\ Counted(c) = a + b + d + e
        BY <3>0, <3>a, <4>1, Zenon
      <4> QED
        BY <4>2
    <3> QED
      BY <1>6, <3>1, <3>2 DEF Send
  <2>4. \A d \in clients : d # c => UNCHANGED Counted(d)
    <3>1. \A d \in Clients : d # c => chan'[d] = chan[d] /\ dropped'[d] = dropped[d]
      BY Zenon, <1>0, <1>6 DEF Send
    <3> QED
      BY Zenon, <1>0, <2>1, <3>1 DEF Counted
  <2>5. Counted(c) = Len(log) - 1
    BY <2>1 DEF Tally
  <2>6. Counted(c)' = Len(log)
    BY <2>2, <2>3, <2>5
  <2> QED
    BY <2>1, <2>4, <2>6 DEF Tally
<1>7. ASSUME NEW c \in Clients, Subscribe(c) PROVE Tally'
  <2>1. /\ mu = {} /\ mu' = {} /\ clients' = clients \cup {c} /\ since' = [since EXCEPT ![c] = Len(log)]
        /\ reader[c] = "new" /\ UNCHANGED <<log, chan, written, dropped>>
    BY <1>7 DEF Subscribe
  <2>2. c \notin clients
    BY <2>1 DEF HubInv
  <2>3. \A d \in clients : UNCHANGED Counted(d)
    BY Zenon, <1>0, <2>1, <2>2 DEF Counted
  <2>4. Counted(c)' = Len(log)
    <3>1. chan'[c] = <<>> /\ written'[c] = <<>> /\ dropped'[c] = 0 /\ since'[c] = Len(log)
      BY <1>0, <2>1 DEF Fresh
    <3>2. Len(<<>>) = 0 /\ Len(log) \in Nat
      BY <1>0
    <3> QED
      BY SMTT(60), <3>1, <3>2 DEF Counted
  <2> QED
    BY <2>1, <2>3, <2>4 DEF Tally
<1>8. ASSUME NEW c \in Clients, Receive(c) PROVE Tally'
  <2>1. UNCHANGED <<mu, clients, todo, log, dropped, since>>
    BY <1>8 DEF Receive
  <2>2. chan[c] \in Seq(Event) /\ chan[c] # <<>> /\ written[c] \in Seq(Event)
    BY <1>0, <1>8 DEF Receive
  <2>3. /\ Len(Tail(chan[c])) = Len(chan[c]) - 1 /\ Len(chan[c]) \in Nat /\ Len(written[c]) \in Nat
        /\ Len(Append(written[c], Head(chan[c]))) = Len(written[c]) + 1
    BY <2>2
  <2>4. /\ chan'[c] = Tail(chan[c]) /\ written'[c] = Append(written[c], Head(chan[c]))
        /\ \A d \in Clients : d # c => chan'[d] = chan[d] /\ written'[d] = written[d]
    BY <1>0, <1>8 DEF Receive
  <2>5. UNCHANGED Counted(c)
    <3>1. dropped[c] \in Nat /\ since[c] \in Nat
      BY <1>0
    <3>2. /\ Counted(c)' = Len(written'[c]) + Len(chan'[c]) + dropped[c] + since[c]
          /\ Counted(c) = Len(written[c]) + Len(chan[c]) + dropped[c] + since[c]
      BY <2>1 DEF Counted
    <3>3. Len(written'[c]) = Len(written[c]) + 1 /\ Len(chan'[c]) = Len(chan[c]) - 1
      BY <2>3, <2>4
    <3>4. PICK a, b, d, e \in Nat : a = Len(written[c]) /\ b = Len(chan[c]) /\ d = dropped[c] /\ e = since[c]
      BY Zenon, <2>3, <3>1
    <3>5. Counted(c)' = (a + 1) + (b - 1) + d + e /\ Counted(c) = a + b + d + e
      BY <3>2, <3>3, <3>4, Zenon
    <3> QED
      BY <3>5
  <2>6. \A d \in clients : d # c => UNCHANGED Counted(d)
    BY Zenon, <1>0, <2>1, <2>4 DEF Counted
  <2> QED
    BY <1>1, <2>1, <2>5, <2>6
<1> QED
  BY <1>2, <1>3, <1>4, <1>5, <1>6, <1>7, <1>8 DEF Next, Publish

(* Between two calls of Publish, a connected dashboard has been sent every *)
(* event since it subscribed except those that found its channel full, for *)
(* any number of dashboards and any capacity.                              *)
THEOREM Completeness == Spec => []NothingMissed
<1>1. Init => TypeOK /\ HubInv /\ Fresh /\ Tally
  <2>1. Init => Fresh /\ Tally
    BY DEF Init, Fresh, Tally
  <2> QED
    BY <2>1, TypeOKInit, HubInvInit
<1>2. TypeOK /\ HubInv /\ Fresh /\ Tally /\ [Next]_vars => TypeOK' /\ HubInv' /\ Fresh' /\ Tally'
  BY TypeOKStep, HubInvStep, FreshStep, TallyStep
<1>3. TypeOK /\ Tally => NothingMissed
  <2> SUFFICES ASSUME TypeOK, Tally, mu = {}, NEW c \in clients
               PROVE  Len(History(c)) + dropped[c] = Len(log) - since[c]
    BY DEF NothingMissed
  <2>1. /\ written[c] \in Seq(Event) /\ chan[c] \in Seq(Event) /\ dropped[c] \in Nat /\ since[c] \in Nat
        /\ log \in Seq(Event)
    BY DEF TypeOK
  <2>2. Len(History(c)) = Len(written[c]) + Len(chan[c])
    BY <2>1 DEF History
  <2>3. Len(written[c]) + Len(chan[c]) + dropped[c] + since[c] = Len(log)
    BY Zenon DEF Tally, Counted
  <2>4. Len(written[c]) \in Nat /\ Len(chan[c]) \in Nat /\ Len(log) \in Nat
    BY <2>1
  <2>5. PICK a, b, d, e \in Nat : a = Len(written[c]) /\ b = Len(chan[c]) /\ d = dropped[c] /\ e = since[c]
    BY Zenon, <2>1, <2>4
  <2>6. Len(History(c)) + dropped[c] = (a + b) + d /\ Len(log) - since[c] = (a + b + d + e) - e
    BY <2>2, <2>3, <2>5, Zenon
  <2> QED
    BY <2>6
<1> QED
  BY <1>1, <1>2, <1>3, PTL DEF Spec

-----------------------------------------------------------------------------
(* One order for all. *)

(* The events of a kind in the log come before number n. *)
LoggedBefore(kind, n) == \A i \in DOMAIN log : log[i][1] = kind => log[i][2] < n

(* Job events are numbered in the order of the wire, and one that Run has  *)
(* taken from it precedes the rest.                                        *)
JobsOrdered ==
    /\ \A i \in DOMAIN wire : wire[i][1] = "job" /\ wire[i][2] <= jobs
    /\ \A i, k \in DOMAIN wire : i < k => wire[i][2] < wire[k][2]
    /\ LoggedBefore("job", jobs + 1)
    /\ \A i \in DOMAIN wire : LoggedBefore("job", wire[i][2])
    /\ sending["run"] # NULL =>
          /\ sending["run"][1] = "job" /\ sending["run"][2] <= jobs
          /\ \A i \in DOMAIN wire : sending["run"][2] < wire[i][2]
          /\ "run" \notin mu => LoggedBefore("job", sending["run"][2])

TicksOrdered ==
    /\ LoggedBefore("tick", ticks + 1)
    /\ sending["stats"] # NULL =>
          /\ sending["stats"] = <<"tick", ticks>>
          /\ "stats" \notin mu => LoggedBefore("tick", ticks)

(* The log has no event twice, and its last one is being published while   *)
(* the mutex is held.                                                      *)
LogOK ==
    /\ \A i, k \in DOMAIN log : log[i] = log[k] => i = k
    /\ \A p \in mu : Len(log) \in DOMAIN log /\ log[Len(log)] = sending[p]

Feed == JobsOrdered /\ TicksOrdered /\ LogOK

(* An event that waits for the mutex is not in the log. *)
LEMMA NotLogged ==
    ASSUME TypeOK, Feed, NEW p \in Publishers, sending[p] # NULL, p \notin mu
    PROVE  \A i \in DOMAIN log : log[i] # sending[p]
<1>1. /\ log \in Seq(Event) /\ jobs \in Nat /\ ticks \in Nat /\ sending[p] \in Event
  BY DEF TypeOK
<1>2. CASE p = "run"
  <2>1. sending[p][1] = "job" /\ sending[p][2] \in Nat /\ LoggedBefore("job", sending[p][2])
    BY <1>1, <1>2 DEF Feed, JobsOrdered, Event
  <2> QED
    BY <2>1 DEF LoggedBefore
<1>3. CASE p = "stats"
  <2>1. sending[p] = <<"tick", ticks>> /\ LoggedBefore("tick", ticks)
    BY <1>3 DEF Feed, TicksOrdered
  <2> QED
    BY <1>1, <2>1 DEF LoggedBefore
<1> QED
  BY <1>2, <1>3 DEF Publishers

(* The steps of the feed keep the numbering. *)
LEMMA FeedStep ==
    ASSUME TypeOK, TypeOK', HubInv, Feed, [Next]_vars
    PROVE  Feed'
<1>0. /\ wire \in Seq(Event) /\ log \in Seq(Event) /\ jobs \in Nat /\ ticks \in Nat
      /\ mu \subseteq Publishers /\ sending \in [Publishers -> Event \cup {NULL}]
      /\ \A i \in DOMAIN wire : wire[i] \in Event
      /\ \A i \in DOMAIN log : log[i] \in Event
  BY DEF TypeOK
<1>p. "run" \in Publishers /\ "stats" \in Publishers /\ \A p \in Publishers : p = "run" \/ p = "stats"
  BY DEF Publishers
<1>n. \A e \in Event : e[2] \in Nat /\ e # NULL
  BY HubAssumption DEF Event
<1> USE DEF vars, hubVars, feedVars, clientVars
<1>1. ASSUME UNCHANGED <<wire, jobs, ticks, sending, mu, log>> PROVE Feed'
  BY Zenon, <1>1 DEF Feed, JobsOrdered, TicksOrdered, LogOK, LoggedBefore
<1>2. CASE PublishJob
  <2>1. /\ jobs' = jobs + 1 /\ wire' = Append(wire, <<"job", jobs + 1>>)
        /\ UNCHANGED <<ticks, sending, mu, log>>
    BY <1>2 DEF PublishJob
  <2>2. /\ DOMAIN wire = 1 .. Len(wire) /\ Len(wire) \in Nat /\ DOMAIN wire' = 1 .. Len(wire) + 1
        /\ \A i \in DOMAIN wire : wire'[i] = wire[i]
        /\ wire'[Len(wire) + 1] = <<"job", jobs + 1>>
    BY <1>0, <2>1
  <2>3. \A i \in DOMAIN wire' : wire'[i][1] = "job" /\ wire'[i][2] <= jobs + 1
    <3>1. \A i \in DOMAIN wire : wire[i][1] = "job" /\ wire[i][2] <= jobs /\ wire[i][2] \in Nat
      BY Zenon, <1>0, <1>n DEF Feed, JobsOrdered
    <3>2. \A n \in Nat : n <= jobs => n <= jobs + 1
      BY <1>0
    <3>3. \A i \in DOMAIN wire : wire'[i][1] = "job" /\ wire'[i][2] <= jobs + 1
      BY Zenon, <2>2, <3>1, <3>2
    <3>4. \A i \in DOMAIN wire' : i \in DOMAIN wire \/ i = Len(wire) + 1
      BY <2>2
    <3>5. wire'[Len(wire) + 1][1] = "job" /\ wire'[Len(wire) + 1][2] <= jobs + 1
      BY <1>0, <2>2
    <3> QED
      BY Zenon, <3>3, <3>4, <3>5
  <2>4. \A i, k \in DOMAIN wire' : i < k => wire'[i][2] < wire'[k][2]
    <3> SUFFICES ASSUME NEW i \in DOMAIN wire', NEW k \in DOMAIN wire', i < k
                 PROVE  wire'[i][2] < wire'[k][2]
      BY SMTT(60)
    <3>1. i \in DOMAIN wire
      BY SMTT(60), <2>2
    <3>2. CASE k \in DOMAIN wire
      BY <2>2, <3>1, <3>2 DEF Feed, JobsOrdered
    <3>3. CASE k = Len(wire) + 1
      <4>1. wire[i][2] <= jobs /\ wire[i][2] \in Nat
        BY <1>0, <1>n, <3>1 DEF Feed, JobsOrdered
      <4> QED
        BY <1>0, <2>2, <3>1, <3>3, <4>1
    <3> QED
      BY <2>2, <3>2, <3>3
  <2>5. LoggedBefore("job", jobs + 1)
    BY DEF Feed, JobsOrdered
  <2>6. LoggedBefore("job", jobs + 1)'
    <3>1. \A i \in DOMAIN log : log[i][2] \in Nat /\ (log[i][1] = "job" => log[i][2] < jobs + 1)
      BY Zenon, <1>0, <1>n, <2>5 DEF LoggedBefore
    <3>2. \A n \in Nat : n < jobs + 1 => n < jobs + 1 + 1
      BY <1>0
    <3>3. \A i \in DOMAIN log : log[i][1] = "job" => log[i][2] < jobs + 1 + 1
      BY Zenon, <3>1, <3>2
    <3> QED
      BY Zenon, <2>1, <3>3 DEF LoggedBefore
  <2>7. \A i \in DOMAIN wire' : LoggedBefore("job", wire'[i][2])
    <3> SUFFICES ASSUME NEW i \in DOMAIN wire' PROVE LoggedBefore("job", wire'[i][2])
      OBVIOUS
    <3>1. CASE i \in DOMAIN wire
      <4>1. LoggedBefore("job", wire[i][2])
        BY Zenon, <3>1 DEF Feed, JobsOrdered
      <4> QED
        BY Zenon, <2>2, <3>1, <4>1
    <3>2. CASE i = Len(wire) + 1
      <4>1. wire'[i][2] = jobs + 1
        BY <2>2, <3>2
      <4> QED
        BY Zenon, <2>5, <4>1
    <3> QED
      BY <2>2, <3>1, <3>2
  <2>8. sending["run"] # NULL =>
          /\ sending["run"][1] = "job" /\ sending["run"][2] <= jobs + 1
          /\ \A i \in DOMAIN wire' : sending["run"][2] < wire'[i][2]
          /\ "run" \notin mu => LoggedBefore("job", sending["run"][2])
    <3> SUFFICES ASSUME sending["run"] # NULL
                 PROVE  /\ sending["run"][1] = "job" /\ sending["run"][2] <= jobs + 1
                        /\ \A i \in DOMAIN wire' : sending["run"][2] < wire'[i][2]
                        /\ "run" \notin mu => LoggedBefore("job", sending["run"][2])
      OBVIOUS
    <3>1. sending["run"][2] \in Nat
      BY Zenon, <1>0, <1>p, <1>n
    <3>2. /\ sending["run"][1] = "job" /\ sending["run"][2] <= jobs
          /\ \A i \in DOMAIN wire : sending["run"][2] < wire[i][2]
          /\ "run" \notin mu => LoggedBefore("job", sending["run"][2])
      BY Zenon DEF Feed, JobsOrdered
    <3>3. sending["run"][2] <= jobs + 1 /\ sending["run"][2] < jobs + 1
      BY <1>0, <3>1, <3>2
    <3>4. wire'[Len(wire) + 1][2] = jobs + 1
      BY <2>2
    <3>5. \A i \in DOMAIN wire' : i \in DOMAIN wire \/ i = Len(wire) + 1
      BY <2>2
    <3>6. \A i \in DOMAIN wire' : sending["run"][2] < wire'[i][2]
      BY Zenon, <2>2, <3>2, <3>3, <3>4, <3>5
    <3> QED
      BY Zenon, <3>2, <3>3, <3>6
  <2>9. JobsOrdered'
    BY <2>1, <2>3, <2>4, <2>6, <2>7, <2>8 DEF JobsOrdered, LoggedBefore
  <2> QED
    BY <2>1, <2>9 DEF Feed, TicksOrdered, LogOK, LoggedBefore
<1>3. ASSUME wire # <<>>, wire' = Tail(wire), UNCHANGED <<jobs, ticks, log, mu>>
      PROVE  /\ \A i \in DOMAIN wire' : wire'[i][1] = "job" /\ wire'[i][2] <= jobs
             /\ \A i, k \in DOMAIN wire' : i < k => wire'[i][2] < wire'[k][2]
             /\ \A i \in DOMAIN wire' : LoggedBefore("job", wire'[i][2])
             /\ \A i \in DOMAIN wire' : Head(wire)[2] < wire'[i][2]
             /\ \A i \in DOMAIN wire' : \E k \in DOMAIN wire : wire'[i] = wire[k]
             /\ Head(wire) = wire[1] /\ 1 \in DOMAIN wire
  <2>1. /\ DOMAIN wire = 1 .. Len(wire) /\ Len(wire) \in Nat \ {0} /\ DOMAIN wire' = 1 .. Len(wire) - 1
        /\ \A i \in DOMAIN wire' : wire'[i] = wire[i + 1]
        /\ Head(wire) = wire[1]
    BY <1>0, <1>3
  <2>2. \A i \in DOMAIN wire' : i + 1 \in DOMAIN wire /\ 1 < i + 1
    BY <2>1
  <2>3. \A i, k \in DOMAIN wire' : i < k => i + 1 < k + 1
    BY <2>1
  <2>4. 1 \in DOMAIN wire
    BY <2>1
  <2>5. /\ \A i \in DOMAIN wire : wire[i][1] = "job" /\ wire[i][2] <= jobs
        /\ \A i, k \in DOMAIN wire : i < k => wire[i][2] < wire[k][2]
        /\ \A i \in DOMAIN wire : LoggedBefore("job", wire[i][2])
    BY Zenon DEF Feed, JobsOrdered
  <2>6. \A i \in DOMAIN wire' : wire'[i][1] = "job" /\ wire'[i][2] <= jobs
    <3> SUFFICES ASSUME NEW i \in DOMAIN wire' PROVE wire'[i][1] = "job" /\ wire'[i][2] <= jobs
      BY Zenon
    <3>1. wire'[i] = wire[i + 1] /\ i + 1 \in DOMAIN wire
      BY Zenon, <2>1, <2>2
    <3>2. wire[i + 1][1] = "job" /\ wire[i + 1][2] <= jobs
      BY Zenon, <2>5, <3>1
    <3> QED
      BY Zenon, <3>1, <3>2
  <2>7. \A i, k \in DOMAIN wire' : i < k => wire'[i][2] < wire'[k][2]
    BY Zenon, <2>1, <2>2, <2>3, <2>5
  <2>8. \A i \in DOMAIN wire' : LoggedBefore("job", wire'[i][2])
    BY Zenon, <2>1, <2>2, <2>5
  <2>9. \A i \in DOMAIN wire' : Head(wire)[2] < wire'[i][2]
    BY Zenon, <2>1, <2>2, <2>4, <2>5
  <2> QED
    BY Zenon, <2>1, <2>2, <2>4, <2>6, <2>7, <2>8, <2>9
<1>4. CASE Lost
  <2>1. wire # <<>> /\ wire' = Tail(wire) /\ UNCHANGED <<jobs, ticks, sending, mu, log>>
    BY <1>4 DEF Lost
  <2>2. JobsOrdered'
    BY Zenon, <1>3, <2>1 DEF Feed, JobsOrdered, LoggedBefore
  <2> QED
    BY <2>1, <2>2 DEF Feed, TicksOrdered, LogOK, LoggedBefore
<1>5. CASE Run
  <2>1. /\ wire # <<>> /\ wire' = Tail(wire) /\ UNCHANGED <<jobs, ticks, mu, log>>
        /\ sending["run"] = NULL /\ sending'["run"] = Head(wire) /\ sending'["stats"] = sending["stats"]
    BY <1>0, <1>5, <1>p DEF Run
  <2>2. "run" \notin mu
    BY <2>1 DEF TypeOK
  <2>3. JobsOrdered'
    <3>1. /\ \A i \in DOMAIN wire' : wire'[i][1] = "job" /\ wire'[i][2] <= jobs'
          /\ \A i, k \in DOMAIN wire' : i < k => wire'[i][2] < wire'[k][2]
          /\ \A i \in DOMAIN wire' : sending'["run"][2] < wire'[i][2]
      BY Zenon, <1>3, <2>1
    <3>2. sending'["run"][1] = "job" /\ sending'["run"][2] <= jobs' /\ LoggedBefore("job", sending'["run"][2])
      <4>1. sending'["run"] = wire[1] /\ 1 \in DOMAIN wire /\ jobs' = jobs
        BY Zenon, <1>3, <2>1
      <4>2. wire[1][1] = "job" /\ wire[1][2] <= jobs /\ LoggedBefore("job", wire[1][2])
        BY Zenon, <4>1 DEF Feed, JobsOrdered
      <4> QED
        BY Zenon, <4>1, <4>2
    <3>3. LoggedBefore("job", jobs + 1) /\ \A i \in DOMAIN wire' : LoggedBefore("job", wire'[i][2])
      BY Zenon, <1>3, <2>1 DEF Feed, JobsOrdered
    <3>4. LoggedBefore("job", jobs + 1)' /\ LoggedBefore("job", sending["run"][2])'
      BY Zenon, <2>1, <3>2, <3>3 DEF LoggedBefore
    <3>5. \A i \in DOMAIN wire' : LoggedBefore("job", wire[i][2])'
      BY Zenon, <2>1, <3>3 DEF LoggedBefore
    <3> QED
      BY Zenon, <3>1, <3>2, <3>4, <3>5 DEF JobsOrdered
  <2>4. LogOK'
    BY <1>0, <1>p, <2>1, <2>2 DEF Feed, LogOK
  <2> QED
    BY <2>1, <2>3, <2>4 DEF Feed, TicksOrdered, LoggedBefore
<1>6. CASE StartStatsTicks
  <2>1. /\ ticks' = ticks + 1 /\ UNCHANGED <<wire, jobs, mu, log>> /\ sending["stats"] = NULL
        /\ sending'["stats"] = <<"tick", ticks + 1>> /\ sending'["run"] = sending["run"]
    BY <1>0, <1>6, <1>p DEF StartStatsTicks
  <2>2. "stats" \notin mu
    BY <2>1 DEF TypeOK
  <2>3. JobsOrdered'
    BY <2>1 DEF Feed, JobsOrdered, LoggedBefore
  <2>4. LogOK'
    BY <1>0, <1>p, <2>1, <2>2 DEF Feed, LogOK
  <2>5. LoggedBefore("tick", ticks + 1) /\ LoggedBefore("tick", ticks + 2)
    BY <1>0, <1>n DEF Feed, TicksOrdered, LoggedBefore
  <2>6. TicksOrdered'
    BY <1>0, <2>1, <2>5 DEF TicksOrdered, LoggedBefore
  <2> QED
    BY <2>3, <2>4, <2>6 DEF Feed
<1>7. ASSUME NEW p \in Publishers, Lock(p) PROVE Feed'
  <2>1. /\ sending[p] # NULL /\ mu = {} /\ mu' = {p} /\ log' = Append(log, sending[p])
        /\ UNCHANGED <<wire, jobs, ticks, sending>>
    BY <1>7 DEF Lock
  <2>2. sending[p] \in Event
    BY <1>0, <2>1
  <2>3. /\ DOMAIN log = 1 .. Len(log) /\ Len(log) \in Nat /\ DOMAIN log' = 1 .. Len(log) + 1
        /\ Len(log') = Len(log) + 1
        /\ \A i \in DOMAIN log : log'[i] = log[i]
        /\ log'[Len(log) + 1] = sending[p]
    BY <1>0, <2>1, <2>2
  <2>4. \A i \in DOMAIN log : log[i] # sending[p]
    BY <2>1, NotLogged
  <2>5. LogOK'
    <3>1. \A i \in DOMAIN log' : i \in DOMAIN log \/ i = Len(log) + 1
      BY <2>3
    <3>2. \A i, k \in DOMAIN log' : log'[i] = log'[k] => i = k
      BY ZenonT(60), <2>3, <2>4, <3>1 DEF Feed, LogOK
    <3>3. Len(log') \in DOMAIN log' /\ log'[Len(log')] = sending'[p]
      <4>1. Len(log) + 1 \in DOMAIN log'
        BY <2>3
      <4>2. sending'[p] = sending[p]
        BY <2>1
      <4> QED
        BY Zenon, <2>3, <4>1, <4>2
    <3>4. \A q \in mu' : q = p
      BY <2>1
    <3> QED
      BY Zenon, <3>2, <3>3, <3>4 DEF LogOK
  <2>6. \A kind, n : LoggedBefore(kind, n)' <=>
           LoggedBefore(kind, n) /\ (sending[p][1] = kind => sending[p][2] < n)
    BY <2>3 DEF LoggedBefore
  <2>7. CASE p = "run"
    <3>1. /\ sending[p][1] = "job" /\ sending[p][2] <= jobs /\ sending[p][2] \in Nat
          /\ \A i \in DOMAIN wire : sending[p][2] < wire[i][2]
      BY <1>n, <2>1, <2>2, <2>7 DEF Feed, JobsOrdered
    <3>2. sending[p][2] < jobs + 1
      BY <1>0, <3>1
    <3>3. JobsOrdered'
      BY Zenon, <2>1, <2>6, <2>7, <3>1, <3>2 DEF Feed, JobsOrdered
    <3>4. TicksOrdered'
      <4>1. sending[p][1] # "tick"
        BY Zenon, <3>1
      <4> QED
        BY ZenonT(60), <2>1, <2>6, <2>7, <4>1 DEF Feed, TicksOrdered
    <3> QED
      BY <2>5, <3>3, <3>4 DEF Feed
  <2>8. CASE p = "stats"
    <3>1. sending[p] = <<"tick", ticks>> /\ ticks < ticks + 1
      BY SMTT(60), <1>0, <2>1, <2>8 DEF Feed, TicksOrdered
    <3>2. sending[p][1] = "tick" /\ sending[p][2] = ticks
      BY <3>1
    <3>3. JobsOrdered'
      BY Zenon, <2>1, <2>6, <3>2 DEF Feed, JobsOrdered
    <3>4. TicksOrdered'
      BY <2>1, <2>6, <2>8, <3>1, <3>2 DEF Feed, TicksOrdered
    <3> QED
      BY <2>5, <3>3, <3>4 DEF Feed
  <2> QED
    BY SMTT(60), <1>p, <2>7, <2>8
<1>8. ASSUME NEW p \in Publishers, Unlock(p) PROVE Feed'
  <2>1. /\ mu' = mu \ {p} /\ sending' = [sending EXCEPT ![p] = NULL] /\ p \in mu
        /\ UNCHANGED <<wire, jobs, ticks, log>>
    BY <1>8 DEF Unlock
  <2>2. mu' = {}
    BY <2>1 DEF HubInv
  <2>3. LogOK'
    BY <2>1, <2>2 DEF Feed, LogOK
  <2>4. sending'[p] = NULL /\ \A q \in Publishers : q # p => sending'[q] = sending[q] /\ q \notin mu
    BY Zenon, <1>0, <2>1 DEF HubInv
  <2>5. JobsOrdered'
    BY Zenon, <1>p, <2>1, <2>4 DEF Feed, JobsOrdered, LoggedBefore
  <2>6. TicksOrdered'
    BY <1>p, <2>1, <2>4 DEF Feed, TicksOrdered, LoggedBefore
  <2> QED
    BY <2>3, <2>5, <2>6 DEF Feed
<1>9. ASSUME NEW c \in Clients,
             \/ \E p \in Publishers : Send(p, c)
             \/ Subscribe(c) \/ Disconnect(c) \/ Delete(c) \/ Close(c) \/ Receive(c) \/ Return(c)
      PROVE  Feed'
  BY Zenon, <1>1, <1>9 DEF Send, Subscribe, Disconnect, Delete, Close, Receive, Return
<1> QED
  BY Zenon, <1>1, <1>2, <1>4, <1>5, <1>6, <1>7, <1>8, <1>9 DEF Next, Publish

(* What a dashboard has been sent, as a sequence h, is a part of the log,  *)
(* in its order.                                                           *)
InOrder(h) ==
    /\ \A i \in DOMAIN h : \E m \in DOMAIN log : h[i] = log[m]
    /\ \A i, k \in DOMAIN h : \A m, n \in DOMAIN log :
          i < k /\ h[i] = log[m] /\ h[k] = log[n] => m < n

(* A dashboard that the loop of Publish has not reached has not been sent  *)
(* the event that is being published.                                      *)
NotYet(c) == \A p \in mu : c \in todo[p] => \A i \in DOMAIN History(c) : History(c)[i] # sending[p]

Ordered == \A c \in Clients : InOrder(History(c)) /\ NotYet(c)

(* Receive moves an event from the channel to the dashboard: what has been *)
(* sent is the same.                                                       *)
LEMMA Moved ==
    ASSUME NEW w \in Seq(Event), NEW ch \in Seq(Event), ch # <<>>
    PROVE  Append(w, Head(ch)) \o Tail(ch) = w \o ch
<1>1. /\ Head(ch) \in Event /\ Tail(ch) \in Seq(Event) /\ Head(ch) = ch[1]
      /\ Len(Tail(ch)) = Len(ch) - 1 /\ Len(ch) \in Nat \ {0} /\ Len(w) \in Nat
      /\ \A i \in 1 .. Len(ch) - 1 : Tail(ch)[i] = ch[i + 1]
  OBVIOUS
<1> DEFINE a == Append(w, Head(ch))
<1>2. /\ a \in Seq(Event) /\ Len(a) = Len(w) + 1 /\ a[Len(w) + 1] = ch[1]
      /\ \A i \in 1 .. Len(w) : a[i] = w[i]
  BY <1>1
<1> HIDE DEF a
<1>3. /\ a \o Tail(ch) \in Seq(Event) /\ Len(a \o Tail(ch)) = Len(a) + Len(Tail(ch))
      /\ \A i \in 1 .. Len(a) + Len(Tail(ch)) :
           (a \o Tail(ch))[i] = IF i <= Len(a) THEN a[i] ELSE Tail(ch)[i - Len(a)]
  BY ZenonT(60), ConcatProperties, <1>1, <1>2
<1>4. /\ w \o ch \in Seq(Event) /\ Len(w \o ch) = Len(w) + Len(ch)
      /\ \A i \in 1 .. Len(w) + Len(ch) :
           (w \o ch)[i] = IF i <= Len(w) THEN w[i] ELSE ch[i - Len(w)]
  BY Zenon, ConcatProperties
<1> DEFINE x == a \o Tail(ch)
           t == Tail(ch)
<1>5. /\ x \in Seq(Event) /\ Len(x) = Len(w) + Len(ch)
      /\ \A i \in 1 .. Len(w) + Len(ch) : x[i] = IF i <= Len(w) + 1 THEN a[i] ELSE t[i - (Len(w) + 1)]
  <2>1. Len(a) + Len(Tail(ch)) = Len(w) + Len(ch)
    BY <1>1, <1>2
  <2> QED
    BY Zenon, <1>2, <1>3, <2>1
<1>6. \A i \in 1 .. Len(ch) - 1 : t[i] = ch[i + 1]
  BY <1>1
<1> HIDE DEF x, t
<1>7. \A i \in 1 .. Len(w) + Len(ch) : x[i] = (w \o ch)[i]
  <2> SUFFICES ASSUME NEW i \in 1 .. Len(w) + Len(ch) PROVE x[i] = (w \o ch)[i]
    OBVIOUS
  <2>1. CASE i <= Len(w)
    BY <1>1, <1>2, <1>4, <1>5, <2>1
  <2>2. CASE i = Len(w) + 1
    <3>1. x[i] = ch[1]
      BY <1>1, <1>2, <1>5, <2>2
    <3>2. (w \o ch)[i] = ch[i - Len(w)] /\ i - Len(w) = 1
      BY <1>1, <1>4, <2>2
    <3> QED
      BY Zenon, <3>1, <3>2
  <2>3. CASE i > Len(w) + 1
    <3>1. x[i] = t[i - (Len(w) + 1)]
      BY <1>1, <1>5, <2>3
    <3>2. i - (Len(w) + 1) \in 1 .. Len(ch) - 1 /\ (i - (Len(w) + 1)) + 1 = i - Len(w)
      BY <1>1, <2>3
    <3>3. t[i - (Len(w) + 1)] = ch[i - Len(w)]
      BY Zenon, <1>6, <3>2
    <3>4. (w \o ch)[i] = ch[i - Len(w)]
      BY <1>1, <1>4, <2>3
    <3> QED
      BY Zenon, <3>1, <3>3, <3>4
  <2> QED
    BY SMTT(60), <1>1, <2>1, <2>2, <2>3
<1>8. x = w \o ch
  BY Zenon, <1>4, <1>5, <1>7, SeqEqual
<1> QED
  BY <1>8 DEF x, a

(* Send adds its event to the end of what has been sent. *)
LEMMA Sent ==
    ASSUME NEW w \in Seq(Event), NEW ch \in Seq(Event), NEW e \in Event
    PROVE  /\ Len(w \o Append(ch, e)) = Len(w \o ch) + 1
           /\ w \o Append(ch, e) \in Seq(Event)
           /\ \A i \in DOMAIN (w \o ch) : (w \o Append(ch, e))[i] = (w \o ch)[i]
           /\ (w \o Append(ch, e))[Len(w \o ch) + 1] = e
<1> DEFINE b == Append(ch, e)
<1>1. /\ b \in Seq(Event) /\ Len(b) = Len(ch) + 1 /\ b[Len(ch) + 1] = e
      /\ \A i \in 1 .. Len(ch) : b[i] = ch[i]
      /\ Len(ch) \in Nat /\ Len(w) \in Nat
  OBVIOUS
<1> HIDE DEF b
<1>2. /\ w \o b \in Seq(Event) /\ Len(w \o b) = Len(w) + Len(b)
      /\ \A i \in 1 .. Len(w) + Len(b) : (w \o b)[i] = IF i <= Len(w) THEN w[i] ELSE b[i - Len(w)]
  BY Zenon, ConcatProperties, <1>1
<1>3. /\ w \o ch \in Seq(Event) /\ Len(w \o ch) = Len(w) + Len(ch)
      /\ DOMAIN (w \o ch) = 1 .. Len(w \o ch)
      /\ \A i \in 1 .. Len(w) + Len(ch) : (w \o ch)[i] = IF i <= Len(w) THEN w[i] ELSE ch[i - Len(w)]
  BY Zenon, ConcatProperties, LenProperties
<1>4. \A i \in DOMAIN (w \o ch) : (w \o b)[i] = (w \o ch)[i]
  <2> SUFFICES ASSUME NEW i \in 1 .. Len(w) + Len(ch) PROVE (w \o b)[i] = (w \o ch)[i]
    BY Zenon, <1>3
  <2>1. CASE i <= Len(w)
    BY <1>1, <1>2, <1>3, <2>1
  <2>2. CASE i > Len(w)
    <3>1. i - Len(w) \in 1 .. Len(ch)
      BY <1>1, <2>2
    <3>2. (w \o b)[i] = b[i - Len(w)] /\ (w \o ch)[i] = ch[i - Len(w)]
      BY <1>1, <1>2, <1>3, <2>2
    <3> QED
      BY Zenon, <1>1, <3>1, <3>2
  <2> QED
    BY <1>1, <2>1, <2>2
<1>5. (w \o b)[Len(w \o ch) + 1] = e
  <2>1. (Len(w) + Len(ch) + 1) - Len(w) = Len(ch) + 1 /\ Len(w) + Len(ch) + 1 \in 1 .. Len(w) + Len(b)
        /\ ~(Len(w) + Len(ch) + 1 <= Len(w))
    BY <1>1
  <2>2. (w \o b)[Len(w) + Len(ch) + 1] = b[(Len(w) + Len(ch) + 1) - Len(w)]
    BY Zenon, <1>2, <2>1
  <2> QED
    BY Zenon, <1>1, <1>3, <2>1, <2>2
<1>6. Len(w \o b) = Len(w \o ch) + 1
  BY <1>1, <1>2, <1>3
<1> QED
  BY Zenon, <1>2, <1>4, <1>5, <1>6 DEF b

(* A step that sends nothing to a dashboard and takes no lock keeps what   *)
(* is said of it.                                                          *)
LEMMA Kept ==
    ASSUME NEW c \in Clients, UNCHANGED log, mu' \subseteq mu,
           \A p \in mu' : sending'[p] = sending[p] /\ todo'[p] \subseteq todo[p],
           History(c)' = History(c), InOrder(History(c)), NotYet(c)
    PROVE  InOrder(History(c))' /\ NotYet(c)'
<1>1. InOrder(History(c))'
  <2> DEFINE In(h, l) == /\ \A i \in DOMAIN h : \E m \in DOMAIN l : h[i] = l[m]
                         /\ \A i, k \in DOMAIN h : \A m, n \in DOMAIN l :
                               i < k /\ h[i] = l[m] /\ h[k] = l[n] => m < n
  <2>1. In(History(c), log)
    BY Zenon DEF InOrder
  <2>2. In(History(c)', log') => InOrder(History(c))'
    BY Zenon DEF InOrder
  <2> HIDE DEF In
  <2> QED
    BY Zenon, <2>1, <2>2
<1>2. NotYet(c)'
  <2> DEFINE h == History(c)
  <2>1. History(c)' = h /\ \A p \in mu : c \in todo[p] => \A i \in DOMAIN h : h[i] # sending[p]
    BY Zenon DEF NotYet
  <2> HIDE DEF h
  <2>2. \A p \in mu' : c \in todo'[p] => \A i \in DOMAIN h : h[i] # sending'[p]
    BY Zenon, <2>1
  <2> QED
    BY Zenon, <2>1, <2>2 DEF NotYet
<1> QED
  BY Zenon, <1>1, <1>2

(* Every step keeps what has been sent in the order of the log. *)
LEMMA OrderedStep ==
    ASSUME TypeOK, TypeOK', HubInv, Feed, Feed', Ordered, [Next]_vars
    PROVE  Ordered'
<1>0. /\ log \in Seq(Event) /\ mu \subseteq Publishers
      /\ sending \in [Publishers -> Event \cup {NULL}] /\ \A p \in mu : sending[p] # NULL
      /\ todo \in [Publishers -> SUBSET Clients]
      /\ chan \in [Clients -> Seq(Event)] /\ written \in [Clients -> Seq(Event)]
  BY DEF TypeOK
<1> USE DEF vars, hubVars, feedVars, clientVars
<1>1. ASSUME UNCHANGED log, mu' \subseteq mu,
             \A p \in mu' : sending'[p] = sending[p] /\ todo'[p] \subseteq todo[p],
             \A c \in Clients : History(c)' = History(c)
      PROVE  Ordered'
  <2> SUFFICES ASSUME NEW c \in Clients PROVE InOrder(History(c))' /\ NotYet(c)'
    BY DEF Ordered
  <2>1. History(c)' = History(c) /\ InOrder(History(c)) /\ NotYet(c)
    BY Zenon, <1>1 DEF Ordered
  <2> QED
    BY Zenon, <1>1, <2>1, Kept
<1>2. CASE PublishJob \/ Lost \/ UNCHANGED vars
  BY ZenonT(60), <1>1, <1>2 DEF PublishJob, Lost, History
<1>3. CASE Run \/ StartStatsTicks
  <2>1. PICK p \in Publishers : /\ sending[p] = NULL
                                /\ \A q \in Publishers : q # p => sending'[q] = sending[q]
                                /\ UNCHANGED <<log, mu, todo, chan, written>>
    BY <1>0, <1>3 DEF Run, StartStatsTicks, Publishers
  <2>2. p \notin mu
    BY <1>0, <2>1
  <2>3. \A q \in mu' : sending'[q] = sending[q] /\ todo'[q] \subseteq todo[q]
    BY <1>0, <2>1, <2>2
  <2>4. \A c \in Clients : History(c)' = History(c)
    BY <2>1 DEF History
  <2> QED
    BY Zenon, <1>1, <2>1, <2>3, <2>4
<1>4. ASSUME NEW p \in Publishers, Lock(p) PROVE Ordered'
  <2>1. /\ sending[p] # NULL /\ mu = {} /\ mu' = {p} /\ log' = Append(log, sending[p])
        /\ UNCHANGED <<chan, written, sending>>
    BY <1>4 DEF Lock
  <2>2. sending[p] \in Event
    BY <1>0, <2>1
  <2>3. DOMAIN log \subseteq DOMAIN log' /\ \A i \in DOMAIN log : log'[i] = log[i]
    BY <1>0, <2>1, <2>2
  <2>4. \A i \in DOMAIN log : log[i] # sending[p]
    BY <2>1, NotLogged
  <2>5. \A i, k \in DOMAIN log' : log'[i] = log'[k] => i = k
    BY DEF Feed, LogOK
  <2> SUFFICES ASSUME NEW c \in Clients PROVE InOrder(History(c))' /\ NotYet(c)'
    BY DEF Ordered
  <2> DEFINE h == History(c)
  <2>6. History(c)' = h
    BY <2>1 DEF History
  <2>7. InOrder(h)
    BY DEF Ordered
  <2>8. sending'[p] = sending[p] /\ \A q \in mu' : q = p
    BY <2>1
  <2> HIDE DEF h
  <2>9. \A i \in DOMAIN h : \E m \in DOMAIN log : h[i] = log[m]
    BY Zenon, <2>7 DEF InOrder
  <2>10. NotYet(c)'
    BY ZenonT(60), <2>4, <2>6, <2>8, <2>9 DEF NotYet
  <2>11. \A i \in DOMAIN h : \E m \in DOMAIN log' : h[i] = log'[m]
    BY Zenon, <2>3, <2>9
  <2>12. ASSUME NEW i \in DOMAIN h, NEW k \in DOMAIN h, NEW m \in DOMAIN log', NEW n \in DOMAIN log',
                i < k, h[i] = log'[m], h[k] = log'[n]
         PROVE  m < n
    <3>1. PICK m0, n0 \in DOMAIN log : h[i] = log[m0] /\ h[k] = log[n0]
      BY Zenon, <2>9
    <3>2. m0 < n0
      BY Zenon, <2>7, <2>12, <3>1 DEF InOrder
    <3>3. m0 = m /\ n0 = n
      BY Zenon, <2>3, <2>5, <2>12, <3>1
    <3> QED
      BY Zenon, <3>2, <3>3
  <2>13. InOrder(History(c))'
    BY Zenon, <2>6, <2>11, <2>12 DEF InOrder
  <2> QED
    BY <2>10, <2>13
<1>5. ASSUME NEW p \in Publishers, NEW d \in Clients, Send(p, d) PROVE Ordered'
  <2>1. /\ p \in mu /\ d \in todo[p] /\ todo' = [todo EXCEPT ![p] = @ \ {d}]
        /\ UNCHANGED <<mu, sending, log, written>>
        /\ chan' = chan \/ chan' = [chan EXCEPT ![d] = Append(@, sending[p])]
    BY <1>5 DEF Send
  <2>2. /\ sending[p] \in Event /\ Len(log) \in DOMAIN log /\ log[Len(log)] = sending[p]
        /\ \A i, k \in DOMAIN log : log[i] = log[k] => i = k
    <3>1. Len(log) \in DOMAIN log /\ log[Len(log)] = sending[p]
      BY Zenon, <2>1 DEF Feed, LogOK
    <3>2. \A i, k \in DOMAIN log : log[i] = log[k] => i = k
      BY Zenon DEF Feed, LogOK
    <3>3. log[Len(log)] \in Event
      BY <1>0, <3>1
    <3> QED
      BY Zenon, <3>1, <3>2, <3>3
  <2>3. todo'[p] = todo[p] \ {d} /\ \A q \in mu' : q = p
    BY <1>0, <2>1 DEF HubInv
  <2> SUFFICES ASSUME NEW c \in Clients PROVE InOrder(History(c))' /\ NotYet(c)'
    BY DEF Ordered
  <2>4. CASE History(c)' = History(c)
    <3>1. InOrder(History(c)) /\ NotYet(c)
      BY DEF Ordered
    <3>2. \A q \in mu' : todo'[q] \subseteq todo[q]
      BY ZenonT(60), <2>3
    <3>3. UNCHANGED log /\ mu' \subseteq mu /\ \A q \in mu' : sending'[q] = sending[q]
      BY <2>1
    <3> QED
      BY Zenon, <2>4, <3>1, <3>2, <3>3, Kept
  <2>5. CASE c = d /\ chan' = [chan EXCEPT ![d] = Append(@, sending[p])]
    <3> DEFINE h == History(c)
               g == written[c] \o Append(chan[c], sending[p])
    <3>1. History(c)' = g
      BY ZenonT(60), <1>0, <2>1, <2>5 DEF History
    <3>2. /\ Len(g) = Len(h) + 1 /\ g \in Seq(Event)
          /\ \A i \in DOMAIN h : g[i] = h[i]
          /\ g[Len(h) + 1] = sending[p]
      <4>1. written[c] \in Seq(Event) /\ chan[c] \in Seq(Event)
        BY <1>0
      <4>2. h = written[c] \o chan[c]
        BY Zenon DEF History
      <4> HIDE DEF h
      <4>3. /\ Len(g) = Len(written[c] \o chan[c]) + 1 /\ g \in Seq(Event)
            /\ \A i \in DOMAIN (written[c] \o chan[c]) : g[i] = (written[c] \o chan[c])[i]
            /\ g[Len(written[c] \o chan[c]) + 1] = sending[p]
        <5>1. PICK w, ch \in Seq(Event), e \in Event : w = written[c] /\ ch = chan[c] /\ e = sending[p]
          BY Zenon, <2>2, <4>1
        <5>2. g = w \o Append(ch, e)
          BY Zenon, <5>1
        <5>3. /\ Len(w \o Append(ch, e)) = Len(w \o ch) + 1
              /\ w \o Append(ch, e) \in Seq(Event)
              /\ \A i \in DOMAIN (w \o ch) : (w \o Append(ch, e))[i] = (w \o ch)[i]
              /\ (w \o Append(ch, e))[Len(w \o ch) + 1] = e
          BY Sent
        <5> DEFINE x == w \o Append(ch, e)
                   y == w \o ch
        <5>4. Len(x) = Len(y) + 1 /\ x \in Seq(Event) /\ (\A i \in DOMAIN y : x[i] = y[i]) /\ x[Len(y) + 1] = e
          BY <5>3
        <5>5. g = x /\ y = written[c] \o chan[c] /\ e = sending[p]
          BY Zenon, <5>1, <5>2
        <5> HIDE DEF g, x, y
        <5> QED
          BY Zenon, <5>4, <5>5
      <4> HIDE DEF g
      <4> QED
        BY Zenon, <4>2, <4>3
    <3>3. h \in Seq(Event)
      BY <1>0 DEF History
    <3>4. InOrder(h) /\ \A i \in DOMAIN h : h[i] # sending[p]
      BY Zenon, <2>1, <2>5 DEF Ordered, NotYet
    <3> HIDE DEF h, g
    <3>5. Len(h) \in Nat /\ DOMAIN h = 1 .. Len(h) /\ DOMAIN g = 1 .. Len(h) + 1
      BY <3>2, <3>3
    <3>6. \A i \in DOMAIN g : i \in DOMAIN h \/ i = Len(h) + 1
      BY <3>5
    <3>7. \A i \in DOMAIN g : \E m \in DOMAIN log : g[i] = log[m]
      <4>1. \A i \in DOMAIN h : \E m \in DOMAIN log : h[i] = log[m]
        BY Zenon, <3>4 DEF InOrder
      <4>2. g[Len(h) + 1] = log[Len(log)]
        BY Zenon, <2>2, <3>2
      <4> SUFFICES ASSUME NEW i \in DOMAIN g PROVE \E m \in DOMAIN log : g[i] = log[m]
        OBVIOUS
      <4>3. CASE i \in DOMAIN h
        BY Zenon, <3>2, <4>1, <4>3
      <4>4. CASE i = Len(h) + 1
        BY Zenon, <2>2, <4>2, <4>4
      <4> QED
        BY Zenon, <3>6, <4>3, <4>4
    <3>8. ASSUME NEW i \in DOMAIN g, NEW k \in DOMAIN g, NEW m \in DOMAIN log, NEW n \in DOMAIN log,
                 i < k, g[i] = log[m], g[k] = log[n]
          PROVE  m < n
      <4>1. i \in DOMAIN h
        BY <3>5, <3>8
      <4>2. CASE k \in DOMAIN h
        BY Zenon, <3>2, <3>4, <3>8, <4>1, <4>2 DEF InOrder
      <4>3. CASE k = Len(h) + 1
        <5>1. n = Len(log) /\ m # Len(log)
          BY Zenon, <2>2, <3>2, <3>4, <3>8, <4>1, <4>3
        <5>2. DOMAIN log = 1 .. Len(log) /\ Len(log) \in Nat
          BY <1>0
        <5> QED
          BY <5>1, <5>2
      <4> QED
        BY Zenon, <3>6, <4>2, <4>3
    <3>9. InOrder(History(c))'
      BY Zenon, <2>1, <3>1, <3>7, <3>8 DEF InOrder
    <3>10. \A q \in mu' : c \notin todo'[q]
      BY <2>3, <2>5
    <3> QED
      BY Zenon, <3>9, <3>10 DEF NotYet
  <2>6. CASE c # d \/ chan' = chan
    <3>1. chan'[c] = chan[c]
      BY SMTT(60), <1>0, <2>1, <2>6
    <3> QED
      BY Zenon, <2>1, <2>4, <3>1 DEF History
  <2> QED
    BY Zenon, <2>1, <2>5, <2>6
<1>6. ASSUME NEW p \in Publishers, Unlock(p) PROVE Ordered'
  <2>1. mu' = {} /\ UNCHANGED <<log, chan, written>>
    BY SMTT(60), <1>6 DEF Unlock, HubInv
  <2> QED
    BY <1>1, <2>1 DEF History
<1>7. ASSUME NEW c \in Clients, Subscribe(c) \/ Disconnect(c) \/ Delete(c) \/ Close(c) \/ Return(c)
      PROVE  Ordered'
  BY ZenonT(60), <1>1, <1>7 DEF Subscribe, Disconnect, Delete, Close, Return, History
<1>8. ASSUME NEW c \in Clients, Receive(c) PROVE Ordered'
  <2>1. /\ chan[c] # <<>> /\ UNCHANGED <<log, mu, sending, todo>>
        /\ written' = [written EXCEPT ![c] = Append(@, Head(chan[c]))]
        /\ chan' = [chan EXCEPT ![c] = Tail(@)]
    BY <1>8 DEF Receive
  <2>2. ASSUME NEW d \in Clients PROVE History(d)' = History(d)
    <3>1. CASE d = c
      <4>1. written'[c] = Append(written[c], Head(chan[c])) /\ chan'[c] = Tail(chan[c])
            /\ written[c] \in Seq(Event) /\ chan[c] \in Seq(Event)
        BY <1>0, <2>1
      <4>2. Append(written[c], Head(chan[c])) \o Tail(chan[c]) = written[c] \o chan[c]
        BY Zenon, <2>1, <4>1, Moved
      <4> QED
        BY Zenon, <3>1, <4>1, <4>2 DEF History
    <3>2. CASE d # c
      <4>1. written'[d] = written[d] /\ chan'[d] = chan[d]
        BY <1>0, <2>1, <3>2
      <4> QED
        BY Zenon, <4>1 DEF History
    <3> QED
      BY <3>1, <3>2
  <2> QED
    BY <1>1, <2>1, <2>2
<1> QED
  BY Zenon, <1>2, <1>3, <1>4, <1>5, <1>6, <1>7, <1>8 DEF Next, Publish

(* Every dashboard of an API process sees the events in the order in which *)
(* Publish of internal/api/events.go got the mutex, and none of them       *)
(* twice, for any number of dashboards and any capacity of their channels. *)
THEOREM OneOrder == Spec => []SameOrder
<1> USE DEF vars, hubVars, feedVars, clientVars
<1>1. Init => Feed /\ Ordered
  <2> SUFFICES ASSUME Init PROVE Feed /\ Ordered
    OBVIOUS
  <2>1. /\ wire = <<>> /\ log = <<>> /\ mu = {} /\ sending["run"] = NULL /\ sending["stats"] = NULL
        /\ \A c \in Clients : written[c] = <<>> /\ chan[c] = <<>>
    BY DEF Init, Publishers
  <2>2. Feed
    <3>1. \A i \in DOMAIN log : FALSE
      BY <2>1
    <3>2. \A i \in DOMAIN wire : FALSE
      BY <2>1
    <3> QED
      BY Zenon, <2>1, <3>1, <3>2 DEF Feed, JobsOrdered, TicksOrdered, LogOK, LoggedBefore
  <2>3. \A c \in Clients : \A i \in DOMAIN History(c) : FALSE
    <3> SUFFICES ASSUME NEW c \in Clients PROVE \A i \in DOMAIN History(c) : FALSE
      OBVIOUS
    <3>1. History(c) = <<>> \o <<>>
      BY Zenon, <2>1 DEF History
    <3> QED
      BY <3>1
  <2>4. Ordered
    BY Zenon, <2>1, <2>3 DEF Ordered, InOrder, NotYet
  <2> QED
    BY <2>2, <2>4
<1>2. TypeOK /\ HubInv /\ Feed /\ Ordered /\ [Next]_vars => TypeOK' /\ HubInv' /\ Feed' /\ Ordered'
  BY TypeOKStep, HubInvStep, FeedStep, OrderedStep
<1>3. LogOK /\ Ordered => SameOrder
  <2> SUFFICES ASSUME LogOK, Ordered, NEW c \in Clients,
                      NEW i \in DOMAIN History(c), NEW k \in DOMAIN History(c), i < k
               PROVE  Position(History(c)[i]) < Position(History(c)[k])
    BY DEF SameOrder
  <2> DEFINE h == History(c)
  <2>1. InOrder(h)
    BY Zenon DEF Ordered
  <2> HIDE DEF h
  <2>2. /\ \E m \in DOMAIN log : log[m] = h[i]
        /\ \E m \in DOMAIN log : log[m] = h[k]
    BY <2>1 DEF InOrder, h
  <2>3. /\ Position(h[i]) \in DOMAIN log /\ log[Position(h[i])] = h[i]
        /\ Position(h[k]) \in DOMAIN log /\ log[Position(h[k])] = h[k]
    BY ZenonT(60), <2>2 DEF Position
  <2>4. Position(h[i]) < Position(h[k])
    BY <2>1, <2>3 DEF InOrder, h
  <2> QED
    BY <2>4 DEF h
<1>4. Feed => LogOK
  BY DEF Feed
<1> QED
  BY <1>1, <1>2, <1>3, <1>4, TypeOKInit, HubInvInit, PTL DEF Spec
=============================================================================
