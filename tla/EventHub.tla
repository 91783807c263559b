------------------------------ MODULE EventHub -------------------------------
(***************************************************************************)
(* internal/api/events.go: the Hub of an API process, which passes events  *)
(* on to the dashboards that are connected to it (ServeSSE).  Two          *)
(* goroutines publish to it: Run, which forwards the job events that all   *)
(* processes publish through Redis, and StartStatsTicks.  Each dashboard   *)
(* has a buffered channel, a goroutine that reads it and another one that  *)
(* removes and closes it when the dashboard disconnects.                   *)
(*                                                                         *)
(* Payloads, pings and the encoding of events are left out.                *)
(***************************************************************************)
EXTENDS Integers, Sequences

CONSTANTS
    Clients,   \* dashboards that may connect, each once
    NULL,      \* no event
    Cap,       \* the capacity of a channel, 64
    MaxJobs,   \* bound: job events
    MaxTicks   \* bound: stats ticks

ASSUME HubAssumption ==
    Cap \in Nat \ {0} /\ MaxJobs \in Nat /\ MaxTicks \in Nat /\ NULL \notin {"job", "tick"} \X Nat

Publishers == {"run", "stats"}

Event == {"job", "tick"} \X Nat

VARIABLES
    wire,      \* job events in Redis and in the client's subscription
    jobs,      \* job events so far
    ticks,     \* stats ticks so far
    mu,        \* the holder of h.mu during Publish: a set of at most one
    clients,   \* h.clients
    sending,   \* the event that each publisher is publishing, or NULL
    todo,      \* the clients that its loop has not reached
    chan,      \* what is buffered in each channel
    closed,    \* is the channel closed?
    gone,      \* is the context of the request done?
    reader,    \* the goroutine of ServeSSE: "new", "serving" or "returned"
    written,   \* what ServeSSE has written to the dashboard
    dropped,   \* events that found the channel full
    log,       \* the events in the order in which Publish got the mutex
    since      \* how long the log was when the client subscribed

hubVars == <<mu, clients, sending, todo, log>>
feedVars == <<wire, jobs, ticks>>
clientVars == <<chan, closed, gone, reader, written, dropped, since>>
vars == <<feedVars, hubVars, clientVars>>

Init ==
    /\ wire = <<>> /\ jobs = 0 /\ ticks = 0
    /\ mu = {} /\ clients = {} /\ log = <<>>
    /\ sending = [p \in Publishers |-> NULL]
    /\ todo = [p \in Publishers |-> {}]
    /\ chan = [c \in Clients |-> <<>>]
    /\ closed = [c \in Clients |-> FALSE]
    /\ gone = [c \in Clients |-> FALSE]
    /\ reader = [c \in Clients |-> "new"]
    /\ written = [c \in Clients |-> <<>>]
    /\ dropped = [c \in Clients |-> 0]
    /\ since = [c \in Clients |-> 0]

-----------------------------------------------------------------------------
(* The feed of the hub. *)

(* RedisEvents.Publish, in any process; all are given a client of Redis.   *)
(* When the client sends a PUBLISH again, these are two messages.          *)
PublishJob ==
    /\ jobs < MaxJobs
    /\ jobs' = jobs + 1
    /\ wire' = Append(wire, <<"job", jobs + 1>>)
    /\ UNCHANGED <<ticks, hubVars, clientVars>>

(* Redis delivers at most once: a message is lost while the subscription   *)
(* is down or too slow.                                                    *)
Lost ==
    /\ wire # <<>>
    /\ wire' = Tail(wire)
    /\ UNCHANGED <<jobs, ticks, hubVars, clientVars>>

Run ==
    /\ wire # <<>>
    /\ sending["run"] = NULL
    /\ sending' = [sending EXCEPT !["run"] = Head(wire)]
    /\ wire' = Tail(wire)
    /\ UNCHANGED <<jobs, ticks, mu, clients, todo, log, clientVars>>

StartStatsTicks ==
    /\ ticks < MaxTicks
    /\ sending["stats"] = NULL
    /\ ticks' = ticks + 1
    /\ sending' = [sending EXCEPT !["stats"] = <<"tick", ticks + 1>>]
    /\ UNCHANGED <<wire, jobs, mu, clients, todo, log, clientVars>>

-----------------------------------------------------------------------------
(* Hub.Publish. *)

(* A slip of Lock: a read lock, which publishers share. *)
LockShared(p) ==
    /\ sending[p] # NULL
    /\ p \notin mu
    /\ mu' = mu \cup {p}
    /\ todo' = [todo EXCEPT ![p] = clients]
    /\ log' = Append(log, sending[p])
    /\ UNCHANGED <<clients, sending, feedVars, clientVars>>

Lock(p) ==
    /\ sending[p] # NULL
    /\ mu = {}
    /\ mu' = {p}
    /\ todo' = [todo EXCEPT ![p] = clients]
    /\ log' = Append(log, sending[p])
    /\ UNCHANGED <<clients, sending, feedVars, clientVars>>

HasRoom(c) == Len(chan[c]) < Cap

(* A slip of Send: it waits for room in the channel. *)
SendBlocking(p, c) ==
    /\ p \in mu
    /\ c \in todo[p]
    /\ todo' = [todo EXCEPT ![p] = @ \ {c}]
    /\ HasRoom(c)
    /\ chan' = [chan EXCEPT ![c] = Append(@, sending[p])]
    /\ UNCHANGED <<mu, clients, sending, log, feedVars, closed, gone, reader, written, dropped, since>>

(* A slip of Send: the loop ends at the first full channel. *)
SendBreaking(p, c) ==
    /\ p \in mu
    /\ c \in todo[p]
    /\ IF HasRoom(c)
       THEN /\ chan' = [chan EXCEPT ![c] = Append(@, sending[p])]
            /\ todo' = [todo EXCEPT ![p] = @ \ {c}]
            /\ UNCHANGED dropped
       ELSE /\ dropped' = [dropped EXCEPT ![c] = @ + 1]
            /\ todo' = [todo EXCEPT ![p] = {}]
            /\ UNCHANGED chan
    /\ UNCHANGED <<mu, clients, sending, log, feedVars, closed, gone, reader, written, since>>

(* One round of the loop: a full channel is passed over. *)
Send(p, c) ==
    /\ p \in mu
    /\ c \in todo[p]
    /\ todo' = [todo EXCEPT ![p] = @ \ {c}]
    /\ \/ /\ HasRoom(c)
          /\ chan' = [chan EXCEPT ![c] = Append(@, sending[p])]
          /\ UNCHANGED dropped
       \/ /\ ~HasRoom(c)
          /\ dropped' = [dropped EXCEPT ![c] = @ + 1]
          /\ UNCHANGED chan
    /\ UNCHANGED <<mu, clients, sending, log, feedVars, closed, gone, reader, written, since>>

Unlock(p) ==
    /\ p \in mu
    /\ todo[p] = {}
    /\ mu' = mu \ {p}
    /\ sending' = [sending EXCEPT ![p] = NULL]
    /\ UNCHANGED <<clients, todo, log, feedVars, clientVars>>

-----------------------------------------------------------------------------
(* Subscribe, and ServeSSE. *)

Subscribe(c) ==
    /\ reader[c] = "new"
    /\ mu = {}
    /\ clients' = clients \cup {c}
    /\ reader' = [reader EXCEPT ![c] = "serving"]
    /\ since' = [since EXCEPT ![c] = Len(log)]
    /\ UNCHANGED <<mu, sending, todo, log, feedVars, chan, closed, gone, written, dropped>>

(* The dashboard disconnects, or its server shuts down. *)
Disconnect(c) ==
    /\ reader[c] # "new"
    /\ ~gone[c]
    /\ gone' = [gone EXCEPT ![c] = TRUE]
    /\ UNCHANGED <<feedVars, hubVars, chan, closed, reader, written, dropped, since>>

Delete(c) ==
    /\ gone[c]
    /\ c \in clients
    /\ mu = {}
    /\ clients' = clients \ {c}
    /\ UNCHANGED <<mu, sending, todo, log, feedVars, clientVars>>

(* A slip of Close: before the channel is deleted. *)
CloseFirst(c) ==
    /\ gone[c]
    /\ ~closed[c]
    /\ closed' = [closed EXCEPT ![c] = TRUE]
    /\ UNCHANGED <<feedVars, hubVars, chan, gone, reader, written, dropped, since>>

(* A slip of Close: only once the channel has been drained. *)
CloseDrained(c) ==
    /\ gone[c]
    /\ c \notin clients
    /\ ~closed[c]
    /\ chan[c] = <<>>
    /\ closed' = [closed EXCEPT ![c] = TRUE]
    /\ UNCHANGED <<feedVars, hubVars, chan, gone, reader, written, dropped, since>>

Close(c) ==
    /\ gone[c]
    /\ c \notin clients
    /\ ~closed[c]
    /\ closed' = [closed EXCEPT ![c] = TRUE]
    /\ UNCHANGED <<feedVars, hubVars, chan, gone, reader, written, dropped, since>>

(* The select of ServeSSE takes any case that is ready: an event, *)
Receive(c) ==
    /\ reader[c] = "serving"
    /\ chan[c] # <<>>
    /\ written' = [written EXCEPT ![c] = Append(@, Head(chan[c]))]
    /\ chan' = [chan EXCEPT ![c] = Tail(@)]
    /\ UNCHANGED <<feedVars, hubVars, closed, gone, reader, dropped, since>>

(* the end of the channel, or the end of the context. *)
Return(c) ==
    /\ reader[c] = "serving"
    /\ gone[c] \/ (closed[c] /\ chan[c] = <<>>)
    /\ reader' = [reader EXCEPT ![c] = "returned"]
    /\ UNCHANGED <<feedVars, hubVars, chan, closed, gone, written, dropped, since>>

Publish(p) == Lock(p) \/ (\E c \in Clients : Send(p, c)) \/ Unlock(p)

Next ==
    \/ PublishJob \/ Lost \/ Run \/ StartStatsTicks
    \/ \E p \in Publishers : Publish(p)
    \/ \E c \in Clients : Subscribe(c) \/ Disconnect(c) \/ Delete(c) \/ Close(c) \/ Receive(c) \/ Return(c)

Spec == Init /\ [][Next]_vars

(* Goroutines that can run do run, and a goroutine that waits for h.mu     *)
(* gets it: sync.Mutex hands over to a waiter that starves.  Nothing is    *)
(* assumed of the dashboards: a reader may be stuck in a write for ever.   *)
Fairness ==
    /\ \A p \in Publishers :
          /\ SF_vars(Lock(p))
          /\ WF_vars(Unlock(p))
          /\ \A c \in Clients : WF_vars(Send(p, c))
    /\ \A c \in Clients : SF_vars(Delete(c)) /\ WF_vars(Close(c))

FairSpec == Spec /\ Fairness

-----------------------------------------------------------------------------
(* Properties. *)

(* The hub and the channels are well-formed; no channel overflows. *)
TypeOK ==
    /\ wire \in Seq(Event) /\ jobs \in Nat /\ ticks \in Nat
    /\ mu \subseteq Publishers /\ clients \subseteq Clients /\ log \in Seq(Event)
    /\ sending \in [Publishers -> Event \cup {NULL}] /\ \A p \in mu : sending[p] # NULL
    /\ todo \in [Publishers -> SUBSET Clients]
    /\ chan \in [Clients -> Seq(Event)] /\ \A c \in Clients : Len(chan[c]) <= Cap
    /\ closed \in [Clients -> BOOLEAN] /\ gone \in [Clients -> BOOLEAN]
    /\ reader \in [Clients -> {"new", "serving", "returned"}]
    /\ written \in [Clients -> Seq(Event)]
    /\ dropped \in [Clients -> Nat] /\ since \in [Clients -> Nat]

(* Publish never sends on a closed channel, which would panic and end the  *)
(* process: a channel is closed only after the last loop that could reach  *)
(* it.                                                                     *)
NoSendOnClosed ==
    \A c \in Clients : closed[c] => c \notin clients /\ \A p \in Publishers : p \in mu => c \notin todo[p]

(* What a dashboard has been sent, in order. *)
History(c) == written[c] \o chan[c]

Position(e) == CHOOSE i \in DOMAIN log : log[i] = e

(* Every dashboard sees events in the order in which the hub published     *)
(* them, each at most once: so no two dashboards disagree on the order.    *)
SameOrder ==
    \A c \in Clients : \A i, k \in DOMAIN History(c) :
        i < k => Position(History(c)[i]) < Position(History(c)[k])

(* Between two calls of Publish, a connected dashboard has been sent every *)
(* event since it subscribed, except those that found its channel full:    *)
(* the dashboards do not depend on each other.                             *)
NothingMissed ==
    mu = {} => \A c \in clients : Len(History(c)) + dropped[c] = Len(log) - since[c]

(* Publish returns, whatever the dashboards do. *)
PublishReturns ==
    \A p \in Publishers : sending[p] # NULL ~> sending[p] = NULL

(* The channel of a dashboard that disconnects is closed in the end. *)
ChannelsClosed ==
    \A c \in Clients : gone[c] ~> closed[c]
=============================================================================
