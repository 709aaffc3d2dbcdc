------------------------------ MODULE RoomFanout ------------------------------
(***************************************************************************)
(* How a commit on one worker reaches the sockets of all: the broadcast to *)
(* its own sockets, the publication, and the Pub/Sub subscription that a   *)
(* worker keeps while it has sockets of the room.                          *)
(*                                                                         *)
(*   backend/room_service.py  ensure_room_events, _run_room_event_...,     *)
(*                            stop_room_events                             *)
(*   backend/event_bus.py     publish_state, consume_room_events,          *)
(*                            dispatch_envelope, sync_room_from_store      *)
(*                                                                         *)
(* A step resumes a coroutine and runs it to its next suspension.  Here a  *)
(* broadcast to the sockets of one worker is one step, and keeps each      *)
(* socket at the newest document it was given; Sockets shows that for the  *)
(* broadcast in detail.  One generation of the room: Sockets has several.  *)
(***************************************************************************)
EXTENDS Integers, FiniteSets

CONSTANTS
  Workers,
  Sockets,
  Home,              \* the worker each socket connects to
  MaxSubscriptions,  \* bound: subscriptions started
  MaxRevision,       \* bound: commits
  MaxFaults          \* bound: lost publications, broken subscriptions

ASSUME FanoutAssumption ==
  /\ Home \in [Sockets -> Workers]
  /\ MaxSubscriptions \in Nat
  /\ MaxRevision \in Nat
  /\ MaxFaults \in Nat

VARIABLES
  revision,   \* of the canonical document
  writer,     \* per worker: the commit that is being announced
  current,    \* per worker: its entry in event_subscription_tasks and _ready
  sub,        \* the subscription tasks
  started,    \* subscription tasks so far
  socket,     \* ws_endpoint of each socket
  open,       \* whether the transport of a socket is open
  shown,      \* the newest document written to each socket
  faults

vars == <<revision, writer, current, sub, started, socket, open, shown, faults>>

Subscriptions == 1..MaxSubscriptions
NoSubscription == 0
NoDocument == -1
Document == Nat \cup {NoDocument}

-----------------------------------------------------------------------------
(***************************************************************************)
(* The sockets that are registered with their worker's connection manager. *)
(***************************************************************************)
Registered(w) ==
  {s \in Sockets : Home[s] = w /\ socket[s].pc \in {"registered", "greeting", "serving"}}

Newer(a, b) == IF a < b THEN b ELSE a

\* broadcast_json on one worker.
Broadcast(w, document) ==
  shown' = [s \in Sockets |->
              IF s \in Registered(w) /\ open[s] THEN Newer(shown[s], document)
                                                ELSE shown[s]]

-----------------------------------------------------------------------------
(***************************************************************************)
(* A tick or a message on some worker: commit, broadcast, publish.         *)
(***************************************************************************)
Writer == [pc : {"idle", "broadcast", "publish"}, document : Document]
NotWriting == [pc |-> "idle", document |-> NoDocument]

Commit(w) ==
  /\ writer[w].pc = "idle"
  /\ revision < MaxRevision
  /\ revision' = revision + 1
  /\ writer' = [writer EXCEPT ![w] = [pc |-> "broadcast", document |-> revision + 1]]
  /\ UNCHANGED <<current, sub, started, socket, open, shown, faults>>

BroadcastCommit(w) ==
  /\ writer[w].pc = "broadcast"
  /\ Broadcast(w, writer[w].document)
  /\ writer' = [writer EXCEPT ![w].pc = "publish"]
  /\ UNCHANGED <<revision, current, sub, started, socket, open, faults>>

\* A worker ignores the events it is the source of.
Hears(k, w) == sub[k].stage = "live" /\ sub[k].worker # w

Publish(w) ==
  /\ writer[w].pc = "publish"
  /\ sub' = [k \in Subscriptions |->
               IF Hears(k, w) THEN [sub[k] EXCEPT !.events = @ + 1] ELSE sub[k]]
  /\ writer' = [writer EXCEPT ![w] = NotWriting]
  /\ UNCHANGED <<revision, current, started, socket, open, shown, faults>>

\* PUBLISH fails, or the worker loses the commit between two of these steps.
LosePublication(w) ==
  /\ writer[w].pc # "idle"
  /\ faults < MaxFaults
  /\ faults' = faults + 1
  /\ writer' = [writer EXCEPT ![w] = NotWriting]
  /\ UNCHANGED <<revision, current, sub, started, socket, open, shown>>

-----------------------------------------------------------------------------
(***************************************************************************)
(* A subscription task.  `ready' is its future, `document' what a dispatch *)
(* in progress has read.                                                   *)
(*   subscribing  SUBSCRIBE is on its way                                  *)
(*   live         the events are being consumed                            *)
(*   failing      closes the sockets of the worker one by one              *)
(*   stopping     cancelled, not done yet                                  *)
(***************************************************************************)
Subscription ==
  [worker : Workers \cup {"none"},
   stage : {"none", "subscribing", "live", "failing", "stopping", "done"},
   ready : {"pending", "set", "failed", "cancelled"},
   events : Nat, document : Document, closing : SUBSET Sockets]

NoTask ==
  [worker |-> "none", stage |-> "none", ready |-> "pending", events |-> 0,
   document |-> NoDocument, closing |-> {}]

\* Faulty variant of Resolved: who waits for readiness is not told.
Unresolved(ready, outcome) == ready

\* A future takes its first outcome.
Resolved(ready, outcome) == IF ready = "pending" THEN outcome ELSE ready

Subscribed(k) ==
  /\ sub[k].stage = "subscribing"
  /\ sub' = [sub EXCEPT ![k].stage = "live", ![k].ready = "set"]
  /\ UNCHANGED <<revision, writer, current, started, socket, open, shown, faults>>

\* An event is taken from the channel; its envelope only says that there is
\* something to look up.
Dispatch(k) ==
  /\ sub[k].stage = "live"
  /\ sub[k].events > 0
  /\ sub[k].document = NoDocument
  /\ sub' = [sub EXCEPT ![k].events = @ - 1, ![k].document = revision]
  /\ UNCHANGED <<revision, writer, current, started, socket, open, shown, faults>>

BroadcastEvent(k) ==
  /\ sub[k].stage = "live"
  /\ sub[k].document # NoDocument
  /\ Broadcast(sub[k].worker, sub[k].document)
  /\ sub' = [sub EXCEPT ![k].document = NoDocument]
  /\ UNCHANGED <<revision, writer, current, started, socket, open, faults>>

\* The transport fails: whoever waits for readiness is told, and the sockets
\* that are registered now will be closed.
Break(k) ==
  /\ sub[k].stage \in {"subscribing", "live"}
  /\ faults < MaxFaults
  /\ faults' = faults + 1
  /\ sub' = [sub EXCEPT ![k].stage = "failing",
                        ![k].ready = Resolved(@, "failed"),
                        ![k].events = 0, ![k].document = NoDocument,
                        ![k].closing = Registered(sub[k].worker)]
  /\ UNCHANGED <<revision, writer, current, started, socket, open, shown>>

CloseSocket(k, s) ==
  /\ sub[k].stage = "failing"
  /\ s \in sub[k].closing
  /\ open' = [open EXCEPT ![s] = FALSE]
  /\ sub' = [sub EXCEPT ![k].closing = @ \ {s}]
  /\ UNCHANGED <<revision, writer, current, started, socket, shown, faults>>

WithoutEntry(k) ==
  [w \in Workers |-> IF current[w] = k THEN NoSubscription ELSE current[w]]

\* The task ends; its finally block removes it unless it was replaced.
Finish(k) ==
  /\ \/ sub[k].stage = "failing" /\ sub[k].closing = {}
     \/ sub[k].stage = "stopping"
  /\ sub' = [sub EXCEPT ![k].stage = "done"]
  /\ current' = WithoutEntry(k)
  /\ UNCHANGED <<revision, writer, started, socket, open, shown, faults>>

\* stop_room_events: the task is cancelled, and so is an unresolved readiness.
Stopped(w) ==
  IF current[w] = NoSubscription THEN sub
  ELSE [sub EXCEPT ![current[w]].stage = "stopping",
                   ![current[w]].ready = Resolved(@, "cancelled"),
                   ![current[w]].events = 0,
                   ![current[w]].document = NoDocument,
                   ![current[w]].closing = {}]

-----------------------------------------------------------------------------
(***************************************************************************)
(* The endpoint of a socket, from ensure_room_events to its finally block. *)
(***************************************************************************)
Endpoint ==
  [pc : {"off", "waiting", "sync", "syncing", "accepting", "registered",
         "greeting", "serving", "gone"},
   sub : Nat, creator : BOOLEAN, document : Document]

SetPc(s, pc) == socket' = [socket EXCEPT ![s].pc = pc]

\* ensure_room_events: join the worker's subscription or start one.
EnsureEvents(s) ==
  LET w == Home[s]
      k == started + 1
  IN  /\ socket[s].pc = "off"
      /\ IF current[w] # NoSubscription
         THEN /\ socket' = [socket EXCEPT ![s].pc = "waiting", ![s].sub = current[w]]
              /\ UNCHANGED <<current, sub, started>>
         ELSE /\ started < MaxSubscriptions
              /\ started' = k
              /\ current' = [current EXCEPT ![w] = k]
              /\ sub' = [sub EXCEPT ![k].worker = w, ![k].stage = "subscribing"]
              /\ socket' = [socket EXCEPT ![s].pc = "waiting", ![s].sub = k,
                                          ![s].creator = TRUE]
      /\ UNCHANGED <<revision, writer, open, shown, faults>>

\* Readiness was announced, and the task is still there one turn later.
Awaited(k) == sub[k].ready = "set" /\ sub[k].stage # "done"

\* Faulty variant of NextStage: the creator does not synchronise the others.
NoSync(s) == "accepting"

NextStage(s) == IF socket[s].creator THEN "sync" ELSE "accepting"

EventsReady(s) ==
  /\ socket[s].pc = "waiting"
  /\ Awaited(socket[s].sub)
  /\ SetPc(s, NextStage(s))
  /\ UNCHANGED <<revision, writer, current, sub, started, open, shown, faults>>

\* Readiness failed (1011), was cancelled (the handshake breaks off), or the
\* task was over when the endpoint looked at it.
EventsUnavailable(s) ==
  /\ socket[s].pc = "waiting"
  /\ \/ sub[socket[s].sub].ready \in {"failed", "cancelled"}
     \/ sub[socket[s].sub].ready = "set" /\ sub[socket[s].sub].stage = "done"
  /\ SetPc(s, "gone")
  /\ UNCHANGED <<revision, writer, current, sub, started, open, shown, faults>>

ReadForSync(s) ==
  /\ socket[s].pc = "sync"
  /\ socket' = [socket EXCEPT ![s].pc = "syncing", ![s].document = revision]
  /\ UNCHANGED <<revision, writer, current, sub, started, open, shown, faults>>

BroadcastSync(s) ==
  /\ socket[s].pc = "syncing"
  /\ Broadcast(Home[s], socket[s].document)
  /\ SetPc(s, "accepting")
  /\ UNCHANGED <<revision, writer, current, sub, started, open, faults>>

\* accept() returns, and the socket is registered.
Register(s) ==
  /\ socket[s].pc = "accepting"
  /\ SetPc(s, "registered")
  /\ UNCHANGED <<revision, writer, current, sub, started, open, shown, faults>>

ReadSnapshot(s) ==
  /\ socket[s].pc = "registered"
  /\ socket' = [socket EXCEPT ![s].pc = "greeting", ![s].document = revision]
  /\ UNCHANGED <<revision, writer, current, sub, started, open, shown, faults>>

SendInitial(s) ==
  /\ socket[s].pc = "greeting"
  /\ open[s]
  /\ shown' = [shown EXCEPT ![s] = Newer(@, socket[s].document)]
  /\ SetPc(s, "serving")
  /\ UNCHANGED <<revision, writer, current, sub, started, open, faults>>

Hangup(s) ==
  /\ socket[s].pc \in {"registered", "greeting", "serving"}
  /\ open[s]
  /\ open' = [open EXCEPT ![s] = FALSE]
  /\ UNCHANGED <<revision, writer, current, sub, started, socket, shown, faults>>

\* The finally block: the last socket of the worker stops the subscription.
Leave(s) ==
  LET w == Home[s]
  IN  /\ socket[s].pc \in {"registered", "greeting", "serving"}
      /\ ~open[s]
      /\ SetPc(s, "gone")
      /\ IF Registered(w) = {s}
         THEN /\ sub' = Stopped(w)
              /\ current' = [current EXCEPT ![w] = NoSubscription]
         ELSE UNCHANGED <<sub, current>>
      /\ UNCHANGED <<revision, writer, started, open, shown, faults>>

-----------------------------------------------------------------------------
Init ==
  /\ revision = 0
  /\ writer = [w \in Workers |-> NotWriting]
  /\ current = [w \in Workers |-> NoSubscription]
  /\ sub = [k \in Subscriptions |-> NoTask]
  /\ started = 0
  /\ socket = [s \in Sockets |->
                 [pc |-> "off", sub |-> NoSubscription, creator |-> FALSE,
                  document |-> NoDocument]]
  /\ open = [s \in Sockets |-> TRUE]
  /\ shown = [s \in Sockets |-> NoDocument]
  /\ faults = 0

WriterStep(w) == BroadcastCommit(w) \/ Publish(w)

SubscriptionStep(k) ==
  \/ Subscribed(k)
  \/ Dispatch(k)
  \/ BroadcastEvent(k)
  \/ \E s \in Sockets : CloseSocket(k, s)
  \/ Finish(k)

EndpointStep(s) ==
  \/ EventsReady(s)
  \/ EventsUnavailable(s)
  \/ ReadForSync(s)
  \/ BroadcastSync(s)
  \/ Register(s)
  \/ ReadSnapshot(s)
  \/ SendInitial(s)
  \/ Leave(s)

Next ==
  \/ \E w \in Workers : Commit(w) \/ WriterStep(w) \/ LosePublication(w)
  \/ \E k \in Subscriptions : SubscriptionStep(k) \/ Break(k)
  \/ \E s \in Sockets : EnsureEvents(s) \/ EndpointStep(s) \/ Hangup(s)

Spec == Init /\ [][Next]_vars

-----------------------------------------------------------------------------
TypeOK ==
  /\ revision \in Nat
  /\ writer \in [Workers -> Writer]
  /\ current \in [Workers -> Subscriptions \cup {NoSubscription}]
  /\ sub \in [Subscriptions -> Subscription]
  /\ started \in 0..MaxSubscriptions
  /\ socket \in [Sockets -> Endpoint]
  /\ open \in [Sockets -> BOOLEAN]
  /\ shown \in [Sockets -> Document]
  /\ faults \in Nat

Live(w) == current[w] # NoSubscription /\ sub[current[w]].stage = "live"
Served(s) == socket[s].pc = "serving" /\ open[s]

Quiet ==
  /\ \A w \in Workers : writer[w].pc = "idle"
  /\ \A k \in Subscriptions :
       sub[k].stage = "live" => sub[k].events = 0 /\ sub[k].document = NoDocument
  /\ \A s \in Sockets : socket[s].pc \notin {"waiting", "sync", "syncing"}

(* The subscription handoff: when all is quiet, a socket of a worker with a *)
(* live subscription shows the canonical document.  Nothing falls between   *)
(* the acknowledgement of the subscription, the synchronisation of sockets  *)
(* that are there already, the registration and the initial snapshot        *)
(* (contracts.md, subscription handoff).                                    *)
SubscribedIsCurrent ==
  Quiet /\ faults = 0 =>
    \A s \in Sockets : Served(s) /\ Live(Home[s]) => shown[s] = revision

(* contracts.md says of the handoff that "the active subscriber covers      *)
(* later events, eliminating the initial snapshot/subscription gap": when   *)
(* all is quiet and nothing was lost, every served socket is current.       *)
ServedIsCurrent ==
  Quiet /\ faults = 0 => \A s \in Sockets : Served(s) => shown[s] = revision

(* At most one subscription of a worker consumes events, and it is the one  *)
(* the worker knows and can stop.                                           *)
SubscriptionsAreKnown ==
  \A k \in Subscriptions :
    sub[k].stage \in {"subscribing", "live"} => current[sub[k].worker] = k

(* Whoever connects is served or told: an endpoint waits only for a         *)
(* readiness that has an outcome or a subscription that still works on one, *)
(* although others stop, cancel or lose the subscription meanwhile.         *)
WaitersAreTold ==
  \A s \in Sockets :
    socket[s].pc = "waiting" /\ sub[socket[s].sub].ready = "pending" =>
      sub[socket[s].sub].stage = "subscribing"

(* A subscription that consumes events is the one its worker can stop, and  *)
(* nobody waits for the readiness of one that has gone: see                 *)
(* SubscriptionsAreKnown and WaitersAreTold.                                *)
NoSubscriptionIsLost == SubscriptionsAreKnown /\ WaitersAreTold
=============================================================================
