------------------------------- MODULE Sockets -------------------------------
(***************************************************************************)
(* The sockets of one room on one worker: the endpoint coroutine of each   *)
(* socket, the scheduler and the Pub/Sub consumer, all of which deliver    *)
(* documents through the same LocalConnectionManager.                      *)
(*                                                                         *)
(*   backend/connection_manager.py  LocalConnectionManager                 *)
(*   backend/websocket_handler.py   ws_endpoint                            *)
(*   backend/event_bus.py           dispatch_envelope, sync_room_from_store*)
(*                                                                         *)
(* Coroutines switch only where they are suspended.  A step resumes one,   *)
(* and runs it to its next suspension: a Redis call, a contended send      *)
(* lock, a send_text, a close.  A document is its generation and revision. *)
(***************************************************************************)
EXTENDS Integers, Sequences, FiniteSets

CONSTANTS
  Sockets,        \* WebSocket objects; each connects once
  Ticker,         \* the coroutine of the scheduler
  Consumer,       \* the coroutine of the Pub/Sub subscription
  MaxInstances,   \* bound: generations of the room
  MaxRevision     \* bound: revisions of a generation

ASSUME SocketsAssumption ==
  /\ Ticker # Consumer
  /\ {Ticker, Consumer} \cap Sockets = {}
  /\ MaxInstances \in Nat
  /\ MaxRevision \in Nat

VARIABLES
  room,      \* the canonical document in Redis
  news,      \* events of other workers that are still to be delivered
  endpoint,  \* ws_endpoint of each socket
  up,        \* whether the transport of a socket is open
  manager,   \* the LocalConnectionManager, as far as this room goes
  task,      \* the delivery each coroutine is executing
  shown      \* history: the last document written to each socket

vars == <<room, news, endpoint, up, manager, task, shown>>

Tasks == Sockets \cup {Ticker, Consumer}
Instances == 1..MaxInstances

NoRevision == -1
Revision == Nat \cup {NoRevision}

-----------------------------------------------------------------------------
(***************************************************************************)
(* The manager: `bound' is _connections of the room (0: not registered),   *)
(* `roomMark' is _last_state_revision, `mark' is _socket_state_revision.   *)
(* `line' is a send lock with its waiters: the head holds it.              *)
(***************************************************************************)
EmptyManager ==
  [bound    |-> [s \in Sockets |-> 0],
   roomMark |-> [i \in Instances |-> NoRevision],
   mark     |-> [s \in Sockets |-> NoRevision],
   line     |-> [s \in Sockets |-> <<>>]]

Registered(m) == {s \in Sockets : m.bound[s] # 0}

Connect(m, s, instance) ==
  [m EXCEPT !.bound[s] = instance, !.mark[s] = NoRevision]

Disconnect(m, s) ==
  LET left == Registered(m) \ {s}
      forgotten == {i \in Instances :
                      \/ left = {}
                      \/ i = m.bound[s] /\ \A r \in left : m.bound[r] # i}
  IN  IF Registered(m) = {} THEN m
      ELSE [m EXCEPT
              !.bound[s] = 0,
              !.mark[s] = NoRevision,
              !.roomMark = [i \in Instances |->
                              IF i \in forgotten THEN NoRevision ELSE @[i]]]

Queue(m, s, t) == [m EXCEPT !.line[s] = Append(@, t)]

Release(m, s) == [m EXCEPT !.line[s] = Tail(@)]
Holds(m, s, t) == m.line[s] # <<>> /\ Head(m.line[s]) = t

\* Faulty variant of Superseded: a repeated revision is held back too.
RepeatSuperseded(m, d) == d.revision <= m.roomMark[d.instance]

\* A whole broadcast is dropped when a newer document has gone out.
Superseded(m, d) == d.revision < m.roomMark[d.instance]

\* Faulty variant of Seen: every document is written.
NeverSeen(m, s, d) == FALSE

\* One socket is skipped when it has been written this document or a newer one.
Seen(m, s, d) == d.revision <= m.mark[s]

\* What a completed write leaves behind.
Noted(m, s, d) ==
  [m EXCEPT !.mark[s] = d.revision,
            !.roomMark[d.instance] = IF d.revision > @ THEN d.revision ELSE @]

-----------------------------------------------------------------------------
(***************************************************************************)
(* A delivery: broadcast_json, or the initial close_mismatched_generations *)
(* and send_json of an endpoint.  Both close the sockets of other          *)
(* generations first, then write to the targets one after the other.       *)
(*   read     about to read the document it delivers                       *)
(*   ready    has the document, and has not started                        *)
(*   close    waits for, or holds, the lock of the socket it closes        *)
(*   queued   waits for the lock of the socket it writes to                *)
(*   write    in send_text, under that lock                                *)
(*   expel    closes a socket that send_json found mismatched; no lock     *)
(***************************************************************************)
NoDelivery ==
  [stage |-> "idle", instance |-> 0, revision |-> NoRevision,
   todo |-> {}, at |-> {}]

Delivery ==
  [stage : {"idle", "read", "ready", "close", "queued", "write", "expel"},
   instance : Nat, revision : Revision,
   todo : SUBSET Sockets, at : SUBSET Sockets]

Greets(t) == t \in Sockets /\ endpoint[t].pc = "greeting"

\* Where an endpoint goes on after a delivery.
EndpointAfter(m, t) ==
  IF t \notin Sockets THEN endpoint
  ELSE [endpoint EXCEPT ![t].pc =
          CASE @ = "syncing"  -> "accepting"
            [] @ = "greeting" -> IF m.bound[t] # 0 THEN "serving" ELSE "leaving"
            [] OTHER          -> @]

Done(m, t) ==
  /\ manager' = m
  /\ task' = [task EXCEPT ![t] = NoDelivery]
  /\ endpoint' = EndpointAfter(m, t)
  /\ UNCHANGED shown

Mismatched(m, s, d) == m.bound[s] \notin {0, d.instance}

\* The remaining targets at which the loop over them will be suspended.  It
\* passes the others without an effect, now or later.
Stops(m, d) ==
  {s \in d.todo : /\ m.bound[s] # 0
                  /\ \/ Mismatched(m, s, d)
                     \/ m.line[s] # <<>>
                     \/ ~Seen(m, s, d)}

Write(m, t, d, s) ==
  /\ manager' = m
  /\ task' = [task EXCEPT ![t] = [d EXCEPT !.stage = "write", !.at = {s}]]
  /\ shown' = IF up[s]
              THEN [shown EXCEPT ![s] = [instance |-> d.instance, revision |-> d.revision]]
              ELSE shown
  /\ UNCHANGED endpoint

Pause(m, t, d) ==
  /\ manager' = m
  /\ task' = [task EXCEPT ![t] = d]
  /\ UNCHANGED <<endpoint, shown>>

\* The loop over the sockets: on to the next suspension, or the end.
SendOn(m, t, d) ==
  \/ /\ Stops(m, d) = {}
     /\ Done(m, t)
  \/ \E s \in Stops(m, d) :
       LET rest == [d EXCEPT !.todo = @ \ {s}, !.at = {s}]
       IN  CASE Mismatched(m, s, d) -> Pause(m, t, [rest EXCEPT !.stage = "expel"])
             [] ~Mismatched(m, s, d) /\ m.line[s] # <<>> ->
                  Pause(Queue(m, s, t), t, [rest EXCEPT !.stage = "queued"])
             [] OTHER -> Write(Queue(m, s, t), t, rest, s)

\* After the sweep.  No suspension separates the mark from the first socket.
BeginSend(m, t, d) ==
  IF Greets(t) THEN SendOn(m, t, [d EXCEPT !.todo = {t}])
  ELSE IF Registered(m) = {} \/ Superseded(m, d) THEN Done(m, t)
  ELSE SendOn([m EXCEPT !.roomMark[d.instance] = d.revision], t,
              [d EXCEPT !.todo = Registered(m)])

\* Faulty variant of Obsolete: the sweep spares the sockets it should close.
SpareObsolete(m, d) == {}

Obsolete(m, d) == {s \in d.todo : Mismatched(m, s, d)}

\* close_mismatched_generations: on to the next close, or to the sending.
Sweep(m, t, d) ==
  \/ /\ Obsolete(m, d) = {}
     /\ BeginSend(m, t, d)
  \/ \E s \in Obsolete(m, d) :
       Pause(Queue(m, s, t), t,
             [d EXCEPT !.stage = "close", !.todo = @ \ {s}, !.at = {s}])

-----------------------------------------------------------------------------
(***************************************************************************)
(* The steps of a delivery.                                                *)
(***************************************************************************)
StartDelivery(t) ==
  /\ task[t].stage = "ready"
  /\ Sweep(manager, t, [task[t] EXCEPT !.todo = Registered(manager)])
  /\ UNCHANGED <<room, news, up>>

\* The close of a mismatched socket is over; a socket that was gone when the
\* lock came free is passed over.
FinishClose(t, s) ==
  /\ task[t].stage = "close" /\ task[t].at = {s}
  /\ Holds(manager, s, t)
  /\ up' = IF manager.bound[s] # 0 THEN [up EXCEPT ![s] = FALSE] ELSE up
  /\ Sweep(Release(IF manager.bound[s] # 0 THEN Disconnect(manager, s) ELSE manager, s),
           t, task[t])
  /\ UNCHANGED <<room, news>>

\* The lock came free: look again, and write or pass the socket over.
Acquire(t, s) ==
  /\ task[t].stage = "queued" /\ task[t].at = {s}
  /\ Holds(manager, s, t)
  /\ IF manager.bound[s] # 0 /\ ~Seen(manager, s, task[t])
     THEN Write(manager, t, task[t], s)
     ELSE SendOn(Release(manager, s), t, task[t])
  /\ UNCHANGED <<room, news, up>>

\* send_text returns: what was written is noted, even for a socket that has
\* been unregistered meanwhile.
FinishWrite(t, s) ==
  /\ task[t].stage = "write" /\ task[t].at = {s}
  /\ shown[s] = [instance |-> task[t].instance, revision |-> task[t].revision]
  /\ SendOn(Release(Noted(manager, s, task[t]), s), t, task[t])
  /\ UNCHANGED <<room, news, up>>

\* send_text raises.
FailWrite(t, s) ==
  /\ task[t].stage = "write" /\ task[t].at = {s}
  /\ ~up[s]
  /\ SendOn(Release(Disconnect(manager, s), s), t, task[t])
  /\ UNCHANGED <<room, news, up>>

FinishExpel(t, s) ==
  /\ task[t].stage = "expel" /\ task[t].at = {s}
  /\ up' = [up EXCEPT ![s] = FALSE]
  /\ SendOn(Disconnect(manager, s), t, task[t])
  /\ UNCHANGED <<room, news>>

DeliveryStep(t) ==
  \/ StartDelivery(t)
  \/ \E s \in Sockets : \/ FinishClose(t, s) \/ Acquire(t, s)
                        \/ FinishWrite(t, s) \/ FailWrite(t, s)
                        \/ FinishExpel(t, s)

-----------------------------------------------------------------------------
(***************************************************************************)
(* Where deliveries come from.                                             *)
(***************************************************************************)
Deliver(t, instance, revision) ==
  task' = [task EXCEPT ![t] = [NoDelivery EXCEPT !.stage = "ready",
                                 !.instance = instance, !.revision = revision]]

NextRevision == room' = [room EXCEPT !.revision = @ + 1]

\* The scheduler of this worker commits a tick, and will broadcast it.
TickCommits ==
  /\ task[Ticker].stage = "idle"
  /\ room.live /\ room.revision < MaxRevision
  /\ NextRevision
  /\ Deliver(Ticker, room.instance, room.revision + 1)
  /\ UNCHANGED <<news, endpoint, up, manager, shown>>

\* Another worker commits and publishes.
RemoteCommit ==
  /\ room.live /\ room.revision < MaxRevision
  /\ NextRevision
  /\ news' = news + 1
  /\ UNCHANGED <<endpoint, up, manager, task, shown>>

\* An event reaches the consumer, which looks the document up.
Dispatch ==
  /\ task[Consumer].stage = "idle"
  /\ news > 0
  /\ news' = news - 1
  /\ task' = [task EXCEPT ![Consumer].stage = "read"]
  /\ UNCHANGED <<room, endpoint, up, manager, shown>>

\* The canonical snapshot, of dispatch_envelope or sync_room_from_store.
ReadCanonical(t) ==
  /\ task[t].stage = "read"
  /\ IF room.live
     THEN Deliver(t, room.instance, room.revision) /\ UNCHANGED endpoint
     ELSE /\ task' = [task EXCEPT ![t] = NoDelivery]
          /\ endpoint' = EndpointAfter(manager, t)
  /\ UNCHANGED <<room, news, up, manager, shown>>

-----------------------------------------------------------------------------
(***************************************************************************)
(* The endpoint of a socket.                                               *)
(***************************************************************************)
Endpoint ==
  [pc : {"off", "accepting", "syncing", "registered", "greeting", "serving",
         "leaving", "gone"},
   bound : Nat]

\* The token is one of the present generation.  The endpoint that starts the
\* subscription synchronises the others before it accepts.
Authorize(s) ==
  /\ endpoint[s].pc = "off"
  /\ room.live
  /\ \/ /\ endpoint' = [endpoint EXCEPT ![s] = [pc |-> "accepting", bound |-> room.instance]]
        /\ UNCHANGED task
     \/ /\ endpoint' = [endpoint EXCEPT ![s] = [pc |-> "syncing", bound |-> room.instance]]
        /\ task' = [task EXCEPT ![s].stage = "read"]
  /\ UNCHANGED <<room, news, up, manager, shown>>

\* accept() returns and the socket is registered.
Register(s) ==
  /\ endpoint[s].pc = "accepting"
  /\ endpoint' = [endpoint EXCEPT ![s].pc = "registered"]
  /\ manager' = Connect(manager, s, endpoint[s].bound)
  /\ UNCHANGED <<room, news, up, task, shown>>

Admits(s) == room.live /\ room.instance = endpoint[s].bound

\* The second authorization, whose document is the initial message.
Reauthorize(s) ==
  /\ endpoint[s].pc = "registered"
  /\ \/ /\ Admits(s)
        /\ endpoint' = [endpoint EXCEPT ![s].pc = "greeting"]
        /\ Deliver(s, endpoint[s].bound, room.revision)
     \/ /\ endpoint' = [endpoint EXCEPT ![s].pc = "leaving"]  \* 1008, or 1011 in an outage
        /\ UNCHANGED task
  /\ UNCHANGED <<room, news, up, manager, shown>>

\* A message of this socket is committed, or it closes the socket: 1008 when
\* the generation is gone, 1011 in an outage or after too many conflicts.
Mutate(s) ==
  /\ endpoint[s].pc = "serving" /\ task[s].stage = "idle"
  /\ up[s]
  /\ \/ /\ room.live /\ room.instance = endpoint[s].bound
        /\ room.revision < MaxRevision
        /\ NextRevision
        /\ Deliver(s, room.instance, room.revision + 1)
        /\ UNCHANGED endpoint
     \/ /\ endpoint' = [endpoint EXCEPT ![s].pc = "leaving"]
        /\ UNCHANGED <<room, task>>
  /\ UNCHANGED <<news, up, manager, shown>>

\* The finally block.
Leave(s) ==
  /\ task[s].stage = "idle"
  /\ \/ endpoint[s].pc = "leaving"
     \/ endpoint[s].pc = "serving" /\ ~up[s]
  /\ endpoint' = [endpoint EXCEPT ![s].pc = "gone"]
  /\ up' = [up EXCEPT ![s] = FALSE]
  /\ manager' = Disconnect(manager, s)
  /\ UNCHANGED <<room, news, task, shown>>

\* The browser goes away, or a failed subscription closes its sockets.
Hangup(s) ==
  /\ endpoint[s].pc \notin {"off", "gone"}
  /\ up[s]
  /\ up' = [up EXCEPT ![s] = FALSE]
  /\ UNCHANGED <<room, news, endpoint, manager, task, shown>>

-----------------------------------------------------------------------------
Vanish ==
  /\ room.live
  /\ room' = [room EXCEPT !.live = FALSE]
  /\ UNCHANGED <<news, endpoint, up, manager, task, shown>>

Recreate ==
  /\ ~room.live
  /\ room.instance < MaxInstances
  /\ room' = [instance |-> room.instance + 1, revision |-> 0, live |-> TRUE]
  /\ UNCHANGED <<news, endpoint, up, manager, task, shown>>

Init ==
  /\ room = [instance |-> 0, revision |-> 0, live |-> FALSE]
  /\ news = 0
  /\ endpoint = [s \in Sockets |-> [pc |-> "off", bound |-> 0]]
  /\ up = [s \in Sockets |-> TRUE]
  /\ manager = EmptyManager
  /\ task = [t \in Tasks |-> NoDelivery]
  /\ shown = [s \in Sockets |-> [instance |-> 0, revision |-> NoRevision]]

EndpointStep(s) ==
  \/ Register(s)
  \/ Reauthorize(s)
  \/ Leave(s)

Next ==
  \/ TickCommits \/ RemoteCommit \/ Dispatch \/ Vanish \/ Recreate
  \/ \E t \in Tasks : DeliveryStep(t) \/ ReadCanonical(t)
  \/ \E s \in Sockets : \/ Authorize(s) \/ EndpointStep(s)
                        \/ Mutate(s) \/ Hangup(s)

Spec == Init /\ [][Next]_vars

-----------------------------------------------------------------------------
TypeOK ==
  /\ room \in [instance : 0..MaxInstances, revision : Nat, live : BOOLEAN]
  /\ news \in Nat
  /\ endpoint \in [Sockets -> Endpoint]
  /\ up \in [Sockets -> BOOLEAN]
  /\ manager \in [bound    : [Sockets -> 0..MaxInstances],
                  roomMark : [Instances -> Revision],
                  mark     : [Sockets -> Revision],
                  line     : [Sockets -> Seq(Tasks)]]
  /\ task \in [Tasks -> Delivery]
  /\ shown \in [Sockets -> [instance : 0..MaxInstances, revision : Revision]]

(* A socket is only ever written documents of the generation its token is   *)
(* for, each with a higher revision than the one before: "never newer ->    *)
(* stale" (send_json), however the initial snapshot, ticks, messages and    *)
(* events overlap, and although revisions restart when a room is recreated. *)
WrittenInOrder ==
  \A s \in Sockets : shown'[s] # shown[s] =>
    /\ shown'[s].instance = endpoint[s].bound
    /\ shown'[s].revision > shown[s].revision

DeliveredInOrder == [][WrittenInOrder]_vars

(* When all is quiet, every open socket of the present generation has been  *)
(* written the present document: no suppressed, superseded or interrupted   *)
(* delivery leaves a socket behind, nor does a socket that joined in the    *)
(* middle of one.                                                           *)
Quiet == news = 0 /\ \A t \in Tasks : task[t].stage = "idle"

Current(s) ==
  /\ endpoint[s].pc = "serving" /\ up[s]
  /\ room.live /\ room.instance = endpoint[s].bound

NobodyIsBehind ==
  Quiet => \A s \in Sockets : Current(s) => shown[s].revision = room.revision

(* Sockets that have been greeted and are registered together belong to one *)
(* generation: the sweep of whoever arrives with the new generation, and    *)
(* the second authorization of whoever is late with the old one, leave no   *)
(* gap between them.                                                        *)
Greeted(s) == manager.bound[s] # 0 /\ endpoint[s].pc = "serving"

OneGeneration ==
  \A r, s \in Sockets :
    Greeted(r) /\ Greeted(s) => manager.bound[r] = manager.bound[s]
=============================================================================
