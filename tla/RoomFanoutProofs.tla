--------------------------- MODULE RoomFanoutProofs ---------------------------
(***************************************************************************)
(* The subscription handoff, for any number of workers, sockets, commits   *)
(* and subscriptions: no subscription is lost, nobody waits for one that   *)
(* has gone, and a socket of a subscribed worker is current when all is    *)
(* quiet.                                                                  *)
(***************************************************************************)
EXTENDS RoomFanout, TLAPS

\* A worker's entry is the subscription it started last for that purpose, and
\* a task that has not been started has no state.
Entries ==
  /\ \A w \in Workers : current[w] <= started
  /\ \A w \in Workers : current[w] # NoSubscription =>
       sub[current[w]].worker = w
  /\ \A k \in Subscriptions : /\ sub[k].stage = "none" <=> k > started
                              /\ sub[k].stage # "none" => sub[k].worker \in Workers

\* A future has no outcome exactly as long as its task works on one.
Futures ==
  \A k \in Subscriptions :
    sub[k].ready = "pending" <=> sub[k].stage \in {"none", "subscribing"}

\* An endpoint waits for a task that was started.
Waits ==
  \A s \in Sockets : socket[s].pc = "waiting" =>
    socket[s].sub \in Subscriptions /\ socket[s].sub <= started

KnownInv == TypeOK /\ Entries /\ Futures /\ Waits /\ SubscriptionsAreKnown

(* Initially there is no task, and nobody waits. *)
LEMMA KnownInit == Init => KnownInv
BY FanoutAssumption
   DEF Init, KnownInv, TypeOK, Entries, Futures, Waits, SubscriptionsAreKnown,
       NoTask, NotWriting, Writer, Subscription, Subscriptions, Endpoint,
       Document, NoDocument, NoSubscription

(* A step that writes documents or commits leaves the tasks, the entries    *)
(* and whoever waits as they are.                                           *)
LEMMA KnownAside ==
  ASSUME KnownInv, UNCHANGED <<current, sub, started, socket>>, TypeOK'
  PROVE  KnownInv'
BY DEF KnownInv, Entries, Futures, Waits, SubscriptionsAreKnown

(* A step of an endpoint that does not begin to wait. *)
LEMMA KnownEndpoint ==
  ASSUME KnownInv, UNCHANGED <<current, sub, started>>, TypeOK',
         \A s \in Sockets : socket'[s].pc = "waiting" => socket'[s] = socket[s]
  PROVE  KnownInv'
BY DEF KnownInv, Entries, Futures, Waits, SubscriptionsAreKnown

(* A step of one task that keeps its worker: it may end, and does not begin *)
(* to work.                                                                 *)
LEMMA KnownTask ==
  ASSUME KnownInv, NEW k \in Subscriptions, NEW t \in Subscription,
         sub[k].stage # "none", t.worker = sub[k].worker, t.stage # "none",
         t.stage \in {"subscribing", "live"} => sub[k].stage \in {"subscribing", "live"},
         t.ready = "pending" <=> t.stage = "subscribing",
         sub' = [sub EXCEPT ![k] = t],
         UNCHANGED <<current, started, socket>>, TypeOK'
  PROVE  KnownInv'
<1>1. \A j \in Subscriptions : sub'[j] = IF j = k THEN t ELSE sub[j]
  BY DEF KnownInv, TypeOK
<1>2. Entries' /\ Futures'
  BY <1>1 DEF KnownInv, TypeOK, Entries, Futures
<1>3. Waits' /\ SubscriptionsAreKnown'
  BY <1>1 DEF KnownInv, Waits, SubscriptionsAreKnown
<1>4. QED
  BY <1>2, <1>3 DEF KnownInv

-----------------------------------------------------------------------------
(* The steps of a worker keep the types. *)
LEMMA WriterTypes ==
  ASSUME TypeOK, NEW w \in Workers,
         Commit(w) \/ BroadcastCommit(w) \/ Publish(w) \/ LosePublication(w)
  PROVE  TypeOK'
<1>. USE DEF Document, NoDocument
<1>1. CASE Commit(w)
  BY <1>1 DEF Commit, TypeOK, Writer
<1>2. CASE BroadcastCommit(w)
  BY <1>2 DEF BroadcastCommit, Broadcast, Newer, TypeOK, Writer
<1>3. CASE Publish(w)
  <2>1. sub' \in [Subscriptions -> Subscription]
    <3>1. \A k \in Subscriptions :
            [sub[k] EXCEPT !.events = @ + 1] \in Subscription /\ sub[k] \in Subscription
      BY DEF TypeOK, Subscription
    <3>2. QED
      BY <1>3, <3>1 DEF Publish
  <2>2. writer' \in [Workers -> Writer]
    BY <1>3 DEF Publish, TypeOK, Writer, NotWriting
  <2>3. QED
    BY <1>3, <2>1, <2>2 DEF Publish, TypeOK
<1>4. CASE LosePublication(w)
  BY <1>4 DEF LosePublication, TypeOK, Writer, NotWriting
<1>5. QED
  BY <1>1, <1>2, <1>3, <1>4

(* The steps of a subscription keep the types. *)
LEMMA SubscriptionTypes ==
  ASSUME TypeOK, NEW k \in Subscriptions, SubscriptionStep(k) \/ Break(k)
  PROVE  TypeOK'
<1>. USE DEF Document, NoDocument
<1>0. sub[k] \in Subscription
  BY DEF TypeOK
<1>1. CASE Subscribed(k)
  BY <1>0, <1>1 DEF Subscribed, TypeOK, Subscription
<1>2. CASE Dispatch(k)
  BY <1>0, <1>2 DEF Dispatch, TypeOK, Subscription
<1>3. CASE BroadcastEvent(k)
  BY <1>0, <1>3 DEF BroadcastEvent, Broadcast, Newer, TypeOK, Subscription
<1>4. ASSUME NEW s \in Sockets, CloseSocket(k, s) PROVE TypeOK'
  BY <1>0, <1>4 DEF CloseSocket, TypeOK, Subscription
<1>5. CASE Finish(k)
  BY <1>0, <1>5 DEF Finish, WithoutEntry, TypeOK, Subscription
<1>6. CASE Break(k)
  <2>. DEFINE t == [sub[k] EXCEPT !.stage = "failing",
                        !.ready = Resolved(@, "failed"),
                        !.events = 0, !.document = NoDocument,
                        !.closing = Registered(sub[k].worker)]
  <2>1. t \in Subscription
    BY <1>0 DEF Subscription, Resolved, Registered
  <2>2. sub' = [sub EXCEPT ![k] = t]
    BY <1>6 DEF Break, TypeOK, Subscription
  <2>3. faults' \in Nat /\ UNCHANGED <<revision, writer, current, started, socket, open, shown>>
    BY <1>6 DEF Break, TypeOK
  <2>. HIDE DEF t
  <2>4. QED
    BY <2>1, <2>2, <2>3 DEF TypeOK
<1>7. QED
  BY <1>1, <1>2, <1>3, <1>4, <1>5, <1>6 DEF SubscriptionStep

(* The end of the last socket keeps the types. *)
LEMMA StoppedTypes ==
  ASSUME TypeOK, NEW w \in Workers
  PROVE  Stopped(w) \in [Subscriptions -> Subscription]
<1>. DEFINE k == current[w]
            t == [sub[k] EXCEPT !.stage = "stopping", !.ready = Resolved(@, "cancelled"),
                                !.events = 0, !.document = NoDocument, !.closing = {}]
<1>1. CASE k = NoSubscription
  BY <1>1 DEF Stopped, TypeOK
<1>2. CASE k # NoSubscription
  <2>1. k \in Subscriptions /\ sub[k] \in Subscription
    BY <1>2 DEF TypeOK
  <2>2. t \in Subscription
    BY <2>1 DEF Subscription, Resolved, Document, NoDocument
  <2>3. Stopped(w) = [sub EXCEPT ![k] = t]
    BY <1>2 DEF Stopped
  <2>. HIDE DEF k, t
  <2>4. QED
    BY <2>1, <2>2, <2>3 DEF TypeOK
<1>3. QED
  BY <1>1, <1>2

(* The steps of an endpoint keep the types. *)
LEMMA EndpointTypes ==
  ASSUME TypeOK, NEW s \in Sockets, EnsureEvents(s) \/ EndpointStep(s) \/ Hangup(s)
  PROVE  TypeOK'
<1>. USE DEF Document, NoDocument
<1>0. socket[s] \in Endpoint /\ Home[s] \in Workers
  BY FanoutAssumption DEF TypeOK
<1>1. CASE EnsureEvents(s)
  <2>1. CASE current[Home[s]] # NoSubscription
    <3>1. current[Home[s]] \in Nat
      BY <1>0, FanoutAssumption DEF TypeOK, Subscriptions, NoSubscription
    <3>2. QED
      BY <1>0, <1>1, <2>1, <3>1 DEF EnsureEvents, TypeOK, Endpoint
  <2>2. CASE current[Home[s]] = NoSubscription
    <3>1. started + 1 \in Subscriptions /\ started + 1 \in Nat
      BY <1>1, <2>2, FanoutAssumption DEF EnsureEvents, TypeOK, Subscriptions
    <3>2. sub' \in [Subscriptions -> Subscription]
      BY <1>0, <1>1, <2>2, <3>1 DEF EnsureEvents, TypeOK, Subscription
    <3>3. socket' \in [Sockets -> Endpoint]
      BY <1>0, <1>1, <2>2, <3>1 DEF EnsureEvents, TypeOK, Endpoint
    <3>4. current' \in [Workers -> Subscriptions \cup {NoSubscription}] /\ started' \in 0..MaxSubscriptions
      BY <1>0, <1>1, <2>2, <3>1 DEF EnsureEvents, TypeOK, Subscriptions
    <3>5. QED
      BY <1>1, <2>2, <3>2, <3>3, <3>4 DEF EnsureEvents, TypeOK
  <2>3. QED
    BY <2>1, <2>2
<1>2. CASE EventsReady(s)
  BY <1>0, <1>2 DEF EventsReady, SetPc, NextStage, TypeOK, Endpoint
<1>3. CASE EventsUnavailable(s)
  BY <1>0, <1>3 DEF EventsUnavailable, SetPc, TypeOK, Endpoint
<1>4. CASE ReadForSync(s)
  BY <1>0, <1>4 DEF ReadForSync, TypeOK, Endpoint
<1>5. CASE BroadcastSync(s)
  BY <1>0, <1>5 DEF BroadcastSync, Broadcast, Newer, SetPc, TypeOK, Endpoint
<1>6. CASE Register(s)
  BY <1>0, <1>6 DEF Register, SetPc, TypeOK, Endpoint
<1>7. CASE ReadSnapshot(s)
  BY <1>0, <1>7 DEF ReadSnapshot, TypeOK, Endpoint
<1>8. CASE SendInitial(s)
  BY <1>0, <1>8 DEF SendInitial, Newer, SetPc, TypeOK, Endpoint
<1>9. CASE Leave(s)
  BY <1>0, <1>9, StoppedTypes DEF Leave, SetPc, TypeOK, Endpoint
<1>10. CASE Hangup(s)
  BY <1>10 DEF Hangup, TypeOK
<1>11. QED
  BY <1>1, <1>2, <1>3, <1>4, <1>5, <1>6, <1>7, <1>8, <1>9, <1>10 DEF EndpointStep

(* Whoever commits, publishes or loses a publication starts, stops and      *)
(* replaces no subscription.                                                *)
LEMMA WriterKnown ==
  ASSUME KnownInv, NEW w \in Workers,
         Commit(w) \/ BroadcastCommit(w) \/ Publish(w) \/ LosePublication(w)
  PROVE  KnownInv'
<1>1. TypeOK'
  BY WriterTypes DEF KnownInv
<1>2. CASE Publish(w)
  <2>1. \A k \in Subscriptions :
          /\ sub'[k].worker = sub[k].worker /\ sub'[k].stage = sub[k].stage
          /\ sub'[k].ready = sub[k].ready
    BY <1>2 DEF Publish, KnownInv, TypeOK, Subscription
  <2>2. UNCHANGED <<current, started, socket>>
    BY <1>2 DEF Publish
  <2>3. QED
    BY <1>1, <2>1, <2>2 DEF KnownInv, TypeOK, Entries, Futures, Waits, SubscriptionsAreKnown
<1>3. QED
  BY <1>1, <1>2, KnownAside DEF Commit, BroadcastCommit, LosePublication

(* A task that works keeps its entry; one that ends takes no other's.       *)
LEMMA SubscriptionKnown ==
  ASSUME KnownInv, NEW k \in Subscriptions, SubscriptionStep(k) \/ Break(k)
  PROVE  KnownInv'
<1>0. TypeOK' /\ sub[k] \in Subscription
  BY SubscriptionTypes DEF KnownInv, TypeOK
<1>. USE DEF Subscription, Document, NoDocument
<1>1. CASE Subscribed(k)
  <2>. DEFINE t == [sub[k] EXCEPT !.stage = "live", !.ready = "set"]
  <2>1. /\ t \in Subscription /\ t.worker = sub[k].worker
        /\ t.stage = "live" /\ t.ready = "set"
    BY <1>0
  <2>2. sub' = [sub EXCEPT ![k] = t] /\ sub[k].stage = "subscribing"
    BY <1>1 DEF Subscribed, KnownInv, TypeOK
  <2>. HIDE DEF t
  <2>3. QED
    BY <1>0, <1>1, <2>1, <2>2, KnownTask DEF Subscribed
<1>2. CASE Dispatch(k)
  <2>. DEFINE t == [sub[k] EXCEPT !.events = @ - 1, !.document = revision]
  <2>1. /\ t \in Subscription /\ t.worker = sub[k].worker
        /\ t.stage = sub[k].stage /\ t.ready = sub[k].ready
    BY <1>0, <1>2 DEF Dispatch, KnownInv, TypeOK
  <2>2. sub' = [sub EXCEPT ![k] = t] /\ sub[k].stage = "live" /\ sub[k].ready # "pending"
    BY <1>2 DEF Dispatch, KnownInv, TypeOK, Futures
  <2>. HIDE DEF t
  <2>3. QED
    BY <1>0, <1>2, <2>1, <2>2, KnownTask DEF Dispatch
<1>3. CASE BroadcastEvent(k)
  <2>. DEFINE t == [sub[k] EXCEPT !.document = NoDocument]
  <2>1. /\ t \in Subscription /\ t.worker = sub[k].worker
        /\ t.stage = sub[k].stage /\ t.ready = sub[k].ready
    BY <1>0
  <2>2. sub' = [sub EXCEPT ![k] = t] /\ sub[k].stage = "live" /\ sub[k].ready # "pending"
    BY <1>3 DEF BroadcastEvent, KnownInv, TypeOK, Futures
  <2>. HIDE DEF t
  <2>3. QED
    BY <1>0, <1>3, <2>1, <2>2, KnownTask DEF BroadcastEvent
<1>4. ASSUME NEW s \in Sockets, CloseSocket(k, s) PROVE KnownInv'
  <2>. DEFINE t == [sub[k] EXCEPT !.closing = @ \ {s}]
  <2>1. /\ t \in Subscription /\ t.worker = sub[k].worker
        /\ t.stage = sub[k].stage /\ t.ready = sub[k].ready
    BY <1>0
  <2>2. sub' = [sub EXCEPT ![k] = t] /\ sub[k].stage = "failing" /\ sub[k].ready # "pending"
    BY <1>4 DEF CloseSocket, KnownInv, TypeOK, Futures
  <2>. HIDE DEF t
  <2>3. QED
    BY <1>0, <1>4, <2>1, <2>2, KnownTask DEF CloseSocket
<1>5. CASE Break(k)
  <2>. DEFINE t == [sub[k] EXCEPT !.stage = "failing",
                        !.ready = Resolved(@, "failed"),
                        !.events = 0, !.document = NoDocument,
                        !.closing = Registered(sub[k].worker)]
  <2>1. /\ t \in Subscription /\ t.worker = sub[k].worker
        /\ t.stage = "failing" /\ t.ready # "pending"
    BY <1>0 DEF Resolved, Registered
  <2>2. /\ sub' = [sub EXCEPT ![k] = t]
        /\ sub[k].stage # "none"
    BY <1>5 DEF Break, KnownInv, TypeOK
  <2>. HIDE DEF t
  <2>3. QED
    BY <1>0, <1>5, <2>1, <2>2, KnownTask DEF Break
<1>6. CASE Finish(k)
  <2>1. \A j \in Subscriptions :
          /\ sub'[j].worker = sub[j].worker /\ sub'[j].ready = sub[j].ready
          /\ sub'[j].stage = IF j = k THEN "done" ELSE sub[j].stage
    BY <1>6 DEF Finish, KnownInv, TypeOK
  <2>2. /\ sub[k].stage \in {"failing", "stopping"} /\ UNCHANGED <<started, socket>>
        /\ \A w \in Workers :
             current'[w] = IF current[w] = k THEN NoSubscription ELSE current[w]
    BY <1>6 DEF Finish, WithoutEntry
  <2>3. \A w \in Workers : current[w] # NoSubscription => current[w] \in Subscriptions
    BY DEF KnownInv, TypeOK
  <2>4. Entries' /\ Futures'
    <3>1. sub[k].ready # "pending"
      BY <2>2 DEF KnownInv, Futures
    <3>2. started \in Nat /\ NoSubscription <= started
      BY FanoutAssumption DEF KnownInv, TypeOK, NoSubscription
    <3>3. QED
      BY <2>1, <2>2, <2>3, <3>1, <3>2 DEF KnownInv, Entries, Futures
  <2>5. Waits'
    BY <2>2 DEF KnownInv, Waits
  <2>6. SubscriptionsAreKnown'
    <3>1. ASSUME NEW j \in Subscriptions, sub'[j].stage \in {"subscribing", "live"}
          PROVE  current'[sub'[j].worker] = j
      <4>1. j # k /\ current[sub[j].worker] = j
        BY <2>1, <3>1 DEF KnownInv, SubscriptionsAreKnown
      <4>2. sub[j].worker \in Workers
        BY <2>1, <3>1, <4>1 DEF KnownInv, Entries
      <4>3. QED
        BY <2>1, <2>2, <4>1, <4>2
    <3>2. QED
      BY <3>1 DEF SubscriptionsAreKnown
  <2>7. QED
    BY <1>0, <2>4, <2>5, <2>6 DEF KnownInv
<1>7. QED
  BY <1>1, <1>2, <1>3, <1>4, <1>5, <1>6 DEF SubscriptionStep

(* An endpoint waits for what its worker has, or starts it; the last socket *)
(* that leaves stops what its worker has.                                   *)
LEMMA EndpointKnown ==
  ASSUME KnownInv, NEW s \in Sockets, EnsureEvents(s) \/ EndpointStep(s) \/ Hangup(s)
  PROVE  KnownInv'
<1>0. TypeOK' /\ socket[s] \in Endpoint /\ Home[s] \in Workers
  BY EndpointTypes, FanoutAssumption DEF KnownInv, TypeOK
<1>1. CASE EnsureEvents(s)
  <2>. DEFINE w == Home[s]
  <2>1. CASE current[w] # NoSubscription
    <3>1. /\ UNCHANGED <<current, sub, started>>
          /\ \A r \in Sockets : socket'[r].pc = "waiting" =>
               \/ socket'[r] = socket[r]
               \/ r = s /\ socket'[r].sub = current[w]
      BY <1>0, <1>1, <2>1 DEF EnsureEvents, KnownInv, TypeOK, Endpoint
    <3>2. current[w] \in Subscriptions /\ current[w] <= started
      BY <1>0, <2>1 DEF KnownInv, TypeOK, Entries
    <3>3. sub[current[w]].ready = "pending" => sub[current[w]].stage = "subscribing"
      BY <1>0, <2>1, <3>2, FanoutAssumption
         DEF KnownInv, Entries, Futures, TypeOK, Subscriptions
    <3>4. QED
      BY <1>0, <3>1, <3>2, <3>3 DEF KnownInv, Entries, Futures, Waits, SubscriptionsAreKnown
  <2>2. CASE current[w] = NoSubscription
    <3>. DEFINE k == started + 1
    <3>1. k \in Subscriptions /\ started' = k /\ started \in Nat
      BY <1>1, <2>2, FanoutAssumption DEF EnsureEvents, KnownInv, TypeOK, Subscriptions
    <3>2. sub[k].stage = "none"
      BY <3>1 DEF KnownInv, Entries
    <3>3. /\ \A v \in Workers : current'[v] = IF v = w THEN k ELSE current[v]
          /\ \A j \in Subscriptions :
               /\ sub'[j].worker = IF j = k THEN w ELSE sub[j].worker
               /\ sub'[j].stage = IF j = k THEN "subscribing" ELSE sub[j].stage
               /\ sub'[j].ready = sub[j].ready
          /\ \A r \in Sockets : socket'[r].pc = "waiting" =>
               \/ r # s /\ socket'[r] = socket[r]
               \/ r = s /\ socket'[r].sub = k
      <4>1. /\ current' = [current EXCEPT ![w] = k]
            /\ sub' = [sub EXCEPT ![k].worker = w, ![k].stage = "subscribing"]
            /\ socket' = [socket EXCEPT ![s].pc = "waiting", ![s].sub = k, ![s].creator = TRUE]
        BY <1>1, <2>2 DEF EnsureEvents
      <4>2. k \in Subscriptions /\ sub[k] \in Subscription /\ w \in Workers
        BY <1>0, <3>1 DEF KnownInv, TypeOK
      <4>. HIDE DEF k, w
      <4>3. \A v \in Workers : current'[v] = IF v = w THEN k ELSE current[v]
        BY <4>1, <4>2 DEF KnownInv, TypeOK
      <4>4. \A j \in Subscriptions :
              /\ sub'[j].worker = IF j = k THEN w ELSE sub[j].worker
              /\ sub'[j].stage = IF j = k THEN "subscribing" ELSE sub[j].stage
              /\ sub'[j].ready = sub[j].ready
        BY <4>1, <4>2 DEF KnownInv, TypeOK, Subscription
      <4>5. \A r \in Sockets : socket'[r].pc = "waiting" =>
              \/ r # s /\ socket'[r] = socket[r]
              \/ r = s /\ socket'[r].sub = k
        BY <1>0, <4>1 DEF KnownInv, TypeOK, Endpoint
      <4>6. QED
        BY <4>3, <4>4, <4>5
    <3>4. \A v \in Workers : /\ current[v] # NoSubscription => current[v] \in Subscriptions
                             /\ current[v] \in Int /\ current[v] <= started
      <4>1. ASSUME NEW v \in Workers PROVE current[v] \in Subscriptions \cup {NoSubscription}
        BY DEF KnownInv, TypeOK
      <4>2. \A v \in Workers : current[v] <= started
        BY DEF KnownInv, Entries
      <4>3. QED
        BY <4>1, <4>2, FanoutAssumption DEF Subscriptions, NoSubscription
    <3>. HIDE DEF k, w
    <3>5. k = started + 1 /\ w \in Workers /\ k # NoSubscription
      BY <1>0, <3>1 DEF k, w, NoSubscription
    <3>6. Entries'
      <4>1. \A v \in Workers : current'[v] <= started'
        <5>1. \A v \in Workers : current[v] <= started + 1
          BY <3>1, <3>4 DEF NoSubscription
        <5>2. QED
          BY <3>1, <3>3, <3>5, <5>1
      <4>2. \A v \in Workers : current'[v] # NoSubscription => sub'[current'[v]].worker = v
        <5>1. \A v \in Workers : current[v] # NoSubscription => current[v] # k
          BY <3>1, <3>4, <3>5 DEF Subscriptions
        <5>2. \A v \in Workers : current[v] # NoSubscription => sub[current[v]].worker = v
          BY DEF KnownInv, Entries
        <5>3. QED
          BY <3>1, <3>3, <3>4, <3>5, <5>1, <5>2
      <4>3. \A j \in Subscriptions : /\ sub'[j].stage = "none" <=> j > started'
                                     /\ sub'[j].stage # "none" => sub'[j].worker \in Workers
        BY <3>1, <3>3, <3>5 DEF KnownInv, Entries, Subscriptions
      <4>4. QED
        BY <4>1, <4>2, <4>3 DEF Entries
    <3>7. Futures'
      BY <3>2, <3>3 DEF KnownInv, Futures
    <3>8. Waits'
      BY <3>1, <3>3, <3>5 DEF KnownInv, Waits, Subscriptions
    <3>9. SubscriptionsAreKnown'
      <4>1. ASSUME NEW j \in Subscriptions, sub'[j].stage \in {"subscribing", "live"}
            PROVE  current'[sub'[j].worker] = j
        <5>1. CASE j = k
          BY <3>3, <3>5, <5>1
        <5>2. CASE j # k
          <6>1. current[sub[j].worker] = j /\ sub[j].worker \in Workers
            BY <3>3, <4>1, <5>2 DEF KnownInv, SubscriptionsAreKnown, Entries
          <6>2. sub[j].worker # w
            BY <2>2, <6>1, FanoutAssumption DEF w, Subscriptions, NoSubscription
          <6>3. QED
            BY <3>3, <5>2, <6>1, <6>2
        <5>3. QED
          BY <5>1, <5>2
      <4>2. QED
        BY <4>1 DEF SubscriptionsAreKnown
    <3>10. QED
      BY <1>0, <3>6, <3>7, <3>8, <3>9 DEF KnownInv
  <2>3. QED
    BY <2>1, <2>2
<1>2. CASE EventsReady(s)
  <2>1. UNCHANGED <<current, sub, started>>
    BY <1>2 DEF EventsReady
  <2>2. \A r \in Sockets : socket'[r].pc = "waiting" => socket'[r] = socket[r]
    BY <1>0, <1>2 DEF EventsReady, SetPc, NextStage, KnownInv, TypeOK, Endpoint
  <2>3. QED
    BY <1>0, <2>1, <2>2, KnownEndpoint
<1>3. CASE \/ EventsUnavailable(s) \/ ReadForSync(s) \/ BroadcastSync(s)
           \/ Register(s) \/ ReadSnapshot(s) \/ SendInitial(s)
  <2>1. UNCHANGED <<current, sub, started>>
    BY <1>3 DEF EventsUnavailable, ReadForSync, BroadcastSync, Register, ReadSnapshot,
                SendInitial
  <2>2. \A r \in Sockets : socket'[r].pc = "waiting" => socket'[r] = socket[r]
    BY <1>0, <1>3 DEF EventsUnavailable, ReadForSync, BroadcastSync, Register,
                      ReadSnapshot, SendInitial, SetPc, KnownInv, TypeOK, Endpoint
  <2>3. QED
    BY <1>0, <2>1, <2>2, KnownEndpoint
<1>4. CASE Leave(s)
  <2>. DEFINE w == Home[s]
              k == current[w]
  <2>1. \A r \in Sockets : socket'[r].pc = "waiting" => socket'[r] = socket[r]
    BY <1>0, <1>4 DEF Leave, SetPc, KnownInv, TypeOK, Endpoint
  <2>2. CASE UNCHANGED <<sub, current>>
    BY <1>0, <1>4, <2>1, <2>2, KnownEndpoint DEF Leave
  <2>3. CASE sub' = Stopped(w) /\ current' = [current EXCEPT ![w] = NoSubscription]
    <3>1. /\ \A v \in Workers : current'[v] = IF v = w THEN NoSubscription ELSE current[v]
          /\ started' = started
      BY <1>0, <1>4, <2>3 DEF Leave, KnownInv, TypeOK
    <3>2. CASE k = NoSubscription
      <4>1. UNCHANGED <<sub, current>>
        BY <1>0, <2>3, <3>2 DEF Stopped, KnownInv, TypeOK
      <4>2. QED
        BY <2>2, <4>1
    <3>3. CASE k # NoSubscription
      <4>1. k \in Subscriptions /\ k <= started /\ sub[k].worker = w /\ sub[k].stage # "none"
        BY <1>0, <3>3, FanoutAssumption DEF KnownInv, TypeOK, Entries, Subscriptions
      <4>2. \A j \in Subscriptions :
              /\ sub'[j].worker = sub[j].worker
              /\ sub'[j].stage = IF j = k THEN "stopping" ELSE sub[j].stage
              /\ sub'[j].ready = IF j = k THEN Resolved(sub[j].ready, "cancelled")
                                          ELSE sub[j].ready
        <5>1. sub[k] \in Subscription
          BY <4>1 DEF KnownInv, TypeOK
        <5>2. sub' = [sub EXCEPT ![k].stage = "stopping",
                                 ![k].ready = Resolved(@, "cancelled"),
                                 ![k].events = 0, ![k].document = NoDocument,
                                 ![k].closing = {}]
          BY <2>3, <3>3 DEF Stopped
        <5>. HIDE DEF k
        <5>3. QED
          BY <4>1, <5>1, <5>2 DEF KnownInv, TypeOK, Subscription
      <4>. HIDE DEF k, w
      <4>3. \A v \in Workers : current[v] # NoSubscription => current[v] \in Subscriptions
        BY DEF KnownInv, TypeOK
      <4>4. Entries'
        <5>1. \A v \in Workers : current'[v] <= started'
          <6>1. NoSubscription <= started
            BY FanoutAssumption DEF KnownInv, TypeOK, NoSubscription
          <6>2. QED
            BY <3>1, <6>1 DEF KnownInv, Entries
        <5>2. QED
          BY <3>1, <4>1, <4>2, <4>3, <5>1 DEF KnownInv, Entries
      <4>5. Futures'
        BY <4>2 DEF KnownInv, Futures, Resolved
      <4>6. Waits'
        BY <2>1, <3>1 DEF KnownInv, Waits
      <4>7. SubscriptionsAreKnown'
        <5>1. ASSUME NEW j \in Subscriptions, sub'[j].stage \in {"subscribing", "live"}
              PROVE  current'[sub'[j].worker] = j
          <6>1. j # k /\ current[sub[j].worker] = j /\ sub[j].worker \in Workers
            BY <4>2, <5>1 DEF KnownInv, SubscriptionsAreKnown, Entries
          <6>2. sub[j].worker # w
            BY <6>1 DEF k, w
          <6>3. QED
            BY <3>1, <4>2, <6>1, <6>2
        <5>2. QED
          BY <5>1 DEF SubscriptionsAreKnown
      <4>8. QED
        BY <1>0, <4>4, <4>5, <4>6, <4>7 DEF KnownInv
    <3>4. QED
      BY <3>2, <3>3
  <2>4. QED
    BY <1>4, <2>2, <2>3 DEF Leave
<1>5. CASE Hangup(s)
  BY <1>0, <1>5, KnownAside DEF Hangup
<1>6. QED
  BY <1>1, <1>2, <1>3, <1>4, <1>5 DEF EndpointStep

(* One step. *)
LEMMA KnownNext ==
  ASSUME KnownInv, [Next]_vars
  PROVE  KnownInv'
<1>1. CASE UNCHANGED vars
  BY <1>1 DEF vars, KnownInv, TypeOK, Entries, Futures, Waits, SubscriptionsAreKnown
<1>2. QED
  BY <1>1, WriterKnown, SubscriptionKnown, EndpointKnown DEF Next, WriterStep

(* The invariant implies what the run checks: who waits for a readiness     *)
(* without an outcome waits for a task that was started.                    *)
LEMMA KnownSuffices == KnownInv => NoSubscriptionIsLost
<1>1. SUFFICES ASSUME KnownInv, NEW s \in Sockets, socket[s].pc = "waiting",
                      sub[socket[s].sub].ready = "pending"
               PROVE  sub[socket[s].sub].stage = "subscribing"
  BY DEF KnownInv, NoSubscriptionIsLost, WaitersAreTold
<1>2. socket[s].sub \in Subscriptions /\ ~(socket[s].sub > started)
  BY <1>1, FanoutAssumption DEF KnownInv, Waits, TypeOK, Subscriptions
<1>3. QED
  BY <1>1, <1>2 DEF KnownInv, Futures, Entries

(* However sockets come and go while subscriptions start, stop and break:   *)
(* the task that consumes a worker's events is the one the worker can stop, *)
(* and no endpoint waits for the readiness of a task that has gone          *)
(* (room_service.py, ensure_room_events and stop_room_events).              *)
THEOREM SubscriptionsAreNotLost == Spec => []NoSubscriptionIsLost
<1>1. Spec => []KnownInv
  BY KnownInit, KnownNext, PTL DEF Spec
<1>2. QED
  BY KnownSuffices, <1>1, PTL

-----------------------------------------------------------------------------
\* What a served socket shows, and a greeted one is about to show.
Given(s) ==
  IF socket[s].pc = "greeting" THEN Newer(shown[s], socket[s].document) ELSE shown[s]

\* A socket of the worker will look the document up for all of them, or has.
Synchronises(s, w) ==
  /\ Home[s] = w
  /\ \/ socket[s].pc = "waiting" /\ socket[s].creator /\ socket[s].sub = current[w]
     \/ socket[s].pc = "sync"
     \/ socket[s].pc = "syncing" /\ socket[s].document = revision

\* A commit will be broadcast by its worker, and published to the others.
Announces(v, w) ==
  /\ writer[v].document = revision
  /\ writer[v].pc = "broadcast" \/ (v # w /\ writer[v].pc = "publish")

\* The newest document is still on its way to the sockets of the worker.
OnItsWay(w) ==
  \/ \E s \in Sockets : Synchronises(s, w)
  \/ sub[current[w]].events > 0 \/ sub[current[w]].document = revision
  \/ \E v \in Workers : Announces(v, w)

\* Without faults the subscription of a worker is live, or the socket that
\* started it waits for it.
Working ==
  \A w \in Workers : current[w] # NoSubscription =>
    \/ sub[current[w]].stage = "live" /\ sub[current[w]].ready = "set"
    \/ /\ sub[current[w]].stage = "subscribing" /\ sub[current[w]].ready = "pending"
       /\ \E s \in Sockets : /\ Home[s] = w /\ socket[s].pc = "waiting"
                             /\ socket[s].creator /\ socket[s].sub = current[w]

\* No document is newer than the canonical one.
NoneNewer ==
  /\ \A s \in Sockets : shown[s] <= revision /\ socket[s].document <= revision
  /\ \A w \in Workers : writer[w].document <= revision
  /\ \A k \in Subscriptions : sub[k].document <= revision

\* A socket that is behind will be given the newest document.
Covered ==
  \A s \in Sockets :
    /\ socket[s].pc \in {"greeting", "serving"} /\ open[s]
    /\ current[Home[s]] # NoSubscription
    => Given(s) = revision \/ OnItsWay(Home[s])

HandoffInv == KnownInv /\ NoneNewer /\ (faults = 0 => Working /\ Covered)

(* What is shown to a socket is never taken back, nor newer than the room.  *)
LEMMA NewestOf ==
  ASSUME NEW a \in Document, NEW b \in Document, NEW c \in Document,
         a <= c, b <= c
  PROVE  /\ Newer(a, b) \in Document /\ Newer(a, b) <= c
         /\ a = c \/ b = c => Newer(a, b) = c
BY DEF Newer, Document, NoDocument

(* A broadcast of a document that is not newer than the room gives it to    *)
(* the registered sockets of its worker and to nobody else.                 *)
LEMMA BroadcastGives ==
  ASSUME TypeOK, NoneNewer, NEW w, NEW d \in Document, d <= revision, Broadcast(w, d)
  PROVE  \A s \in Sockets :
           /\ shown'[s] \in Document /\ shown'[s] <= revision
           /\ shown[s] = revision => shown'[s] = revision
           /\ s \in Registered(w) /\ open[s] /\ d = revision => shown'[s] = revision
           /\ s \notin Registered(w) => shown'[s] = shown[s]
<1>1. SUFFICES ASSUME NEW s \in Sockets
               PROVE  /\ shown'[s] \in Document /\ shown'[s] <= revision
                      /\ shown[s] = revision => shown'[s] = revision
                      /\ s \in Registered(w) /\ open[s] /\ d = revision =>
                           shown'[s] = revision
                      /\ s \notin Registered(w) => shown'[s] = shown[s]
  OBVIOUS
<1>2. shown[s] \in Document /\ shown[s] <= revision /\ revision \in Document
  BY DEF TypeOK, NoneNewer, Document
<1>3. shown'[s] = IF s \in Registered(w) /\ open[s] THEN Newer(shown[s], d) ELSE shown[s]
  BY DEF Broadcast
<1>4. QED
  BY <1>2, <1>3, NewestOf

(* No step makes a document newer than the canonical one. *)
LEMMA NoneNewerNext ==
  ASSUME KnownInv, NoneNewer, [Next]_vars
  PROVE  NoneNewer'
<1>. USE DEF NoDocument
<1>0. /\ revision \in Nat
      /\ \A s \in Sockets : shown[s] \in Document /\ socket[s].document \in Document
      /\ \A w \in Workers : writer[w].document \in Document
      /\ \A k \in Subscriptions : sub[k].document \in Document
  BY DEF KnownInv, TypeOK, Endpoint, Writer, Subscription
<1>1. ASSUME NEW w \in Workers, Commit(w) PROVE NoneNewer'
  <2>1. /\ revision' = revision + 1 /\ UNCHANGED <<sub, socket, shown>>
        /\ \A v \in Workers : writer'[v].document \in {writer[v].document, revision + 1}
    BY <1>1 DEF Commit, KnownInv, TypeOK, Writer
  <2>2. QED
    BY <1>0, <2>1 DEF NoneNewer, Document
<1>2. ASSUME NEW w \in Workers, BroadcastCommit(w) PROVE NoneNewer'
  <2>1. \A s \in Sockets : shown'[s] <= revision
    BY <1>0, <1>2, BroadcastGives DEF BroadcastCommit, NoneNewer, KnownInv
  <2>2. \A v \in Workers : writer'[v].document = writer[v].document
    BY <1>2 DEF BroadcastCommit, KnownInv, TypeOK, Writer
  <2>3. QED
    BY <1>2, <2>1, <2>2 DEF BroadcastCommit, NoneNewer
<1>3. ASSUME NEW w \in Workers, Publish(w) PROVE NoneNewer'
  <2>1. \A k \in Subscriptions : sub'[k].document = sub[k].document
    BY <1>3 DEF Publish, KnownInv, TypeOK, Subscription
  <2>2. \A v \in Workers : writer'[v].document \in {writer[v].document, NoDocument}
    BY <1>3 DEF Publish, NotWriting, KnownInv, TypeOK, Writer
  <2>3. QED
    BY <1>0, <1>3, <2>1, <2>2 DEF Publish, NoneNewer
<1>4. ASSUME NEW w \in Workers, LosePublication(w) PROVE NoneNewer'
  <2>1. \A v \in Workers : writer'[v].document \in {writer[v].document, NoDocument}
    BY <1>4 DEF LosePublication, NotWriting, KnownInv, TypeOK, Writer
  <2>2. QED
    BY <1>0, <1>4, <2>1 DEF LosePublication, NoneNewer
<1>5. ASSUME NEW k \in Subscriptions, SubscriptionStep(k) \/ Break(k) PROVE NoneNewer'
  <2>1. /\ revision' = revision /\ UNCHANGED <<writer, socket>>
        /\ \/ UNCHANGED shown
           \/ Broadcast(sub[k].worker, sub[k].document)
        /\ \A j \in Subscriptions :
             sub'[j].document \in {sub[j].document, NoDocument, revision}
    <3>0. sub \in [Subscriptions -> Subscription]
      BY DEF KnownInv, TypeOK
    <3>1. CASE Subscribed(k)
      BY <3>0, <3>1 DEF Subscribed, Subscription
    <3>2. CASE Dispatch(k)
      BY <3>0, <3>2 DEF Dispatch, Subscription
    <3>3. CASE BroadcastEvent(k)
      BY <3>0, <3>3 DEF BroadcastEvent, Subscription
    <3>4. CASE \E s \in Sockets : CloseSocket(k, s)
      BY <3>0, <3>4 DEF CloseSocket, Subscription
    <3>5. CASE Finish(k) \/ Break(k)
      BY <3>0, <3>5 DEF Finish, Break, Subscription
    <3>6. QED
      BY <1>5, <3>1, <3>2, <3>3, <3>4, <3>5 DEF SubscriptionStep
  <2>2. \A s \in Sockets : shown'[s] <= revision
    BY <1>0, <2>1, BroadcastGives DEF NoneNewer, KnownInv
  <2>3. QED
    BY <1>0, <2>1, <2>2 DEF NoneNewer
<1>6. ASSUME NEW s \in Sockets, EnsureEvents(s) \/ EndpointStep(s) \/ Hangup(s)
      PROVE  NoneNewer'
  <2>1. /\ revision' = revision /\ UNCHANGED writer
        /\ \A r \in Sockets : socket'[r].document \in {socket[r].document, revision}
    BY <1>6 DEF EnsureEvents, EndpointStep, EventsReady, EventsUnavailable, ReadForSync,
                BroadcastSync, Register, ReadSnapshot, SendInitial, Leave, Hangup, SetPc,
                KnownInv, TypeOK, Endpoint
  <2>2. \A r \in Sockets : shown'[r] <= revision
    <3>1. CASE SendInitial(s)
      <4>1. Newer(shown[s], socket[s].document) <= revision
        BY <1>0, NewestOf DEF NoneNewer, Document
      <4>2. QED
        BY <1>0, <3>1, <4>1 DEF SendInitial, NoneNewer, KnownInv, TypeOK
    <3>2. CASE BroadcastSync(s)
      BY <1>0, <3>2, BroadcastGives DEF BroadcastSync, NoneNewer, KnownInv
    <3>3. CASE UNCHANGED shown
      BY <3>3 DEF NoneNewer
    <3>4. QED
      BY <1>6, <3>1, <3>2, <3>3
         DEF EnsureEvents, EndpointStep, EventsReady, EventsUnavailable, ReadForSync,
             Register, ReadSnapshot, Leave, Hangup
  <2>3. \A k \in Subscriptions : sub'[k].document \in {sub[k].document, NoDocument}
    <3>1. CASE UNCHANGED sub
      BY <3>1
    <3>2. CASE EnsureEvents(s)
      BY <3>2 DEF EnsureEvents, KnownInv, TypeOK, Subscription
    <3>3. CASE sub' = Stopped(Home[s])
      <4>1. CASE current[Home[s]] = NoSubscription
        BY <3>3, <4>1 DEF Stopped
      <4>2. CASE current[Home[s]] # NoSubscription
        <5>. DEFINE k == current[Home[s]]
        <5>1. sub' = [sub EXCEPT ![k].stage = "stopping",
                                 ![k].ready = Resolved(@, "cancelled"),
                                 ![k].events = 0, ![k].document = NoDocument,
                                 ![k].closing = {}]
          BY <3>3, <4>2 DEF Stopped
        <5>. HIDE DEF k
        <5>2. QED
          BY <5>1 DEF KnownInv, TypeOK, Subscription
      <4>3. QED
        BY <4>1, <4>2
    <3>4. QED
      BY <1>6, <3>1, <3>2, <3>3
         DEF EndpointStep, EventsReady, EventsUnavailable, ReadForSync, BroadcastSync,
             Register, ReadSnapshot, SendInitial, Leave, Hangup
  <2>4. QED
    BY <1>0, <2>1, <2>2, <2>3 DEF NoneNewer
<1>7. CASE UNCHANGED vars
  BY <1>7 DEF vars, NoneNewer
<1>8. QED
  BY <1>1, <1>2, <1>3, <1>4, <1>5, <1>6, <1>7 DEF Next, WriterStep

-----------------------------------------------------------------------------
\* The invariant of the runs without a fault.
Handoff == KnownInv /\ NoneNewer /\ Working /\ Covered

(* A commit is announced to every worker. *)
LEMMA CommitHandsOff ==
  ASSUME Handoff, NEW w \in Workers, Commit(w)
  PROVE  Working' /\ Covered'
<1>1. UNCHANGED <<current, sub, started, socket, open, shown>> /\ revision' = revision + 1
  BY DEF Commit
<1>2. writer'[w].pc = "broadcast" /\ writer'[w].document = revision'
  BY DEF Commit, Handoff, KnownInv, TypeOK
<1>3. Working'
  BY <1>1 DEF Handoff, Working
<1>4. \A v \in Workers : OnItsWay(v)'
  BY <1>2 DEF OnItsWay, Announces
<1>5. QED
  BY <1>3, <1>4, FanoutAssumption DEF Covered

(* What the worker of a commit has broadcast to its own sockets it has yet  *)
(* to publish to the others.                                                *)
LEMMA BroadcastHandsOff ==
  ASSUME Handoff, NEW w \in Workers, BroadcastCommit(w)
  PROVE  Working' /\ Covered'
<1>1. /\ UNCHANGED <<revision, current, sub, started, socket, open>>
      /\ Broadcast(w, writer[w].document) /\ writer[w].pc = "broadcast"
  BY DEF BroadcastCommit
<1>2. \A v \in Workers : /\ writer'[v].document = writer[v].document
                         /\ v # w => writer'[v].pc = writer[v].pc
                         /\ v = w => writer'[v].pc = "publish"
  BY DEF BroadcastCommit, Handoff, KnownInv, TypeOK, Writer
<1>3. /\ \A s \in Sockets : shown[s] \in Document /\ socket[s].document \in Document
      /\ writer[w].document \in Document /\ writer[w].document <= revision
      /\ revision \in Document
  BY DEF Handoff, KnownInv, TypeOK, NoneNewer, Endpoint, Writer, Document
<1>4. Working'
  BY <1>1 DEF Handoff, Working
<1>5. ASSUME NEW s \in Sockets, socket[s].pc \in {"greeting", "serving"}, open[s],
             current[Home[s]] # NoSubscription
      PROVE  Given(s)' = revision \/ OnItsWay(Home[s])'
  <2>1. /\ shown'[s] \in Document /\ shown'[s] <= revision
        /\ shown[s] = revision => shown'[s] = revision
        /\ s \in Registered(w) /\ open[s] /\ writer[w].document = revision =>
             shown'[s] = revision
        /\ s \notin Registered(w) => shown'[s] = shown[s]
    BY <1>1, <1>3, BroadcastGives DEF Handoff, KnownInv
  <2>2. Given(s) = revision => Given(s)' = revision
    <3>1. CASE socket[s].pc = "greeting"
      <4>1. /\ Given(s) = Newer(shown[s], socket[s].document)
            /\ Given(s)' = Newer(shown'[s], socket[s].document)
        BY <1>1, <3>1 DEF Given
      <4>2. socket[s].document <= revision
        BY DEF Handoff, NoneNewer
      <4>3. QED
        BY <1>3, <2>1, <4>1, <4>2 DEF Newer, Document, NoDocument
    <3>2. CASE socket[s].pc # "greeting"
      BY <1>1, <2>1, <3>2 DEF Given
    <3>3. QED
      BY <3>1, <3>2
  <2>3. shown'[s] = revision => Given(s)' = revision
    <3>1. socket[s].document <= revision
      BY DEF Handoff, NoneNewer
    <3>2. QED
      BY <1>1, <1>3, <2>1, <3>1, NewestOf DEF Given
  <2>4. CASE Home[s] = w /\ writer[w].document = revision
    BY <1>5, <2>1, <2>3, <2>4 DEF Registered
  <2>5. CASE ~(Home[s] = w /\ writer[w].document = revision)
    <3>1. OnItsWay(Home[s]) => OnItsWay(Home[s])'
      BY <1>1, <1>2, <2>5 DEF OnItsWay, Synchronises, Announces
    <3>2. QED
      BY <1>5, <2>2, <3>1 DEF Handoff, Covered
  <2>6. QED
    BY <2>4, <2>5
<1>6. QED
  BY <1>1, <1>4, <1>5 DEF Covered

(* A publication reaches the tasks that are live; a worker whose task is    *)
(* not live yet has a socket that will synchronise the others.              *)
LEMMA PublishHandsOff ==
  ASSUME Handoff, NEW w \in Workers, Publish(w)
  PROVE  Working' /\ Covered'
<1>1. UNCHANGED <<revision, current, started, socket, open, shown>>
  BY DEF Publish
<1>2. \A v \in Workers : v # w => writer'[v] = writer[v]
  BY DEF Publish, Handoff, KnownInv, TypeOK
<1>3. \A k \in Subscriptions :
        /\ sub'[k].worker = sub[k].worker /\ sub'[k].stage = sub[k].stage
        /\ sub'[k].ready = sub[k].ready /\ sub'[k].document = sub[k].document
        /\ sub[k].events > 0 => sub'[k].events > 0
        /\ Hears(k, w) => sub'[k].events > 0
  BY DEF Publish, Handoff, KnownInv, TypeOK, Subscription
<1>4. \A v \in Workers : current[v] # NoSubscription => current[v] \in Subscriptions
  BY DEF Handoff, KnownInv, TypeOK
<1>5. Working'
  BY <1>1, <1>3, <1>4 DEF Handoff, Working
<1>6. ASSUME NEW v \in Workers, current[v] # NoSubscription, OnItsWay(v)
      PROVE  OnItsWay(v)'
  <2>1. CASE Announces(w, v)
    <3>1. v # w
      BY <2>1 DEF Announces, Publish
    <3>2. CASE sub[current[v]].stage = "live"
      <4>1. Hears(current[v], w)
        BY <1>6, <3>1, <3>2 DEF Hears, Handoff, KnownInv, Entries
      <4>2. QED
        BY <1>1, <1>3, <1>4, <1>6, <4>1 DEF OnItsWay
    <3>3. CASE sub[current[v]].stage # "live"
      <4>1. \E s \in Sockets : Synchronises(s, v)
        BY <1>6, <3>3 DEF Handoff, Working, Synchronises
      <4>2. QED
        BY <1>1, <4>1 DEF OnItsWay, Synchronises
    <3>4. QED
      BY <3>2, <3>3
  <2>2. CASE ~Announces(w, v)
    BY <1>1, <1>2, <1>3, <1>4, <1>6, <2>2 DEF OnItsWay, Synchronises, Announces
  <2>3. QED
    BY <2>1, <2>2
<1>7. \A s \in Sockets : Given(s)' = Given(s) /\ Home[s] \in Workers
  BY <1>1, FanoutAssumption DEF Given
<1>8. QED
  BY <1>1, <1>5, <1>6, <1>7 DEF Handoff, Covered

(* A task takes an event only to look the document up, and what it has      *)
(* looked up it gives to all sockets of its worker.                         *)
LEMMA TaskHandsOff ==
  ASSUME Handoff, NEW k \in Subscriptions, SubscriptionStep(k)
  PROVE  Working' /\ Covered'
<1>0. /\ UNCHANGED <<revision, writer, started, socket>>
      /\ \A v \in Workers : current[v] # NoSubscription => current[v] \in Subscriptions
      /\ \A s \in Sockets : Home[s] \in Workers
      /\ \A v \in Workers : current[v] # NoSubscription =>
           sub[current[v]].stage \in {"live", "subscribing"}
  BY FanoutAssumption DEF SubscriptionStep, Subscribed, Dispatch, BroadcastEvent,
     CloseSocket, Finish, Handoff, KnownInv, TypeOK, Working
<1>1. CASE Subscribed(k)
  <2>1. \A j \in Subscriptions :
          /\ sub'[j].events = sub[j].events /\ sub'[j].document = sub[j].document
          /\ j # k => sub'[j] = sub[j]
          /\ j = k => sub'[j].stage = "live" /\ sub'[j].ready = "set"
    BY <1>1 DEF Subscribed, Handoff, KnownInv, TypeOK, Subscription
  <2>2. UNCHANGED <<current, open, shown>>
    BY <1>1 DEF Subscribed
  <2>3. Working'
    BY <1>0, <2>1, <2>2 DEF Handoff, Working
  <2>4. Covered'
    BY <1>0, <2>1, <2>2 DEF Handoff, Covered, Given, OnItsWay, Synchronises, Announces
  <2>5. QED
    BY <2>3, <2>4
<1>2. CASE Dispatch(k)
  <2>1. \A j \in Subscriptions :
          /\ sub'[j].stage = sub[j].stage /\ sub'[j].ready = sub[j].ready
          /\ j # k => sub'[j] = sub[j]
          /\ j = k => sub'[j].document = revision
    BY <1>2 DEF Dispatch, Handoff, KnownInv, TypeOK, Subscription
  <2>2. UNCHANGED <<current, open, shown>>
    BY <1>2 DEF Dispatch
  <2>3. Working'
    BY <1>0, <2>1, <2>2 DEF Handoff, Working
  <2>4. Covered'
    BY <1>0, <2>1, <2>2 DEF Handoff, Covered, Given, OnItsWay, Synchronises, Announces
  <2>5. QED
    BY <2>3, <2>4
<1>3. CASE BroadcastEvent(k)
  <2>. DEFINE w == sub[k].worker
              d == sub[k].document
  <2>1. /\ \A j \in Subscriptions :
             /\ sub'[j].stage = sub[j].stage /\ sub'[j].ready = sub[j].ready
             /\ sub'[j].events = sub[j].events
             /\ j # k => sub'[j] = sub[j]
        /\ sub[k].stage = "live" /\ w \in Workers /\ current[w] = k
    BY <1>3 DEF BroadcastEvent, Handoff, KnownInv, TypeOK, Subscription, Entries,
                SubscriptionsAreKnown
  <2>2. UNCHANGED <<current, open>> /\ Broadcast(w, d)
    BY <1>3 DEF BroadcastEvent
  <2>3. /\ d \in Document /\ d <= revision /\ revision \in Document
        /\ \A s \in Sockets : shown[s] \in Document /\ socket[s].document \in Document
    BY DEF Handoff, KnownInv, TypeOK, NoneNewer, Endpoint, Subscription, Document
  <2>4. \A v \in Workers : v # w => current[v] # k
    BY <2>1, FanoutAssumption DEF Handoff, KnownInv, Entries, Subscriptions, NoSubscription
  <2>. HIDE DEF w, d
  <2>5. Working'
    BY <1>0, <2>1, <2>2 DEF Handoff, Working
  <2>6. ASSUME NEW s \in Sockets, socket[s].pc \in {"greeting", "serving"}, open[s],
               current[Home[s]] # NoSubscription
        PROVE  Given(s)' = revision \/ OnItsWay(Home[s])'
    <3>1. /\ shown'[s] \in Document /\ shown'[s] <= revision
          /\ shown[s] = revision => shown'[s] = revision
          /\ s \in Registered(w) /\ open[s] /\ d = revision => shown'[s] = revision
          /\ socket[s].document <= revision
      BY <2>2, <2>3, BroadcastGives DEF Handoff, KnownInv, NoneNewer
    <3>2. /\ Given(s) = revision => Given(s)' = revision
          /\ shown'[s] = revision => Given(s)' = revision
      BY <1>0, <2>3, <3>1 DEF Given, Newer, Document, NoDocument
    <3>3. CASE Home[s] = w /\ d = revision
      BY <2>6, <3>1, <3>2, <3>3 DEF Registered
    <3>4. CASE ~(Home[s] = w /\ d = revision)
      <4>1. OnItsWay(Home[s]) => OnItsWay(Home[s])'
        BY <1>0, <2>1, <2>2, <2>4, <2>6, <3>4 DEF OnItsWay, Synchronises, Announces, d
      <4>2. QED
        BY <2>6, <3>2, <4>1 DEF Handoff, Covered
    <3>5. QED
      BY <3>3, <3>4
  <2>7. QED
    BY <1>0, <2>2, <2>5, <2>6 DEF Covered
<1>4. CASE Finish(k) \/ \E s \in Sockets : CloseSocket(k, s)
  <2>1. \A v \in Workers : current[v] # NoSubscription => current[v] # k
    BY <1>0, <1>4 DEF CloseSocket, Finish
  <2>2. \A j \in Subscriptions : j # k => sub'[j] = sub[j]
    BY <1>4 DEF CloseSocket, Finish, Handoff, KnownInv, TypeOK
  <2>3. /\ \A v \in Workers : current'[v] = current[v]
        /\ shown' = shown /\ \A r \in Sockets : open'[r] => open[r]
    <3>1. k # NoSubscription
      BY FanoutAssumption DEF Subscriptions, NoSubscription
    <3>2. QED
      BY <1>4, <2>1, <3>1 DEF CloseSocket, Finish, WithoutEntry, Handoff, KnownInv, TypeOK
  <2>4. Working'
    BY <1>0, <2>1, <2>2, <2>3 DEF Handoff, Working
  <2>5. Covered'
    BY <1>0, <2>1, <2>2, <2>3 DEF Handoff, Covered, Given, OnItsWay, Synchronises, Announces
  <2>6. QED
    BY <2>4, <2>5
<1>5. QED
  BY <1>1, <1>2, <1>3, <1>4 DEF SubscriptionStep

(* An endpoint that starts a subscription synchronises the sockets that are *)
(* there already; one that leaves ends what nobody needs any more.          *)
LEMMA EndpointHandsOff ==
  ASSUME Handoff, NEW s \in Sockets, EnsureEvents(s) \/ EndpointStep(s) \/ Hangup(s)
  PROVE  Working' /\ Covered'
<1>0. /\ UNCHANGED <<revision, writer>>
      /\ \A v \in Workers : current[v] # NoSubscription => current[v] \in Subscriptions
      /\ \A r \in Sockets : Home[r] \in Workers /\ socket[r] \in Endpoint
      /\ \A v \in Workers : current[v] # NoSubscription =>
           sub[current[v]].stage \in {"live", "subscribing"}
      /\ revision \in Document
      /\ \A r \in Sockets : shown[r] \in Document /\ socket[r].document \in Document
      /\ \A r \in Sockets : shown[r] <= revision /\ socket[r].document <= revision
  BY FanoutAssumption DEF EnsureEvents, EndpointStep, EventsReady, EventsUnavailable,
     ReadForSync, BroadcastSync, Register, ReadSnapshot, SendInitial, Leave, Hangup,
     Handoff, KnownInv, TypeOK, Working, NoneNewer, Endpoint, Document
<1>1. CASE EnsureEvents(s)
  <2>. DEFINE w == Home[s]
  <2>1. UNCHANGED <<open, shown>> /\ socket[s].pc = "off"
    BY <1>1 DEF EnsureEvents
  <2>2. CASE current[w] # NoSubscription
    <3>1. /\ UNCHANGED <<current, sub>>
          /\ \A r \in Sockets : r # s => socket'[r] = socket[r]
          /\ socket'[s].pc = "waiting"
      BY <1>0, <1>1, <2>2 DEF EnsureEvents, Handoff, KnownInv, TypeOK, Endpoint
    <3>2. Working'
      BY <2>1, <3>1 DEF Handoff, Working
    <3>3. Covered'
      BY <1>0, <2>1, <3>1 DEF Handoff, Covered, Given, OnItsWay, Synchronises, Announces
    <3>4. QED
      BY <3>2, <3>3
  <2>3. CASE current[w] = NoSubscription
    <3>. DEFINE k == started + 1
    <3>1. k \in Subscriptions /\ started \in Nat /\ w \in Workers
      BY <1>0, <1>1, <2>3, FanoutAssumption
         DEF EnsureEvents, Handoff, KnownInv, TypeOK, Subscriptions
    <3>2. sub[k].ready = "pending"
      BY <3>1 DEF Handoff, KnownInv, Entries, Futures
    <3>3. /\ current' = [current EXCEPT ![w] = k]
          /\ sub' = [sub EXCEPT ![k].worker = w, ![k].stage = "subscribing"]
          /\ socket' = [socket EXCEPT ![s].pc = "waiting", ![s].sub = k, ![s].creator = TRUE]
      BY <1>1, <2>3 DEF EnsureEvents
    <3>4. \A v \in Workers : current[v] # k
      <4>1. \A v \in Workers : current[v] <= started /\ current[v] \in Int
        BY FanoutAssumption
           DEF Handoff, KnownInv, Entries, TypeOK, Subscriptions, NoSubscription
      <4>2. QED
        BY <3>1, <4>1
    <3>. HIDE DEF k, w
    <3>5. /\ \A v \in Workers : current'[v] = IF v = w THEN k ELSE current[v]
          /\ \A j \in Subscriptions : j # k => sub'[j] = sub[j]
          /\ sub'[k].stage = "subscribing" /\ sub'[k].ready = "pending"
          /\ \A r \in Sockets : r # s => socket'[r] = socket[r]
          /\ socket'[s].pc = "waiting" /\ socket'[s].sub = k /\ socket'[s].creator
      BY <1>0, <3>1, <3>2, <3>3 DEF Handoff, KnownInv, TypeOK, Endpoint, Subscription
    <3>6. \A v \in Workers : v # w => current'[v] = current[v]
      BY <3>5
    <3>7. Home[s] = w
      BY DEF w
    <3>8. Synchronises(s, w)'
      BY <3>1, <3>5, <3>7 DEF Synchronises
    <3>9. Working'
      <4>1. ASSUME NEW v \in Workers, current'[v] # NoSubscription
            PROVE  \/ sub'[current'[v]].stage = "live" /\ sub'[current'[v]].ready = "set"
                   \/ /\ sub'[current'[v]].stage = "subscribing"
                      /\ sub'[current'[v]].ready = "pending"
                      /\ \E r \in Sockets : /\ Home[r] = v /\ socket'[r].pc = "waiting"
                                            /\ socket'[r].creator
                                            /\ socket'[r].sub = current'[v]
        <5>1. CASE v = w
          BY <3>5, <3>7, <5>1
        <5>2. CASE v # w
          BY <1>0, <2>1, <3>4, <3>5, <4>1, <5>2 DEF Handoff, Working
        <5>3. QED
          BY <5>1, <5>2
      <4>2. QED
        BY <4>1 DEF Working
    <3>10. Covered'
      <4>1. ASSUME NEW r \in Sockets, socket'[r].pc \in {"greeting", "serving"}, open[r],
                   current'[Home[r]] # NoSubscription
            PROVE  Given(r)' = revision \/ OnItsWay(Home[r])'
        <5>1. CASE Home[r] = w
          BY <3>8, <5>1 DEF OnItsWay
        <5>2. CASE Home[r] # w
          <6>1. /\ r # s /\ socket'[r] = socket[r] /\ Given(r)' = Given(r)
                /\ current'[Home[r]] = current[Home[r]] /\ current[Home[r]] # k
            BY <1>0, <2>1, <3>4, <3>5, <3>7, <5>2 DEF Given
          <6>2. OnItsWay(Home[r]) => OnItsWay(Home[r])'
            BY <1>0, <2>1, <3>5, <4>1, <6>1 DEF OnItsWay, Synchronises, Announces
          <6>3. QED
            BY <4>1, <6>1, <6>2 DEF Handoff, Covered
        <5>3. QED
          BY <5>1, <5>2
      <4>2. QED
        BY <1>0, <2>1, <4>1 DEF Covered
    <3>11. QED
      BY <3>9, <3>10
  <2>4. QED
    BY <2>2, <2>3
<1>2. CASE EventsReady(s) \/ EventsUnavailable(s)
  <2>1. /\ UNCHANGED <<current, sub, open, shown>>
        /\ \A r \in Sockets : r # s => socket'[r] = socket[r]
        /\ socket[s].pc = "waiting"
        /\ socket'[s].pc \in {"sync", "accepting", "gone"}
    BY <1>0, <1>2 DEF EventsReady, EventsUnavailable, SetPc, NextStage, Handoff, KnownInv,
                      TypeOK, Endpoint
  <2>2. \A v \in Workers : /\ current[v] # NoSubscription /\ socket[s].sub = current[v] =>
                                sub[current[v]].ready # "pending"
                           /\ Synchronises(s, v) /\ current[v] # NoSubscription =>
                                Synchronises(s, v)'
    <3>1. CASE EventsReady(s)
      <4>1. socket'[s].pc = NextStage(s) /\ sub[socket[s].sub].ready = "set"
        BY <1>0, <3>1 DEF EventsReady, Awaited, SetPc, Handoff, KnownInv, TypeOK, Endpoint
      <4>2. QED
        BY <2>1, <4>1 DEF NextStage, Synchronises
    <3>2. CASE EventsUnavailable(s)
      BY <1>0, <2>1, <3>2 DEF EventsUnavailable, Synchronises, Handoff, Working
    <3>3. QED
      BY <1>2, <3>1, <3>2
  <2>3. Working'
    BY <2>1, <2>2 DEF Handoff, Working
  <2>4. \A v \in Workers : current[v] # NoSubscription /\ OnItsWay(v) => OnItsWay(v)'
    BY <1>0, <2>1, <2>2 DEF OnItsWay, Synchronises, Announces
  <2>5. Covered'
    BY <1>0, <2>1, <2>4 DEF Handoff, Covered, Given
  <2>6. QED
    BY <2>3, <2>5
<1>3. CASE ReadForSync(s) \/ Register(s) \/ ReadSnapshot(s)
  <2>1. /\ UNCHANGED <<current, sub, open, shown>>
        /\ \A r \in Sockets : r # s => socket'[r] = socket[r]
        /\ \/ /\ socket[s].pc = "sync" /\ socket'[s].pc = "syncing"
              /\ socket'[s].document = revision
           \/ socket[s].pc = "accepting" /\ socket'[s].pc = "registered"
           \/ /\ socket[s].pc = "registered" /\ socket'[s].pc = "greeting"
              /\ socket'[s].document = revision
    BY <1>0, <1>3 DEF ReadForSync, Register, ReadSnapshot, SetPc, Handoff, KnownInv,
                      TypeOK, Endpoint
  <2>2. Working'
    BY <2>1 DEF Handoff, Working
  <2>3. \A v \in Workers : OnItsWay(v) => OnItsWay(v)'
    BY <1>0, <2>1 DEF OnItsWay, Synchronises, Announces
  <2>4. ASSUME socket'[s].pc = "greeting" PROVE Given(s)' = revision
    <3>1. Given(s)' = Newer(shown[s], revision)
      BY <2>1, <2>4 DEF Given
    <3>2. QED
      BY <1>0, <3>1 DEF Newer, Document, NoDocument
  <2>5. Covered'
    BY <1>0, <2>1, <2>3, <2>4 DEF Handoff, Covered, Given
  <2>6. QED
    BY <2>2, <2>5
<1>4. CASE BroadcastSync(s)
  <2>. DEFINE w == Home[s]
              d == socket[s].document
  <2>1. /\ UNCHANGED <<current, sub, open>> /\ Broadcast(w, d)
        /\ \A r \in Sockets : r # s => socket'[r] = socket[r]
        /\ socket[s].pc = "syncing" /\ socket'[s].pc = "accepting"
    BY <1>0, <1>4 DEF BroadcastSync, SetPc, Handoff, KnownInv, TypeOK, Endpoint
  <2>2. Working'
    BY <2>1 DEF Handoff, Working
  <2>3. ASSUME NEW r \in Sockets, r # s, socket[r].pc \in {"greeting", "serving"}, open[r],
               current[Home[r]] # NoSubscription
        PROVE  Given(r)' = revision \/ OnItsWay(Home[r])'
    <3>1. /\ shown'[r] \in Document /\ shown'[r] <= revision
          /\ shown[r] = revision => shown'[r] = revision
          /\ r \in Registered(w) /\ open[r] /\ d = revision => shown'[r] = revision
          /\ socket'[r] = socket[r]
      BY <1>0, <2>1, <2>3, BroadcastGives DEF Handoff, KnownInv
    <3>2. /\ Given(r) = revision => Given(r)' = revision
          /\ shown'[r] = revision => Given(r)' = revision
      BY <1>0, <3>1 DEF Given, Newer, Document, NoDocument
    <3>3. CASE Home[r] = w /\ d = revision
      BY <2>3, <3>1, <3>2, <3>3 DEF Registered
    <3>4. CASE ~(Home[r] = w /\ d = revision)
      <4>1. OnItsWay(Home[r]) => OnItsWay(Home[r])'
        BY <1>0, <2>1, <3>4 DEF OnItsWay, Synchronises, Announces
      <4>2. QED
        BY <2>3, <3>2, <4>1 DEF Handoff, Covered
    <3>5. QED
      BY <3>3, <3>4
  <2>4. Covered'
    BY <1>0, <2>1, <2>3 DEF Covered
  <2>5. QED
    BY <2>2, <2>4
<1>5. CASE SendInitial(s)
  <2>1. /\ UNCHANGED <<current, sub, open>>
        /\ \A r \in Sockets : r # s => socket'[r] = socket[r] /\ shown'[r] = shown[r]
        /\ socket[s].pc = "greeting" /\ socket'[s].pc = "serving"
        /\ shown'[s] = Newer(shown[s], socket[s].document) /\ open[s]
    BY <1>0, <1>5 DEF SendInitial, SetPc, Handoff, KnownInv, TypeOK, Endpoint
  <2>2. Working'
    BY <2>1 DEF Handoff, Working
  <2>3. \A r \in Sockets : Given(r)' = Given(r)
    BY <2>1 DEF Given
  <2>4. \A v \in Workers : OnItsWay(v) => OnItsWay(v)'
    BY <1>0, <2>1 DEF OnItsWay, Synchronises, Announces
  <2>5. Covered'
    BY <1>0, <2>1, <2>3, <2>4 DEF Handoff, Covered
  <2>6. QED
    BY <2>2, <2>5
<1>6. CASE Leave(s)
  <2>. DEFINE w == Home[s]
              k == current[w]
  <2>1. /\ UNCHANGED <<open, shown>>
        /\ \A r \in Sockets : r # s => socket'[r] = socket[r]
        /\ socket[s].pc \in {"registered", "greeting", "serving"} /\ socket'[s].pc = "gone"
    BY <1>0, <1>6 DEF Leave, SetPc, Handoff, KnownInv, TypeOK, Endpoint
  <2>2. /\ \A v \in Workers : current'[v] \in {current[v], NoSubscription}
        /\ \A v \in Workers : current'[v] # NoSubscription => sub'[current[v]] = sub[current[v]]
    <3>1. CASE UNCHANGED <<current, sub>>
      BY <3>1
    <3>2. CASE sub' = Stopped(w) /\ current' = [current EXCEPT ![w] = NoSubscription]
      <4>1. \A v \in Workers : current'[v] = IF v = w THEN NoSubscription ELSE current[v]
        BY <1>0, <3>2 DEF Handoff, KnownInv, TypeOK
      <4>2. \A v \in Workers : v # w /\ current[v] # NoSubscription => current[v] # k
        BY <1>0 DEF Handoff, KnownInv, Entries
      <4>3. \A j \in Subscriptions : j # k => sub'[j] = sub[j]
        <5>1. CASE k = NoSubscription
          BY <3>2, <5>1 DEF Stopped
        <5>2. CASE k # NoSubscription
          <6>1. sub' = [sub EXCEPT ![k].stage = "stopping",
                                   ![k].ready = Resolved(@, "cancelled"),
                                   ![k].events = 0, ![k].document = NoDocument,
                                   ![k].closing = {}]
            BY <3>2, <5>2 DEF Stopped
          <6>. HIDE DEF k
          <6>2. QED
            BY <6>1 DEF Handoff, KnownInv, TypeOK
        <5>3. QED
          BY <5>1, <5>2
      <4>. HIDE DEF k, w
      <4>4. QED
        BY <1>0, <4>1, <4>2, <4>3
    <3>3. QED
      BY <1>6, <3>1, <3>2 DEF Leave
  <2>3. Working'
    BY <2>1, <2>2 DEF Handoff, Working
  <2>4. \A v \in Workers : current'[v] # NoSubscription /\ OnItsWay(v) => OnItsWay(v)'
    BY <1>0, <2>1, <2>2 DEF OnItsWay, Synchronises, Announces
  <2>5. Covered'
    BY <1>0, <2>1, <2>2, <2>4 DEF Handoff, Covered, Given
  <2>6. QED
    BY <2>3, <2>5
<1>7. CASE Hangup(s)
  <2>1. UNCHANGED <<current, sub, socket, shown>> /\ \A r \in Sockets : open'[r] => open[r]
    BY <1>7 DEF Hangup, Handoff, KnownInv, TypeOK
  <2>2. QED
    BY <1>0, <2>1 DEF Handoff, Working, Covered, Given, OnItsWay, Synchronises, Announces
<1>8. QED
  BY <1>1, <1>2, <1>3, <1>4, <1>5, <1>6, <1>7 DEF EndpointStep

(* The invariant is one. *)
LEMMA HandoffInit == Init => HandoffInv
<1>1. SUFFICES ASSUME Init PROVE NoneNewer /\ Working /\ Covered
  BY KnownInit DEF HandoffInv
<1>2. NoneNewer
  BY <1>1 DEF Init, NoneNewer, NotWriting, NoTask, NoDocument
<1>3. Working /\ Covered
  BY <1>1, FanoutAssumption DEF Init, Working, Covered
<1>4. QED
  BY <1>2, <1>3

(* One step: a fault ends what is claimed of behaviours without one.        *)
LEMMA HandoffNext ==
  ASSUME HandoffInv, [Next]_vars
  PROVE  HandoffInv'
<1>1. KnownInv' /\ NoneNewer'
  BY KnownNext, NoneNewerNext DEF HandoffInv
<1>2. SUFFICES ASSUME faults' = 0 PROVE Working' /\ Covered'
  BY <1>1 DEF HandoffInv
<1>3. faults \in Nat
  BY DEF HandoffInv, KnownInv, TypeOK
<1>4. ASSUME faults' = faults PROVE Handoff
  BY <1>2, <1>4 DEF HandoffInv, Handoff
<1>5. CASE UNCHANGED vars
  <2>1. Handoff
    BY <1>4, <1>5 DEF vars
  <2>2. QED
    BY <1>5, <2>1 DEF vars, Handoff, Working, Covered, Given, OnItsWay, Synchronises, Announces
<1>6. ASSUME NEW w \in Workers, Commit(w) \/ WriterStep(w) \/ LosePublication(w)
      PROVE  Working' /\ Covered'
  <2>1. ~LosePublication(w)
    BY <1>2, <1>3 DEF LosePublication
  <2>2. faults' = faults
    BY <1>6, <2>1 DEF Commit, WriterStep, BroadcastCommit, Publish
  <2>3. QED
    BY <1>4, <1>6, <2>1, <2>2, CommitHandsOff, BroadcastHandsOff, PublishHandsOff
       DEF WriterStep
<1>7. ASSUME NEW k \in Subscriptions, SubscriptionStep(k) \/ Break(k)
      PROVE  Working' /\ Covered'
  <2>1. ~Break(k)
    BY <1>2, <1>3 DEF Break
  <2>2. faults' = faults
    BY <1>7, <2>1 DEF SubscriptionStep, Subscribed, Dispatch, BroadcastEvent, CloseSocket,
                      Finish
  <2>3. QED
    BY <1>4, <1>7, <2>1, <2>2, TaskHandsOff
<1>8. ASSUME NEW s \in Sockets, EnsureEvents(s) \/ EndpointStep(s) \/ Hangup(s)
      PROVE  Working' /\ Covered'
  <2>1. faults' = faults
    BY <1>8 DEF EnsureEvents, EndpointStep, EventsReady, EventsUnavailable, ReadForSync,
                BroadcastSync, Register, ReadSnapshot, SendInitial, Leave, Hangup
  <2>2. QED
    BY <1>4, <1>8, <2>1, EndpointHandsOff
<1>9. QED
  BY <1>5, <1>6, <1>7, <1>8 DEF Next

(* When all is quiet nothing is on its way to a worker with a live task.    *)
LEMMA HandoffSuffices == HandoffInv => SubscribedIsCurrent
<1>1. SUFFICES ASSUME HandoffInv, Quiet, faults = 0, NEW s \in Sockets,
                      Served(s), Live(Home[s])
               PROVE  shown[s] = revision
  BY DEF SubscribedIsCurrent
<1>2. current[Home[s]] \in Subscriptions /\ Home[s] \in Workers /\ revision \in Nat
  BY <1>1, FanoutAssumption DEF Live, HandoffInv, KnownInv, TypeOK
<1>3. ~OnItsWay(Home[s])
  BY <1>1, <1>2 DEF OnItsWay, Synchronises, Announces, Quiet, Live, NoDocument
<1>4. Given(s) = shown[s]
  BY <1>1 DEF Given, Served
<1>5. QED
  BY <1>1, <1>3, <1>4 DEF HandoffInv, Covered, Served, Live

(* The subscription handoff has no gap between the acknowledgement of the   *)
(* subscription, the synchronisation of the sockets that are there, the     *)
(* registration and the initial snapshot: without faults, and once all is   *)
(* quiet, a socket of a worker that is subscribed shows the room as it is   *)
(* (contracts.md, subscription handoff; websocket_handler.py, ws_endpoint). *)
THEOREM HandoffHasNoGap == Spec => []SubscribedIsCurrent
<1>1. Spec => []HandoffInv
  BY HandoffInit, HandoffNext, PTL DEF Spec
<1>2. QED
  BY HandoffSuffices, <1>1, PTL
=============================================================================
