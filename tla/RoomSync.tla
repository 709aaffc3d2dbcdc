------------------------------ MODULE RoomSync -------------------------------
(***************************************************************************)
(* One room document in Redis, the scheduler ticks of several workers and  *)
(* the client messages of several sockets, all of which read the document, *)
(* compute a successor and commit it with a fenced Lua script.             *)
(*                                                                         *)
(*   backend/scheduler.py     tick_room                                    *)
(*   backend/room_service.py  mutate_room_state                            *)
(*   backend/room_store.py    the Lua scripts they call                    *)
(*                                                                         *)
(* Each action is one Redis call (a script is atomic) together with the    *)
(* local computation up to the next await.  What follows a commit, the     *)
(* broadcast and the publication, reads nothing of this document back.     *)
(***************************************************************************)
EXTENDS RoomTimer, FiniteSets

CONSTANTS
  Workers,          \* scheduler processes
  Clients,          \* sockets that send messages
  LockSeconds,      \* ROOM_TICK_LOCK_SECONDS (2)
  CelestialPeriod,  \* seconds between celestial refreshes (30)
  MaxAttempts,      \* attempts of mutate_room_state (8)
  FirstSlot,        \* Redis TIME when the behaviour starts
  MaxSlot,          \* bound: last Redis second
  MaxInstances,     \* bound: generations of the room
  MaxMessages,      \* bound: messages received
  MaxFaults         \* bound: crashes, lost replies and failed calls

ASSUME SyncAssumption ==
  /\ LockSeconds \in Nat \ {0}
  /\ CelestialPeriod \in Nat \ {0}
  /\ MaxAttempts \in Nat \ {0}
  /\ FirstSlot \in Nat
  /\ MaxSlot \in Nat
  /\ MaxInstances \in Nat
  /\ MaxMessages \in Nat
  /\ MaxFaults \in Nat

VARIABLES
  now,        \* the second Redis TIME reports
  room,       \* the state and metadata keys: [instance, state]
  lock,       \* the tick-lock key
  instances,  \* room_instance_ids handed out so far
  ticker,     \* tick_room of each worker
  client,     \* websocket and mutate_room_state of each client
  received,   \* messages received so far (bound)
  faults,     \* faults so far (bound)
  lastTick    \* history: slot of this generation's latest committed tick

vars == <<now, room, lock, instances, ticker, client, received, faults, lastTick>>

-----------------------------------------------------------------------------
(***************************************************************************)
(* Records.  instance = 0 means the room's keys are absent; a socket bound *)
(* to 0 is not connected.                                                  *)
(***************************************************************************)
NoRoom == [instance |-> 0, state |-> MakeState]

NoLock == [status |-> "none", slot |-> 0, holder |-> {}, expires |-> 0]

\* The value `slot|running|owner|nonce'.  A worker has at most one tick in
\* progress, so the slot and the owner identify the lease as the nonce does.
RunningLock(w, slot) ==
  [status |-> "running", slot |-> slot, holder |-> {w},
   expires |-> now + LockSeconds]

\* The value `slot|done'.
DoneLock(slot) ==
  [status |-> "done", slot |-> slot, holder |-> {},
   expires |-> now + LockSeconds]

IdleTicker == [pc |-> "idle", slot |-> 0, instance |-> 0, base |-> MakeState]

NoMessage == [type |-> "unknown"]

\* `since' is history: the second at which the message was received.
NoClient ==
  [pc |-> "offline", bound |-> 0, message |-> NoMessage, attempt |-> 0,
   base |-> MakeState, slot |-> 0, since |-> 0]

Connected(instance) == [NoClient EXCEPT !.pc = "idle", !.bound = instance]

TickOfRoom ==
  [pc : {"idle", "acquire", "reload", "commit", "complete"},
   slot : Nat, instance : Nat, base : BackendState]

Socket ==
  [pc : {"offline", "idle", "read", "slot", "commit"},
   bound : Nat, message : Message, attempt : Nat,
   base : BackendState, slot : Nat, since : Nat]

TickLock ==
  [status : {"none", "running", "done"}, slot : Nat,
   holder : SUBSET Workers, expires : Nat]

TypeOK ==
  /\ now \in Nat
  /\ room \in [instance : Nat, state : BackendState]
  /\ lock \in TickLock
  /\ instances \in Nat
  /\ ticker \in [Workers -> TickOfRoom]
  /\ client \in [Clients -> Socket]
  /\ received \in Nat
  /\ faults \in Nat
  /\ lastTick \in Nat \cup {NoSlot}

-----------------------------------------------------------------------------
(***************************************************************************)
(* Guards of the Lua scripts.                                              *)
(***************************************************************************)
RoomExists == room.instance # 0

\* Faulty variant of GenerationCurrent: any existing room will do.
AnyGeneration(instance) == RoomExists

GenerationCurrent(instance) == RoomExists /\ room.instance = instance

RevisionCurrent(base) == room.state.revision = base.revision

LeaseHeld(w) ==
  /\ lock.status = "running"
  /\ lock.holder = {w}
  /\ lock.slot = ticker[w].slot

\* Faulty variant of LeaseFree: a completed slot no longer blocks its second.
OnlyRunningBlocks(slot) == lock.status # "running"

LeaseFree(slot) ==
  \/ lock.status = "none"
  \/ lock.status = "done" /\ lock.slot # slot

-----------------------------------------------------------------------------
(***************************************************************************)
(* The clock of Redis and the life of the room's keys.                     *)
(***************************************************************************)
ClockTick ==
  /\ now < MaxSlot
  /\ now' = now + 1
  /\ UNCHANGED <<room, lock, instances, ticker, client, received, faults, lastTick>>

\* The key lives for EX seconds: gone at the second `expires' at the earliest.
LockExpired == lock.status # "none" /\ now >= lock.expires

ExpireLock ==
  /\ LockExpired
  /\ lock' = NoLock
  /\ UNCHANGED <<now, room, instances, ticker, client, received, faults, lastTick>>

\* The creation script: a fresh document, a fresh id, and no tick lease.
CreateRoom ==
  /\ ~RoomExists
  /\ instances < MaxInstances
  /\ instances' = instances + 1
  /\ room' = [instance |-> instances + 1, state |-> MakeState]
  /\ lock' = NoLock
  /\ lastTick' = NoSlot
  /\ UNCHANGED <<now, ticker, client, received, faults>>

\* The keys' TTL ran out.  RoomRegistry says when it may; here it always may.
ExpireRoom ==
  /\ RoomExists
  /\ room' = NoRoom
  /\ UNCHANGED <<now, lock, instances, ticker, client, received, faults, lastTick>>

-----------------------------------------------------------------------------
(***************************************************************************)
(* tick_room.  `connected' is chosen at each read: sockets other than the  *)
(* modelled clients come and go.                                           *)
(***************************************************************************)
SetTicker(w, t) == ticker' = [ticker EXCEPT ![w] = t]

\* First snapshot: is there anything to do for this room?
StartTick(w) ==
  /\ ticker[w].pc = "idle"
  /\ RoomExists
  /\ \E connected \in BOOLEAN : connected \/ Advancing(room.state)
  /\ SetTicker(w, [IdleTicker EXCEPT !.pc = "acquire"])
  /\ UNCHANGED <<now, room, lock, instances, client, received, faults, lastTick>>

AcquireLease(w) ==
  /\ ticker[w].pc = "acquire"
  /\ IF LeaseFree(now)
     THEN /\ lock' = RunningLock(w, now)
          /\ SetTicker(w, [IdleTicker EXCEPT !.pc = "reload", !.slot = now])
     ELSE /\ SetTicker(w, IdleTicker)
          /\ UNCHANGED lock
  /\ UNCHANGED <<now, room, instances, client, received, faults, lastTick>>

\* Faulty variant of Elapsed: every tick is worth one second.
OneSecond(s, slot) == 1

Elapsed(s, slot) ==
  IF s.last_tick_slot = NoSlot THEN 1 ELSE Larger(0, slot - s.last_tick_slot)

\* Re-anchors a document to the slot up to which its time is accounted for.
Anchored(s, slot) ==
  [s EXCEPT !.last_tick_slot = IF Advancing(s) THEN slot ELSE NoSlot]

Ticked(s, slot) ==
  IF Advancing(s) THEN Anchored(AdvanceTimer(s, Elapsed(s, slot)), slot) ELSE s

CelestialDue(s, slot, connected) ==
  /\ connected \/ Advancing(s)
  /\ slot % CelestialPeriod = 0
  /\ ~s.time_override

TickChanges(s, slot) == Advancing(s) /\ AdvanceTimer(s, Elapsed(s, slot)) # s

\* Second snapshot, under the lease: compute the tick or give it up.
Reload(w) ==
  /\ ticker[w].pc = "reload"
  /\ IF ~RoomExists
     THEN SetTicker(w, [ticker[w] EXCEPT !.pc = "complete"])
     ELSE \E connected \in BOOLEAN :
            IF \/ TickChanges(room.state, ticker[w].slot)
               \/ CelestialDue(room.state, ticker[w].slot, connected)
            THEN SetTicker(w, [ticker[w] EXCEPT !.pc = "commit",
                                                !.instance = room.instance,
                                                !.base = room.state])
            ELSE SetTicker(w, [ticker[w] EXCEPT !.pc = "complete"])
  /\ UNCHANGED <<now, room, lock, instances, client, received, faults, lastTick>>

\* Faulty variant of Successor: the commit keeps the revision it read.
SameRevision(base, s) == [s EXCEPT !.revision = base.revision]

\* The document a tick or a message commits over `base'.
Successor(base, s) == [s EXCEPT !.revision = base.revision + 1]

TickSuccessor(w) == Successor(ticker[w].base, Ticked(ticker[w].base, ticker[w].slot))

TickFenced(w) ==
  /\ LeaseHeld(w)
  /\ GenerationCurrent(ticker[w].instance)
  /\ RevisionCurrent(ticker[w].base)

\* commit_tick_state.  When the reply is lost the commit has happened, but the
\* worker goes on to its finally block, which finds the lease already done.
CommitTick(w) ==
  /\ ticker[w].pc = "commit"
  /\ TickFenced(w)
  /\ room' = [room EXCEPT !.state = TickSuccessor(w)]
  /\ lock' = DoneLock(ticker[w].slot)
  /\ lastTick' = ticker[w].slot
  /\ \/ SetTicker(w, IdleTicker) /\ UNCHANGED faults
     \/ /\ faults < MaxFaults
        /\ faults' = faults + 1
        /\ SetTicker(w, [ticker[w] EXCEPT !.pc = "complete"])
  /\ UNCHANGED <<now, instances, client, received>>

RefuseTick(w) ==
  /\ ticker[w].pc = "commit"
  /\ ~TickFenced(w)
  /\ SetTicker(w, [ticker[w] EXCEPT !.pc = "complete"])
  /\ UNCHANGED <<now, room, lock, instances, client, received, faults, lastTick>>

\* The finally block: complete_tick_lock.
CompleteLease(w) ==
  /\ ticker[w].pc = "complete"
  /\ lock' = IF LeaseHeld(w) THEN DoneLock(ticker[w].slot) ELSE lock
  /\ SetTicker(w, IdleTicker)
  /\ UNCHANGED <<now, room, instances, client, received, faults, lastTick>>

\* A Redis call of the leased section raises: the finally block still runs.
TickFails(w) ==
  /\ ticker[w].pc \in {"reload", "commit"}
  /\ faults < MaxFaults
  /\ faults' = faults + 1
  /\ SetTicker(w, [ticker[w] EXCEPT !.pc = "complete"])
  /\ UNCHANGED <<now, room, lock, instances, client, received, lastTick>>

\* The process dies and restarts, or the call in the finally block raises.
Crash(w) ==
  /\ ticker[w].pc # "idle"
  /\ faults < MaxFaults
  /\ faults' = faults + 1
  /\ SetTicker(w, IdleTicker)
  /\ UNCHANGED <<now, room, lock, instances, client, received, lastTick>>

-----------------------------------------------------------------------------
(***************************************************************************)
(* A socket, and mutate_room_state for one message at a time.              *)
(***************************************************************************)
SetClient(c, r) == client' = [client EXCEPT ![c] = r]

Connect(c) ==
  /\ client[c].pc = "offline"
  /\ RoomExists
  /\ SetClient(c, Connected(room.instance))
  /\ UNCHANGED <<now, room, lock, instances, ticker, received, faults, lastTick>>

\* The socket closes.  In the middle of a message it is closed by this server,
\* for a failed Redis call (1011) or a shutdown.
Disconnect(c) ==
  /\ client[c].pc # "offline"
  /\ SetClient(c, NoClient)
  /\ UNCHANGED <<now, room, lock, instances, ticker, received, faults, lastTick>>

Receive(c, m) ==
  /\ client[c].pc = "idle"
  /\ received < MaxMessages
  /\ received' = received + 1
  /\ SetClient(c, [client[c] EXCEPT !.pc = "read", !.message = m, !.attempt = 1,
                                   !.since = now])
  /\ UNCHANGED <<now, room, lock, instances, ticker, faults, lastTick>>

\* get_room_snapshot, and the generation check before the reducer runs.
ReadSnapshot(c) ==
  /\ client[c].pc = "read"
  /\ SetClient(c, IF GenerationCurrent(client[c].bound)
                  THEN [client[c] EXCEPT !.pc = "slot", !.base = room.state]
                  ELSE NoClient)
  /\ UNCHANGED <<now, room, lock, instances, ticker, received, faults, lastTick>>

Reconciled(s, slot) ==
  IF Advancing(s) /\ s.last_tick_slot # NoSlot
  THEN Anchored(AdvanceTimer(s, Larger(0, slot - s.last_tick_slot)), slot)
  ELSE s

\* Faulty variant of HandledAt: a started countdown gets no anchor.
HandledOnly(s, slot, m) == Handle(s, m)

HandledAt(s, slot, m) ==
  LET handled == Handle(s, m)
  IN  IF Advancing(handled) /\ handled.last_tick_slot = NoSlot
      THEN [handled EXCEPT !.last_tick_slot = slot]
      ELSE handled

Mutated(s, slot, m) == HandledAt(Reconciled(s, slot), slot, m)

ReconcileChanges(s, slot) ==
  /\ Advancing(s)
  /\ s.last_tick_slot # NoSlot
  /\ slot > s.last_tick_slot

\* current_time_slot, then reconcile, handle, and compare with the document
\* before the message.  `skyMoved' is the difference in the celestial data.
ReadSlot(c) ==
  /\ client[c].pc = "slot"
  /\ LET base == client[c].base
         m == client[c].message
     IN  \E skyMoved \in IF MovesSky(m) THEN BOOLEAN ELSE {FALSE} :
           SetClient(c,
             IF \/ ReconcileChanges(base, now)
                \/ HandledAt(Reconciled(base, now), now, m) # Reconciled(base, now)
                \/ skyMoved
             THEN [client[c] EXCEPT !.pc = "commit", !.slot = now]
             ELSE Connected(client[c].bound))
  /\ UNCHANGED <<now, room, lock, instances, ticker, received, faults, lastTick>>

MessageSuccessor(c) ==
  Successor(client[c].base, Mutated(client[c].base, client[c].slot, client[c].message))

MessageFenced(c) ==
  /\ GenerationCurrent(client[c].bound)
  /\ RevisionCurrent(client[c].base)

\* compare_and_set_state.  When the reply is lost the commit has happened, and
\* the socket is closed as for an outage.
CommitMessage(c) ==
  /\ client[c].pc = "commit"
  /\ MessageFenced(c)
  /\ room' = [room EXCEPT !.state = MessageSuccessor(c)]
  /\ \/ SetClient(c, Connected(client[c].bound)) /\ UNCHANGED faults
     \/ /\ faults < MaxFaults
        /\ faults' = faults + 1
        /\ SetClient(c, NoClient)
  /\ UNCHANGED <<now, lock, instances, ticker, received, lastTick>>

\* Faulty variant of Retry: the next attempt reuses the snapshot it has.
ReusedSnapshot(r) == [r EXCEPT !.attempt = 1]

Retry(r) ==
  [Connected(r.bound) EXCEPT
     !.pc = "read", !.message = r.message, !.since = r.since,
     !.attempt = r.attempt + 1]

\* Another commit came first: read again, or give up after MaxAttempts; or
\* the generation is gone, which closes the socket.
RefuseMessage(c) ==
  /\ client[c].pc = "commit"
  /\ ~MessageFenced(c)
  /\ SetClient(c,
       IF GenerationCurrent(client[c].bound) /\ client[c].attempt < MaxAttempts
       THEN Retry(client[c])
       ELSE NoClient)
  /\ UNCHANGED <<now, room, lock, instances, ticker, received, faults, lastTick>>

-----------------------------------------------------------------------------
InitWith(r) ==
  /\ now = FirstSlot
  /\ room = r
  /\ lock = NoLock
  /\ instances = r.instance
  /\ ticker = [w \in Workers |-> IdleTicker]
  /\ client = [c \in Clients |-> NoClient]
  /\ received = 0
  /\ faults = 0
  /\ lastTick = NoSlot

Init == InitWith(NoRoom)

\* A room an older version left behind: its document has neither reward nor
\* revision nor slot, whatever its countdown is doing, and normalize_state
\* upgrades it at the first read.
OlderDocument(focus, paused, break) ==
  [MakeState EXCEPT
     !.focus = focus, !.paused = paused, !.break = break,
     !.break_remaining = IF break THEN 2 * BreakDuration ELSE 0,
     !.reward_id = Missing, !.revision = Missing]

UpgradedStates ==
  {NormalizeState(OlderDocument(f, f /\ p, ~f /\ b)) :
     f \in BOOLEAN, p \in BOOLEAN, b \in BOOLEAN}

UpgradeInit == \E s \in UpgradedStates : InitWith([instance |-> 1, state |-> s])

TickStep(w) ==
  \/ StartTick(w)
  \/ AcquireLease(w)
  \/ Reload(w)
  \/ CommitTick(w)
  \/ RefuseTick(w)
  \/ CompleteLease(w)

MutationStep(c) ==
  \/ ReadSnapshot(c)
  \/ ReadSlot(c)
  \/ CommitMessage(c)
  \/ RefuseMessage(c)

ClientStep(c) ==
  \/ Connect(c)
  \/ Disconnect(c)
  \/ \E m \in Message : Receive(c, m)
  \/ MutationStep(c)

RedisStep == ClockTick \/ ExpireLock \/ CreateRoom \/ ExpireRoom

Next ==
  \/ RedisStep
  \/ \E w \in Workers : TickStep(w) \/ TickFails(w) \/ Crash(w)
  \/ \E c \in Clients : ClientStep(c)

Spec == Init /\ [][Next]_vars

UpgradeSpec == UpgradeInit /\ [][Next]_vars

-----------------------------------------------------------------------------
(***************************************************************************)
(* Safety.                                                                 *)
(***************************************************************************)

(* A revision identifies one content of one generation: whoever still holds *)
(* a snapshot whose revision is the document's holds the document itself.   *)
(* This is what makes the revision compare of both commit scripts enough to *)
(* rule out lost updates, whatever the workers and sockets interleave.      *)
SnapshotCurrent(instance, base) ==
  instance = room.instance =>
    /\ base.revision <= room.state.revision
    /\ base.revision = room.state.revision => base = room.state

RevisionIdentifiesState ==
  RoomExists =>
    /\ \A w \in Workers :
         ticker[w].pc = "commit" => SnapshotCurrent(ticker[w].instance, ticker[w].base)
    /\ \A c \in Clients :
         client[c].pc \in {"slot", "commit"} =>
           SnapshotCurrent(client[c].bound, client[c].base)

(* The stored document always satisfies the phase rules the reducer and the *)
(* display rely on, and its slot anchor is set exactly while the countdown  *)
(* runs (contracts.md: last_tick_slot "resets while idle/paused"); an       *)
(* upgraded document may still lack the anchor until its first commit.      *)
DocumentCoherent ==
  LET s == room.state
  IN  /\ ~(s.focus /\ s.break)
      /\ s.paused => s.focus
      /\ IF s.focus THEN s.pomodoro_remaining > 0
                    ELSE s.pomodoro_remaining = s.pomodoro_duration
      /\ IF s.break THEN s.break_remaining \in 1..BreakDuration
                    ELSE s.break_remaining = 0
      /\ s.last_tick_slot # NoSlot => Advancing(s) /\ s.last_tick_slot <= now
      /\ Advancing(s) /\ s.revision > 0 => s.last_tick_slot # NoSlot

(* A committed document is the exact successor of the document it replaces: *)
(* each change within a generation raises the revision by one and was       *)
(* computed from that very document, by a tick or a message that belongs to *)
(* that generation.  No tick undoes a message it did not see, no message    *)
(* undoes a tick, no retry applies twice, and nothing begun in a deleted    *)
(* generation reaches the room recreated under the same id, although its    *)
(* revisions start over.                                                    *)
TickedFrom(w) == /\ ticker[w].pc = "commit"
                 /\ ticker[w].instance = room.instance
                 /\ ticker[w].base = room.state
                 /\ room'.state = TickSuccessor(w)
MessagedFrom(c) == /\ client[c].pc = "commit"
                   /\ client[c].bound = room.instance
                   /\ client[c].base = room.state
                   /\ room'.state = MessageSuccessor(c)

ExactSuccessor ==
  RoomExists /\ room'.instance = room.instance /\ room' # room =>
    /\ room'.state.revision = room.state.revision + 1
    /\ (\E w \in Workers : TickedFrom(w)) \/ (\E c \in Clients : MessagedFrom(c))

NoLostUpdate == [][ExactSuccessor]_vars

(* Ticks of one generation commit in strictly increasing Redis seconds, so  *)
(* no second is ticked twice: not by two workers, not after a lease was     *)
(* stalled, expired and taken over, not after a crash (Tick lock row of     *)
(* contracts.md: `done' blocks duplicate work in the same second).          *)
LaterTick == \A w \in Workers : CommitTick(w) => lastTick < ticker[w].slot

TickSecondsIncrease == [][LaterTick]_vars

(* A reward is minted one at a time, only from a running focus, and never   *)
(* before the focus has run for as long as its anchor says it must.         *)
RewardIsEarned ==
  [][room'.instance = room.instance
     /\ room'.state.reward_id # room.state.reward_id =>
       /\ room'.state.reward_id = room.state.reward_id + 1
       /\ room'.state.sessions_done = room.state.sessions_done + 1
       /\ Running(room.state)
       /\ room.state.last_tick_slot # NoSlot =>
            room.state.last_tick_slot + room.state.pomodoro_remaining <= now]_vars

(***************************************************************************)
(* The Redis second at which an undisturbed cycle will be over.            *)
(***************************************************************************)
TimeLeft(s) ==
  IF Running(s) THEN s.pomodoro_remaining + BreakDuration
  ELSE IF s.break THEN s.break_remaining ELSE 0

Deadline(s) == s.last_tick_slot + TimeLeft(s)

KeepsDeadline(s, t) ==
  Advancing(s) /\ s.last_tick_slot # NoSlot =>
    IF Advancing(t) THEN Deadline(t) = Deadline(s) ELSE Deadline(s) <= now

(* A scheduler tick accounts for time and for nothing else: the second at   *)
(* which the cycle ends does not move, so no second is charged twice or     *)
(* dropped, whatever client messages reconciled between the ticks           *)
(* (contracts.md: last_tick_slot "prevents a scheduler tick from repeating  *)
(* time already reconciled by a same-second client mutation").              *)
TickKeepsDeadline ==
  [][(\E w \in Workers : CommitTick(w)) => KeepsDeadline(room.state, room'.state)]_vars

(* What a tick does keep, whatever the refresh period: a tick whose second  *)
(* is not behind the document keeps the deadline, and a tick that has been  *)
(* overtaken by a message commits a celestial refresh or nothing, and       *)
(* leaves the countdown as the message left it.                             *)
SameCountdown(s, t) ==
  [t EXCEPT !.revision = s.revision, !.last_tick_slot = s.last_tick_slot] = s

TickAccountsForTime ==
  [][\A w \in Workers : CommitTick(w) =>
       IF ticker[w].slot >= room.state.last_tick_slot
       THEN KeepsDeadline(room.state, room'.state)
       ELSE /\ ticker[w].slot % CelestialPeriod = 0
            /\ SameCountdown(room.state, room'.state)]_vars

(* The same for the messages that are not about the timer: reconciling a    *)
(* countdown in order to record a location must not move its end.           *)
BystanderKeepsDeadline ==
  [][\A c \in Clients :
       CommitMessage(c) /\ client[c].message.type \in {"location", "time_override", "unknown"}
         => KeepsDeadline(room.state, room'.state)]_vars

(* Pausing neither refunds nor steals time: the focus time a pause leaves   *)
(* is what is left at a second between the receipt of the message and its   *)
(* commit, however late the last tick was and however often the commit had  *)
(* to be retried.                                                           *)
PauseIsPrompt ==
  [][\A c \in Clients :
       CommitMessage(c) /\ room'.state.paused /\ ~room.state.paused
         /\ room.state.last_tick_slot # NoSlot =>
           room.state.last_tick_slot + room.state.pomodoro_remaining
             - room'.state.pomodoro_remaining \in client[c].since..now]_vars

(***************************************************************************)
(* Liveness, under weak fairness of each worker's loop, of the clock and   *)
(* of key expiry.  Faults and messages are finitely many (their bounds).   *)
(***************************************************************************)
LeaseInUse == \E w \in Workers : LeaseHeld(w) /\ ticker[w].pc # "idle"

\* Faulty variant of LastSecondPasses: a crashed holder keeps the room's lock.
OnlyDoneExpires ==
  /\ now = MaxSlot
  /\ lock.status = "done"
  /\ lock' = NoLock
  /\ UNCHANGED <<now, room, instances, ticker, client, received, faults, lastTick>>

\* The clock stops at the bound MaxSlot, time does not: the last second stands
\* for every later one, so a lock no tick is using expires in it.
LastSecondPasses ==
  /\ now = MaxSlot
  /\ lock.status # "none"
  /\ ~LeaseInUse
  /\ lock' = NoLock
  /\ UNCHANGED <<now, room, instances, ticker, client, received, faults, lastTick>>

Fairness ==
  /\ \A w \in Workers : WF_vars(TickStep(w))
  /\ \A c \in Clients : WF_vars(MutationStep(c))
  /\ WF_vars(ClockTick)
  /\ WF_vars(LastSecondPasses)

FairSpec == Init /\ [][Next \/ LastSecondPasses]_vars /\ Fairness

(* A countdown that runs is always caught up with the clock in the end, or   *)
(* it ends: a crashed lease holder, a lost reply or a conflict with a client *)
(* message never freezes a room's timer.                                     *)
TimerCatchesUp ==
  Advancing(room.state) ~>
    (~Advancing(room.state) \/ room.state.last_tick_slot = MaxSlot)

(* A message that was read from a socket is committed, found to change      *)
(* nothing, or answered with a close: the retry loop ends.                  *)
MessageIsAnswered ==
  \A c \in Clients : client[c].pc \in {"read", "slot", "commit"} ~>
                       client[c].pc \in {"idle", "offline"}

(* Neither ticks nor messages refund or steal time: a tick keeps the second *)
(* at which the cycle ends, so does a message about anything else, and a    *)
(* pause freezes it at a second between its receipt and its commit: see     *)
(* TickKeepsDeadline, BystanderKeepsDeadline and PauseIsPrompt.             *)
TimeIsKept == TickKeepsDeadline /\ BystanderKeepsDeadline /\ PauseIsPrompt
=============================================================================
