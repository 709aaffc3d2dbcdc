--------------------------- MODULE RoomSyncProofs ---------------------------
(***************************************************************************)
(* Theorems about RoomSync, for any number of workers, sockets, seconds,   *)
(* generations, messages and faults.                                       *)
(***************************************************************************)
EXTENDS RoomSync, RoomTimerProofs

-----------------------------------------------------------------------------
(***************************************************************************)
(* The documents that ticks and messages compute.                          *)
(***************************************************************************)

(* Elapsed seconds are a natural number, also behind the document's slot. *)
LEMMA ElapsedType ==
  ASSUME NEW s \in BackendState, NEW slot \in Nat
  PROVE  Elapsed(s, slot) \in Nat
<1>1. CASE s.last_tick_slot = NoSlot
  BY <1>1 DEF Elapsed
<1>2. CASE s.last_tick_slot # NoSlot
  <2>1. s.last_tick_slot \in Nat
    BY <1>2 DEF BackendState
  <2>2. QED
    BY <1>2, <2>1 DEF Elapsed, Larger
<1>3. QED
  BY <1>1, <1>2

(* Re-anchoring keeps the shape of the document. *)
LEMMA AnchoredType ==
  ASSUME NEW s \in BackendState, NEW slot \in Nat
  PROVE  Anchored(s, slot) \in BackendState
BY DEF Anchored, BackendState

(* A tick computes a document from a document. *)
LEMMA TickedType ==
  ASSUME NEW s \in BackendState, NEW slot \in Nat
  PROVE  Ticked(s, slot) \in BackendState
<1>1. Elapsed(s, slot) \in Int
  BY ElapsedType
<1>2. AdvanceTimer(s, Elapsed(s, slot)) \in BackendState
  BY <1>1, AdvanceTimerType
<1>3. QED
  BY <1>2, AnchoredType DEF Ticked

(* The reconciliation before a message computes a document. *)
LEMMA ReconciledType ==
  ASSUME NEW s \in BackendState, NEW slot \in Nat
  PROVE  Reconciled(s, slot) \in BackendState
<1>1. CASE s.last_tick_slot = NoSlot
  BY <1>1 DEF Reconciled
<1>2. CASE s.last_tick_slot # NoSlot
  <2>1. s.last_tick_slot \in Nat
    BY <1>2 DEF BackendState
  <2>2. Larger(0, slot - s.last_tick_slot) \in Int
    BY <2>1 DEF Larger
  <2>3. AdvanceTimer(s, Larger(0, slot - s.last_tick_slot)) \in BackendState
    BY <2>2, AdvanceTimerType
  <2>4. QED
    BY <2>3, AnchoredType DEF Reconciled
<1>3. QED
  BY <1>1, <1>2

(* So does the message itself. *)
LEMMA MutatedType ==
  ASSUME NEW s \in BackendState, NEW slot \in Nat, NEW m \in Message
  PROVE  Mutated(s, slot, m) \in BackendState
<1>1. Handle(Reconciled(s, slot), m) \in BackendState
  BY ReconciledType, HandleType
<1>2. \A t \in BackendState : [t EXCEPT !.last_tick_slot = slot] \in BackendState
  BY DEF BackendState
<1>3. QED
  BY <1>1, <1>2 DEF Mutated, HandledAt

(* The revision of a successor is the next one, and it is a document. *)
LEMMA SuccessorType ==
  ASSUME NEW base \in BackendState, NEW s \in BackendState
  PROVE  /\ Successor(base, s) \in BackendState
         /\ Successor(base, s).revision = base.revision + 1
<1>1. base.revision + 1 \in Nat
  BY DEF BackendState
<1>2. QED
  BY <1>1 DEF Successor, BackendState

-----------------------------------------------------------------------------
(***************************************************************************)
(* Type correctness.                                                       *)
(***************************************************************************)

(* Writing the entry of one worker keeps the tickers in shape. *)
LEMMA SetTickerType ==
  ASSUME TypeOK, NEW w \in Workers, NEW t \in TickOfRoom, SetTicker(w, t)
  PROVE  ticker' \in [Workers -> TickOfRoom]
BY DEF TypeOK, SetTicker

(* Writing the entry of one socket keeps the sockets in shape. *)
LEMMA SetClientType ==
  ASSUME TypeOK, NEW c \in Clients, NEW r \in Socket, SetClient(c, r)
  PROVE  client' \in [Clients -> Socket]
BY DEF TypeOK, SetClient

(* The idle entries have their shape. *)
LEMMA IdleTypes ==
  /\ IdleTicker \in TickOfRoom
  /\ NoClient \in Socket
  /\ \A i \in Nat : Connected(i) \in Socket
<1>1. NoMessage \in Message
  BY DEF NoMessage, Message
<1>2. IdleTicker \in TickOfRoom
  BY MakeStateType DEF IdleTicker, TickOfRoom
<1>3. NoClient \in Socket
  BY <1>1, MakeStateType DEF NoClient, Socket
<1>4. \A i \in Nat : Connected(i) \in Socket
  BY <1>3 DEF Connected, Socket
<1>5. QED
  BY <1>2, <1>3, <1>4

(* The values of the lock have their shape. *)
LEMMA LockTypes ==
  ASSUME TypeOK
  PROVE  /\ NoLock \in TickLock
         /\ \A slot \in Nat : DoneLock(slot) \in TickLock
         /\ \A w \in Workers, slot \in Nat : RunningLock(w, slot) \in TickLock
<1>1. now + LockSeconds \in Nat
  BY SyncAssumption DEF TypeOK
<1>2. QED
  BY <1>1 DEF NoLock, DoneLock, RunningLock, TickLock

(* The initial states have their types. *)
LEMMA InitType == Init => TypeOK
<1>1. SUFFICES ASSUME Init PROVE TypeOK
  OBVIOUS
<1>2. room \in [instance : Nat, state : BackendState]
  BY <1>1, MakeStateType DEF Init, InitWith, NoRoom
<1>3. lock \in TickLock
  BY <1>1 DEF Init, InitWith, NoLock, TickLock
<1>4. QED
  BY <1>1, <1>2, <1>3, IdleTypes, SyncAssumption
  DEF Init, InitWith, NoRoom, NoSlot, TypeOK

(* Redis keeps the types. *)
LEMMA RedisStepType ==
  ASSUME TypeOK, RedisStep
  PROVE  TypeOK'
<1>1. CASE ClockTick
  BY <1>1 DEF ClockTick, TypeOK
<1>2. CASE ExpireLock
  BY <1>2, LockTypes DEF ExpireLock, TypeOK
<1>3. CASE CreateRoom
  <2>1. room' \in [instance : Nat, state : BackendState]
    BY <1>3, MakeStateType DEF CreateRoom, TypeOK
  <2>2. QED
    BY <1>3, <2>1, LockTypes DEF CreateRoom, TypeOK
<1>4. CASE ExpireRoom
  <2>1. room' \in [instance : Nat, state : BackendState]
    BY <1>4, MakeStateType DEF ExpireRoom, NoRoom
  <2>2. QED
    BY <1>4, <2>1 DEF ExpireRoom, TypeOK
<1>5. QED
  BY <1>1, <1>2, <1>3, <1>4 DEF RedisStep

(* tick_room keeps the types, failing or not. *)
LEMMA TickStepType ==
  ASSUME TypeOK, NEW w \in Workers, TickStep(w) \/ TickFails(w) \/ Crash(w)
  PROVE  TypeOK'
<1>. DEFINE t == ticker[w]
<1>1. t \in TickOfRoom /\ t.slot \in Nat /\ t.base \in BackendState
  BY DEF TypeOK, TickOfRoom
<1>2. \A pc \in {"complete", "commit"} : [t EXCEPT !.pc = pc] \in TickOfRoom
  BY <1>1 DEF TickOfRoom
<1>3. CASE StartTick(w)
  <2>1. [IdleTicker EXCEPT !.pc = "acquire"] \in TickOfRoom
    BY IdleTypes DEF TickOfRoom
  <2>2. QED
    BY <1>3, <2>1, SetTickerType DEF StartTick, TypeOK
<1>4. CASE AcquireLease(w)
  <2>1. now \in Nat
    BY DEF TypeOK
  <2>2. [IdleTicker EXCEPT !.pc = "reload", !.slot = now] \in TickOfRoom
    BY <2>1, IdleTypes DEF TickOfRoom
  <2>3. ticker' \in [Workers -> TickOfRoom]
    BY <1>4, <2>2, IdleTypes, SetTickerType DEF AcquireLease
  <2>4. lock' \in TickLock
    BY <1>4, <2>1, LockTypes DEF AcquireLease, TypeOK
  <2>5. QED
    BY <1>4, <2>3, <2>4 DEF AcquireLease, TypeOK
<1>5. CASE Reload(w)
  <2>1. [t EXCEPT !.pc = "commit", !.instance = room.instance, !.base = room.state]
          \in TickOfRoom
    BY <1>1 DEF TypeOK, TickOfRoom
  <2>2. ticker' \in [Workers -> TickOfRoom]
    BY <1>2, <1>5, <2>1, SetTickerType DEF Reload
  <2>3. QED
    BY <1>5, <2>2 DEF Reload, TypeOK
<1>6. CASE CommitTick(w)
  <2>1. TickSuccessor(w) \in BackendState
    BY <1>1, TickedType, SuccessorType DEF TickSuccessor
  <2>2. room' \in [instance : Nat, state : BackendState]
    BY <1>6, <2>1 DEF CommitTick, TypeOK
  <2>3. ticker' \in [Workers -> TickOfRoom]
    BY <1>2, <1>6, IdleTypes, SetTickerType DEF CommitTick
  <2>4. lock' \in TickLock /\ lastTick' \in Nat /\ faults' \in Nat
    BY <1>1, <1>6, LockTypes DEF CommitTick, TypeOK
  <2>5. QED
    BY <1>6, <2>2, <2>3, <2>4 DEF CommitTick, TypeOK
<1>7. CASE RefuseTick(w)
  BY <1>2, <1>7, SetTickerType DEF RefuseTick, TypeOK
<1>8. CASE CompleteLease(w)
  <2>1. lock' \in TickLock
    BY <1>1, <1>8, LockTypes DEF CompleteLease, TypeOK
  <2>2. QED
    BY <1>8, <2>1, IdleTypes, SetTickerType DEF CompleteLease, TypeOK
<1>9. CASE TickFails(w)
  BY <1>2, <1>9, SetTickerType DEF TickFails, TypeOK
<1>10. CASE Crash(w)
  BY <1>10, IdleTypes, SetTickerType DEF Crash, TypeOK
<1>11. QED
  BY <1>3, <1>4, <1>5, <1>6, <1>7, <1>8, <1>9, <1>10 DEF TickStep

(* A socket and its messages keep the types. *)
LEMMA ClientStepType ==
  ASSUME TypeOK, NEW c \in Clients, ClientStep(c)
  PROVE  TypeOK'
<1>. DEFINE r == client[c]
<1>1. /\ r \in Socket /\ r.bound \in Nat /\ r.message \in Message
      /\ r.attempt \in Nat /\ r.base \in BackendState /\ r.slot \in Nat
      /\ r.since \in Nat
  BY DEF TypeOK, Socket
<1>2. NoClient \in Socket /\ Connected(r.bound) \in Socket
  BY <1>1, IdleTypes
<1>3. CASE Connect(c)
  <2>1. Connected(room.instance) \in Socket
    BY IdleTypes DEF TypeOK
  <2>2. QED
    BY <1>3, <2>1, SetClientType DEF Connect, TypeOK
<1>4. CASE Disconnect(c)
  BY <1>2, <1>4, SetClientType DEF Disconnect, TypeOK
<1>5. ASSUME NEW m \in Message, Receive(c, m) PROVE TypeOK'
  <2>1. [r EXCEPT !.pc = "read", !.message = m, !.attempt = 1, !.since = now]
          \in Socket
    BY <1>1 DEF TypeOK, Socket
  <2>2. QED
    BY <1>5, <2>1, SetClientType DEF Receive, TypeOK
<1>6. CASE ReadSnapshot(c)
  <2>1. [r EXCEPT !.pc = "slot", !.base = room.state] \in Socket
    BY <1>1 DEF TypeOK, Socket
  <2>2. client' \in [Clients -> Socket]
    BY <1>2, <1>6, <2>1, SetClientType DEF ReadSnapshot
  <2>3. QED
    BY <1>6, <2>2 DEF ReadSnapshot, TypeOK
<1>7. CASE ReadSlot(c)
  <2>1. [r EXCEPT !.pc = "commit", !.slot = now] \in Socket
    BY <1>1 DEF TypeOK, Socket
  <2>2. client' \in [Clients -> Socket]
    BY <1>2, <1>7, <2>1, SetClientType DEF ReadSlot
  <2>3. QED
    BY <1>7, <2>2 DEF ReadSlot, TypeOK
<1>8. CASE CommitMessage(c)
  <2>1. MessageSuccessor(c) \in BackendState
    BY <1>1, MutatedType, SuccessorType DEF MessageSuccessor
  <2>2. room' \in [instance : Nat, state : BackendState]
    BY <1>8, <2>1 DEF CommitMessage, TypeOK
  <2>3. client' \in [Clients -> Socket] /\ faults' \in Nat
    BY <1>2, <1>8, SetClientType DEF CommitMessage, TypeOK
  <2>4. QED
    BY <1>8, <2>2, <2>3 DEF CommitMessage, TypeOK
<1>9. CASE RefuseMessage(c)
  <2>1. r.attempt + 1 \in Nat
    BY <1>1
  <2>2. Retry(r) \in Socket
    BY <1>1, <1>2, <2>1 DEF Retry, Socket
  <2>3. client' \in [Clients -> Socket]
    BY <1>2, <1>9, <2>2, SetClientType DEF RefuseMessage
  <2>4. QED
    BY <1>9, <2>3 DEF RefuseMessage, TypeOK
<1>10. QED
  BY <1>3, <1>4, <1>5, <1>6, <1>7, <1>8, <1>9 DEF ClientStep, MutationStep

(* Every step keeps the types. *)
LEMMA NextType ==
  ASSUME TypeOK, [Next]_vars
  PROVE  TypeOK'
<1>1. CASE UNCHANGED vars
  BY <1>1 DEF vars, TypeOK
<1>2. CASE Next
  BY <1>2, RedisStepType, TickStepType, ClientStepType DEF Next
<1>3. QED
  BY <1>1, <1>2

(* Everything a room holds, and everything a worker or a socket holds of    *)
(* it, keeps its type: no countdown goes below zero, whatever the ticks,    *)
(* messages, retries, crashes and generations do.                           *)
THEOREM TypeCorrect == Spec => []TypeOK
BY InitType, NextType, PTL DEF Spec

-----------------------------------------------------------------------------
(***************************************************************************)
(* Revisions.  Instances are handed out once, so nobody holds a snapshot   *)
(* of a generation that is still to come; within a generation the revision *)
(* only grows, so a snapshot at the document's revision is the document.   *)
(***************************************************************************)
GenerationsHandedOut ==
  /\ room.instance <= instances
  /\ \A w \in Workers :
       ticker[w].pc = "commit" => ticker[w].instance <= instances
  /\ \A c \in Clients : client[c].bound <= instances

RevisionInv == TypeOK /\ GenerationsHandedOut /\ RevisionIdentifiesState

(* Initially nobody holds anything. *)
LEMMA RevisionInit == Init => RevisionInv
BY InitType, SyncAssumption
DEF RevisionInv, GenerationsHandedOut, RevisionIdentifiesState, RoomExists,
    Init, InitWith, NoRoom, IdleTicker, NoClient

(* A step that leaves the document and the sockets alone, and gives its     *)
(* worker a snapshot of the document or none.                               *)
LEMMA TickerMoves ==
  ASSUME RevisionInv, NEW w \in Workers, NEW t, SetTicker(w, t),
         UNCHANGED <<room, instances, client>>, TypeOK',
         \/ t.pc # "commit"
         \/ t.instance = room.instance /\ t.base = room.state
  PROVE  RevisionInv'
<1>1. /\ room.instance \in Nat /\ instances \in Nat
      /\ room.state.revision \in Nat
  BY DEF RevisionInv, TypeOK, BackendState
<1>2. /\ ticker'[w] = t
      /\ \A v \in Workers : v # w => ticker'[v] = ticker[v]
  BY DEF SetTicker, RevisionInv, TypeOK
<1>3. GenerationsHandedOut'
  BY <1>1, <1>2 DEF RevisionInv, GenerationsHandedOut
<1>4. RevisionIdentifiesState'
  BY <1>1, <1>2
  DEF RevisionInv, RevisionIdentifiesState, SnapshotCurrent, RoomExists
<1>5. QED
  BY <1>3, <1>4 DEF RevisionInv

(* The same for a socket, which may also keep the snapshot it has. *)
LEMMA SocketMoves ==
  ASSUME RevisionInv, NEW c \in Clients, NEW r, SetClient(c, r),
         UNCHANGED <<room, instances, ticker>>, TypeOK',
         r.bound \in {0, room.instance, client[c].bound},
         \/ r.pc \notin {"slot", "commit"}
         \/ r.bound = room.instance /\ r.base = room.state
         \/ /\ client[c].pc \in {"slot", "commit"}
            /\ r.bound = client[c].bound /\ r.base = client[c].base
  PROVE  RevisionInv'
<1>1. /\ room.instance \in Nat /\ instances \in Nat
      /\ room.state.revision \in Nat
  BY DEF RevisionInv, TypeOK, BackendState
<1>2. /\ client'[c] = r
      /\ \A d \in Clients : d # c => client'[d] = client[d]
  BY DEF SetClient, RevisionInv, TypeOK
<1>3. GenerationsHandedOut'
  BY <1>1, <1>2 DEF RevisionInv, GenerationsHandedOut
<1>4. RevisionIdentifiesState'
  BY <1>1, <1>2
  DEF RevisionInv, RevisionIdentifiesState, SnapshotCurrent, RoomExists
<1>5. QED
  BY <1>3, <1>4 DEF RevisionInv

(* A step that writes the next revision, after which no snapshot is new. *)
LEMMA DocumentMoves ==
  ASSUME RevisionInv, TypeOK', UNCHANGED instances,
         room'.instance = room.instance,
         room'.state.revision = room.state.revision + 1,
         \A w \in Workers : ticker'[w].pc # "commit" \/ ticker'[w] = ticker[w],
         \A c \in Clients :
           \/ client'[c] = client[c]
           \/ /\ client'[c].pc \notin {"slot", "commit"}
              /\ client'[c].bound \in {0, client[c].bound}
  PROVE  RevisionInv'
<1>1. /\ room.instance \in Nat /\ instances \in Nat
      /\ room.state.revision \in Nat
      /\ \A w \in Workers : ticker[w].base.revision \in Nat
      /\ \A c \in Clients : client[c].base.revision \in Nat
  BY DEF RevisionInv, TypeOK, BackendState, TickOfRoom, Socket
<1>2. GenerationsHandedOut'
  BY <1>1 DEF RevisionInv, GenerationsHandedOut
<1>3. ASSUME NEW w \in Workers, RoomExists', ticker'[w].pc = "commit"
      PROVE  SnapshotCurrent(ticker[w].instance, ticker[w].base)'
  <2>1. ticker'[w] = ticker[w]
    BY <1>3
  <2>2. SnapshotCurrent(ticker[w].instance, ticker[w].base)
    BY <1>3, <2>1 DEF RevisionInv, RevisionIdentifiesState, RoomExists
  <2>3. QED
    BY <1>1, <2>1, <2>2 DEF SnapshotCurrent
<1>4. ASSUME NEW c \in Clients, RoomExists', client'[c].pc \in {"slot", "commit"}
      PROVE  SnapshotCurrent(client[c].bound, client[c].base)'
  <2>1. client'[c] = client[c]
    BY <1>4
  <2>2. SnapshotCurrent(client[c].bound, client[c].base)
    BY <1>4, <2>1 DEF RevisionInv, RevisionIdentifiesState, RoomExists
  <2>3. QED
    BY <1>1, <2>1, <2>2 DEF SnapshotCurrent
<1>5. QED
  BY <1>2, <1>3, <1>4 DEF RevisionInv, RevisionIdentifiesState

(* The clock, the expiry of keys and the creation script. *)
LEMMA RevisionRedisStep ==
  ASSUME RevisionInv, RedisStep, TypeOK'
  PROVE  RevisionInv'
<1>1. CASE ClockTick \/ ExpireLock
  BY <1>1
  DEF ClockTick, ExpireLock, RevisionInv, GenerationsHandedOut,
      RevisionIdentifiesState, SnapshotCurrent, RoomExists
<1>2. CASE CreateRoom
  <2>1. instances \in Nat /\ instances' = instances + 1
        /\ room'.instance = instances + 1 /\ UNCHANGED <<ticker, client>>
    BY <1>2 DEF CreateRoom, RevisionInv, TypeOK
  <2>2. /\ \A w \in Workers : ticker[w].instance \in Nat
        /\ \A c \in Clients : client[c].bound \in Nat
    BY DEF RevisionInv, TypeOK, TickOfRoom, Socket
  <2>3. GenerationsHandedOut'
    BY <2>1, <2>2 DEF RevisionInv, GenerationsHandedOut
  <2>4. RevisionIdentifiesState'
    BY <2>1, <2>2
    DEF RevisionInv, GenerationsHandedOut, RevisionIdentifiesState, SnapshotCurrent
  <2>5. QED
    BY <2>3, <2>4 DEF RevisionInv
<1>3. CASE ExpireRoom
  <2>1. room'.instance = 0 /\ instances \in Nat
        /\ UNCHANGED <<instances, ticker, client>>
    BY <1>3 DEF ExpireRoom, NoRoom, RevisionInv, TypeOK
  <2>2. QED
    BY <2>1
    DEF RevisionInv, GenerationsHandedOut, RevisionIdentifiesState, RoomExists
<1>4. QED
  BY <1>1, <1>2, <1>3 DEF RedisStep

(* A worker. *)
LEMMA RevisionTickStep ==
  ASSUME RevisionInv, NEW w \in Workers,
         TickStep(w) \/ TickFails(w) \/ Crash(w), TypeOK'
  PROVE  RevisionInv'
<1>1. ticker[w] \in TickOfRoom
  BY DEF RevisionInv, TypeOK
<1>2. IdleTicker.pc = "idle"
  BY DEF IdleTicker
<1>3. [ticker[w] EXCEPT !.pc = "complete"].pc = "complete"
  BY <1>1 DEF TickOfRoom
<1>4. CASE StartTick(w)
  <2>1. [IdleTicker EXCEPT !.pc = "acquire"].pc = "acquire"
    BY DEF IdleTicker
  <2>2. QED
    BY <1>4, <2>1, TickerMoves DEF StartTick
<1>5. CASE AcquireLease(w)
  <2>1. [IdleTicker EXCEPT !.pc = "reload", !.slot = now].pc = "reload"
    BY DEF IdleTicker
  <2>2. QED
    BY <1>2, <1>5, <2>1, TickerMoves DEF AcquireLease
<1>6. CASE Reload(w)
  <2>. DEFINE t == [ticker[w] EXCEPT !.pc = "commit", !.instance = room.instance,
                                     !.base = room.state]
  <2>1. t.instance = room.instance /\ t.base = room.state
    BY <1>1 DEF TickOfRoom
  <2>2. SetTicker(w, t) \/ SetTicker(w, [ticker[w] EXCEPT !.pc = "complete"])
    BY <1>6 DEF Reload
  <2>3. UNCHANGED <<room, instances, client>>
    BY <1>6 DEF Reload
  <2>. HIDE DEF t
  <2>4. QED
    BY <1>3, <2>1, <2>2, <2>3, TickerMoves
<1>7. CASE CommitTick(w)
  <2>1. room'.instance = room.instance /\ UNCHANGED <<instances, client>>
    BY <1>7 DEF CommitTick, RevisionInv, TypeOK
  <2>2. ticker[w].base \in BackendState /\ ticker[w].slot \in Nat
    BY <1>1 DEF TickOfRoom
  <2>3. TickSuccessor(w).revision = ticker[w].base.revision + 1
    BY <2>2, TickedType, SuccessorType DEF TickSuccessor
  <2>4. room'.state.revision = room.state.revision + 1
    BY <1>7, <2>3
    DEF CommitTick, TickFenced, RevisionCurrent, RevisionInv, TypeOK
  <2>5. \A v \in Workers : ticker'[v].pc # "commit" \/ ticker'[v] = ticker[v]
    BY <1>2, <1>3, <1>7 DEF CommitTick, SetTicker, RevisionInv, TypeOK
  <2>6. QED
    BY <2>1, <2>4, <2>5, DocumentMoves
<1>8. CASE RefuseTick(w)
  BY <1>3, <1>8, TickerMoves DEF RefuseTick
<1>9. CASE CompleteLease(w)
  BY <1>2, <1>9, TickerMoves DEF CompleteLease
<1>10. CASE TickFails(w)
  BY <1>3, <1>10, TickerMoves DEF TickFails
<1>11. CASE Crash(w)
  BY <1>2, <1>11, TickerMoves DEF Crash
<1>12. QED
  BY <1>4, <1>5, <1>6, <1>7, <1>8, <1>9, <1>10, <1>11 DEF TickStep

(* A socket. *)
LEMMA RevisionClientStep ==
  ASSUME RevisionInv, NEW c \in Clients, ClientStep(c), TypeOK'
  PROVE  RevisionInv'
<1>. DEFINE r == client[c]
<1>1. r \in Socket /\ r.bound \in Nat
  BY DEF RevisionInv, TypeOK, Socket
<1>2. /\ NoClient.pc = "offline" /\ NoClient.bound = 0
      /\ \A i : Connected(i).pc = "idle" /\ Connected(i).bound = i
  BY DEF NoClient, Connected
<1>3. CASE Connect(c)
  BY <1>2, <1>3, SocketMoves DEF Connect
<1>4. CASE Disconnect(c)
  BY <1>2, <1>4, SocketMoves DEF Disconnect
<1>5. ASSUME NEW m \in Message, Receive(c, m) PROVE RevisionInv'
  <2>. DEFINE n == [r EXCEPT !.pc = "read", !.message = m, !.attempt = 1,
                             !.since = now]
  <2>1. n.pc = "read" /\ n.bound = r.bound
    BY <1>1 DEF Socket
  <2>2. SetClient(c, n) /\ UNCHANGED <<room, instances, ticker>>
    BY <1>5 DEF Receive
  <2>. HIDE DEF n
  <2>3. QED
    BY <2>1, <2>2, SocketMoves
<1>6. CASE ReadSnapshot(c)
  <2>. DEFINE n == [r EXCEPT !.pc = "slot", !.base = room.state]
  <2>1. n.bound = r.bound /\ n.base = room.state
    BY <1>1 DEF Socket
  <2>2. UNCHANGED <<room, instances, ticker>>
    BY <1>6 DEF ReadSnapshot
  <2>3. \/ SetClient(c, n) /\ r.bound = room.instance
        \/ SetClient(c, NoClient)
    BY <1>6 DEF ReadSnapshot, GenerationCurrent
  <2>. HIDE DEF n
  <2>4. QED
    BY <1>2, <2>1, <2>2, <2>3, SocketMoves
<1>7. CASE ReadSlot(c)
  <2>. DEFINE n == [r EXCEPT !.pc = "commit", !.slot = now]
  <2>1. n.bound = r.bound /\ n.base = r.base
    BY <1>1 DEF Socket
  <2>2. r.pc = "slot" /\ UNCHANGED <<room, instances, ticker>>
    BY <1>7 DEF ReadSlot
  <2>3. SetClient(c, n) \/ SetClient(c, Connected(r.bound))
    BY <1>7 DEF ReadSlot
  <2>. HIDE DEF n
  <2>4. QED
    BY <1>2, <2>1, <2>2, <2>3, SocketMoves
<1>8. CASE CommitMessage(c)
  <2>1. room'.instance = room.instance /\ UNCHANGED <<instances, ticker>>
    BY <1>8 DEF CommitMessage, RevisionInv, TypeOK
  <2>2. r.base \in BackendState /\ r.slot \in Nat /\ r.message \in Message
    BY <1>1 DEF Socket
  <2>3. MessageSuccessor(c).revision = r.base.revision + 1
    BY <2>2, MutatedType, SuccessorType DEF MessageSuccessor
  <2>4. room'.state.revision = room.state.revision + 1
    BY <1>8, <2>3
    DEF CommitMessage, MessageFenced, RevisionCurrent, RevisionInv, TypeOK
  <2>5. \A d \in Clients :
          \/ client'[d] = client[d]
          \/ /\ client'[d].pc \notin {"slot", "commit"}
             /\ client'[d].bound \in {0, client[d].bound}
    BY <1>2, <1>8 DEF CommitMessage, SetClient, RevisionInv, TypeOK
  <2>6. QED
    BY <2>1, <2>4, <2>5, DocumentMoves
<1>9. CASE RefuseMessage(c)
  <2>1. Retry(r).pc = "read" /\ Retry(r).bound = r.bound
    BY DEF Retry, Connected, NoClient
  <2>2. SetClient(c, Retry(r)) \/ SetClient(c, NoClient)
    BY <1>9 DEF RefuseMessage
  <2>3. UNCHANGED <<room, instances, ticker>>
    BY <1>9 DEF RefuseMessage
  <2>4. QED
    BY <1>2, <2>1, <2>2, <2>3, SocketMoves
<1>10. QED
  BY <1>3, <1>4, <1>5, <1>6, <1>7, <1>8, <1>9 DEF ClientStep, MutationStep

(* Every step keeps the snapshots sound. *)
LEMMA RevisionNext ==
  ASSUME RevisionInv, [Next]_vars
  PROVE  RevisionInv'
<1>1. TypeOK'
  BY NextType DEF RevisionInv
<1>2. CASE UNCHANGED vars
  BY <1>2
  DEF vars, RevisionInv, TypeOK, GenerationsHandedOut, RevisionIdentifiesState,
      SnapshotCurrent, RoomExists
<1>3. CASE Next
  BY <1>1, <1>3, RevisionRedisStep, RevisionTickStep, RevisionClientStep DEF Next
<1>4. QED
  BY <1>2, <1>3

(* A worker or a socket whose snapshot has the document's generation and    *)
(* revision holds the document: the compare of the commit scripts is sound. *)
THEOREM RevisionsIdentifyStates == Spec => []RevisionIdentifiesState
<1>1. RevisionInv => RevisionIdentifiesState
  BY DEF RevisionInv
<1>2. QED
  BY <1>1, RevisionInit, RevisionNext, PTL DEF Spec

-----------------------------------------------------------------------------
(***************************************************************************)
(* Lost updates.                                                           *)
(***************************************************************************)

(* A step changes the document by a commit of the document itself. *)
LEMMA CommitsAreExact ==
  ASSUME RevisionInv, [Next]_vars
  PROVE  [ExactSuccessor]_vars
<1>1. CASE UNCHANGED vars
  BY <1>1
<1>2. CASE UNCHANGED room
  BY <1>2 DEF ExactSuccessor
<1>3. CASE CreateRoom
  BY <1>3 DEF CreateRoom, ExactSuccessor
<1>4. CASE ExpireRoom
  BY <1>4 DEF ExpireRoom, NoRoom, RoomExists, ExactSuccessor
<1>5. ASSUME NEW w \in Workers, CommitTick(w) PROVE ExactSuccessor
  <2>1. /\ ticker[w].pc = "commit" /\ RoomExists
        /\ ticker[w].instance = room.instance
        /\ ticker[w].base.revision = room.state.revision
    BY <1>5 DEF CommitTick, TickFenced, GenerationCurrent, RevisionCurrent
  <2>2. ticker[w].base = room.state
    BY <2>1 DEF RevisionInv, RevisionIdentifiesState, SnapshotCurrent
  <2>3. room'.state = TickSuccessor(w)
    BY <1>5 DEF CommitTick, RevisionInv, TypeOK
  <2>4. ticker[w].base \in BackendState /\ ticker[w].slot \in Nat
    BY DEF RevisionInv, TypeOK, TickOfRoom
  <2>5. TickSuccessor(w).revision = ticker[w].base.revision + 1
    BY <2>4, TickedType, SuccessorType DEF TickSuccessor
  <2>6. QED
    BY <2>1, <2>2, <2>3, <2>5 DEF ExactSuccessor, TickedFrom
<1>6. ASSUME NEW c \in Clients, CommitMessage(c) PROVE ExactSuccessor
  <2>1. /\ client[c].pc = "commit" /\ RoomExists
        /\ client[c].bound = room.instance
        /\ client[c].base.revision = room.state.revision
    BY <1>6 DEF CommitMessage, MessageFenced, GenerationCurrent, RevisionCurrent
  <2>2. client[c].base = room.state
    BY <2>1 DEF RevisionInv, RevisionIdentifiesState, SnapshotCurrent
  <2>3. room'.state = MessageSuccessor(c)
    BY <1>6 DEF CommitMessage, RevisionInv, TypeOK
  <2>4. /\ client[c].base \in BackendState /\ client[c].slot \in Nat
        /\ client[c].message \in Message
    BY DEF RevisionInv, TypeOK, Socket
  <2>5. MessageSuccessor(c).revision = client[c].base.revision + 1
    BY <2>4, MutatedType, SuccessorType DEF MessageSuccessor
  <2>6. QED
    BY <2>1, <2>2, <2>3, <2>5 DEF ExactSuccessor, MessagedFrom
<1>7. QED
  <2>1. ASSUME NEW w \in Workers,
               TickStep(w) \/ TickFails(w) \/ Crash(w), ~CommitTick(w)
        PROVE  UNCHANGED room
    BY <2>1
    DEF TickStep, StartTick, AcquireLease, Reload, RefuseTick, CompleteLease,
        TickFails, Crash
  <2>2. ASSUME NEW c \in Clients, ClientStep(c), ~CommitMessage(c)
        PROVE  UNCHANGED room
    BY <2>2
    DEF ClientStep, Connect, Disconnect, Receive, MutationStep, ReadSnapshot,
        ReadSlot, RefuseMessage
  <2>3. ASSUME RedisStep, ~CreateRoom, ~ExpireRoom
        PROVE  UNCHANGED room
    BY <2>3 DEF RedisStep, ClockTick, ExpireLock
  <2>4. QED
    BY <1>1, <1>2, <1>3, <1>4, <1>5, <1>6, <2>1, <2>2, <2>3 DEF Next

(* No committed change is lost, repeated or carried into another generation:*)
(* every document is the exact successor of the one it replaces.            *)
THEOREM NoUpdateIsLost == Spec => NoLostUpdate
BY RevisionInit, RevisionNext, CommitsAreExact, PTL DEF Spec, NoLostUpdate

-----------------------------------------------------------------------------
(***************************************************************************)
(* The tick lease.  A tick writes only under a lease it took for a second  *)
(* later than every committed tick; while that second is not over, the     *)
(* `done' value that the commit leaves cannot have expired.                *)
(***************************************************************************)
LeaseInv ==
  /\ lastTick <= now
  /\ lock.status = "running" => lastTick < lock.slot /\ lock.slot <= now
  /\ lastTick = now =>
       lock.status = "done" /\ lock.slot = now /\ lock.expires > now

(* Initially there is no lease and no tick. *)
LEMMA LeaseInit == Init => LeaseInv
BY SyncAssumption DEF Init, InitWith, NoLock, NoSlot, LeaseInv

(* Every step keeps the lease ahead of the ticks. *)
LEMMA LeaseNext ==
  ASSUME TypeOK, LeaseInv, [Next]_vars
  PROVE  LeaseInv'
<1>1. /\ now \in Nat /\ lastTick \in Nat \cup {-1} /\ LockSeconds \in Nat \ {0}
      /\ lock.slot \in Nat /\ lock.expires \in Nat
  BY SyncAssumption DEF TypeOK, TickLock, NoSlot
<1>2. CASE UNCHANGED <<now, lock, lastTick>>
  BY <1>2 DEF LeaseInv
<1>3. CASE ClockTick
  BY <1>1, <1>3 DEF ClockTick, LeaseInv
<1>4. CASE ExpireLock
  BY <1>1, <1>4 DEF ExpireLock, LockExpired, NoLock, LeaseInv
<1>5. CASE CreateRoom
  BY <1>1, <1>5 DEF CreateRoom, NoLock, NoSlot, LeaseInv
<1>6. ASSUME NEW w \in Workers, AcquireLease(w) PROVE LeaseInv'
  BY <1>1, <1>6 DEF AcquireLease, LeaseFree, RunningLock, LeaseInv
<1>7. ASSUME NEW w \in Workers, CommitTick(w) PROVE LeaseInv'
  BY <1>1, <1>7 DEF CommitTick, TickFenced, LeaseHeld, DoneLock, LeaseInv
<1>8. ASSUME NEW w \in Workers, CompleteLease(w) PROVE LeaseInv'
  BY <1>1, <1>8 DEF CompleteLease, LeaseHeld, DoneLock, LeaseInv
<1>9. ASSUME NEW w \in Workers, TickStep(w) \/ TickFails(w) \/ Crash(w)
      PROVE  LeaseInv'
  BY <1>2, <1>6, <1>7, <1>8, <1>9
  DEF TickStep, StartTick, Reload, RefuseTick, TickFails, Crash
<1>10. ASSUME NEW c \in Clients, ClientStep(c) PROVE LeaseInv'
  BY <1>2, <1>10
  DEF ClientStep, Connect, Disconnect, Receive, MutationStep, ReadSnapshot,
      ReadSlot, CommitMessage, RefuseMessage
<1>11. QED
  BY <1>2, <1>3, <1>4, <1>5, <1>9, <1>10 DEF Next, RedisStep, ExpireRoom, vars

(* A tick that commits, commits a later second. *)
LEMMA TicksGoForward ==
  ASSUME TypeOK, LeaseInv
  PROVE  LaterTick
<1>1. SUFFICES ASSUME NEW w \in Workers, CommitTick(w)
               PROVE  lastTick < ticker[w].slot
  BY DEF LaterTick
<1>2. lock.status = "running" /\ lock.slot = ticker[w].slot
  BY <1>1 DEF CommitTick, TickFenced, LeaseHeld
<1>3. QED
  BY <1>2 DEF LeaseInv

(* No Redis second of a generation is ticked twice. *)
THEOREM NoSecondTickedTwice == Spec => TickSecondsIncrease
<1>1. Init => TypeOK /\ LeaseInv
  BY InitType, LeaseInit
<1>2. TypeOK /\ LeaseInv /\ [Next]_vars => (TypeOK /\ LeaseInv)'
  BY NextType, LeaseNext
<1>3. TypeOK /\ LeaseInv /\ [Next]_vars => [LaterTick]_vars
  BY TicksGoForward
<1>4. QED
  BY <1>1, <1>2, <1>3, PTL DEF Spec, TickSecondsIncrease
=============================================================================
