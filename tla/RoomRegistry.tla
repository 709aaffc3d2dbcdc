---------------------------- MODULE RoomRegistry -----------------------------
(***************************************************************************)
(* The registry of rooms in Redis: creation, joining and authorization by  *)
(* concurrent requests, the generations and tokens of a room, the expiry   *)
(* of its keys, and the index from which expired rooms are pruned.         *)
(*                                                                         *)
(*   backend/room_routes.py   create_room, join_room                       *)
(*   backend/room_service.py  _issue_room_token, _authorized_room_snapshot *)
(*   backend/room_store.py    the create, issue, authorize, refresh and    *)
(*                            prune scripts, room_count, room_ids          *)
(*   backend/scheduler.py     tick_once, as far as it keeps rooms alive    *)
(*                                                                         *)
(* A step is one Redis call and the local computation up to the next one.  *)
(* A PIN is its value: only its hash is stored, and verify_pin compares.   *)
(***************************************************************************)
EXTENDS Integers, FiniteSets

CONSTANTS
  Rooms,          \* room ids
  Pins,
  Requests,       \* HTTP and WebSocket handlers in progress
  Scheduler,      \* the loop of tick_once
  MaxRooms,
  MaxTokens,      \* tokens of a room
  Ttl,            \* periods of time after which an unused key expires
  MaxInstances,   \* bound: rooms created
  MaxGranted      \* bound: tokens issued

ASSUME RegistryAssumption ==
  /\ Scheduler \notin Requests
  /\ MaxRooms \in Nat \ {0}
  /\ MaxTokens \in Nat \ {0}
  /\ Ttl \in Nat \ {0}
  /\ MaxInstances \in Nat
  /\ MaxGranted \in Nat

VARIABLES
  index,      \* the members of ROOM_INDEX_KEY, which does not expire
  left,       \* periods until the keys of a room expire; 0: no such key
  meta,       \* the metadata of a room
  tokens,     \* its token set
  running,    \* rooms whose document has a running countdown
  instances,  \* generations so far
  request,    \* the handlers
  walk,       \* the walks over the index, of handlers and of the scheduler
  due,        \* whether the scheduler still owes a round to this period
  granted,    \* history: the tokens people hold
  alive       \* history: rooms that existed during the walk of a handler

vars == <<index, left, meta, tokens, running, instances, request, walk, due,
          granted, alive>>

-----------------------------------------------------------------------------
(***************************************************************************)
(* The keys of a room: state, metadata and token set.                      *)
(***************************************************************************)
Keys == {"state", "meta", "tokens"}

NoMetadata == [instance |-> 0, pin |-> "none"]

HasState(r) == left[r]["state"] > 0
HasMetadata(r) == left[r]["meta"] > 0
Exists(r) == HasState(r) /\ HasMetadata(r)
Gone(r) == ~HasState(r) /\ ~HasMetadata(r)

Metadata(r) == IF HasMetadata(r) THEN meta[r] ELSE NoMetadata
TokenSet(r) == IF left[r]["tokens"] > 0 THEN tokens[r] ELSE {}

\* _scoped_token_hash
Hash(instance, serial) == [instance |-> instance, serial |-> serial]

\* Faulty variant of Refreshed: the token set is forgotten.
RefreshedWithoutTokens(r) ==
  [left EXCEPT ![r] = [k \in Keys |-> IF k = "tokens" THEN @[k] ELSE Ttl]]

\* Every script that finds the room renews the keys it has.
Refreshed(r) ==
  [left EXCEPT ![r] = [k \in Keys |-> IF @[k] > 0 THEN Ttl ELSE 0]]

-----------------------------------------------------------------------------
(***************************************************************************)
(* A walk over the index: room_count before a creation, room_ids of the    *)
(* scheduler.  The state and the metadata of a member are read one after   *)
(* the other; a member that has neither is pruned by a script.             *)
(***************************************************************************)
Walkers == Requests \cup {Scheduler}

Walk ==
  [pc : {"idle", "state", "meta", "prune", "done"},
   todo : SUBSET Rooms, at : SUBSET Rooms, stateSeen : BOOLEAN,
   live : SUBSET Rooms]

NoWalk ==
  [pc |-> "idle", todo |-> {}, at |-> {}, stateSeen |-> FALSE, live |-> {}]

NextMember(w) ==
  [w EXCEPT !.pc = IF w.todo = {} THEN "done" ELSE "state", !.at = {}]

Members == index

StartWalk(p) ==
  walk' = [walk EXCEPT ![p] = NextMember([NoWalk EXCEPT !.todo = Members])]

UnwalkedVars == <<left, meta, tokens, running, instances, request, due, granted, alive>>

ReadState(p, r) ==
  LET w == walk[p]
  IN  /\ w.pc = "state"
      /\ r \in w.todo
      /\ walk' = [walk EXCEPT ![p] = [w EXCEPT !.pc = "meta", !.todo = @ \ {r},
                                               !.at = {r}, !.stateSeen = HasState(r)]]
      /\ UNCHANGED <<index, UnwalkedVars>>

ReadMetadata(p, r) ==
  LET w == walk[p]
      found == IF w.stateSeen /\ HasMetadata(r) THEN {r} ELSE {}
  IN  /\ w.pc = "meta" /\ w.at = {r}
      /\ walk' = [walk EXCEPT ![p] =
                    IF ~w.stateSeen /\ ~HasMetadata(r)
                    THEN [w EXCEPT !.pc = "prune"]
                    ELSE NextMember([w EXCEPT !.live = @ \cup found])]
      /\ UNCHANGED <<index, UnwalkedVars>>

\* Faulty variant of Prunable: what was seen before still holds.
SeenGone(r) == TRUE

Prunable(r) == Gone(r)

\* A member that the script does not remove is looked at again by room_ids.
\* The two reads of that are one step here: both find the room, or the next
\* round does.
Prune(p, r) ==
  LET w == walk[p]
      found == IF Exists(r) THEN {r} ELSE {}
  IN  /\ w.pc = "prune" /\ w.at = {r}
      /\ index' = IF Prunable(r) THEN index \ {r} ELSE index
      /\ walk' = [walk EXCEPT ![p] = NextMember([w EXCEPT !.live = @ \cup found])]
      /\ UNCHANGED UnwalkedVars

WalkStep(p) ==
  \E r \in Rooms : ReadState(p, r) \/ ReadMetadata(p, r) \/ Prune(p, r)

-----------------------------------------------------------------------------
(***************************************************************************)
(* The handlers.                                                           *)
(***************************************************************************)
Request ==
  [pc : {"idle", "metadata", "exists", "count", "reread", "issue", "authorize"},
   op : {"none", "create", "join", "connect"},
   room : SUBSET Rooms, pin : Pins \cup {"none"},
   instance : Nat, serial : Nat]

NoRequest ==
  [pc |-> "idle", op |-> "none", room |-> {}, pin |-> "none",
   instance |-> 0, serial |-> 0]

At(c, pc, r) == request[c].pc = pc /\ request[c].room = {r}

Continue(c, pc, instance) ==
  request' = [request EXCEPT ![c] = [@ EXCEPT !.pc = pc, !.instance = instance]]

Finish(c) == request' = [request EXCEPT ![c] = NoRequest]

StoreVars == <<index, left, meta, tokens, running, instances>>

Begin(c) ==
  /\ request[c].pc = "idle"
  /\ \/ \E r \in Rooms, p \in Pins, op \in {"create", "join"} :
          request' = [request EXCEPT ![c] =
            [NoRequest EXCEPT !.pc = "metadata", !.op = op, !.room = {r}, !.pin = p]]
     \/ \E t \in granted :
          request' = [request EXCEPT ![c] =
            [NoRequest EXCEPT !.pc = "metadata", !.op = "connect", !.room = {t.room},
                              !.pin = t.pin, !.serial = t.serial]]
  /\ UNCHANGED <<StoreVars, walk, due, granted, alive>>

Verified(c, r) == HasMetadata(r) /\ meta[r].pin = request[c].pin

\* get_metadata, and what is decided from it: PIN verification (unless the
\* client is blocked), the scope of a token, or that the id seems free.
GetMetadata(c, r) ==
  /\ At(c, "metadata", r) \/ At(c, "reread", r)
  /\ CASE request[c].op = "connect" ->
            IF HasMetadata(r) THEN Continue(c, "authorize", meta[r].instance)
                              ELSE Finish(c)
       [] request[c].op = "create" /\ request[c].pc = "metadata" /\ ~HasMetadata(r) ->
            Continue(c, "exists", 0)
       [] OTHER ->
            \/ Verified(c, r) /\ Continue(c, "issue", meta[r].instance)
            \/ Finish(c)
  /\ UNCHANGED <<StoreVars, walk, due, granted, alive>>

HasRoom(c, r) ==
  /\ At(c, "exists", r)
  /\ IF HasState(r) THEN Finish(c) ELSE Continue(c, "count", 0)
  /\ UNCHANGED <<StoreVars, walk, due, granted, alive>>

\* create_room starts with room_count.
StartCount(c) ==
  /\ request[c].pc = "count"
  /\ walk[c].pc = "idle"
  /\ StartWalk(c)
  /\ alive' = [alive EXCEPT ![c] = {r \in Rooms : Exists(r)}]
  /\ UNCHANGED <<StoreVars, request, due, granted>>

Taken(r) == ~Gone(r)
Full(r) == Cardinality(index \ {r}) >= MaxRooms

\* _CREATE_ROOM_SCRIPT; the new document has no countdown.
Create(c, r) ==
  /\ At(c, "count", r)
  /\ walk[c].pc = "done"
  /\ walk' = [walk EXCEPT ![c] = NoWalk]
  /\ CASE Taken(r) ->
            /\ Continue(c, "reread", 0)
            /\ alive' = [alive EXCEPT ![c] = {}]
            /\ UNCHANGED StoreVars
       [] ~Taken(r) /\ Full(r) ->
            /\ index' = index \ {r}
            /\ Finish(c)
            /\ alive' = [alive EXCEPT ![c] = {}]
            /\ UNCHANGED <<left, meta, tokens, running, instances>>
       [] OTHER ->
            /\ instances < MaxInstances
            /\ index' = index \cup {r}
            /\ left' = [left EXCEPT ![r] = [state |-> Ttl, meta |-> Ttl, tokens |-> 0]]
            /\ meta' = [meta EXCEPT ![r] = [instance |-> instances + 1,
                                            pin |-> request[c].pin]]
            /\ tokens' = [tokens EXCEPT ![r] = {}]
            /\ running' = running \ {r}
            /\ instances' = instances + 1
            /\ Continue(c, "issue", instances + 1)
            /\ alive' = [d \in Requests |-> IF walk'[d].pc = "idle" THEN {} ELSE alive[d] \cup {r}]
  /\ UNCHANGED <<due, granted>>

\* Faulty variant of Expected: the token is for whatever room is there now.
ExpectsPresent(c, r) == Metadata(r).instance

Expected(c, r) == request[c].instance

\* _issue_room_token
Issue(c, r) ==
  LET serial == Cardinality(granted) + 1
      instance == Expected(c, r)
  IN  /\ At(c, "issue", r)
      /\ Cardinality(granted) < MaxGranted
      /\ \/ /\ ~Exists(r) \/ meta[r].instance # instance
                 \/ Cardinality(TokenSet(r)) >= MaxTokens
            /\ Finish(c)
            /\ UNCHANGED <<left, tokens, granted>>
         \/ /\ Exists(r) /\ meta[r].instance = instance
            /\ Cardinality(TokenSet(r)) < MaxTokens
            /\ tokens' = [tokens EXCEPT ![r] = TokenSet(r) \cup {Hash(instance, serial)}]
            /\ left' = [left EXCEPT ![r] = [k \in Keys |-> Ttl]]
            /\ granted' = granted \cup {[serial |-> serial, room |-> r,
                             instance |-> instance, pin |-> request[c].pin]}
            /\ Finish(c)
      /\ UNCHANGED <<index, meta, running, instances, walk, due, alive>>

Admits(c, r) ==
  /\ Exists(r) /\ meta[r].instance = request[c].instance
  /\ Hash(request[c].instance, request[c].serial) \in TokenSet(r)

\* _AUTHORIZE_ROOM_TOKEN_SCRIPT, without the keys of the release before.
Authorize(c, r) ==
  /\ At(c, "authorize", r)
  /\ Finish(c)
  /\ left' = IF Admits(c, r) THEN Refreshed(r) ELSE left
  /\ UNCHANGED <<index, meta, tokens, running, instances, walk, due, granted, alive>>

\* Redis is unavailable, or the request is cancelled.
Abort(c) ==
  /\ request[c].pc # "idle"
  /\ Finish(c)
  /\ walk' = [walk EXCEPT ![c] = NoWalk]
  /\ alive' = [alive EXCEPT ![c] = {}]
  /\ UNCHANGED <<StoreVars, due, granted>>

-----------------------------------------------------------------------------
(***************************************************************************)
(* Sockets, the scheduler and time.  In each period the scheduler makes a  *)
(* round (one second; the keys live for ROOM_TTL_SECONDS).  Rooms that are *)
(* connected to a worker are ticked by it without the index; here only the *)
(* index can keep a room alive.                                            *)
(***************************************************************************)
\* A message starts or stops the countdown.
Mutate(r) ==
  /\ Exists(r)
  /\ left' = Refreshed(r)
  /\ running' \in {running \cup {r}, running \ {r}}
  /\ running' # running
  /\ UNCHANGED <<index, meta, tokens, instances, request, walk, due, granted, alive>>

StartRound ==
  /\ walk[Scheduler].pc = "idle"
  /\ due
  /\ StartWalk(Scheduler)
  /\ UNCHANGED <<StoreVars, request, due, granted, alive>>

\* tick_room commits or refreshes a running room; the countdown may be over.
TickRoom(r) ==
  LET w == walk[Scheduler]
  IN  /\ w.pc = "done"
      /\ r \in w.live
      /\ walk' = [walk EXCEPT ![Scheduler].live = @ \ {r}]
      /\ \/ /\ Exists(r) /\ r \in running
            /\ left' = Refreshed(r)
            /\ running' \in {running, running \ {r}}
         \/ /\ ~Exists(r) \/ r \notin running
            /\ UNCHANGED <<left, running>>
      /\ UNCHANGED <<index, meta, tokens, instances, request, due, granted, alive>>

EndRound ==
  /\ walk[Scheduler].pc = "done"
  /\ walk[Scheduler].live = {}
  /\ walk' = [walk EXCEPT ![Scheduler] = NoWalk]
  /\ due' = FALSE
  /\ UNCHANGED <<StoreVars, request, granted, alive>>

\* A period ends, and with it the life of keys that nobody renewed.
TimePasses ==
  /\ ~due
  /\ due' = TRUE
  /\ \E r \in Rooms, k \in Keys : left[r][k] > 0
  /\ left' = [r \in Rooms |-> [k \in Keys |->
                IF left[r][k] > 0 THEN left[r][k] - 1 ELSE 0]]
  /\ UNCHANGED <<index, meta, tokens, running, instances, request, walk, granted, alive>>

-----------------------------------------------------------------------------
Init ==
  /\ index = {}
  /\ left = [r \in Rooms |-> [k \in Keys |-> 0]]
  /\ meta = [r \in Rooms |-> NoMetadata]
  /\ tokens = [r \in Rooms |-> {}]
  /\ running = {}
  /\ instances = 0
  /\ request = [c \in Requests |-> NoRequest]
  /\ walk = [p \in Walkers |-> NoWalk]
  /\ due = TRUE
  /\ granted = {}
  /\ alive = [c \in Requests |-> {}]

RequestStep(c) ==
  \/ StartCount(c)
  \/ WalkStep(c)
  \/ \E r \in Rooms : \/ GetMetadata(c, r) \/ HasRoom(c, r) \/ Create(c, r)
                      \/ Issue(c, r) \/ Authorize(c, r)

SchedulerStep ==
  \/ StartRound
  \/ WalkStep(Scheduler)
  \/ \E r \in Rooms : TickRoom(r)
  \/ EndRound

Next ==
  \/ \E c \in Requests : Begin(c) \/ RequestStep(c) \/ Abort(c)
  \/ SchedulerStep
  \/ \E r \in Rooms : Mutate(r)
  \/ TimePasses

Spec == Init /\ [][Next]_vars
-----------------------------------------------------------------------------
TypeOK ==
  /\ index \subseteq Rooms
  /\ left \in [Rooms -> [Keys -> 0..Ttl]]
  /\ meta \in [Rooms -> [instance : 0..MaxInstances, pin : Pins \cup {"none"}]]
  /\ \A r \in Rooms : tokens[r] \subseteq [instance : 1..MaxInstances, serial : 1..MaxGranted]
  /\ running \subseteq Rooms
  /\ instances \in 0..MaxInstances
  /\ request \in [Requests -> Request]
  /\ walk \in [Walkers -> Walk]
  /\ due \in BOOLEAN
  /\ granted \subseteq [serial : 1..MaxGranted, room : Rooms,
                        instance : 1..MaxInstances, pin : Pins]
  /\ alive \in [Requests -> SUBSET Rooms]

(* Who is authorized in a room presented the PIN of this very generation:   *)
(* not the PIN of a room of the same name that has expired, nor one that    *)
(* was verified against metadata which a recreation replaced before the     *)
(* token was issued, nor a PIN that lost a race of two creations.           *)
PinOpensItsRoomOnly ==
  \A c \in Requests, r \in Rooms :
    At(c, "authorize", r) /\ Admits(c, r) => request[c].pin = meta[r].pin

(* A token stays valid as long as the generation it was issued for: no      *)
(* script that keeps a room alive lets its token set expire, and none that  *)
(* creates, issues or prunes removes tokens of a room that is in use.       *)
GrantedStaysValid ==
  \A t \in granted :
    Exists(t.room) /\ meta[t.room].instance = t.instance =>
      Hash(t.instance, t.serial) \in TokenSet(t.room)

(* The two canonical keys live and die together, so a one-sided room, which *)
(* every reader treats as a failure, does not come about by itself.         *)
NoOneSidedRoom == \A r \in Rooms : HasState(r) = HasMetadata(r)

(* No room that exists is missing from the index, so that the scheduler     *)
(* finds it and the cap counts it: a walk that saw the room expire does not *)
(* remove the member of its successor.                                      *)
LiveRoomsAreListed == \A r \in Rooms : Exists(r) => r \in index

(* A room whose countdown runs does not expire, although nobody may be      *)
(* connected: the scheduler finds it through the index and renews its keys  *)
(* in each period.                                                          *)
RunningRoomLives == \A r \in running : Exists(r)

(* A creation is refused for the cap only if that many other rooms existed  *)
(* while it was deciding: members of rooms that had expired before do not   *)
(* fill the registry.                                                       *)
RefusalIsJustified ==
  \A c \in Requests, r \in Rooms :
    At(c, "count", r) /\ walk[c].pc = "done" /\ ~Taken(r) /\ Full(r) =>
      Cardinality(alive[c] \ {r}) >= MaxRooms

(* Tokens, metadata and state of a room live and die together, whichever    *)
(* script refreshes them: see GrantedStaysValid and NoOneSidedRoom.         *)
KeysLiveTogether == GrantedStaysValid /\ NoOneSidedRoom

(* The index lists what exists, neither less, for the scheduler, nor for    *)
(* ever more, for the cap: see LiveRoomsAreListed, RunningRoomLives and     *)
(* RefusalIsJustified.                                                      *)
IndexFollowsRooms == LiveRoomsAreListed /\ RunningRoomLives /\ RefusalIsJustified
=============================================================================
