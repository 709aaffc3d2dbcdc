------------------------- MODULE RoomRegistryProofs --------------------------
(***************************************************************************)
(* What holds of the registry for any rooms, PINs, requests, caps, numbers *)
(* of generations and of tokens: a PIN opens the generation of the room it *)
(* was verified for, and no other; the keys of a room live and die as one; *)
(* the index follows the rooms, whatever the time to live beyond one       *)
(* period.  And what holds of the limiter of wrong PINs, for any number of *)
(* concurrent requests, any limits and any number of deaths.               *)
(***************************************************************************)
EXTENDS RoomRegistry, PinLimiter, FiniteSetTheorems, TLAPS

\* What the argument needs of the types.
Fields ==
  /\ instances \in Nat
  /\ request \in [Requests -> Request]
  /\ meta \in [Rooms -> [instance : Nat, pin : Pins \cup {"none"}]]
  /\ tokens \in [Rooms -> SUBSET [instance : Nat, serial : Nat]]
  /\ granted \subseteq [serial : Nat, room : Rooms, instance : Nat,
                        pin : Pins \cup {"none"}]

\* Generations are numbered, so are tokens, and whoever was granted the token
\* of a generation has presented its PIN.
GrantsAreSound ==
  /\ \A r \in Rooms : meta[r].instance <= instances
  /\ IsFiniteSet(granted)
  /\ \A t \in granted :
       /\ t.serial <= Cardinality(granted)
       /\ t.instance <= instances
       /\ meta[t.room].instance = t.instance => t.pin = meta[t.room].pin
  /\ \A t, u \in granted : t.serial = u.serial => t = u

\* A token set holds what was granted for its room.
TokensAreGranted ==
  \A r \in Rooms : \A h \in tokens[r] :
    \E t \in granted : t.room = r /\ h = Hash(t.instance, t.serial)

\* A request that is about to issue a token has verified the PIN of the
\* generation it names, if that is still the room's; one that connects has a
\* token.
IsSound(q) ==
  /\ q.pc = "authorize" => q.op = "connect"
  /\ q.op = "connect" =>
       \E t \in granted : t.serial = q.serial /\ t.pin = q.pin /\ q.room = {t.room}
  /\ q.pc = "issue" =>
       /\ q.instance <= instances
       /\ \A r \in Rooms : q.room = {r} /\ meta[r].instance = q.instance =>
                             q.pin = meta[r].pin

RequestsAreSound == \A c \in Requests : IsSound(request[c])

PinInv == Fields /\ GrantsAreSound /\ TokensAreGranted /\ RequestsAreSound

(* The invariant implies what the run checks: the token that is admitted is *)
(* the only one of its number, and its generation is the room's.            *)
LEMMA PinInvSuffices == PinInv => PinOpensItsRoomOnly
<1>1. SUFFICES ASSUME PinInv, NEW c \in Requests, NEW r \in Rooms,
                      At(c, "authorize", r), Admits(c, r)
               PROVE  request[c].pin = meta[r].pin
  BY DEF PinOpensItsRoomOnly
<1>. DEFINE q == request[c]
<1>2. PICK u \in granted : u.serial = q.serial /\ u.pin = q.pin
  BY <1>1 DEF PinInv, RequestsAreSound, IsSound, At
<1>3. Hash(q.instance, q.serial) \in tokens[r] /\ meta[r].instance = q.instance
  BY <1>1 DEF Admits, TokenSet
<1>4. PICK t \in granted : t.room = r /\ Hash(q.instance, q.serial) = Hash(t.instance, t.serial)
  BY <1>1, <1>3 DEF PinInv, TokensAreGranted
<1>5. t.instance = q.instance /\ t.serial = q.serial
  BY <1>4 DEF Hash
<1>6. t = u
  BY <1>1, <1>2, <1>5 DEF PinInv, GrantsAreSound
<1>7. QED
  BY <1>1, <1>2, <1>3, <1>4, <1>5, <1>6 DEF PinInv, GrantsAreSound

(* Initially there is no token and no request. *)
LEMMA PinInit == Init => PinInv
<1>1. SUFFICES ASSUME Init PROVE PinInv
  OBVIOUS
<1>2. NoRequest \in Request
  BY DEF NoRequest, Request
<1>3. Fields
  BY <1>1, <1>2 DEF Init, Fields, NoMetadata
<1>4. GrantsAreSound
  BY <1>1, FS_EmptySet DEF Init, GrantsAreSound, NoMetadata
<1>5. TokensAreGranted /\ RequestsAreSound
  BY <1>1 DEF Init, TokensAreGranted, RequestsAreSound, IsSound, NoRequest
<1>6. QED
  BY <1>3, <1>4, <1>5 DEF PinInv

(* A step of one request that leaves the rooms and the tokens alone. *)
LEMMA RequestMoves ==
  ASSUME PinInv, NEW c \in Requests, NEW q \in Request, IsSound(q),
         request' = [request EXCEPT ![c] = q],
         UNCHANGED <<instances, meta, tokens, granted>>
  PROVE  PinInv'
<1>1. \A d \in Requests : request'[d] = IF d = c THEN q ELSE request[d]
  BY DEF PinInv, Fields
<1>2. Fields'
  BY DEF PinInv, Fields
<1>3. GrantsAreSound' /\ TokensAreGranted'
  BY DEF PinInv, GrantsAreSound, TokensAreGranted
<1>4. RequestsAreSound'
  BY <1>1 DEF PinInv, RequestsAreSound, IsSound
<1>5. QED
  BY <1>2, <1>3, <1>4 DEF PinInv

(* A request that ends. *)
LEMMA Ends ==
  ASSUME PinInv, NEW c \in Requests, Finish(c),
         UNCHANGED <<instances, meta, tokens, granted>>
  PROVE  PinInv'
<1>1. NoRequest \in Request /\ IsSound(NoRequest)
  BY DEF NoRequest, Request, IsSound
<1>2. QED
  BY <1>1, RequestMoves DEF Finish

(* A request that goes on to any step but the last two stays sound. *)
LEMMA MovesOn ==
  ASSUME PinInv, NEW c \in Requests, NEW i \in Nat,
         NEW step \in {"metadata", "exists", "count", "reread"}, Continue(c, step, i),
         UNCHANGED <<instances, meta, tokens, granted>>
  PROVE  PinInv'
<1>. DEFINE q == [request[c] EXCEPT !.pc = step, !.instance = i]
<1>1. /\ q \in Request /\ q.pc = step /\ q.instance = i /\ q.op = request[c].op
      /\ q.room = request[c].room /\ q.pin = request[c].pin
      /\ q.serial = request[c].serial
      /\ request' = [request EXCEPT ![c] = q]
  BY DEF PinInv, Fields, Request, Continue
<1>. HIDE DEF q
<1>2. IsSound(q)
  BY <1>1 DEF PinInv, RequestsAreSound, IsSound
<1>3. QED
  BY <1>1, <1>2, RequestMoves

(* A new request knows a PIN, and with a token the one it was granted for. *)
LEMMA BeginKeeps ==
  ASSUME PinInv, NEW c \in Requests, Begin(c)
  PROVE  PinInv'
<1>1. UNCHANGED <<instances, meta, tokens, granted>>
  BY DEF Begin, StoreVars
<1>2. ASSUME NEW r \in Rooms, NEW p \in Pins, NEW op \in {"create", "join"},
             request' = [request EXCEPT ![c] =
               [NoRequest EXCEPT !.pc = "metadata", !.op = op, !.room = {r}, !.pin = p]]
      PROVE  PinInv'
  <2>. DEFINE q == [NoRequest EXCEPT !.pc = "metadata", !.op = op, !.room = {r}, !.pin = p]
  <2>1. q \in Request /\ IsSound(q)
    BY DEF NoRequest, Request, IsSound
  <2>2. request' = [request EXCEPT ![c] = q]
    BY <1>2
  <2>. HIDE DEF q
  <2>3. QED
    BY <1>1, <2>1, <2>2, RequestMoves
<1>3. ASSUME NEW t \in granted,
             request' = [request EXCEPT ![c] =
               [NoRequest EXCEPT !.pc = "metadata", !.op = "connect", !.room = {t.room},
                                 !.pin = t.pin, !.serial = t.serial]]
      PROVE  PinInv'
  <2>. DEFINE q == [NoRequest EXCEPT !.pc = "metadata", !.op = "connect",
                      !.room = {t.room}, !.pin = t.pin, !.serial = t.serial]
  <2>1. t.room \in Rooms /\ t.pin \in Pins \cup {"none"} /\ t.serial \in Nat
    BY DEF PinInv, Fields
  <2>2. /\ q \in Request /\ q.pc = "metadata" /\ q.op = "connect"
        /\ q.serial = t.serial /\ q.pin = t.pin /\ q.room = {t.room}
    BY <2>1 DEF NoRequest, Request
  <2>3. request' = [request EXCEPT ![c] = q]
    BY <1>3
  <2>. HIDE DEF q
  <2>4. IsSound(q)
    BY <2>2 DEF IsSound
  <2>5. QED
    BY <1>1, <2>2, <2>3, <2>4, RequestMoves
<1>4. QED
  BY <1>2, <1>3 DEF Begin

(* The read of the metadata is where the PIN is compared with the room's.   *)
LEMMA GetMetadataKeeps ==
  ASSUME PinInv, NEW c \in Requests, NEW r \in Rooms, GetMetadata(c, r)
  PROVE  PinInv'
<1>1. UNCHANGED <<instances, meta, tokens, granted>> /\ request[c].room = {r}
  BY DEF GetMetadata, StoreVars, At
<1>2. meta[r].instance \in Nat /\ meta[r].instance <= instances
  BY DEF PinInv, Fields, GrantsAreSound
<1>3. ASSUME request[c].op = "connect", Continue(c, "authorize", meta[r].instance)
      PROVE  PinInv'
  <2>. DEFINE q == [request[c] EXCEPT !.pc = "authorize", !.instance = meta[r].instance]
  <2>1. /\ q \in Request /\ q.pc = "authorize" /\ q.op = request[c].op
        /\ q.room = request[c].room /\ q.pin = request[c].pin
        /\ q.serial = request[c].serial
        /\ request' = [request EXCEPT ![c] = q]
    BY <1>2, <1>3 DEF PinInv, Fields, Request, Continue
  <2>. HIDE DEF q
  <2>2. IsSound(q)
    BY <1>3, <2>1 DEF PinInv, RequestsAreSound, IsSound
  <2>3. QED
    BY <1>1, <2>1, <2>2, RequestMoves
<1>4. ASSUME Verified(c, r), Continue(c, "issue", meta[r].instance)
      PROVE  PinInv'
  <2>. DEFINE q == [request[c] EXCEPT !.pc = "issue", !.instance = meta[r].instance]
  <2>1. /\ q \in Request /\ q.pc = "issue" /\ q.op = request[c].op
        /\ q.room = request[c].room /\ q.pin = request[c].pin
        /\ q.serial = request[c].serial /\ q.instance = meta[r].instance
        /\ request' = [request EXCEPT ![c] = q]
    BY <1>2, <1>4 DEF PinInv, Fields, Request, Continue
  <2>. HIDE DEF q
  <2>2. \A s \in Rooms : q.room = {s} => q.pin = meta[s].pin
    BY <1>1, <1>4, <2>1 DEF Verified
  <2>3. IsSound(q)
    BY <1>2, <2>1, <2>2 DEF PinInv, RequestsAreSound, IsSound
  <2>4. QED
    BY <1>1, <2>1, <2>3, RequestMoves
<1>5. QED
  <2>1. CASE request[c].op = "connect"
    BY <1>1, <1>3, <2>1, Ends DEF GetMetadata
  <2>2. CASE request[c].op = "create" /\ request[c].pc = "metadata" /\ ~HasMetadata(r)
    <3>1. Continue(c, "exists", 0)
      BY <2>2 DEF GetMetadata
    <3>2. QED
      BY <1>1, <3>1, MovesOn
  <2>3. CASE /\ request[c].op # "connect"
             /\ ~(request[c].op = "create" /\ request[c].pc = "metadata" /\ ~HasMetadata(r))
    <3>1. (Verified(c, r) /\ Continue(c, "issue", meta[r].instance)) \/ Finish(c)
      BY <2>3 DEF GetMetadata
    <3>2. QED
      BY <1>1, <1>4, <3>1, Ends
  <2>4. QED
    BY <2>1, <2>2, <2>3

(* The creation: whoever waits to issue a token of an older generation      *)
(* names another number than the new one.                                   *)
LEMMA CreateKeeps ==
  ASSUME PinInv, NEW c \in Requests, NEW r \in Rooms, Create(c, r)
  PROVE  PinInv'
<1>1. CASE Taken(r)
  <2>1. Continue(c, "reread", 0) /\ UNCHANGED <<instances, meta, tokens, granted>>
    BY <1>1 DEF Create, StoreVars
  <2>2. QED
    BY <2>1, MovesOn
<1>2. CASE ~Taken(r) /\ Full(r)
  <2>1. Finish(c) /\ UNCHANGED <<instances, meta, tokens, granted>>
    BY <1>2 DEF Create
  <2>2. QED
    BY <2>1, Ends
<1>3. CASE ~Taken(r) /\ ~Full(r)
  <2>. DEFINE q == [request[c] EXCEPT !.pc = "issue", !.instance = instances + 1]
              m == [instance |-> instances + 1, pin |-> request[c].pin]
  <2>1. /\ Continue(c, "issue", instances + 1)
        /\ meta' = [meta EXCEPT ![r] = m]
        /\ tokens' = [tokens EXCEPT ![r] = {}]
        /\ instances' = instances + 1
        /\ granted' = granted
        /\ request[c].room = {r}
    BY <1>3 DEF Create, At
  <2>2. /\ q \in Request /\ q.pc = "issue" /\ q.op = request[c].op
        /\ q.room = {r} /\ q.pin = request[c].pin
        /\ q.serial = request[c].serial /\ q.instance = instances + 1
        /\ request' = [request EXCEPT ![c] = q]
    <3>1. request[c] \in Request /\ instances + 1 \in Nat
      BY DEF PinInv, Fields
    <3>2. /\ q \in Request /\ q.pc = "issue" /\ q.op = request[c].op
          /\ q.room = request[c].room /\ q.pin = request[c].pin
          /\ q.serial = request[c].serial /\ q.instance = instances + 1
      BY <3>1 DEF Request
    <3>3. QED
      BY <2>1, <3>2 DEF Continue
  <2>3. /\ m \in [instance : Nat, pin : Pins \cup {"none"}]
        /\ m.instance = instances + 1 /\ m.pin = request[c].pin
    BY DEF PinInv, Fields, Request
  <2>4. /\ instances \in Nat
        /\ \A s \in Rooms : meta'[s] = IF s = r THEN m ELSE meta[s]
        /\ \A s \in Rooms : tokens'[s] = IF s = r THEN {} ELSE tokens[s]
        /\ \A d \in Requests : request'[d] = IF d = c THEN q ELSE request[d]
    BY <2>1, <2>2 DEF PinInv, Fields
  <2>. HIDE DEF q, m
  <2>5. Fields'
    BY <2>1, <2>2, <2>3 DEF PinInv, Fields
  <2>6. GrantsAreSound'
    <3>1. \A s \in Rooms : meta'[s].instance <= instances'
      <4>1. \A s \in Rooms : meta[s].instance <= instances /\ meta[s].instance \in Nat
        BY DEF PinInv, Fields, GrantsAreSound
      <4>2. QED
        BY <2>1, <2>3, <2>4, <4>1
    <3>2. ASSUME NEW t \in granted
          PROVE  /\ t.serial <= Cardinality(granted)
                 /\ t.instance <= instances'
                 /\ meta'[t.room].instance = t.instance => t.pin = meta'[t.room].pin
      <4>1. /\ t.room \in Rooms /\ t.instance \in Nat
            /\ t.serial <= Cardinality(granted) /\ t.instance <= instances
            /\ meta[t.room].instance = t.instance => t.pin = meta[t.room].pin
        BY DEF PinInv, Fields, GrantsAreSound
      <4>2. QED
        BY <2>1, <2>3, <2>4, <4>1
    <3>3. QED
      BY <2>1, <3>1, <3>2 DEF PinInv, GrantsAreSound
  <2>7. TokensAreGranted'
    BY <2>1, <2>4 DEF PinInv, TokensAreGranted
  <2>8. ASSUME NEW d \in Requests PROVE IsSound(request[d])'
    <3>1. IsSound(request[d]) /\ request[d].instance \in Nat
      BY DEF PinInv, RequestsAreSound, Fields, Request
    <3>2. CASE d = c
      <4>1. \A s \in Rooms : q.room = {s} /\ meta'[s].instance = q.instance =>
                               q.pin = meta'[s].pin
        BY <2>2, <2>3, <2>4
      <4>2. request'[d] = q
        BY <2>4, <3>2
      <4>3. q.op = "connect" =>
              \E t \in granted : t.serial = q.serial /\ t.pin = q.pin /\ q.room = {t.room}
        BY <2>1, <2>2, <3>1, <3>2 DEF IsSound
      <4>4. q.instance <= instances'
        BY <2>1, <2>2, <2>4
      <4>5. QED
        BY <2>1, <2>2, <4>1, <4>2, <4>3, <4>4 DEF IsSound
    <3>3. CASE d # c
      <4>1. request'[d] = request[d]
        BY <2>4, <3>3
      <4>2. request[d].pc = "issue" =>
              \A s \in Rooms : request[d].room = {s} /\ meta'[s].instance = request[d].instance =>
                                 request[d].pin = meta'[s].pin
        BY <2>3, <2>4, <3>1 DEF IsSound
      <4>3. request[d].pc = "issue" => request[d].instance <= instances'
        BY <2>1, <2>4, <3>1 DEF IsSound
      <4>4. QED
        BY <2>1, <3>1, <4>1, <4>2, <4>3 DEF IsSound
    <3>4. QED
      BY <3>2, <3>3
  <2>9. QED
    BY <2>5, <2>6, <2>7, <2>8 DEF PinInv, RequestsAreSound
<1>4. QED
  BY <1>1, <1>2, <1>3

(* The token: its number is new, and the generation it names still has the  *)
(* PIN that was verified, or is gone.                                       *)
LEMMA IssueKeeps ==
  ASSUME PinInv, NEW c \in Requests, NEW r \in Rooms, Issue(c, r)
  PROVE  PinInv'
<1>. DEFINE n == Cardinality(granted) + 1
            i == request[c].instance
            u == [serial |-> n, room |-> r, instance |-> i, pin |-> request[c].pin]
<1>1. UNCHANGED <<instances, meta>> /\ Finish(c)
  BY DEF Issue
<1>2. CASE UNCHANGED <<tokens, granted>>
  BY <1>1, <1>2, Ends
<1>3. CASE /\ tokens' = [tokens EXCEPT ![r] = TokenSet(r) \cup {Hash(i, n)}]
           /\ granted' = granted \cup {u}
  <2>1. /\ IsFiniteSet(granted) /\ Cardinality(granted) \in Nat
        /\ n \in Nat /\ i \in Nat /\ instances \in Nat
        /\ request[c].pin \in Pins \cup {"none"}
        /\ request[c].pc = "issue" /\ request[c].room = {r}
    BY FS_CardinalityType DEF PinInv, GrantsAreSound, Fields, Request, Issue, At
  <2>2. i <= instances /\ (meta[r].instance = i => request[c].pin = meta[r].pin)
    BY <2>1 DEF PinInv, RequestsAreSound, IsSound
  <2>3. u \notin granted
    <3>1. \A t \in granted : t.serial <= Cardinality(granted)
      BY DEF PinInv, GrantsAreSound
    <3>2. u.serial = Cardinality(granted) + 1
      OBVIOUS
    <3>. HIDE DEF u
    <3>3. QED
      BY <2>1, <3>1, <3>2
  <2>4. IsFiniteSet(granted') /\ Cardinality(granted') = n
    BY <1>3, <2>1, <2>3, FS_AddElement
  <2>5. /\ u \in [serial : Nat, room : Rooms, instance : Nat, pin : Pins \cup {"none"}]
        /\ u.serial = n /\ u.room = r /\ u.instance = i /\ u.pin = request[c].pin
    BY <2>1
  <2>6. /\ Hash(i, n) \in [instance : Nat, serial : Nat]
        /\ Hash(i, n) = Hash(u.instance, u.serial)
    BY <2>1 DEF Hash
  <2>7. /\ TokenSet(r) \subseteq tokens[r]
        /\ \A s \in Rooms : tokens'[s] = IF s = r THEN TokenSet(r) \cup {Hash(i, n)}
                                                  ELSE tokens[s]
    BY <1>3 DEF PinInv, Fields, TokenSet
  <2>8. \A d \in Requests : request'[d] = IF d = c THEN NoRequest ELSE request[d]
    BY <1>1 DEF Finish, PinInv, Fields
  <2>9. granted' = granted \cup {u}
    BY <1>3
  <2>. HIDE DEF u, n, i
  <2>10. Fields'
    <3>1. request' \in [Requests -> Request]
      BY <1>1 DEF Finish, NoRequest, Request, PinInv, Fields
    <3>2. tokens' \in [Rooms -> SUBSET [instance : Nat, serial : Nat]]
      BY <1>3, <2>6, <2>7 DEF PinInv, Fields
    <3>3. QED
      BY <1>1, <2>5, <2>9, <3>1, <3>2 DEF PinInv, Fields
  <2>11. GrantsAreSound'
    <3>1. \A t \in granted : /\ t.serial \in Nat /\ t.serial <= Cardinality(granted)
                             /\ t.instance <= instances
                             /\ meta[t.room].instance = t.instance => t.pin = meta[t.room].pin
      BY DEF PinInv, GrantsAreSound, Fields
    <3>2. n = Cardinality(granted) + 1
      BY DEF n
    <3>3. \A t \in granted' :
            /\ t.serial <= Cardinality(granted')
            /\ t.instance <= instances'
            /\ meta'[t.room].instance = t.instance => t.pin = meta'[t.room].pin
      BY <1>1, <2>1, <2>2, <2>4, <2>5, <2>9, <3>1, <3>2
    <3>4. \A t, v \in granted' : t.serial = v.serial => t = v
      BY <2>1, <2>5, <2>9, <3>1, <3>2 DEF PinInv, GrantsAreSound
    <3>5. QED
      BY <1>1, <2>4, <3>3, <3>4 DEF PinInv, GrantsAreSound
  <2>12. TokensAreGranted'
    <3>1. ASSUME NEW s \in Rooms, NEW h \in tokens'[s]
          PROVE  \E t \in granted' : t.room = s /\ h = Hash(t.instance, t.serial)
      <4>1. h \in tokens[s] \/ (s = r /\ h = Hash(i, n))
        BY <2>7
      <4>2. CASE h \in tokens[s]
        BY <2>9, <4>2 DEF PinInv, TokensAreGranted
      <4>3. CASE s = r /\ h = Hash(i, n)
        BY <2>5, <2>6, <2>9, <4>3
      <4>4. QED
        BY <4>1, <4>2, <4>3
    <3>2. QED
      BY <3>1 DEF TokensAreGranted
  <2>13. RequestsAreSound'
    <3>1. NoRequest.pc = "idle" /\ NoRequest.op = "none"
      BY DEF NoRequest
    <3>2. QED
      BY <1>1, <2>8, <2>9, <3>1 DEF PinInv, RequestsAreSound, IsSound
  <2>14. QED
    BY <2>10, <2>11, <2>12, <2>13 DEF PinInv
<1>4. QED
  BY <1>2, <1>3 DEF Issue, Expected

(* Every other step leaves alone what the invariant is about.               *)
LEMMA Untouched ==
  ASSUME PinInv, UNCHANGED <<request, instances, meta, tokens, granted>>
  PROVE  PinInv'
BY DEF PinInv, Fields, GrantsAreSound, TokensAreGranted, RequestsAreSound, IsSound

(* One step of the registry. *)
LEMMA PinNext ==
  ASSUME PinInv, [Next]_vars
  PROVE  PinInv'
<1>1. CASE UNCHANGED vars
  BY <1>1, Untouched DEF vars
<1>2. ASSUME NEW p \in Walkers, WalkStep(p) PROVE PinInv'
  BY <1>2, Untouched DEF WalkStep, ReadState, ReadMetadata, Prune, UnwalkedVars
<1>3. ASSUME NEW c \in Requests, Begin(c) PROVE PinInv'
  BY <1>3, BeginKeeps
<1>4. ASSUME NEW c \in Requests, Abort(c) PROVE PinInv'
  BY <1>4, Ends DEF Abort, StoreVars
<1>5. ASSUME NEW c \in Requests, RequestStep(c) PROVE PinInv'
  <2>1. CASE StartCount(c)
    BY <2>1, Untouched DEF StartCount, StoreVars
  <2>2. CASE WalkStep(c)
    BY <1>2, <2>2 DEF Walkers
  <2>3. ASSUME NEW r \in Rooms, GetMetadata(c, r) PROVE PinInv'
    BY <2>3, GetMetadataKeeps
  <2>4. ASSUME NEW r \in Rooms, HasRoom(c, r) PROVE PinInv'
    <3>1. UNCHANGED <<instances, meta, tokens, granted>>
      BY <2>4 DEF HasRoom, StoreVars
    <3>2. Finish(c) \/ Continue(c, "count", 0)
      BY <2>4 DEF HasRoom
    <3>3. QED
      BY <3>1, <3>2, Ends, MovesOn
  <2>5. ASSUME NEW r \in Rooms, Create(c, r) PROVE PinInv'
    BY <2>5, CreateKeeps
  <2>6. ASSUME NEW r \in Rooms, Issue(c, r) PROVE PinInv'
    BY <2>6, IssueKeeps
  <2>7. ASSUME NEW r \in Rooms, Authorize(c, r) PROVE PinInv'
    BY <2>7, Ends DEF Authorize
  <2>8. QED
    BY <1>5, <2>1, <2>2, <2>3, <2>4, <2>5, <2>6, <2>7 DEF RequestStep
<1>6. CASE SchedulerStep
  <2>1. CASE StartRound
    BY <2>1, Untouched DEF StartRound, StoreVars
  <2>2. CASE WalkStep(Scheduler)
    BY <1>2, <2>2 DEF Walkers
  <2>3. ASSUME NEW r \in Rooms, TickRoom(r) PROVE PinInv'
    BY <2>3, Untouched DEF TickRoom
  <2>4. CASE EndRound
    BY <2>4, Untouched DEF EndRound, StoreVars
  <2>5. QED
    BY <1>6, <2>1, <2>2, <2>3, <2>4 DEF SchedulerStep
<1>7. ASSUME NEW r \in Rooms, Mutate(r) PROVE PinInv'
  BY <1>7, Untouched DEF Mutate
<1>8. CASE TimePasses
  BY <1>8, Untouched DEF TimePasses
<1>9. QED
  BY <1>1, <1>3, <1>4, <1>5, <1>6, <1>7, <1>8 DEF Next

(* Whoever is authorized in a room has presented the PIN of this very       *)
(* generation, whatever expiries, recreations, races of creations and       *)
(* aborted requests came between the verification, the token and its use.   *)
THEOREM PinsOpenTheirRoomOnly == Spec => []PinOpensItsRoomOnly
<1>1. PinInv /\ [Next]_vars => PinInv'
  BY PinNext
<1>2. Spec => []PinInv
  BY PinInit, <1>1, PTL DEF Spec
<1>3. QED
  BY PinInvSuffices, <1>2, PTL

-----------------------------------------------------------------------------
\* The two canonical keys of a room have the same time left, and once the
\* generation has a token, so has the token set, which holds it.
KeysAgree ==
  /\ left \in [Rooms -> [Keys -> Nat]]
  /\ \A r \in Rooms : left[r]["state"] = left[r]["meta"]
  /\ \A t \in granted : meta[t.room].instance = t.instance =>
       /\ left[t.room]["tokens"] = left[t.room]["state"]
       /\ Hash(t.instance, t.serial) \in tokens[t.room]

(* The invariant implies what the run checks. *)
LEMMA KeysAgreeSuffices == PinInv /\ KeysAgree => KeysLiveTogether
<1>1. SUFFICES ASSUME PinInv, KeysAgree PROVE KeysLiveTogether
  OBVIOUS
<1>2. NoOneSidedRoom
  BY <1>1 DEF KeysAgree, NoOneSidedRoom, HasState, HasMetadata
<1>3. ASSUME NEW t \in granted, Exists(t.room), meta[t.room].instance = t.instance
      PROVE  Hash(t.instance, t.serial) \in TokenSet(t.room)
  BY <1>1, <1>3 DEF KeysAgree, Exists, HasState, TokenSet
<1>4. QED
  BY <1>2, <1>3 DEF KeysLiveTogether, GrantedStaysValid

(* A refresh gives all keys of a room the same time. *)
LEMMA RefreshKeeps ==
  ASSUME PinInv, KeysAgree, NEW r \in Rooms, left' = Refreshed(r),
         UNCHANGED <<meta, tokens, granted>>
  PROVE  KeysAgree'
<1>1. Ttl \in Nat
  BY RegistryAssumption
<1>2. \A s \in Rooms : left'[s] = IF s = r
                                  THEN [k \in Keys |-> IF left[r][k] > 0 THEN Ttl ELSE 0]
                                  ELSE left[s]
  BY DEF KeysAgree, Refreshed
<1>3. left' \in [Rooms -> [Keys -> Nat]]
  <2>1. left' = [s \in Rooms |-> left'[s]]
    BY DEF Refreshed, KeysAgree
  <2>2. [k \in Keys |-> IF left[r][k] > 0 THEN Ttl ELSE 0] \in [Keys -> Nat]
    BY <1>1
  <2>3. ASSUME NEW s \in Rooms PROVE left'[s] \in [Keys -> Nat]
    <3>1. CASE s = r
      BY <1>2, <2>2, <3>1
    <3>2. CASE s # r
      BY <1>2, <3>2 DEF KeysAgree
    <3>3. QED
      BY <3>1, <3>2
  <2>4. QED
    BY <2>1, <2>3
<1>4. \A s \in Rooms, k \in Keys :
        left'[s][k] = IF s = r /\ left[s][k] > 0 THEN Ttl
                      ELSE IF s = r THEN 0 ELSE left[s][k]
  BY <1>2
<1>5. {"state", "meta", "tokens"} = Keys
  BY DEF Keys
<1>6. \A t \in granted : t.room \in Rooms
  BY DEF PinInv, Fields
<1>7. QED
  BY <1>3, <1>4, <1>5, <1>6 DEF KeysAgree

(* Time takes the same from all of them. *)
LEMMA TimeKeepsKeys ==
  ASSUME PinInv, KeysAgree, TimePasses
  PROVE  KeysAgree'
<1>1. \A s \in Rooms, k \in Keys :
        left'[s][k] = IF left[s][k] > 0 THEN left[s][k] - 1 ELSE 0
  BY DEF TimePasses
<1>2. left' \in [Rooms -> [Keys -> Nat]]
  <2>1. \A s \in Rooms, k \in Keys :
          (IF left[s][k] > 0 THEN left[s][k] - 1 ELSE 0) \in Nat
    BY DEF KeysAgree
  <2>2. QED
    BY <2>1 DEF TimePasses
<1>3. {"state", "meta", "tokens"} = Keys
  BY DEF Keys
<1>4. UNCHANGED <<meta, tokens, granted>> /\ \A t \in granted : t.room \in Rooms
  BY DEF PinInv, Fields, TimePasses
<1>5. QED
  BY <1>1, <1>2, <1>3, <1>4 DEF KeysAgree

(* A new generation has no token yet. *)
LEMMA CreateKeepsKeys ==
  ASSUME PinInv, KeysAgree, NEW c \in Requests, NEW r \in Rooms, Create(c, r)
  PROVE  KeysAgree'
<1>1. CASE UNCHANGED <<left, meta, tokens>>
  BY <1>1 DEF Create, KeysAgree
<1>2. CASE /\ left' = [left EXCEPT ![r] = [state |-> Ttl, meta |-> Ttl, tokens |-> 0]]
           /\ meta' = [meta EXCEPT ![r] = [instance |-> instances + 1,
                                           pin |-> request[c].pin]]
           /\ tokens' = [tokens EXCEPT ![r] = {}]
  <2>. DEFINE l == [state |-> Ttl, meta |-> Ttl, tokens |-> 0]
  <2>1. l \in [Keys -> Nat] /\ l["state"] = l["meta"]
    BY RegistryAssumption DEF Keys
  <2>2. \A s \in Rooms : left'[s] = IF s = r THEN l ELSE left[s]
    BY <1>2 DEF KeysAgree
  <2>3. \A s \in Rooms : /\ s # r => meta'[s] = meta[s] /\ tokens'[s] = tokens[s]
                         /\ s = r => meta'[s].instance = instances + 1
    BY <1>2 DEF PinInv, Fields
  <2>4. left' = [s \in Rooms |-> left'[s]]
    BY <1>2 DEF KeysAgree
  <2>. HIDE DEF l
  <2>5. left' \in [Rooms -> [Keys -> Nat]]
    <3>1. \A s \in Rooms : left'[s] \in [Keys -> Nat]
      BY <2>1, <2>2 DEF KeysAgree
    <3>2. QED
      BY <2>4, <3>1
  <2>6. granted' = granted
    BY DEF Create
  <2>7. \A t \in granted : /\ t.room \in Rooms /\ t.instance \in Nat
                           /\ t.instance <= instances /\ instances \in Nat
    BY DEF PinInv, Fields, GrantsAreSound
  <2>8. \A t \in granted : meta'[t.room].instance = t.instance => t.room # r
    BY <2>3, <2>7
  <2>9. QED
    BY <2>1, <2>2, <2>3, <2>5, <2>6, <2>7, <2>8 DEF KeysAgree
<1>3. QED
  BY <1>1, <1>2 DEF Create, StoreVars

(* A token is added to those of its generation, none of which is lost. *)
LEMMA IssueKeepsKeys ==
  ASSUME PinInv, KeysAgree, NEW c \in Requests, NEW r \in Rooms, Issue(c, r)
  PROVE  KeysAgree'
<1>. DEFINE n == Cardinality(granted) + 1
            i == request[c].instance
            u == [serial |-> n, room |-> r, instance |-> i, pin |-> request[c].pin]
<1>1. UNCHANGED meta
  BY DEF Issue
<1>2. CASE UNCHANGED <<left, tokens, granted>>
  BY <1>1, <1>2 DEF KeysAgree
<1>3. CASE /\ Exists(r) /\ meta[r].instance = i
           /\ tokens' = [tokens EXCEPT ![r] = TokenSet(r) \cup {Hash(i, n)}]
           /\ left' = [left EXCEPT ![r] = [k \in Keys |-> Ttl]]
           /\ granted' = granted \cup {u}
  <2>1. \A s \in Rooms : /\ s # r => left'[s] = left[s] /\ tokens'[s] = tokens[s]
                         /\ s = r => /\ tokens'[s] = TokenSet(r) \cup {Hash(i, n)}
                                     /\ left'[s] = [k \in Keys |-> Ttl]
    BY <1>3 DEF KeysAgree, PinInv, Fields
  <2>2. [k \in Keys |-> Ttl] \in [Keys -> Nat]
    BY RegistryAssumption
  <2>3. left' \in [Rooms -> [Keys -> Nat]]
    BY <1>3, <2>2 DEF KeysAgree
  <2>4. left'[r]["state"] = Ttl /\ left'[r]["meta"] = Ttl /\ left'[r]["tokens"] = Ttl
    BY <2>1 DEF Keys
  <2>5. u.room = r /\ u.instance = i /\ u.serial = n
    OBVIOUS
  <2>6. \A t \in granted : t.room \in Rooms
    BY DEF PinInv, Fields
  <2>7. \A t \in granted : t.room = r /\ meta[r].instance = t.instance =>
                             Hash(t.instance, t.serial) \in TokenSet(r)
    BY <1>3 DEF KeysAgree, Exists, HasState, TokenSet
  <2>. HIDE DEF u, n, i
  <2>8. \A t \in granted' : meta[t.room].instance = t.instance =>
          /\ left'[t.room]["tokens"] = left'[t.room]["state"]
          /\ Hash(t.instance, t.serial) \in tokens'[t.room]
    <3>1. ASSUME NEW t \in granted, meta[t.room].instance = t.instance
          PROVE  /\ left'[t.room]["tokens"] = left'[t.room]["state"]
                 /\ Hash(t.instance, t.serial) \in tokens'[t.room]
      BY <2>1, <2>4, <2>6, <2>7, <3>1 DEF KeysAgree
    <3>2. Hash(u.instance, u.serial) \in tokens'[r]
      BY <2>1, <2>5
    <3>3. QED
      BY <1>3, <2>4, <2>5, <3>1, <3>2
  <2>9. QED
    BY <1>1, <2>1, <2>3, <2>4, <2>8 DEF KeysAgree
<1>4. QED
  BY <1>2, <1>3 DEF Issue, Expected

(* One step. *)
LEMMA KeysNext ==
  ASSUME PinInv, KeysAgree, [Next]_vars
  PROVE  KeysAgree'
<1>1. ASSUME UNCHANGED <<left, meta, tokens, granted>> PROVE KeysAgree'
  BY <1>1 DEF KeysAgree
<1>2. CASE UNCHANGED vars
  BY <1>1, <1>2 DEF vars
<1>3. ASSUME NEW p \in Walkers, WalkStep(p) PROVE KeysAgree'
  BY <1>1, <1>3 DEF WalkStep, ReadState, ReadMetadata, Prune, UnwalkedVars
<1>4. ASSUME NEW c \in Requests, Begin(c) \/ Abort(c) PROVE KeysAgree'
  BY <1>1, <1>4 DEF Begin, Abort, StoreVars
<1>5. ASSUME NEW c \in Requests, RequestStep(c) PROVE KeysAgree'
  <2>1. CASE StartCount(c)
    BY <1>1, <2>1 DEF StartCount, StoreVars
  <2>2. CASE WalkStep(c)
    BY <1>3, <2>2 DEF Walkers
  <2>3. ASSUME NEW r \in Rooms, GetMetadata(c, r) \/ HasRoom(c, r) PROVE KeysAgree'
    BY <1>1, <2>3 DEF GetMetadata, HasRoom, StoreVars
  <2>4. ASSUME NEW r \in Rooms, Create(c, r) PROVE KeysAgree'
    BY <2>4, CreateKeepsKeys
  <2>5. ASSUME NEW r \in Rooms, Issue(c, r) PROVE KeysAgree'
    BY <2>5, IssueKeepsKeys
  <2>6. ASSUME NEW r \in Rooms, Authorize(c, r) PROVE KeysAgree'
    BY <1>1, <2>6, RefreshKeeps DEF Authorize
  <2>7. QED
    BY <1>5, <2>1, <2>2, <2>3, <2>4, <2>5, <2>6 DEF RequestStep
<1>6. CASE SchedulerStep
  <2>1. CASE StartRound \/ EndRound
    BY <1>1, <2>1 DEF StartRound, EndRound, StoreVars
  <2>2. CASE WalkStep(Scheduler)
    BY <1>3, <2>2 DEF Walkers
  <2>3. ASSUME NEW r \in Rooms, TickRoom(r) PROVE KeysAgree'
    BY <1>1, <2>3, RefreshKeeps DEF TickRoom
  <2>4. QED
    BY <1>6, <2>1, <2>2, <2>3 DEF SchedulerStep
<1>7. ASSUME NEW r \in Rooms, Mutate(r) PROVE KeysAgree'
  BY <1>7, RefreshKeeps DEF Mutate
<1>8. CASE TimePasses
  BY <1>8, TimeKeepsKeys
<1>9. QED
  BY <1>2, <1>4, <1>5, <1>6, <1>7, <1>8 DEF Next

(* Whatever expires, is refreshed, recreated or pruned: metadata and state  *)
(* of a room are both there or both gone, and a token lives as long as its  *)
(* generation, for any time to live and any cap.                            *)
THEOREM RoomsLiveAsOne == Spec => []KeysLiveTogether
<1>1. Init => PinInv /\ KeysAgree
  <2>1. SUFFICES ASSUME Init PROVE KeysAgree
    BY PinInit
  <2>2. [k \in Keys |-> 0] \in [Keys -> Nat]
    OBVIOUS
  <2>3. "state" \in Keys /\ "meta" \in Keys
    BY DEF Keys
  <2>4. QED
    BY <2>1, <2>2, <2>3 DEF Init, KeysAgree
<1>2. PinInv /\ KeysAgree /\ [Next]_vars => (PinInv /\ KeysAgree)'
  BY PinNext, KeysNext
<1>3. Spec => [](PinInv /\ KeysAgree)
  BY <1>1, <1>2, PTL DEF Spec
<1>4. QED
  BY KeysAgreeSuffices, <1>3, PTL
-----------------------------------------------------------------------------
(***************************************************************************)
(* The index follows the rooms.  Each part of the property needs its own   *)
(* strengthening: a room that runs was renewed in this period or is still  *)
(* to be ticked in it, and a member of the index that a walk has passed    *)
(* was seen to exist, so that it counts for the cap.                       *)
(***************************************************************************)
\* The walk of the scheduler is yet to tick the room.
Ticks(w, r) ==
  \/ r \in w.todo \/ r \in w.live
  \/ w.pc = "meta" /\ w.stateSeen /\ r \in w.at

WalkFields ==
  /\ index \subseteq Rooms /\ running \subseteq Rooms
  /\ IsFiniteSet(index)
  /\ left \in [Rooms -> [Keys -> 0..Ttl]]
  /\ walk \in [Walkers -> Walk]
  /\ alive \in [Requests -> SUBSET Rooms]
  /\ due \in BOOLEAN
  /\ \A p \in Walkers : /\ walk[p].pc \in {"state", "done"} => walk[p].at = {}
                        /\ walk[p].pc = "done" => walk[p].todo = {}

\* A running room was renewed since time passed, or is to be ticked.
RunningAreTended ==
  /\ walk[Scheduler].pc # "idle" => due
  /\ \A r \in running, k \in {"state", "meta"} :
       \/ left[r][k] = Ttl
       \/ left[r][k] = Ttl - 1 /\ due /\ (walk[Scheduler].pc = "idle" \/ Ticks(walk[Scheduler], r))

\* Whoever walks knows the rooms that exist, and has passed only members of
\* the index that did.
WalksSeeRooms(w, seen) ==
  /\ IsFiniteSet(seen)
  /\ w.pc # "idle" =>
       /\ {r \in Rooms : Exists(r)} \subseteq seen
       /\ index \subseteq seen \cup w.todo \cup w.at
       /\ w.pc = "meta" /\ w.stateSeen => w.at \subseteq seen

IndexInv ==
  /\ WalkFields
  /\ LiveRoomsAreListed
  /\ RunningAreTended
  /\ \A c \in Requests : WalksSeeRooms(walk[c], alive[c])

(* A room has all its canonical keys or none. *)
LEMMA KeysExist ==
  ASSUME KeysAgree
  PROVE  \A r \in Rooms : /\ HasState(r) <=> Exists(r)
                          /\ HasMetadata(r) <=> Exists(r)
                          /\ Gone(r) <=> ~Exists(r)
BY DEF KeysAgree, HasState, HasMetadata, Exists, Gone

(* A running room is far from expiry, if keys outlive two periods. *)
LEMMA TendedExist ==
  ASSUME Ttl > 1, RunningAreTended
  PROVE  RunningRoomLives
<1> SUFFICES ASSUME NEW r \in running PROVE Exists(r)
  BY DEF RunningRoomLives
<1>1. left[r]["state"] > 0 /\ left[r]["meta"] > 0
  BY RegistryAssumption DEF RunningAreTended
<1> QED BY <1>1 DEF Exists, HasState, HasMetadata

(* What the run checks follows. *)
LEMMA IndexInvSuffices ==
  ASSUME Ttl > 1, PinInv, KeysAgree, IndexInv
  PROVE  IndexFollowsRooms
<1>1. RunningRoomLives
  BY TendedExist DEF IndexInv
<1>2. RefusalIsJustified
  <2> SUFFICES ASSUME NEW c \in Requests, NEW r \in Rooms, walk[c].pc = "done",
                      Cardinality(index \ {r}) >= MaxRooms
               PROVE  Cardinality(alive[c] \ {r}) >= MaxRooms
    BY DEF RefusalIsJustified, Full
  <2>1. walk[c].todo = {} /\ walk[c].at = {}
    BY DEF IndexInv, WalkFields, Walkers
  <2>2. index \subseteq alive[c] /\ IsFiniteSet(alive[c])
    BY <2>1 DEF IndexInv, WalksSeeRooms
  <2>3. IsFiniteSet(alive[c] \ {r}) /\ index \ {r} \in SUBSET (alive[c] \ {r})
    BY <2>2, FS_RemoveElement, FS_Difference, FS_Singleton
  <2>4. /\ Cardinality(index \ {r}) <= Cardinality(alive[c] \ {r})
        /\ Cardinality(alive[c] \ {r}) \in Nat /\ IsFiniteSet(index \ {r})
    BY <2>3, FS_Subset, FS_CardinalityType
  <2>5. Cardinality(index \ {r}) \in Nat
    BY <2>4, FS_CardinalityType
  <2> QED BY <2>4, <2>5, RegistryAssumption
<1> QED BY <1>1, <1>2 DEF IndexInv, IndexFollowsRooms

(* A walk goes to the next member, or is done. *)
LEMMA NextMemberIs ==
  ASSUME NEW w \in Walk
  PROVE  /\ NextMember(w) \in Walk
         /\ NextMember(w).pc = IF w.todo = {} THEN "done" ELSE "state"
         /\ NextMember(w).todo = w.todo /\ NextMember(w).at = {}
         /\ NextMember(w).live = w.live
BY DEF NextMember, Walk

(* One step of a walk: a member of the index that it leaves behind exists or
   was seen to, or is not a member any more; a room that exists stays a member
   and, if the walk is the scheduler's, is ticked in the end (room_store.py,
   room_ids and the prune script). *)
WalkMoves(w, v) ==
  /\ w.pc # "idle" /\ v.pc # "idle"
  /\ v.pc \in {"state", "done"} => v.at = {}
  /\ v.pc = "done" => v.todo = {}
  /\ index' \subseteq index
  /\ \A r \in index : Exists(r) => r \in index'
  /\ \A r \in index' : r \in w.todo \cup w.at =>
       \/ r \in v.todo \cup v.at \/ Exists(r)
       \/ w.pc = "meta" /\ w.stateSeen /\ r \in w.at
  /\ v.pc = "meta" /\ v.stateSeen => v.at \subseteq {r \in Rooms : Exists(r)}
  /\ \A r \in Rooms : Exists(r) /\ Ticks(w, r) => Ticks(v, r)

(* A call of a walk touches its own record and what a walk may: the index and
   what it marks (room_store.py:520-575). *)
LEMMA WalkStepIs ==
  ASSUME KeysAgree, WalkFields, NEW p \in Walkers, WalkStep(p)
  PROVE  \E v \in Walk : /\ walk' = [walk EXCEPT ![p] = v] /\ UNCHANGED UnwalkedVars
                        /\ WalkMoves(walk[p], v)
<1>1. PICK r \in Rooms : ReadState(p, r) \/ ReadMetadata(p, r) \/ Prune(p, r)
  BY DEF WalkStep
<1>2. PICK w \in Walk : w = walk[p]
  BY DEF WalkFields
<1>3. /\ w.pc \in {"state", "done"} => w.at = {}
      /\ w.pc = "done" => w.todo = {}
  BY <1>2 DEF WalkFields
<1>4. CASE ReadState(p, r)
  <2> DEFINE v == [w EXCEPT !.pc = "meta", !.todo = @ \ {r}, !.at = {r},
                            !.stateSeen = HasState(r)]
  <2>1. /\ w.pc = "state" /\ r \in w.todo /\ walk' = [walk EXCEPT ![p] = v]
        /\ index' = index /\ UNCHANGED UnwalkedVars
    BY <1>2, <1>4 DEF ReadState
  <2>2. HasState(r) \in BOOLEAN /\ (HasState(r) <=> Exists(r))
    BY KeysExist DEF HasState
  <2>3. /\ v \in Walk /\ v.pc = "meta" /\ v.todo = w.todo \ {r} /\ v.at = {r}
        /\ v.stateSeen = HasState(r) /\ v.live = w.live
    BY <1>2, <2>2 DEF Walk
  <2> HIDE DEF v
  <2>4. WalkMoves(w, v)
    BY <1>3, <2>1, <2>2, <2>3 DEF WalkMoves, Ticks
  <2> QED BY <1>2, <2>1, <2>3, <2>4
<1>5. CASE ReadMetadata(p, r)
  <2> DEFINE found == IF w.stateSeen /\ HasMetadata(r) THEN {r} ELSE {}
             pruning == [w EXCEPT !.pc = "prune"]
             passing == [w EXCEPT !.live = @ \cup found]
             v == IF ~w.stateSeen /\ ~HasMetadata(r) THEN pruning ELSE NextMember(passing)
  <2>1. /\ w.pc = "meta" /\ w.at = {r} /\ walk' = [walk EXCEPT ![p] = v]
        /\ index' = index /\ UNCHANGED UnwalkedVars
    BY <1>2, <1>5 DEF ReadMetadata
  <2>2. HasMetadata(r) <=> Exists(r)
    BY KeysExist
  <2>3. CASE ~w.stateSeen /\ ~HasMetadata(r)
    <3>1. /\ pruning \in Walk /\ pruning.pc = "prune" /\ pruning.todo = w.todo
          /\ pruning.at = w.at /\ pruning.live = w.live
      BY <1>2 DEF Walk
    <3> HIDE DEF pruning
    <3>2. v \in Walk /\ v.pc = "prune" /\ v.todo = w.todo /\ v.at = {r} /\ v.live = w.live
      BY <2>1, <2>3, <3>1
    <3> HIDE DEF v
    <3>3. WalkMoves(w, v)
      BY <2>1, <2>2, <2>3, <3>2 DEF WalkMoves, Ticks
    <3> QED BY <1>2, <2>1, <3>2, <3>3
  <2>4. CASE ~(~w.stateSeen /\ ~HasMetadata(r))
    <3>1. passing \in Walk /\ passing.todo = w.todo /\ passing.live = w.live \cup found
      BY <1>2 DEF Walk
    <3> HIDE DEF passing
    <3>2. /\ v \in Walk /\ v.pc = IF w.todo = {} THEN "done" ELSE "state"
          /\ v.todo = w.todo /\ v.at = {} /\ v.live = w.live \cup found
      BY <2>4, <3>1, NextMemberIs
    <3> HIDE DEF v
    <3>3. WalkMoves(w, v)
      BY <2>1, <2>2, <2>4, <3>2 DEF WalkMoves, Ticks
    <3> QED BY <1>2, <2>1, <3>2, <3>3
  <2> QED BY <2>3, <2>4
<1>6. CASE Prune(p, r)
  <2> DEFINE found == IF Exists(r) THEN {r} ELSE {}
             passing == [w EXCEPT !.live = @ \cup found]
             v == NextMember(passing)
  <2>1. /\ w.pc = "prune" /\ w.at = {r} /\ walk' = [walk EXCEPT ![p] = v]
        /\ index' = IF Prunable(r) THEN index \ {r} ELSE index
        /\ UNCHANGED UnwalkedVars
    BY <1>2, <1>6 DEF Prune
  <2>2. Prunable(r) <=> ~Exists(r)
    BY KeysExist DEF Prunable
  <2>3. passing \in Walk /\ passing.todo = w.todo
        /\ passing.live = w.live \cup found
    BY <1>2 DEF Walk
  <2> HIDE DEF passing
  <2>4. /\ v \in Walk /\ v.pc = IF w.todo = {} THEN "done" ELSE "state"
        /\ v.todo = w.todo /\ v.at = {} /\ v.live = passing.live
    BY <2>3, NextMemberIs
  <2> HIDE DEF v
  <2>5. WalkMoves(w, v)
    BY <2>1, <2>2, <2>3, <2>4 DEF WalkMoves, Ticks
  <2> QED BY <1>2, <2>1, <2>4, <2>5
<1> QED BY <1>1, <1>4, <1>5, <1>6

(* Steps that leave the index and the walks alone, and let no room exist that
   did not: what they renew is tended. *)
LEMMA RenewalKeeps ==
  ASSUME IndexInv, UNCHANGED <<index, walk, due, alive>>,
         left' \in [Rooms -> [Keys -> 0..Ttl]],
         \A r \in Rooms : Exists(r)' => Exists(r),
         running' \subseteq Rooms,
         \A r \in running', k \in {"state", "meta"} :
           left'[r][k] = Ttl \/ (r \in running /\ left'[r][k] = left[r][k])
  PROVE  IndexInv'
<1>1. WalkFields' /\ LiveRoomsAreListed'
  BY DEF IndexInv, WalkFields, LiveRoomsAreListed
<1>2. RunningAreTended'
  BY DEF IndexInv, RunningAreTended, Ticks
<1>3. \A c \in Requests : WalksSeeRooms(walk[c], alive[c])'
  BY DEF IndexInv, WalksSeeRooms
<1> QED BY <1>1, <1>2, <1>3 DEF IndexInv

(* Steps that leave the keys alone, too. *)
LEMMA NothingRenewed ==
  ASSUME IndexInv, UNCHANGED <<index, walk, due, alive, left, running>>
  PROVE  IndexInv'
<1>1. \A r \in Rooms : Exists(r)' => Exists(r)
  BY DEF Exists, HasState, HasMetadata
<1>2. left' \in [Rooms -> [Keys -> 0..Ttl]] /\ running' \subseteq Rooms
  BY DEF IndexInv, WalkFields
<1> QED BY <1>1, <1>2, RenewalKeeps

(* What a script that refreshes a room does to its keys. *)
LEMMA RefreshIs ==
  ASSUME WalkFields, NEW r \in Rooms, left' = Refreshed(r)
  PROVE  /\ left' \in [Rooms -> [Keys -> 0..Ttl]]
         /\ \A s \in Rooms, k \in Keys :
              left'[s][k] = IF s # r THEN left[s][k] ELSE IF left[s][k] > 0 THEN Ttl ELSE 0
         /\ \A s \in Rooms : Exists(s)' <=> Exists(s)
<1>1. Ttl \in Nat \ {0} /\ {"state", "meta"} \subseteq Keys
  BY RegistryAssumption DEF Keys
<1> DEFINE new == [k \in Keys |-> IF left[r][k] > 0 THEN Ttl ELSE 0]
<1>2. new \in [Keys -> 0..Ttl]
  BY <1>1
<1>3. left' = [left EXCEPT ![r] = new]
  BY DEF Refreshed
<1>4. \A k \in Keys : new[k] = IF left[r][k] > 0 THEN Ttl ELSE 0
  OBVIOUS
<1> HIDE DEF new
<1>5. left' \in [Rooms -> [Keys -> 0..Ttl]]
  BY <1>2, <1>3 DEF WalkFields
<1>6. \A s \in Rooms : left'[s] = IF s = r THEN new ELSE left[s]
  BY <1>3 DEF WalkFields
<1>7. \A s \in Rooms, k \in Keys :
        left'[s][k] = IF s # r THEN left[s][k] ELSE IF left[s][k] > 0 THEN Ttl ELSE 0
  BY <1>4, <1>6
<1>8. \A s \in Rooms : Exists(s)' <=> Exists(s)
  BY <1>1, <1>7 DEF Exists, HasState, HasMetadata, WalkFields
<1> QED BY <1>5, <1>7, <1>8

(* A request that renews its room: issuing and presenting a token, and a
   message. *)
LEMMA RenewalsKeep ==
  ASSUME IndexInv, NEW r \in Rooms,
         \/ \E c \in Requests : Issue(c, r) \/ Authorize(c, r)
         \/ Mutate(r)
  PROVE  IndexInv'
<1>1. WalkFields /\ {"state", "meta"} \subseteq Keys /\ Ttl \in Nat \ {0}
  BY RegistryAssumption DEF IndexInv, Keys
<1>2. ASSUME Exists(r), left' = Refreshed(r), UNCHANGED <<index, walk, due, alive>>,
             running' \subseteq running \cup {r}
      PROVE  IndexInv'
  <2>1. /\ left' \in [Rooms -> [Keys -> 0..Ttl]]
        /\ \A s \in Rooms, k \in Keys :
             left'[s][k] = IF s # r THEN left[s][k] ELSE IF left[s][k] > 0 THEN Ttl ELSE 0
        /\ \A s \in Rooms : Exists(s)' <=> Exists(s)
    BY <1>1, <1>2, RefreshIs
  <2>2. left[r]["state"] > 0 /\ left[r]["meta"] > 0
    BY <1>2 DEF Exists, HasState, HasMetadata
  <2>3. running' \subseteq Rooms
    BY <1>1, <1>2 DEF WalkFields
  <2>4. \A s \in running', k \in {"state", "meta"} :
          left'[s][k] = Ttl \/ (s \in running /\ left'[s][k] = left[s][k])
    BY <1>1, <1>2, <2>1, <2>2, <2>3
  <2> QED BY <1>2, <2>1, <2>3, <2>4, RenewalKeeps
<1>3. ASSUME NEW c \in Requests, Issue(c, r) PROVE IndexInv'
  <2>1. UNCHANGED <<index, walk, due, alive, running>>
    BY <1>3 DEF Issue
  <2>2. CASE left' = left
    BY <2>1, <2>2, NothingRenewed
  <2>3. CASE Exists(r) /\ left' = [left EXCEPT ![r] = [k \in Keys |-> Ttl]]
    <3> DEFINE new == [k \in Keys |-> Ttl]
    <3>1. new \in [Keys -> 0..Ttl] /\ \A k \in Keys : new[k] = Ttl
      BY <1>1
    <3>2. left' = [left EXCEPT ![r] = new]
      BY <2>3
    <3> HIDE DEF new
    <3>3. left' \in [Rooms -> [Keys -> 0..Ttl]]
      BY <1>1, <3>1, <3>2 DEF WalkFields
    <3>4. \A s \in Rooms, k \in Keys : left'[s][k] = IF s = r THEN Ttl ELSE left[s][k]
      BY <1>1, <3>1, <3>2 DEF WalkFields
    <3>5. \A s \in Rooms : Exists(s)' => Exists(s)
      BY <1>1, <2>3, <3>4 DEF Exists, HasState, HasMetadata
    <3>6. running' \subseteq Rooms
      BY <1>1, <2>1 DEF WalkFields
    <3>7. \A s \in running', k \in {"state", "meta"} :
            left'[s][k] = Ttl \/ (s \in running /\ left'[s][k] = left[s][k])
      BY <1>1, <2>1, <3>4, <3>6
    <3> QED BY <2>1, <3>3, <3>5, <3>6, <3>7, RenewalKeeps
  <2> QED BY <1>3, <2>2, <2>3 DEF Issue
<1>4. ASSUME NEW c \in Requests, Authorize(c, r) PROVE IndexInv'
  <2>1. CASE Admits(c, r)
    BY <1>2, <1>4, <2>1 DEF Authorize, Admits
  <2>2. CASE ~Admits(c, r)
    BY <1>4, <2>2, NothingRenewed DEF Authorize
  <2> QED BY <2>1, <2>2
<1>5. CASE Mutate(r)
  BY <1>2, <1>5 DEF Mutate
<1> QED BY <1>3, <1>4, <1>5

(* A step of a walk, of a request or of the scheduler. *)
LEMMA WalksKeepIndex ==
  ASSUME Ttl > 1, KeysAgree, IndexInv, NEW p \in Walkers, WalkStep(p)
  PROVE  IndexInv'
<1>1. WalkFields /\ LiveRoomsAreListed /\ RunningAreTended
  BY DEF IndexInv
<1>2. PICK v \in Walk : /\ walk' = [walk EXCEPT ![p] = v] /\ UNCHANGED UnwalkedVars
                        /\ WalkMoves(walk[p], v)
  BY <1>1, WalkStepIs
<1>3. /\ UNCHANGED <<left, meta, tokens, running, instances, request, due, granted, alive>>
      /\ \A q \in Walkers : walk'[q] = IF q = p THEN v ELSE walk[q]
      /\ walk' \in [Walkers -> Walk]
  BY <1>1, <1>2 DEF UnwalkedVars, WalkFields
<1>4. \A r \in Rooms : Exists(r)' <=> Exists(r)
  BY <1>3 DEF Exists, HasState, HasMetadata
<1>5. WalkFields'
  <2>1. index' \subseteq index
    BY <1>2 DEF WalkMoves
  <2>2. IsFiniteSet(index')
    BY <1>1, <2>1, FS_Subset DEF WalkFields
  <2>3. \A q \in Walkers : /\ walk'[q].pc \in {"state", "done"} => walk'[q].at = {}
                           /\ walk'[q].pc = "done" => walk'[q].todo = {}
    BY <1>1, <1>2, <1>3 DEF WalkFields, WalkMoves
  <2> QED BY <1>1, <1>3, <2>1, <2>2, <2>3 DEF WalkFields
<1>6. LiveRoomsAreListed'
  BY <1>1, <1>2, <1>4 DEF LiveRoomsAreListed, WalkMoves
<1>7. RunningAreTended'
  <2>1. Scheduler \in Walkers
    BY DEF Walkers
  <2>2. \A r \in running : r \in Rooms
    BY <1>1 DEF WalkFields
  <2>3. CASE p # Scheduler
    BY <1>1, <1>3, <2>1, <2>3 DEF RunningAreTended
  <2>4. CASE p = Scheduler
    <3>1. walk'[Scheduler] = v /\ walk[Scheduler].pc # "idle"
      BY <1>2, <1>3, <2>1, <2>4 DEF WalkMoves
    <3>2. due
      BY <1>1, <3>1 DEF RunningAreTended
    <3>3. ASSUME NEW r \in running', NEW k \in {"state", "meta"}, left'[r][k] # Ttl
          PROVE  left'[r][k] = Ttl - 1 /\ Ticks(v, r)
      <4>1. /\ r \in running /\ r \in Rooms /\ left'[r][k] = left[r][k]
        BY <1>3, <2>2
      <4>2. left[r][k] = Ttl - 1 /\ Ticks(walk[Scheduler], r)
        BY <1>1, <3>1, <3>3, <4>1 DEF RunningAreTended
      <4>3. Exists(r)
        BY <1>1, <4>1, TendedExist DEF RunningRoomLives
      <4> QED BY <1>2, <2>4, <4>1, <4>2, <4>3 DEF WalkMoves
    <3> QED BY <1>3, <3>1, <3>2, <3>3 DEF RunningAreTended
  <2> QED BY <2>3, <2>4
<1>8. ASSUME NEW c \in Requests
      PROVE  WalksSeeRooms(walk[c], alive[c])'
  <2>1. c \in Walkers /\ WalksSeeRooms(walk[c], alive[c]) /\ alive'[c] = alive[c]
    BY <1>3 DEF Walkers, IndexInv
  <2>2. index' \subseteq index /\ index \subseteq Rooms
    BY <1>1, <1>2 DEF WalkMoves, WalkFields
  <2>3. CASE c # p
    BY <1>3, <1>4, <2>1, <2>2, <2>3 DEF WalksSeeRooms
  <2>4. CASE c = p
    <3>1. walk'[c] = v
      BY <1>3, <2>1, <2>4
    <3>2. /\ {r \in Rooms : Exists(r)} \subseteq alive[c]
          /\ index \subseteq alive[c] \cup walk[c].todo \cup walk[c].at
          /\ walk[c].pc = "meta" /\ walk[c].stateSeen => walk[c].at \subseteq alive[c]
      BY <1>2, <2>1, <2>4 DEF WalksSeeRooms, WalkMoves
    <3>3. index' \subseteq alive[c] \cup v.todo \cup v.at
      BY <1>2, <2>2, <2>4, <3>2 DEF WalkMoves
    <3>4. v.pc = "meta" /\ v.stateSeen => v.at \subseteq alive[c]
      BY <1>2, <3>2 DEF WalkMoves
    <3> QED BY <1>4, <2>1, <3>1, <3>2, <3>3, <3>4 DEF WalksSeeRooms
  <2> QED BY <2>3, <2>4
<1> QED BY <1>5, <1>6, <1>7, <1>8 DEF IndexInv

(* A counting request begins: the rooms that exist are in the index, which
   is finite. *)
LEMMA StartCountKeepsIndex ==
  ASSUME IndexInv, NEW c \in Requests, StartCount(c)
  PROVE  IndexInv'
<1>1. WalkFields /\ c \in Walkers /\ c # Scheduler
  BY RegistryAssumption DEF IndexInv, Walkers
<1> DEFINE first == [NoWalk EXCEPT !.todo = Members]
           v == NextMember(first)
           seen == {r \in Rooms : Exists(r)}
<1>2. first \in Walk /\ first.todo = index
  BY <1>1 DEF NoWalk, Walk, Members, WalkFields
<1> HIDE DEF first
<1>3. /\ v \in Walk /\ v.pc = IF index = {} THEN "done" ELSE "state"
      /\ v.todo = index /\ v.at = {}
  BY <1>2, NextMemberIs
<1>4. /\ walk' = [walk EXCEPT ![c] = v] /\ alive' = [alive EXCEPT ![c] = seen]
      /\ UNCHANGED <<index, left, running, due>>
  BY DEF StartCount, StartWalk, first, StoreVars
<1> HIDE DEF v
<1>5. seen \subseteq Rooms /\ seen \subseteq index /\ IsFiniteSet(seen)
  <2>1. seen \in SUBSET index
    BY DEF IndexInv, LiveRoomsAreListed
  <2> QED BY <1>1, <2>1, FS_Subset DEF WalkFields
<1>6. \A r \in Rooms : Exists(r)' <=> Exists(r)
  BY <1>4 DEF Exists, HasState, HasMetadata
<1>7. /\ \A p \in Walkers : walk'[p] = IF p = c THEN v ELSE walk[p]
      /\ \A d \in Requests : alive'[d] = IF d = c THEN seen ELSE alive[d]
      /\ Scheduler \in Walkers
  BY <1>1, <1>4 DEF WalkFields, Walkers
<1>8. {r \in Rooms : Exists(r)}' = seen
  BY <1>6
<1> HIDE DEF seen
<1>9. WalkFields'
  BY <1>1, <1>3, <1>4, <1>5, <1>7 DEF WalkFields
<1>10. LiveRoomsAreListed'
  BY <1>4, <1>6 DEF IndexInv, LiveRoomsAreListed
<1>11. RunningAreTended'
  BY <1>1, <1>4, <1>7 DEF IndexInv, RunningAreTended
<1>12. ASSUME NEW d \in Requests PROVE WalksSeeRooms(walk[d], alive[d])'
  <2>1. CASE d = c
    BY <1>3, <1>4, <1>5, <1>7, <1>8, <2>1 DEF Walkers, WalksSeeRooms
  <2>2. CASE d # c
    BY <1>4, <1>6, <1>7, <2>2 DEF Walkers, WalksSeeRooms, IndexInv
  <2> QED BY <2>1, <2>2
<1> QED BY <1>9, <1>10, <1>11, <1>12 DEF IndexInv

(* A request that stops walking, whatever else it does. *)
LEMMA WalkEnds ==
  ASSUME IndexInv, NEW c \in Requests,
         walk' = [walk EXCEPT ![c] = NoWalk],
         alive' = [alive EXCEPT ![c] = {}],
         index' \subseteq index, \A r \in Rooms : Exists(r) => r \in index',
         UNCHANGED <<left, running, due>>
  PROVE  IndexInv'
<1>1. WalkFields /\ c \in Walkers /\ c # Scheduler /\ Scheduler \in Walkers
  BY RegistryAssumption DEF IndexInv, Walkers
<1>2. NoWalk \in Walk /\ NoWalk.pc = "idle" /\ NoWalk.at = {}
  BY DEF NoWalk, Walk
<1>3. /\ \A p \in Walkers : walk'[p] = IF p = c THEN NoWalk ELSE walk[p]
      /\ \A d \in Requests : alive'[d] = IF d = c THEN {} ELSE alive[d]
  BY <1>1 DEF WalkFields
<1>4. \A r \in Rooms : Exists(r)' <=> Exists(r)
  BY DEF Exists, HasState, HasMetadata
<1>5. IsFiniteSet(index')
  BY <1>1, FS_Subset DEF WalkFields
<1>6. WalkFields'
  BY <1>1, <1>2, <1>3, <1>5 DEF WalkFields
<1>7. LiveRoomsAreListed'
  BY <1>4 DEF LiveRoomsAreListed
<1>8. RunningAreTended'
  BY <1>1, <1>3 DEF IndexInv, RunningAreTended
<1>9. ASSUME NEW d \in Requests PROVE WalksSeeRooms(walk[d], alive[d])'
  <2>1. CASE d = c
    BY <1>1, <1>2, <1>3, <2>1, FS_EmptySet DEF WalksSeeRooms
  <2>2. CASE d # c
    BY <1>3, <1>4, <2>2 DEF Walkers, WalksSeeRooms, IndexInv
  <2> QED BY <2>1, <2>2
<1> QED BY <1>6, <1>7, <1>8, <1>9 DEF IndexInv

(* A creation: the room is a member from now on, and everyone who walks
   has seen it exist. *)
LEMMA CreateKeepsIndex ==
  ASSUME KeysAgree, IndexInv, NEW c \in Requests, NEW r \in Rooms, Create(c, r)
  PROVE  IndexInv'
<1>1. WalkFields /\ c \in Walkers /\ c # Scheduler /\ Scheduler \in Walkers
  BY RegistryAssumption DEF IndexInv, Walkers
<1>2. \A s \in Rooms : Exists(s) => s \in index
  BY DEF IndexInv, LiveRoomsAreListed
<1>3. CASE Taken(r)
  <2>1. /\ walk' = [walk EXCEPT ![c] = NoWalk] /\ alive' = [alive EXCEPT ![c] = {}]
        /\ UNCHANGED <<index, left, running, due>>
    BY <1>3 DEF Create, StoreVars
  <2> QED BY <1>2, <2>1, WalkEnds
<1>4. CASE ~Taken(r) /\ Full(r)
  <2>1. /\ walk' = [walk EXCEPT ![c] = NoWalk] /\ alive' = [alive EXCEPT ![c] = {}]
        /\ index' = index \ {r} /\ UNCHANGED <<left, running, due>>
    BY <1>4 DEF Create
  <2>2. ~Exists(r)
    BY <1>4, KeysExist DEF Taken
  <2> QED BY <1>2, <2>1, <2>2, WalkEnds
<1>5. CASE ~Taken(r) /\ ~Full(r)
  <2> DEFINE fresh == [state |-> Ttl, meta |-> Ttl, tokens |-> 0]
  <2>1. /\ walk' = [walk EXCEPT ![c] = NoWalk] /\ index' = index \cup {r}
        /\ left' = [left EXCEPT ![r] = fresh] /\ running' = running \ {r}
        /\ alive' = [d \in Requests |-> IF walk'[d].pc = "idle" THEN {} ELSE alive[d] \cup {r}]
        /\ due' = due
    BY <1>5 DEF Create
  <2>2. /\ fresh \in [Keys -> 0..Ttl] /\ fresh["state"] = Ttl /\ fresh["meta"] = Ttl
        /\ Ttl \in Nat \ {0}
    BY RegistryAssumption DEF Keys
  <2> HIDE DEF fresh
  <2>3. /\ left' \in [Rooms -> [Keys -> 0..Ttl]]
        /\ \A s \in Rooms : left'[s] = IF s = r THEN fresh ELSE left[s]
    BY <1>1, <2>1, <2>2 DEF WalkFields
  <2>4. NoWalk \in Walk /\ NoWalk.pc = "idle" /\ NoWalk.at = {}
    BY DEF NoWalk, Walk
  <2>5. \A p \in Walkers : walk'[p] = IF p = c THEN NoWalk ELSE walk[p]
    BY <1>1, <2>1 DEF WalkFields
  <2>6. \A s \in Rooms : Exists(s)' <=> s = r \/ Exists(s)
    BY <2>2, <2>3 DEF Exists, HasState, HasMetadata
  <2>7. /\ alive' \in [Requests -> SUBSET Rooms]
        /\ \A d \in Requests : alive'[d] = IF walk'[d].pc = "idle" THEN {} ELSE alive[d] \cup {r}
    BY <1>1, <2>1 DEF WalkFields
  <2>8. WalkFields'
    <3>1. IsFiniteSet(index')
      BY <1>1, <2>1, FS_AddElement DEF WalkFields
    <3>2. walk' \in [Walkers -> Walk]
      BY <1>1, <2>1, <2>4 DEF WalkFields
    <3>3. \A p \in Walkers : /\ walk'[p].pc \in {"state", "done"} => walk'[p].at = {}
                             /\ walk'[p].pc = "done" => walk'[p].todo = {}
      BY <1>1, <2>4, <2>5 DEF WalkFields
    <3> QED BY <1>1, <2>1, <2>3, <2>7, <3>1, <3>2, <3>3 DEF WalkFields
  <2>9. LiveRoomsAreListed'
    BY <1>2, <2>1, <2>6 DEF LiveRoomsAreListed
  <2>10. RunningAreTended'
    <3>1. walk'[Scheduler] = walk[Scheduler]
      BY <1>1, <2>5
    <3>2. \A s \in running' : s \in running /\ left'[s] = left[s]
      BY <1>1, <2>1, <2>3 DEF WalkFields
    <3> QED BY <2>1, <3>1, <3>2 DEF IndexInv, RunningAreTended
  <2>11. ASSUME NEW d \in Requests PROVE WalksSeeRooms(walk[d], alive[d])'
    <3>1. CASE walk'[d].pc = "idle"
      BY <2>7, <3>1, FS_EmptySet DEF WalksSeeRooms
    <3>2. CASE walk'[d].pc # "idle"
      <4>1. walk'[d] = walk[d] /\ alive'[d] = alive[d] \cup {r} /\ WalksSeeRooms(walk[d], alive[d])
        BY <2>4, <2>5, <2>7, <3>2 DEF Walkers, IndexInv
      <4>2. IsFiniteSet(alive'[d])
        BY <4>1, FS_AddElement DEF WalksSeeRooms
      <4> QED BY <2>1, <2>6, <3>2, <4>1, <4>2 DEF WalksSeeRooms
    <3> QED BY <3>1, <3>2
  <2> QED BY <2>8, <2>9, <2>10, <2>11 DEF IndexInv
<1> QED BY <1>3, <1>4, <1>5

(* A round starts with all members of the index, and so with all rooms that
   run. *)
LEMMA StartRoundKeepsIndex ==
  ASSUME Ttl > 1, IndexInv, StartRound
  PROVE  IndexInv'
<1>1. WalkFields /\ Scheduler \in Walkers /\ RunningAreTended
  BY DEF IndexInv, Walkers
<1> DEFINE first == [NoWalk EXCEPT !.todo = Members]
           v == NextMember(first)
<1>2. first \in Walk /\ first.todo = index
  BY <1>1 DEF NoWalk, Walk, Members, WalkFields
<1> HIDE DEF first
<1>3. /\ v \in Walk /\ v.pc = IF index = {} THEN "done" ELSE "state"
      /\ v.todo = index /\ v.at = {}
  BY <1>2, NextMemberIs
<1>4. /\ walk' = [walk EXCEPT ![Scheduler] = v] /\ due
      /\ UNCHANGED <<index, left, running, due, alive>>
  BY DEF StartRound, StartWalk, first, StoreVars
<1> HIDE DEF v
<1>5. \A r \in Rooms : Exists(r)' <=> Exists(r)
  BY <1>4 DEF Exists, HasState, HasMetadata
<1>6. \A p \in Walkers : walk'[p] = IF p = Scheduler THEN v ELSE walk[p]
  BY <1>1, <1>4 DEF WalkFields
<1>7. WalkFields'
  BY <1>1, <1>3, <1>4, <1>6 DEF WalkFields
<1>8. LiveRoomsAreListed'
  BY <1>4, <1>5 DEF IndexInv, LiveRoomsAreListed
<1>9. RunningAreTended'
  <2>1. \A r \in running : Ticks(v, r)
    BY <1>1, <1>3, TendedExist DEF RunningRoomLives, IndexInv, LiveRoomsAreListed,
                                   WalkFields, Ticks
  <2> QED BY <1>1, <1>4, <1>6, <2>1 DEF RunningAreTended
<1>10. ASSUME NEW d \in Requests PROVE WalksSeeRooms(walk[d], alive[d])'
  <2>1. walk'[d] = walk[d] /\ WalksSeeRooms(walk[d], alive[d])
    BY <1>6, RegistryAssumption DEF Walkers, IndexInv
  <2> QED BY <1>4, <1>5, <2>1 DEF WalksSeeRooms
<1> QED BY <1>7, <1>8, <1>9, <1>10 DEF IndexInv

(* A room that was found is ticked, and renewed if its countdown runs. *)
LEMMA TickRoomKeepsIndex ==
  ASSUME Ttl > 1, IndexInv, NEW r \in Rooms, TickRoom(r)
  PROVE  IndexInv'
<1>1. /\ WalkFields /\ Scheduler \in Walkers /\ RunningAreTended
      /\ {"state", "meta"} \subseteq Keys
  BY DEF IndexInv, Walkers, Keys
<1> DEFINE w == walk[Scheduler]
           v == [w EXCEPT !.live = @ \ {r}]
<1>2. w \in Walk
  BY <1>1 DEF WalkFields
<1>3. walk' = [walk EXCEPT ![Scheduler] = v]
  BY DEF TickRoom
<1>4. w.pc = "done" /\ UNCHANGED <<index, due, alive>>
  BY DEF TickRoom
<1>5. \/ left' = Refreshed(r) /\ running' \subseteq running
      \/ left' = left /\ running' = running /\ r \notin running
  BY <1>1, TendedExist DEF TickRoom, RunningRoomLives
<1> HIDE DEF w
<1>6. /\ v \in Walk /\ v.pc = w.pc /\ v.todo = w.todo /\ v.at = w.at
      /\ v.stateSeen = w.stateSeen /\ v.live = w.live \ {r}
  BY <1>2 DEF Walk
<1> HIDE DEF v
<1>7. \A p \in Walkers : walk'[p] = IF p = Scheduler THEN v ELSE walk[p]
  BY <1>1, <1>3 DEF WalkFields
<1>8. /\ left' \in [Rooms -> [Keys -> 0..Ttl]]
      /\ \A s \in Rooms : Exists(s)' <=> Exists(s)
      /\ \A s \in Rooms, k \in Keys : s # r => left'[s][k] = left[s][k]
  <2>1. CASE left' = Refreshed(r)
    BY <1>1, <2>1, RefreshIs
  <2>2. CASE left' = left
    BY <1>1, <2>2 DEF WalkFields, Exists, HasState, HasMetadata
  <2> QED BY <1>5, <2>1, <2>2
<1>9. running' \subseteq running /\ running' \subseteq Rooms
  BY <1>1, <1>5 DEF WalkFields
<1>10. WalkFields'
  <2>1. walk' \in [Walkers -> Walk]
    BY <1>1, <1>3, <1>6 DEF WalkFields
  <2>2. \A p \in Walkers : /\ walk'[p].pc \in {"state", "done"} => walk'[p].at = {}
                           /\ walk'[p].pc = "done" => walk'[p].todo = {}
    BY <1>1, <1>6, <1>7 DEF WalkFields, w
  <2> QED BY <1>1, <1>4, <1>8, <1>9, <2>1, <2>2 DEF WalkFields
<1>11. LiveRoomsAreListed'
  BY <1>4, <1>8 DEF IndexInv, LiveRoomsAreListed
<1>12. RunningAreTended'
  <2>1. due /\ w.pc # "idle"
    BY <1>1, <1>4 DEF RunningAreTended, w
  <2>2. ASSUME NEW s \in running', NEW k \in {"state", "meta"}, s = r
        PROVE  left'[s][k] = Ttl
    <3>1. left[r][k] > 0
      BY <1>1, <1>9, <2>2, TendedExist DEF RunningRoomLives, Exists, HasState, HasMetadata
    <3> QED BY <1>1, <1>5, <1>9, <2>2, <3>1, RefreshIs
  <2>3. ASSUME NEW s \in running', NEW k \in {"state", "meta"}, s # r
        PROVE  left'[s][k] = Ttl \/ (left'[s][k] = Ttl - 1 /\ Ticks(v, s))
    <3>1. left'[s][k] = left[s][k] /\ s \in running /\ s \in Rooms
      BY <1>1, <1>8, <1>9, <2>3
    <3>2. left[s][k] = Ttl \/ (left[s][k] = Ttl - 1 /\ Ticks(w, s))
      BY <1>1, <2>1, <3>1 DEF RunningAreTended, w
    <3>3. Ticks(w, s) => Ticks(v, s)
      BY <1>6, <2>3 DEF Ticks
    <3> QED BY <3>1, <3>2, <3>3
  <2> QED BY <1>1, <1>4, <1>7, <2>1, <2>2, <2>3 DEF RunningAreTended
<1>13. ASSUME NEW d \in Requests PROVE WalksSeeRooms(walk[d], alive[d])'
  <2>1. walk'[d] = walk[d] /\ WalksSeeRooms(walk[d], alive[d])
    BY <1>7, RegistryAssumption DEF Walkers, IndexInv
  <2> QED BY <1>4, <1>8, <2>1 DEF WalksSeeRooms
<1> QED BY <1>10, <1>11, <1>12, <1>13 DEF IndexInv

(* A round ends when nothing is left to tick: every running room was renewed. *)
LEMMA EndRoundKeepsIndex ==
  ASSUME IndexInv, EndRound
  PROVE  IndexInv'
<1>1. WalkFields /\ Scheduler \in Walkers /\ RunningAreTended
  BY DEF IndexInv, Walkers
<1>2. /\ walk' = [walk EXCEPT ![Scheduler] = NoWalk] /\ due' = FALSE
      /\ walk[Scheduler].pc = "done" /\ walk[Scheduler].live = {}
      /\ UNCHANGED <<index, left, running, alive>>
  BY DEF EndRound, StoreVars
<1>3. NoWalk \in Walk /\ NoWalk.pc = "idle" /\ NoWalk.at = {}
  BY DEF NoWalk, Walk
<1>4. \A p \in Walkers : walk'[p] = IF p = Scheduler THEN NoWalk ELSE walk[p]
  BY <1>1, <1>2 DEF WalkFields
<1>5. \A r \in Rooms : Exists(r)' <=> Exists(r)
  BY <1>2 DEF Exists, HasState, HasMetadata
<1>6. WalkFields'
  BY <1>1, <1>2, <1>3, <1>4 DEF WalkFields
<1>7. LiveRoomsAreListed'
  BY <1>2, <1>5 DEF IndexInv, LiveRoomsAreListed
<1>8. RunningAreTended'
  <2>1. \A r \in running : ~Ticks(walk[Scheduler], r)
    BY <1>1, <1>2 DEF WalkFields, Ticks
  <2> QED BY <1>1, <1>2, <1>3, <1>4, <2>1 DEF RunningAreTended
<1>9. ASSUME NEW d \in Requests PROVE WalksSeeRooms(walk[d], alive[d])'
  <2>1. walk'[d] = walk[d] /\ WalksSeeRooms(walk[d], alive[d])
    BY <1>4, RegistryAssumption DEF Walkers, IndexInv
  <2> QED BY <1>2, <1>5, <2>1 DEF WalksSeeRooms
<1> QED BY <1>6, <1>7, <1>8, <1>9 DEF IndexInv

(* Time passes when the round of its period is over. *)
LEMMA TimeKeepsIndex ==
  ASSUME IndexInv, TimePasses
  PROVE  IndexInv'
<1>1. /\ WalkFields /\ RunningAreTended /\ {"state", "meta"} \subseteq Keys
      /\ Ttl \in Nat \ {0}
  BY RegistryAssumption DEF IndexInv, Keys
<1>2. /\ left' = [r \in Rooms |-> [k \in Keys |->
                    IF left[r][k] > 0 THEN left[r][k] - 1 ELSE 0]]
      /\ ~due /\ due' = TRUE /\ UNCHANGED <<index, walk, running, alive>>
  BY DEF TimePasses
<1>3. \A r \in Rooms, k \in Keys :
        left'[r][k] = IF left[r][k] > 0 THEN left[r][k] - 1 ELSE 0
  BY <1>2
<1>4. \A r \in Rooms, k \in Keys : left[r][k] \in 0..Ttl
  BY <1>1 DEF WalkFields
<1>5. left' \in [Rooms -> [Keys -> 0..Ttl]]
  <2>1. \A r \in Rooms : [k \in Keys |-> IF left[r][k] > 0 THEN left[r][k] - 1 ELSE 0]
                           \in [Keys -> 0..Ttl]
    BY <1>1, <1>4
  <2> QED BY <1>2, <2>1
<1>6. \A r \in Rooms : Exists(r)' => Exists(r)
  BY <1>1, <1>3, <1>4 DEF Exists, HasState, HasMetadata
<1>7. WalkFields'
  BY <1>1, <1>2, <1>5 DEF WalkFields
<1>8. LiveRoomsAreListed'
  BY <1>2, <1>6 DEF IndexInv, LiveRoomsAreListed
<1>9. RunningAreTended'
  <2>1. walk[Scheduler].pc = "idle"
    BY <1>1, <1>2 DEF RunningAreTended
  <2>2. ASSUME NEW r \in running, NEW k \in {"state", "meta"}
        PROVE  left'[r][k] = Ttl - 1
    <3>1. left[r][k] = Ttl /\ r \in Rooms /\ k \in Keys
      BY <1>1, <1>2 DEF RunningAreTended, WalkFields
    <3> QED BY <1>1, <1>3, <3>1
  <2> QED BY <1>2, <2>1, <2>2 DEF RunningAreTended
<1>10. \A c \in Requests : WalksSeeRooms(walk[c], alive[c])'
  BY <1>2, <1>6 DEF IndexInv, WalksSeeRooms
<1> QED BY <1>7, <1>8, <1>9, <1>10 DEF IndexInv

(* One step. *)
LEMMA IndexNext ==
  ASSUME Ttl > 1, KeysAgree, IndexInv, [Next]_vars
  PROVE  IndexInv'
<1>1. CASE UNCHANGED vars
  BY <1>1, NothingRenewed DEF vars
<1>2. ASSUME NEW c \in Requests, Begin(c) PROVE IndexInv'
  BY <1>2, NothingRenewed DEF Begin, StoreVars
<1>3. ASSUME NEW c \in Requests, Abort(c) PROVE IndexInv'
  <2>1. \A r \in Rooms : Exists(r) => r \in index
    BY DEF IndexInv, LiveRoomsAreListed
  <2> QED BY <1>3, <2>1, WalkEnds DEF Abort, StoreVars
<1>4. ASSUME NEW c \in Requests, RequestStep(c) PROVE IndexInv'
  <2>1. CASE StartCount(c)
    BY <2>1, StartCountKeepsIndex
  <2>2. CASE WalkStep(c)
    BY <2>2, WalksKeepIndex DEF Walkers
  <2>3. ASSUME NEW r \in Rooms, GetMetadata(c, r) \/ HasRoom(c, r) PROVE IndexInv'
    BY <2>3, NothingRenewed DEF GetMetadata, HasRoom, StoreVars
  <2>4. ASSUME NEW r \in Rooms, Create(c, r) PROVE IndexInv'
    BY <2>4, CreateKeepsIndex
  <2>5. ASSUME NEW r \in Rooms, Issue(c, r) \/ Authorize(c, r) PROVE IndexInv'
    BY <2>5, RenewalsKeep
  <2> QED BY <1>4, <2>1, <2>2, <2>3, <2>4, <2>5 DEF RequestStep
<1>5. CASE SchedulerStep
  <2>1. CASE WalkStep(Scheduler)
    BY <2>1, WalksKeepIndex DEF Walkers
  <2>2. ASSUME NEW r \in Rooms, TickRoom(r) PROVE IndexInv'
    BY <2>2, TickRoomKeepsIndex
  <2> QED BY <1>5, <2>1, <2>2, StartRoundKeepsIndex, EndRoundKeepsIndex DEF SchedulerStep
<1>6. ASSUME NEW r \in Rooms, Mutate(r) PROVE IndexInv'
  BY <1>6, RenewalsKeep
<1>7. CASE TimePasses
  BY <1>7, TimeKeepsIndex
<1> QED BY <1>1, <1>2, <1>3, <1>4, <1>5, <1>6, <1>7 DEF Next

(* Initially there is no room. *)
LEMMA IndexInit == Init => IndexInv
<1> SUFFICES ASSUME Init PROVE IndexInv
  OBVIOUS
<1>1. NoWalk \in Walk /\ NoWalk.pc = "idle"
  BY DEF NoWalk, Walk
<1>2. /\ walk \in [Walkers -> Walk] /\ \A p \in Walkers : walk[p].pc = "idle"
      /\ Scheduler \in Walkers /\ Requests \subseteq Walkers
  BY <1>1 DEF Init, Walkers
<1>3. /\ left \in [Rooms -> [Keys -> 0..Ttl]]
      /\ \A r \in Rooms : ~Exists(r)
  <2>1. "state" \in Keys /\ Ttl \in Nat
    BY RegistryAssumption DEF Keys
  <2> QED BY <2>1 DEF Init, Exists, HasState
<1>4. WalkFields
  BY <1>2, <1>3, FS_EmptySet DEF Init, WalkFields
<1>5. LiveRoomsAreListed /\ RunningAreTended
  BY <1>2, <1>3 DEF Init, LiveRoomsAreListed, RunningAreTended
<1>6. \A c \in Requests : WalksSeeRooms(walk[c], alive[c])
  BY <1>2, FS_EmptySet DEF Init, WalksSeeRooms
<1> QED BY <1>4, <1>5, <1>6 DEF IndexInv

(* For any rooms, requests and caps, and any time to live beyond one period:
   the index lists every room that exists, a running room does not expire
   although nobody may be connected, and a creation that is refused saw the
   registry full. *)
THEOREM IndexIsKept == ASSUME Ttl > 1 PROVE Spec => []IndexFollowsRooms
<1> DEFINE I == PinInv /\ KeysAgree /\ IndexInv
<1>1. Init => I
  <2>1. Init => KeysAgree
    <3>1. [k \in Keys |-> 0] \in [Keys -> Nat] /\ "state" \in Keys /\ "meta" \in Keys
      BY DEF Keys
    <3> QED BY <3>1 DEF Init, KeysAgree
  <2> QED BY <2>1, PinInit, IndexInit
<1>2. I /\ [Next]_vars => I'
  BY PinNext, KeysNext, IndexNext
<1>3. I => IndexFollowsRooms
  BY IndexInvSuffices
<1> HIDE DEF I
<1> QED BY <1>1, <1>2, <1>3, PTL DEF Spec

-----------------------------------------------------------------------------
(***************************************************************************)
(* The PIN limiter: the type of its keys and the bound on wrong guesses, for *)
(* any number of concurrent requests, any limits and any number of deaths. *)
(***************************************************************************)

\* A request that is to start the window is the only one: it counted 1, and
\* until it does the count has no time to live.
OneStarter ==
  /\ \A c \in Guessers : pc[c] = "expire" => window = Forever
  /\ \A c, d \in Guessers : pc[c] = "expire" /\ pc[d] = "expire" => c = d

TypeInv == LimiterTypeOK /\ OneStarter

(* No key, and no request on its way. *)
LEMMA TypeInit == LimiterInit => TypeInv
<1> SUFFICES ASSUME LimiterInit PROVE TypeInv
  OBVIOUS
<1>1. orphaned \in BOOLEAN
  BY DEF LimiterInit
<1>2. QED
  BY <1>1, LimiterAssumption DEF LimiterInit, TypeInv, LimiterTypeOK, OneStarter, States, Forever

(* Every Redis call of the limiter keeps the types of the keys, and that one
   request at most is to start the window (room_store.py:699-719). *)
LEMMA TypeNext == TypeInv /\ [LimiterNext]_limiterVars => TypeInv'
<1> SUFFICES ASSUME TypeInv, [LimiterNext]_limiterVars
             PROVE  TypeInv'
  OBVIOUS
<1> USE LimiterAssumption DEF TypeInv, LimiterTypeOK, OneStarter, States, Forever
<1>1. ASSUME NEW c \in Guessers, Check(c) \/ Accept(c)
      PROVE  TypeInv'
  BY <1>1 DEF Check, Accept
<1>2. ASSUME NEW c \in Guessers, Fail(c)
      PROVE  TypeInv'
  BY <1>2 DEF Fail, StartsWindow, AfterCount
<1>3. ASSUME NEW c \in Guessers, Expire(c)
      PROVE  TypeInv'
  BY <1>3 DEF Expire, AfterCount
<1>4. ASSUME NEW c \in Guessers, Block(c)
      PROVE  TypeInv'
  BY <1>4 DEF Block
<1>5. CASE PeriodPasses
  BY <1>5 DEF PeriodPasses, Less
<1>6. CASE UNCHANGED limiterVars
  BY <1>6 DEF limiterVars
<1>7. ASSUME NEW c \in Guessers, Die(c)
      PROVE  TypeInv'
  <2>1. orphaned' \in BOOLEAN
    BY <1>7, Zenon DEF Die
  <2>2. /\ pc' = [pc EXCEPT ![c] = "idle"] /\ faults' = faults + 1
        /\ UNCHANGED <<count, window, block, quiet, guesses>>
    BY <1>7 DEF Die
  <2>3. QED
    BY <2>1, <2>2
<1> QED
  BY <1>1, <1>2, <1>3, <1>4, <1>5, <1>6, <1>7 DEF LimiterNext

(* The keys of one client keep their types; in particular the count is there *)
(* exactly as long as its key lives (room_store.py:709-719).                 *)
THEOREM TypeCorrect == LimiterSpec => []LimiterTypeOK
<1>1. TypeInv => LimiterTypeOK
  BY DEF TypeInv
<1> QED
  BY <1>1, TypeInit, TypeNext, PTL DEF LimiterSpec

-----------------------------------------------------------------------------
\* Guessers that have counted too many and have yet to set the block.
Blocking ==
  {c \in Guessers : pc[c] = "block" \/ (pc[c] = "expire" /\ TooMany(1))}

\* Each guess below the limit is counted; each one above it has its request
\* on the way to the block, or dead.
GuessInv ==
  /\ TypeInv
  /\ guesses <= count
  /\ guesses <= MaxAttempts - 1 + Cardinality(Blocking) + faults

(* The requests on their way to a block can be counted. *)
LEMMA BlockingFinite ==
  IsFiniteSet(Blocking) /\ Cardinality(Blocking) \in Nat
<1>1. Blocking \in SUBSET Guessers
  BY DEF Blocking
<1> QED
  BY <1>1, LimiterAssumption, FS_Subset, FS_CardinalityType

(* And so they can after a step. *)
LEMMA BlockingFinitePrimed ==
  IsFiniteSet(Blocking') /\ Cardinality(Blocking') \in Nat
<1>1. Blocking' \in SUBSET Guessers
  BY DEF Blocking
<1> QED
  BY <1>1, LimiterAssumption, FS_Subset, FS_CardinalityType

(* Nothing has been guessed. *)
LEMMA GuessInit == LimiterInit => GuessInv
<1> SUFFICES ASSUME LimiterInit PROVE GuessInv
  OBVIOUS
<1>1. TypeInv
  BY TypeInit
<1> QED
  BY <1>1, BlockingFinite, LimiterAssumption DEF LimiterInit, GuessInv

(* A guess that is counted, refused, blocked or lost with its request keeps
   the bound (room_store.py:699-719). *)
LEMMA GuessNext == GuessInv /\ [LimiterNext]_limiterVars => GuessInv'
<1> SUFFICES ASSUME GuessInv, [LimiterNext]_limiterVars
             PROVE  GuessInv'
  OBVIOUS
<1>1. TypeInv /\ TypeInv'
  BY TypeNext DEF GuessInv
<1>2. /\ count \in Nat /\ guesses \in Nat /\ faults \in Nat
      /\ count' \in Nat /\ guesses' \in Nat /\ faults' \in Nat
      /\ pc \in [Guessers -> States]
      /\ Cardinality(Blocking) \in Nat /\ Cardinality(Blocking') \in Nat
      /\ IsFiniteSet(Blocking) /\ IsFiniteSet(Blocking')
      /\ MaxAttempts \in Nat \ {0}
  BY <1>1, BlockingFinite, BlockingFinitePrimed, LimiterAssumption DEF TypeInv, LimiterTypeOK
<1>3. ASSUME NEW c \in Guessers, Check(c) \/ Accept(c)
      PROVE  GuessInv'
  <2>1. Blocking' = Blocking
    BY <1>2, <1>3 DEF Blocking, Check, Accept
  <2> QED
    BY <2>1, <1>1, <1>2, <1>3 DEF GuessInv, Check, Accept
<1>4. ASSUME NEW c \in Guessers, Fail(c)
      PROVE  GuessInv'
  <2>1. /\ pc[c] = "verify" /\ count' = count + 1 /\ guesses' = guesses + 1
        /\ faults' = faults
    BY <1>4 DEF Fail
  <2>2. guesses' <= count'
    BY <2>1, <1>2 DEF GuessInv
  <2>3. CASE TooMany(count')
    <3>1. pc' = [pc EXCEPT ![c] = IF count' = 1 THEN "expire" ELSE "block"]
      BY <1>4, <2>3, <2>1 DEF Fail, StartsWindow, AfterCount
    <3>2. Blocking' = Blocking \cup {c} /\ c \notin Blocking
      BY <3>1, <2>1, <2>3, <1>2 DEF Blocking
    <3>3. Cardinality(Blocking') = Cardinality(Blocking) + 1
      BY <3>2, <1>2, FS_AddElement
    <3> QED
      BY <3>3, <2>1, <2>2, <1>1, <1>2 DEF GuessInv
  <2>4. CASE ~TooMany(count')
    <3>1. count' <= MaxAttempts - 1
      BY <2>4, <1>2 DEF TooMany
    <3> QED
      BY <3>1, <2>1, <2>2, <1>1, <1>2 DEF GuessInv
  <2> QED
    BY <2>3, <2>4
<1>5. ASSUME NEW c \in Guessers, Expire(c)
      PROVE  GuessInv'
  <2>1. Blocking' = Blocking
    BY <1>2, <1>5 DEF Blocking, Expire, AfterCount
  <2> QED
    BY <2>1, <1>1, <1>2, <1>5 DEF GuessInv, Expire
<1>6. ASSUME NEW c \in Guessers, Block(c)
      PROVE  GuessInv'
  BY <1>1, <1>2, <1>6 DEF GuessInv, Block
<1>7. ASSUME NEW c \in Guessers, Die(c)
      PROVE  GuessInv'
  <2>1. Blocking' = Blocking \ {c}
    BY <1>2, <1>7 DEF Blocking, Die
  <2>2. Cardinality(Blocking) <= Cardinality(Blocking') + 1
    BY <2>1, <1>2, FS_RemoveElement
  <2> QED
    BY <2>2, <1>1, <1>2, <1>7 DEF GuessInv, Die
<1>8. CASE PeriodPasses
  <2>1. Blocking' = Blocking
    BY <1>8 DEF Blocking, PeriodPasses
  <2> QED
    BY <2>1, <1>1, <1>2, <1>8 DEF GuessInv, PeriodPasses
<1>9. CASE UNCHANGED limiterVars
  <2>1. Blocking' = Blocking
    BY <1>9 DEF Blocking, limiterVars
  <2> QED
    BY <2>1, <1>1, <1>2, <1>9 DEF GuessInv, limiterVars
<1> QED
  BY <1>3, <1>4, <1>5, <1>6, <1>7, <1>8, <1>9 DEF LimiterNext

(* Concurrency buys a client at most one wrong guess for each request that   *)
(* is under way, whatever the limits (room_store.py:712-718).                *)
THEOREM GuessesBounded == LimiterSpec => []GuessesAreBounded
<1>1. GuessInv => GuessesAreBounded
  <2> SUFFICES ASSUME GuessInv PROVE GuessesAreBounded
    OBVIOUS
  <2>1. Cardinality(Blocking) <= Cardinality(Guessers)
    <3>1. Blocking \in SUBSET Guessers
      BY DEF Blocking
    <3> QED
      BY <3>1, LimiterAssumption, FS_Subset
  <2>2. Cardinality(Blocking) \in Nat /\ Cardinality(Guessers) \in Nat
    BY BlockingFinite, LimiterAssumption, FS_CardinalityType
  <2> QED
    BY <2>1, <2>2, LimiterAssumption DEF GuessInv, TypeInv, LimiterTypeOK, GuessesAreBounded
<1> QED
  BY <1>1, GuessInit, GuessNext, PTL DEF LimiterSpec

-----------------------------------------------------------------------------
\* A key with a time to live was set, or set again, no longer ago than the
\* last call; a count without one has its request on the way to EXPIRE, or
\* dead, and if it is dead nobody is on that way ever after.
KeysAge ==
  /\ TypeInv
  /\ block = 0 \/ block + quiet <= BlockPeriods
  /\ window \in 1..Window => window + quiet <= Window
  /\ window = Forever /\ ~orphaned => \E c \in Guessers : pc[c] = "expire"
  /\ orphaned => window = Forever /\ \A c \in Guessers : pc[c] # "expire"

(* Each call sets a time to live anew, and each period takes one off. *)
LEMMA KeysAgeNext == KeysAge /\ [LimiterNext]_limiterVars => KeysAge'
<1> SUFFICES ASSUME KeysAge, [LimiterNext]_limiterVars
             PROVE  KeysAge'
  OBVIOUS
<1>1. TypeInv /\ TypeInv'
  BY TypeNext DEF KeysAge
<1>2. /\ count \in Nat /\ window \in 0..Forever /\ block \in 0..BlockPeriods
      /\ pc \in [Guessers -> States] /\ quiet \in 0..BlockPeriods
      /\ orphaned \in BOOLEAN /\ orphaned' \in BOOLEAN
      /\ count = 0 <=> window = 0
      /\ \A c \in Guessers : pc[c] = "expire" => window = Forever
      /\ \A c, d \in Guessers : pc[c] = "expire" /\ pc[d] = "expire" => c = d
  BY <1>1 DEF TypeInv, LimiterTypeOK, OneStarter
<1>3. /\ Window \in Nat \ {0} /\ BlockPeriods \in Nat \ {0} /\ Window <= BlockPeriods
      /\ Forever = Window + 1
  BY LimiterAssumption DEF Forever
<1>4. ASSUME NEW c \in Guessers, Check(c) \/ Accept(c)
      PROVE  KeysAge'
  BY <1>1, <1>2, <1>4 DEF KeysAge, Check, Accept, Forever
<1>5. ASSUME NEW c \in Guessers, Fail(c)
      PROVE  KeysAge'
  <2>1. /\ pc[c] = "verify" /\ quiet' = 0 /\ UNCHANGED <<block, orphaned>>
        /\ window' = IF count = 0 THEN Forever ELSE window
        /\ pc' = [pc EXCEPT ![c] = IF count + 1 = 1 THEN "expire" ELSE AfterCount(count + 1)]
    BY <1>5 DEF Fail, StartsWindow
  <2>2. count = 0 => pc'[c] = "expire"
    BY <1>2, <2>1
  <2>3. \A d \in Guessers : d # c => pc'[d] = pc[d]
    BY <1>2, <2>1
  <2>4. window' = Forever /\ ~orphaned' => \E d \in Guessers : pc'[d] = "expire"
    BY <1>2, <2>1, <2>2, <2>3 DEF KeysAge
  <2>5. orphaned' => window' = Forever /\ \A d \in Guessers : pc'[d] # "expire"
    <3>1. ASSUME orphaned PROVE count \in Nat \ {0} /\ window = Forever
      BY <1>2, <1>3, <3>1 DEF KeysAge
    <3>2. ASSUME orphaned PROVE pc'[c] # "expire"
      BY <1>2, <2>1, <3>1, <3>2 DEF AfterCount
    <3>3. QED
      BY <2>1, <2>3, <3>1, <3>2 DEF KeysAge
  <2> QED
    BY <1>1, <1>2, <1>3, <2>1, <2>4, <2>5 DEF KeysAge, Forever
<1>6. ASSUME NEW c \in Guessers, Expire(c)
      PROVE  KeysAge'
  BY <1>1, <1>2, <1>3, <1>6 DEF KeysAge, Expire, Forever
<1>7. ASSUME NEW c \in Guessers, Block(c)
      PROVE  KeysAge'
  BY <1>1, <1>2, <1>3, <1>7 DEF KeysAge, Block, Forever
<1>8. ASSUME NEW c \in Guessers, Die(c)
      PROVE  KeysAge'
  <2>1. /\ pc' = [pc EXCEPT ![c] = "idle"]
        /\ UNCHANGED <<count, window, block, quiet, guesses>>
        /\ orphaned' = (orphaned \/ pc[c] = "expire")
    BY <1>8 DEF Die
  <2>2. ASSUME window = Forever, ~orphaned, pc[c] # "expire"
        PROVE  \E d \in Guessers : pc'[d] = "expire"
    BY <1>2, <2>1, <2>2 DEF KeysAge
  <2>3. \A d \in Guessers : pc'[d] = "expire" => d # c /\ pc[d] = "expire"
    BY <1>2, <2>1
  <2>4. ASSUME orphaned'
        PROVE  window = Forever /\ \A d \in Guessers : pc'[d] # "expire"
    BY <1>2, <2>1, <2>3, <2>4 DEF KeysAge
  <2>5. window' = Forever /\ ~orphaned' => \E d \in Guessers : pc'[d] = "expire"
    BY <2>1, <2>2
  <2>6. QED
    BY <1>1, <2>1, <2>4, <2>5 DEF KeysAge, Forever
<1>9. CASE PeriodPasses
  BY <1>1, <1>2, <1>3, <1>9 DEF KeysAge, PeriodPasses, Less, Forever
<1>10. CASE UNCHANGED limiterVars
  BY <1>1, <1>10 DEF KeysAge, limiterVars, Forever
<1> QED
  BY <1>4, <1>5, <1>6, <1>7, <1>8, <1>9, <1>10 DEF LimiterNext

(* Whatever requests interleave and wherever they die, no block outlives its *)
(* time, and the one count that does is one whose request died between INCR  *)
(* and EXPIRE: that one stays (room_store.py:709-719).                       *)
THEOREM QuietIsForgiven == LimiterSpec => []QuietStartsAfresh
<1>1. LimiterInit => KeysAge
  <2> SUFFICES ASSUME LimiterInit PROVE KeysAge
    OBVIOUS
  <2>1. TypeInv /\ window = 0 /\ block = 0 /\ ~orphaned
    BY TypeInit DEF LimiterInit
  <2> QED
    BY <2>1, LimiterAssumption DEF KeysAge, Forever
<1>2. KeysAge => QuietStartsAfresh
  <2> SUFFICES ASSUME KeysAge, Settled
               PROVE  /\ quiet >= BlockPeriods => block = 0
                      /\ quiet >= Window /\ ~orphaned => count = 0
                      /\ orphaned => count > 0 /\ window = Forever
    BY DEF QuietStartsAfresh
  <2>1. /\ quiet \in 0..BlockPeriods /\ block \in 0..BlockPeriods
        /\ window \in 0..Forever /\ count \in Nat /\ (count = 0 <=> window = 0)
        /\ Window \in Nat \ {0} /\ BlockPeriods \in Nat /\ Forever = Window + 1
    BY LimiterAssumption DEF KeysAge, TypeInv, LimiterTypeOK, Forever
  <2>2. quiet >= BlockPeriods => block = 0
    BY <2>1 DEF KeysAge
  <2>3. ASSUME quiet >= Window, ~orphaned PROVE count = 0
    <3>1. window # Forever
      BY <2>3 DEF KeysAge, Settled
    <3>2. QED
      BY <2>1, <2>3, <3>1 DEF KeysAge
  <2>4. ASSUME orphaned PROVE window = Forever /\ count > 0
    <3>1. window = Forever
      BY <2>4 DEF KeysAge
    <3>2. QED
      BY <2>1, <3>1
  <2> QED
    BY <2>2, <2>3, <2>4
<1> QED
  BY <1>1, <1>2, KeysAgeNext, PTL DEF LimiterSpec
=============================================================================
