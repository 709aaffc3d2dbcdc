----------------------------- MODULE RoomClient ------------------------------
(***************************************************************************)
(* One browser tab in a room: its socket, its token, the reconnections,    *)
(* the snapshots it accepts and the rewards it reveals, against a server   *)
(* that commits, forgets and recreates the room.                           *)
(*                                                                         *)
(*   frontend/src/room-websocket.js   the socket and its reconnection      *)
(*   frontend/src/room-auth.js        the PIN prompt                       *)
(*   frontend/app.js                  applyState                           *)
(*   frontend/src/rest-ritual.js      the reward tracker                   *)
(*                                                                         *)
(* A step of the page is one task of the browser's event loop.  Of a       *)
(* document there is what the page decides by.  Of the server there is     *)
(* what module Sockets shows of it: a socket is written documents of its   *)
(* own generation with increasing revisions, and the first of them may be  *)
(* an older one that a worker had read before the socket came.             *)
(***************************************************************************)
EXTENDS Integers, FiniteSets, Sequences

CONSTANTS
  SocketIds,      \* WebSocket objects; one is used again after it has closed
  MaxInFlight,    \* bound: documents between the server and the page
  MaxRevision,    \* bound: revisions of a generation
  MaxInstances,   \* bound: generations
  MaxFaults       \* bound: lost connections, failed joins and page reloads

ASSUME ClientAssumption ==
  /\ SocketIds # {}
  /\ MaxInFlight \in Nat \ {0}
  /\ MaxRevision \in Nat
  /\ MaxInstances \in Nat \ {0}
  /\ MaxFaults \in Nat

VARIABLES
  room,       \* the canonical document and its generation
  late,       \* documents of that generation that a worker has yet to write
  socket,     \* the WebSocket objects, with what is on its way to them
  ws,         \* the one that the page listens to
  retry,      \* the reconnect timer is set
  token,      \* generation whose token is stored, NoToken when there is none
  prompt,     \* the PIN prompt is shown
  join,       \* the request of joinRoomWithPin
  accepted,   \* acceptedRevision
  shown,      \* currentState, and the generation it is of
  baseline,   \* observedRewardId
  faults,
  revealed,   \* history: rewards revealed in this tab
  replayed,   \* history: rewards revealed again
  missed      \* history: revealed rewards that a connection's first document
              \* did not have yet

serverVars == <<room, late>>
socketVars == <<socket, ws, retry, token, prompt, join>>
pageVars == <<accepted, shown, baseline, revealed, replayed, missed>>
vars == <<serverVars, socketVars, pageVars, faults>>

NoRevision == -1
NoReward == -1
NoToken == 0

\* The request of the prompt; the generation of the token, once granted.
NotJoining == -1
JoinSent == 0

MakeState == [revision |-> 0, break |-> FALSE, reward_id |-> 0]
NoState == [instance |-> 0, state |-> MakeState]

\* What reaches the page: a document, or the close of the socket.
Document(state) == [kind |-> "state", state |-> state]
AuthClose == [kind |-> "auth"]       \* code 1008
OtherClose == [kind |-> "other"]     \* any other code, and a lost connection
IsDocument(message) == message.kind = "state"

-----------------------------------------------------------------------------
(***************************************************************************)
(* The server.                                                             *)
(***************************************************************************)
\* A focus completes, which starts a break that a long gap also ends; or a
\* break ends; or something the page does not decide by changes.
Commit ==
  /\ room.state.revision < MaxRevision
  /\ \E state \in [revision : {room.state.revision + 1}, break : BOOLEAN,
                   reward_id : {room.state.reward_id, room.state.reward_id + 1}] :
       /\ state.reward_id = room.state.reward_id => state.break \in {FALSE, room.state.break}
       /\ room' = [room EXCEPT !.state = state]
  /\ UNCHANGED <<late, socketVars, pageVars, faults>>

\* The room expires and is created again; older tokens are worthless.
Recreate ==
  /\ room.instance < MaxInstances
  /\ room' = [instance |-> room.instance + 1, state |-> MakeState]
  /\ late' = {}
  /\ UNCHANGED <<socketVars, pageVars, faults>>

\* A worker reads the document of an event, and writes it later.
ReadEarly ==
  /\ late = {}
  /\ late' = {room.state}
  /\ UNCHANGED <<room, socketVars, pageVars, faults>>

Closed == [live |-> FALSE, bound |-> NoToken, mark |-> NoRevision,
           inbox |-> <<>>, first |-> FALSE]

Opened(stored) == [Closed EXCEPT !.live = TRUE, !.bound = stored, !.first = TRUE]

Open(i) ==
  /\ socket[i].live
  /\ \A n \in DOMAIN socket[i].inbox : IsDocument(socket[i].inbox[n])

Write(i, state) ==
  /\ Open(i)
  /\ Len(socket[i].inbox) < MaxInFlight
  /\ socket[i].bound = room.instance
  /\ state.revision > socket[i].mark
  /\ socket' = [socket EXCEPT ![i].mark = state.revision,
                              ![i].inbox = Append(@, Document(state))]
  /\ UNCHANGED <<room, ws, retry, token, prompt, join, pageVars, faults>>

WriteCurrent(i) == Write(i, room.state) /\ UNCHANGED late

WriteLate(i) == \E state \in late : Write(i, state) /\ late' = {}

\* Authorization fails, or a sweep finds the socket in an older generation.
Reject(i) ==
  /\ Open(i)
  /\ socket[i].bound # room.instance
  /\ socket' = [socket EXCEPT ![i].inbox = Append(@, AuthClose)]
  /\ UNCHANGED <<serverVars, ws, retry, token, prompt, join, pageVars, faults>>

\* The connection breaks or is closed with 1011, and what was on its way is
\* lost from some point on.
Lose(i) ==
  /\ Open(i)
  /\ faults < MaxFaults
  /\ faults' = faults + 1
  /\ \E n \in 0..Len(socket[i].inbox) :
       socket' = [socket EXCEPT ![i].inbox = Append(SubSeq(@, 1, n), OtherClose)]
  /\ UNCHANGED <<serverVars, ws, retry, token, prompt, join, pageVars>>

-----------------------------------------------------------------------------
(***************************************************************************)
(* The socket of the page.                                                 *)
(***************************************************************************)
\* connect with the stored token, beside the sockets `others'.
Connect(others, stored) ==
  \/ /\ stored = NoToken
     /\ prompt' = TRUE
     /\ socket' = others
     /\ UNCHANGED ws
  \/ /\ stored # NoToken
     /\ prompt' = FALSE
     /\ \E i \in SocketIds : ~others[i].live
     /\ ws' = CHOOSE i \in SocketIds : ~others[i].live
     /\ socket' = [others EXCEPT ![ws'] = Opened(stored)]

\* The reconnect timer fires.
Reconnect ==
  /\ retry
  /\ retry' = FALSE
  /\ Connect(socket, token)
  /\ UNCHANGED <<serverVars, token, join, pageVars, faults>>

\* Faulty variant of AfterClose: the timer is set before the code is read.
AlwaysRetry(message) ==
  IF message = AuthClose
  THEN token' = NoToken /\ prompt' = TRUE /\ retry' = TRUE
  ELSE retry' = TRUE /\ UNCHANGED <<token, prompt>>

\* onclose.  Showing the prompt clears the timer.
AfterClose(message) ==
  IF message = AuthClose
  THEN token' = NoToken /\ prompt' = TRUE /\ retry' = FALSE
  ELSE retry' = TRUE /\ UNCHANGED <<token, prompt>>

HandleClose(i) ==
  /\ socket[i].inbox # <<>>
  /\ ~IsDocument(Head(socket[i].inbox))
  /\ socket' = [socket EXCEPT ![i] = Closed]
  /\ IF i = ws THEN AfterClose(Head(socket[i].inbox))
               ELSE UNCHANGED <<token, prompt, retry>>
  /\ UNCHANGED <<serverVars, ws, join, pageVars, faults>>

-----------------------------------------------------------------------------
(***************************************************************************)
(* The PIN prompt.                                                         *)
(***************************************************************************)
SubmitPin ==
  /\ prompt
  /\ join = NotJoining
  /\ join' = JoinSent
  /\ UNCHANGED <<serverVars, socket, ws, retry, token, prompt, pageVars, faults>>

\* The server issues a token of the present generation, which may have been
\* replaced when the answer arrives.
Grant ==
  /\ join = JoinSent
  /\ join' = room.instance
  /\ UNCHANGED <<serverVars, socket, ws, retry, token, prompt, pageVars, faults>>

\* The PIN is wrong, or the request or its answer is lost.
JoinFails ==
  /\ join # NotJoining
  /\ faults < MaxFaults
  /\ faults' = faults + 1
  /\ join' = NotJoining
  /\ token' = NoToken
  /\ UNCHANGED <<serverVars, socket, ws, retry, prompt, pageVars>>

\* The token is stored, the prompt hidden, and reconnectNow connects.
JoinReturns ==
  /\ join > JoinSent
  /\ join' = NotJoining
  /\ token' = join
  /\ Connect(socket, join)
  /\ UNCHANGED <<serverVars, retry, pageVars, faults>>

-----------------------------------------------------------------------------
(***************************************************************************)
(* applyState and the reward tracker.                                      *)
(***************************************************************************)
\* Faulty variant of Baseline: the tracker begins at no rewards.
FromZero(first) == IF first THEN 0 ELSE baseline

\* Faulty variant of Baseline: a new connection does not reset the tracker.
KeptBaseline(first) == baseline

\* What the tracker has observed before this document.
Baseline(first) == IF first THEN NoReward ELSE baseline

Reveals(state, first) ==
  /\ state.break
  /\ Baseline(first) # NoReward
  /\ state.reward_id > Baseline(first)

Observed(state, first) ==
  IF state.reward_id > Baseline(first) THEN state.reward_id ELSE Baseline(first)

\* Faulty variant of Accepts: the filter outlives the connection.
AcceptsNewer(state, first) == state.revision >= accepted

Accepts(state, first) == first \/ state.revision >= accepted

Reward(instance, state) == [instance |-> instance, reward |-> state.reward_id]

Apply(state, first, instance) ==
  LET new == IF Reveals(state, first) THEN {Reward(instance, state)} ELSE {}
      unseen == {r \in revealed : r.instance = instance /\ r.reward > state.reward_id}
  IN  /\ accepted' = state.revision
      /\ shown' = [instance |-> instance, state |-> state]
      /\ baseline' = Observed(state, first)
      /\ revealed' = revealed \cup new
      /\ replayed' = replayed \cup (new \cap revealed)
      /\ missed' = IF first THEN missed \cup unseen ELSE missed

HandleMessage(i) ==
  /\ socket[i].inbox # <<>>
  /\ IsDocument(Head(socket[i].inbox))
  /\ LET state == Head(socket[i].inbox).state
         first == socket[i].first
     IN  /\ socket' = [socket EXCEPT ![i].inbox = Tail(@),
                                     ![i].first = @ /\ i # ws]
         /\ IF i = ws /\ Accepts(state, first)
            THEN Apply(state, first, socket[i].bound)
            ELSE UNCHANGED pageVars
  /\ UNCHANGED <<serverVars, ws, retry, token, prompt, join, faults>>

\* The page is loaded again in the same tab, which keeps the token.
Reload ==
  /\ faults < MaxFaults
  /\ faults' = faults + 1
  /\ retry' = FALSE
  /\ join' = NotJoining
  /\ accepted' = NoRevision
  /\ shown' = NoState
  /\ baseline' = NoReward
  /\ Connect([i \in SocketIds |-> Closed], token)
  /\ UNCHANGED <<serverVars, token, revealed, replayed, missed>>

-----------------------------------------------------------------------------
(***************************************************************************)
(* The page is opened, with or without a token that the lobby has stored.  *)
(***************************************************************************)
Init ==
  /\ room = [instance |-> 1, state |-> MakeState]
  /\ late = {}
  /\ token \in {NoToken, 1}
  /\ prompt = (token = NoToken)
  /\ ws = CHOOSE i \in SocketIds : TRUE
  /\ socket = [i \in SocketIds |->
                 IF i = ws /\ token # NoToken THEN Opened(token) ELSE Closed]
  /\ retry = FALSE
  /\ join = NotJoining
  /\ accepted = NoRevision
  /\ shown = NoState
  /\ baseline = NoReward
  /\ faults = 0
  /\ revealed = {}
  /\ replayed = {}
  /\ missed = {}

ServerStep ==
  \/ Commit
  \/ Recreate
  \/ ReadEarly
  \/ \E i \in SocketIds : WriteCurrent(i) \/ WriteLate(i) \/ Reject(i) \/ Lose(i)

PageStep ==
  \/ Reconnect
  \/ \E i \in SocketIds : HandleClose(i) \/ HandleMessage(i)
  \/ SubmitPin
  \/ Grant
  \/ JoinFails
  \/ JoinReturns
  \/ Reload

Next == ServerStep \/ PageStep

Spec == Init /\ [][Next]_vars

\* The server writes the newest document to a socket it can reach and turns
\* away one of another generation, requests are answered, and the browser runs
\* its tasks and its timer.  Nobody is obliged to know the PIN.
FairSpec ==
  /\ Spec
  /\ WF_vars(\E i \in SocketIds : WriteCurrent(i))
  /\ WF_vars(\E i \in SocketIds : Reject(i))
  /\ WF_vars(\E i \in SocketIds : HandleClose(i) \/ HandleMessage(i))
  /\ WF_vars(Reconnect)
  /\ WF_vars(Grant)
  /\ WF_vars(JoinReturns)

-----------------------------------------------------------------------------
Live == {i \in SocketIds : socket[i].live}

\* Documents that can be on their way.
State == [revision : 0..MaxRevision, break : BOOLEAN, reward_id : 0..MaxRevision]
Messages == {AuthClose, OtherClose} \cup {Document(state) : state \in State}

(* The type invariant.  The page has observed a reward id, be it zero, when *)
(* it has shown a document (rest-ritual.js:43-45).                          *)
TypeOK ==
  /\ room \in [instance : 1..MaxInstances, state : State]
  /\ late \subseteq State
  /\ \A i \in SocketIds :
       /\ DOMAIN socket[i] = DOMAIN Closed
       /\ socket[i].live \in BOOLEAN /\ socket[i].first \in BOOLEAN
       /\ socket[i].bound \in NoToken..MaxInstances
       /\ socket[i].mark \in NoRevision..MaxRevision
       /\ \A n \in DOMAIN socket[i].inbox : socket[i].inbox[n] \in Messages
  /\ ws \in SocketIds
  /\ retry \in BOOLEAN /\ prompt \in BOOLEAN
  /\ token \in NoToken..MaxInstances
  /\ join \in NotJoining..MaxInstances
  /\ faults \in 0..MaxFaults
  /\ \/ shown = NoState /\ accepted = NoRevision /\ baseline = NoReward
     \/ /\ shown \in [instance : 1..MaxInstances, state : State]
        /\ accepted = shown.state.revision
        /\ baseline \in 0..MaxRevision

(* The page has exactly one way forward: a socket, the reconnect timer, or  *)
(* the PIN prompt (room-websocket.js:23-92, app.js:57-65).  With none it    *)
(* would be dead until it is reloaded; with two it would show the prompt    *)
(* over a working room or keep two sockets in the room.                     *)
OneWayForward ==
  Cardinality(Live) + (IF retry THEN 1 ELSE 0) + (IF prompt THEN 1 ELSE 0) = 1

(* A reward is revealed once in a tab, across reconnections, reloads and    *)
(* generations ("reconnecting to an already observed id must restore the    *)
(* completed state without replaying the reveal", docs/ux/audit.md:217).    *)
(* The one exception is a reward that the first document of some connection *)
(* did not have yet, because a worker had read that document earlier.       *)
RevealedOnce == replayed \subseteq missed

(* A reward that is earned before the eyes of the page is revealed: when a  *)
(* document after the first of a connection shows a break and more rewards  *)
(* than the page showed, also when the room was recreated and its rewards   *)
(* start over (rest-ritual.js:40-47, 221-227).                              *)
RevealsEarned ==
  /\ ~socket[ws].first
  /\ shown'.state.break
  /\ shown'.state.reward_id > shown.state.reward_id
  => Reward(shown'.instance, shown'.state) \in revealed'

EarnedIsRevealed == [][RevealsEarned]_vars

(* Once nothing breaks any more, the page shows the room as it is or asks   *)
(* for the PIN: it neither stays on an old document, nor on an old          *)
(* generation, nor reconnects for ever with a token that is worthless.      *)
PageFollows == <>[](prompt \/ shown = room)
=============================================================================
