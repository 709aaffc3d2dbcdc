-------------------------------- MODULE Lobby ---------------------------------
(***************************************************************************)
(* The lobby: a PIN opens a new room or joins one by its code.             *)
(*                                                                         *)
(*   frontend/lobby.js          the page                                   *)
(*   frontend/src/storage.js    where the token waits for the room page    *)
(*                                                                         *)
(* A step is one task of the browser's event loop.  A request and the body *)
(* of its answer are awaited together.  After go() the page stays usable   *)
(* until the browser has the next one.                                     *)
(***************************************************************************)
EXTENDS Integers

CONSTANT Rooms      \* room codes

VARIABLES
  pin,        \* content of the field, see Pins
  code,       \* content of the code field
  codeOpen,
  pending,    \* the controls are disabled
  request,    \* the room that createRoom or joinRoom awaits
  stored,     \* rooms with a token in sessionStorage
  location    \* where the browser is going

lobbyVars == <<pin, code, codeOpen, pending, request, stored, location>>

None == "none"

\* "spent": it has been sent with a request before.
Pins == {"", "short", "fresh", "spent"}

-----------------------------------------------------------------------------
\* The inputs: a person types a PIN of their own, and a code, which the
\* listener keeps in the form the pattern of joinRoom asks for.
TypePin(p) ==
  /\ ~pending
  /\ pin' = p
  /\ UNCHANGED <<code, codeOpen, pending, request, stored, location>>

TypeCode(c) ==
  /\ ~pending
  /\ codeOpen
  /\ code' = c
  /\ UNCHANGED <<pin, codeOpen, pending, request, stored, location>>

\* The code toggle, without its focus timer
ToggleCode ==
  /\ ~pending
  /\ codeOpen' = ~codeOpen
  /\ UNCHANGED <<pin, code, pending, request, stored, location>>

\* validatePin
Valid(p) == p \in {"fresh", "spent"}

\* createRoom and joinRoom up to the await
Submit(room) ==
  /\ ~pending
  /\ Valid(pin)
  /\ pending' = TRUE
  /\ request' = room
  /\ pin' = "spent"
  /\ UNCHANGED <<code, codeOpen, stored, location>>

\* A click on start, or Enter in the PIN field while the code is folded away
CreateRoom(random) == Submit(random)

\* A click on join, or Enter in either field
JoinRoom == code # None /\ Submit(code)

\* Faulty variant of Cleared: only an accepted PIN leaves the field.
ClearedIf(accepted) == IF accepted THEN "" ELSE pin

\* clearPin in the finally block
Cleared(accepted) == ""

\* The rest of createRoom and joinRoom: refused, failed or accepted
Answered(accepted) ==
  /\ request # None
  /\ request' = None
  /\ pending' = FALSE
  /\ pin' = Cleared(accepted)
  /\ IF accepted
     THEN stored' = stored \cup {request} /\ location' = request
     ELSE UNCHANGED <<stored, location>>
  /\ UNCHANGED <<code, codeOpen>>

\* The browser has the next page.  Whoever comes back to the lobby of the
\* tab finds a new one; the tokens are kept.
Leave ==
  /\ location # None
  /\ pin' = ""
  /\ code' = None
  /\ codeOpen' = FALSE
  /\ pending' = FALSE
  /\ request' = None
  /\ location' = None
  /\ UNCHANGED stored

-----------------------------------------------------------------------------
LobbyInit ==
  /\ pin = ""
  /\ code = None
  /\ codeOpen = FALSE
  /\ pending = FALSE
  /\ request = None
  /\ stored = {}
  /\ location = None

LobbyNext ==
  \/ \E p \in Pins \ {"spent"} : TypePin(p)
  \/ \E c \in Rooms \cup {None} : TypeCode(c)
  \/ ToggleCode
  \/ \E room \in Rooms : CreateRoom(room)
  \/ JoinRoom
  \/ \E accepted \in BOOLEAN : Answered(accepted)
  \/ Leave

LobbySpec == LobbyInit /\ [][LobbyNext]_lobbyVars

-----------------------------------------------------------------------------
(* README.md:229: a PIN goes with one request and is gone when that has
   completed, accepted, refused or failed, also when the person goes on with
   the page while the browser is leaving it; no answer is lost to a second
   request, and the page the browser goes to finds its token (lobby.js:14-23
   and the finally blocks). *)
PinIsForgotten ==
  /\ pin = "spent" => pending
  /\ pending <=> request # None
  /\ location # None => location \in stored
=============================================================================
