----------------------------- MODULE MCRoomPage ------------------------------
(***************************************************************************)
(* Instances for TLC of the pages around a room.  A behaviour is of one    *)
(* part: the connection and the documents it brings (module RoomClient),   *)
(* or one of four others, which work on variables of their own:            *)
(*                                                                         *)
(*   Lobby        the page before                                          *)
(*   FallbackSky  the 2D sky                                               *)
(*   Panels       dialogs, and the focus                                   *)
(*   TimeSlider   the slider of the room's sky                             *)
(***************************************************************************)
EXTENDS RoomClient, Lobby, FallbackSky

CONSTANTS
  Times,       \* positions of the slider
  MaxOthers    \* bound: what else happens while it is used

VARIABLES
  part,
  v1, v2, v3, v4, v5, v6, v7, v8, v9, v10   \* of Panels or TimeSlider

slots == <<v1, v2, v3, v4, v5, v6, v7, v8, v9, v10>>

Dialogs == INSTANCE Panels
  WITH dom <- v1, mode <- v2, timers <- v3, switching <- v4, pending <- v5,
       moved <- v6

Slider == INSTANCE TimeSlider
  WITH room <- v1, sent <- v2, wire <- v3, linked <- v4, slider <- v5,
       recent <- v6, pending <- v7, wish <- v8, moot <- v9, others <- v10

ASSUME SliderAssumption == Slider!RealTime \notin Times /\ Slider!Nothing \notin Times

-----------------------------------------------------------------------------
\* Each part but the one that acts rests in an initial state.
Rest ==
  /\ part # "client" => token # NoToken
  /\ part # "clouds" => ~reduced

Unused == "unused"
UnusedFrom7 == v7 = Unused /\ v8 = Unused /\ v9 = Unused /\ v10 = Unused

PageInit ==
  /\ part \in {"client", "lobby", "clouds", "panels", "slider"}
  /\ Init /\ LobbyInit /\ FallbackInit /\ Rest
  /\ CASE part = "panels" -> Dialogs!Init /\ UnusedFrom7
       [] part = "slider" -> Slider!Init
       [] OTHER -> /\ v1 = Unused /\ v2 = Unused /\ v3 = Unused
                   /\ v4 = Unused /\ v5 = Unused /\ v6 = Unused /\ UnusedFrom7

PageNext ==
  \/ /\ part = "client" /\ Next
     /\ UNCHANGED <<part, lobbyVars, fallbackVars, slots>>
  \/ /\ part = "lobby" /\ LobbyNext
     /\ UNCHANGED <<part, vars, fallbackVars, slots>>
  \/ /\ part = "clouds" /\ FallbackNext
     /\ UNCHANGED <<part, vars, lobbyVars, slots>>
  \/ /\ part = "panels" /\ Dialogs!Next
     /\ UNCHANGED <<part, vars, lobbyVars, fallbackVars, v7, v8, v9, v10>>
  \/ /\ part = "slider" /\ Slider!Next
     /\ UNCHANGED <<part, vars, lobbyVars, fallbackVars>>

\* The fairness of FairSpec in module RoomClient; the other parts need none.
PageSpec ==
  /\ PageInit /\ [][PageNext]_<<part, vars, lobbyVars, fallbackVars, slots>>
  /\ WF_vars(part = "client" /\ \E i \in SocketIds : WriteCurrent(i))
  /\ WF_vars(part = "client" /\ \E i \in SocketIds : Reject(i))
  /\ WF_vars(part = "client" /\ \E i \in SocketIds : HandleClose(i) \/ HandleMessage(i))
  /\ WF_vars(part = "client" /\ Reconnect)
  /\ WF_vars(part = "client" /\ Grant)
  /\ WF_vars(part = "client" /\ JoinReturns)

-----------------------------------------------------------------------------
(* PageFollows of RoomClient: once nothing breaks any more, the page shows  *)
(* the room as it is or asks for the PIN.                                   *)
PageCatchesUp == <>[](part = "client" => prompt \/ shown = room)

(* Dialogs that open over one another, return late or close under a         *)
(* snapshot isolate one at a time, keep the focus and leave nothing behind: *)
(* see DialogIsModal, ControlsComeBack, FocusContained and                  *)
(* AttributesFollowSession.                                                 *)
DialogsIsolate ==
  part = "panels" =>
    /\ Dialogs!DialogIsModal
    /\ Dialogs!ControlsComeBack
    /\ Dialogs!FocusContained
    /\ Dialogs!AttributesFollowSession

(* LastDragCounts of TimeSlider: neither an earlier position nor a late     *)
(* document of one wins.                                                    *)
LastDragCounts == part = "slider" => Slider!LastDragCounts
=============================================================================
