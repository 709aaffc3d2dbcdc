------------------------------- MODULE SkyMotion ------------------------------
(***************************************************************************)
(* The celestial bodies that leave a trail, and the camera that a pointer  *)
(* turns.                                                                  *)
(*                                                                         *)
(*   frontend/src/3d/celestial.js    meteor and satellite                  *)
(*   frontend/src/3d/atmosphere.js   night comes gradually                 *)
(*   frontend/src/3d/engine.js       the pointer, the frame                *)
(*                                                                         *)
(* A step is one frame, or one task between frames.  A trail is a buffer   *)
(* of the last positions; here a position is its age in frames.  Frames of *)
(* a hidden tab draw nothing and are left out, what happens meanwhile is   *)
(* not.  There is one meteor and one pointer.                              *)
(***************************************************************************)
EXTENDS Integers, Sequences

CONSTANTS
  TrailLength,    \* METEOR_TRAIL and trailCount
  Reach,          \* the camera turns at most that far
  Width           \* the window, in steps of the camera

ASSUME SkyAssumption ==
  /\ TrailLength \in Nat \ {0}
  /\ Reach \in Nat
  /\ Width \in Nat

VARIABLES
  reduced,    \* prefers-reduced-motion
  nightGoal,  \* T.moon: night, as the last document has it
  night,      \* L.moon: night, as it is drawn
  session,    \* satOrbitGroup.visible
  layerShown, \* meteorLayerWasVisible
  meteor,     \* active, history up to historyLength, frames since the spawn
  satellite,  \* trailHistory up to trailHistoryLength
  pointer,    \* where it is, and startX
  down,       \* isPointerDown
  target,     \* targetAngleX
  angle       \* cameraAngleX

skyVars == <<nightGoal, night, session, layerShown, meteor, satellite>>
cameraVars == <<pointer, down, target, angle>>
skyMotionVars == <<reduced, skyVars, cameraVars>>

Oldest == TrailLength + 1     \* ages beyond are alike

-----------------------------------------------------------------------------
(***************************************************************************)
(* Trails.                                                                 *)
(***************************************************************************)
\* One more frame has passed.
Age(n) == IF n < Oldest THEN n + 1 ELSE n
Aged(trail) == [i \in DOMAIN trail |-> Age(trail[i])]

\* The copying loops: the new position first, the last one falls out.
Pushed(trail) ==
  SubSeq(<<0>> \o Aged(trail), 1,
         IF Len(trail) < TrailLength THEN Len(trail) + 1 ELSE TrailLength)

NoMeteor == [active |-> FALSE, history |-> <<>>, flight |-> 0]
Spawned == [active |-> TRUE, history |-> <<>>, flight |-> 0]

\* meteorLayerVisible, of the eased night
LayerVisible == ~reduced /\ night'

\* The layer goes: the flight is over.
Hidden ==
  IF layerShown THEN NoMeteor
  ELSE [meteor EXCEPT !.history = Aged(@), !.flight = Age(@)]

\* A frame of a visible layer: the timer of the next meteor runs out or not,
\* and a flight goes on or ends.
Flights ==
  IF ~meteor.active THEN {meteor, Spawned}
  ELSE {NoMeteor, [active |-> TRUE, history |-> Pushed(meteor.history),
                   flight |-> Age(meteor.flight)]}

MeteorFrame ==
  /\ layerShown' = LayerVisible
  /\ IF LayerVisible THEN meteor' \in Flights ELSE meteor' = Hidden

SatelliteFrame ==
  satellite' = IF session /\ ~reduced THEN Pushed(satellite) ELSE <<>>

\* The visibility eases, and may reach its goal in this frame.  A frame of
\* more than half a second snaps.
NightEases ==
  /\ night' \in {night, nightGoal}
  /\ UNCHANGED nightGoal

-----------------------------------------------------------------------------
\* The camera eases toward its target, if at all.
Toward(a, b) == IF a < b THEN a + 1 ELSE IF a > b THEN a - 1 ELSE a

CameraFrame ==
  /\ angle' = IF reduced THEN angle ELSE Toward(angle, target)
  /\ UNCHANGED <<pointer, down, target>>

\* renderLoop: the camera, then the ticks
SkyFrame ==
  /\ CameraFrame
  /\ NightEases
  /\ MeteorFrame
  /\ SatelliteFrame
  /\ UNCHANGED <<reduced, session>>

\* updateCelestialState
Celestial(dark) ==
  /\ nightGoal' = dark
  /\ UNCHANGED <<reduced, night, session, layerShown, meteor, satellite,
                 cameraVars>>

\* updatePomodoro
Pomodoro(on) ==
  /\ session' = on
  /\ UNCHANGED <<reduced, nightGoal, night, layerShown, meteor, satellite,
                 cameraVars>>

PrefersMotion ==
  /\ reduced' = ~reduced
  /\ UNCHANGED <<skyVars, cameraVars>>

-----------------------------------------------------------------------------
(***************************************************************************)
(* The pointer.                                                            *)
(***************************************************************************)
\* onPointerDown on the sky
PointerDown ==
  /\ down' = TRUE
  /\ pointer' = [pointer EXCEPT !.start = pointer.x]
  /\ UNCHANGED <<reduced, target, angle, skyVars>>

\* onPointerUp, also when the window loses the focus
PointerUp ==
  /\ down' = FALSE
  /\ UNCHANGED <<reduced, pointer, target, angle, skyVars>>

\* Faulty variant of Held: a drag survives reduced motion.
HeldOn == down

\* onPointerMove under reduced motion gives the drag up.
Held == down /\ ~reduced

Clamped(a) == IF a > Reach THEN Reach ELSE IF a < -Reach THEN -Reach ELSE a

\* onPointerMove
PointerMove(x) ==
  /\ x # pointer.x
  /\ down' = Held
  /\ IF down /\ ~reduced
     THEN /\ target' = Clamped(target + x - pointer.start)
          /\ pointer' = [x |-> x, start |-> x]
     ELSE /\ pointer' = [pointer EXCEPT !.x = x]
          /\ UNCHANGED target
  /\ UNCHANGED <<reduced, angle, skyVars>>

-----------------------------------------------------------------------------
SkyInit ==
  /\ reduced \in BOOLEAN
  /\ nightGoal = FALSE
  /\ night = FALSE
  /\ session = FALSE
  /\ layerShown = FALSE
  /\ meteor = NoMeteor
  /\ satellite = <<>>
  /\ pointer = [x |-> 0, start |-> 0]
  /\ down = FALSE
  /\ target = 0
  /\ angle = 0

SkyNext ==
  \/ SkyFrame
  \/ \E dark \in BOOLEAN : Celestial(dark)
  \/ \E on \in BOOLEAN : Pomodoro(on)
  \/ PrefersMotion
  \/ PointerDown
  \/ PointerUp
  \/ \E x \in 0 .. Width : PointerMove(x)

SkySpec == SkyInit /\ [][SkyNext]_skyMotionVars

-----------------------------------------------------------------------------
(* A trail is one flight: every point of it is of the frame after the point
   behind it, and none is older than the flight, although the layer comes and
   goes with the night and with the preference (celestial.js:819-889,
   906-927). *)
TrailsAreUnbroken ==
  /\ \A i \in DOMAIN satellite : satellite[i] = i - 1
  /\ meteor.active /\ layerShown =>
       /\ Len(meteor.history) <= meteor.flight
       /\ \A i \in DOMAIN meteor.history : meteor.history[i] = i - 1

Distance(a, b) == IF a < b THEN b - a ELSE a - b

(* engine.js:356-359: no drag that reduced motion cut short jumps when the
   preference is disabled later.  The camera is turned as far as the pointer
   has just moved, and by nothing else. *)
TurnsWithPointer == Distance(target, target') <= Distance(pointer.x, pointer'.x)
NoLatentDrag == [][TurnsWithPointer]_skyMotionVars
=============================================================================
