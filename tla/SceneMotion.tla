----------------------------- MODULE SceneMotion ------------------------------
(***************************************************************************)
(* What moves in the 3D scenes, and that it stops for a person who prefers *)
(* reduced motion.                                                         *)
(*                                                                         *)
(*   frontend/src/3d/scenes/coast-scene.js, sky-scene.js, beach-scene.js   *)
(*   frontend/src/3d/scenes/forest-scene.js, city-scene.js                 *)
(*   frontend/src/3d/reward-constellation.js   the reward in the sky       *)
(*   frontend/scenes.js                        the tick, the field of view *)
(*   frontend/src/3d/post.js                   grain and light shafts      *)
(*   frontend/src/3d/motion.js                 the preference, read live   *)
(*                                                                         *)
(* A step is one frame, or one task between frames.  Only the active scene *)
(* is updated; the others keep what they showed last.  Colours, which ease *)
(* with the hour in any case, are left out.                                *)
(***************************************************************************)
EXTENDS Integers

VARIABLES
  reduced,    \* prefers-reduced-motion
  active,     \* the scene that is shown
  hour,       \* "day", "dusk" or "night" in the eased atmosphere
  focus,      \* focusActive
  coast, forest, city,
  energy,     \* revealEnergy of the reward
  fov,        \* the field of view: "wide", "between" or "near"
  last        \* history: the last frame

sceneVars == <<coast, forest, city>>
vars == <<reduced, active, hour, focus, sceneVars, energy, fov, last>>

SceneNames == {"coast", "forest", "city"}
Hours == {"day", "dusk", "night"}
Rest == -1

\* A motion clock, which only has to tell one frame from the next
Tick(clock) == (clock + 1) % 2
Moving(clock) == IF reduced THEN clock ELSE Tick(clock)

\* A swing around a place of rest: parked there when motion is reduced
Swing(clock) == IF reduced THEN Rest ELSE clock

-----------------------------------------------------------------------------
(***************************************************************************)
(* One frame of each scene.                                                *)
(***************************************************************************)
\* Faulty variant of Rewritten: under reduced motion the clouds are skipped.
RewrittenMoving == ~reduced

\* matricesChanged
Rewritten == ~reduced \/ reduced # coast.wasReduced

\* The clouds: they drift, and breathe in matrices that are rewritten only
\* when they have to be.
CoastClouds ==
  [clock |-> Moving(coast.clock),
   breath |-> IF Rewritten THEN Swing(Moving(coast.clock)) ELSE coast.breath,
   wasReduced |-> reduced]

\* The shore: water, foam and tide follow the clock, the boat swings too.
CoastShore == <<Moving(coast.clock), Swing(Moving(coast.clock))>>

\* The forest: embers, mist and smoke drift; fire and light beams swing.
ForestFrame == Moving(forest)

NightMoves == hour # "day" /\ ~reduced

\* advanceCityTrafficTime runs by day and night; the vehicles are placed while
\* they are visible.
DayTraffic ==
  LET time == Moving(city.time)
  IN  [time |-> time,
       placed |-> IF ~reduced /\ hour # "night" THEN time ELSE city.placed]

\* The city: by night cars, searchlights, beacons, windows, aircraft
CityFrame ==
  [time |-> DayTraffic.time, placed |-> DayTraffic.placed,
   clock |-> IF NightMoves THEN Tick(city.clock) ELSE city.clock]

\* What the active scene shows: in the city, the parts of the hour
Shown ==
  CASE active = "coast" -> <<coast'.clock, coast'.breath, CoastShore>>
    [] active = "forest" -> <<forest', Swing(forest')>>
    [] OTHER -> <<IF hour # "night" THEN city'.placed ELSE Rest,
                  IF hour # "day" THEN <<city'.clock, Swing(city'.clock)>>
                                  ELSE Rest>>

\* manager.update
UpdateScene ==
  /\ coast' = IF active = "coast" THEN CoastClouds ELSE coast
  /\ forest' = IF active = "forest" THEN ForestFrame ELSE forest
  /\ city' = IF active = "city" THEN CityFrame ELSE city

-----------------------------------------------------------------------------
\* update of the reward: what is left of the glow of a reveal
EnergyLeft == IF reduced THEN {0} ELSE {energy, 0}

\* The push-in of a session, which eases unless motion is reduced
Fov ==
  LET target == IF focus /\ ~reduced THEN "near" ELSE "wide"
  IN  IF reduced \/ fov = target THEN {target} ELSE {"between", target}

\* Grain of post.render: a clock of its own, which stands still at 0
Grain == IF reduced THEN 0 ELSE 1

\* The light shafts of post.render
Shafts == ~reduced

Frame ==
  /\ UpdateScene
  /\ energy' \in EnergyLeft
  /\ fov' \in Fov
  /\ last' = [scene |-> active, hour |-> hour, reduced |-> reduced,
              picture |-> <<Shown, energy', fov', Grain, Shafts>>]
  /\ UNCHANGED <<reduced, active, hour, focus>>

-----------------------------------------------------------------------------
\* Between the frames
PrefersMotion ==
  /\ reduced' = ~reduced
  /\ UNCHANGED <<active, hour, focus, sceneVars, energy, fov, last>>

ShowScene(scene) ==
  /\ active' = scene
  /\ UNCHANGED <<reduced, hour, focus, sceneVars, energy, fov, last>>

HourPasses(h) ==
  /\ hour' = h
  /\ UNCHANGED <<reduced, active, focus, sceneVars, energy, fov, last>>

\* updatePomodoro
Session(on) ==
  /\ focus' = on
  /\ UNCHANGED <<reduced, active, hour, sceneVars, energy, fov, last>>

\* setCompletedSessions with a reward to reveal
Reveal ==
  /\ energy' = 1
  /\ UNCHANGED <<reduced, active, hour, focus, sceneVars, fov, last>>

Init ==
  /\ reduced \in BOOLEAN
  /\ active \in SceneNames
  /\ hour = "night"
  /\ focus = FALSE
  /\ coast = [clock |-> 0, breath |-> Rest, wasReduced |-> reduced]
  /\ forest = 0
  /\ city = [time |-> 0, placed |-> 0, clock |-> 0]
  /\ energy = 0
  /\ fov = "wide"
  /\ last = [scene |-> "none", hour |-> hour, reduced |-> FALSE,
             picture |-> <<>>]

Next ==
  \/ Frame
  \/ PrefersMotion
  \/ \E scene \in SceneNames : ShowScene(scene)
  \/ \E h \in Hours : HourPasses(h)
  \/ \E on \in BOOLEAN : Session(on)
  \/ Reveal

Spec == Init /\ [][Next]_vars

-----------------------------------------------------------------------------
(* With reduced motion two frames of one scene at one hour show the same
   picture, whatever happens in between: a session that starts, a reward, a
   preference that changed twice (every use of motion.js). *)
StandsStill ==
  last.reduced /\ last'.reduced /\ last'.scene = last.scene
    /\ last'.hour = last.hour
  => last'.picture = last.picture

(* The coast caches where its clouds are.  Although it may be away while the
   preference changes, none of its frames shows them out of their place
   (sky-scene.js:818-822). *)
CloudsRest ==
  last.reduced /\ last.scene = "coast" => last.picture[1][2] = Rest
=============================================================================
