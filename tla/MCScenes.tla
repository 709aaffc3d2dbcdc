------------------------------ MODULE MCScenes -------------------------------
(***************************************************************************)
(* Instances for TLC of what the room page shows.  A behaviour is of one   *)
(* part: the scenes and their failures (module Scenes), or one of five     *)
(* others, which neither read nor write what a failing scene touches:      *)
(*                                                                         *)
(*   Display      settings, from the panel to the frame                    *)
(*   SceneMotion  what moves in each scene                                 *)
(*   SkyMotion    trails in the sky, and the camera                        *)
(*   SkyGrade     the palette                                              *)
(*   Skyline      the towers of the city                                   *)
(***************************************************************************)
EXTENDS Scenes, SkyMotion

CONSTANTS
  AutoStartTier,  \* "medium" or "high"
  Hdr,            \* whether half-float targets can be rendered
  Elevations,     \* degrees: where documents put the sun
  MaxJumps,       \* bound: documents that move the sun
  Heights         \* metres: towers within hMin and hMax of the bands

ASSUME PageAssumption ==
  /\ AutoStartTier \in {"medium", "high"}
  /\ Hdr \in BOOLEAN
  /\ Elevations \subseteq -90 .. 90
  /\ MaxJumps \in Nat
  /\ Heights \subseteq 9 .. 74

VARIABLES
  part,
  v1, v2, v3, v4, v5, v6, v7, v8, v9, v10   \* of Display, SceneMotion, Skyline or SkyGrade

slots == <<v1, v2, v3, v4, v5, v6, v7, v8, v9, v10>>

\* Elevations for TLC: the stops of the palette, and the highest sun.  It jumps
\* again while it fades.
StopsAndZenith == {-90, -12, -4, 2, 12, 45, 90}

Settings3D == INSTANCE Display
  WITH engine <- v1, passes <- v2, manager <- v3, stored <- v4, panel <- v5

Motion == INSTANCE SceneMotion
  WITH reduced <- v1, active <- v2, hour <- v3, focus <- v4, coast <- v5,
       forest <- v6, city <- v7, energy <- v8, fov <- v9, last <- v10

Palette == INSTANCE SkyGrade WITH goal <- v1, now <- v2, jumps <- v3

City == INSTANCE Skyline
  WITH tower <- v1, stage <- v2, y <- v3, width <- v4, wall <- v5, windows <- v6

-----------------------------------------------------------------------------
\* Each part but the one that acts rests in an initial state.
Rest ==
  /\ part # "scenes" => engine = "up" /\ manager.active = Sky /\ manager.failed = {}
  /\ part # "sky" => ~reduced

Unused == "unused"
UnusedFrom4 ==
  /\ v4 = Unused /\ v5 = Unused /\ v6 = Unused /\ v7 = Unused
  /\ v8 = Unused /\ v9 = Unused /\ v10 = Unused
UnusedFrom7 == v7 = Unused /\ v8 = Unused /\ v9 = Unused /\ v10 = Unused

PageInit ==
  /\ part \in {"scenes", "sky", "display", "motion", "city", "palette"}
  /\ Init /\ SkyInit /\ Rest
  /\ CASE part = "display" -> Settings3D!Init /\ v6 = Unused /\ UnusedFrom7
       [] part = "motion"  -> Motion!Init
       [] part = "city"    -> City!Init /\ UnusedFrom7
       [] part = "palette" -> Palette!Init /\ UnusedFrom4
       [] OTHER -> v1 = Unused /\ v2 = Unused /\ v3 = Unused /\ UnusedFrom4

PageNext ==
  \/ part = "scenes" /\ Next /\ UNCHANGED <<part, skyMotionVars, slots>>
  \/ part = "sky" /\ SkyNext /\ UNCHANGED <<part, vars, slots>>
  \/ /\ part = "display" /\ Settings3D!Next
     /\ UNCHANGED <<part, vars, skyMotionVars, v6, v7, v8, v9, v10>>
  \/ part = "motion" /\ Motion!Next /\ UNCHANGED <<part, vars, skyMotionVars>>
  \/ /\ part = "city" /\ City!Next
     /\ UNCHANGED <<part, vars, skyMotionVars, v7, v8, v9, v10>>
  \/ /\ part = "palette" /\ Palette!Next
     /\ UNCHANGED <<part, vars, skyMotionVars, v4, v5, v6, v7, v8, v9, v10>>

\* The fairness of FairSpec in module Scenes; the other parts need none.
PageSpec ==
  /\ PageInit /\ [][PageNext]_<<part, vars, skyMotionVars, slots>>
  /\ WF_vars(part = "scenes" /\ Frame({}))
  /\ WF_vars(part = "scenes" /\ DimmingEnds({}))
  /\ WF_vars(part = "scenes" /\ engine # "gone" /\ (Compiled({}) \/ CompileFails({})))
  /\ WF_vars(part = "scenes" /\ Present)
  /\ WF_vars(part = "scenes" /\ FallBackTo2D)

-----------------------------------------------------------------------------
(* StoredBecomesShown of Scenes: what is stored follows the fallback.       *)
StoredIsShown ==
  part = "scenes" /\ Operational /\ activeScene # manager.active ~>
    part = "scenes" /\ (~Operational \/ activeScene = manager.active)

(* SwitchEnds of Scenes: the picker's buttons work again.                   *)
EverySwitchEnds ==
  part = "scenes" /\ switch # Idle ~>
    part = "scenes" /\ (switch = Idle \/ (engine = "gone" /\ switch.pc = "compiling"))

(* What is stored, shown in the panel, told to the scenes and drawn agrees, *)
(* whichever order tiers, toggles, scenes and reloads come in, but for two  *)
(* states of the code: a page that nothing has asked for applyFX draws no   *)
(* shadows (DrawnAsPreferred), and toggles that nobody has used do not      *)
(* follow the tier (TogglesAgree).  See also ChoiceIsKept, ScenesAreTold.   *)
SettingsAgree ==
  part = "display" =>
    /\ Settings3D!TypeOK
    /\ Settings3D!DrawnAsPreferred
    /\ Settings3D!ChoiceIsKept
    /\ Settings3D!TogglesAgree
    /\ Settings3D!ScenesAreTold

(* With reduced motion nothing moves from frame to frame, whatever happens  *)
(* in between: a session that starts, a reward, a preference that changed   *)
(* twice; and no scene that was away while the preference changed shows its *)
(* clouds out of their place (every use of motion.js, sky-scene.js:818).    *)
StillWhenReduced ==
  /\ [](part = "motion" => Motion!CloudsRest)
  /\ [][part = "motion" => Motion!StandsStill]_slots

(* The sky is of one piece: a trail is one flight, and what is drawn is of  *)
(* one hour.  See TrailsAreUnbroken of SkyMotion, SkyIsOfOneHour of SkyGrade. *)
SkyHoldsTogether ==
  /\ TrailsAreUnbroken
  /\ part = "palette" => Palette!SkyIsOfOneHour

(* TowerHoldsTogether of Skyline: windows are on walls, but for the retail  *)
(* row of the lowest towers, and roofs are carried.                         *)
TowerHoldsTogether == part = "city" => City!TowerHoldsTogether
=============================================================================
