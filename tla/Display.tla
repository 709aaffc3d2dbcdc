------------------------------- MODULE Display -------------------------------
(***************************************************************************)
(* Quality and effects of the 3D page: what is stored, what the settings   *)
(* panel shows, what the scenes are told and what a frame is drawn with.   *)
(*                                                                         *)
(*   frontend/src/3d/engine.js         tiers, watchdog, effects, shadows   *)
(*   frontend/src/3d/post.js           the passes                          *)
(*   frontend/src/3d/scenes/scene-manager.js  what scenes are told         *)
(*   frontend/scenes.js                init3D, syncSceneMetrics, settings  *)
(*   frontend/src/display-settings.js  the panel                           *)
(*   frontend/src/storage.js           what survives a reload              *)
(*                                                                         *)
(* A step is one task of the browser's event loop: a frame, a click, a     *)
(* continuation of switchScene.  A pixel ratio is written in hundredths;    *)
(* the container keeps its size.  The toggles for grain and mica are like  *)
(* the one for shafts, and are left out; the ultra tier differs from high  *)
(* in its pixel ratio only.                                                *)
(***************************************************************************)
EXTENDS Integers

CONSTANTS
  AutoStartTier,  \* "medium" or "high"
  Hdr             \* whether half-float targets can be rendered

VARIABLES
  engine,   \* the engine's configuration
  passes,   \* what the next frame is drawn with
  manager,  \* the scene manager and what each scene was told
  stored,   \* localStorage
  panel     \* the toggles and the select of the panel

vars == <<engine, passes, manager, stored, panel>>

None == "none"
Tiers == {"low", "medium", "high"}
ScenePair == {"sky", "city"}
FX == {"bloom", "shafts", "shadows"}
NoFX == [k \in FX |-> None]

\* QUALITY_TIERS, and TIER_ORDER below each
Tier(t) ==
  CASE t = "low"    -> [bloom |-> "off", shafts |-> "off", map |-> 0]
    [] t = "medium" -> [bloom |-> "on",  shafts |-> "off", map |-> 1024]
    [] OTHER        -> [bloom |-> "on",  shafts |-> "on",  map |-> 2048]

Lower(t) ==
  IF t = "high" THEN "medium" ELSE "low"

\* resolvePixelRatio, for 2048 by 1024 pixels, each of two physical pixels
PixelRatio(t) ==
  CASE t = "low" -> 99 [] t = "medium" -> 132 [] t = "high" -> 154

-----------------------------------------------------------------------------
(***************************************************************************)
(* The engine.                                                             *)
(***************************************************************************)
TierDefault(t, k) ==
  CASE k = "bloom"   -> Tier(t).bloom
    [] k = "shafts"  -> Tier(t).shafts
    [] k = "shadows" -> IF Tier(t).map > 0 THEN "on" ELSE "off"

Chosen(e, t, k) == IF e.fx[k] = None THEN TierDefault(t, k) ELSE e.fx[k]

Upcoming(e) == IF e.pending = None THEN e.tier ELSE e.pending

\* getPreferredFX
Preferred(e) == [k \in FX |-> Chosen(e, Upcoming(e), k)]

\* applyShadows: at most the one key light casts, with this map size.
Shadowed(e, size) ==
  [e EXCEPT !.map = size, !.cast = IF e.source THEN size ELSE 0]

\* setShadowSource(celestial.keyLight), in every tick
Sourced(e) == IF e.source THEN e ELSE Shadowed([e EXCEPT !.source = TRUE], e.map)

\* applyFX, the engine's part
Applied(e) ==
  LET size == Tier(e.tier).map
  IN  Shadowed([e EXCEPT !.fxPending = FALSE, !.applied = TRUE],
               IF Chosen(e, e.tier, "shadows") = "off" THEN 0
               ELSE IF size = 0 THEN 1024 ELSE size)

\* applyFX, the part of post.setOptions.  A pass needs half-float targets.
Options(e) ==
  [bloom  |-> IF Hdr /\ ~e.suppressed THEN Chosen(e, e.tier, "bloom") ELSE "off",
   shafts |-> IF Hdr THEN Chosen(e, e.tier, "shafts") ELSE "off"]

\* setQuality
WithQuality(e, q) ==
  IF q = "auto" THEN [e EXCEPT !.mode = "auto", !.pending = AutoStartTier]
  ELSE [e EXCEPT !.mode = "manual", !.pending = q]

\* setFX
WithFX(e, fx) ==
  [e EXCEPT !.fx = fx, !.fxPending = TRUE]

\* Faulty variant of WithBloom: the next change of a setting will do.
QuietBloom(e, suppressed) == [e EXCEPT !.suppressed = suppressed]

\* setBloomSuppressed
WithBloom(e, suppressed) ==
  IF e.suppressed = suppressed THEN e
  ELSE [e EXCEPT !.suppressed = suppressed, !.fxPending = TRUE]

\* applyPendingConfiguration and applyRendererMetrics, without applyFX
Configured(e) ==
  [e EXCEPT !.pending = None, !.tier = Upcoming(e),
            !.ratio = PixelRatio(Upcoming(e))]

MustApply(e) == e.fxPending \/ Upcoming(e) # e.tier

\* The watchdog: a window of WATCHDOG_WINDOW seconds ends with this frame, and
\* was below STEP_DOWN_FPS.
Watched(e, slow) ==
  IF slow /\ e.mode = "auto" /\ e.tier # "low"
  THEN [e EXCEPT !.pending = Lower(e.tier)] ELSE e

-----------------------------------------------------------------------------
(***************************************************************************)
(* The scene manager, as far as it is told settings.                       *)
(***************************************************************************)
Settings(m) == [shafts |-> m.shafts, ratio |-> m.ratio]

\* The setters: remembered, and passed on to every scene that exists.
Told(m, shafts, ratio) ==
  LET n == [m EXCEPT !.shafts = shafts, !.ratio = ratio]
  IN  [n EXCEPT !.told = [s \in ScenePair |-> IF s \in m.built THEN Settings(n)
                                           ELSE @[s]]]

\* ensureScene
Built(m, s) ==
  IF s \in m.built THEN m
  ELSE [m EXCEPT !.built = @ \cup {s}, !.told[s] = Settings(m)]

\* syncSceneMetrics
Synced(m, e) == Told(m, Preferred(e).shafts, e.ratio)

-----------------------------------------------------------------------------
(***************************************************************************)
(* A page that starts: init3D, then createDisplaySettings.                 *)
(***************************************************************************)
NewEngine ==
  [alive |-> TRUE, mode |-> "auto", tier |-> AutoStartTier, pending |-> None,
   fx |-> NoFX, fxPending |-> FALSE, suppressed |-> FALSE,
   source |-> FALSE, map |-> 0, cast |-> 2048,
   ratio |-> PixelRatio(AutoStartTier),
   applied |-> FALSE]  \* history: applyFX has run

NewManager ==
  [active |-> "sky", built |-> {"sky"}, shafts |-> "on", ratio |-> 100,
   told |-> [s \in ScenePair |-> [shafts |-> "on", ratio |-> 100]]]

\* createPostFX
NewPasses == LET all == IF Hdr THEN "on" ELSE "off"
             IN  [bloom |-> all, shafts |-> all]

\* commitActiveScene, towards the engine: only the coast suppresses bloom.
Committed(e, s) == WithBloom(e, s = "sky")

StartedEngine(s) ==
  LET e == WithQuality(NewEngine, stored.quality)
  IN  Committed(IF stored.fx = NoFX THEN e ELSE WithFX(e, stored.fx), s)

StartedManager(s, e) == [Built(Synced(NewManager, e), s) EXCEPT !.active = s]

\* The select, and the toggles: as stored, or else as the engine prefers.
StartedPanel(e) ==
  [select |-> IF e.mode = "auto" THEN "auto" ELSE Upcoming(e),
   toggles |-> IF stored.fx = NoFX THEN Preferred(e) ELSE stored.fx]

-----------------------------------------------------------------------------
(***************************************************************************)
(* Steps.                                                                  *)
(***************************************************************************)
\* renderLoop.  poll: half a second has passed since the last one.  fails: the
\* active scene throws, and the sky takes its place.
Frame(slow, poll, fails) ==
  LET configured == Configured(engine)
      applied    == IF MustApply(engine) THEN Applied(configured) ELSE configured
      watched    == Watched(applied, slow)
      lost       == IF fails THEN [manager EXCEPT !.active = "sky"] ELSE manager
      sourced    == Sourced(watched)
  IN  /\ engine.alive
      /\ passes' = IF MustApply(engine) THEN Options(configured) ELSE passes
      /\ manager' = IF poll THEN Synced(lost, watched) ELSE lost
      /\ engine' = IF fails THEN Committed(sourced, "sky") ELSE sourced
      /\ UNCHANGED <<stored, panel>>

\* switchScene up to its first await builds the scene, and
PrepareScene(s) ==
  /\ engine.alive
  /\ manager' = Built(manager, s)
  /\ UNCHANGED <<engine, passes, stored, panel>>

\* after the last one it activates and commits it.
ShowScene(s) ==
  /\ engine.alive
  /\ s \in manager.built
  /\ manager' = [manager EXCEPT !.active = s]
  /\ engine' = Committed(engine, s)
  /\ UNCHANGED <<passes, stored, panel>>

\* The select, setQuality of the controller and what it stores
ChooseQuality(q) ==
  LET e == WithQuality(engine, q)
  IN  /\ panel' = [panel EXCEPT !.select = q]
      /\ stored' = [stored EXCEPT !.quality = q]
      /\ UNCHANGED passes
      /\ IF engine.alive
         THEN engine' = e /\ manager' = Synced(manager, e)
         ELSE UNCHANGED <<engine, manager>>

\* pushFX: all toggles become overrides, and are stored.
Pushed(fx) == fx

\* A toggle: pushFX, setFXOptions, applyFX of scenes.js
Toggle(k) ==
  LET flipped == [panel.toggles EXCEPT ![k] = IF @ = "on" THEN "off" ELSE "on"]
      e == WithFX(engine, flipped)
  IN  /\ panel' = [panel EXCEPT !.toggles = flipped]
      /\ stored' = [stored EXCEPT !.fx = Pushed(flipped)]
      /\ UNCHANGED passes
      /\ IF engine.alive
         THEN /\ engine' = e
              /\ manager' = Told(manager, Preferred(e).shafts, manager.ratio)
         ELSE UNCHANGED <<engine, manager>>

\* destroy, and the fallback to the 2D sky
EngineEnds ==
  /\ engine.alive
  /\ engine' = [engine EXCEPT !.alive = FALSE]
  /\ UNCHANGED <<passes, manager, stored, panel>>

\* init3D of a page that finds the settings of an earlier one
Reload ==
  LET e == StartedEngine(manager.active)
  IN  /\ engine' = e
      /\ passes' = NewPasses
      /\ manager' = StartedManager(manager.active, e)
      /\ panel' = StartedPanel(e)
      /\ UNCHANGED stored

Init ==
  /\ stored \in [quality : Tiers \cup {"auto"}, fx : {NoFX}]
  /\ \E s \in ScenePair : /\ engine = StartedEngine(s)
                       /\ manager = StartedManager(s, engine)
  /\ passes = NewPasses
  /\ panel = StartedPanel(engine)

Next ==
  \/ \E slow, poll, fails \in BOOLEAN : Frame(slow, poll, fails)
  \/ \E s \in ScenePair : PrepareScene(s) \/ ShowScene(s)
  \/ \E q \in Tiers \cup {"auto"} : ChooseQuality(q)
  \/ \E k \in FX : Toggle(k)
  \/ EngineEnds
  \/ Reload

Spec == Init /\ [][Next]_vars

-----------------------------------------------------------------------------
TypeOK ==
  /\ engine.mode \in {"auto", "manual"}
  /\ engine.tier \in Tiers
  /\ engine.pending \in Tiers \cup {None}
  /\ engine.fx \in [FX -> {None, "on", "off"}]
  /\ engine.map \in {0, 1024, 2048} /\ engine.cast \in {0, 1024, 2048}
  /\ passes \in [bloom : {"on", "off"}, shafts : {"on", "off"}]
  /\ manager.active \in manager.built
  /\ manager.built \subseteq ScenePair
  /\ stored.quality \in Tiers \cup {"auto"}
  /\ panel.toggles \in [FX -> {"on", "off"}]

Settled == engine.alive /\ engine.pending = None /\ ~engine.fxPending

DrawsPreferred ==
  /\ passes.bloom = (IF Hdr /\ manager.active # "sky"
                     THEN Preferred(engine).bloom ELSE "off")
  /\ passes.shafts = (IF Hdr THEN Preferred(engine).shafts ELSE "off")
  /\ engine.source => (engine.cast > 0 <=> Preferred(engine).shadows = "on")

\* The passes as createPostFX made them, and no shadows, whatever is preferred.
DrawsAsCreated ==
  /\ passes = NewPasses
  /\ engine.source => engine.cast = 0

\* Nothing of the page has ever asked for applyFX: it started in a scene that
\* suppresses nothing, in the tier it was created with, without toggles, and has
\* been left like that.
NeverAsked ==
  /\ ~engine.applied
  /\ stored.fx = NoFX
  /\ engine.tier = AutoStartTier
  /\ manager.active # "sky"

(* Between a scene that suppresses bloom, a tier that the watchdog or the
   person changes, a toggle and a shadow source that appears in the first
   tick, no order leaves a frame with effects that differ from the preferred
   ones, with one exception in the code.  applyFX runs when something changes
   and not at the start: a page that starts in the city or the forest, in the
   automatic mode (or its tier) and with no toggles stored, draws no shadows and
   all passes, until the first change (engine.js:161, 206-256, 436). *)
DrawnAsPreferred ==
  Settled => \/ engine.applied /\ DrawsPreferred
             \/ NeverAsked /\ DrawsAsCreated

(* A quality that the person chose is what is stored, shown and drawn until
   the next choice: no watchdog of the automatic mode comes late, and nothing
   but a choice makes the tier better (engine.js:232-241, 467-479). *)
ChoiceIsKept ==
  /\ panel.select = stored.quality
  /\ engine.alive /\ stored.quality # "auto" => Upcoming(engine) = stored.quality

\* What a panel shows that was opened in tier t, with no toggles stored
TogglesOf(t) == [k \in FX |-> TierDefault(t, k)]

(* Once the person has used a toggle, panel, store and engine agree about
   all of them, whatever tiers, scenes and reloads follow.  Before that the
   engine follows its tier, and the panel shows some tier: the one in which it
   was created.  It does not follow a tier that is chosen, or stepped down to,
   later, although it is to "represent the user's/tier preference"
   (display-settings.js:30-39, 46-56, 64-70; scenes.js:465-468). *)
TogglesAgree ==
  /\ stored.fx # NoFX =>
       /\ panel.toggles = stored.fx
       /\ engine.alive => Preferred(engine) = stored.fx
  /\ stored.fx = NoFX =>
       /\ panel.toggles \in {TogglesOf(t) : t \in Tiers}
       /\ engine.alive => Preferred(engine) = TogglesOf(Upcoming(engine))

(* A scene that is built late has been told what the others were told
   (scene-manager.js:75-79). *)
ScenesAreTold == \A s \in manager.built : manager.told[s] = Settings(manager)
=============================================================================
