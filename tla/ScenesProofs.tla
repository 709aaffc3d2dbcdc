---------------------------- MODULE ScenesProofs -----------------------------
(***************************************************************************)
(* Proofs about what the room page shows in 3D: how the scenes fail, what  *)
(* moves in the sky and in the scenes, the settings, the palette of an     *)
(* hour, the towers of the city.                                           *)
(***************************************************************************)
EXTENDS MCScenes, TLAPS

(***************************************************************************)
(* A scene that throws costs itself only, and nothing leaves the person in *)
(* the dark, for any set of scenes.  Before the first snapshot the manager *)
(* may show a scene that has failed since it was prepared.  A call of all  *)
(* scenes recovers from that, a frame's call of the active one does not:   *)
(* hence the exception in OnlySkyEnds3D.                                   *)
(***************************************************************************)
Managers == [built : SUBSET Scenes, failed : SUBSET Scenes, active : Scenes,
             visible : SUBSET Scenes, celestial : BOOLEAN]

Switches == [pc : {"idle", "compiling", "dimmed", "presenting", "rendered"},
             wanted : Scenes, resolved : Scenes, scene : BOOLEAN]

\* A manager that shows a scene that it has built, and which does not have to
\* have noticed yet that it failed.
Coherent(m) ==
  /\ m \in Managers
  /\ Sky \in m.built
  /\ m.active \in m.built
  /\ Sky \notin m.failed /\ m.active \notin m.failed => m.visible = {m.active}

\* A manager that has noticed.
HasRecovered(m) == Sky \notin m.failed => m.active \notin m.failed

\* Every activation calls the scene, once there is a snapshot to call it with.
Sound(m) == Coherent(m) /\ (m.celestial => HasRecovered(m))

\* Nothing that was built is taken down, nothing that failed is tried again.
Grows(m, n) == m.built \subseteq n.built /\ m.failed \subseteq n.failed

\* What a switch is to show has been built, or there is no scene left at all.
Prepared(m, p) ==
  p.pc \in {"compiling", "dimmed"} =>
    p.resolved \in m.built /\ (~p.scene => Sky \in m.failed)

DimsForSwitch ==
  canvas = "dim" /\ Operational /\ ~fallback =>
    switch.pc \in {"dimmed", "presenting", "rendered"}

HidesBehindEngine == is3d => engine # "gone"

SceneInv ==
  /\ TypeOK
  /\ Sound(manager)
  /\ Prepared(manager, switch)
  /\ DimsForSwitch
  /\ HidesBehindEngine

(* What markFailed changes. *)
LEMMA FailedFields ==
  ASSUME NEW m \in Managers, NEW names \in SUBSET Scenes
  PROVE  LET f == Failed(m, names)
         IN  /\ f \in Managers
             /\ f.built = m.built /\ f.failed = m.failed \cup names
             /\ f.active = m.active /\ f.celestial = m.celestial
             /\ f.visible = m.visible \ names
BY DEF Failed, Managers

(* A call into the scenes ends with a manager that has recovered, whichever
   of them throw (scene-manager.js, recoverActiveScene). *)
LEMMA CallsRecover ==
  ASSUME NEW m, Coherent(m), NEW broken \in SUBSET Scenes
  PROVE  /\ Coherent(Called(m, broken))
         /\ HasRecovered(Called(m, broken))
         /\ Grows(m, Called(m, broken))
         /\ Called(m, broken).celestial = m.celestial
<1> DEFINE names == broken \cap Live(m)
           f == Failed(m, names)
<1>1. names \in SUBSET Scenes /\ names \subseteq Live(m)
  BY DEF Live
<1> HIDE DEF names
<1>2. /\ f \in Managers
      /\ f.built = m.built /\ f.failed = m.failed \cup names
      /\ f.active = m.active /\ f.celestial = m.celestial
      /\ f.visible = m.visible \ names
  BY <1>1, FailedFields DEF Coherent, Live
<1>3. Called(m, broken) = Recovered(f)
  BY DEF Called, names
<1> HIDE DEF f
<1>4. CASE f.active \in f.failed /\ f.active # Sky
  <2>1. /\ Recovered(f) \in Managers
        /\ Recovered(f).active = Sky
        /\ Recovered(f).visible = {Sky} \cap Live(f)
        /\ Recovered(f).built = f.built /\ Recovered(f).failed = f.failed
        /\ Recovered(f).celestial = f.celestial
    BY <1>2, <1>4, SkyIsAScene DEF Recovered, ShowFallback, Managers
  <2> QED
    BY <1>2, <1>3, <2>1, SkyIsAScene DEF Coherent, HasRecovered, Grows, Live
<1>5. CASE ~(f.active \in f.failed /\ f.active # Sky)
  <2>1. Recovered(f) = f
    BY <1>5 DEF Recovered
  <2>2. HasRecovered(f)
    BY <1>5 DEF HasRecovered
  <2>3. Sky \notin f.failed => f.visible = {f.active}
    BY <1>2, <2>2 DEF Coherent, HasRecovered
  <2> QED
    BY <1>2, <1>3, <2>1, <2>2, <2>3 DEF Coherent, Grows
<1> QED BY <1>4, <1>5

(* An update of the active scene, or of its light, leaves the fallback to
   somebody else when that scene has failed before; when it fails now, the sky
   takes its place (scene-manager.js, update and setLightDirection). *)
LEMMA UpdateFallsBack ==
  ASSUME NEW m, Coherent(m), NEW broken \in SUBSET Scenes
  PROVE  /\ Coherent(Updated(m, broken))
         /\ HasRecovered(m) => HasRecovered(Updated(m, broken))
         /\ Grows(m, Updated(m, broken))
         /\ Updated(m, broken).celestial = m.celestial
<1> DEFINE lost == Failed(m, {m.active})
           sky  == ShowFallback(lost)
           too  == broken \cap Live(m) \cap {Sky}
<1>1. m \in Managers /\ {m.active} \in SUBSET Scenes /\ too \in SUBSET Scenes
  BY SkyIsAScene DEF Coherent, Managers
<1>2. /\ lost \in Managers
      /\ lost.built = m.built /\ lost.failed = m.failed \cup {m.active}
      /\ lost.active = m.active /\ lost.celestial = m.celestial
  BY <1>1, FailedFields
<1> HIDE DEF lost
<1>3. /\ sky \in Managers
      /\ sky.built = lost.built /\ sky.failed = lost.failed
      /\ sky.active = Sky /\ sky.celestial = lost.celestial
      /\ sky.visible = {Sky} \cap Live(lost)
  BY <1>2, SkyIsAScene DEF ShowFallback, Managers
<1> HIDE DEF sky
<1>4. /\ Failed(sky, too) \in Managers
      /\ Failed(sky, too).built = sky.built
      /\ Failed(sky, too).failed = sky.failed \cup too
      /\ Failed(sky, too).active = sky.active
      /\ Failed(sky, too).celestial = sky.celestial
      /\ Failed(sky, too).visible = sky.visible \ too
  BY <1>1, <1>3, FailedFields
<1>5. \/ Updated(m, broken) = m
      \/ m.active = Sky /\ Updated(m, broken) = lost
      \/ m.active # Sky /\ Updated(m, broken) = Failed(sky, too)
  BY DEF Updated, lost, sky
<1>6. CASE Updated(m, broken) = m
  BY <1>6 DEF Grows
<1>7. CASE m.active = Sky /\ Updated(m, broken) = lost
  BY <1>2, <1>7 DEF Coherent, HasRecovered, Grows
<1>8. CASE m.active # Sky /\ Updated(m, broken) = Failed(sky, too)
  <2> DEFINE u == Failed(sky, too)
  <2>1. /\ u.built = m.built /\ u.failed = m.failed \cup {m.active} \cup too
        /\ u.active = Sky /\ u.celestial = m.celestial
        /\ u.visible = ({Sky} \cap Live(lost)) \ too
    BY <1>2, <1>3, <1>4
  <2> HIDE DEF u
  <2>2. Sky \notin u.failed => u.visible = {Sky}
    BY <1>2, <1>8, <2>1 DEF Coherent, Live
  <2>3. u \in Managers /\ Updated(m, broken) = u
    BY <1>4, <1>8 DEF u
  <2>4. Coherent(u) /\ HasRecovered(u) /\ Grows(m, u)
    BY <2>1, <2>2, <2>3 DEF Coherent, HasRecovered, Grows
  <2> QED BY <2>1, <2>3, <2>4
<1> QED BY <1>5, <1>6, <1>7, <1>8

(* A manager that has recovered is hopeless for a failed sky only. *)
LEMMA HopelessForSky ==
  ASSUME NEW m, Coherent(m), HasRecovered(m), Hopeless(m)
  PROVE  Sky \in m.failed
BY DEF Hopeless, Available, Live, Coherent, HasRecovered

(* What ensureScene builds or fails leaves the rest alone, and prepareScene
   resolves to a scene that works, or to the sky (scene-manager.js). *)
LEMMA EnsuresScene ==
  ASSUME NEW m, Sound(m), NEW name \in Scenes, NEW broken \in SUBSET Scenes
  PROVE  LET n == Ensured(m, name, broken)
         IN  /\ Sound(n)
             /\ Grows(m, n)
             /\ Resolved(n, name) \in n.built
             /\ Resolved(n, name) \notin Live(n) => Sky \in n.failed
<1> SUFFICES ASSUME NEW n, n = Ensured(m, name, broken)
             PROVE  /\ Sound(n)
                    /\ Grows(m, n)
                    /\ Resolved(n, name) \in n.built
                    /\ Resolved(n, name) \notin Live(n) => Sky \in n.failed
  OBVIOUS
<1>1. \/ n = m
      \/ name \notin m.built /\ n = Failed(m, {name})
      \/ n = [m EXCEPT !.built = @ \cup {name}]
  BY DEF Ensured
<1>2. m \in Managers
  BY DEF Sound, Coherent
<1>3. CASE name \notin m.built /\ n = Failed(m, {name})
  <2>1. /\ n \in Managers
        /\ n.built = m.built /\ n.failed = m.failed \cup {name}
        /\ n.active = m.active /\ n.celestial = m.celestial
        /\ n.visible = m.visible \ {name}
    BY <1>2, <1>3, FailedFields
  <2>2. name # Sky /\ name # m.active
    BY <1>3 DEF Sound, Coherent
  <2>3. Sound(n) /\ Grows(m, n)
    BY <2>1, <2>2 DEF Sound, Coherent, HasRecovered, Grows
  <2> QED BY <2>3 DEF Sound, Coherent, Resolved, Live
<1>4. CASE n = [m EXCEPT !.built = @ \cup {name}]
  <2>1. /\ n \in Managers
        /\ n.built = m.built \cup {name} /\ n.failed = m.failed
        /\ n.active = m.active /\ n.celestial = m.celestial
        /\ n.visible = m.visible
    BY <1>2, <1>4 DEF Managers
  <2>2. Sound(n) /\ Grows(m, n)
    BY <2>1 DEF Sound, Coherent, HasRecovered, Grows
  <2> QED BY <2>2 DEF Sound, Coherent, Resolved, Live
<1>5. CASE n = m
  BY <1>5 DEF Sound, Coherent, Grows, Resolved, Live
<1> QED BY <1>1, <1>3, <1>4, <1>5

(* The activation of a prepared scene leaves it shown, and working if it has
   been called, or else the sky (activatePreparedScene). *)
LEMMA ActivationIsSound ==
  ASSUME NEW m, Sound(m), NEW name \in m.built, NEW scene \in BOOLEAN,
         ~scene => Sky \in m.failed, NEW broken \in SUBSET Scenes
  PROVE  LET n == Activated(m, name, scene, broken)
         IN  Sound(n) /\ Grows(m, n) /\ n.celestial = m.celestial
<1> DEFINE shown == [m EXCEPT !.active = name,
                              !.visible = IF scene THEN {name} ELSE {}]
           lost  == Failed(shown, {name})
           n     == Activated(m, name, scene, broken)
<1>1. name \in Scenes
  BY DEF Sound, Coherent, Managers
<1>2. /\ shown \in Managers
      /\ shown.built = m.built /\ shown.failed = m.failed
      /\ shown.active = name /\ shown.celestial = m.celestial
      /\ shown.visible = IF scene THEN {name} ELSE {}
  BY <1>1 DEF Sound, Coherent, Managers
<1>3. n = IF scene /\ m.celestial /\ ~StillWorks(m, name, broken)
          THEN IF name # Sky THEN ShowFallback(lost) ELSE lost
          ELSE shown
  BY DEF Activated
<1> HIDE DEF shown
<1>4. /\ lost \in Managers
      /\ lost.built = m.built /\ lost.failed = m.failed \cup {name}
      /\ lost.active = name /\ lost.celestial = m.celestial
  BY <1>1, <1>2, FailedFields
<1> HIDE DEF lost, n
<1>5. CASE n = ShowFallback(lost)
  <2>1. /\ n \in Managers
        /\ n.built = m.built /\ n.failed = m.failed \cup {name}
        /\ n.active = Sky /\ n.celestial = m.celestial
        /\ n.visible = {Sky} \cap Live(lost)
    BY <1>4, <1>5, SkyIsAScene DEF ShowFallback, Managers
  <2>2. Sound(n) /\ Grows(m, n)
    BY <1>4, <2>1 DEF Sound, Coherent, HasRecovered, Grows, Live
  <2> QED BY <2>1, <2>2 DEF n
<1>6. CASE name = Sky /\ n = lost
  <2>1. Sound(n) /\ Grows(m, n)
    BY <1>4, <1>6 DEF Sound, Coherent, HasRecovered, Grows
  <2> QED BY <1>4, <1>6, <2>1 DEF n
<1>7. CASE n = shown /\ ~(scene /\ m.celestial /\ ~StillWorks(m, name, broken))
  <2>1. Sound(n) /\ Grows(m, n)
    BY <1>2, <1>7 DEF Sound, Coherent, HasRecovered, Grows, StillWorks
  <2> QED BY <1>2, <1>7, <2>1 DEF n
<1> QED BY <1>3, <1>5, <1>6, <1>7

(* What was prepared stays so while the manager grows, and what a switch has
   shown needs no preparation. *)
LEMMA PreparedLater ==
  ASSUME NEW m, NEW n, Grows(m, n), NEW p, Prepared(m, p)
  PROVE  Prepared(n, p)
BY DEF Prepared, Grows

(* The step of a switch that activates its scene, stores and announces it and
   renders the last snapshot (scenes.js, switchScene and renderScene). *)
LEMMA ShowKeeps ==
  ASSUME NEW m, Sound(m), NEW p \in Switches, p.pc \in {"compiling", "dimmed"},
         Prepared(m, p), NEW broken \in SUBSET Scenes, Show(m, p, broken),
         fallback \in BOOLEAN, announced \in Scenes
  PROVE  /\ Sound(manager') /\ Grows(m, manager')
         /\ switch' \in Switches /\ switch'.pc = "presenting"
         /\ activeScene' \in Scenes /\ announced' \in Scenes
         /\ fallback' \in BOOLEAN
         /\ fallback' => fallback \/ Sky \in manager'.failed
<1> DEFINE shown    == Activated(m, p.resolved, p.scene, broken)
           rendered == Called(shown, broken)
<1>1. Sound(shown) /\ Grows(m, shown) /\ shown.celestial = m.celestial
  BY ActivationIsSound DEF Prepared, Switches
<1>2. /\ Coherent(rendered) /\ HasRecovered(rendered)
      /\ Grows(shown, rendered) /\ rendered.celestial = shown.celestial
  BY <1>1, CallsRecover DEF Sound
<1>3. shown.active \in Scenes /\ rendered.active \in Scenes
  BY <1>1, <1>2 DEF Sound, Coherent, Managers
<1>4. switch' = [p EXCEPT !.pc = "presenting", !.resolved = shown.active]
  BY DEF Show
<1>5. \/ manager' = rendered /\ fallback' = (fallback \/ Hopeless(rendered))
      \/ manager' = shown /\ fallback' = fallback
  BY DEF Show
<1>6. \/ Commit(shown.active, p.wanted)
      \/ Commit(rendered.active, p.wanted)
  BY DEF Show
<1> HIDE DEF shown, rendered
<1>7. switch' \in Switches /\ switch'.pc = "presenting"
  BY <1>3, <1>4 DEF Switches
<1>8. activeScene' \in Scenes /\ announced' \in Scenes
  BY <1>3, <1>6 DEF Commit
<1>9. Hopeless(rendered) => Sky \in rendered.failed
  BY <1>2, HopelessForSky
<1>10. Sound(rendered) /\ Grows(m, rendered)
  BY <1>1, <1>2 DEF Sound, Grows
<1>11. fallback' \in BOOLEAN
  BY <1>5 DEF Hopeless
<1>12. \/ manager' = rendered /\ (fallback' => fallback \/ Sky \in rendered.failed)
       \/ manager' = shown /\ fallback' = fallback
  BY <1>5, <1>9
<1> QED BY <1>1, <1>7, <1>8, <1>10, <1>11, <1>12

(* A switch shows its scene at once, or dims the canvas first. *)
LEMMA DimAndShowKeeps ==
  ASSUME SceneInv, NEW m, Sound(m), Grows(manager, m), NEW p \in Switches,
         p.pc = "compiling", Prepared(m, p), NEW broken \in SUBSET Scenes,
         DimAndShow(m, p, broken)
  PROVE  SceneInv' /\ (GivesUp => Sky \in manager'.failed)
<1>1. Operational /\ UNCHANGED EngineVars
  BY DEF DimAndShow, Current
<1>2. CASE Show(m, p, broken) /\ UNCHANGED canvas
  <2>1. /\ Sound(manager') /\ Grows(m, manager')
        /\ switch' \in Switches /\ switch'.pc = "presenting"
        /\ activeScene' \in Scenes /\ announced' \in Scenes
        /\ fallback' \in BOOLEAN
        /\ fallback' => fallback \/ Sky \in manager'.failed
    BY <1>2, ShowKeeps DEF SceneInv, TypeOK
  <2>2. TypeOK'
    BY <1>1, <1>2, <2>1 DEF SceneInv, TypeOK, EngineVars, Sound, Coherent, Managers, Switches
  <2>3. Prepared(manager', switch')
    BY <2>1 DEF Prepared
  <2>4. DimsForSwitch' /\ HidesBehindEngine'
    BY <1>1, <2>1 DEF SceneInv, EngineVars, DimsForSwitch,
                      HidesBehindEngine, Operational, Grows
  <2> QED BY <2>1, <2>2, <2>3, <2>4 DEF SceneInv, GivesUp
<1>3. CASE /\ canvas' = "dim" /\ manager' = m
           /\ switch' = [p EXCEPT !.pc = "dimmed"]
           /\ UNCHANGED <<fallback, activeScene, announced>>
  <2>1. /\ switch' \in Switches /\ switch'.pc = "dimmed"
        /\ switch'.resolved = p.resolved /\ switch'.scene = p.scene
    BY <1>3 DEF Switches
  <2>2. TypeOK'
    BY <1>1, <1>3, <2>1 DEF SceneInv, TypeOK, EngineVars, Sound, Coherent, Managers, Switches
  <2>3. Prepared(manager', switch')
    BY <1>3, <2>1 DEF Prepared
  <2>4. DimsForSwitch' /\ HidesBehindEngine'
    BY <1>1, <1>3, <2>1 DEF SceneInv, EngineVars, DimsForSwitch,
                            HidesBehindEngine, Operational, Grows
  <2> QED BY <1>3, <2>1, <2>2, <2>3, <2>4 DEF SceneInv, GivesUp
<1> QED BY <1>2, <1>3 DEF DimAndShow

(* A frame and a snapshot give 3D up when no scene is left to show, and store
   the scene that the manager shows otherwise (reconcileManagedScene). *)
LEMMA SettleKeeps ==
  ASSUME SceneInv, NEW m, Sound(m), Settle(m)
  PROVE  /\ manager' = m
         /\ activeScene' \in Scenes /\ announced' \in Scenes
         /\ fallback' \in BOOLEAN /\ (fallback => fallback')
         /\ GivesUp => Hopeless(m)
<1>1. manager' = m /\ m.active \in Scenes
  BY DEF Settle, Sound, Coherent, Managers
<1>2. CASE Hopeless(m)
  <2>1. fallback' = TRUE /\ UNCHANGED <<activeScene, announced>>
    BY <1>2 DEF Settle
  <2> QED BY <1>1, <1>2, <2>1 DEF SceneInv, TypeOK
<1>3. CASE ~Hopeless(m)
  <2>1. Commit(m.active, activeScene) /\ UNCHANGED fallback
    BY <1>3 DEF Settle, Reconcile
  <2> QED BY <1>1, <2>1 DEF Commit, SceneInv, TypeOK, GivesUp
<1> QED BY <1>2, <1>3

(* The choice of a scene and the awaits of its switch (scenes.js,
   switchScene). *)
LEMMA SwitchStepKeeps ==
  ASSUME SceneInv, NEW broken \in SUBSET Scenes, SwitchStep(broken)
  PROVE  SceneInv' /\ (GivesUp => Sky \in manager'.failed)
<1> USE DEF EngineVars, Return, GivesUp
<1>1. TypeOK /\ Sound(manager) /\ switch \in Switches /\ Idle \in Switches /\ Idle.pc = "idle"
  BY SkyIsAScene DEF SceneInv, TypeOK, Switches, Idle
<1>2. ASSUME NEW name \in Scenes, ChooseShown(name) \/ ChooseWithoutEngine(name)
      PROVE  SceneInv' /\ (GivesUp => Sky \in manager'.failed)
  <2>1. /\ manager' = manager /\ fallback' = fallback /\ switch' = Idle
        /\ engine' = engine /\ content' = content /\ is3d' = is3d
        /\ activeScene' \in Scenes /\ announced' \in Scenes
        /\ canvas' = "full" \/ (canvas' = canvas /\ ~Operational)
    BY <1>1, <1>2, SkyIsAScene DEF ChooseShown, ChooseWithoutEngine, TypeOK, Operational
  <2>2. TypeOK'
    BY <1>1, <2>1 DEF TypeOK, Switches
  <2> QED
    BY <1>1, <2>1, <2>2 DEF SceneInv, Prepared, DimsForSwitch,
                            HidesBehindEngine, Operational
<1>3. ASSUME NEW name \in Scenes, ChooseScene(name, broken)
      PROVE  SceneInv' /\ (GivesUp => Sky \in manager'.failed)
  <2> DEFINE m == Ensured(manager, name, broken)
  <2>1. /\ Sound(m) /\ Grows(manager, m)
        /\ Resolved(m, name) \in m.built
        /\ Resolved(m, name) \notin Live(m) => Sky \in m.failed
    BY <1>1, EnsuresScene
  <2>2. /\ manager' = m /\ canvas' = "full"
        /\ switch' = [pc |-> "compiling", wanted |-> name, resolved |-> Resolved(m, name),
                      scene |-> Resolved(m, name) \in Live(m)]
        /\ UNCHANGED <<fallback, activeScene, announced, engine, content, is3d>>
    BY <1>3 DEF ChooseScene
  <2> HIDE DEF m
  <2>3. m \in Managers /\ Resolved(m, name) \in Scenes /\ Sky \in m.built
    BY <2>1 DEF Sound, Coherent, Managers
  <2>4. switch' \in Switches
    BY <2>2, <2>3 DEF Switches
  <2>5. TypeOK'
    BY <1>1, <2>2, <2>3, <2>4 DEF TypeOK, Managers, Switches
  <2>6. Prepared(manager', switch')
    BY <2>1, <2>2 DEF Prepared
  <2>7. DimsForSwitch' /\ HidesBehindEngine'
    BY <2>1, <2>2 DEF SceneInv, DimsForSwitch, HidesBehindEngine,
                      Operational, Grows
  <2> QED BY <2>1, <2>2, <2>5, <2>6, <2>7 DEF SceneInv
<1>4. ASSUME NEW name \in Scenes, GiveUp(name)
      PROVE  SceneInv' /\ (GivesUp => Sky \in manager'.failed)
  <2>1. /\ ~Operational /\ switch' = Idle /\ announced' = name
        /\ UNCHANGED <<manager, fallback, activeScene, canvas, engine, content, is3d>>
    BY <1>4 DEF GiveUp, Current
  <2>2. TypeOK'
    BY <1>1, <2>1 DEF TypeOK, Switches
  <2> QED
    BY <1>1, <2>1, <2>2 DEF SceneInv, Prepared, DimsForSwitch,
                            HidesBehindEngine, Operational
<1>5. CASE Compiled(broken)
  <2>1. CASE GiveUp(activeScene)
    BY <1>1, <1>4, <2>1 DEF TypeOK
  <2>2. CASE DimAndShow(manager, switch, broken)
    BY <1>1, <1>5, <2>2, DimAndShowKeeps DEF Compiled, SceneInv, Grows
  <2> QED BY <1>5, <2>1, <2>2 DEF Compiled
<1>6. CASE CompileFails(broken)
  <2> DEFINE m == Called(manager, {switch.resolved})
             p == [switch EXCEPT !.resolved = Sky, !.scene = Sky \in Live(m)]
  <2>1. {switch.resolved} \in SUBSET Scenes
    BY <1>1 DEF Switches
  <2>2. /\ Coherent(m) /\ HasRecovered(m) /\ Grows(manager, m)
        /\ m.celestial = manager.celestial
    BY <1>1, <2>1, CallsRecover DEF Sound
  <2>3. switch.pc = "compiling"
    BY <1>6 DEF CompileFails
  <2>4. \/ GiveUp(activeScene)
        \/ /\ Current /\ Hopeless(m) /\ manager' = m /\ fallback' = TRUE
           /\ switch' = Idle /\ announced' = Sky
           /\ UNCHANGED <<activeScene, canvas, engine, content, is3d>>
        \/ DimAndShow(m, p, broken)
    BY <1>6 DEF CompileFails
  <2> HIDE DEF m
  <2> DEFINE alive == Sky \in Live(m)
  <2>10. alive \in BOOLEAN /\ p = [switch EXCEPT !.resolved = Sky, !.scene = alive]
    OBVIOUS
  <2> HIDE DEF alive
  <2>11. p \in Switches /\ p.pc = "compiling" /\ p.resolved = Sky /\ p.scene = alive
    BY <1>1, <2>3, <2>10, SkyIsAScene DEF Switches
  <2>5. p \in Switches /\ p.pc = "compiling" /\ p.resolved = Sky
        /\ (p.scene <=> Sky \in Live(m))
    BY <2>11 DEF alive
  <2>6. Prepared(m, p)
    BY <2>2, <2>5 DEF Prepared, Coherent, Live
  <2> HIDE DEF p
  <2>7. CASE GiveUp(activeScene)
    BY <1>1, <1>4, <2>7 DEF TypeOK
  <2>8. CASE /\ Current /\ Hopeless(m) /\ manager' = m /\ fallback' = TRUE
             /\ switch' = Idle /\ announced' = Sky
             /\ UNCHANGED <<activeScene, canvas, engine, content, is3d>>
    <3>1. Sound(m) /\ Sky \in m.failed
      BY <2>2, <2>8, HopelessForSky DEF Sound
    <3>2. TypeOK'
      BY <1>1, <2>2, <2>8, SkyIsAScene DEF TypeOK, Switches, Coherent, Managers
    <3> QED
      BY <1>1, <2>8, <3>1, <3>2 DEF SceneInv, Prepared, DimsForSwitch,
                                    HidesBehindEngine
  <2>9. CASE DimAndShow(m, p, broken)
    BY <2>2, <2>5, <2>6, <2>9, DimAndShowKeeps DEF Sound
  <2> QED BY <2>4, <2>7, <2>8, <2>9
<1>7. CASE DimmingEnds(broken)
  <2>1. CASE GiveUp(Sky)
    BY <1>4, <2>1, SkyIsAScene
  <2>2. CASE /\ Operational /\ Show(manager, switch, broken)
             /\ UNCHANGED <<canvas, engine, content, is3d>>
    <3>1. switch.pc = "dimmed"
      BY <1>7 DEF DimmingEnds
    <3>2. /\ Sound(manager') /\ Grows(manager, manager')
          /\ switch' \in Switches /\ switch'.pc = "presenting"
          /\ activeScene' \in Scenes /\ announced' \in Scenes
          /\ fallback' \in BOOLEAN
          /\ fallback' => fallback \/ Sky \in manager'.failed
      BY <1>1, <2>2, <3>1, ShowKeeps DEF SceneInv, TypeOK
    <3>3. TypeOK'
      BY <1>1, <2>2, <3>2 DEF TypeOK, Sound, Coherent, Managers, Switches
    <3>4. Prepared(manager', switch')
      BY <3>2 DEF Prepared
    <3>5. DimsForSwitch' /\ HidesBehindEngine'
      BY <2>2, <3>2 DEF SceneInv, DimsForSwitch, HidesBehindEngine,
                        Operational, Grows
    <3> QED BY <3>2, <3>3, <3>4, <3>5 DEF SceneInv
  <2> QED BY <1>7, <2>1, <2>2 DEF DimmingEnds, Current
<1> QED BY <1>2, <1>3, <1>5, <1>6, <1>7 DEF SwitchStep

(* Frames, snapshots and settings, with whatever scenes throw in them. *)
LEMMA EngineStepKeeps ==
  ASSUME SceneInv, NEW broken \in SUBSET Scenes, EngineStep(broken)
  PROVE  SceneInv' /\ (GivesUp /\ HasRecovered(manager) => Sky \in manager'.failed)
<1>1. TypeOK /\ Sound(manager) /\ switch \in Switches
  BY DEF SceneInv, TypeOK, Switches
<1>2. ASSUME NEW m, Sound(m), Grows(manager, m), Settle(m),
             HasRecovered(manager) => HasRecovered(m),
             content' \in 0..4, switch' \in Switches,
             switch' = switch \/ switch'.pc = "rendered",
             UNCHANGED <<engine, canvas, is3d>>
      PROVE  SceneInv' /\ (GivesUp /\ HasRecovered(manager) => Sky \in manager'.failed)
  <2>1. /\ manager' = m
        /\ activeScene' \in Scenes /\ announced' \in Scenes
        /\ fallback' \in BOOLEAN /\ (fallback => fallback')
        /\ GivesUp => Hopeless(m)
    BY <1>2, SettleKeeps
  <2>2. TypeOK'
    BY <1>1, <1>2, <2>1 DEF TypeOK, Sound, Coherent, Managers, Switches
  <2>3. Prepared(manager', switch')
    <3>1. CASE switch' = switch
      BY <1>2, <2>1, <3>1, PreparedLater DEF SceneInv
    <3>2. CASE switch'.pc = "rendered"
      BY <3>2 DEF Prepared
    <3> QED BY <1>2, <3>1, <3>2
  <2>4. DimsForSwitch' /\ HidesBehindEngine'
    BY <1>2, <2>1 DEF SceneInv, DimsForSwitch, HidesBehindEngine,
                      Operational, Grows
  <2>5. GivesUp /\ HasRecovered(manager) => Sky \in manager'.failed
    BY <1>2, <2>1, HopelessForSky DEF Sound
  <2> QED BY <1>2, <2>1, <2>2, <2>3, <2>4, <2>5 DEF SceneInv
<1>3. CASE Frame(broken)
  <2>1. PICK changed \in BOOLEAN :
          Settle(Updated(IF changed THEN Called(manager, broken) ELSE manager, broken))
    BY <1>3 DEF Frame
  <2> DEFINE asked == IF changed THEN Called(manager, broken) ELSE manager
             m == Updated(asked, broken)
  <2>2. /\ Coherent(asked) /\ Grows(manager, asked)
        /\ HasRecovered(manager) => HasRecovered(asked)
        /\ asked.celestial = manager.celestial
    BY <1>1, CallsRecover DEF Sound, Grows
  <2> HIDE DEF asked
  <2>3. /\ Coherent(m) /\ Grows(asked, m)
        /\ HasRecovered(asked) => HasRecovered(m)
        /\ m.celestial = asked.celestial
    BY <2>2, UpdateFallsBack
  <2>4. Settle(m)
    BY <2>1 DEF asked
  <2> HIDE DEF m
  <2>5. Sound(m) /\ Grows(manager, m)
    BY <1>1, <2>2, <2>3 DEF Sound, Grows
  <2>6. content' \in 0..4
    BY <1>1, <1>3 DEF Frame, Drawn, TypeOK
  <2>7. switch' \in Switches /\ (switch' = switch \/ switch'.pc = "rendered")
    BY <1>1, <1>3 DEF Frame, Switches
  <2>8. UNCHANGED <<engine, canvas, is3d>>
    BY <1>3 DEF Frame
  <2> QED BY <1>2, <2>2, <2>3, <2>4, <2>5, <2>6, <2>7, <2>8
<1>4. CASE Snapshot(broken)
  <2> DEFINE m == [manager EXCEPT !.celestial = TRUE]
  <2>1. Coherent(m) /\ Grows(manager, m)
    BY <1>1 DEF Sound, Coherent, Managers, Grows
  <2>2. /\ Coherent(Called(m, broken)) /\ HasRecovered(Called(m, broken))
        /\ Grows(m, Called(m, broken))
    BY <2>1, CallsRecover
  <2>3. content' \in 0..4
    BY <1>1, <1>4 DEF Snapshot, TypeOK
  <2>4. Settle(Called(m, broken)) /\ UNCHANGED <<engine, canvas, is3d, switch>>
    BY <1>4 DEF Snapshot
  <2> HIDE DEF m
  <2> QED BY <1>1, <1>2, <2>1, <2>2, <2>3, <2>4 DEF Grows, Sound
<1>5. CASE Settings(broken)
  <2> DEFINE m == Called(manager, broken)
  <2>1. Coherent(m) /\ HasRecovered(m) /\ Grows(manager, m)
    BY <1>1, CallsRecover DEF Sound
  <2>2. /\ manager' = m
        /\ UNCHANGED <<engine, fallback, activeScene, canvas, content, is3d, switch,
                       announced>>
    BY <1>5 DEF Settings
  <2> HIDE DEF m
  <2>3. TypeOK'
    BY <1>1, <2>1, <2>2 DEF TypeOK, Coherent, Managers
  <2>4. Prepared(manager', switch')
    BY <2>1, <2>2, PreparedLater DEF SceneInv
  <2>5. DimsForSwitch' /\ HidesBehindEngine'
    BY <2>1, <2>2 DEF SceneInv, DimsForSwitch, HidesBehindEngine,
                      Operational, Grows
  <2> QED BY <2>1, <2>2, <2>3, <2>4, <2>5 DEF SceneInv, Sound, GivesUp
<1> QED BY <1>3, <1>4, <1>5 DEF EngineStep

(* The end of the engine, and of the page (engine.js, reportFatal and the
   teardown of scenes.js). *)
LEMMA EndStepKeeps ==
  ASSUME SceneInv, EndStep
  PROVE  SceneInv'
<1>1. /\ TypeOK /\ Sound(manager) /\ switch \in Switches
      /\ Idle \in Switches /\ Idle.pc = "idle"
  BY SkyIsAScene DEF SceneInv, TypeOK, Switches, Idle
<1>2. /\ engine' \in {"fatal", "gone"} /\ UNCHANGED <<manager, canvas, content>>
      /\ engine' = "gone" => is3d' = FALSE
      /\ engine' = "fatal" => is3d' = is3d
      /\ is3d' \in BOOLEAN /\ fallback' \in BOOLEAN /\ activeScene' \in Scenes
  BY <1>1, SkyIsAScene DEF EndStep, Fatal, FallBackTo2D, Destroy, TypeOK
<1>3. switch' \in {Idle, switch} /\ announced' \in Scenes
  BY <1>1, SkyIsAScene DEF EndStep, Fatal, FallBackTo2D, Destroy, Release, Return, TypeOK
<1>4. TypeOK'
  BY <1>1, <1>2, <1>3 DEF TypeOK, Switches
<1> QED
  BY <1>1, <1>2, <1>3, <1>4 DEF SceneInv, Prepared, DimsForSwitch,
                                HidesBehindEngine, Operational

(* Every step of the 3D sky keeps the invariant. *)
LEMMA StepKeepsScenes == SceneInv /\ [Next]_vars => SceneInv'
<1> SUFFICES ASSUME SceneInv, [Next]_vars PROVE SceneInv'
  OBVIOUS
<1>1. /\ TypeOK /\ switch \in Switches /\ Idle \in Switches /\ Idle.pc = "idle"
  BY SkyIsAScene DEF SceneInv, TypeOK, Switches, Idle
<1>2. CASE Present
  <2>1. /\ switch' = Idle /\ announced' \in Scenes /\ canvas' = "full"
        /\ UNCHANGED <<manager, fallback, activeScene, engine, content, is3d>>
    BY <1>1, <1>2 DEF Present, Return, EngineVars, Switches
  <2>2. TypeOK'
    BY <1>1, <2>1 DEF TypeOK, Switches
  <2> QED
    BY <1>1, <2>1, <2>2 DEF SceneInv, Prepared, DimsForSwitch,
                            HidesBehindEngine, Operational
<1>3. CASE PublishFirstFrame
  <2>1. /\ content' = 4 /\ is3d' = TRUE /\ engine = "up"
        /\ UNCHANGED <<manager, engine, fallback, activeScene, canvas, switch, announced>>
    BY <1>3 DEF PublishFirstFrame, MayPublish, Operational
  <2>2. TypeOK'
    BY <1>1, <2>1 DEF TypeOK
  <2> QED
    BY <2>1, <2>2 DEF SceneInv, Prepared, DimsForSwitch,
                      HidesBehindEngine, Operational
<1>4. CASE UNCHANGED vars
  BY <1>4 DEF vars, SceneInv, TypeOK, Sound, Coherent, HasRecovered, Prepared,
              DimsForSwitch, HidesBehindEngine, Operational
<1> QED
  BY <1>2, <1>3, <1>4, SwitchStepKeeps, EngineStepKeeps, EndStepKeeps DEF Next, SnapshotIn2D

(* The page begins with the sky, or with the stored scene (init3D). *)
LEMMA ScenesBegin == Init => SceneInv
<1> SUFFICES ASSUME Init PROVE SceneInv
  OBVIOUS
<1>1. Idle \in Switches /\ Idle.pc = "idle"
  BY SkyIsAScene DEF Switches, Idle
<1>2. NewManager \in Managers /\ Sound(NewManager)
  BY SkyIsAScene DEF NewManager, Managers, Sound, Coherent, HasRecovered
<1>3. PICK stored \in Scenes, broken \in SUBSET (Scenes \ {Sky}) :
        LET m == Ensured(NewManager, stored, broken)
        IN  manager = Activated(m, Resolved(m, stored), TRUE, broken)
  BY DEF Init
<1> DEFINE m == Ensured(NewManager, stored, broken)
<1>4. Sound(m) /\ Resolved(m, stored) \in m.built
  BY <1>2, EnsuresScene
<1>5. Sound(manager)
  BY <1>3, <1>4, ActivationIsSound
<1>6. /\ engine \in {"up", "gone"} /\ fallback = FALSE /\ canvas = "full"
      /\ content = 0 /\ is3d = FALSE /\ switch = Idle /\ announced = activeScene
      /\ activeScene = manager.active \/ activeScene = Sky
  BY DEF Init
<1>7. manager \in Managers /\ Sky \in manager.built /\ manager.active \in Scenes
  BY <1>5 DEF Sound, Coherent, Managers
<1>8. TypeOK
  <2>1. activeScene \in Scenes /\ announced \in Scenes
    BY <1>6, <1>7, SkyIsAScene
  <2>2. engine \in {"up", "fatal", "gone"} /\ fallback \in BOOLEAN /\ is3d \in BOOLEAN
    BY <1>6
  <2>3. canvas \in {"full", "dim"} /\ content \in 0..4
    BY <1>6
  <2>4. switch \in Switches
    BY <1>1, <1>6
  <2> QED BY <1>7, <2>1, <2>2, <2>3, <2>4 DEF TypeOK, Managers, Switches
<1> QED
  BY <1>1, <1>5, <1>6, <1>8 DEF SceneInv, Prepared, DimsForSwitch,
                          HidesBehindEngine

(* 3D is given up on a working engine when the sky has failed, but for a scene
   that was activated uncalled (scene-manager.js, scenes.js). *)
LEMMA GivesUpForSky ==
  ASSUME SceneInv, Next, GivesUp, manager.celestial \/ Available(manager)
  PROVE  Sky \in manager'.failed
<1>1. HasRecovered(manager)
  BY DEF SceneInv, Sound, HasRecovered, Available, Live
<1>2. ~Present /\ ~PublishFirstFrame /\ ~SnapshotIn2D
  BY DEF GivesUp, Present, PublishFirstFrame, SnapshotIn2D, vars
<1>3. ~EndStep
  BY DEF GivesUp, EndStep, Fatal, FallBackTo2D, Destroy, Operational
<1> QED
  BY <1>1, <1>2, <1>3, SwitchStepKeeps, EngineStepKeeps DEF Next

(* For any set of scenes, whichever of them throw and whenever: the person
   loses a scene that fails and no other, and 3D for a failed sky only, once
   the scene on show has been called (scene-manager.js, recoverActiveScene,
   invoke and update; scenes.js, scheduleRuntime2DFallback). *)
THEOREM FailuresStayLocal == Spec => FailureStaysLocal
<1>1. SceneInv => ShownIsAlive
  BY DEF SceneInv, TypeOK, Sound, Coherent, HasRecovered, ShownIsAlive, Available, Live
<1>2. SceneInv /\ [Next]_vars =>
        [GivesUp /\ (manager.celestial \/ Available(manager)) =>
           Sky \in manager'.failed]_vars
  BY GivesUpForSky
<1> QED
  BY <1>1, <1>2, ScenesBegin, StepKeepsScenes, PTL
     DEF Spec, FailureStaysLocal, OnlySkyEnds3D

(* For any set of scenes, no end of a switch leaves a dimmed canvas, and the
   2D sky is hidden behind a living engine only (scenes.js, switchScene,
   publishFirstFrame and destroy). *)
THEOREM NobodySitsInTheDark == Spec => []NeverInTheDark
<1>1. SceneInv => NeverInTheDark
  <2> SUFFICES ASSUME SceneInv PROVE NeverInTheDark
    OBVIOUS
  <2>1. switch = Idle => switch.pc = "idle"
    BY DEF Idle
  <2> QED
    BY <2>1 DEF SceneInv, TypeOK, DimsForSwitch, HidesBehindEngine, NeverInTheDark
<1> QED BY <1>1, ScenesBegin, StepKeepsScenes, PTL DEF Spec

-----------------------------------------------------------------------------
(***************************************************************************)
(* The camera has no latent drag, for a window and a reach of any size.  It *)
(* follows from an invariant about the pointer: a drag that is on has its  *)
(* start where the pointer is.                                             *)
(***************************************************************************)

DragIsCurrent ==
  /\ pointer \in [x : 0 .. Width, start : 0 .. Width]
  /\ target \in -Reach .. Reach
  /\ down \in BOOLEAN
  /\ down => pointer.start = pointer.x

(* The clamp of the camera's turn moves no farther than what it clamps, from
   a turn within the reach (engine.js, onPointerMove). *)
LEMMA ClampIsShort ==
  ASSUME NEW a \in -Reach .. Reach, NEW b \in Int
  PROVE  /\ Clamped(b) \in -Reach .. Reach
         /\ Distance(a, Clamped(b)) <= Distance(a, b)
<1>0. Reach \in Nat
  BY SkyAssumption
<1>1. CASE b > Reach
  BY <1>0, <1>1 DEF Clamped, Distance
<1>2. CASE b < -Reach
  BY <1>0, <1>2 DEF Clamped, Distance
<1>3. CASE b \in -Reach .. Reach
  BY <1>0, <1>3 DEF Clamped, Distance
<1> QED BY <1>0, <1>1, <1>2, <1>3

(* A movement of the pointer turns the camera as far as it has come, and
   leaves the drag at the new place. *)
LEMMA MoveIsCurrent ==
  ASSUME DragIsCurrent, NEW x \in 0 .. Width, PointerMove(x)
  PROVE  DragIsCurrent' /\ TurnsWithPointer
<1>1. x \in Int /\ pointer.x \in Int /\ pointer.start \in Int /\ target \in Int
  BY SkyAssumption DEF DragIsCurrent
<1>2. CASE down /\ ~reduced
  <2>1. /\ target' = Clamped(target + x - pointer.start)
        /\ pointer' = [x |-> x, start |-> x]
        /\ down' = TRUE
    BY <1>2 DEF PointerMove, Held
  <2>2. target + x - pointer.start = target + (x - pointer.x)
    BY <1>1, <1>2 DEF DragIsCurrent
  <2> DEFINE goal == target + (x - pointer.x)
  <2>3. goal \in Int /\ Distance(target, goal) = Distance(pointer.x, x)
    BY <1>1 DEF Distance
  <2> HIDE DEF goal
  <2>4. target' \in -Reach .. Reach /\ Distance(target, target') <= Distance(target, goal)
    BY <2>1, <2>2, <2>3, ClampIsShort, SkyAssumption DEF DragIsCurrent, goal
  <2>5. pointer'.x = x
    BY <2>1
  <2>6. TurnsWithPointer
    BY <2>3, <2>4, <2>5 DEF TurnsWithPointer
  <2>7. DragIsCurrent'
    BY <2>1, <2>4 DEF DragIsCurrent
  <2> QED BY <2>6, <2>7
<1>3. CASE ~(down /\ ~reduced)
  <2>1. target' = target /\ pointer' = [pointer EXCEPT !.x = x] /\ down' = FALSE
    BY <1>3 DEF PointerMove, Held, DragIsCurrent
  <2>2. pointer' \in [x : 0 .. Width, start : 0 .. Width] /\ pointer'.x = x
    BY <2>1 DEF DragIsCurrent
  <2>3. Distance(target, target') = 0 /\ Distance(pointer.x, pointer'.x) >= 0
    BY <1>1, <2>1, <2>2 DEF Distance
  <2> QED
    BY <1>1, <2>1, <2>2, <2>3 DEF DragIsCurrent, TurnsWithPointer, Distance
<1> QED BY <1>2, <1>3

(* A step that leaves the pointer's place and the target alone turns the
   camera toward nothing new. *)
LEMMA RestTurnsNothing ==
  ASSUME DragIsCurrent, target' = target, pointer'.x = pointer.x
  PROVE  TurnsWithPointer
BY SkyAssumption DEF DragIsCurrent, TurnsWithPointer, Distance

(* Every step keeps the drag current, and turns with the pointer only. *)
LEMMA StepIsCurrent ==
  ASSUME DragIsCurrent, [SkyNext]_skyMotionVars
  PROVE  DragIsCurrent' /\ TurnsWithPointer
<1>1. CASE UNCHANGED cameraVars
  BY <1>1, RestTurnsNothing DEF cameraVars, DragIsCurrent
<1>2. CASE SkyFrame
  BY <1>2, RestTurnsNothing DEF SkyFrame, CameraFrame, DragIsCurrent
<1>3. CASE PointerDown
  BY <1>3, RestTurnsNothing DEF PointerDown, DragIsCurrent
<1>4. CASE PointerUp
  BY <1>4, RestTurnsNothing DEF PointerUp, DragIsCurrent
<1>5. CASE \E x \in 0 .. Width : PointerMove(x)
  BY <1>5, MoveIsCurrent
<1>6. CASE (\E dark \in BOOLEAN : Celestial(dark)) \/ (\E on \in BOOLEAN : Pomodoro(on))
  BY <1>1, <1>6 DEF Celestial, Pomodoro
<1>7. CASE PrefersMotion \/ UNCHANGED skyMotionVars
  BY <1>1, <1>7 DEF PrefersMotion, skyMotionVars
<1> QED BY <1>2, <1>3, <1>4, <1>5, <1>6, <1>7 DEF SkyNext

(* The pointer begins at rest. *)
LEMMA DragsBegin == SkyInit => DragIsCurrent
<1> SUFFICES ASSUME SkyInit PROVE DragIsCurrent
  OBVIOUS
<1>1. 0 \in 0 .. Width /\ 0 \in -Reach .. Reach
  BY SkyAssumption
<1>2. pointer = [x |-> 0, start |-> 0] /\ down = FALSE /\ target = 0
  BY DEF SkyInit
<1> QED BY <1>1, <1>2 DEF DragIsCurrent

(* In a window of any width, with a camera of any reach, and however the
   preference for reduced motion changes in a drag, the camera is turned as
   far as the pointer has just moved and by nothing else (engine.js:
   356-359). *)
THEOREM DragsAreNeverLatent == SkySpec => NoLatentDrag
<1>1. DragIsCurrent /\ [SkyNext]_skyMotionVars => DragIsCurrent' /\ [TurnsWithPointer]_skyMotionVars
  BY StepIsCurrent
<1> QED BY <1>1, DragsBegin, PTL DEF SkySpec, NoLatentDrag

(***************************************************************************)
(* Trails.  A meteor flies only while its layer is shown, since the layer  *)
(* ends the flight when it goes; so that the frames of a flight follow one *)
(* another.                                                                *)
(***************************************************************************)
\* The points of one flight, the last frame first.
IsTrail(trail) ==
  /\ trail \in Seq(Nat)
  /\ Len(trail) <= TrailLength
  /\ \A i \in 1..Len(trail) : trail[i] = i - 1

Meteors == [active : BOOLEAN, history : Seq(Nat), flight : Nat]

TrailInv ==
  /\ IsTrail(satellite)
  /\ meteor \in Meteors
  /\ meteor.active =>
       layerShown /\ IsTrail(meteor.history) /\ Len(meteor.history) <= meteor.flight

(* The points of a trail grow older where they are. *)
LEMMA AgedIsSeq ==
  ASSUME NEW trail \in Seq(Nat)
  PROVE  /\ Aged(trail) \in Seq(Nat)
         /\ Len(Aged(trail)) = Len(trail)
         /\ \A i \in 1..Len(trail) : Aged(trail)[i] = Age(trail[i])
<1>1. DOMAIN trail = 1..Len(trail) /\ Len(trail) \in Nat
  OBVIOUS
<1>2. \A i \in 1..Len(trail) : Age(trail[i]) \in Nat
  BY SkyAssumption DEF Age, Oldest
<1> QED BY <1>1, <1>2 DEF Aged

(* A copying loop adds the new point to the trail, and drops what is too old. *)
LEMMA PushedIsTrail ==
  ASSUME NEW trail, IsTrail(trail)
  PROVE  /\ IsTrail(Pushed(trail))
         /\ \A n \in Nat : Len(trail) <= n => Len(Pushed(trail)) <= Age(n)
<1> DEFINE longer == <<0>> \o Aged(trail)
           size == IF Len(trail) < TrailLength THEN Len(trail) + 1 ELSE TrailLength
<1>1. trail \in Seq(Nat) /\ Len(trail) \in Nat /\ Len(trail) <= TrailLength
  BY DEF IsTrail
<1>2. /\ Aged(trail) \in Seq(Nat) /\ Len(Aged(trail)) = Len(trail)
      /\ \A i \in 1..Len(trail) : Aged(trail)[i] = Age(trail[i])
  BY <1>1, AgedIsSeq
<1>3. /\ longer \in Seq(Nat) /\ Len(longer) = Len(trail) + 1
      /\ longer[1] = 0
      /\ \A i \in 2..(Len(trail) + 1) : longer[i] = Aged(trail)[i - 1]
  BY <1>1, <1>2
<1>4. \A i \in 1..Len(trail) : Age(trail[i]) = i
  BY <1>1, SkyAssumption DEF IsTrail, Age, Oldest
<1>5. \A i \in 1..(Len(trail) + 1) : longer[i] = i - 1
  <2> TAKE i \in 1..(Len(trail) + 1)
  <2>1. CASE i = 1
    BY <1>3, <2>1
  <2>2. CASE i # 1
    <3>1. i \in 2..(Len(trail) + 1) /\ i - 1 \in 1..Len(trail)
      BY <1>1, <2>2
    <3> QED BY <1>2, <1>3, <1>4, <3>1
  <2> QED BY <2>1, <2>2
<1>6. size \in 1..(Len(trail) + 1) /\ size <= TrailLength
  BY <1>1, SkyAssumption
<1> HIDE DEF longer, size
<1>7. /\ SubSeq(longer, 1, size) \in Seq(Nat) /\ Len(SubSeq(longer, 1, size)) = size
      /\ \A i \in 1..size : SubSeq(longer, 1, size)[i] = longer[i]
  BY <1>1, <1>3, <1>6
<1>8. Pushed(trail) = SubSeq(longer, 1, size)
  BY DEF Pushed, longer, size
<1>9. IsTrail(Pushed(trail))
  BY <1>1, <1>5, <1>6, <1>7, <1>8 DEF IsTrail
<1>10. ASSUME NEW n \in Nat, Len(trail) <= n PROVE size <= Age(n)
  BY <1>1, <1>6, <1>10, SkyAssumption DEF Age, Oldest
<1> QED BY <1>7, <1>8, <1>9, <1>10

(* A trail without points is one. *)
LEMMA NoTrailIsTrail == IsTrail(<<>>)
BY SkyAssumption DEF IsTrail

(* A frame adds to a flight, ends it, or shows none. *)
LEMMA FrameKeepsTrails ==
  ASSUME TrailInv, SkyFrame
  PROVE  TrailInv'
<1>1. IsTrail(satellite')
  BY PushedIsTrail, NoTrailIsTrail DEF SkyFrame, SatelliteFrame, TrailInv
<1>2. NoMeteor \in Meteors /\ ~NoMeteor.active
  BY DEF NoMeteor, Meteors
<1>3. /\ Spawned \in Meteors /\ IsTrail(Spawned.history)
      /\ Len(Spawned.history) <= Spawned.flight
  BY NoTrailIsTrail DEF Spawned, Meteors
<1>4. meteor.history \in Seq(Nat) /\ meteor.flight \in Nat
  BY DEF TrailInv, Meteors
<1>5. Age(meteor.flight) \in Nat
  BY <1>4 DEF Age
<1>6. CASE LayerVisible
  <2>1. layerShown' /\ meteor' \in Flights
    BY <1>6 DEF SkyFrame, MeteorFrame
  <2>2. CASE ~meteor.active
    <3>1. meteor' \in {meteor, Spawned}
      BY <2>1, <2>2 DEF Flights
    <3> QED BY <1>1, <1>3, <2>1, <2>2, <3>1 DEF TrailInv
  <2>3. CASE meteor.active
    <3> DEFINE goesOn == [active |-> TRUE, history |-> Pushed(meteor.history),
                          flight |-> Age(meteor.flight)]
    <3>1. meteor' \in {NoMeteor, goesOn}
      BY <2>1, <2>3 DEF Flights
    <3>2. /\ IsTrail(Pushed(meteor.history))
          /\ Len(Pushed(meteor.history)) <= Age(meteor.flight)
      BY <1>4, <2>3, PushedIsTrail DEF TrailInv
    <3>3. goesOn \in Meteors
      BY <1>5, <3>2 DEF Meteors, IsTrail
    <3>4. IsTrail(goesOn.history) /\ Len(goesOn.history) <= goesOn.flight
      BY <3>2
    <3> HIDE DEF goesOn
    <3> QED BY <1>1, <1>2, <2>1, <3>1, <3>3, <3>4 DEF TrailInv
  <2> QED BY <2>2, <2>3
<1>7. CASE ~LayerVisible
  <2>1. meteor' = Hidden
    BY <1>7 DEF SkyFrame, MeteorFrame
  <2>2. CASE layerShown
    <3>1. meteor' = NoMeteor
      BY <2>1, <2>2 DEF Hidden
    <3> QED BY <1>1, <1>2, <3>1 DEF TrailInv
  <2>3. CASE ~layerShown
    <3>1. meteor' = [meteor EXCEPT !.history = Aged(@), !.flight = Age(@)]
      BY <2>1, <2>3 DEF Hidden
    <3>2. Aged(meteor.history) \in Seq(Nat)
      BY <1>4, AgedIsSeq
    <3>3. meteor' \in Meteors /\ meteor'.active = meteor.active
      BY <1>5, <3>1, <3>2 DEF TrailInv, Meteors
    <3>4. ~meteor.active
      BY <2>3 DEF TrailInv
    <3> QED BY <1>1, <3>3, <3>4 DEF TrailInv
  <2> QED BY <2>2, <2>3
<1> QED BY <1>6, <1>7

(* The sky begins without trails. *)
LEMMA TrailsBegin == SkyInit => TrailInv
<1> SUFFICES ASSUME SkyInit PROVE TrailInv
  OBVIOUS
<1>1. satellite = <<>> /\ meteor = NoMeteor
  BY DEF SkyInit
<1>2. NoMeteor \in Meteors /\ ~NoMeteor.active
  BY DEF NoMeteor, Meteors
<1> QED BY <1>1, <1>2, NoTrailIsTrail DEF TrailInv

(* Only a frame changes them. *)
LEMMA TrailsGoOn == TrailInv /\ [SkyNext]_skyMotionVars => TrailInv'
<1> SUFFICES ASSUME TrailInv, [SkyNext]_skyMotionVars PROVE TrailInv'
  OBVIOUS
<1>1. ASSUME UNCHANGED <<layerShown, meteor, satellite>> PROVE TrailInv'
  BY <1>1 DEF TrailInv
<1>2. CASE SkyFrame
  BY <1>2, FrameKeepsTrails
<1>3. CASE (\E dark \in BOOLEAN : Celestial(dark)) \/ (\E on \in BOOLEAN : Pomodoro(on))
  BY <1>1, <1>3 DEF Celestial, Pomodoro
<1>4. CASE PrefersMotion \/ PointerDown \/ PointerUp \/ UNCHANGED skyMotionVars
  BY <1>1, <1>4 DEF PrefersMotion, PointerDown, PointerUp, skyMotionVars, skyVars
<1>5. CASE \E x \in 0 .. Width : PointerMove(x)
  BY <1>1, <1>5 DEF PointerMove, skyVars
<1> QED BY <1>2, <1>3, <1>4, <1>5 DEF SkyNext

(* What the invariant says of the trails. *)
LEMMA TrailsAreTrails == TrailInv => TrailsAreUnbroken
<1>1. ASSUME NEW trail, IsTrail(trail) PROVE \A i \in DOMAIN trail : trail[i] = i - 1
  BY <1>1 DEF IsTrail
<1> QED BY <1>1 DEF TrailInv, TrailsAreUnbroken

(* For trails of any length, and however night, session and preference come
   and go: each trail is one flight, without a jump and without a point of an
   earlier one (celestial.js:819-889, 906-927). *)
THEOREM TrailsStayUnbroken == SkySpec => []TrailsAreUnbroken
BY TrailsBegin, TrailsGoOn, TrailsAreTrails, PTL DEF SkySpec

-----------------------------------------------------------------------------
(***************************************************************************)
(* The palette.  The hour of what is drawn is always a mixture of hours    *)
(* that the sun was at; bounds that are linear in the numbers of a sky     *)
(* hold of every mixture if they hold of every hour, and rounding down     *)
(* only takes from what is bounded from above.                             *)
(***************************************************************************)
Numbers == [elevation : Int, daylight : Int, grade : [Palette!Channels -> Int]]

\* Nights are dark and low, whatever fades into what.
NightBound(s) ==
  /\ 119 * s.grade["night"] + s.elevation <= 90340
  /\ s.grade["night"] + s.daylight <= 1000

\* The sun is in the palette of a day, less `lost' that rounding took.
SunBound(s, lost) ==
  /\ s.grade["sun"] >= 0
  /\ s.elevation - 102 * (s.grade["sun"] + lost) <= -12000

\* The hour of one elevation of the sun.
IsHour(s) ==
  /\ s \in Numbers
  /\ NightBound(s)
  /\ SunBound(s, 0)
  /\ s.elevation <= -12000 => s.grade["sun"] = 0

\* What is drawn.
IsMixture(s) == s \in Numbers /\ NightBound(s) /\ SunBound(s, 3)

(* The smooth step is a percentage of a percentage.                         *)
LEMMA SmoothIsPercentage ==
  ASSUME NEW t \in 0 .. 100
  PROVE  Palette!Smooth(t) \in 0 .. 100
<1>. DEFINE p == t * t * (300 - 2 * t)
            q == (100 - t) * (100 - t) * (100 + 2 * t)
<1>1. t * t >= 0 /\ (100 - t) * (100 - t) >= 0
  BY SMT
<1>2. p >= 0
  BY <1>1, SMT
<1>3. q >= 0
  BY <1>1, SMT
<1>4. 1000000 - p = q
  BY SMT
<1>5. p \in Int /\ q \in Int
  BY SMT
<1>. HIDE DEF p, q
<1>6. p >= 0 /\ p <= 1000000
  BY <1>2, <1>3, <1>4, <1>5, SMT
<1>7. p \div 10000 \in 0 .. 100
  BY <1>5, <1>6, SMT
<1>8. QED
  BY <1>7 DEF Palette!Smooth, p

\* The weight of the upper one of two stops.
Weight(elev, low, high) ==
  Palette!Smooth(Palette!Within(((elev - low) * 100) \div (high - low), 0, 100))

(* gradeForElevation mixes the two stops around the elevation.              *)
LEMMA BetweenTwoStops ==
  ASSUME NEW elev \in -90 .. 90, NEW j \in 1 .. 5,
         j = 1 \/ Palette!Stops[j].at < elev,
         j = 5 \/ elev <= Palette!Stops[j + 1].at
  PROVE  Palette!GradeForElevation(elev) =
           LET lo == Palette!Stops[j]
               hi == Palette!Stops[j + 1]
           IN  [c \in Palette!Channels |->
                  10 * lo[c] + ((hi[c] - lo[c]) * Weight(elev, lo.at, hi.at)) \div 10]
<1>. DEFINE last == Len(Palette!Stops) - 1
            Around(i) == /\ i = 1 \/ Palette!Stops[i].at < elev
                         /\ i = last \/ elev <= Palette!Stops[i + 1].at
            i0 == CHOOSE i \in 1 .. last : Around(i)
            lo == Palette!Stops[i0]
            hi == Palette!Stops[i0 + 1]
<1>1. last = 5
  BY DEF Palette!Stops
<1>2. \A i \in 1 .. 5 : Around(i) <=> i = j
  BY <1>1 DEF Palette!Stops
<1>. HIDE DEF last
<1>3. Palette!GradeForElevation(elev) =
         [c \in Palette!Channels |->
            10 * lo[c] + ((hi[c] - lo[c]) * Weight(elev, lo.at, hi.at)) \div 10]
  BY DEF Palette!GradeForElevation, Weight, last
<1>. HIDE DEF Around
<1>4. i0 = j
  BY <1>1, <1>2
<1>. HIDE DEF i0
<1>5. QED
  BY <1>3, <1>4

(* Weights are percentages.                                                 *)
LEMMA WeightIsPercentage ==
  ASSUME NEW elev \in -90 .. 90, NEW low \in -90 .. 90, NEW high \in -90 .. 90,
         low < high
  PROVE  Weight(elev, low, high) \in 0 .. 100
<1>1. ((elev - low) * 100) \div (high - low) \in Int
  OBVIOUS
<1>2. Palette!Within(((elev - low) * 100) \div (high - low), 0, 100) \in 0 .. 100
  BY <1>1 DEF Palette!Within
<1>3. QED
  BY <1>2, SmoothIsPercentage DEF Weight

(* The weights of the hours around dusk, one by one.                        *)
LEMMA DuskWeights ==
  /\ Weight(-28, -90, -12) = 88 /\ Weight(-27, -90, -12) = 89
  /\ Weight(-26, -90, -12) = 91 /\ Weight(-25, -90, -12) = 92
  /\ Weight(-24, -90, -12) = 93 /\ Weight(-23, -90, -12) = 93
  /\ Weight(-22, -90, -12) = 95 /\ Weight(-21, -90, -12) = 96
  /\ Weight(-20, -90, -12) = 96 /\ Weight(-19, -90, -12) = 97
  /\ Weight(-18, -90, -12) = 98 /\ Weight(-17, -90, -12) = 98
  /\ Weight(-16, -90, -12) = 98 /\ Weight(-15, -90, -12) = 99
  /\ Weight(-14, -90, -12) = 99 /\ Weight(-13, -90, -12) = 99
  /\ Weight(-12, -90, -12) = 100
  /\ Weight(-11, -12, -4) = 3 /\ Weight(-10, -12, -4) = 15
  /\ Weight(-9, -12, -4) = 30 /\ Weight(-8, -12, -4) = 50
  /\ Weight(-7, -12, -4) = 67 /\ Weight(-6, -12, -4) = 84
  /\ Weight(-5, -12, -4) = 95 /\ Weight(-4, -12, -4) = 100
  /\ Weight(12, 2, 12) = 100
BY DEF Weight, Palette!Within, Palette!Smooth

(* targetDaylight is a fraction, without any light until 6 degrees below    *)
(* the horizon.                                                             *)
LEMMA DaylightIsFraction ==
  ASSUME NEW elev \in -90 .. 90
  PROVE  /\ Palette!TargetDaylight(elev) \in Int
         /\ 0 <= Palette!TargetDaylight(elev) /\ Palette!TargetDaylight(elev) <= 1000
         /\ elev <= -6 => Palette!TargetDaylight(elev) = 0
         /\ elev <= -4 => Palette!TargetDaylight(elev) <= 111
         /\ elev <= 2 => Palette!TargetDaylight(elev) <= 444
         /\ elev <= 11 => Palette!TargetDaylight(elev) <= 944
BY SMT DEF Palette!TargetDaylight, Palette!Within

(* The numbers of the palette that night and day are told by.               *)
LEMMA GradeOfHour ==
  ASSUME NEW elev \in -90 .. 90, NEW j \in 1 .. 5,
         j = 1 \/ Palette!Stops[j].at < elev,
         j = 5 \/ elev <= Palette!Stops[j + 1].at
  PROVE  LET g == Palette!GradeForElevation(elev)
             lo == Palette!Stops[j]
             hi == Palette!Stops[j + 1]
             w == Weight(elev, lo.at, hi.at)
         IN  /\ g \in [Palette!Channels -> Int]
             /\ w \in 0 .. 100
             /\ g["sun"] = 10 * lo.sun + ((hi.sun - lo.sun) * w) \div 10
             /\ g["night"] = 10 * lo.night + ((hi.night - lo.night) * w) \div 10
<1>. DEFINE lo == Palette!Stops[j]
            hi == Palette!Stops[j + 1]
            w == Weight(elev, lo.at, hi.at)
<1>1. /\ lo.at \in -90 .. 90 /\ hi.at \in -90 .. 90 /\ lo.at < hi.at
      /\ \A c \in Palette!Channels : lo[c] \in Int /\ hi[c] \in Int
  BY DEF Palette!Stops, Palette!Channels
<1>2. Palette!GradeForElevation(elev) =
         [c \in Palette!Channels |-> 10 * lo[c] + ((hi[c] - lo[c]) * w) \div 10]
  BY BetweenTwoStops
<1>. HIDE DEF lo, hi
<1>3. w \in 0 .. 100
  BY <1>1, WeightIsPercentage
<1>. HIDE DEF w
<1>4. \A c \in Palette!Channels : 10 * lo[c] + ((hi[c] - lo[c]) * w) \div 10 \in Int
  BY <1>1, <1>3
<1>5. Palette!GradeForElevation(elev) \in [Palette!Channels -> Int]
  BY <1>2, <1>4
<1>6. "sun" \in Palette!Channels /\ "night" \in Palette!Channels
  BY DEF Palette!Channels
<1>7. QED
  BY <1>2, <1>3, <1>5, <1>6 DEF lo, hi, w

(* Every hour that a document can bring keeps the bounds.                   *)
LEMMA HoursKeepBounds ==
  ASSUME NEW elev \in -90 .. 90
  PROVE  IsHour(Palette!SkyAt(elev))
<1>. DEFINE s == Palette!SkyAt(elev)
            g == Palette!GradeForElevation(elev)
            d == Palette!TargetDaylight(elev)
<1>1. /\ s.elevation = 1000 * elev /\ s.daylight = d /\ s.grade = g
      /\ s = [elevation |-> 1000 * elev, daylight |-> d, grade |-> g]
  BY DEF Palette!SkyAt
<1>2. SUFFICES /\ g \in [Palette!Channels -> Int]
               /\ 119 * g["night"] + 1000 * elev <= 90340
               /\ g["night"] + d <= 1000
               /\ g["sun"] >= 0
               /\ 1000 * elev - 102 * g["sun"] <= -12000
               /\ 1000 * elev <= -12000 => g["sun"] = 0
  <2>1. d \in Int
    BY DaylightIsFraction
  <2>. HIDE DEF s, g, d
  <2>2. g \in [Palette!Channels -> Int] => s \in Numbers
    BY <1>1, <2>1, SMT DEF Numbers
  <2>3. g \in [Palette!Channels -> Int] => g["sun"] \in Int
    BY DEF Palette!Channels
  <2>4. QED
    BY <1>1, <2>2, <2>3, SMT DEF IsHour, NightBound, SunBound, s
<1>3. CASE elev <= -12
  <2>. DEFINE w == Weight(elev, -90, -12)
  <2>a. PICK j \in 1 .. 5 : j = 1
    OBVIOUS
  <2>b. /\ Palette!Stops[j].at = -90 /\ Palette!Stops[j + 1].at = -12
        /\ Palette!Stops[j].sun = 0 /\ Palette!Stops[j + 1].sun = 0
        /\ Palette!Stops[j].night = 100 /\ Palette!Stops[j + 1].night = 86
    BY <2>a DEF Palette!Stops
  <2>c. LET v == Weight(elev, Palette!Stops[j].at, Palette!Stops[j + 1].at)
        IN  /\ g \in [Palette!Channels -> Int] /\ v \in 0 .. 100
            /\ g["sun"] = 10 * Palette!Stops[j].sun
                 + ((Palette!Stops[j + 1].sun - Palette!Stops[j].sun) * v) \div 10
            /\ g["night"] = 10 * Palette!Stops[j].night
                 + ((Palette!Stops[j + 1].night - Palette!Stops[j].night) * v) \div 10
    BY <1>3, <2>a, <2>b, GradeOfHour
  <2>1. /\ g \in [Palette!Channels -> Int] /\ w \in 0 .. 100
        /\ g["sun"] = 0 /\ g["night"] = 1000 + ((-14) * w) \div 10
    BY <2>b, <2>c
  <2>2. d = 0
    BY <1>3, DaylightIsFraction
  <2>3. elev >= -28 => elev \in {-28, -27, -26, -25, -24, -23, -22, -21, -20, -19,
                                 -18, -17, -16, -15, -14, -13, -12}
    BY <1>3
  <2>4. elev >= -28 => 119 * (1000 + ((-14) * w) \div 10) + 1000 * elev <= 90340
    BY <2>3, DuskWeights, SMT
  <2>. HIDE DEF w, g, d
  <2>5. QED
    BY <1>3, <2>1, <2>2, <2>4, SMT
<1>4. CASE elev \in -11 .. -4
  <2>. DEFINE w == Weight(elev, -12, -4)
  <2>a. PICK j \in 1 .. 5 : j = 2
    OBVIOUS
  <2>b. /\ Palette!Stops[j].at = -12 /\ Palette!Stops[j + 1].at = -4
        /\ Palette!Stops[j].sun = 0 /\ Palette!Stops[j + 1].sun = 42
        /\ Palette!Stops[j].night = 86 /\ Palette!Stops[j + 1].night = 38
    BY <2>a DEF Palette!Stops
  <2>d. Palette!Stops[j].at < elev /\ (j = 5 \/ elev <= Palette!Stops[j + 1].at)
    BY <1>4, <2>a, <2>b
  <2>c. LET v == Weight(elev, Palette!Stops[j].at, Palette!Stops[j + 1].at)
        IN  /\ g \in [Palette!Channels -> Int] /\ v \in 0 .. 100
            /\ g["sun"] = 10 * Palette!Stops[j].sun
                 + ((Palette!Stops[j + 1].sun - Palette!Stops[j].sun) * v) \div 10
            /\ g["night"] = 10 * Palette!Stops[j].night
                 + ((Palette!Stops[j + 1].night - Palette!Stops[j].night) * v) \div 10
    BY <2>d, GradeOfHour
  <2>1. /\ g \in [Palette!Channels -> Int] /\ w \in 0 .. 100
        /\ g["sun"] = (42 * w) \div 10 /\ g["night"] = 860 + ((-48) * w) \div 10
    BY <2>b, <2>c
  <2>2. d <= 111 /\ d \in Int
    BY <1>4, DaylightIsFraction
  <2>3. elev \in {-11, -10, -9, -8, -7, -6, -5, -4}
    BY <1>4
  <2>4. /\ 119 * (860 + ((-48) * w) \div 10) + 1000 * elev <= 90340
        /\ 1000 * elev - 102 * ((42 * w) \div 10) <= -12000
    BY <2>3, DuskWeights, SMT
  <2>. HIDE DEF w, g, d
  <2>5. QED
    BY <1>4, <2>1, <2>2, <2>4, SMT
<1>5. CASE elev \in -3 .. 2
  <2>. DEFINE w == Weight(elev, -4, 2)
  <2>a. PICK j \in 1 .. 5 : j = 3
    OBVIOUS
  <2>b. /\ Palette!Stops[j].at = -4 /\ Palette!Stops[j + 1].at = 2
        /\ Palette!Stops[j].sun = 42 /\ Palette!Stops[j + 1].sun = 90
        /\ Palette!Stops[j].night = 38 /\ Palette!Stops[j + 1].night = 4
    BY <2>a DEF Palette!Stops
  <2>d. Palette!Stops[j].at < elev /\ (j = 5 \/ elev <= Palette!Stops[j + 1].at)
    BY <1>5, <2>a, <2>b
  <2>c. LET v == Weight(elev, Palette!Stops[j].at, Palette!Stops[j + 1].at)
        IN  /\ g \in [Palette!Channels -> Int] /\ v \in 0 .. 100
            /\ g["sun"] = 10 * Palette!Stops[j].sun
                 + ((Palette!Stops[j + 1].sun - Palette!Stops[j].sun) * v) \div 10
            /\ g["night"] = 10 * Palette!Stops[j].night
                 + ((Palette!Stops[j + 1].night - Palette!Stops[j].night) * v) \div 10
    BY <2>d, GradeOfHour
  <2>1. /\ g \in [Palette!Channels -> Int] /\ w \in 0 .. 100
        /\ g["sun"] = 420 + (48 * w) \div 10 /\ g["night"] = 380 + ((-34) * w) \div 10
    BY <2>b, <2>c
  <2>2. d <= 444 /\ d \in Int
    BY <1>5, DaylightIsFraction
  <2>. HIDE DEF w, g, d
  <2>3. QED
    BY <1>5, <2>1, <2>2, SMT
<1>6. CASE elev \in 3 .. 12
  <2>. DEFINE w == Weight(elev, 2, 12)
  <2>a. PICK j \in 1 .. 5 : j = 4
    OBVIOUS
  <2>b. /\ Palette!Stops[j].at = 2 /\ Palette!Stops[j + 1].at = 12
        /\ Palette!Stops[j].sun = 90 /\ Palette!Stops[j + 1].sun = 100
        /\ Palette!Stops[j].night = 4 /\ Palette!Stops[j + 1].night = 0
    BY <2>a DEF Palette!Stops
  <2>d. Palette!Stops[j].at < elev /\ (j = 5 \/ elev <= Palette!Stops[j + 1].at)
    BY <1>6, <2>a, <2>b
  <2>c. LET v == Weight(elev, Palette!Stops[j].at, Palette!Stops[j + 1].at)
        IN  /\ g \in [Palette!Channels -> Int] /\ v \in 0 .. 100
            /\ g["sun"] = 10 * Palette!Stops[j].sun
                 + ((Palette!Stops[j + 1].sun - Palette!Stops[j].sun) * v) \div 10
            /\ g["night"] = 10 * Palette!Stops[j].night
                 + ((Palette!Stops[j + 1].night - Palette!Stops[j].night) * v) \div 10
    BY <2>d, GradeOfHour
  <2>1. /\ g \in [Palette!Channels -> Int] /\ w \in 0 .. 100
        /\ g["sun"] = 900 + (10 * w) \div 10 /\ g["night"] = 40 + ((-4) * w) \div 10
    BY <2>b, <2>c
  <2>2. d <= 1000 /\ (elev <= 11 => d <= 944) /\ d \in Int
    BY <1>6, DaylightIsFraction
  <2>3. elev = 12 => w = 100
    BY DuskWeights
  <2>. HIDE DEF w, g, d
  <2>4. QED
    BY <1>6, <2>1, <2>2, <2>3, SMT
<1>7. CASE elev >= 13
  <2>. DEFINE w == Weight(elev, 12, 45)
  <2>a. PICK j \in 1 .. 5 : j = 5
    OBVIOUS
  <2>b. /\ Palette!Stops[j].at = 12 /\ Palette!Stops[j + 1].at = 45
        /\ Palette!Stops[j].sun = 100 /\ Palette!Stops[j + 1].sun = 100
        /\ Palette!Stops[j].night = 0 /\ Palette!Stops[j + 1].night = 0
    BY <2>a DEF Palette!Stops
  <2>d. Palette!Stops[j].at < elev /\ (j = 5 \/ elev <= Palette!Stops[j + 1].at)
    BY <1>7, <2>a, <2>b
  <2>c. LET v == Weight(elev, Palette!Stops[j].at, Palette!Stops[j + 1].at)
        IN  /\ g \in [Palette!Channels -> Int] /\ v \in 0 .. 100
            /\ g["sun"] = 10 * Palette!Stops[j].sun
                 + ((Palette!Stops[j + 1].sun - Palette!Stops[j].sun) * v) \div 10
            /\ g["night"] = 10 * Palette!Stops[j].night
                 + ((Palette!Stops[j + 1].night - Palette!Stops[j].night) * v) \div 10
    BY <2>d, GradeOfHour
  <2>1. /\ g \in [Palette!Channels -> Int] /\ w \in 0 .. 100
        /\ g["sun"] = 1000 /\ g["night"] = 0
    BY <2>b, <2>c
  <2>2. d <= 1000 /\ d \in Int
    BY DaylightIsFraction
  <2>. HIDE DEF w, g, d
  <2>3. QED
    BY <1>7, <2>1, <2>2, SMT
<1>8. QED
  BY <1>3, <1>4, <1>5, <1>6, <1>7

(* An ease is a quarter of the way, rounded down.                           *)
LEMMA EaseIsAQuarter ==
  ASSUME NEW x \in Int, NEW y \in Int
  PROVE  LET z == Palette!Ease(x, y, FALSE)
         IN  z \in Int /\ 4 * z <= 3 * x + y /\ 3 * x + y <= 4 * z + 3
BY SMT DEF Palette!Ease

\* The sky of the palette while it is eased by documents and frames.
PaletteInv == IsHour(v1) /\ IsMixture(v2)

(* The frame keeps what is drawn a mixture, also of a fade on a fade.       *)
LEMMA FramesMix ==
  ASSUME PaletteInv, NEW snap \in BOOLEAN
  PROVE  IsMixture(Palette!Eased(snap))
<1>1. v1 \in Numbers /\ v2 \in Numbers
  BY DEF PaletteInv, IsHour, IsMixture
<1>2. "sun" \in Palette!Channels /\ "night" \in Palette!Channels
  BY DEF Palette!Channels
<1>3. CASE snap
  <2>1. Palette!Eased(snap) = v1
    <3>1. \A x, y : Palette!Ease(x, y, snap) = y
      BY <1>3 DEF Palette!Ease
    <3>2. [c \in Palette!Channels |-> v1.grade[c]] = v1.grade
      BY <1>1 DEF Numbers
    <3>3. QED
      BY <1>1, <3>1, <3>2 DEF Palette!Eased, Numbers
  <2>2. v1.grade["sun"] \in Int /\ v1.elevation \in Int
    BY <1>1, <1>2 DEF Numbers
  <2>3. IsHour(v1)
    BY DEF PaletteInv
  <2>4. SunBound(v1, 3)
    BY <2>2, <2>3, SMT DEF IsHour, SunBound
  <2>5. IsMixture(v1)
    BY <2>3, <2>4, SMT DEF IsHour, IsMixture
  <2>6. QED
    BY <2>1, <2>5
<1>4. CASE ~snap
  <2>. DEFINE e == Palette!Ease(v2.elevation, v1.elevation, FALSE)
              d == Palette!Ease(v2.daylight, v1.daylight, FALSE)
              n == Palette!Ease(v2.grade["night"], v1.grade["night"], FALSE)
              u == Palette!Ease(v2.grade["sun"], v1.grade["sun"], FALSE)
              s == Palette!Eased(snap)
  <2>1. /\ v1.elevation \in Int /\ v2.elevation \in Int
        /\ v1.daylight \in Int /\ v2.daylight \in Int
        /\ v1.grade["night"] \in Int /\ v2.grade["night"] \in Int
        /\ v1.grade["sun"] \in Int /\ v2.grade["sun"] \in Int
    BY <1>1, <1>2 DEF Numbers
  <2>2. /\ e \in Int /\ 4 * e <= 3 * v2.elevation + v1.elevation
        /\ d \in Int /\ 4 * d <= 3 * v2.daylight + v1.daylight
        /\ n \in Int /\ 4 * n <= 3 * v2.grade["night"] + v1.grade["night"]
        /\ u \in Int /\ 3 * v2.grade["sun"] + v1.grade["sun"] <= 4 * u + 3
    BY <2>1, EaseIsAQuarter
  <2>3. s \in Numbers
    <3>1. \A c \in Palette!Channels :
            Palette!Ease(v2.grade[c], v1.grade[c], FALSE) \in Int
      BY <1>1, EaseIsAQuarter DEF Numbers
    <3>. HIDE DEF e, d
    <3>2. [elevation |-> e, daylight |-> d,
           grade |-> [c \in Palette!Channels |->
                        Palette!Ease(v2.grade[c], v1.grade[c], FALSE)]] \in Numbers
      BY <2>2, <3>1 DEF Numbers
    <3>3. QED
      BY <1>4, <3>2 DEF Palette!Eased, e, d
  <2>4. /\ s.elevation = e /\ s.daylight = d
        /\ s.grade["night"] = n /\ s.grade["sun"] = u
    BY <1>2, <1>4 DEF Palette!Eased
  <2>5. NightBound(v1) /\ NightBound(v2) /\ SunBound(v1, 0) /\ SunBound(v2, 3)
    BY DEF PaletteInv, IsHour, IsMixture
  <2>. HIDE DEF e, d, n, u, s
  <2>6. NightBound(s)
    BY <2>1, <2>2, <2>4, <2>5, SMT DEF NightBound
  <2>7. SunBound(s, 3)
    BY <2>1, <2>2, <2>4, <2>5, SMT DEF SunBound
  <2>8. IsMixture(s)
    BY <2>3, <2>6, <2>7 DEF IsMixture
  <2>9. QED
    BY <2>8 DEF s
<1>5. QED
  BY <1>3, <1>4

(* A sun that sets out is where its palette is.                             *)
LEMMA PaletteBegins == Palette!Init => PaletteInv
<1>1. SUFFICES ASSUME Palette!Init PROVE PaletteInv
  OBVIOUS
<1>2. v1 = Palette!SkyAt(-90) /\ v2 = Palette!SkyAt(-90)
  BY <1>1 DEF Palette!Init
<1>3. IsHour(v1)
  BY <1>2, HoursKeepBounds
<1>4. v1.grade["sun"] \in Int /\ v1.elevation \in Int
  BY <1>3 DEF IsHour, Numbers, Palette!Channels
<1>5. SunBound(v1, 3)
  BY <1>3, <1>4, SMT DEF IsHour, SunBound
<1>6. IsMixture(v1)
  BY <1>3, <1>5, SMT DEF IsHour, IsMixture
<1>7. QED
  BY <1>2, <1>3, <1>6 DEF PaletteInv

(* Documents and frames keep it so.                                         *)
LEMMA PaletteGoesOn ==
  ASSUME PaletteInv, Palette!Next
  PROVE  PaletteInv'
<1>1. ASSUME NEW elev \in Elevations, Palette!SetElevation(elev)
      PROVE  PaletteInv'
  <2>1. elev \in -90 .. 90
    BY PageAssumption
  <2>2. v1' = Palette!SkyAt(elev) /\ v2' = v2
    BY <1>1 DEF Palette!SetElevation
  <2>3. QED
    BY <2>1, <2>2, HoursKeepBounds DEF PaletteInv
<1>2. ASSUME NEW snap \in BOOLEAN, Palette!Update(snap)
      PROVE  PaletteInv'
  <2>1. v1' = v1 /\ v2' = Palette!Eased(snap)
    BY <1>2 DEF Palette!Update
  <2>2. QED
    BY <2>1, FramesMix DEF PaletteInv
<1>3. QED
  BY <1>1, <1>2 DEF Palette!Next

(* What is drawn is of one hour.                                            *)
LEMMA MixturesAreOfOneHour == PaletteInv => Palette!SkyIsOfOneHour
<1>1. SUFFICES ASSUME PaletteInv PROVE Palette!SkyIsOfOneHour
  OBVIOUS
<1>2. v1 \in Numbers /\ v2 \in Numbers
  BY <1>1 DEF PaletteInv, IsHour, IsMixture
<1>3. "sun" \in Palette!Channels /\ "night" \in Palette!Channels
  BY DEF Palette!Channels
<1>4. /\ v2.elevation \in Int /\ v2.daylight \in Int /\ v1.elevation \in Int
      /\ v2.grade["night"] \in Int /\ v2.grade["sun"] \in Int
      /\ v1.grade["sun"] \in Int
  BY <1>2, <1>3 DEF Numbers
<1>5. NightBound(v2) /\ SunBound(v2, 3)
  BY <1>1 DEF PaletteInv, IsMixture
<1>6. Palette!NightIsNight
  BY <1>4, <1>5, SMT DEF Palette!NightIsNight, Palette!Elevation, NightBound
<1>7. Palette!DayIsDay
  BY <1>4, <1>5, SMT DEF Palette!DayIsDay, Palette!Elevation, NightBound, SunBound
<1>8. Palette!RestsOnGoal
  <2>1. SUFFICES ASSUME Palette!Rested
                 PROVE  /\ \A c \in Palette!Channels :
                             v2.grade[c] - v1.grade[c] \in -3 .. 3
                        /\ v2.elevation - v1.elevation \in -3 .. 3
                        /\ v1.elevation <= -12000 => v2.grade["sun"] = 0
    BY SMT DEF Palette!RestsOnGoal, Palette!Elevation
  <2>2. ASSUME NEW x \in Int, NEW y \in Int, x = Palette!Ease(x, y, FALSE)
        PROVE  x - y \in -3 .. 0
    <3>1. (y - x) \div 4 = 0
      BY <2>2, SMT DEF Palette!Ease
    <3>2. QED
      BY <3>1, SMT
  <2>3. /\ v2.elevation = Palette!Ease(v2.elevation, v1.elevation, FALSE)
        /\ \A c \in Palette!Channels :
             v2.grade[c] = Palette!Ease(v2.grade[c], v1.grade[c], FALSE)
    <3>. DEFINE s == Palette!Eased(FALSE)
    <3>1. /\ s.elevation = Palette!Ease(v2.elevation, v1.elevation, FALSE)
          /\ \A c \in Palette!Channels :
               s.grade[c] = Palette!Ease(v2.grade[c], v1.grade[c], FALSE)
      BY DEF Palette!Eased
    <3>. HIDE DEF s
    <3>2. v2 = s
      BY <2>1 DEF Palette!Rested, s
    <3>3. QED
      BY <3>1, <3>2
  <2>4. v2.elevation - v1.elevation \in -3 .. 0
    BY <1>4, <2>2, <2>3
  <2>5. \A c \in Palette!Channels : v2.grade[c] - v1.grade[c] \in -3 .. 0
    BY <1>2, <2>2, <2>3 DEF Numbers
  <2>6. v1.elevation <= -12000 => v1.grade["sun"] = 0
    BY <1>1, SMT DEF PaletteInv, IsHour
  <2>7. v2.grade["sun"] >= 0
    BY <1>5, SMT DEF SunBound
  <2>8. v1.elevation <= -12000 => v2.grade["sun"] = 0
    BY <1>3, <1>4, <2>5, <2>6, <2>7, SMT
  <2>9. \A k \in -3 .. 0 : k \in -3 .. 3
    OBVIOUS
  <2>10. QED
    BY <2>4, <2>5, <2>8, <2>9
<1>9. QED
  BY <1>6, <1>7, <1>8 DEF Palette!SkyIsOfOneHour

-----------------------------------------------------------------------------
(***************************************************************************)
(* The towers of the city, whose slots are the tower (v1), the next part   *)
(* (v2), what stands (v3), its width (v4), the last wall (v5) and its      *)
(* windows (v6).                                                           *)
(***************************************************************************)

\* The windows are on the wall.
OnWall(windows, wall) ==
  /\ windows.bottom >= wall.base
  /\ windows.top <= wall.base + wall.height
  /\ 2 * windows.half <= wall.width

\* What each part finds of the tower below.
Stands ==
  /\ v3 \in Nat /\ v4 \in Int
  /\ v1.h \in Int /\ v1.h >= v3
  /\ v2 \in {"site", "podium", "shaft", "setback", "crown", "cap", "roof"}
  /\ v2 # "site" => v1.h >= 900
  /\ v2 \in {"site", "podium"} => v3 = 0 /\ v6 = City!NoWindows
  /\ v2 \in {"podium", "shaft", "setback"} => v4 >= 700
  /\ v2 = "shaft" => \/ v3 = (v1.h * 18) \div 100
                     \/ v3 >= 350 /\ v3 <= (v1.h * 18) \div 100
  /\ v2 = "setback" /\ v3 < v1.h - 800 => v1.h >= 2100
  /\ v2 = "crown" => v4 >= 546
  /\ v2 = "roof" => v1.h - v3 <= 50

\* The last wall, when it has windows.
Glazed == v6 # City!NoWindows /\ (v2 = "shaft" => v1.h >= 1270) => OnWall(v6, v5)

TowerInv == Stands /\ Glazed

(* Rows and columns of windows fit a wall of at least one of them.          *)
LEMMA FacadeFits ==
  ASSUME NEW base \in Int, NEW height \in Int, NEW w \in Int,
         height >= 245, w >= 114
  PROVE  OnWall(City!Facade(base, height, w),
                [base |-> base, height |-> height, width |-> w])
<1>. DEFINE floors == City!AtLeast((height - 300) \div 280, 1)
            columns == City!AtLeast((w - 180) \div 200, 1)
            f == City!Facade(base, height, w)
<1>1. /\ f.bottom = base + 115
      /\ f.top = base + 180 + (floors - 1) * 280 + 65
      /\ f.half = (columns - 1) * 100 + 57
  <2>1. floors \in Int /\ columns \in Int
    BY SMT DEF City!AtLeast
  <2>. HIDE DEF floors, columns
  <2>2. f = [bottom |-> base + 180 - 65,
             top    |-> base + 180 + (floors - 1) * 280 + 65,
             half   |-> (columns - 1) * 100 + 48 + 9]
    BY DEF City!Facade, floors, columns
  <2>3. QED
    BY <2>1, <2>2, SMT
<1>2. floors \in Int /\ (floors - 1) * 280 + 245 <= height
  BY SMT DEF City!AtLeast
<1>3. columns \in Int /\ 2 * ((columns - 1) * 100 + 57) <= w
  BY SMT DEF City!AtLeast
<1>. HIDE DEF f, floors, columns
<1>4. QED
  BY <1>1, <1>2, <1>3, SMT DEF OnWall, f

(* The shops fit a podium of at least 228 cm.                               *)
LEMMA RetailFits ==
  ASSUME NEW height \in Int, NEW w \in Int, height >= 228, w >= 700
  PROVE  OnWall(City!Retail(w), [base |-> 0, height |-> height, width |-> w])
<1>. DEFINE columns == City!AtLeast((w - 120) \div 190, 2)
            f == City!Retail(w)
<1>1. columns \in Int /\ 2 * ((columns - 1) * 95 + 50) <= w
  BY SMT DEF City!AtLeast
<1>2. f.bottom = 112 /\ f.top = 228 /\ f.half = (columns - 1) * 95 + 50
  BY SMT DEF City!Retail
<1>. HIDE DEF columns, f
<1>3. QED
  BY <1>1, <1>2, SMT DEF OnWall, f

(* The podium.                                                              *)
LEMMA PodiumStands ==
  ASSUME TowerInv, City!Podium
  PROVE  TowerInv'
<1>1. PICK base \in City!Between(350, 650) :
        City!Part(City!Least(base, (v1.h * 18) \div 100), (v4 * 114) \div 100,
                  City!Retail((v4 * 114) \div 100))
  BY DEF City!Podium
<1>. DEFINE height == City!Least(base, (v1.h * 18) \div 100)
            w == (v4 * 114) \div 100
<1>2. v2 = "podium" /\ v2' = "shaft" /\ v1' = v1 /\ v4' = v4
  BY DEF City!Podium
<1>3. /\ v1.h \in Int /\ v1.h >= 900 /\ v3 = 0 /\ v4 \in Int /\ v4 >= 700
  BY <1>2 DEF TowerInv, Stands
<1>4. base \in {350, 500, 650}
  BY SMT DEF City!Between
<1>5. /\ height \in Nat /\ height <= v1.h
      /\ \/ height = (v1.h * 18) \div 100
         \/ height >= 350 /\ height <= (v1.h * 18) \div 100
      /\ v1.h >= 1270 => height >= 228
  BY <1>3, <1>4, SMT DEF City!Least
<1>6. w \in Int /\ w >= 700
  BY <1>3, SMT
<1>. HIDE DEF height, w
<1>7. /\ v5' = [base |-> v3, height |-> height, width |-> w]
      /\ v6' = City!Retail(w)
      /\ v3' = v3 + height
  BY <1>1 DEF City!Part, height, w
<1>8. v3' = height
  BY <1>3, <1>5, <1>7
<1>9. Stands'
  BY <1>2, <1>3, <1>5, <1>8 DEF Stands
<1>10. Glazed'
  BY <1>2, <1>3, <1>5, <1>6, <1>7, RetailFits DEF Glazed
<1>11. QED
  BY <1>9, <1>10 DEF TowerInv

(* The shaft.                                                               *)
LEMMA ShaftStands ==
  ASSUME TowerInv, City!Shaft
  PROVE  TowerInv'
<1>1. PICK part0 \in City!Between(55, 70) :
        City!Part((v1.h * part0) \div 100, v4,
                  City!Facade(v3, (v1.h * part0) \div 100, v4))
  BY DEF City!Shaft
<1>. DEFINE height == (v1.h * part0) \div 100
<1>2. v2 = "shaft" /\ v2' = "setback" /\ v1' = v1 /\ v4' = v4
  BY DEF City!Shaft
<1>3. /\ v1.h \in Int /\ v1.h >= 900 /\ v3 \in Nat /\ v4 \in Int /\ v4 >= 700
      /\ \/ v3 = (v1.h * 18) \div 100
         \/ v3 >= 350 /\ v3 <= (v1.h * 18) \div 100
  BY <1>2 DEF TowerInv, Stands
<1>4. part0 \in {55, 62, 70}
  BY SMT DEF City!Between
<1>5. /\ height \in Int /\ height >= 495 /\ v3 + height <= v1.h
      /\ v3 + height < v1.h - 800 => v1.h >= 2100
  BY <1>3, <1>4, SMT
<1>. HIDE DEF height
<1>6. /\ v5' = [base |-> v3, height |-> height, width |-> v4]
      /\ v6' = City!Facade(v3, height, v4)
      /\ v3' = v3 + height
  BY <1>1 DEF City!Part, height
<1>7. Stands'
  BY <1>2, <1>3, <1>5, <1>6 DEF Stands
<1>8. OnWall(v6', v5')
  BY <1>3, <1>5, <1>6, FacadeFits
<1>9. QED
  BY <1>7, <1>8 DEF TowerInv, Glazed

(* The first setback, or none.                                              *)
LEMMA SetbackStands ==
  ASSUME TowerInv, City!Setback
  PROVE  TowerInv'
<1>1. v2 = "setback" /\ v2' = "crown" /\ v1' = v1
  BY DEF City!Setback, City!Skip
<1>2. /\ v1.h \in Int /\ v1.h >= 900 /\ v3 \in Nat /\ v4 \in Int /\ v4 >= 700
      /\ v1.h >= v3 /\ (v3 < v1.h - 800 => v1.h >= 2100)
  BY <1>1 DEF TowerInv, Stands
<1>3. CASE City!Skip("crown")
  <2>1. v3' = v3 /\ v4' = v4 /\ v5' = v5 /\ v6' = v6
    BY <1>3 DEF City!Skip
  <2>2. QED
    BY <1>1, <1>2, <2>1 DEF TowerInv, Stands, Glazed
<1>4. ASSUME v3 < v1.h - 800,
             NEW part0 \in City!Between(12, 22), NEW kept \in City!Between(78, 86),
             City!Part(City!SetbackHeight(part0), (v4 * kept) \div 100,
                       City!Facade(v3, City!SetbackHeight(part0),
                                   (v4 * kept) \div 100)),
             v4' = (v4 * kept) \div 100
      PROVE  TowerInv'
  <2>. DEFINE height == City!SetbackHeight(part0)
              w == (v4 * kept) \div 100
  <2>1. part0 \in {12, 17, 22} /\ kept \in {78, 82, 86}
    BY SMT DEF City!Between
  <2>2. height \in Int /\ height >= 245 /\ v3 + height <= v1.h
    BY <1>2, <1>4, <2>1, SMT DEF City!SetbackHeight, City!Least
  <2>3. w \in Int /\ w >= 546
    BY <1>2, <2>1, SMT
  <2>. HIDE DEF height, w
  <2>4. /\ v5' = [base |-> v3, height |-> height, width |-> w]
        /\ v6' = City!Facade(v3, height, w)
        /\ v3' = v3 + height /\ v4' = w
    BY <1>4 DEF City!Part, height, w
  <2>5. Stands'
    BY <1>1, <1>2, <2>2, <2>3, <2>4 DEF Stands
  <2>6. OnWall(v6', v5')
    BY <1>2, <2>2, <2>3, <2>4, FacadeFits
  <2>7. QED
    BY <2>5, <2>6 DEF TowerInv, Glazed
<1>5. QED
  BY <1>3, <1>4 DEF City!Setback

(* The second setback, or none.                                             *)
LEMMA CrownStands ==
  ASSUME TowerInv, City!Crown
  PROVE  TowerInv'
<1>. DEFINE height == v1.h - v3 - (IF v1.landmark THEN 350 ELSE 150)
<1>1. v2 = "crown" /\ v2' = "cap" /\ v1' = v1
  BY DEF City!Crown, City!Skip
<1>2. /\ v1.h \in Int /\ v1.h >= 900 /\ v3 \in Nat /\ v4 \in Int /\ v4 >= 546
      /\ v1.h >= v3
  BY <1>1 DEF TowerInv, Stands
<1>3. ASSUME v3' = v3, v5' = v5, v6' = v6, v4' \in Int
      PROVE  TowerInv'
  BY <1>1, <1>2, <1>3 DEF TowerInv, Stands, Glazed
<1>4. CASE City!Skip("cap")
  BY <1>2, <1>3, <1>4 DEF City!Skip
<1>5. ASSUME v3 < v1.h - 600, NEW kept \in City!Between(72, 80),
             v4' = (v4 * kept) \div 100,
             IF height > 200 THEN City!Part(height, v4', City!Facade(v3, height, v4'))
                             ELSE UNCHANGED <<v3, v5, v6>>
      PROVE  TowerInv'
  <2>1. kept \in {72, 76, 80}
    BY SMT DEF City!Between
  <2>2. v4' \in Int /\ v4' >= 114
    BY <1>2, <1>5, <2>1, SMT
  <2>3. height \in Int /\ height >= 245 /\ v3 + height <= v1.h
    BY <1>2, <1>5, SMT
  <2>. HIDE DEF height
  <2>4. /\ v5' = [base |-> v3, height |-> height, width |-> v4']
        /\ v6' = City!Facade(v3, height, v4')
        /\ v3' = v3 + height
    BY <1>5, <2>3 DEF City!Part
  <2>5. Stands'
    BY <1>1, <1>2, <2>2, <2>3, <2>4 DEF Stands
  <2>6. OnWall(v6', v5')
    BY <1>2, <2>2, <2>3, <2>4, FacadeFits
  <2>7. QED
    BY <2>5, <2>6 DEF TowerInv, Glazed
<1>6. QED
  BY <1>4, <1>5 DEF City!Crown

(* The cap, or none where there is half a metre left.                       *)
LEMMA CapStands ==
  ASSUME TowerInv, City!Cap
  PROVE  TowerInv'
<1>1. v2 = "cap" /\ v2' = "roof" /\ v1' = v1 /\ v4' = v4
  BY DEF City!Cap, City!Skip
<1>2. /\ v1.h \in Int /\ v1.h >= 900 /\ v3 \in Nat /\ v4 \in Int
      /\ v1.h >= v3
  BY <1>1 DEF TowerInv, Stands
<1>3. CASE v3 < v1.h - 50
  <2>1. v3' = v3 + (v1.h - v3) /\ v6' = City!NoWindows
    BY <1>3 DEF City!Cap, City!Part
  <2>2. v3' = v1.h
    BY <1>2, <2>1
  <2>3. QED
    BY <1>1, <1>2, <2>1, <2>2 DEF TowerInv, Stands, Glazed
<1>4. CASE ~(v3 < v1.h - 50)
  <2>1. v3' = v3 /\ v5' = v5 /\ v6' = v6
    BY <1>4 DEF City!Cap, City!Skip
  <2>2. QED
    BY <1>1, <1>2, <1>4, <2>1 DEF TowerInv, Stands, Glazed
<1>5. QED
  BY <1>3, <1>4

(* The site after a tower.                                                  *)
LEMMA FinishStands ==
  ASSUME TowerInv, City!Finish
  PROVE  TowerInv'
<1>1. /\ v2' = "site" /\ v3' = 0 /\ v4' = 0 /\ v6' = City!NoWindows
      /\ v1' = City!NoTower
  BY DEF City!Finish
<1>2. v1'.h = 0
  BY <1>1 DEF City!NoTower
<1>3. QED
  BY <1>1, <1>2 DEF TowerInv, Stands, Glazed

(* The next tower, of the bands or a landmark.                              *)
LEMMA AddBuildingStands ==
  ASSUME TowerInv,
         \/ \E metres \in Heights, style \in City!Styles, w \in {700, 2200} :
              City!AddBuilding(metres, style, FALSE, w)
         \/ \E l \in City!Landmarks : City!AddBuilding(l[1], l[2], TRUE, l[3])
  PROVE  TowerInv'
<1>1. PICK metres \in Int, w \in Int :
        /\ metres >= 9 /\ w >= 700
        /\ v2 = "site" /\ v2' = "podium" /\ v4' = w /\ v3' = v3 /\ v6' = v6
        /\ v1'.h = metres * 100
  <2>1. ASSUME NEW metres \in Heights, NEW style \in City!Styles, NEW w \in {700, 2200},
               City!AddBuilding(metres, style, FALSE, w)
        PROVE  /\ metres \in Int /\ metres >= 9 /\ w \in Int /\ w >= 700
               /\ v2 = "site" /\ v2' = "podium" /\ v4' = w /\ v3' = v3 /\ v6' = v6
               /\ v1'.h = metres * 100
    BY <2>1, PageAssumption DEF City!AddBuilding
  <2>2. ASSUME NEW l \in City!Landmarks, City!AddBuilding(l[1], l[2], TRUE, l[3])
        PROVE  /\ l[1] \in Int /\ l[1] >= 9 /\ l[3] \in Int /\ l[3] >= 700
               /\ v2 = "site" /\ v2' = "podium" /\ v4' = l[3] /\ v3' = v3 /\ v6' = v6
               /\ v1'.h = l[1] * 100
    <3>1. l[1] \in Int /\ l[1] >= 9 /\ l[3] \in Int /\ l[3] >= 700
      BY DEF City!Landmarks
    <3>2. QED
      BY <2>2, <3>1 DEF City!AddBuilding
  <2>3. QED
    BY <2>1, <2>2 DEF City!AddBuilding
<1>2. v3 = 0 /\ v6 = City!NoWindows
  BY <1>1 DEF TowerInv, Stands
<1>3. metres * 100 \in Int /\ metres * 100 >= 900
  BY <1>1, SMT
<1>4. QED
  BY <1>1, <1>2, <1>3 DEF TowerInv, Stands, Glazed

(* Every part of every tower.                                               *)
LEMMA TowerGoesOn ==
  ASSUME TowerInv, City!Next
  PROVE  TowerInv'
BY AddBuildingStands, FinishStands, PodiumStands, ShaftStands, SetbackStands,
   CrownStands, CapStands
DEF City!Next, City!AddBuilding

(* A site is empty.                                                         *)
LEMMA TowerBegins == City!Init => TowerInv
BY DEF City!Init, City!NoTower, TowerInv, Stands, Glazed

(* Windows are on walls, and roofs are carried.                             *)
LEMMA TowersHoldTogether == TowerInv => City!TowerHoldsTogether
BY DEF TowerInv, Stands, Glazed, OnWall, City!TowerHoldsTogether,
       City!WindowsAreOnWalls, City!RoofIsCarried

-----------------------------------------------------------------------------
(***************************************************************************)
(* The settings, whose slots are the engine (v1), the passes (v2), the     *)
(* manager (v3), the store (v4) and the panel (v5).                        *)
(***************************************************************************)
OnOff == {"on", "off"}
MapSizes == {0, 1024, 2048}

Engines ==
  [alive : BOOLEAN, mode : {"auto", "manual"}, tier : Settings3D!Tiers,
   pending : Settings3D!Tiers \cup {Settings3D!None},
   fx : [Settings3D!FX -> {Settings3D!None, "on", "off"}],
   fxPending : BOOLEAN, suppressed : BOOLEAN, source : BOOLEAN,
   map : MapSizes, cast : MapSizes, ratio : Int, applied : BOOLEAN]

Told == [shafts : OnOff, ratio : Int]

SceneManagers ==
  [active : Settings3D!ScenePair, built : SUBSET Settings3D!ScenePair,
   shafts : OnOff, ratio : Int, told : [Settings3D!ScenePair -> Told]]

Stores ==
  [quality : Settings3D!Tiers \cup {"auto"},
   fx : [Settings3D!FX -> OnOff] \cup {Settings3D!NoFX}]

Panels == [select : Settings3D!Tiers \cup {"auto"},
           toggles : [Settings3D!FX -> OnOff]]

\* Shadows, once applyFX has run and nothing is to be applied.
ShadowsDrawn(e) ==
  e.map > 0 <=> Settings3D!Chosen(e, e.tier, "shadows") = "on"

\* The one key light casts what the engine has decided.
CastsMap(e) == e.source => e.cast = e.map

\* As init3D leaves it, and nothing asks for applyFX unless it is to come.
AsCreated(e, p) ==
  /\ p = Settings3D!NewPasses
  /\ e.tier = AutoStartTier /\ e.map = 0
  /\ ~e.fxPending => e.fx = Settings3D!NoFX /\ ~e.suppressed

\* What is drawn is what the configuration says, unless it is to be applied;
\* before applyFX has run at all, it is what init3D made.
DrawnWith(e, p) ==
  e.alive =>
    /\ e.applied /\ ~e.fxPending => p = Settings3D!Options(e) /\ ShadowsDrawn(e)
    /\ ~e.applied => AsCreated(e, p)

\* The choices of the person are those of the engine.
Chooses(e, s) ==
  e.alive =>
    /\ e.mode = "auto" <=> s.quality = "auto"
    /\ s.quality # "auto" => Settings3D!Upcoming(e) = s.quality
    /\ e.fx = s.fx

\* The panel shows what is stored, or else the toggles of some tier.
ShowsStore(p, s) ==
  /\ p.select = s.quality
  /\ IF s.fx = Settings3D!NoFX
     THEN p.toggles \in {Settings3D!TogglesOf(t) : t \in Settings3D!Tiers}
     ELSE p.toggles = s.fx

\* Scenes that exist know the settings of the manager.
ToldSettings(m) == \A s \in m.built : m.told[s] = Settings3D!Settings(m)

EngineFits(e, m) ==
  /\ e \in Engines
  /\ e.suppressed <=> m.active = "sky"
  /\ CastsMap(e)

\* The sky, to which a scene that throws is left, always exists.
ManagerFits(m) ==
  /\ m \in SceneManagers /\ ToldSettings(m)
  /\ m.active \in m.built /\ "sky" \in m.built

SettingsInv ==
  /\ v2 \in [bloom : OnOff, shafts : OnOff]
  /\ v4 \in Stores
  /\ v5 \in Panels
  /\ EngineFits(v1, v3)
  /\ ManagerFits(v3)
  /\ DrawnWith(v1, v2)
  /\ Chooses(v1, v4)
  /\ ShowsStore(v5, v4)

(* Every effect is preferred to be on or off.                               *)
LEMMA ChosenIsOnOff ==
  ASSUME NEW e \in Engines, NEW t \in Settings3D!Tiers, NEW k \in Settings3D!FX
  PROVE  Settings3D!Chosen(e, t, k) \in OnOff
<1>1. Settings3D!TierDefault(t, k) \in OnOff
  BY SMT DEF Settings3D!TierDefault, Settings3D!Tier, Settings3D!Tiers, Settings3D!FX, OnOff
<1>2. e.fx[k] \in {Settings3D!None, "on", "off"}
  BY DEF Engines
<1>3. QED
  BY <1>1, <1>2 DEF Settings3D!Chosen, OnOff

(* getPreferredFX: so are all of them, in the tier that comes.              *)
LEMMA PreferredIsOnOff ==
  ASSUME NEW e \in Engines
  PROVE  /\ Settings3D!Upcoming(e) \in Settings3D!Tiers
         /\ Settings3D!Preferred(e) \in [Settings3D!FX -> OnOff]
<1>1. Settings3D!Upcoming(e) \in Settings3D!Tiers
  BY DEF Settings3D!Upcoming, Engines
<1>2. QED
  BY <1>1, ChosenIsOnOff DEF Settings3D!Preferred

(* Without overrides it is the tier that decides.                           *)
LEMMA PreferredOfTier ==
  ASSUME NEW e, e.fx = Settings3D!NoFX
  PROVE  Settings3D!Preferred(e) = Settings3D!TogglesOf(Settings3D!Upcoming(e))
BY DEF Settings3D!Preferred, Settings3D!TogglesOf, Settings3D!Chosen, Settings3D!NoFX

(* applyFX: the passes are switched on or off.                              *)
LEMMA OptionsAreOnOff ==
  ASSUME NEW e \in Engines
  PROVE  Settings3D!Options(e) \in [bloom : OnOff, shafts : OnOff]
<1>1. e.tier \in Settings3D!Tiers
  BY DEF Engines
<1>2. "bloom" \in Settings3D!FX /\ "shafts" \in Settings3D!FX
  BY DEF Settings3D!FX
<1>3. /\ Settings3D!Chosen(e, e.tier, "bloom") \in OnOff
      /\ Settings3D!Chosen(e, e.tier, "shafts") \in OnOff
  BY <1>1, <1>2, ChosenIsOnOff
<1>4. QED
  BY <1>3 DEF Settings3D!Options, OnOff

\* What a frame draws by, and what the person chose, is the same in both.
SameDrawing(e, f) ==
  /\ f.alive = e.alive /\ f.applied = e.applied /\ f.tier = e.tier
  /\ f.fx = e.fx /\ f.suppressed = e.suppressed /\ f.map = e.map
  /\ f.fxPending = e.fxPending

SameChoice(e, f) ==
  /\ f.alive = e.alive /\ f.mode = e.mode /\ f.fx = e.fx
  /\ Settings3D!Upcoming(f) = Settings3D!Upcoming(e)

(* What is drawn is right as long as nothing that it is drawn by changes.   *)
LEMMA DrawingDecides ==
  ASSUME NEW e, NEW f, NEW p, SameDrawing(e, f), DrawnWith(e, p)
  PROVE  DrawnWith(f, p)
BY DEF SameDrawing, DrawnWith, AsCreated, ShadowsDrawn, Settings3D!Options,
       Settings3D!Chosen

(* applyPendingConfiguration.                                               *)
LEMMA ConfiguredFits ==
  ASSUME NEW e \in Engines
  PROVE  LET c == Settings3D!Configured(e)
         IN  /\ c \in Engines
             /\ SameChoice(e, c)
             /\ c.pending = Settings3D!None /\ c.tier = Settings3D!Upcoming(e)
             /\ c.alive = e.alive /\ c.applied = e.applied
             /\ c.suppressed = e.suppressed /\ c.fxPending = e.fxPending
             /\ c.source = e.source /\ c.cast = e.cast /\ c.map = e.map
             /\ c.fx = e.fx
<1>. DEFINE c == Settings3D!Configured(e)
            t == Settings3D!Upcoming(e)
<1>1. t \in Settings3D!Tiers
  BY PreferredIsOnOff
<1>2. Settings3D!PixelRatio(t) \in Int
  BY <1>1 DEF Settings3D!Tiers, Settings3D!PixelRatio
<1>. HIDE DEF t
<1>3. c = [e EXCEPT !.pending = Settings3D!None, !.tier = t,
                    !.ratio = Settings3D!PixelRatio(t)]
  BY DEF Settings3D!Configured, t
<1>. HIDE DEF c
<1>4. c \in Engines
  BY <1>1, <1>2, <1>3 DEF Engines
<1>5. /\ c.pending = Settings3D!None /\ c.tier = t
      /\ c.alive = e.alive /\ c.applied = e.applied /\ c.mode = e.mode
      /\ c.suppressed = e.suppressed /\ c.fxPending = e.fxPending
      /\ c.source = e.source /\ c.cast = e.cast /\ c.map = e.map
      /\ c.fx = e.fx
  BY <1>3 DEF Engines
<1>6. Settings3D!Upcoming(c) = t
  BY <1>5 DEF Settings3D!Upcoming
<1>7. QED
  BY <1>4, <1>5, <1>6 DEF SameChoice, c, t

(* applyFX: the shadows are those that the tier and the person want.        *)
LEMMA AppliedFits ==
  ASSUME NEW e \in Engines
  PROVE  LET a == Settings3D!Applied(e)
         IN  /\ a \in Engines
             /\ SameChoice(e, a)
             /\ a.applied /\ ~a.fxPending /\ ShadowsDrawn(a) /\ CastsMap(a)
             /\ Settings3D!Options(a) = Settings3D!Options(e)
             /\ a.suppressed = e.suppressed
<1>. DEFINE a == Settings3D!Applied(e)
            shadows == Settings3D!Chosen(e, e.tier, "shadows")
            size == Settings3D!Tier(e.tier).map
            map == IF shadows = "off" THEN 0 ELSE IF size = 0 THEN 1024 ELSE size
            cast == IF e.source THEN map ELSE 0
<1>1. e.tier \in Settings3D!Tiers /\ shadows \in OnOff
  BY ChosenIsOnOff DEF Engines, Settings3D!FX
<1>2. size \in MapSizes
  BY <1>1 DEF Settings3D!Tier, Settings3D!Tiers, MapSizes
<1>. HIDE DEF shadows, size
<1>3. map \in MapSizes /\ cast \in MapSizes /\ (map > 0 <=> shadows = "on")
  BY <1>1, <1>2, SMT DEF MapSizes, OnOff
<1>4. a = [e EXCEPT !.fxPending = FALSE, !.applied = TRUE, !.map = map, !.cast = cast]
  BY DEF Settings3D!Applied, Settings3D!Shadowed, Engines, shadows, size
<1>. HIDE DEF a, map, cast
<1>5. a \in Engines
  BY <1>3, <1>4 DEF Engines
<1>6. /\ a.alive = e.alive /\ a.mode = e.mode /\ a.tier = e.tier
      /\ a.pending = e.pending /\ a.fx = e.fx /\ a.suppressed = e.suppressed
      /\ a.source = e.source /\ a.map = map /\ a.cast = cast
      /\ a.applied /\ ~a.fxPending
  BY <1>4 DEF Engines
<1>7. /\ SameChoice(e, a)
      /\ Settings3D!Options(a) = Settings3D!Options(e)
      /\ Settings3D!Chosen(a, a.tier, "shadows") = shadows
  BY <1>6 DEF SameChoice, Settings3D!Upcoming, Settings3D!Options, Settings3D!Chosen,
              shadows
<1>8. CastsMap(a)
  BY <1>6 DEF CastsMap, cast
<1>9. ShadowsDrawn(a)
  BY <1>3, <1>6, <1>7 DEF ShadowsDrawn
<1>10. QED
  BY <1>5, <1>6, <1>7, <1>8, <1>9 DEF a

(* The watchdog proposes a tier in the automatic mode only.                 *)
LEMMA WatchedFits ==
  ASSUME NEW e \in Engines, NEW slow \in BOOLEAN
  PROVE  LET w == Settings3D!Watched(e, slow)
         IN  /\ w \in Engines
             /\ SameDrawing(e, w)
             /\ w.mode = e.mode
             /\ e.mode # "auto" => w = e
             /\ w.source = e.source /\ w.cast = e.cast
<1>1. CASE slow /\ e.mode = "auto" /\ e.tier # "low"
  <2>. DEFINE w == [e EXCEPT !.pending = Settings3D!Lower(e.tier)]
  <2>1. Settings3D!Lower(e.tier) \in Settings3D!Tiers
    BY DEF Settings3D!Lower, Settings3D!Tiers
  <2>2. w \in Engines
    BY <2>1 DEF Engines
  <2>3. SameDrawing(e, w) /\ w.mode = e.mode /\ w.source = e.source /\ w.cast = e.cast
    BY DEF SameDrawing, Engines
  <2>4. Settings3D!Watched(e, slow) = w
    BY <1>1 DEF Settings3D!Watched
  <2>. HIDE DEF w
  <2>5. QED
    BY <1>1, <2>2, <2>3, <2>4
<1>2. CASE ~(slow /\ e.mode = "auto" /\ e.tier # "low")
  <2>1. Settings3D!Watched(e, slow) = e
    BY <1>2 DEF Settings3D!Watched
  <2>2. QED
    BY <2>1 DEF SameDrawing
<1>3. QED
  BY <1>1, <1>2

(* setShadowSource: the light that appears casts what was decided.          *)
LEMMA SourcedFits ==
  ASSUME NEW e \in Engines, CastsMap(e)
  PROVE  LET s == Settings3D!Sourced(e)
         IN  /\ s \in Engines /\ CastsMap(s)
             /\ SameDrawing(e, s) /\ SameChoice(e, s)
<1>1. CASE e.source
  <2>1. Settings3D!Sourced(e) = e
    BY <1>1 DEF Settings3D!Sourced
  <2>2. QED
    BY <2>1 DEF SameDrawing, SameChoice
<1>2. CASE ~e.source
  <2>. DEFINE s == [e EXCEPT !.source = TRUE, !.map = e.map, !.cast = e.map]
  <2>1. Settings3D!Sourced(e) = s
    BY <1>2 DEF Settings3D!Sourced, Settings3D!Shadowed, Engines
  <2>2. s \in Engines
    BY DEF Engines
  <2>3. s.cast = s.map /\ SameDrawing(e, s) /\ s.mode = e.mode /\ s.pending = e.pending
    BY DEF SameDrawing, Engines
  <2>. HIDE DEF s
  <2>4. SameChoice(e, s)
    BY <2>3 DEF SameChoice, SameDrawing, Settings3D!Upcoming
  <2>5. QED
    BY <2>1, <2>2, <2>3, <2>4 DEF CastsMap
<1>3. QED
  BY <1>1, <1>2

(* commitActiveScene: bloom is suppressed in the coast scene, and a change  *)
(* of that is to be applied.                                                *)
LEMMA CommittedFits ==
  ASSUME NEW e \in Engines, CastsMap(e), NEW s \in Settings3D!ScenePair
  PROVE  LET c == Settings3D!Committed(e, s)
         IN  /\ c \in Engines /\ CastsMap(c)
             /\ c.suppressed <=> s = "sky"
             /\ SameChoice(e, c)
             /\ \A p : DrawnWith(e, p) => DrawnWith(c, p)
<1>1. e.suppressed \in BOOLEAN
  BY DEF Engines
<1>2. CASE e.suppressed = (s = "sky")
  <2>1. Settings3D!Committed(e, s) = e
    BY <1>2 DEF Settings3D!Committed, Settings3D!WithBloom
  <2>2. QED
    BY <1>2, <2>1 DEF SameChoice
<1>3. CASE e.suppressed # (s = "sky")
  <2>. DEFINE c == [e EXCEPT !.suppressed = (s = "sky"), !.fxPending = TRUE]
  <2>1. Settings3D!Committed(e, s) = c
    BY <1>3 DEF Settings3D!Committed, Settings3D!WithBloom
  <2>2. c \in Engines
    BY DEF Engines
  <2>3. c.suppressed <=> s = "sky"
    BY DEF Engines
  <2>4. /\ c.fxPending /\ c.alive = e.alive /\ c.mode = e.mode /\ c.fx = e.fx
        /\ c.pending = e.pending /\ c.tier = e.tier
        /\ c.source = e.source /\ c.cast = e.cast /\ c.map = e.map
        /\ c.applied = e.applied
    BY DEF Engines
  <2>. HIDE DEF c
  <2>5. SameChoice(e, c) /\ CastsMap(c)
    BY <2>4 DEF SameChoice, Settings3D!Upcoming, CastsMap
  <2>6. \A p : DrawnWith(e, p) => DrawnWith(c, p)
    BY <2>4 DEF DrawnWith, AsCreated
  <2>7. QED
    BY <2>1, <2>2, <2>3, <2>5, <2>6
<1>4. QED
  BY <1>2, <1>3

(* setQuality: the choice is kept as the tier that is to be applied.        *)
LEMMA QualityFits ==
  ASSUME NEW e \in Engines, NEW q \in Settings3D!Tiers \cup {"auto"}
  PROVE  LET w == Settings3D!WithQuality(e, q)
         IN  /\ w \in Engines
             /\ SameDrawing(e, w)
             /\ w.source = e.source /\ w.cast = e.cast
             /\ w.mode = "auto" <=> q = "auto"
             /\ q # "auto" => Settings3D!Upcoming(w) = q
<1>1. AutoStartTier \in Settings3D!Tiers
  BY PageAssumption DEF Settings3D!Tiers
<1>. DEFINE mode == IF q = "auto" THEN "auto" ELSE "manual"
            tier == IF q = "auto" THEN AutoStartTier ELSE q
            w == [e EXCEPT !.mode = mode, !.pending = tier]
<1>2. Settings3D!WithQuality(e, q) = w
  BY DEF Settings3D!WithQuality
<1>3. mode \in {"auto", "manual"} /\ tier \in Settings3D!Tiers
  BY <1>1
<1>4. "none" \notin Settings3D!Tiers
  BY DEF Settings3D!Tiers
<1>. HIDE DEF mode, tier
<1>5. w \in Engines
  BY <1>3 DEF Engines
<1>6. /\ SameDrawing(e, w) /\ w.source = e.source /\ w.cast = e.cast
      /\ w.mode = mode /\ w.pending = tier
  BY DEF SameDrawing, Engines
<1>. HIDE DEF w
<1>7. Settings3D!Upcoming(w) = tier
  BY <1>3, <1>4, <1>6 DEF Settings3D!Upcoming, Settings3D!None
<1>8. QED
  BY <1>2, <1>5, <1>6, <1>7 DEF mode, tier

(* setFXOptions: the overrides are to be applied.                           *)
LEMMA EffectsFit ==
  ASSUME NEW e \in Engines, NEW fx \in [Settings3D!FX -> OnOff]
  PROVE  LET w == Settings3D!WithFX(e, fx)
         IN  /\ w \in Engines
             /\ w.fx = fx /\ w.fxPending
             /\ w.alive = e.alive /\ w.mode = e.mode /\ w.tier = e.tier
             /\ Settings3D!Upcoming(w) = Settings3D!Upcoming(e)
             /\ w.applied = e.applied /\ w.suppressed = e.suppressed
             /\ w.source = e.source /\ w.cast = e.cast /\ w.map = e.map
<1>. DEFINE w == [e EXCEPT !.fx = fx, !.fxPending = TRUE]
<1>1. Settings3D!WithFX(e, fx) = w
  BY DEF Settings3D!WithFX
<1>2. fx \in [Settings3D!FX -> {Settings3D!None, "on", "off"}]
  BY DEF OnOff
<1>3. w \in Engines
  BY <1>2 DEF Engines
<1>4. /\ w.fx = fx /\ w.fxPending /\ w.alive = e.alive /\ w.mode = e.mode
      /\ w.tier = e.tier /\ w.pending = e.pending
      /\ w.applied = e.applied /\ w.suppressed = e.suppressed
      /\ w.source = e.source /\ w.cast = e.cast /\ w.map = e.map
  BY DEF Engines
<1>. HIDE DEF w
<1>5. QED
  BY <1>1, <1>3, <1>4 DEF Settings3D!Upcoming

(* The setters of the scene manager: every scene that exists is told.       *)
LEMMA ToldFits ==
  ASSUME NEW m \in SceneManagers, NEW shafts \in OnOff, NEW ratio \in Int
  PROVE  LET n == Settings3D!Told(m, shafts, ratio)
         IN  /\ n \in SceneManagers /\ ToldSettings(n)
             /\ n.active = m.active /\ n.built = m.built
<1>. DEFINE h == [m EXCEPT !.shafts = shafts, !.ratio = ratio]
            word == [shafts |-> shafts, ratio |-> ratio]
            told == [s \in Settings3D!ScenePair |->
                       IF s \in m.built THEN word ELSE m.told[s]]
            n == [h EXCEPT !.told = told]
<1>1. /\ h \in SceneManagers /\ h.told = m.told
      /\ h.shafts = shafts /\ h.ratio = ratio
  BY DEF SceneManagers
<1>2. Settings3D!Settings(h) = word
  BY <1>1 DEF Settings3D!Settings
<1>3. Settings3D!Told(m, shafts, ratio) = n
  BY <1>1, <1>2 DEF Settings3D!Told, SceneManagers
<1>4. told \in [Settings3D!ScenePair -> Told]
  BY DEF Told, SceneManagers
<1>5. /\ n \in SceneManagers
      /\ n.active = m.active /\ n.built = m.built
      /\ n.shafts = shafts /\ n.ratio = ratio /\ n.told = told
  BY <1>4 DEF SceneManagers
<1>. HIDE DEF n
<1>6. m.built \subseteq Settings3D!ScenePair
  BY DEF SceneManagers
<1>7. ToldSettings(n)
  BY <1>5, <1>6 DEF ToldSettings, Settings3D!Settings
<1>8. QED
  BY <1>3, <1>5, <1>7

(* syncSceneMetrics.                                                        *)
LEMMA SyncedFits ==
  ASSUME NEW m \in SceneManagers, NEW e \in Engines
  PROVE  LET n == Settings3D!Synced(m, e)
         IN  /\ n \in SceneManagers /\ ToldSettings(n)
             /\ n.active = m.active /\ n.built = m.built
<1>1. Settings3D!Preferred(e).shafts \in OnOff
  BY PreferredIsOnOff DEF Settings3D!FX
<1>2. e.ratio \in Int
  BY DEF Engines
<1>3. QED
  BY <1>1, <1>2, ToldFits DEF Settings3D!Synced

(* ensureScene: a scene that is built late is told what the others know.    *)
LEMMA BuiltFits ==
  ASSUME NEW m \in SceneManagers, ToldSettings(m), NEW s \in Settings3D!ScenePair
  PROVE  LET n == Settings3D!Built(m, s)
         IN  /\ n \in SceneManagers /\ ToldSettings(n)
             /\ n.active = m.active /\ n.built = m.built \cup {s}
<1>1. CASE s \in m.built
  BY <1>1 DEF Settings3D!Built
<1>2. CASE s \notin m.built
  <2>. DEFINE word == Settings3D!Settings(m)
              n == [m EXCEPT !.built = m.built \cup {s}, !.told[s] = word]
  <2>1. Settings3D!Built(m, s) = n
    BY <1>2 DEF Settings3D!Built
  <2>2. word \in Told
    BY DEF Settings3D!Settings, Told, SceneManagers
  <2>. HIDE DEF word
  <2>3. n \in SceneManagers
    BY <2>2 DEF SceneManagers
  <2>4. /\ n.active = m.active /\ n.built = m.built \cup {s}
        /\ n.shafts = m.shafts /\ n.ratio = m.ratio
        /\ n.told = [m.told EXCEPT ![s] = word]
    BY DEF SceneManagers
  <2>. HIDE DEF n
  <2>5. Settings3D!Settings(n) = word
    BY <2>4 DEF Settings3D!Settings, word
  <2>6. m.told \in [Settings3D!ScenePair -> Told] /\ m.built \subseteq Settings3D!ScenePair
    BY DEF SceneManagers
  <2>7. ToldSettings(n)
    BY <2>4, <2>5, <2>6 DEF ToldSettings, word
  <2>8. QED
    BY <2>1, <2>3, <2>4, <2>7
<1>3. QED
  BY <1>1, <1>2

(* commitActiveScene, towards the scenes.                                   *)
LEMMA ActiveFits ==
  ASSUME NEW m \in SceneManagers, ToldSettings(m), "sky" \in m.built, NEW s \in m.built
  PROVE  LET n == [m EXCEPT !.active = s]
         IN  ManagerFits(n) /\ n.active = s /\ n.built = m.built
<1>. DEFINE n == [m EXCEPT !.active = s]
<1>1. s \in Settings3D!ScenePair
  BY DEF SceneManagers
<1>2. n \in SceneManagers
  BY <1>1 DEF SceneManagers
<1>3. /\ n.active = s /\ n.built = m.built
      /\ n.shafts = m.shafts /\ n.ratio = m.ratio /\ n.told = m.told
  BY DEF SceneManagers
<1>. HIDE DEF n
<1>4. ToldSettings(n)
  BY <1>3 DEF ToldSettings, Settings3D!Settings
<1>5. QED
  BY <1>2, <1>3, <1>4 DEF ManagerFits, n

(* init3D takes the stored settings over before it commits a scene.         *)
LEMMA EngineStarts ==
  ASSUME v4 \in Stores, NEW s \in Settings3D!ScenePair
  PROVE  LET e == Settings3D!StartedEngine(s)
         IN  /\ e \in Engines /\ CastsMap(e)
             /\ e.suppressed <=> s = "sky"
             /\ DrawnWith(e, Settings3D!NewPasses)
             /\ Chooses(e, v4) /\ e.alive
<1>. DEFINE new == Settings3D!NewEngine
            chosen == Settings3D!WithQuality(new, v4.quality)
            full == IF v4.fx = Settings3D!NoFX THEN chosen
                    ELSE Settings3D!WithFX(chosen, v4.fx)
<1>1. AutoStartTier \in Settings3D!Tiers
  BY PageAssumption DEF Settings3D!Tiers
<1>2. Settings3D!PixelRatio(AutoStartTier) \in Int
  BY PageAssumption DEF Settings3D!PixelRatio
<1>3. Settings3D!NoFX \in [Settings3D!FX -> {Settings3D!None, "on", "off"}]
  BY DEF Settings3D!NoFX
<1>4. /\ new \in Engines /\ ~new.source /\ ~new.applied /\ new.alive
      /\ new.tier = AutoStartTier /\ new.map = 0 /\ new.fx = Settings3D!NoFX
      /\ ~new.suppressed
  BY <1>1, <1>2, <1>3 DEF Settings3D!NewEngine, Engines, MapSizes
<1>5. /\ v4.quality \in Settings3D!Tiers \cup {"auto"}
      /\ v4.fx # Settings3D!NoFX => v4.fx \in [Settings3D!FX -> OnOff]
  BY DEF Stores
<1>. HIDE DEF new
<1>6. /\ chosen \in Engines /\ ~chosen.source /\ ~chosen.applied /\ chosen.alive
      /\ chosen.tier = AutoStartTier /\ chosen.map = 0
      /\ chosen.fx = Settings3D!NoFX /\ ~chosen.suppressed
      /\ chosen.mode = "auto" <=> v4.quality = "auto"
      /\ v4.quality # "auto" => Settings3D!Upcoming(chosen) = v4.quality
  BY <1>4, <1>5, QualityFits DEF SameDrawing
<1>. HIDE DEF chosen
<1>7. /\ full \in Engines /\ ~full.source /\ ~full.applied /\ full.alive
      /\ full.mode = chosen.mode
      /\ Settings3D!Upcoming(full) = Settings3D!Upcoming(chosen)
      /\ full.fx = v4.fx
      /\ full.tier = AutoStartTier /\ full.map = 0
      /\ ~full.fxPending => full.fx = Settings3D!NoFX /\ ~full.suppressed
  <2>1. CASE v4.fx = Settings3D!NoFX
    BY <1>6, <2>1
  <2>2. CASE v4.fx # Settings3D!NoFX
    BY <1>5, <1>6, <2>2, EffectsFit
  <2>3. QED
    BY <2>1, <2>2
<1>8. Settings3D!StartedEngine(s) = Settings3D!Committed(full, s)
  BY DEF Settings3D!StartedEngine, chosen, new
<1>. HIDE DEF full
<1>9. CastsMap(full) /\ DrawnWith(full, Settings3D!NewPasses)
  BY <1>7 DEF CastsMap, DrawnWith, AsCreated
<1>. DEFINE e == Settings3D!Committed(full, s)
<1>10. /\ e \in Engines /\ CastsMap(e) /\ (e.suppressed <=> s = "sky")
       /\ SameChoice(full, e) /\ DrawnWith(e, Settings3D!NewPasses)
  BY <1>7, <1>9, CommittedFits
<1>. HIDE DEF e
<1>11. Chooses(e, v4) /\ e.alive
  BY <1>6, <1>7, <1>10 DEF Chooses, SameChoice
<1>12. QED
  BY <1>8, <1>10, <1>11 DEF e

(* init3D tells the new manager the settings before it builds the scene.    *)
LEMMA ManagerStarts ==
  ASSUME NEW e \in Engines, NEW s \in Settings3D!ScenePair
  PROVE  LET m == Settings3D!StartedManager(s, e)
         IN  ManagerFits(m) /\ m.active = s
<1>. DEFINE new == Settings3D!NewManager
            synced == Settings3D!Synced(new, e)
            built == Settings3D!Built(synced, s)
<1>1. new \in SceneManagers /\ "sky" \in new.built
  <2>1. [shafts |-> "on", ratio |-> 100] \in Told
    BY DEF Told, OnOff
  <2>2. "sky" \in Settings3D!ScenePair
    BY DEF Settings3D!ScenePair
  <2>3. QED
    BY <2>1, <2>2 DEF Settings3D!NewManager, SceneManagers, OnOff
<1>. HIDE DEF new
<1>2. synced \in SceneManagers /\ ToldSettings(synced) /\ "sky" \in synced.built
  BY <1>1, SyncedFits
<1>. HIDE DEF synced
<1>3. /\ built \in SceneManagers /\ ToldSettings(built)
      /\ s \in built.built /\ "sky" \in built.built
  BY <1>2, BuiltFits
<1>4. Settings3D!StartedManager(s, e) = [built EXCEPT !.active = s]
  BY DEF Settings3D!StartedManager, synced, new
<1>. HIDE DEF built
<1>5. QED
  BY <1>3, <1>4, ActiveFits

(* createDisplaySettings shows what is stored.                              *)
LEMMA PanelStarts ==
  ASSUME v4 \in Stores, NEW e \in Engines, e.alive, Chooses(e, v4)
  PROVE  LET p == Settings3D!StartedPanel(e)
         IN  p \in Panels /\ ShowsStore(p, v4)
<1>. DEFINE q == IF e.mode = "auto" THEN "auto" ELSE Settings3D!Upcoming(e)
            t == IF v4.fx = Settings3D!NoFX THEN Settings3D!Preferred(e) ELSE v4.fx
<1>1. q = v4.quality
  BY DEF Chooses
<1>2. t \in [Settings3D!FX -> OnOff]
  BY PreferredIsOnOff DEF Stores
<1>3. Settings3D!StartedPanel(e) = [select |-> q, toggles |-> t]
  BY DEF Settings3D!StartedPanel
<1>4. v4.quality \in Settings3D!Tiers \cup {"auto"}
  BY DEF Stores
<1>5. ASSUME v4.fx = Settings3D!NoFX
      PROVE  t \in {Settings3D!TogglesOf(u) : u \in Settings3D!Tiers}
  BY <1>5, PreferredOfTier, PreferredIsOnOff DEF Chooses
<1>. HIDE DEF q, t
<1>6. QED
  BY <1>1, <1>2, <1>3, <1>4, <1>5 DEF Panels, ShowsStore, t

(* A page that starts.                                                      *)
LEMMA StartFits ==
  ASSUME v4 \in Stores, NEW s \in Settings3D!ScenePair
  PROVE  LET e == Settings3D!StartedEngine(s)
             m == Settings3D!StartedManager(s, e)
             p == Settings3D!StartedPanel(e)
         IN  /\ EngineFits(e, m) /\ ManagerFits(m)
             /\ DrawnWith(e, Settings3D!NewPasses)
             /\ Chooses(e, v4) /\ e.alive
             /\ p \in Panels /\ ShowsStore(p, v4)
<1>. DEFINE e == Settings3D!StartedEngine(s)
            m == Settings3D!StartedManager(s, e)
<1>1. /\ e \in Engines /\ CastsMap(e) /\ (e.suppressed <=> s = "sky")
      /\ DrawnWith(e, Settings3D!NewPasses)
      /\ Chooses(e, v4) /\ e.alive
  BY EngineStarts
<1>. HIDE DEF e
<1>2. ManagerFits(m) /\ m.active = s
  BY <1>1, ManagerStarts
<1>. HIDE DEF m
<1>3. EngineFits(e, m)
  BY <1>1, <1>2 DEF EngineFits
<1>4. /\ Settings3D!StartedPanel(e) \in Panels
      /\ ShowsStore(Settings3D!StartedPanel(e), v4)
  BY <1>1, PanelStarts
<1>5. QED
  BY <1>1, <1>2, <1>3, <1>4 DEF e, m

(* A page that finds no toggles stored.                                     *)
LEMMA SettingsBegin == Settings3D!Init => SettingsInv
<1>. SUFFICES ASSUME Settings3D!Init PROVE SettingsInv
  OBVIOUS
<1>1. v4 \in Stores
  BY DEF Settings3D!Init, Stores
<1>2. PICK s \in Settings3D!ScenePair : /\ v1 = Settings3D!StartedEngine(s)
                                      /\ v3 = Settings3D!StartedManager(s, v1)
  BY DEF Settings3D!Init
<1>3. v5 = Settings3D!StartedPanel(v1)
  BY DEF Settings3D!Init
<1>4. v2 = Settings3D!NewPasses /\ v2 \in [bloom : OnOff, shafts : OnOff]
  BY DEF Settings3D!Init, Settings3D!NewPasses, OnOff
<1>5. QED
  BY <1>1, <1>2, <1>3, <1>4, StartFits DEF SettingsInv

(* renderLoop.                                                              *)
LEMMA FrameFits ==
  ASSUME SettingsInv, NEW slow \in BOOLEAN, NEW poll \in BOOLEAN, NEW fails \in BOOLEAN,
         Settings3D!Frame(slow, poll, fails)
  PROVE  SettingsInv'
<1>. DEFINE must == Settings3D!MustApply(v1)
            configured == Settings3D!Configured(v1)
            applied == IF must THEN Settings3D!Applied(configured) ELSE configured
            watched == Settings3D!Watched(applied, slow)
            lost == IF fails THEN [v3 EXCEPT !.active = "sky"] ELSE v3
            sourced == Settings3D!Sourced(watched)
            drawn == IF must THEN Settings3D!Options(configured) ELSE v2
<1>1. /\ v1 \in Engines /\ CastsMap(v1) /\ v1.alive
      /\ v3 \in SceneManagers /\ ToldSettings(v3)
      /\ v3.active \in v3.built /\ "sky" \in v3.built
      /\ DrawnWith(v1, v2) /\ Chooses(v1, v4)
      /\ v2 \in [bloom : OnOff, shafts : OnOff]
      /\ v4 \in Stores /\ v5 \in Panels /\ ShowsStore(v5, v4)
      /\ v1.suppressed <=> v3.active = "sky"
  BY DEF SettingsInv, EngineFits, ManagerFits, Settings3D!Frame
<1>2. /\ v2' = drawn
      /\ v3' = IF poll THEN Settings3D!Synced(lost, watched) ELSE lost
      /\ v1' = IF fails THEN Settings3D!Committed(sourced, "sky") ELSE sourced
      /\ UNCHANGED <<v4, v5>>
  BY DEF Settings3D!Frame
<1>3. /\ configured \in Engines /\ SameChoice(v1, configured)
      /\ configured.pending = Settings3D!None
      /\ configured.tier = Settings3D!Upcoming(v1)
      /\ configured.alive = v1.alive /\ configured.applied = v1.applied
      /\ configured.suppressed = v1.suppressed /\ configured.fxPending = v1.fxPending
      /\ configured.source = v1.source /\ configured.cast = v1.cast
      /\ configured.map = v1.map /\ configured.fx = v1.fx
  BY <1>1, ConfiguredFits
<1>. HIDE DEF configured
<1>4. /\ applied \in Engines /\ CastsMap(applied)
      /\ SameChoice(configured, applied) /\ DrawnWith(applied, drawn)
      /\ applied.suppressed = v1.suppressed
      /\ drawn \in [bloom : OnOff, shafts : OnOff]
  <2>1. CASE must
    <3>. DEFINE a == Settings3D!Applied(configured)
    <3>1. /\ a \in Engines /\ SameChoice(configured, a)
          /\ a.applied /\ ShadowsDrawn(a) /\ CastsMap(a)
          /\ Settings3D!Options(a) = Settings3D!Options(configured)
          /\ a.suppressed = configured.suppressed
      BY <1>3, AppliedFits
    <3>2. Settings3D!Options(configured) \in [bloom : OnOff, shafts : OnOff]
      BY <1>3, OptionsAreOnOff
    <3>3. applied = a /\ drawn = Settings3D!Options(configured)
      BY <2>1
    <3>. HIDE DEF a, applied, drawn
    <3>4. DrawnWith(a, drawn)
      BY <3>1, <3>3 DEF DrawnWith
    <3>5. QED
      BY <1>3, <3>1, <3>2, <3>3, <3>4
  <2>2. CASE ~must
    <3>1. applied = configured /\ drawn = v2
      BY <2>2
    <3>2. configured.tier = v1.tier
      BY <1>3, <2>2 DEF Settings3D!MustApply
    <3>. HIDE DEF applied, drawn, must
    <3>3. SameDrawing(v1, configured) /\ CastsMap(configured)
      BY <1>1, <1>3, <3>2 DEF SameDrawing, CastsMap
    <3>4. DrawnWith(configured, v2)
      BY <1>1, <3>3, DrawingDecides
    <3>5. QED
      BY <1>1, <1>3, <3>1, <3>3, <3>4 DEF SameChoice
  <2>3. QED
    BY <2>1, <2>2
<1>. HIDE DEF applied, drawn, must
<1>5. Chooses(applied, v4)
  BY <1>1, <1>3, <1>4 DEF Chooses, SameChoice
<1>6. /\ watched \in Engines /\ SameDrawing(applied, watched)
      /\ watched.mode = applied.mode
      /\ applied.mode # "auto" => watched = applied
      /\ watched.source = applied.source /\ watched.cast = applied.cast
  BY <1>4, WatchedFits
<1>. HIDE DEF watched
<1>7. /\ CastsMap(watched) /\ DrawnWith(watched, drawn)
      /\ Chooses(watched, v4) /\ watched.suppressed = v1.suppressed
  <2>1. CastsMap(watched) /\ watched.suppressed = v1.suppressed
    BY <1>4, <1>6 DEF CastsMap, SameDrawing
  <2>2. DrawnWith(watched, drawn)
    BY <1>4, <1>6, DrawingDecides
  <2>3. Chooses(watched, v4)
    BY <1>5, <1>6 DEF Chooses, SameDrawing
  <2>4. QED
    BY <2>1, <2>2, <2>3
<1>8. /\ sourced \in Engines /\ CastsMap(sourced)
      /\ SameDrawing(watched, sourced) /\ SameChoice(watched, sourced)
  BY <1>6, <1>7, SourcedFits
<1>. HIDE DEF sourced
<1>9. /\ DrawnWith(sourced, drawn) /\ Chooses(sourced, v4)
      /\ sourced.suppressed = v1.suppressed
  <2>1. DrawnWith(sourced, drawn)
    BY <1>7, <1>8, DrawingDecides
  <2>2. QED
    BY <1>7, <1>8, <2>1 DEF Chooses, SameChoice, SameDrawing
<1>10. /\ v1' \in Engines /\ CastsMap(v1')
       /\ DrawnWith(v1', drawn) /\ Chooses(v1', v4)
       /\ v1'.suppressed = (fails \/ v1.suppressed)
  <2>1. CASE fails
    <3>. DEFINE c == Settings3D!Committed(sourced, "sky")
    <3>1. "sky" \in Settings3D!ScenePair
      BY DEF Settings3D!ScenePair
    <3>2. /\ c \in Engines /\ CastsMap(c) /\ (c.suppressed <=> "sky" = "sky")
          /\ SameChoice(sourced, c) /\ DrawnWith(c, drawn)
      BY <1>8, <1>9, <3>1, CommittedFits
    <3>3. v1' = c
      BY <1>2, <2>1
    <3>. HIDE DEF c
    <3>4. Chooses(c, v4)
      BY <1>9, <3>2 DEF Chooses, SameChoice
    <3>5. c.suppressed = TRUE
      BY <3>2 DEF Engines
    <3>6. QED
      BY <2>1, <3>2, <3>3, <3>4, <3>5
  <2>2. CASE ~fails
    BY <1>1, <1>2, <1>8, <1>9, <2>2 DEF Engines
  <2>3. QED
    BY <2>1, <2>2
<1>11. /\ ManagerFits(lost)
       /\ lost.active = "sky" <=> (fails \/ v1.suppressed)
  <2>1. CASE fails
    BY <1>1, <2>1, ActiveFits
  <2>2. CASE ~fails
    BY <1>1, <2>2 DEF ManagerFits
  <2>3. QED
    BY <2>1, <2>2
<1>. HIDE DEF lost
<1>12. ManagerFits(v3') /\ v3'.active = lost.active
  <2>1. CASE poll
    BY <1>2, <1>6, <1>11, <2>1, SyncedFits DEF ManagerFits
  <2>2. CASE ~poll
    BY <1>2, <1>11, <2>2
  <2>3. QED
    BY <2>1, <2>2
<1>13. EngineFits(v1', v3')
  BY <1>10, <1>11, <1>12 DEF EngineFits
<1>14. QED
  BY <1>1, <1>2, <1>4, <1>10, <1>12, <1>13 DEF SettingsInv

(* switchScene up to its first await.                                       *)
LEMMA PreparationFits ==
  ASSUME SettingsInv, NEW s \in Settings3D!ScenePair, Settings3D!PrepareScene(s)
  PROVE  SettingsInv'
<1>1. v3' = Settings3D!Built(v3, s) /\ UNCHANGED <<v1, v2, v4, v5>>
  BY DEF Settings3D!PrepareScene
<1>2. ManagerFits(v3') /\ v3'.active = v3.active
  BY <1>1, BuiltFits DEF SettingsInv, ManagerFits
<1>3. QED
  BY <1>1, <1>2 DEF SettingsInv, EngineFits

(* switchScene after its last await.                                        *)
LEMMA ShowingFits ==
  ASSUME SettingsInv, NEW s \in Settings3D!ScenePair, Settings3D!ShowScene(s)
  PROVE  SettingsInv'
<1>1. /\ s \in v3.built
      /\ v3' = [v3 EXCEPT !.active = s]
      /\ v1' = Settings3D!Committed(v1, s)
      /\ UNCHANGED <<v2, v4, v5>>
  BY DEF Settings3D!ShowScene
<1>2. ManagerFits(v3') /\ v3'.active = s
  BY <1>1, ActiveFits DEF SettingsInv, ManagerFits
<1>3. /\ v1' \in Engines /\ CastsMap(v1')
      /\ v1'.suppressed <=> s = "sky"
      /\ SameChoice(v1, v1') /\ DrawnWith(v1', v2)
  BY <1>1, CommittedFits DEF SettingsInv, EngineFits
<1>4. Chooses(v1', v4)
  BY <1>3 DEF SettingsInv, Chooses, SameChoice
<1>5. EngineFits(v1', v3')
  BY <1>2, <1>3 DEF EngineFits
<1>6. QED
  BY <1>1, <1>2, <1>3, <1>4, <1>5 DEF SettingsInv

(* The select of the panel.                                                 *)
LEMMA ChoiceFits ==
  ASSUME SettingsInv, NEW q \in Settings3D!Tiers \cup {"auto"},
         Settings3D!ChooseQuality(q)
  PROVE  SettingsInv'
<1>. DEFINE e == Settings3D!WithQuality(v1, q)
<1>1. /\ v5' = [v5 EXCEPT !.select = q]
      /\ v4' = [v4 EXCEPT !.quality = q]
      /\ v2' = v2
      /\ v1.alive => v1' = e /\ v3' = Settings3D!Synced(v3, e)
      /\ ~v1.alive => UNCHANGED <<v1, v3>>
  BY DEF Settings3D!ChooseQuality
<1>2. /\ v5' \in Panels /\ v4' \in Stores
      /\ v5'.select = q /\ v4'.quality = q
      /\ v5'.toggles = v5.toggles /\ v4'.fx = v4.fx
  BY <1>1 DEF SettingsInv, Panels, Stores
<1>3. ShowsStore(v5', v4')
  BY <1>2 DEF SettingsInv, ShowsStore
<1>4. CASE v1.alive
  <2>1. /\ e \in Engines /\ SameDrawing(v1, e)
        /\ e.source = v1.source /\ e.cast = v1.cast
        /\ e.mode = "auto" <=> q = "auto"
        /\ q # "auto" => Settings3D!Upcoming(e) = q
    BY QualityFits DEF SettingsInv, EngineFits
  <2>. HIDE DEF e
  <2>2. ManagerFits(v3') /\ v3'.active = v3.active
    BY <1>1, <1>4, <2>1, SyncedFits DEF SettingsInv, ManagerFits
  <2>3. DrawnWith(e, v2)
    BY <2>1, DrawingDecides DEF SettingsInv
  <2>4. EngineFits(e, v3')
    BY <2>1, <2>2 DEF SettingsInv, EngineFits, SameDrawing, CastsMap
  <2>5. Chooses(e, v4')
    BY <1>2, <2>1 DEF SettingsInv, Chooses, SameDrawing
  <2>6. QED
    BY <1>1, <1>2, <1>3, <1>4, <2>2, <2>3, <2>4, <2>5 DEF SettingsInv
<1>5. CASE ~v1.alive
  BY <1>1, <1>2, <1>3, <1>5 DEF SettingsInv, Chooses
<1>6. QED
  BY <1>4, <1>5

(* A toggle of the panel.                                                   *)
LEMMA ToggleFits ==
  ASSUME SettingsInv, NEW k \in Settings3D!FX, Settings3D!Toggle(k)
  PROVE  SettingsInv'
<1>. DEFINE value == IF v5.toggles[k] = "on" THEN "off" ELSE "on"
            flipped == [v5.toggles EXCEPT ![k] = value]
            e == Settings3D!WithFX(v1, flipped)
            shafts == Settings3D!Preferred(e).shafts
<1>1. /\ v5' = [v5 EXCEPT !.toggles = flipped]
      /\ v4' = [v4 EXCEPT !.fx = flipped]
      /\ v2' = v2
      /\ v1.alive => v1' = e /\ v3' = Settings3D!Told(v3, shafts, v3.ratio)
      /\ ~v1.alive => UNCHANGED <<v1, v3>>
  BY DEF Settings3D!Toggle, Settings3D!Pushed
<1>2. value \in OnOff
  BY DEF OnOff
<1>. HIDE DEF value
<1>3. flipped \in [Settings3D!FX -> OnOff]
  BY <1>2 DEF SettingsInv, Panels
<1>. HIDE DEF flipped
<1>4. /\ v5' \in Panels /\ v4' \in Stores
      /\ v5'.select = v5.select /\ v4'.quality = v4.quality
      /\ v5'.toggles = flipped /\ v4'.fx = flipped
  BY <1>1, <1>3 DEF SettingsInv, Panels, Stores
<1>5. ShowsStore(v5', v4')
  <2>1. "bloom" \in Settings3D!FX /\ Settings3D!NoFX["bloom"] = Settings3D!None
    BY DEF Settings3D!FX, Settings3D!NoFX
  <2>2. flipped # Settings3D!NoFX
    BY <1>3, <2>1 DEF OnOff, Settings3D!None
  <2>3. QED
    BY <1>4, <2>2 DEF SettingsInv, ShowsStore
<1>6. CASE v1.alive
  <2>1. /\ e \in Engines /\ e.fx = flipped /\ e.fxPending
        /\ e.alive = v1.alive /\ e.mode = v1.mode
        /\ Settings3D!Upcoming(e) = Settings3D!Upcoming(v1)
        /\ e.suppressed = v1.suppressed
        /\ e.source = v1.source /\ e.cast = v1.cast /\ e.map = v1.map
        /\ e.applied = v1.applied /\ e.tier = v1.tier
    BY <1>3, EffectsFit DEF SettingsInv, EngineFits
  <2>. HIDE DEF e
  <2>2. shafts \in OnOff /\ v3.ratio \in Int
    BY <2>1, PreferredIsOnOff DEF SettingsInv, ManagerFits, SceneManagers, Settings3D!FX
  <2>. HIDE DEF shafts
  <2>3. ManagerFits(v3') /\ v3'.active = v3.active
    BY <1>1, <1>6, <2>2, ToldFits DEF SettingsInv, ManagerFits
  <2>4. DrawnWith(e, v2)
    BY <2>1 DEF SettingsInv, DrawnWith, AsCreated
  <2>5. EngineFits(e, v3')
    BY <2>1, <2>3 DEF SettingsInv, EngineFits, CastsMap
  <2>6. Chooses(e, v4')
    BY <1>4, <2>1 DEF SettingsInv, Chooses
  <2>7. QED
    BY <1>1, <1>4, <1>5, <1>6, <2>3, <2>4, <2>5, <2>6 DEF SettingsInv
<1>7. CASE ~v1.alive
  BY <1>1, <1>4, <1>5, <1>7 DEF SettingsInv, Chooses
<1>8. QED
  BY <1>6, <1>7

(* destroy.                                                                 *)
LEMMA EndFits ==
  ASSUME SettingsInv, Settings3D!EngineEnds
  PROVE  SettingsInv'
<1>1. v1' = [v1 EXCEPT !.alive = FALSE] /\ UNCHANGED <<v2, v3, v4, v5>>
  BY DEF Settings3D!EngineEnds
<1>2. /\ v1' \in Engines /\ ~v1'.alive
      /\ v1'.suppressed = v1.suppressed
      /\ v1'.source = v1.source /\ v1'.cast = v1.cast /\ v1'.map = v1.map
  BY <1>1 DEF SettingsInv, EngineFits, Engines
<1>3. QED
  BY <1>1, <1>2 DEF SettingsInv, EngineFits, CastsMap, DrawnWith, Chooses

(* init3D of a page that finds the settings of an earlier one.              *)
LEMMA ReloadFits ==
  ASSUME SettingsInv, Settings3D!Reload
  PROVE  SettingsInv'
<1>. DEFINE e == Settings3D!StartedEngine(v3.active)
<1>1. /\ v1' = e
      /\ v2' = Settings3D!NewPasses
      /\ v3' = Settings3D!StartedManager(v3.active, e)
      /\ v5' = Settings3D!StartedPanel(e)
      /\ v4' = v4
  BY DEF Settings3D!Reload
<1>2. v3.active \in Settings3D!ScenePair /\ v4 \in Stores
  BY DEF SettingsInv, ManagerFits, SceneManagers
<1>3. v2' \in [bloom : OnOff, shafts : OnOff]
  BY <1>1 DEF Settings3D!NewPasses, OnOff
<1>. HIDE DEF e
<1>4. /\ EngineFits(e, v3') /\ ManagerFits(v3')
      /\ DrawnWith(e, Settings3D!NewPasses)
      /\ Chooses(e, v4)
      /\ v5' \in Panels /\ ShowsStore(v5', v4)
  BY <1>1, <1>2, StartFits DEF e
<1>5. QED
  BY <1>1, <1>2, <1>3, <1>4 DEF SettingsInv

(* No order of frames, scenes, choices and reloads parts them.              *)
LEMMA SettingsGoOn ==
  ASSUME SettingsInv, Settings3D!Next
  PROVE  SettingsInv'
BY FrameFits, PreparationFits, ShowingFits, ChoiceFits, ToggleFits, EndFits, ReloadFits
   DEF Settings3D!Next

(* What the invariant is for.                                               *)
LEMMA SettingsAreOne ==
  ASSUME SettingsInv
  PROVE  /\ Settings3D!TypeOK
         /\ Settings3D!DrawnAsPreferred
         /\ Settings3D!ChoiceIsKept
         /\ Settings3D!TogglesAgree
         /\ Settings3D!ScenesAreTold
<1>1. v1 \in Engines /\ CastsMap(v1) /\ (v1.suppressed <=> v3.active = "sky")
  BY DEF SettingsInv, EngineFits
<1>2. Settings3D!TypeOK
  BY <1>1 DEF SettingsInv, Settings3D!TypeOK, Engines, SceneManagers, ManagerFits, Stores,
              Panels, OnOff, MapSizes
<1>3. Settings3D!DrawnAsPreferred
  <2>. SUFFICES ASSUME Settings3D!Settled
       PROVE  \/ v1.applied /\ Settings3D!DrawsPreferred
              \/ Settings3D!NeverAsked /\ Settings3D!DrawsAsCreated
    BY DEF Settings3D!DrawnAsPreferred
  <2>1. v1.alive /\ ~v1.fxPending /\ Settings3D!Upcoming(v1) = v1.tier
    BY DEF Settings3D!Settled, Settings3D!Upcoming
  <2>2. CASE v1.applied
    <3>1. v2 = Settings3D!Options(v1) /\ ShadowsDrawn(v1)
      BY <2>1, <2>2 DEF SettingsInv, DrawnWith
    <3>2. \A k \in Settings3D!FX :
             Settings3D!Preferred(v1)[k] = Settings3D!Chosen(v1, v1.tier, k)
      BY <2>1 DEF Settings3D!Preferred
    <3>3. /\ Settings3D!Preferred(v1).bloom = Settings3D!Chosen(v1, v1.tier, "bloom")
          /\ Settings3D!Preferred(v1).shafts = Settings3D!Chosen(v1, v1.tier, "shafts")
          /\ Settings3D!Preferred(v1).shadows = Settings3D!Chosen(v1, v1.tier, "shadows")
      BY <3>2 DEF Settings3D!FX
    <3>4. Settings3D!DrawsPreferred
      BY <1>1, <3>1, <3>3 DEF Settings3D!DrawsPreferred, Settings3D!Options, ShadowsDrawn,
                              CastsMap
    <3>5. QED
      BY <2>2, <3>4
  <2>3. CASE ~v1.applied
    <3>1. /\ AsCreated(v1, v2)
          /\ v1.fx = Settings3D!NoFX /\ ~v1.suppressed
      BY <2>1, <2>3 DEF SettingsInv, DrawnWith, AsCreated
    <3>2. v4.fx = Settings3D!NoFX
      BY <2>1, <3>1 DEF SettingsInv, Chooses
    <3>3. Settings3D!NeverAsked
      BY <1>1, <2>3, <3>1, <3>2 DEF AsCreated, Settings3D!NeverAsked
    <3>4. Settings3D!DrawsAsCreated
      BY <1>1, <3>1 DEF AsCreated, CastsMap, Settings3D!DrawsAsCreated
    <3>5. QED
      BY <3>3, <3>4
  <2>4. QED
    BY <2>2, <2>3
<1>4. Settings3D!ChoiceIsKept
  BY DEF SettingsInv, ShowsStore, Chooses, Settings3D!ChoiceIsKept
<1>5. Settings3D!TogglesAgree
  <2>1. CASE v4.fx # Settings3D!NoFX
    <3>1. v5.toggles = v4.fx /\ v4.fx \in [Settings3D!FX -> OnOff]
      BY <2>1 DEF SettingsInv, ShowsStore, Stores
    <3>2. ASSUME v1.alive PROVE Settings3D!Preferred(v1) = v4.fx
      <4>1. v1.fx = v4.fx
        BY <3>2 DEF SettingsInv, Chooses
      <4>2. \A k \in Settings3D!FX : v4.fx[k] # Settings3D!None
        BY <3>1 DEF OnOff, Settings3D!None
      <4>3. QED
        BY <3>1, <4>1, <4>2 DEF Settings3D!Preferred, Settings3D!Chosen
    <3>3. QED
      BY <2>1, <3>1, <3>2 DEF Settings3D!TogglesAgree
  <2>2. CASE v4.fx = Settings3D!NoFX
    <3>1. v5.toggles \in {Settings3D!TogglesOf(t) : t \in Settings3D!Tiers}
      BY <2>2 DEF SettingsInv, ShowsStore
    <3>2. ASSUME v1.alive
          PROVE  Settings3D!Preferred(v1)
                   = Settings3D!TogglesOf(Settings3D!Upcoming(v1))
      <4>1. v1.fx = Settings3D!NoFX
        BY <2>2, <3>2 DEF SettingsInv, Chooses
      <4>2. QED
        BY <4>1, PreferredOfTier
    <3>3. QED
      BY <2>2, <3>1, <3>2 DEF Settings3D!TogglesAgree
  <2>3. QED
    BY <2>1, <2>2
<1>6. Settings3D!ScenesAreTold
  BY DEF SettingsInv, ManagerFits, ToldSettings, Settings3D!ScenesAreTold
<1>7. QED
  BY <1>2, <1>3, <1>4, <1>5, <1>6

-----------------------------------------------------------------------------
(***************************************************************************)
(* What moves, whose slots are the preference (v1), the scene and the hour *)
(* (v2, v3), what each scene keeps (v5 to v7), the glow of a reveal (v8),  *)
(* the field of view (v9) and the last frame (v10).                        *)
(***************************************************************************)
\* What a scene shows at rest, which it only ever leaves with a frame.
AtRest(scene, h) ==
  CASE scene = "coast" -> <<v5.clock, Motion!Rest, <<v5.clock, Motion!Rest>>>>
    [] scene = "forest" -> <<v6, Motion!Rest>>
    [] OTHER -> <<IF h # "night" THEN v7.placed ELSE Motion!Rest,
                  IF h # "day" THEN <<v7.clock, Motion!Rest>> ELSE Motion!Rest>>

StillPicture(scene, h) == <<AtRest(scene, h), 0, "wide", 0, FALSE>>

MotionInv ==
  /\ v1 \in BOOLEAN /\ v5.wasReduced \in BOOLEAN
  /\ v5.wasReduced => v5.breath = Motion!Rest
  /\ v10.reduced => v10.picture = StillPicture(v10.scene, v10.hour)

(* A frame for a person who prefers reduced motion: nothing moves, and the  *)
(* clouds, wherever they were, are back in their place.                     *)
LEMMA FramesStandStill ==
  ASSUME MotionInv, v1, Motion!Frame
  PROVE  /\ v5'.clock = v5.clock
         /\ v6' = v6 /\ v7'.placed = v7.placed /\ v7'.clock = v7.clock
         /\ v10'.picture = StillPicture(v2, v3)
         /\ v10'.scene = v2 /\ v10'.hour = v3
<1>1. /\ v5' = IF v2 = "coast" THEN Motion!CoastClouds ELSE v5
      /\ v6' = IF v2 = "forest" THEN Motion!ForestFrame ELSE v6
      /\ v7' = IF v2 = "city" THEN Motion!CityFrame ELSE v7
      /\ v8' = 0 /\ v9' = "wide"
      /\ v10' = [scene |-> v2, hour |-> v3, reduced |-> v1,
                 picture |-> <<Motion!Shown, v8', v9', Motion!Grain, Motion!Shafts>>]
  BY DEF Motion!Frame, Motion!UpdateScene, Motion!EnergyLeft, Motion!Fov
<1>2. Motion!Grain = 0 /\ Motion!Shafts = FALSE
  BY DEF Motion!Grain, Motion!Shafts
<1>3. /\ \A clock : Motion!Moving(clock) = clock
      /\ \A clock : Motion!Swing(clock) = Motion!Rest
  BY DEF Motion!Moving, Motion!Swing
<1>4. Motion!CoastClouds = [clock |-> v5.clock, breath |-> Motion!Rest, wasReduced |-> v1]
  BY <1>3 DEF MotionInv, Motion!CoastClouds, Motion!Rewritten
<1>5. Motion!ForestFrame = v6
  BY <1>3 DEF Motion!ForestFrame
<1>6. Motion!CityFrame = [time |-> v7.time, placed |-> v7.placed, clock |-> v7.clock]
  BY <1>3 DEF Motion!CityFrame, Motion!DayTraffic, Motion!NightMoves
<1>7. /\ v5'.clock = v5.clock
      /\ v6' = v6 /\ v7'.placed = v7.placed /\ v7'.clock = v7.clock
  BY <1>1, <1>4, <1>5, <1>6
<1>8. Motion!CoastShore = <<v5.clock, Motion!Rest>>
  BY <1>3 DEF Motion!CoastShore
<1>9. Motion!Shown = AtRest(v2, v3)
  <2>1. CASE v2 = "coast"
    BY <1>1, <1>4, <1>8, <2>1 DEF Motion!Shown, AtRest
  <2>2. CASE v2 = "forest"
    BY <1>1, <1>3, <1>5, <2>2 DEF Motion!Shown, AtRest
  <2>3. CASE v2 # "coast" /\ v2 # "forest"
    BY <1>3, <1>7, <2>3 DEF Motion!Shown, AtRest
  <2>4. QED
    BY <2>1, <2>2, <2>3
<1>10. QED
  BY <1>1, <1>2, <1>7, <1>9 DEF StillPicture

(* What the scenes keep: nothing but a frame changes it.                    *)
LEMMA OnlyFramesMove ==
  ASSUME Motion!Next
  PROVE  Motion!Frame \/ UNCHANGED <<v5, v6, v7, v10>>
BY DEF Motion!Next, Motion!PrefersMotion, Motion!ShowScene, Motion!HourPasses,
       Motion!Session, Motion!Reveal, Motion!sceneVars

(* What the scenes keep from one frame, setting or hour to the next. *)
LEMMA MotionGoesOn ==
  ASSUME MotionInv, Motion!Next
  PROVE  MotionInv'
<1>1. v1' \in BOOLEAN
  BY DEF MotionInv, Motion!Next, Motion!Frame, Motion!PrefersMotion, Motion!ShowScene,
         Motion!HourPasses, Motion!Session, Motion!Reveal
<1>2. CASE Motion!Frame /\ v1
  <2>1. /\ v5'.clock = v5.clock
        /\ v6' = v6 /\ v7'.placed = v7.placed /\ v7'.clock = v7.clock
        /\ v10'.picture = StillPicture(v2, v3)
        /\ v10'.scene = v2 /\ v10'.hour = v3
    BY <1>2, FramesStandStill
  <2>2. AtRest(v10.scene, v10.hour)' = AtRest(v2, v3)
    BY <2>1 DEF AtRest
  <2>3. v10'.picture = StillPicture(v10.scene, v10.hour)'
    BY <2>1, <2>2 DEF StillPicture
  <2>4. v5'.wasReduced \in BOOLEAN /\ (v5'.wasReduced => v5'.breath = Motion!Rest)
    BY <1>2 DEF MotionInv, Motion!Frame, Motion!UpdateScene, Motion!CoastClouds,
                Motion!Rewritten, Motion!Swing
  <2>5. QED
    BY <1>1, <2>3, <2>4 DEF MotionInv
<1>3. CASE Motion!Frame /\ ~v1
  <2>1. ~v10'.reduced
    BY <1>3 DEF Motion!Frame
  <2>2. v5' = IF v2 = "coast" THEN Motion!CoastClouds ELSE v5
    BY <1>3 DEF Motion!Frame, Motion!UpdateScene
  <2>3. QED
    BY <1>1, <1>3, <2>1, <2>2 DEF MotionInv, Motion!CoastClouds
<1>4. CASE UNCHANGED <<v5, v6, v7, v10>>
  BY <1>1, <1>4 DEF MotionInv, StillPicture, AtRest
<1>5. QED
  BY <1>2, <1>3, <1>4, OnlyFramesMove DEF MotionInv

(* No scene has been drawn. *)
LEMMA MotionBegins == Motion!Init => MotionInv
BY DEF Motion!Init, MotionInv

(* The picture of the coast: its clouds are in their place.                 *)
LEMMA CloudsAreAtRest == MotionInv => Motion!CloudsRest
BY DEF MotionInv, StillPicture, AtRest, Motion!CloudsRest

(* While motion is reduced a frame draws what the one before it drew, if scene
   and hour are the same. *)
LEMMA StillFromFrameToFrame ==
  ASSUME MotionInv, Motion!Next
  PROVE  Motion!StandsStill
<1>1. CASE Motion!Frame /\ v1
  BY <1>1, FramesStandStill DEF MotionInv, Motion!StandsStill
<1>2. CASE Motion!Frame /\ ~v1
  BY <1>2 DEF Motion!Frame, Motion!StandsStill
<1>3. CASE UNCHANGED <<v5, v6, v7, v10>>
  BY <1>3 DEF Motion!StandsStill
<1>4. QED
  BY <1>1, <1>2, <1>3, OnlyFramesMove DEF MotionInv

-----------------------------------------------------------------------------
(***************************************************************************)
(* The page as the run checks it: one part of it acts, the others rest.    *)
(***************************************************************************)
PageVars == <<part, vars, skyMotionVars, slots>>

PageInv ==
  /\ SceneInv
  /\ TrailInv
  /\ DragIsCurrent
  /\ part = "display" => SettingsInv
  /\ part = "motion" => MotionInv
  /\ part = "city" => TowerInv
  /\ part = "palette" => PaletteInv

(* Every part begins as its module says. *)
LEMMA PageBegins == PageInit => PageInv
<1> SUFFICES ASSUME PageInit PROVE PageInv
  OBVIOUS
<1>1. SceneInv /\ TrailInv /\ DragIsCurrent
  BY ScenesBegin, TrailsBegin, DragsBegin DEF PageInit
<1>2. /\ part = "display" => Settings3D!Init
      /\ part = "motion" => Motion!Init
      /\ part = "city" => City!Init
      /\ part = "palette" => Palette!Init
  BY DEF PageInit
<1> QED
  BY <1>1, <1>2, SettingsBegin, MotionBegins, TowerBegins, PaletteBegins DEF PageInv

(* A part that does not act keeps what it has. *)
LEMMA PageRests ==
  ASSUME UNCHANGED slots
  PROVE  /\ SettingsInv => SettingsInv'
         /\ MotionInv => MotionInv'
         /\ TowerInv => TowerInv'
         /\ PaletteInv => PaletteInv'
<1>1. SettingsInv => SettingsInv'
  BY DEF slots, SettingsInv
<1>2. MotionInv => MotionInv'
  BY DEF slots, MotionInv, StillPicture, AtRest
<1>3. TowerInv => TowerInv'
  BY DEF slots, TowerInv, Stands, Glazed
<1>4. PaletteInv => PaletteInv'
  BY DEF slots, PaletteInv
<1> QED BY <1>1, <1>2, <1>3, <1>4

(* A step of the page is a step of one of its parts. *)
LEMMA PageStepIsOfOnePart ==
  ASSUME [PageNext]_PageVars
  PROVE  /\ part' = part
         /\ [Next]_vars
         /\ [SkyNext]_skyMotionVars
         /\ part = "display" => Settings3D!Next \/ UNCHANGED slots
         /\ part = "motion" => Motion!Next \/ UNCHANGED slots
         /\ part = "city" => City!Next \/ UNCHANGED slots
         /\ part = "palette" => Palette!Next \/ UNCHANGED slots
BY DEF PageNext, PageVars

(* Every part keeps its own invariant, and leaves those of the others alone. *)
LEMMA PageGoesOn == PageInv /\ [PageNext]_PageVars => PageInv'
<1> SUFFICES ASSUME PageInv, [PageNext]_PageVars PROVE PageInv'
  OBVIOUS
<1>1. SceneInv' /\ TrailInv' /\ DragIsCurrent'
  BY PageStepIsOfOnePart, StepKeepsScenes, TrailsGoOn, StepIsCurrent DEF PageInv
<1>2. part = "display" => SettingsInv'
  BY PageStepIsOfOnePart, PageRests, SettingsGoOn DEF PageInv
<1>3. part = "motion" => MotionInv'
  BY PageStepIsOfOnePart, PageRests, MotionGoesOn DEF PageInv
<1>4. part = "city" => TowerInv'
  BY PageStepIsOfOnePart, PageRests, TowerGoesOn DEF PageInv
<1>5. part = "palette" => PaletteInv'
  BY PageStepIsOfOnePart, PageRests, PaletteGoesOn DEF PageInv
<1> QED
  BY <1>1, <1>2, <1>3, <1>4, <1>5, PageStepIsOfOnePart DEF PageInv

(* The invariant holds of every page. *)
LEMMA PageIsWellKept == PageSpec => []PageInv
BY PageBegins, PageGoesOn, PTL DEF PageSpec, PageVars

(* In whatever order frames, scenes that throw, the watchdog, the toggles,
   the select and reloads come: once applyFX has run, what is drawn is what the
   engine prefers, and before that it is what init3D made, shadows missing, on a
   page that nothing has asked to differ; the select shows what is stored and
   the engine follows it; so do the toggles, once one of them has been used, and
   before that they show some tier, which may not be that of the engine; and
   every scene that exists has been told (engine.js:161, 206-256, 422-440,
   467-479; display-settings.js:30-56, 64-70; scene-manager.js:75-79). *)
THEOREM SettingsStayTogether == PageSpec => []SettingsAgree
<1>1. PageInv => SettingsAgree
  BY SettingsAreOne DEF PageInv, SettingsAgree
<1> QED BY <1>1, PageIsWellKept, PTL

(* Wherever the documents put the sun, as often as they like and in the
   middle of a fade: no daylight in a night sky, no night around a high sun,
   and what a fade comes to rest at is the palette of the sun's elevation
   (celestial.js, setSnapshot and update); and every trail is of one flight
   (celestial.js:819-889, 906-927). *)
THEOREM SkyStaysTogether == PageSpec => []SkyHoldsTogether
<1>1. PageInv => SkyHoldsTogether
  BY TrailsAreTrails, MixturesAreOfOneHour DEF PageInv, SkyHoldsTogether
<1> QED BY <1>1, PageIsWellKept, PTL

(* For towers of every height that the bands allow: each of their storeys is
   carried by the one below, and windows are on walls, except the retail row of
   the lowest towers, of which WindowsAreOnWalls of module Skyline does not speak
   (city-scene.js). *)
THEOREM TowersStayTogether == PageSpec => []TowerHoldsTogether
<1>1. PageInv => TowerHoldsTogether
  BY TowersHoldTogether DEF PageInv, TowerHoldsTogether
<1> QED BY <1>1, PageIsWellKept, PTL

(* For however many frames, and however often the preference changes between
   them: a person who prefers reduced motion sees one picture of a scene at an
   hour, and clouds that are in their place (every use of motion.js,
   sky-scene.js:818-822). *)
THEOREM NothingMovesWhenReduced == PageSpec => StillWhenReduced
<1>1. PageInv => (part = "motion" => Motion!CloudsRest)
  BY CloudsAreAtRest DEF PageInv
<1>2. PageInv /\ [PageNext]_PageVars => [part = "motion" => Motion!StandsStill]_slots
  BY PageStepIsOfOnePart, StillFromFrameToFrame DEF PageInv
<1> QED BY <1>1, <1>2, PageIsWellKept, PTL DEF PageSpec, PageVars, StillWhenReduced
=============================================================================
