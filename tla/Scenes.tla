------------------------------- MODULE Scenes --------------------------------
(***************************************************************************)
(* The 3D scenes of one browser tab: how the scene controller, the scene   *)
(* manager and the engine survive scenes that throw, a lost context and    *)
(* the page going away, while a person switches scenes.                    *)
(*                                                                         *)
(*   frontend/scenes.js                       init3D, switchScene,         *)
(*                                            renderScene, destroy         *)
(*   frontend/src/3d/scenes/scene-manager.js  the scenes and the fallback  *)
(*   frontend/src/3d/engine.js                frames, waiters, fatal ends  *)
(*   frontend/src/scene-picker.js             who asks for a scene         *)
(*                                                                         *)
(* A step is one task of the browser's event loop: a frame, a timer, a     *)
(* snapshot, a click, or the continuation of switchScene after an await.   *)
(***************************************************************************)
EXTENDS Integers, FiniteSets

CONSTANTS Scenes, Sky

ASSUME SkyIsAScene == Sky \in Scenes

VARIABLES
  manager,      \* the scene manager
  engine,       \* "up", "fatal" (reported, not yet torn down) or "gone"
  fallback,     \* the teardown to the 2D sky is scheduled for the next frame
  activeScene,  \* activeScene of scenes.js, which is also what is stored
  canvas,       \* "full" or "dim": the canvas' opacity
  content,      \* steps of the first frame's publication, see Drawn
  is3d,         \* the page hides its 2D sky
  switch,       \* switchScene in progress
  announced     \* the scene that the picker last told the person about

vars == <<manager, engine, fallback, activeScene, canvas, content, is3d,
          switch, announced>>

Idle == [pc |-> "idle", wanted |-> Sky, resolved |-> Sky, scene |-> FALSE]

-----------------------------------------------------------------------------
(***************************************************************************)
(* The scene manager.  `broken' is the set of scenes whose code throws in  *)
(* the step at hand, wherever the step calls it.                           *)
(***************************************************************************)
Live(m) == m.built \ m.failed

Available(m) == m.active \in Live(m)

\* markFailed
Failed(m, names) ==
  [m EXCEPT !.failed = @ \cup names, !.visible = @ \ names]

\* ensureScene
Ensured(m, name, broken) ==
  IF name \in m.failed \cup m.built THEN m
  ELSE IF name \in broken THEN Failed(m, {name})
  ELSE [m EXCEPT !.built = @ \cup {name}]

\* prepareScene: what an ensured name resolves to.  The sky has been built, or
\* has failed, since the manager was created.
Resolved(m, name) == IF name \in Live(m) THEN name ELSE Sky

\* switchScene(FALLBACK_SCENE): prepare and activate the sky.
ShowFallback(m) ==
  [m EXCEPT !.active = Sky, !.visible = {Sky} \cap Live(m)]

\* Faulty variant of Recovered: only a failed sky is noticed.
NeverRecovered(m) == m

\* recoverActiveScene
Recovered(m) ==
  IF m.active \in m.failed /\ m.active # Sky THEN ShowFallback(m) ELSE m

\* A call into all scenes: celestial updates, and metrics and settings that have
\* changed.  It ends with a recovery.
Called(m, broken) == Recovered(Failed(m, broken \cap Live(m)))

\* update and setLightDirection, of the active scene alone.  They do nothing for
\* one that has failed already; when it fails here, the sky takes its place and
\* is updated in the same frame.
Updated(m, broken) ==
  IF ~Available(m) \/ m.active \notin broken THEN m
  ELSE LET lost == Failed(m, {m.active})
       IN  IF m.active = Sky THEN lost
           ELSE Failed(ShowFallback(lost), broken \cap Live(m) \cap {Sky})

\* invoke: a scene that failed since it was prepared is not called again.
StillWorks(m, name, broken) == name \notin m.failed \cup broken

\* activatePreparedScene.  `scene' says that the preparation returned one.
Activated(m, name, scene, broken) ==
  LET shown  == [m EXCEPT !.active = name,
                          !.visible = IF scene THEN {name} ELSE {}]
      called == scene /\ m.celestial
  IN  IF called /\ ~StillWorks(m, name, broken)
      THEN LET lost == Failed(shown, {name})
           IN  IF name # Sky THEN ShowFallback(lost) ELSE lost
      ELSE shown

-----------------------------------------------------------------------------
(***************************************************************************)
(* The controller.                                                         *)
(***************************************************************************)
\* commitActiveScene, with its listener in the picker.
Commit(name, wanted) ==
  /\ activeScene' = name
  /\ announced' = IF name # wanted THEN name ELSE announced

\* Faulty variant of Reconcile: the manager's fallback is not noticed.
NoReconcile(m) == UNCHANGED <<activeScene, announced>>

\* reconcileManagedScene
Reconcile(m) == Commit(m.active, activeScene)

Hopeless(m) == ~Available(m)

\* What a frame and a snapshot do about the manager after calling it.  A frame
\* that gives up has been drawn all the same.
Settle(m) ==
  /\ manager' = m
  /\ IF Hopeless(m)
     THEN fallback' = TRUE /\ UNCHANGED <<activeScene, announced>>
     ELSE Reconcile(m) /\ UNCHANGED fallback

\* The end of switchScene in the picker's click handler.
Return(name) ==
  /\ switch' = Idle
  /\ announced' = name

Operational == engine = "up"

\* isCurrentTransition: the picker starts one switch at a time, so that only
\* the end of the engine makes a switch obsolete.
Current == Operational

-----------------------------------------------------------------------------
(***************************************************************************)
(* switchScene, await by await.                                            *)
(***************************************************************************)
EngineVars == <<engine, content, is3d>>

ChooseShown(name) ==
  /\ switch = Idle
  /\ engine # "gone"
  /\ name = activeScene
  /\ canvas' = "full"
  /\ Return(activeScene)
  /\ UNCHANGED <<manager, fallback, activeScene, EngineVars>>

ChooseWithoutEngine(name) ==
  /\ switch = Idle
  /\ engine = "gone"
  /\ activeScene' = Sky
  /\ Return(Sky)
  /\ UNCHANGED <<manager, fallback, canvas, EngineVars>>

\* Without a scene there is nothing to compile, and the code goes on at once;
\* here it goes on from "compiling" all the same.
ChooseScene(name, broken) ==
  LET m == Ensured(manager, name, broken)
  IN  /\ switch = Idle
      /\ engine # "gone"
      /\ name # activeScene
      /\ manager' = m
      /\ canvas' = "full"
      /\ switch' = [pc |-> "compiling", wanted |-> name,
                    resolved |-> Resolved(m, name),
                    scene |-> Resolved(m, name) \in Live(m)]
      /\ UNCHANGED <<fallback, activeScene, announced, EngineVars>>

\* A switch that is obsolete when it resumes.
GiveUp(name) ==
  /\ ~Current
  /\ Return(name)
  /\ UNCHANGED <<manager, fallback, activeScene, canvas, EngineVars>>

\* Activate, store and announce, and render the last snapshot.
Show(m, p, broken) ==
  LET shown    == Activated(m, p.resolved, p.scene, broken)
      rendered == Called(shown, broken)
  IN  /\ switch' = [p EXCEPT !.pc = "presenting", !.resolved = shown.active]
      /\ IF m.celestial
         THEN /\ manager' = rendered
              /\ fallback' = (fallback \/ Hopeless(rendered))
              /\ IF Hopeless(rendered) THEN Commit(shown.active, p.wanted)
                                       ELSE Commit(rendered.active, p.wanted)
         ELSE /\ manager' = shown
              /\ Commit(shown.active, p.wanted)
              /\ UNCHANGED fallback

\* Dim the canvas and wait, or show at once for those who prefer less motion.
DimAndShow(m, p, broken) ==
  /\ Current
  /\ \/ /\ canvas' = "dim"
        /\ manager' = m
        /\ switch' = [p EXCEPT !.pc = "dimmed"]
        /\ UNCHANGED <<fallback, activeScene, announced>>
     \/ /\ Show(m, p, broken)
        /\ UNCHANGED canvas
  /\ UNCHANGED EngineVars

Compiled(broken) ==
  /\ switch.pc = "compiling"
  /\ \/ GiveUp(activeScene)
     \/ DimAndShow(manager, switch, broken)

\* The shaders of the incoming scene do not compile: markPreparationFailed,
\* and the sky takes its place.
CompileFails(broken) ==
  LET m == Called(manager, {switch.resolved})
      p == [switch EXCEPT !.resolved = Sky, !.scene = Sky \in Live(m)]
  IN  /\ switch.pc = "compiling"
      /\ switch.scene
      /\ \/ GiveUp(activeScene)
         \/ /\ Current
            /\ Hopeless(m)
            /\ manager' = m
            /\ fallback' = TRUE
            /\ Return(Sky)
            /\ UNCHANGED <<activeScene, canvas, EngineVars>>
         \/ /\ ~Hopeless(m)
            /\ DimAndShow(m, p, broken)

DimmingEnds(broken) ==
  /\ switch.pc = "dimmed"
  /\ \/ GiveUp(Sky)
     \/ /\ Current
        /\ Show(manager, switch, broken)
        /\ UNCHANGED <<canvas, EngineVars>>

\* The display turn after the frame resolves the waiter with true.
Present ==
  /\ Operational
  /\ switch.pc = "rendered"
  /\ canvas' = "full"
  /\ Return(switch.resolved)
  /\ UNCHANGED <<manager, fallback, activeScene, EngineVars>>

-----------------------------------------------------------------------------
(***************************************************************************)
(* The engine, frame by frame, and what ends it.                           *)
(***************************************************************************)
\* The publication of the first frame: 0 before the first snapshot, 1 from then
\* on, 3 when two frames have been drawn since, 4 when it is published.
Drawn(c) == IF c \in {1, 2} THEN c + 1 ELSE c

\* renderLoop.  A frame that fails is a frame followed by Fatal.  In some frames
\* syncSceneMetrics finds that the metrics have changed.
Frame(broken) ==
  /\ Operational
  /\ \E changed \in BOOLEAN :
       Settle(Updated(IF changed THEN Called(manager, broken) ELSE manager, broken))
  /\ content' = Drawn(content)
  /\ switch' = IF switch.pc = "presenting" THEN [switch EXCEPT !.pc = "rendered"]
                                           ELSE switch
  /\ UNCHANGED <<engine, canvas, is3d>>

\* Faulty variant of MayPublish: the end of the engine cancels nothing.
MayAlwaysPublish == TRUE

MayPublish == Operational

PublishFirstFrame ==
  /\ content = 3
  /\ MayPublish
  /\ content' = 4
  /\ is3d' = TRUE
  /\ UNCHANGED <<manager, engine, fallback, activeScene, canvas, switch, announced>>

\* Faulty variant of Awaiting: a waiter that has seen no frame is forgotten.
AwaitingTurn == switch.pc = "rendered"

Awaiting == switch.pc \in {"presenting", "rendered"}

\* resolveFrameWaiters(false): switchScene returns "sky" on an engine that has
\* ended, after whatever else the step announces.
Release(otherwise) ==
  IF Awaiting THEN Return(Sky) ELSE switch' = switch /\ announced' = otherwise

\* reportFatal: a lost context, a shader, or anything that throws in a frame.
Fatal ==
  /\ Operational
  /\ engine' = "fatal"
  /\ fallback' = TRUE
  /\ Release(announced)
  /\ UNCHANGED <<manager, activeScene, canvas, content, is3d>>

\* scheduleRuntime2DFallback, a frame later.
FallBackTo2D ==
  /\ fallback
  /\ fallback' = FALSE
  /\ engine' = "gone"
  /\ is3d' = FALSE
  /\ activeScene' = Sky
  /\ Release(Sky)
  /\ UNCHANGED <<manager, canvas, content>>

\* pagehide.  A teardown that is scheduled already still runs if the page
\* comes back.
Destroy ==
  /\ engine # "gone"
  /\ engine' = "gone"
  /\ is3d' = FALSE
  /\ Release(announced)
  /\ UNCHANGED <<manager, fallback, activeScene, canvas, content>>

-----------------------------------------------------------------------------
\* renderScene, for each snapshot of the room that the page accepts.
Snapshot(broken) ==
  /\ engine # "gone"
  /\ Settle(Called([manager EXCEPT !.celestial = TRUE], broken))
  /\ content' = IF content = 0 THEN 1 ELSE content
  /\ UNCHANGED <<engine, canvas, is3d, switch>>

\* Without an engine nothing of this module shows the snapshot.
SnapshotIn2D == engine = "gone" /\ UNCHANGED vars

\* setQuality and setFXOptions call the scenes, too, outside of any frame.
Settings(broken) ==
  /\ engine # "gone"
  /\ manager' = Called(manager, broken)
  /\ UNCHANGED <<engine, fallback, activeScene, canvas, content, is3d, switch,
                 announced>>

-----------------------------------------------------------------------------
NewManager ==
  [built |-> {Sky}, failed |-> {}, active |-> Sky, visible |-> {Sky},
   celestial |-> FALSE]

\* init3D, with the scene that was stored before; it may fail altogether.
Init ==
  /\ \E stored \in Scenes, broken \in SUBSET (Scenes \ {Sky}) :
       LET m == Ensured(NewManager, stored, broken)
       IN  manager = Activated(m, Resolved(m, stored), TRUE, broken)
  /\ engine \in {"up", "gone"}
  /\ fallback = FALSE
  /\ activeScene = IF engine = "up" THEN manager.active ELSE Sky
  /\ canvas = "full"
  /\ content = 0
  /\ is3d = FALSE
  /\ switch = Idle
  /\ announced = activeScene

SwitchStep(broken) ==
  \/ \E name \in Scenes : ChooseShown(name) \/ ChooseWithoutEngine(name)
                          \/ ChooseScene(name, broken)
  \/ Compiled(broken)
  \/ CompileFails(broken)
  \/ DimmingEnds(broken)

EngineStep(broken) ==
  \/ Frame(broken)
  \/ Snapshot(broken)
  \/ Settings(broken)

EndStep == Fatal \/ FallBackTo2D \/ Destroy

Next ==
  \/ \E broken \in SUBSET Scenes : SwitchStep(broken) \/ EngineStep(broken)
  \/ Present
  \/ PublishFirstFrame
  \/ EndStep
  \/ SnapshotIn2D

Spec == Init /\ [][Next]_vars

\* The page is visible again and again, so that frames and timers go on, and
\* compilations end, one way or the other.  No scene is obliged to throw: fair
\* steps are those in which none does.
FairSpec ==
  /\ Spec
  /\ WF_vars(Frame({}))
  /\ WF_vars(DimmingEnds({}))
  /\ WF_vars(engine # "gone" /\ (Compiled({}) \/ CompileFails({})))
  /\ WF_vars(Present)
  /\ WF_vars(FallBackTo2D)

-----------------------------------------------------------------------------
TypeOK ==
  /\ manager \in [built : SUBSET Scenes, failed : SUBSET Scenes, active : Scenes,
                  visible : SUBSET Scenes, celestial : BOOLEAN]
  /\ Sky \in manager.built
  /\ engine \in {"up", "fatal", "gone"}
  /\ fallback \in BOOLEAN
  /\ activeScene \in Scenes
  /\ canvas \in {"full", "dim"}
  /\ content \in 0..4
  /\ is3d \in BOOLEAN
  /\ switch \in [pc : {"idle", "compiling", "dimmed", "presenting", "rendered"},
                 wanted : Scenes, resolved : Scenes, scene : BOOLEAN]
  /\ announced \in Scenes

(* As long as the sky works, one working scene is shown, whatever else has   *)
(* thrown: also when a scene fails between its preparation and its           *)
(* activation.  It takes the snapshot that is rendered on activation.        *)
ShownIsAlive ==
  manager.celestial /\ Sky \notin manager.failed =>
    Available(manager) /\ manager.visible = {manager.active}

(* The scene that is stored, and marked in the picker, is the one that is    *)
(* shown, or becomes it: also when the manager falls back outside of frames, *)
(* where nobody is told.                                                     *)
StoredBecomesShown ==
  Operational /\ activeScene # manager.active ~>
    ~Operational \/ activeScene = manager.active

\* A step that schedules the teardown of an engine that works.
GivesUp == Operational' /\ fallback' /\ ~fallback

(* A scene that fails costs the person that scene only: on a working engine, *)
(* 3D is given up for a failed sky and for nothing else.  There is one       *)
(* exception in the code: before the first snapshot a scene may be activated *)
(* that has failed since it was prepared, since nothing calls it then; a     *)
(* frame finds it failed, calls nobody, recovers nothing and gives up        *)
(* (scene-manager.js:120, 175, 193; scenes.js:224-227).                      *)
OnlySkyEnds3D ==
  [][GivesUp /\ (manager.celestial \/ Available(manager)) =>
       Sky \in manager'.failed]_vars

(* No outcome of a switch leaves a dimmed canvas behind, and the 2D sky is   *)
(* hidden only behind an engine that has not been torn down: a first frame   *)
(* that is published late does not hide it again.                            *)
NeverInTheDark ==
  /\ Operational /\ ~fallback /\ switch = Idle => canvas = "full"
  /\ is3d => engine # "gone"

(* Each switch ends, and the picker's buttons work again, also when the      *)
(* context is lost before the frame it waits for.  Nothing is said of        *)
(* shaders that are compiling when their engine is torn down.                *)
SwitchEnds ==
  switch # Idle ~>
    switch = Idle \/ (engine = "gone" /\ switch.pc = "compiling")

(* The rule of scene-picker.js: what the picker has announced is what is     *)
(* shown, once no switch is in progress.                                     *)
AnnouncedIsShown ==
  switch = Idle /\ Operational /\ ~fallback => announced = activeScene

(* A scene that throws, wherever that is, costs the person itself only: see  *)
(* ShownIsAlive and OnlySkyEnds3D.                                           *)
FailureStaysLocal == []ShownIsAlive /\ OnlySkyEnds3D
=============================================================================
