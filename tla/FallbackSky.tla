----------------------------- MODULE FallbackSky ------------------------------
(***************************************************************************)
(* The 2D sky of the room page, stars and drifting clouds, which is shown  *)
(* until the 3D engine has drawn and again when it has failed.             *)
(*                                                                         *)
(*   frontend/src/room-renderer.js   renderCelestial, drawStars,           *)
(*                                   initClouds, animateClouds,            *)
(*                                   resetForResize                        *)
(*   frontend/scenes.js              the class is-3d of the page           *)
(*                                                                         *)
(* A step is one task of the browser's event loop, or one animation frame  *)
(* callback.  Where the clouds are is left out.                            *)
(***************************************************************************)
EXTENDS Naturals, FiniteSets

CONSTANT Handles    \* request ids of requestAnimationFrame

VARIABLES
  engine,     \* the 3D engine: "starting", "drawing" or "gone"
  known,      \* the page has shown a document: currentState
  night,      \* phase of that document
  stars,      \* data-drawn of the star canvas
  clouds,     \* cloudState is set
  frames,     \* callbacks of animateClouds that are due
  cloudRAF,   \* the request id that the page remembers, of a callback or past
  reduced     \* the person prefers reduced motion

layerVars == <<stars, clouds, frames, cloudRAF>>
fallbackVars == <<engine, known, night, layerVars, reduced>>

NoHandle == "none"

\* The class is-3d.
Is3D == engine = "drawing"

-----------------------------------------------------------------------------
\* A frame is requested, beside those in `due'.
Request(due) ==
  /\ cloudRAF' = CHOOSE h \in Handles : h \notin due \cup {cloudRAF}
  /\ frames' = due \cup {cloudRAF'}

\* animateClouds draws, and goes on unless motion is reduced.
Animate(due, kept) ==
  IF reduced THEN frames' = due /\ cloudRAF' = kept ELSE Request(due)

AnimateClouds(h) ==
  /\ h \in frames
  /\ Animate(frames \ {h}, cloudRAF)
  /\ UNCHANGED <<engine, known, night, stars, clouds, reduced>>

\* initClouds of a layer that is ready or not.
InitClouds(ready, due, kept) ==
  /\ clouds' = TRUE
  /\ IF ready THEN frames' = due /\ cloudRAF' = kept ELSE Animate(due, kept)

\* renderCelestial.
RenderCelestial(dark) ==
  /\ known' = TRUE
  /\ night' = dark
  /\ IF Is3D THEN UNCHANGED layerVars
     ELSE stars' = (stars \/ dark) /\ InitClouds(clouds, frames, cloudRAF)
  /\ UNCHANGED <<engine, reduced>>

\* Faulty variant of AfterCancel: the frame that is due is not cancelled.
NotCancelled == frames

\* resetForResize cancels the frame it remembers.
AfterCancel == frames \ {cloudRAF}

ResetForResize ==
  /\ known
  /\ ~Is3D
  /\ stars' = night
  /\ InitClouds(FALSE, AfterCancel, NoHandle)
  /\ UNCHANGED <<engine, known, night, reduced>>

-----------------------------------------------------------------------------
\* The engine draws no frame before the sky of a document is known.
FirstFrame ==
  /\ engine = "starting"
  /\ known
  /\ engine' = "drawing"
  /\ UNCHANGED <<known, night, layerVars, reduced>>

\* init3D fails, or the running engine does.
EngineFails ==
  /\ engine # "gone"
  /\ engine' = "gone"
  /\ UNCHANGED <<known, night, layerVars, reduced>>

PrefersMotion ==
  /\ reduced' = ~reduced
  /\ UNCHANGED <<engine, known, night, layerVars>>

FallbackInit ==
  /\ engine = "starting"
  /\ known = FALSE
  /\ night = FALSE
  /\ stars = FALSE
  /\ clouds = FALSE
  /\ frames = {}
  /\ cloudRAF = NoHandle
  /\ reduced \in BOOLEAN

FallbackNext ==
  \/ \E h \in frames : AnimateClouds(h)
  \/ \E dark \in BOOLEAN : RenderCelestial(dark)
  \/ ResetForResize
  \/ FirstFrame
  \/ EngineFails
  \/ PrefersMotion

FallbackSpec == FallbackInit /\ [][FallbackNext]_fallbackVars

-----------------------------------------------------------------------------
(* The clouds are drawn by one loop at most, however often the page is
   resized, motion is reduced and allowed, and the engine comes and goes: a
   second one would move them twice as fast, for ever (room-renderer.js:
   121-172). *)
OneCloudLoop == Cardinality(frames) <= 1
=============================================================================
