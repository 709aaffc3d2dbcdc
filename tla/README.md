# A TLA+ model of aetheldesk

aetheldesk is a shared focus room: people join a room by its name and PIN, and
see the same Pomodoro countdown, the same break, and the same scene. The
backend (`src/backend`, FastAPI with Redis) owns the room documents; the
frontend (`src/frontend`, plain JavaScript with three.js) shows them. This
directory models what can be model-checked of it, and proves part of that.

Contents: [system](#the-system) · [modules](#the-modules) ·
[correspondence](#how-the-modules-correspond-to-the-code) · [runs](#the-runs) ·
[fairness](#fairness) · [proofs](#what-is-proved) ·
[findings](#disagreements-with-the-documentation) ·
[left out](#what-is-not-modelled) · [plan](#plan)

## The system

The contract of the backend is `src/docs/architecture/contracts.md`. Processes
("workers") are stateless except for their sockets; everything shared is in
Redis and changed by Lua scripts or single commands.

| part | code | state it keeps | operations | what makes it correct |
|---|---|---|---|---|
| state reducer | `state.py` | none (pure) | `make_state`, `normalize_state`, `advance_timer_state`, `handle` | phases exclude each other; a gap equals its ticks |
| room mutation | `room_service.py` 217-311 | none between calls | `mutate_room_state`: snapshot, TIME, reconcile + handle, compare-and-set, up to 8 times | no lost update; an answer to every message; the pause is prompt |
| tick scheduler | `scheduler.py` | one loop per worker | `tick_room`: snapshot, lease, reload, commit or complete | each second ticked once; the countdown never freezes |
| Redis scripts of one room | `room_store.py` | state, metadata and tick-lock keys | create, snapshot, compare-and-set, acquire, commit tick, complete | fences on generation, revision and lease |
| registry and tokens | `room_store.py`, `room_routes.py`, `auth.py` | registry set, token sets, TTLs | create, join, issue, authorize, prune, expire, caps (50 rooms, 256 tokens) | a token opens one generation only; the cap counts live rooms |
| PIN limiter | `room_store.py` 699-719 | attempt and block keys | INCR, EXPIRE, SET block | concurrent wrong PINs are counted; block and count go when their times are over |
| connection manager | `connection_manager.py` | sockets of this worker, per-socket generation and high-water mark | connect, disconnect, send, broadcast, close mismatched | a socket sees revisions of one generation, in order |
| event fan-out | `event_bus.py`, `room_service.py` 314-416 | one subscription per room with local sockets | publish, consume, dispatch, start and stop | a live room with sockets is subscribed; no old event wins |
| browser socket | `frontend/src/room-websocket.js`, `app.js`, `room-auth.js` | socket, reconnect timer, token, last revision | connect, message, close, reconnect, logout | one socket; the display never goes back |
| rest ritual and reward | `frontend/src/rest-ritual.js`, `reward-constellation.js` | last reward seen, phase of the break, recovery chosen | reveal, choose, light the constellation | a reward is revealed once; ritual and constellation are of the break that is shown |
| scenes | `frontend/scenes.js`, `scene-picker.js`, `scene-manager.js`, `engine.js` | built and failed scenes, the engine and its waiters, the switch in progress | switch, prepare, activate, fall back, destroy | a failing scene costs itself only; every switch ends; what is stored is shown |
| panels | `frontend/src/dom.js` and the panels | modal root, hidden siblings, focus traps | open, close | one modal; attributes are restored; the focus stays inside |
| renderer and timer controls | `frontend/src/room-renderer.js`, `timer-controls.js` | tab order, focus, slider and its timers, 2D clouds | render a document, click, drag, reset | only the controls of the mode can be reached; the last wish counts; one cloud loop |
| lobby | `frontend/lobby.js` | PIN and code fields, request in flight, stored tokens | type, create, join | a PIN is forgotten when its request is over |
| display settings and engine quality | `frontend/src/display-settings.js`, `engine.js`, `post.js` | tier, overrides, what is pending for the next frame | choose, toggle, step down, reload | what is stored, shown, told to the scenes and drawn agrees |
| motion | the scene modules, `celestial.js`, `engine.js` | motion clocks, trails, camera | frame, pointer, preference | nothing moves under reduced motion; trails are of one flight; no latent drag |
| palette | `frontend/src/3d/atmosphere.js` | grade drawn, grade aimed at | document, frame | what is drawn is of one hour |
| skyline | `frontend/src/3d/scenes/city-scene.js` | one tower being built | add a part | parts rest on parts, windows are on walls |

The other parts (start-up wiring, key formats, celestial astronomy, shaders, most of the
geometry) keep no state that a rule depends on; `PROJECT.json` lists them with the reason.

**How they interact.** A message arrives on a socket (`websocket_handler.py`),
is applied by `mutate_room_state` to the document in Redis, broadcast to the
sockets of this worker and published to the other workers, whose subscriptions
re-read the document and broadcast it. In parallel every worker runs
`tick_once` each second over all rooms; a lease in Redis decides which worker
ticks a room. A room's keys expire when nobody uses it, and the same room id may
then be created again: a *generation*, identified by `room_instance_id`. Ticks,
mutations, tokens, subscriptions and sockets are all bound to a generation.

**What is hard.** Every await lies between a read and the use of what was
read. A commit may follow a stall of any length, a lost reply looks like a failure,
a worker may die with the lease, two workers and several sockets want the same
document, and revisions start at 0 again in each generation. Time is counted by
a countdown that nobody is obliged to decrement each second: the pair
(`remaining`, `last_tick_slot`) must add up whoever advances it. These hazards,
each at its line, are `hazards` in `PROJECT.json`.

The page has a single thread and is hard all the same: it awaits in the middle of a scene switch, and timers of 80 ms (the slider's
debounce), 120 ms (the focus) and 1500 ms (the slider's guard) fire among documents that come every second. The same controls are hidden
and shown by three owners (renderer, ritual, dialogs), and the preference for reduced motion is read live, in every scene and in every frame.

## The modules

| module | what it is |
|---|---|
| `RoomTimer` | the reducer, as pure operators |
| `RoomSync` | one room document in Redis, ticking workers, mutating sockets, faults and generations; extends `RoomTimer` |
| `RoomCycle` | the promise to the people: a cycle of phases with fixed deadlines |
| `RoomSyncCycle` | the refinement mapping from `RoomSync` to `RoomCycle` |
| `MCRoomSync` | instances of `RoomSync`, the refinement, and the reducer against a second-by-second definition |
| `Sockets` | the sockets of one room on one worker: the endpoints, the connection manager, overlapping deliveries |
| `RoomView` | what the page makes of a document: controls, keyboard focus, rest ritual, constellation; its room is `RoomTimer`'s reducer |
| `MCSockets` | instances of `Sockets` and of `RoomView`, the two ends of a connection |
| `RoomFanout` | how commits reach the sockets of all workers: broadcast, publication, subscriptions |
| `MCRoomFanout` | its instances |
| `RoomRegistry` | HTTP and WebSocket requests that create, join and authorize, the keys' TTLs, the scheduler's walk of the index |
| `PinLimiter` | one client's wrong PINs against one room |
| `MCRoomRegistry` | instances of these two |
| `Scenes` | the scene controller, the scene manager and the engine of one browser tab |
| `Display` | quality tiers, effects and settings, from the panel to the frame |
| `SceneMotion` | what moves in the scenes, the reward and the camera's field of view |
| `SkyMotion` | the trails of meteor and satellite, and the camera that a pointer turns |
| `SkyGrade` | the palette that sky, lights and scenes share |
| `Skyline` | how a tower of the city is put together |
| `MCScenes` | instances of these six |
| `RoomClient` | one browser tab in a room: socket, reconnection, token, PIN prompt, accepted snapshots, revealed rewards |
| `Panels` | dialogs: focus traps, isolation of what is behind them, the focus |
| `TimeSlider` | the slider that overrides the sky's time |
| `FallbackSky` | the 2D sky behind and after the engine |
| `Lobby` | the page before the room |
| `MCRoomPage` | instances of these five |
| `RoomTimerProofs` | types and the additivity of the reducer, the upgrade of stored documents |
| `RoomSyncProofs` | type correctness, revisions, lost updates, the lease |
| `RoomTimeProofs` | a gap is its ticks, coherent documents, earned rewards, deadlines, and the refinement of `RoomCycle` |
| `RoomRegistryProofs` | of `RoomRegistry` and `PinLimiter`: PINs and their generations, keys that live together, the index, the bound on wrong guesses |
| `SocketsProofs` | of `Sockets` and `RoomView`: documents in order, generations apart, nobody behind; the ritual is of the break on show, what is offered and lit is of the last document |
| `RoomFanoutProofs` | subscriptions that can be stopped, a handoff without a gap |
| `ScenesProofs` | of `Scenes`, `SkyMotion`, `Display`, `SceneMotion`, `SkyGrade` and `Skyline`: failures stay local, nobody sits in the dark, no latent drag, unbroken trails, settings that agree, a still picture, a sky of one hour, towers that stand |
| `RoomPageProofs` | of `RoomClient`, `Lobby`, `FallbackSky`, `TimeSlider` and `Panels`: one way forward, rewards revealed once and all, a forgotten PIN, one cloud loop, the last drag, one dialog at a time |

**Modules that share a run.** Some parts neither read nor write what another one does: the limiter's keys and the registry's, the
dialogs and the lobby. An instance module then takes several of them and a variable `part`, which is chosen at the start and says whose
steps are taken; the others rest in an initial state. A run explores the union of their behaviours and not the product, which would show nothing
more. A property of a part whose variables other parts share (`v1`, `v2`, ...) or leave unused says so with `part = ...`.

Definitions whose comment begins with "Faulty variant" are plausible mistakes in
the code. No specification uses them; `PROJECT.json` pairs each with a
property, which is violated when the variant takes the place of the definition.

## How the modules correspond to the code

`PROJECT.json` maps each definition to its lines. In outline:

**RoomTimer.** `BackendState` is the document. Two fields are abstracted:
`celestial` is dropped (presentation data of the wall clock that nothing reads
back), and `time_override` keeps only whether an override is set, because the
scheduler tests that. `AdvanceTimer` is the loop of `advance_timer_state`,
unrolled: it runs at most one focus phase and one break phase, because completing
a focus starts a break and ending a break starts nothing. `Handle` has one
operator per message type; retired and invalid messages are `unknown`.
`NormalizeState` is what each read applies, with `Missing` for the fields an
older document lacks.

**RoomSync.** Each action is one Redis call with the local computation up to
the next await.

| action | code |
|---|---|
| `StartTick`, `AcquireLease`, `Reload`, `CommitTick` / `RefuseTick`, `CompleteLease` | the awaits of `tick_room` in order, the last one its `finally` block |
| `TickFails` | a call of the leased section raises; the `finally` block still runs |
| `Crash` | the worker dies anywhere in a tick, or the call of the `finally` block raises |
| `Receive`, `ReadSnapshot`, `ReadSlot`, `CommitMessage` / `RefuseMessage` | the socket loop and the awaits of one attempt of `mutate_room_state`; `RefuseMessage` retries or closes |
| `Connect`, `Disconnect` | a socket appears, bound to the present generation, and goes |
| `CreateRoom`, `ExpireRoom` | the creation script, and the keys' TTL |
| `ClockTick`, `ExpireLock` | Redis TIME, and `EX` of the tick lock |

A lost reply is the second disjunct of both commits: the document is written
and the caller goes the way of a failure. The compare of both scripts is
`GenerationCurrent`, `RevisionCurrent` and, for a tick, `LeaseHeld`. The lease's
nonce is not modelled: a worker has at most one tick in progress on a room, so
slot and owner distinguish leases as the nonce does. Whether *other* sockets are
connected is chosen at each read of `connected`. `lastTick`, `client.since`
and the counters `received`, `faults` and `instances` are history or bounds;
no guard that models code reads the history.

`ExpireRoom` may happen at any moment, also under a connected room: the TTL logic is
not in this module, so its properties hold whatever the TTLs are.

**Sockets.** A coroutine is suspended only at a Redis call, a contended send lock,
`send_text` or `close`; a step resumes one coroutine and runs it to its next
suspension, so what the code does between two awaits is never interleaved. A
delivery (`task`) is `broadcast_json`, or the initial
`close_mismatched_generations` and `send_json` of an endpoint: `Sweep` is its loop over
obsolete sockets, `SendOn` its loop over targets. The loops visit sockets in any order, and
`Stops` skips those at which the code would not be suspended. A send lock is its
queue of waiters. Its object is dropped by `disconnect` and made anew for another
delivery; since a socket connects only once, and whoever holds the old object finds the socket
unregistered, one queue per socket does for both. `shown` is history: the last document written to each socket.
High-water marks that late writers leave for sockets that have gone are kept by the model as by the code;
nothing reads them again.

**RoomFanout.** The same for the path between workers. Here a broadcast to one worker's
sockets is one step that leaves each socket at the newest document (what `Sockets`
shows of it), so that workers, subscriptions and endpoints fit in one model. A
subscription is its task with the readiness future; `current` is the worker's entry in
`event_subscription_tasks`. `Awaited` covers the `asyncio.sleep(0)` after the future: a
task that has ended by then is noticed, one that has been cancelled and has not ended is not.
`LosePublication` is a failed PUBLISH or a worker that dies after its commit; `Break` is a failed
subscription. One generation: `Sockets` has several.

**RoomRegistry.** A request (`req`) is suspended at each Redis call of `create_room`, `join_room` or
the WebSocket's authorization; scripts are single steps. Metadata stands for the PIN it was created with
and its generation, a token for the generation it was issued for. TTLs are counters that `TimePasses` counts down,
so state, metadata and tokens expire on their own and apart. A `walk` is a `SSCAN` of the index, member by member, with the
observations `Prune` is based on; the code walks twice (the room cap of a request and the scheduler's round).
`granted` is history: the tokens that people hold.

**PinLimiter.** A request passes `Check`, then `Accept`s or `Fail`s (INCR), and may be left with
an `Expire` and a `Block` to do, each a call of its own. A request may `Die` before any of them. A time of `Forever` is a
key without a TTL; `orphaned` is history: a request has died before it could set one.

**Scenes.** A step is one task of the browser's event loop: a frame, a timer, a snapshot, a click, or the
continuation of `switchScene` after an await (`switch.pc` names the await). `broken` is the set of scenes that throw in
this step, wherever the step calls them, so every call may fail at every time. `Called` is a call into all live scenes
followed by `recoverActiveScene`; `Updated` is `update` and `setLightDirection`, which call the active scene alone and return early when it has failed already. A `Frame`
is the second, after the first if `syncSceneMetrics` finds a change; a manager that is still not available then gives up. `content` and `is3d` are the publication of the first frame. What the picker has
said last is `announced`. The picker disables its buttons while a switch is in progress; hence one `switch`.

**RoomClient.** A step is one task of the page's event loop, or a step of the server as module `Sockets` shows it to
one socket: documents of the socket's own generation, with increasing revisions. A document is reduced to
what the page decides by: revision, break and reward id; `Commit` lets these change as one
successor of the document can change them. `late` is a document that a worker has read and not yet written; it may be
the first that a new connection is written. `inbox` is what is on its way to a socket; its last message may
be the close. `Connect` is `connect`, called by the timer, by `joinRoomWithPin` and on load. `retry` and `prompt` are the timer and
the dialog, whose `show` clears the timer. The back-off delay, the chime and the phases of a break
are left out here, and so are revisions or reward ids that are missing, which `normalize_state` supplies on
every read. A room between its expiry and its recreation turns everybody away, as does its successor; the two are one here.
`revealed`, `replayed` and `missed` are history.

**RoomView.** `ApplyState` is one document applied: the calls of `setHiddenInteraction` that `renderFocus` and the ritual's `update` make, in their order
(`FocusCalls`, `RestCalls`), one after the other (`During` is the page after each of them, `After` after the last); `focusBeforeHide`; the timers of 120 ms; the reward. A control's `tabindex` is its own, "hidden" (set aside
behind the sentinel of `dom.js:31-37`), or lost. The document comes from `RoomTimer`'s reducer, one second or one message at a time; the reducer and the page are composed, and the
network between them is a queue (`wire`) that a lost connection empties. `FixFocus`, `MoveOn` and `TakesFocus` are the browser's.

**Panels.** `Page` holds the attribute `inert` of the elements that isolation touches, what isolation has set aside (`saved`), the modal root, and each trap's opener. `Isolated` and `Exposed`
are `setModalIsolation`; `Focused` includes the `focusin` listener of another trap that is active; `Rendered` is the browser's focus fix-up at the end of a task.
`Snapshot` is a document that changes the session behind a dialog, and `SwitchReturns` the picker's continuation after `await switchScene`.

**TimeSlider.** `Drag` restarts the debounce timer, `DebounceFires` sends, `ResetTime` sends at once; `recent` is the guard of 1500 ms in `syncSlider`. `wish` and `moot` are history.

**FallbackSky.** A request id is due or past; `cloudRAF` is the one the page remembers. **Lobby.** A PIN is empty, too short, new, or one that has been sent; a request and
its answer's body are awaited together.

**Display.** An engine's configuration, the post-processing passes, what the manager has and what each scene was told, what is stored and what the panel shows are five records.
Operators such as `WithQuality` and `Configured` are the functions of the code on such a record; `Frame` draws with `passes` after the pending configuration.

**SceneMotion.** A motion clock has two values, since only a frame and the next are compared. `Moving` and `Swing` are the two ways the scenes treat reduced motion: a clock that stops, and
a place of rest. `last` is what the last frame showed. **SkyMotion.** A trail holds ages in frames instead of positions, so a gap in a flight shows as an age that is missing.
**SkyGrade.** Five of the channels of a stop, in thousandths. **Skyline.** `addBuilding`, part by part; random numbers are the ends and the middle of their range.

**RoomCycle** has no countdown: a running phase is a deadline on one clock, and
messages are the only thing that moves it. `RoomSyncCycle` reads a deadline
off the document as `last_tick_slot + remaining`.

## The runs

All runs use short times, named by the constants: a minute is one second
(`MinuteSeconds = 1`), a focus and a break last one to three, so that completion,
the end of the break and a catch-up across both lie inside the few
seconds explored. The lease length is the real one (2). `MaxSlot`,
`MaxInstances`, `MaxMessages` and `MaxFaults` bound behaviours by
guards on the environment's actions alone. `CHECK_DEADLOCK FALSE` is
used where those bounds let the modelled system come to a stop.

| run | question | what the bounds contain |
|---|---|---|
| `room_sync` | With two workers and a socket on one document: moved deadlines, late pauses, unearned rewards? Does it implement `RoomCycle`? Is one long gap its ticks one by one? | 4 seconds (so a 2-second lease taken in the first expires and is taken over), two messages, two attempts, one crash, lost reply or failed call; a whole cycle fits; the celestial refresh lies outside |
| `room_generations` | Does anything of a deleted generation reach its successor; is a second ticked twice? | a room an older version left in any phase, a worker and a socket in mid-operation, two generations whose revisions coincide, a celestial refresh inside the window |
| `room_liveness` | Does a running countdown catch up, and is each message answered (liveness)? | workers and a socket that conflict until the attempts are used up, one fault |
| `sockets` | Can a socket see an older document after a newer, or one of another generation, or be left behind? What does a page make of documents that come in order? | two sockets, two generations of one revision each, stalled and failing writes, a socket that authorizes before and registers after the recreation; a break of three seconds, which has each phase, two rewards (a cycle), one document on its way and one focus move under way |
| `room_fanout` | Is a subscribed worker's socket ever left behind, or a subscription forgotten? | three sockets on one worker (one leaves, one is accepted, one synchronises), two subscriptions, a fault |
| `registry` | Does a token open anything but what its PIN opened; are live rooms listed, kept and counted? How many wrong PINs can concurrent requests try? | two requests, two rooms, a cap of one, two generations, keys that expire apart, a walk overtaken by a recreation; three guessers, five attempts as in the code, the window shorter than the block, a death between any two calls |
| `scenes` | Does a failing scene, a lost context or a closing page leave the page stuck, dark or out of step with its picker? Is a frame drawn as preferred, and still when it should be? | the three scenes of the picker, every subset of which may throw at every step; three tiers, three effects, two scenes and a reload; trails of three points; the palette's stops and the zenith with two jumps of the sun; heights at and beside every limit of `addBuilding` |
| `room_page` | Can a tab get stuck, stay on an old room or document, or reveal a reward twice or not at all? Do dialogs, the slider, the 2D sky and the lobby keep their promises? | two generations with four revisions each, one fault (a lost connection with what was on its way, a failed join or a reload), an older document written first to a new socket; four dialogs; two slider positions, two changes by others; three request ids; two room codes |
| `double_charge` | the documented rule `TickKeepsDeadline`, with a refresh inside the window | **violated**, see below |
| `handoff` | the documented rule `ServedIsCurrent`, for two sockets on one worker | **violated**, see below |
| `scene_announcement` | the commented rule `AnnouncedIsShown` | **violated**, see below |
| `time_reset` | the documented rule `ResetReturnsToRealTime` | **violated**, see below |

Two workers are enough to race for the lease and take it over; a third adds
no new way for a script's fence to fail, since each compares one holder with one
document. Two conflicting parties (a worker and a socket, or two sockets) are what a
compare-and-set can confuse. `MaxAttempts = 2` (the code has 8) reaches both the retry and
the surrender.

The properties, and what they would catch:

* `RevisionIdentifiesState`: equal revision means equal document, for everyone
  who holds a snapshot. It is why the scripts may compare numbers.
* `NoLostUpdate`: each change within a generation is computed from
  exactly the document it replaces, by a holder of that generation, and raises
  the revision by one.
* `TickSecondsIncrease`: no second is ticked twice, through stalls,
  takeovers, crashes and lost replies.
* `ReducerIsSound`: `DocumentCoherent` (the phase flags, countdowns and the slot anchor fit together) and `CatchUpIsTickByTick` (the reducer, for each
  document that comes about and gaps longer than focus and break together, against a second-by-second definition).
* `RewardIsEarned`: one reward per focus that has run its time.
* `TimeIsKept`: `TickKeepsDeadline` and `BystanderKeepsDeadline` (the second at which the cycle ends moves only when a person moves it), and
  `PauseIsPrompt` (a pause freezes the countdown at a second between receipt and commit). `TickAccountsForTime` is what remains of the first with a refresh in the window.
* `ShowsOneCycle`: the refinement. It starts from `Spec`, whose rooms are created by
  the current code.
* `TimerCatchesUp`, `MessageIsAnswered`: liveness.
* `DeliveredInOrder`: what is written to a socket is of its own generation and newer than what
  was written before, whoever writes. `NobodyIsBehind`: the suppression that makes it so
  leaves nobody with an old document when all is quiet.
* `OneGeneration`: greeted sockets that are registered together belong to one generation.
* `SubscribedIsCurrent`: with a live subscription, each served socket is up to date when all is quiet;
  it takes the synchronisation by the endpoint that restarts a subscription. `ServedIsCurrent` says it without the
  proviso.
* `NoSubscriptionIsLost` (`SubscriptionsAreKnown`, `WaitersAreTold`): a subscription that consumes events is the one the worker can stop, and
  no endpoint waits for the readiness of one that has gone.
* `PinOpensItsRoomOnly`: a token issued for a PIN opens only a generation created with that PIN, however requests
  and recreations interleave.
* `KeysLiveTogether` (`GrantedStaysValid`, `NoOneSidedRoom`): a token is good as long as its generation lives, and TTLs that are refreshed by
  different calls do not leave a room that nobody can enter.
* `IndexFollowsRooms` (`LiveRoomsAreListed`, `RunningRoomLives`, `RefusalIsJustified`): pruning never loses a live room for the scheduler, a ticking room
  does not expire, and members of dead rooms do not exhaust the cap.
* `GuessesAreBounded`, `QuietStartsAfresh`: checking, counting and blocking are separate calls; a client gains at most the requests
  in flight, and after a quiet time it starts from zero. The exception is part of the property, and exact: a request that dies between
  INCR and EXPIRE leaves a count that is there for good, and nothing else does; see the disagreements below.
* `FailureStaysLocal` (`ShownIsAlive`, `OnlySkyEnds3D`): while the sky works, exactly one working scene is visible, and 3D is given up for a failed
  sky only. `ShownIsAlive` speaks of a manager that has had a snapshot. `OnlySkyEnds3D` speaks of the step that gives up, and excepts
  one state of the code, a failed scene on show before the first snapshot; there 3D is lost for another scene, see the disagreements below.
* `OneWayForward`: a tab has a socket, a reconnect timer or the PIN prompt, and never two of them. `PageCatchesUp` (`PageFollows`, liveness): when
  nothing breaks any more, it shows the room as it is or asks for the PIN.
* `RevealedOnce`, `EarnedIsRevealed`: the tracker starts again with each connection, and still a reward is not
  revealed twice in a tab, and one that is earned while the page watches is revealed in every generation. The exception in `RevealedOnce` is
  real: when the first document of a connection is older than a reward the tab has already revealed (a worker had read it
  before), the next document reveals that reward again, which `src/docs/ux/audit.md:217` ("without
  replaying the reveal") does not foresee.
* `StoredIsShown` and `EverySwitchEnds` (`StoredBecomesShown`, `SwitchEnds`, liveness), `NeverInTheDark`: the stored scene follows the manager's fallback; every
  switch ends, also when the context is lost while it waits for a frame; no outcome leaves the canvas dimmed
  or the 2D sky hidden behind nothing.

* `PageShowsTheRoom` (`ControlsFollowMode`, `ConstellationKeepsUp`): whatever was hidden and shown before, the keyboard reaches the controls of the
  mode and no others, and the constellation has the progress of the cycle and is visible in a break, although the 3D sky comes late, goes and comes back.
* `RitualFollowsBreak`: the page celebrates only what it has seen being earned, and forgets the recovery that was chosen in an earlier break. The proviso `~blind` is real:
  a page that was away from one break to the next does not notice that there were two.
* `DialogsIsolate` (`DialogIsModal`, `ControlsComeBack`, `FocusContained`, `AttributesFollowSession`): dialogs that open over one another, return late from a switch, or stay open
  while the session changes behind them isolate one at a time, keep the focus (on the dialog or on nothing, but for a picker that is busy with a switch) and leave every attribute as its owner wants it.
* `LastDragCounts`: neither an earlier position of a drag nor a late document of one wins over the last. `OneCloudLoop`: a resize cancels the frame it remembers, so the clouds have one loop.
  `PinIsForgotten`: a PIN goes with one request and is gone with it, also while the browser is leaving the page.
* `SettingsAgree` (`DrawnAsPreferred`, `ChoiceIsKept`, `TogglesAgree`, `ScenesAreTold`): the frame, storage, panel and scenes agree on tier and effects in whichever order the watchdog,
  the person, a scene that is built late and a reload change them. Two states are excepted, because in them the code disagrees with itself, and the properties say what is drawn and shown there:
  a page for which `applyFX` has never run (`NeverAsked`, `DrawsAsCreated`), and a panel whose toggles nobody has used. See the disagreements below.
* `StillWhenReduced`, `NoLatentDrag`: with reduced motion a frame repeats the one before, and a drag that the preference cut short does not jump later.
* `SkyHoldsTogether` (`TrailsAreUnbroken`, `SkyIsOfOneHour`): a trail has no gap and no point of another flight; and while the palette fades after a jump of the sun, it never shows the
  numbers of one hour under the elevation of another. `TowerHoldsTogether`: every part of a tower stands on the one below, and windows are on walls, at
  every height and every roll, but for the retail row of towers of less than 12.7 m, which is higher than the podium it belongs to and is left out (`WindowsAreOnWalls`).

## Fairness

In `RoomSync`, `FairSpec` assumes weak fairness of each worker's `tick_room` steps (the scheduler
loop calls it each second for ever, `scheduler.py` and `scheduler_wiring.py`), of a
mutation in progress (the event loop resumes an awaiting coroutine), of the clock, and of
key expiry. Nothing forces a person to send a message, a room to be created or to
expire, or a fault to occur. Finitely many messages and faults (their bounds) are
assumed: a stream of conflicting commits could otherwise postpone a tick for ever.

In `Scenes`, fairness is of frames, of the timer that ends the dimming, of compilation (one way or the other), of
the display turn after a frame, and of a scheduled teardown: the page is visible again and again. Fair steps are those in which
no scene throws, so nothing rests on a failure. `SwitchEnds` says nothing of shaders that
are compiling when the engine is torn down, because three.js polls a renderer that has gone.

In `RoomClient`, fairness is of the page's event loop and timer, of the server's answer to a join, of writing the present document to
a socket that has not got it (`NobodyIsBehind`) and of closing a socket of another generation. Submitting a PIN is not fair:
nobody has to know it.

`Sockets`, `RoomFanout`, `RoomRegistry`, `PinLimiter` and the modules of the page that are not named here state safety only. In an instance module that explores
several parts, fairness is of the part that acts: `WF_vars(part = "client" /\ ...)`.

The clock stops at `MaxSlot` but time does not. `LastSecondPasses` therefore lets the last
second stand for all later ones: in it, a lock that no tick in progress is using expires.
Without it, a lease of a dead worker could never expire only because the bound
is reached. Its guard `~LeaseInUse` keeps it from taking a lease from a live worker that has
had no time to act. It is a step of `FairSpec` only, not of `Spec`.

## What is proved

Proofs hold for every value of the constants that satisfies `TimerAssumption` and
`SyncAssumption`: any number of workers and sockets, any durations, any
clock and number of messages, faults and generations; those about the registry assume `RegistryAssumption` (a time to live, caps), those about the PIN limiter `LimiterAssumption` (finitely many requests), those about the page `ClientAssumption`, `ViewAssumption` (a break has a duration), `SkyAssumption` (sizes are numbers), `SliderAssumption` (the present is no position to drag to) and `PageAssumption` (elevations of a sky, heights within the bands of the city). They are about `Spec`, or the specification they name, those of `RoomTimeProofs` about `UpgradeSpec` as well.

* `TypeCorrect`: `Spec => []TypeOK`. `TypeOK` is inductive, resting on one lemma per reducer
  operator and one for each group of actions. The type carries facts the code relies on,
  such as that no countdown becomes negative.
* `RevisionsIdentifyStates`: `Spec => []RevisionIdentifiesState`. The invariant alone is
  not inductive: a room recreated under a fresh id must not coincide with a
  generation somebody already holds. `RevisionInv` adds `GenerationsHandedOut` (nobody
  holds an instance that has not been handed out). Then creation disturbs
  nobody, and a commit raises the revision above each snapshot held.
* `NoUpdateIsLost`: `Spec => NoLostUpdate`, from `RevisionInv`: where a commit's
  fences pass, the holder's snapshot *is* the document.
* `NoSecondTickedTwice`: `Spec => TickSecondsIncrease`. Its invariant `LeaseInv` says that a
  running lease is for a second later than every committed tick, and that as long as the
  clock shows the second last ticked, the `done` value of that second is still there. The latter
  is what `LockSeconds > 0` provides, and what makes acquisition in the same second impossible.
* `DocumentsAreCoherent`, `RewardsAreEarned`, `TicksAccountForTime`, `BystandersKeepDeadline`, `PausesArePrompt` (`RoomTimeProofs`), of `Spec` and of `UpgradeSpec`:
  `DocumentCoherent`, `RewardIsEarned`, `TickAccountsForTime`, and two of the three parts of `TimeIsKept`. The lemmas say what a catch-up (`Advanced`), a new
  anchor, a tick and a message do to a document whose phases fit. That a commit keeps the document coherent depends on the second it brings, so the invariant `TimeInv`
  adds `SlotsPass`: a socket's second was read after its document, and no second is ahead of the clock. A tick's second is *not* bounded from below
  by the document: that is the finding `double_charge`, and the reason why the third part, `TickKeepsDeadline`, is no theorem.
* `OnlyRefreshesDisturb`, `RoomsShowOneCycle`, `TimeStaysKept` (`RoomTimeProofs`): the refinement of `RoomCycle`. A catch-up of a document anchored at `a` to second `b` is
  `Until` at `b` (`CatchUpIsUntil`: within a focus, through its end, within a break, through both), a message handled at the second of its anchor is `Obey` (`HandledIsObeyed`), and
  every commit of `Spec` is one of the two. Only rooms whose countdown is anchored refine (`Anchoring`, invariant of `Spec` and not of `UpgradeSpec`). `OnlyRefreshesDisturb` says it for every clock: each step is one of
  `RoomCycle`'s or `OvertakenRefresh`, so `double_charge` is the only way in which ticks depart from the promise. `NoRefreshDue`, under which `ShowsOneCycle` and all of `TimeIsKept` are
  theorems, is a condition on the clock's window and the refresh period; it holds in the run `room_sync` and between two multiples of 30 in a deployment.
* `CatchUpIsAdditive` (reducer): advancing by `m` and then by `n` seconds
  is advancing by `m + n`. It is the reason why it does not matter who advances a countdown and how often.
* `CatchUpIsItsTicks`, `ReducersAreSound` (`RoomTimeProofs`): advancing any document by any `n` seconds is `n` ticks, `Spec \/ UpgradeSpec => []ReducerIsSound`. The ticks are a recursive
  function of their number. That it is defined (`TicksAreDefined`) follows from additivity, which provides a function that satisfies its equation; and a least number of
  seconds for which catch-up and ticks differ (`LeastNatural`) contradicts additivity again.
* `UpgradedRoomsKeepUpdates`: `RevisionIdentifiesState`, `NoLostUpdate` and `TickSecondsIncrease` of `UpgradeSpec`, whose room an older version left in Redis.
* `UpgradeIsStable` (reducer): a document of any older version is a state of the reducer (`BackendState`) once it has been read, its break is no longer than `BreakDuration`, and reading it again changes
  nothing, so it does not matter which process upgrades it or when it is written back. The code clamps `break_remaining` in a break only (`state.py:70`), so a document without a break is assumed to have none
  that is negative, as every version writes it.
* `PinsOpenTheirRoomOnly` (`RoomRegistryProofs`): `Spec => []PinOpensItsRoomOnly`. The invariant `PinInv` follows the PIN from its verification to the token: generations are
  numbered, so who waits to issue a token for an older one cannot name the new one (`RequestsAreSound`); tokens are numbered, so the one that opens a room is the one that was granted
  (`TokensAreGranted`), and its holder's PIN is the room's while its generation is (`GrantsAreSound`).
* `RoomsLiveAsOne`: `Spec => []KeysLiveTogether`. `KeysAgree` strengthens it to times: the canonical keys have the same time left, and once a generation has a token, so has the token set.
* `IndexIsKept`: `Spec => []IndexFollowsRooms`, if `Ttl > 1`. `IndexInv` adds two things. `RunningAreTended`: a room whose countdown runs has its full TTL, or one second less while the scheduler's
  round of this second is due or will still come to it. `WalksSeeRooms`: who walks the index to count rooms has passed only members that existed when it began. With a TTL of one second a running room of the model
  would expire before its turn, hence the hypothesis; the code has 300 (`ROOM_TTL_SECONDS`) and a round each second.
* `QuietIsForgiven`: `Spec => []QuietStartsAfresh` of `PinLimiter`. `KeysAge` says that a count without a window has its one request on the way to EXPIRE or has lost it, and that a lost one is never replaced: only the request that counts 1 sets the window.
* `GuessesBounded`: `Spec => []GuessesAreBounded` of `PinLimiter`, for any limit, window and number of requests. The bound
  alone is not inductive: `GuessInv` adds that each guess is counted while the limit is not reached, and that each
  one above it has its request among those that are about to block (`Blocking`) or dead. `TypeCorrect` of `PinLimiter` (in `RoomRegistryProofs`) needs `OneStarter`: only one
  request can have counted 1, and until it starts the window the key does not expire.

* `DocumentsArriveInOrder`, `GenerationsDoNotMix`, `NobodyStaysBehind` (`SocketsProofs`): `DeliveredInOrder`, `OneGeneration` and `NobodyIsBehind` of `Sockets`, for any sockets, generations, revisions and deliveries
  under way. One inductive invariant, `SocketsInv`, carries the three: a socket is registered for the generation of its token and at certain stages of its endpoint only (`Membership`, `Occupation`); a delivery has a document
  that the room has had, and waits for sockets of that generation (`Documents`); no mark is ahead of the room (`Marks`); who writes holds the lock of the socket and has news for it, and otherwise the socket's mark is what it was written last (`Writing`);
  once a socket has swept, registered ones of older generations are on their way out (`OldOnesLeave`); and a socket that is behind has been promised the document, by an event to come or a delivery that has it among its targets
  (`Promised`). The mark alone is not inductive, because it is raised after the write it belongs to. Each suspension of each task is a step of the proof.
* `SubscriptionsAreNotLost` (`RoomFanoutProofs`): `NoSubscriptionIsLost`, with faults. `KnownInv` adds that a worker's entry names a task of its own, that a future is pending exactly as long as its task is subscribing, and that endpoints wait for tasks that were started.
* `HandoffHasNoGap`: `SubscribedIsCurrent`. `HandoffInv` says that, without faults, a subscription is live or the endpoint that started it waits for it (`Working`), and that a served socket shows the newest document, is about to, or the document is on its way to
  the worker: an endpoint that synchronises, an event, or a commit that will be announced (`Covered`).
* `FailuresStayLocal`, `NobodySitsInTheDark` (`ScenesProofs`): `FailureStaysLocal` and `NeverInTheDark` of `Scenes`, for any set of scenes. `SceneInv`: the manager shows a scene that it has built, and with a snapshot it has recovered from every failure it knows (`Sound`); what a
  switch is going to show has been built (`Prepared`); and the canvas is dim for a switch that is between dimming and its end (`DimsForSwitch`). That 3D ends for a failed sky only is an action property, with one lemma per step that can give up:
  a frame whose manager was available at its start, or has had a snapshot, ends unavailable only if the sky failed in it (`UpdateFallsBack`, `GivesUpForSky`).
* `PageHasOneWay`, `RewardsAreRevealedOnce`, `EarnedRewardsAreRevealed` (`RoomPageProofs`): `OneWayForward`, `RevealedOnce` and `EarnedIsRevealed` of `RoomClient`, for any generations, revisions and faults. `ClientInv`: only the socket that the page listens to may be open (`OneSocket`);
  what was revealed of the generation on show is observed or was missed (`Remembered`); and the documents that may still reach the page form a chain, in which a later revision has no fewer rewards (`Ordered`), so that the one on show carries
  all that was observed (`LatestIsShown`).

`TypeOK` of `Sockets`, `RoomFanout`, `RoomRegistry`, `Scenes` and `RoomClient` is part of these invariants; no run keeps it, since their
other invariants already evaluate every variable.

* `RitualIsOfItsBreak` (`SocketsProofs`): `EndsSpec => []RitualFollowsBreak`, for any durations and bounds. `ViewInv`: what is on its way to a page ends with the room's document and has no gap, and unless it is the first of a
  connection it goes on where the page is (`WireIsGapless`); two documents in a row that are both of a break have the same reward (`Follows`); so a choice that was made while the page was connected cannot miss the end of its break
  (`RitualKnows`). What the tracker has observed is never behind the document on show, which is why a reward that it reveals has just risen.
* `LastDragIsKept` (`RoomPageProofs`): `PageSpec => []LastDragCounts`, for any positions and bounds. `WishIsOnItsWay` says where the last position is: in the debounce timer, last in the channel to the room, or last in the channel to the page, and that the
  guard keeps the slider on it until then.
* `CloudsHaveOneLoop`: `Spec => []OneCloudLoop` of `FallbackSky`, for any set of request ids. That there is one loop is not inductive; `OnlyRemembered` is: the only frame that may
  be due is the one that `resetForResize` would cancel, and there is none before the clouds are set.
* `PinsAreForgotten`: `Spec => []PinIsForgotten` of `Lobby`, which is inductive by itself, for any room codes (none of which is the model's `None`).
* `DragsAreNeverLatent`: `Spec => NoLatentDrag` of `SkyMotion`, for a window and a reach of any size, from the invariant `DragIsCurrent`: a drag that is on starts where the pointer is.
  Its arithmetic is that a clamp never moves farther than what it clamps (`ClampIsShort`).
* `TrailsStayUnbroken`: `Spec => []TrailsAreUnbroken` of `SkyMotion`, a part of `SkyHoldsTogether`, for trails of any length. `TrailInv` adds that a meteor flies only while its layer is shown: the layer ends the flight when it goes, so no point of an
  earlier one is left when it comes back.

* `DialogsStayIsolated` (`RoomPageProofs`): `PageSpec => []DialogsIsolate`. In `DialogInv` a page is `Freed` or `Modal` for one dialog, and every call of `dom.js` leads from one of the two to the other, whatever
  its caller had in mind; snapshots write to two elements only, behind the isolation when there is one (`Written`), until a session changes behind a dialog; and the focus of a dialog that is not busy is in it or nowhere (`HoldsFocus`). The two
  forms say exactly what isolation has set aside, which the properties do not.
* `PageShowsItsDocument` (`SocketsProofs`): `EndsSpec => []PageShowsTheRoom`. Of the calls of `setHiddenInteraction` that a document makes, the last one of a region decides about it, and the last one that covers a control decides about the control (`LastCallDecides`, for any sequence
  of calls; `DuringIsDefined` and the induction over the calls go by least counterexample). `OfferInv` says what is decided (`DocumentDecides`), in terms of the mode and of the ritual's phase; what was hidden before does not matter, because no attribute
  is ever lost. `LitInv` is the same for the constellation.
* `SettingsStayTogether`, `SkyStaysTogether`, `TowersStayTogether`, `NothingMovesWhenReduced` (`ScenesProofs`): `SettingsAgree`, `SkyHoldsTogether`, `TowerHoldsTogether` and `StillWhenReduced`, of `PageSpec`. `PageInv` is the conjunction of the parts' invariants:
  * `SettingsInv`: once `applyFX` has run, what is drawn is the configuration unless one is pending, and before that it is what `init3D` made, with nothing that would ask for more (`DrawnWith`, `AsCreated`); the engine has what is stored, now or pending (`Chooses`);
    the panel shows it, or the toggles of some tier as long as none are stored (`ShowsStore`); scenes that exist have been told (`ToldSettings`), and the sky always exists, so that a
    fallback needs no building. The properties speak of a settled engine; the invariant must say what is pending.
  * `PaletteInv`: bounds that are linear in elevation, daylight and palette hold of every hour (`IsHour`) and hence of every mixture of hours, of a fade in a fade too; rounding takes at most three units from the sun (`IsMixture`). That the palette drawn belongs to
    the elevation drawn is not inductive, since what is drawn in a fade is of no hour at all.
  * `TowerInv`: what each part finds below it (`Stands`) and windows that fit the last wall (`Glazed`).
  * `MotionInv`: the last frame of a person who prefers reduced motion is the picture at rest of its scene and hour; the clouds of the coast are in their place as long as the scene remembers that it was still.
  * and `SceneInv`, `TrailInv`, `DragIsCurrent` from above.

`LobbySpec`, `FallbackSpec`, `SkySpec` and `LimiterSpec` are the specifications of modules that an instance module extends together, and so named apart; `PageSpec` and `EndsSpec` are
those of instance modules. Where the bullets say `Spec` of such a module, theirs is meant.

A proof module was begun only after TLC had found its invariant to hold in every state of the component's run, part by part. Two definitions were changed for the proofs: `After` was a fold of the community modules, whose induction
would need an operator as a parameter, and `FocusContained` now speaks of every dialog that is shown, also with a timer pending.

Every invariant and every action property of the passing runs is a theorem. Only model-checked are

* the liveness properties `TimerCatchesUp`, `MessageIsAnswered`, `StoredIsShown`, `EverySwitchEnds` and `PageCatchesUp`, since fairness and ENABLED are beyond the proof system;
* and nothing else; but `ShowsOneCycle` and `TimeIsKept` are theorems under `NoRefreshDue` and false without it (see below), where `OnlyRefreshesDisturb` and `TickAccountsForTime` are proved instead.

## Disagreements with the documentation

**A tick charges seconds twice.** `contracts.md:92` says that `last_tick_slot` applies elapsed seconds "without
double-decrementing a same-slot message reconciliation", and `contracts.md:114` that
it "prevents a scheduler tick from repeating time already reconciled by a same-second client
mutation". The run `double_charge` finds a tick that repeats time already
reconciled. The worker leases a second divisible by 30 and stalls; a message commits
at a later second and reconciles the countdown up to it; the tick then loads that
document, finds 0 seconds elapsed, and because the celestial refresh is due commits anyway,
setting `last_tick_slot` to its own, older slot (`scheduler.py:113`). The next tick charges the seconds in between
again. `TickAccountsForTime` states what does hold: an overtaken tick leaves the
countdown itself alone and can commit only in a refresh second. With no refresh in the window
(`room_sync`), `TickKeepsDeadline` holds and the refinement goes through.

**The handoff has a gap.** `contracts.md:73` says that "the post-subscribe canonical read covers earlier
events while the active subscriber covers later events". The run `handoff` finds a socket
without a subscriber: `ensure_room_events` joins the worker's subscription, but until
`connect()` the socket counts for nobody; the last registered socket leaves during
`accept()` and stops the subscription. The new socket sees commits of its own worker only,
until another socket of the worker arrives. `SubscribedIsCurrent` states what does hold, and its
run shows that the next arrival repairs it.

**The picker announces a scene that has failed.** The comment at `scene-picker.js:78-81` says that the picker is kept aligned
with a runtime fallback "instead of continuing to announce a scene no longer on screen". The run `scene_announcement` finds a scene
that throws in the first frame after its activation: the manager shows the sky, the controller commits it and the picker announces the fallback; the
frame counts as rendered all the same, and `switchScene` returns the name it had fixed before the wait
(`scenes.js:364`), which the picker announces over the fallback. The
buttons are right (`sync` reads the controller), the status message is not.

**A reset is overtaken by the drag before it.** `README.md:268` says of the time slider "Drag to override sun position; double-click to return to real time". The slider sends 80 ms after its last
movement; `resetTime` sends at once and leaves that timer running (`timer-controls.js:75-81`). The run `time_reset` finds a movement followed by a reset within 80 ms: the reset is
sent first and the position after it, and the room stays at the position. `LastDragCounts` states what does hold.

Four more are not runs of their own. The properties of the passing runs except these states and say what the code does in them:

* **3D is lost for a scene that is not the sky** (`OnlySkyEnds3D`). Before the first snapshot, a person chooses the city, and while its shaders compile it throws when it is told a setting.
  It is activated all the same, uncalled, because there is no snapshot to call it with (`scene-manager.js:120`). The next frame's `update` returns early for a failed scene without recovering (175, 193), the controller finds
  that nothing is available and schedules the teardown (`scenes.js:224-227`), which a snapshot that comes in between does not cancel, although its `updateCelestial` brings the sky back.
  The code's own rule is that a scene which fails costs itself: every other path falls back to the sky.
* **Shadows are missing until something changes** (`DrawnAsPreferred`). `applyFX` runs when overrides, the bloom gate or the tier change (`engine.js:422-440`). A page that starts in the city or the forest, in the tier it was created with and without stored
  toggles changes none of them, and the shadow source finds a map size of 0 (161, 206-211): no shadows, although preferred and shown as on, and shafts drawn although the tier has none. The first toggle, choice or visit to the coast repairs it.
* **Toggles that nobody has used do not follow the tier** (`TogglesAgree`). "The controls represent the user's/tier preference" (`display-settings.js:30-32`), but they are read once, when the panel is made: after a tier is chosen, or stepped down to, they
  show the effects of the tier before. The first one that is used pushes them all (47-49), so the others become overrides that the person did not choose, where `engine.js:158` has "null means 'follow the tier'".
* **A count of wrong PINs that never expires** (`QuietStartsAfresh`). `contracts.md:90` says "within the configured attempt window". A request that dies between INCR and EXPIRE leaves a count without a TTL (`room_store.py:712-714`); no later failure sets
  one, since EXPIRE belongs to the count of 1, and from the limit on each wrong PIN of that client blocks it again.

Not counted as disagreements, because they take a rare stall: a socket's first message may be older than its snapshot, when a broadcast
that was on its way is written before it (`DeliveredInOrder` still holds), and a reward may then be revealed again (see `RevealedOnce`).

## What is not modelled

* The celestial data (floating-point astronomy, `celestial.py`), beyond the fact that a
  message may have changed it.
* A Redis clock that steps back, and a Redis that loses acknowledged writes. The
  slot of an overtaken tick shows the same effect as a small step back.
* Rendering, shaders, textures, the placing of meshes, layout, wording; start-up and configuration.
* Local mode (`room_service.py` 165-196, `scheduler_wiring.py`): `initialize_store_and_events` refuses to start without Redis outside of
  the tests, so rooms in memory and their cleanup tasks serve the test suite alone.
* The migration of legacy token keys; the memory of recent event ids.
* Positions of sun, moon and stars, the light rig and the waves of the water (sums of sines in floating point); the seeded layout of the constellation.
* The chime, the clock and the satellite ring of the page: drawn from the last document alone.
* The delay between reconnections, and the metrics of the viewport beyond the pixel ratio.
* A document whose publication fails (`websocket_handler.py:100`): nothing repairs it before the next commit, so no property covers it; `LosePublication` is in the model, and
  `SubscribedIsCurrent` speaks of behaviours without faults.

## Plan

Models: the token cap of `RoomRegistry` at its bound, and the migration of legacy token keys while the code still has it.
