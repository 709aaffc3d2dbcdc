------------------------------- MODULE RoomView -------------------------------
(***************************************************************************)
(* What the room page makes of a document: the controls it offers, the     *)
(* keyboard focus, the rest ritual and the reward constellation.           *)
(*                                                                         *)
(*   frontend/app.js                        applyState                     *)
(*   frontend/src/room-renderer.js          renderFocus                    *)
(*   frontend/src/rest-ritual.js            createRestRitual               *)
(*   frontend/src/timer-controls.js         the buttons                    *)
(*   frontend/src/dom.js                    setHiddenInteraction           *)
(*   frontend/scenes.js, src/3d/reward-constellation.js     the reward     *)
(*                                                                         *)
(* A step of the page is one task of the browser's event loop.  The room   *)
(* is the reducer of module RoomTimer, whose messages take effect at once; *)
(* its documents reach the page later, and which of them the page accepts  *)
(* is module RoomClient's business.                                        *)
(***************************************************************************)
EXTENDS Integers, Sequences, FiniteSets

CONSTANTS
  BreakDuration,    \* BREAK_DURATION_SECONDS (600)
  RevealSeconds,    \* REVEAL_SECONDS (30)
  ReturnSeconds,    \* RETURN_SECONDS (60)
  CycleLength,      \* CYCLE_LENGTH and REWARD_CONSTELLATION_CAP (4)
  MaxInFlight,      \* bound: documents on their way to the page
  MaxRewards,       \* bound: completed focuses
  MaxMoves          \* bound: timers of 120 ms

ASSUME ViewAssumption == BreakDuration \in Nat \ {0}

VARIABLES
  document,     \* the room's canonical state
  linked,       \* the page has a connection
  first,        \* the next document is the first of that connection
  wire,         \* documents on their way
  currentState, \* the last document applied
  tab,          \* tabindex of the controls, see Hidden
  inert,        \* the regions with the inert attribute
  focused,      \* document.activeElement
  moves,        \* timers of 120 ms that will focus a control
  polling,      \* focusWhenShown waits for the focus row
  ritual,       \* the variables of the rest ritual
  reward,       \* the reward constellation, NoReward without a 3D sky
  earned,       \* history: rewards whose rise a connection of this page showed
  blind         \* history: since the choice there was a time without documents

roomVars == <<document, linked, first, wire>>
focusVars == <<focused, moves, polling>>
drawnVars == <<currentState, tab, inert, ritual, earned>>
viewVars == <<roomVars, focusVars, drawnVars, reward, blind>>

Timer == INSTANCE RoomTimer
           WITH MinuteSeconds <- 1, MaxMinutes <- 1, DefaultMinutes <- 1

-----------------------------------------------------------------------------
(***************************************************************************)
(* The elements of the page that the mode of the room decides about, and   *)
(* the regions that setHiddenInteraction is called with.                   *)
(***************************************************************************)
Controls == {"start", "chips", "dial", "pause", "cancel", "skip", "recovery", "intent"}

Within ==
  [start |-> {"start"}, durChips |-> {"chips"}, timeDial |-> {"dial"},
   focusRow |-> {"pause", "cancel"}, breakRow |-> {"skip"},
   recoveryGroup |-> {"recovery"}, intentGroup |-> {"intent"},
   restRitual |-> {"recovery", "intent", "title"},
   pomodoro |-> {"recovery", "intent", "title", "pause", "cancel", "skip"}]

Regions == DOMAIN Within

NoFocus == "body"
Elements == Controls \cup {"title", "elsewhere", NoFocus}

\* Not in a region that is inert.
Exposed(e, region) == \A r \in Regions : e \in Within[r] => ~region[r]

Offered(c) == tab[c] = "own" /\ Exposed(c, inert)

\* Faulty variant of Hidden: without the sentinel, the tabindex -1 of an
\* earlier call is taken for the control's own.
HiddenAgain(t) == IF t = "own" THEN "hidden" ELSE "lost"

\* The tabindex of a control that is hidden (again): -1, with the control's
\* own remembered beside it.
Hidden(t) == IF t = "own" THEN "hidden" ELSE t

Restored(t) == IF t = "hidden" THEN "own" ELSE t

\* setHiddenInteraction(region, hidden).
SetHidden(dom, call) ==
  [inert |-> [dom.inert EXCEPT ![call.region] = call.hidden],
   tab |-> [c \in Controls |->
              IF c \notin Within[call.region] THEN dom.tab[c]
              ELSE IF call.hidden THEN Hidden(dom.tab[c]) ELSE Restored(dom.tab[c])]]

Hide(region) == [region |-> region, hidden |-> TRUE]
Show(region) == [region |-> region, hidden |-> FALSE]
Set(region, hidden) == [region |-> region, hidden |-> hidden]

\* The page before the calls and after each of them.
During(dom, calls) ==
  LET after[n \in 0..Len(calls)] ==
        IF n = 0 THEN dom ELSE SetHidden(after[n - 1], calls[n])
  IN  after

After(dom, calls) == During(dom, calls)[Len(calls)]

-----------------------------------------------------------------------------
(***************************************************************************)
(* The rest ritual.                                                        *)
(***************************************************************************)
Session(s) == s.focus \/ s.break

CycleProgress(s) ==
  IF s.sessions_done = 0 THEN 0
  ELSE IF s.sessions_done % CycleLength = 0 THEN CycleLength
       ELSE s.sessions_done % CycleLength

\* deriveRestRitualState: a break of its last minute returns, even when it is
\* so short that it has just begun.
Phase(s) ==
  CASE ~s.break -> "inactive"
    [] s.break /\ s.break_remaining <= ReturnSeconds -> "return"
    [] s.break /\ s.break_remaining > ReturnSeconds
               /\ BreakDuration - s.break_remaining <= RevealSeconds -> "reveal"
    [] OTHER -> "restore"

NoReward == -1
NoChoice == 0

\* Faulty variant of Baseline: a new connection does not reset the tracker.
KeptBaseline == ritual.observed

\* What the reward tracker has observed before the next document.
Baseline == IF first THEN NoReward ELSE ritual.observed

Reveals(s) == s.break /\ Baseline # NoReward /\ s.reward_id > Baseline

\* The recovery choice is of one break.
Choice(s) == IF s.break /\ ~ritual.wasBreak THEN NoChoice ELSE ritual.recovery

RevealReward(s) ==
  IF Phase(s) # "reveal" THEN NoReward
  ELSE IF Reveals(s) THEN s.reward_id ELSE ritual.revealed

RenderedPhase(s) ==
  IF Phase(s) = "reveal" /\ RevealReward(s) # s.reward_id THEN "restore" ELSE Phase(s)

Ritual(s) ==
  [observed |-> IF s.reward_id > Baseline THEN s.reward_id ELSE Baseline,
   revealed |-> RevealReward(s), phase |-> RenderedPhase(s),
   wasBreak |-> s.break, recovery |-> Choice(s)]

-----------------------------------------------------------------------------
(***************************************************************************)
(* renderFocus and update, in the order of their calls.                    *)
(***************************************************************************)
FocusCalls(s) ==
  <<Set("timeDial", Session(s)), Set("start", Session(s)),
    Set("durChips", Session(s)), Set("pomodoro", ~Session(s)),
    Set("breakRow", s.focus \/ ~s.break), Set("focusRow", ~s.focus)>>

RestCalls(s) ==
  IF ~s.break THEN <<Hide("restRitual"), Hide("recoveryGroup"), Hide("intentGroup")>>
  ELSE IF RenderedPhase(s) = "return"
       THEN <<Show("restRitual"), Show("intentGroup"), Hide("recoveryGroup")>>
       ELSE <<Show("restRitual"), Show("recoveryGroup"), Hide("intentGroup")>>

\* shouldMoveFocus, of the element that has the focus before the document.
FromStart == focused \in {"start", "chips", NoFocus}

MovesFocus(s) ==
  CASE s.focus -> FromStart
    [] ~s.focus /\ s.break -> FromStart \/ focused \in Within.focusRow
    [] OTHER -> focused \in Within.pomodoro

MoveTarget(s) ==
  IF s.focus THEN "pause" ELSE IF s.break THEN "title" ELSE "start"

\* focusBeforeHide, of the ritual and of its two groups.
FocusAfterHide(s) ==
  CASE ~s.break /\ focused \in Within.restRitual -> IF s.focus THEN "pause" ELSE "start"
    [] s.break /\ RenderedPhase(s) = "return" /\ focused = "recovery" -> "intent"
    [] s.break /\ RenderedPhase(s) # "return" /\ focused = "intent" -> "recovery"
    [] OTHER -> focused

-----------------------------------------------------------------------------
(***************************************************************************)
(* The reward constellation.                                               *)
(***************************************************************************)
\* syncRewardVisibility, by the size of the viewport at that moment.
Visible(progress, resting, compact) == progress > 0 /\ (resting \/ ~compact)

NoSky == [sky |-> FALSE, completed |-> 0, edges |-> 0, visible |-> FALSE]

Edges(completed) ==
  IF completed < 2 THEN 0 ELSE IF completed = CycleLength THEN CycleLength ELSE completed - 1

\* applyProgress, and the visibility that its callers settle after it.
Lit(progress, resting, compact) ==
  [sky |-> TRUE, completed |-> progress, edges |-> Edges(progress),
   visible |-> Visible(progress, resting, compact)]

\* setCompletedSessions: only a change or a reveal is applied.
UpdatedReward(progress, s, compact) ==
  IF ~reward.sky THEN reward
  ELSE IF progress # reward.completed \/ Reveals(s) THEN Lit(progress, s.break, compact)
       ELSE [reward EXCEPT !.visible = Visible(progress, s.break, compact)]

NoState == [Timer!MakeState EXCEPT !.revision = -1]

\* The 3D sky becomes ready, and is lit as the page last heard.
StartSky ==
  /\ ~reward.sky
  /\ \E compact \in BOOLEAN :
       reward' = IF currentState = NoState THEN Lit(0, FALSE, compact)
                 ELSE Lit(CycleProgress(currentState), currentState.break, compact)
  /\ UNCHANGED <<roomVars, focusVars, drawnVars, blind>>

\* The context is lost, or the sky scene fails: disposeRewardConstellation.
EndSky ==
  /\ reward.sky
  /\ reward' = NoSky
  /\ UNCHANGED <<roomVars, focusVars, drawnVars, blind>>

-----------------------------------------------------------------------------
(***************************************************************************)
(* The room and the connection.                                            *)
(***************************************************************************)
\* The room changes, and a connected page is sent the document.
Commit(state) ==
  /\ state # document
  /\ state.reward_id <= MaxRewards
  /\ linked => Len(wire) < MaxInFlight
  /\ document' = state
  /\ wire' = IF linked THEN Append(wire, state) ELSE wire
  /\ UNCHANGED <<linked, first>>

Tick ==
  /\ Timer!Advancing(document)
  /\ Commit(Timer!AdvanceTimer(document, 1))
  /\ UNCHANGED <<focusVars, drawnVars, reward, blind>>

TimerMessages == {"focus_toggle", "focus_pause", "focus_cancel", "skip_break"}

Send(type) == Commit(Timer!Handle(document, [type |-> type]))

\* Another member of the room.
OthersMessage ==
  /\ \E type \in TimerMessages : Send(type)
  /\ UNCHANGED <<focusVars, drawnVars, reward, blind>>

Link ==
  /\ ~linked
  /\ linked' = TRUE
  /\ first' = TRUE
  /\ wire' = <<document>>
  /\ UNCHANGED <<document, focusVars, drawnVars, reward, blind>>

Unlink ==
  /\ linked
  /\ linked' = FALSE
  /\ wire' = <<>>
  /\ blind' = TRUE
  /\ UNCHANGED <<document, first, focusVars, drawnVars, reward>>

-----------------------------------------------------------------------------
(***************************************************************************)
(* The page.                                                               *)
(***************************************************************************)
ApplyState ==
  /\ wire # <<>>
  /\ LET s == Head(wire)
         dom == After([inert |-> inert, tab |-> tab], FocusCalls(s) \o RestCalls(s))
     IN  /\ tab' = dom.tab
         /\ inert' = dom.inert
         /\ focused' = FocusAfterHide(s)
         /\ moves' = IF MovesFocus(s) THEN moves \cup {MoveTarget(s)} ELSE moves
         /\ Cardinality(moves') <= MaxMoves
         /\ ritual' = Ritual(s)
         /\ \E compact \in BOOLEAN : reward' = UpdatedReward(CycleProgress(s), s, compact)
         /\ currentState' = s
         /\ earned' = IF ~first /\ s.break /\ s.reward_id > currentState.reward_id
                      THEN earned \cup {s.reward_id} ELSE earned
  /\ wire' = Tail(wire)
  /\ first' = FALSE
  /\ UNCHANGED <<document, linked, polling, blind>>

\* focus() of an element that is inert or not displayed does nothing.
TakesFocus(e) == IF Exposed(e, inert) THEN e ELSE focused

\* The timer of 120 ms.  The title is passed over when it is hidden by then.
FocusTimer(e) ==
  /\ e \in moves
  /\ moves' = moves \ {e}
  /\ focused' = IF e = "title" /\ ~Exposed("title", inert)
                THEN TakesFocus("skip") ELSE TakesFocus(e)
  /\ UNCHANGED <<roomVars, drawnVars, reward, polling, blind>>

\* focusWhenShown polls until the focus row is shown, or gives up.
PollFocusRow ==
  /\ polling
  /\ polling' = FALSE
  /\ \/ ~inert.focusRow /\ moves' = moves \cup {"pause"}
     \/ inert.focusRow /\ UNCHANGED moves
  /\ Cardinality(moves') <= MaxMoves
  /\ UNCHANGED <<roomVars, focused, drawnVars, reward, blind>>

\* The browser takes the focus from an element that has become inert.
FixFocus ==
  /\ ~Exposed(focused, inert)
  /\ focused' = NoFocus
  /\ UNCHANGED <<roomVars, moves, polling, drawnVars, reward, blind>>

MessageOf ==
  [start |-> "focus_toggle", pause |-> "focus_pause",
   cancel |-> "focus_cancel", skip |-> "skip_break"]

\* A click on a button that sends, which also gets the focus.
Click(c) ==
  /\ c \in DOMAIN MessageOf
  /\ Offered(c)
  /\ linked
  /\ Send(MessageOf[c])
  /\ focused' = c
  /\ polling' = (polling \/ c = "start")
  /\ UNCHANGED <<moves, drawnVars, reward, blind>>

\* The large time pauses a focus and skips a break.
ClickTime ==
  /\ linked
  /\ currentState # NoState
  /\ \/ currentState.focus /\ Send("focus_pause")
     \/ ~currentState.focus /\ currentState.break /\ Send("skip_break")
  /\ UNCHANGED <<focusVars, drawnVars, reward, blind>>

\* A recovery is chosen, or taken back.  The choice is named by the break.
ChooseRecovery ==
  /\ Offered("recovery")
  /\ ritual' = [ritual EXCEPT !.recovery =
                  IF @ = NoChoice THEN currentState.reward_id ELSE NoChoice]
  /\ focused' = "recovery"
  /\ blind' = (~linked \/ first)
  /\ UNCHANGED <<roomVars, moves, polling, currentState, tab, inert, earned, reward>>

\* A person moves on with the keyboard or the mouse.
MoveOn ==
  /\ focused' \in {c \in Controls : Offered(c)} \cup {"elsewhere", NoFocus}
  /\ focused' # focused
  /\ UNCHANGED <<roomVars, moves, polling, drawnVars, reward, blind>>

-----------------------------------------------------------------------------
Untouched == [inert |-> [r \in Regions |-> FALSE], tab |-> [c \in Controls |-> "own"]]

InitialCalls ==
  <<Hide("pomodoro"), Hide("breakRow"), Hide("focusRow"),
    Hide("restRitual"), Hide("recoveryGroup"), Hide("intentGroup")>>

ViewInit ==
  /\ document = Timer!MakeState
  /\ linked = FALSE
  /\ first = TRUE
  /\ wire = <<>>
  /\ currentState = NoState
  /\ tab = After(Untouched, InitialCalls).tab
  /\ inert = After(Untouched, InitialCalls).inert
  /\ focused = NoFocus
  /\ moves = {}
  /\ polling = FALSE
  /\ ritual = [observed |-> NoReward, revealed |-> NoReward, phase |-> "inactive",
               wasBreak |-> FALSE, recovery |-> NoChoice]
  /\ reward = NoSky
  /\ earned = {}
  /\ blind = FALSE

ViewNext ==
  \/ Tick
  \/ OthersMessage
  \/ Link
  \/ Unlink
  \/ ApplyState
  \/ \E e \in moves : FocusTimer(e)
  \/ PollFocusRow
  \/ FixFocus
  \/ \E c \in Controls : Click(c)
  \/ ClickTime
  \/ ChooseRecovery
  \/ MoveOn
  \/ StartSky
  \/ EndSky

ViewSpec == ViewInit /\ [][ViewNext]_viewVars

-----------------------------------------------------------------------------
(* The controls of the room's mode, and of the phase of its break, can be   *)
(* reached with Tab and no others, however often the regions, which are     *)
(* nested, have been hidden and shown (dom.js:26-46, room-renderer.js:      *)
(* 192-260, rest-ritual.js:243-269).                                        *)
ModeControls(s) ==
  IF s.focus THEN {"pause", "cancel"}
  ELSE IF s.break THEN {"skip", IF ritual.phase = "return" THEN "intent" ELSE "recovery"}
       ELSE {"start", "chips", "dial"}

ControlsFollowMode ==
  currentState # NoState => {c \in Controls : Offered(c)} = ModeControls(currentState)

(* The ritual is of the break that is shown: the page celebrates only a     *)
(* reward whose rise it was shown, also after it was away for a while, and  *)
(* a recovery that was chosen in an earlier break is not chosen in this     *)
(* one (rest-ritual.js:221-231, 250).                                       *)
RitualIsOfThisBreak ==
  /\ ritual.phase = "reveal" => currentState.reward_id \in earned
  /\ currentState.break /\ ritual.recovery # NoChoice /\ ~blind =>
       ritual.recovery = currentState.reward_id

(* The constellation shows the progress of the cycle that the page last     *)
(* heard of, and can be seen in every break, whenever the sky came and went *)
(* and on every viewport (scenes.js:73-96, 397-404).                        *)
ConstellationKeepsUp ==
  reward.sky /\ currentState # NoState =>
    /\ reward.completed = CycleProgress(currentState)
    /\ currentState.break /\ reward.completed > 0 => reward.visible
=============================================================================
