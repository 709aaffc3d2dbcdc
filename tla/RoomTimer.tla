------------------------------ MODULE RoomTimer ------------------------------
(***************************************************************************)
(* The room state reducer of backend/state.py: how elapsed seconds and     *)
(* client messages transform one BackendState.  Everything here is a pure  *)
(* operator; the modules that own a room document apply them.              *)
(*                                                                         *)
(* The field `celestial' is left out: it is presentation data derived from *)
(* the wall clock.  `time_override' is kept as the fact that an override   *)
(* is set, because the scheduler's guard reads it.                         *)
(***************************************************************************)
EXTENDS Integers

CONSTANTS
  MinuteSeconds,    \* seconds per minute of a set_duration message (60)
  MaxMinutes,       \* longest accepted set_duration (120)
  DefaultMinutes,   \* duration of a fresh room (50)
  BreakDuration     \* BREAK_DURATION_SECONDS (600)

ASSUME TimerAssumption ==
  /\ MinuteSeconds \in Nat \ {0}
  /\ MaxMinutes \in Nat \ {0}
  /\ DefaultMinutes \in 1..MaxMinutes
  /\ BreakDuration \in Nat \ {0}

NoSlot == -1      \* last_tick_slot is None
Missing == -1     \* an integer field an older document does not have

Durations == {m * MinuteSeconds : m \in 1..MaxMinutes}

BackendState ==
  [focus : BOOLEAN, paused : BOOLEAN,
   pomodoro_remaining : Nat, pomodoro_duration : Durations,
   break : BOOLEAN, break_remaining : Nat,
   sessions_done : Nat, reward_id : Nat, revision : Nat,
   last_tick_slot : Nat \cup {NoSlot}, time_override : BOOLEAN]

MakeState ==
  [focus |-> FALSE, paused |-> FALSE,
   pomodoro_remaining |-> DefaultMinutes * MinuteSeconds,
   pomodoro_duration |-> DefaultMinutes * MinuteSeconds,
   break |-> FALSE, break_remaining |-> 0,
   sessions_done |-> 0, reward_id |-> 0, revision |-> 0,
   last_tick_slot |-> NoSlot, time_override |-> FALSE]

Larger(a, b) == IF a < b THEN b ELSE a
Smaller(a, b) == IF a < b THEN a ELSE b

-----------------------------------------------------------------------------
(***************************************************************************)
(* normalize_state: what every read of a stored document applies.          *)
(***************************************************************************)
NormalizeState(raw) ==
  [raw EXCEPT
     !.break_remaining = IF raw.break THEN Larger(0, Smaller(@, BreakDuration))
                                      ELSE @,
     !.reward_id = IF @ < 0 THEN 0 ELSE @,
     !.revision = IF @ < 0 THEN 0 ELSE @]

-----------------------------------------------------------------------------
(***************************************************************************)
(* advance_timer_state.  The loop of the code runs at most one focus phase *)
(* and one break phase: completing a focus starts a break, and nothing     *)
(* that ends a break starts a focus.                                       *)
(***************************************************************************)
Running(s) == s.focus /\ ~s.paused
Advancing(s) == s.break \/ Running(s)

CompleteFocus(s) ==
  [s EXCEPT !.focus = FALSE, !.paused = FALSE,
            !.sessions_done = @ + 1, !.reward_id = @ + 1,
            !.break = TRUE, !.break_remaining = BreakDuration,
            !.pomodoro_remaining = s.pomodoro_duration]

\* Faulty variant of FocusPhase: the countdown is not clamped at zero.
UnclampedFocus(s, seconds) ==
  IF ~Running(s) \/ seconds = 0 THEN s
  ELSE IF seconds # s.pomodoro_remaining
       THEN [s EXCEPT !.pomodoro_remaining = @ - seconds]
       ELSE CompleteFocus(s)

\* Faulty variant of FocusPhase: the last second of a focus is not run.
ShortFocus(s, seconds) ==
  IF ~Running(s) \/ seconds = 0 THEN s
  ELSE IF seconds + 1 < s.pomodoro_remaining
       THEN [s EXCEPT !.pomodoro_remaining = @ - seconds]
       ELSE CompleteFocus(s)

FocusPhase(s, seconds) ==
  IF ~Running(s) \/ seconds = 0 THEN s
  ELSE IF seconds < s.pomodoro_remaining
       THEN [s EXCEPT !.pomodoro_remaining = @ - seconds]
       ELSE CompleteFocus(s)

\* Faulty variant of AfterFocus: what a gap leaves over the focus is dropped.
SurplusDropped(s, seconds) == IF Running(s) THEN 0 ELSE seconds

\* The seconds that are left for the break.
AfterFocus(s, seconds) ==
  IF Running(s) THEN seconds - Smaller(seconds, s.pomodoro_remaining) ELSE seconds

BreakPhase(s, seconds) ==
  IF ~s.break \/ seconds = 0 THEN s
  ELSE IF seconds < s.break_remaining
       THEN [s EXCEPT !.break_remaining = @ - seconds]
       ELSE [s EXCEPT !.break = FALSE, !.break_remaining = 0]

AdvanceTimer(s, seconds) ==
  LET elapsed == Larger(0, seconds)
  IN  BreakPhase(FocusPhase(s, elapsed), AfterFocus(s, elapsed))

-----------------------------------------------------------------------------
(***************************************************************************)
(* handle: one operator per message type.                                  *)
(***************************************************************************)
FocusToggle(s) ==
  [s EXCEPT !.break = FALSE,
            !.break_remaining = IF s.break THEN 0 ELSE @,
            !.focus = ~@, !.paused = FALSE,
            !.pomodoro_remaining = s.pomodoro_duration,
            !.last_tick_slot = NoSlot]

FocusPause(s) ==
  IF s.focus THEN [s EXCEPT !.paused = ~@, !.last_tick_slot = NoSlot] ELSE s

FocusCancel(s) ==
  [s EXCEPT !.focus = FALSE, !.paused = FALSE,
            !.break = FALSE, !.break_remaining = 0,
            !.pomodoro_remaining = s.pomodoro_duration,
            !.last_tick_slot = NoSlot]

SetDuration(s, minutes) ==
  IF minutes \notin 1..MaxMinutes THEN s
  ELSE LET seconds == minutes * MinuteSeconds
       IN  IF s.focus
           THEN [s EXCEPT !.pomodoro_duration = seconds]
           ELSE [s EXCEPT !.pomodoro_duration = seconds,
                          !.pomodoro_remaining = seconds,
                          !.last_tick_slot = NoSlot]

SkipBreak(s) == IF s.break THEN FocusCancel(s) ELSE s

(***************************************************************************)
(* `unknown' stands for every message the reducer ignores: retired types,  *)
(* and a location or time override that does not validate.                 *)
(***************************************************************************)
Message ==
  [type : {"focus_toggle", "focus_pause", "focus_cancel", "skip_break",
           "location", "unknown"}]
    \cup [type : {"set_duration"}, minutes : 0..(MaxMinutes + 1)]
    \cup [type : {"time_override"}, iso : BOOLEAN]

Handle(s, m) ==
  CASE m.type = "focus_toggle"  -> FocusToggle(s)
    [] m.type = "focus_pause"   -> FocusPause(s)
    [] m.type = "focus_cancel"  -> FocusCancel(s)
    [] m.type = "skip_break"    -> SkipBreak(s)
    [] m.type = "set_duration"  -> SetDuration(s, m.minutes)
    [] m.type = "time_override" -> [s EXCEPT !.time_override = m.iso]
    [] OTHER                    -> s

\* The messages that recompute the (unmodelled) celestial data.
MovesSky(m) == m.type \in {"time_override", "location"}
=============================================================================
