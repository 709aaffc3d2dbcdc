--------------------------- MODULE RoomTimerProofs ---------------------------
(***************************************************************************)
(* Theorems about the reducer: it keeps the shape of BackendState, and a   *)
(* catch-up of many seconds is what its seconds would have done one by one.*)
(***************************************************************************)
EXTENDS RoomTimer, TLAPS

(* Every configurable duration is a positive number of seconds. *)
LEMMA DurationsArePositive == Durations \subseteq Nat \ {0}
<1>1. \A m \in 1..MaxMinutes : m * MinuteSeconds \in Nat \ {0}
  BY TimerAssumption, SMT
<1>2. QED
  BY <1>1 DEF Durations

(* make_state yields a BackendState. *)
LEMMA MakeStateType == MakeState \in BackendState
<1>1. DefaultMinutes * MinuteSeconds \in Durations
  BY TimerAssumption DEF Durations
<1>2. DefaultMinutes * MinuteSeconds \in Nat
  BY <1>1, DurationsArePositive
<1>3. QED
  BY <1>1, <1>2 DEF MakeState, BackendState, NoSlot

(* Completing a focus keeps the shape of the state. *)
LEMMA CompleteFocusType ==
  ASSUME NEW s \in BackendState
  PROVE  CompleteFocus(s) \in BackendState
<1>1. s.pomodoro_duration \in Nat
  BY DurationsArePositive DEF BackendState
<1>2. s.sessions_done + 1 \in Nat /\ s.reward_id + 1 \in Nat
  BY DEF BackendState
<1>3. BreakDuration \in Nat
  BY TimerAssumption
<1>4. QED
  BY <1>1, <1>2, <1>3 DEF CompleteFocus, BackendState

(* The focus phase of advance_timer_state keeps the shape of the state. *)
LEMMA FocusPhaseType ==
  ASSUME NEW s \in BackendState, NEW n \in Nat
  PROVE  FocusPhase(s, n) \in BackendState
<1>1. CASE ~Running(s) \/ n = 0
  BY <1>1 DEF FocusPhase
<1>2. CASE Running(s) /\ n # 0 /\ n < s.pomodoro_remaining
  <2>1. s.pomodoro_remaining - n \in Nat
    BY <1>2 DEF BackendState
  <2>2. [s EXCEPT !.pomodoro_remaining = @ - n] \in BackendState
    BY <2>1 DEF BackendState
  <2>3. QED
    BY <1>2, <2>2 DEF FocusPhase
<1>3. CASE Running(s) /\ n # 0 /\ ~(n < s.pomodoro_remaining)
  BY <1>3, CompleteFocusType DEF FocusPhase
<1>4. QED
  BY <1>1, <1>2, <1>3

(* What is left for the break is a number of seconds. *)
LEMMA AfterFocusType ==
  ASSUME NEW s \in BackendState, NEW n \in Nat
  PROVE  AfterFocus(s, n) \in Nat
BY DEF AfterFocus, Smaller, BackendState

(* The break phase keeps the shape of the state. *)
LEMMA BreakPhaseType ==
  ASSUME NEW s \in BackendState, NEW n \in Nat
  PROVE  BreakPhase(s, n) \in BackendState
<1>1. CASE n < s.break_remaining
  <2>1. s.break_remaining - n \in Nat
    BY <1>1 DEF BackendState
  <2>2. [s EXCEPT !.break_remaining = @ - n] \in BackendState
    BY <2>1 DEF BackendState
  <2>3. QED
    BY <1>1, <2>2 DEF BreakPhase
<1>2. CASE ~(n < s.break_remaining)
  <2>1. [s EXCEPT !.break = FALSE, !.break_remaining = 0] \in BackendState
    BY DEF BackendState
  <2>2. QED
    BY <1>2, <2>1 DEF BreakPhase
<1>3. QED
  BY <1>1, <1>2

(* advance_timer_state keeps the shape of the state, for any seconds. *)
LEMMA AdvanceTimerType ==
  ASSUME NEW s \in BackendState, NEW n \in Int
  PROVE  AdvanceTimer(s, n) \in BackendState
<1>1. Larger(0, n) \in Nat
  BY DEF Larger
<1>2. QED
  BY <1>1, FocusPhaseType, AfterFocusType, BreakPhaseType DEF AdvanceTimer

(* handle keeps the shape of the state, for every message. *)
LEMMA HandleType ==
  ASSUME NEW s \in BackendState, NEW m \in Message
  PROVE  Handle(s, m) \in BackendState
<1>1. s.pomodoro_duration \in Nat
  BY DurationsArePositive DEF BackendState
<1>2. FocusToggle(s) \in BackendState
  BY <1>1 DEF FocusToggle, BackendState
<1>3. FocusPause(s) \in BackendState
  BY DEF FocusPause, BackendState
<1>4. FocusCancel(s) \in BackendState /\ SkipBreak(s) \in BackendState
  BY <1>1 DEF FocusCancel, SkipBreak, BackendState
<1>5. ASSUME m.type = "set_duration" PROVE SetDuration(s, m.minutes) \in BackendState
  <2>1. CASE m.minutes \notin 1..MaxMinutes
    BY <2>1 DEF SetDuration
  <2>2. CASE m.minutes \in 1..MaxMinutes
    <3>1. m.minutes * MinuteSeconds \in Durations
      BY <2>2 DEF Durations
    <3>2. m.minutes * MinuteSeconds \in Nat
      BY <3>1, DurationsArePositive
    <3>3. QED
      BY <2>2, <3>1, <3>2 DEF SetDuration, BackendState
  <2>3. QED
    BY <2>1, <2>2
<1>6. ASSUME m.type = "time_override"
      PROVE  [s EXCEPT !.time_override = m.iso] \in BackendState
  BY <1>6 DEF Message, BackendState
<1>7. QED
  BY <1>2, <1>3, <1>4, <1>5, <1>6 DEF Handle

(* The catch-up of a room without a running focus is that of its break. *)
LEMMA AdvanceIdle ==
  ASSUME NEW s \in BackendState, NEW n \in Nat, ~Running(s)
  PROVE  AdvanceTimer(s, n) = BreakPhase(s, n)
BY DEF AdvanceTimer, FocusPhase, AfterFocus, Larger

(* A catch-up that does not reach the end of a focus. *)
LEMMA AdvanceWithin ==
  ASSUME NEW s \in BackendState, NEW n \in Nat \ {0}, Running(s),
         n < s.pomodoro_remaining
  PROVE  AdvanceTimer(s, n) = [s EXCEPT !.pomodoro_remaining = @ - n]
<1>1. s.pomodoro_remaining \in Nat
  BY DEF BackendState
<1>2. Larger(0, n) = n /\ Smaller(n, s.pomodoro_remaining) = n
  BY <1>1 DEF Larger, Smaller
<1>3. AfterFocus(s, n) = 0
  BY <1>2 DEF AfterFocus
<1>4. QED
  BY <1>2, <1>3 DEF AdvanceTimer, FocusPhase, BreakPhase

(* A catch-up that reaches the end of a focus goes on with its break. *)
LEMMA AdvanceThrough ==
  ASSUME NEW s \in BackendState, NEW n \in Nat \ {0}, Running(s),
         ~(n < s.pomodoro_remaining)
  PROVE  AdvanceTimer(s, n)
           = BreakPhase(CompleteFocus(s), n - s.pomodoro_remaining)
<1>1. s.pomodoro_remaining \in Nat
  BY DEF BackendState
<1>2. Larger(0, n) = n /\ Smaller(n, s.pomodoro_remaining) = s.pomodoro_remaining
  BY <1>1 DEF Larger, Smaller
<1>3. AfterFocus(s, n) = n - s.pomodoro_remaining
  BY <1>2 DEF AfterFocus
<1>4. QED
  BY <1>2, <1>3 DEF AdvanceTimer, FocusPhase

(* No seconds, no change. *)
LEMMA AdvanceNothing ==
  ASSUME NEW s \in BackendState
  PROVE  AdvanceTimer(s, 0) = s
<1>1. Larger(0, 0) = 0
  BY DEF Larger
<1>2. FocusPhase(s, 0) = s
  BY DEF FocusPhase
<1>3. AfterFocus(s, 0) = 0
  BY DEF AfterFocus, Smaller, BackendState
<1>4. QED
  BY <1>1, <1>2, <1>3 DEF AdvanceTimer, BreakPhase

(* The break phase never touches the focus. *)
LEMMA BreakPhaseKeepsFocus ==
  ASSUME NEW s \in BackendState, NEW n \in Nat
  PROVE  Running(BreakPhase(s, n)) = Running(s)
BY DEF BreakPhase, Running, BackendState

(* A break that is cut into pieces lasts as long as the whole. *)
LEMMA BreakPhaseIsAdditive ==
  ASSUME NEW s \in BackendState, NEW a \in Nat, NEW b \in Nat
  PROVE  BreakPhase(BreakPhase(s, a), b) = BreakPhase(s, a + b)
<1>. DEFINE left == s.break_remaining
<1>1. left \in Nat
  BY DEF BackendState
<1>2. CASE ~s.break \/ a = 0 \/ b = 0
  <2>1. CASE ~s.break
    BY <2>1 DEF BreakPhase
  <2>2. CASE a = 0
    <3>1. BreakPhase(s, a) = s /\ a + b = b
      BY <2>2 DEF BreakPhase
    <3>2. QED
      BY <3>1
  <2>3. CASE b = 0
    <3>1. BreakPhase(BreakPhase(s, a), b) = BreakPhase(s, a) /\ a + b = a
      BY <2>3 DEF BreakPhase
    <3>2. QED
      BY <3>1
  <2>4. QED
    BY <1>2, <2>1, <2>2, <2>3
<1>3. CASE s.break /\ a # 0 /\ b # 0 /\ ~(a < left)
  <2>1. ~(a + b < left) /\ a + b # 0
    BY <1>1, <1>3
  <2>2. QED
    BY <1>3, <2>1 DEF BreakPhase, BackendState
<1>4. CASE s.break /\ a # 0 /\ b # 0 /\ a < left
  <2>. DEFINE t == [s EXCEPT !.break_remaining = @ - a]
  <2>1. BreakPhase(s, a) = t
    BY <1>4 DEF BreakPhase
  <2>2. t.break /\ t.break_remaining = left - a
    BY <1>4 DEF BackendState
  <2>3. (b < left - a) = (a + b < left) /\ a + b # 0
        /\ left - a - b = left - (a + b)
    BY <1>1, <1>4
  <2>4. CASE a + b < left
    <3>1. BreakPhase(t, b) = [t EXCEPT !.break_remaining = @ - b]
      BY <1>4, <2>2, <2>3, <2>4 DEF BreakPhase
    <3>2. BreakPhase(t, b) = [s EXCEPT !.break_remaining = left - a - b]
      BY <3>1 DEF BackendState
    <3>3. QED
      BY <1>4, <2>1, <2>3, <2>4, <3>2 DEF BreakPhase
  <2>5. CASE ~(a + b < left)
    <3>1. BreakPhase(t, b) = [t EXCEPT !.break = FALSE, !.break_remaining = 0]
      BY <1>4, <2>2, <2>3, <2>5 DEF BreakPhase
    <3>2. BreakPhase(t, b) = [s EXCEPT !.break = FALSE, !.break_remaining = 0]
      BY <3>1 DEF BackendState
    <3>3. QED
      BY <1>4, <2>1, <2>3, <2>5, <3>2 DEF BreakPhase
  <2>6. QED
    BY <2>4, <2>5
<1>5. QED
  BY <1>2, <1>3, <1>4

(* Catching up a then b seconds is catching up a + b seconds: the reducer   *)
(* gives the same document for a gap however the scheduler's ticks and the  *)
(* messages' reconciliations cut it into pieces, over the completion of a   *)
(* focus and the end of its break.  With b = 1 this is the step from n to   *)
(* n + 1 ticks that CatchUpIsTickByTick checks.                             *)
THEOREM CatchUpIsAdditive ==
  ASSUME NEW s \in BackendState, NEW a \in Nat, NEW b \in Nat
  PROVE  AdvanceTimer(AdvanceTimer(s, a), b) = AdvanceTimer(s, a + b)
<1>. DEFINE left == s.pomodoro_remaining
<1>1. left \in Nat
  BY DEF BackendState
<1>2. AdvanceTimer(s, a) \in BackendState
  BY AdvanceTimerType
<1>3. CASE a = 0
  BY <1>3, AdvanceNothing
<1>4. CASE b = 0
  BY <1>2, <1>4, AdvanceNothing
<1>5. CASE ~Running(s)
  <2>1. AdvanceTimer(s, a) = BreakPhase(s, a)
        /\ AdvanceTimer(s, a + b) = BreakPhase(s, a + b)
    BY <1>5, AdvanceIdle
  <2>2. ~Running(BreakPhase(s, a))
    BY <1>5, BreakPhaseKeepsFocus
  <2>3. AdvanceTimer(BreakPhase(s, a), b) = BreakPhase(BreakPhase(s, a), b)
    BY <2>2, BreakPhaseType, AdvanceIdle
  <2>4. QED
    BY <2>1, <2>3, BreakPhaseIsAdditive
<1>6. CASE a # 0 /\ b # 0 /\ Running(s) /\ ~(a < left)
  <2>. DEFINE c == CompleteFocus(s)
  <2>1. a - left \in Nat /\ a + b - left = a - left + b
        /\ a + b \in Nat \ {0} /\ ~(a + b < left)
    BY <1>1, <1>6
  <2>2. c \in BackendState /\ ~Running(c)
    BY CompleteFocusType DEF CompleteFocus, Running, BackendState
  <2>3. AdvanceTimer(s, a) = BreakPhase(c, a - left)
        /\ AdvanceTimer(s, a + b) = BreakPhase(c, a + b - left)
    <3>1. AdvanceTimer(s, a) = BreakPhase(c, a - left)
      BY <1>6, AdvanceThrough
    <3>2. PICK n \in Nat \ {0} : n = a + b
      BY <2>1
    <3>3. ~(n < left)
      BY <2>1, <3>2
    <3>4. AdvanceTimer(s, n) = BreakPhase(c, n - left)
      BY <1>6, <3>3, AdvanceThrough
    <3>5. QED
      BY <1>1, <3>1, <3>2, <3>4
  <2>4. ~Running(BreakPhase(c, a - left)) /\ BreakPhase(c, a - left) \in BackendState
    BY <2>1, <2>2, BreakPhaseKeepsFocus, BreakPhaseType
  <2>5. AdvanceTimer(BreakPhase(c, a - left), b) = BreakPhase(BreakPhase(c, a - left), b)
    BY <2>4, AdvanceIdle
  <2>6. QED
    BY <2>1, <2>2, <2>3, <2>5, BreakPhaseIsAdditive
<1>7. CASE a # 0 /\ b # 0 /\ Running(s) /\ a < left
  <2>. DEFINE t == [s EXCEPT !.pomodoro_remaining = @ - a]
  <2>1. AdvanceTimer(s, a) = t
    BY <1>7, AdvanceWithin
  <2>2. t \in BackendState
    BY <1>2, <2>1
  <2>3. Running(t) /\ t.pomodoro_remaining = left - a
    BY <1>7 DEF Running, BackendState
  <2>4. (b < left - a) = (a + b < left) /\ left - a - b = left - (a + b)
        /\ b - (left - a) = a + b - left /\ a + b \in Nat \ {0}
    BY <1>1, <1>7
  <2>5. CASE a + b < left
    <3>1. AdvanceTimer(t, b) = [t EXCEPT !.pomodoro_remaining = @ - b]
      BY <1>7, <2>2, <2>3, <2>4, <2>5, AdvanceWithin
    <3>2. AdvanceTimer(t, b) = [s EXCEPT !.pomodoro_remaining = left - a - b]
      BY <3>1 DEF BackendState
    <3>3. QED
      BY <1>7, <2>1, <2>4, <2>5, <3>2, AdvanceWithin
  <2>6. CASE ~(a + b < left)
    <3>1. AdvanceTimer(t, b) = BreakPhase(CompleteFocus(t), b - (left - a))
      BY <1>7, <2>2, <2>3, <2>4, <2>6, AdvanceThrough
    <3>2. CompleteFocus(t) = CompleteFocus(s)
      BY DEF CompleteFocus, BackendState
    <3>3. AdvanceTimer(s, a + b) = BreakPhase(CompleteFocus(s), a + b - left)
      <4>1. PICK n \in Nat \ {0} : n = a + b
        BY <2>4
      <4>2. ~(n < left)
        BY <2>6, <4>1
      <4>3. AdvanceTimer(s, n) = BreakPhase(CompleteFocus(s), n - left)
        BY <1>7, <4>2, AdvanceThrough
      <4>4. QED
        BY <1>1, <4>1, <4>3
    <3>4. QED
      BY <2>1, <2>4, <3>1, <3>2, <3>3
  <2>7. QED
    BY <2>5, <2>6
<1>8. QED
  BY <1>3, <1>4, <1>5, <1>6, <1>7

(***************************************************************************)
(* normalize_state, which every read of a stored document applies.         *)
(***************************************************************************)
\* A document of any version, as JSON stored it.
StoredDocument ==
  [focus : BOOLEAN, paused : BOOLEAN,
   pomodoro_remaining : Nat, pomodoro_duration : Durations,
   break : BOOLEAN, break_remaining : Int,
   sessions_done : Nat, reward_id : Nat \cup {Missing},
   revision : Nat \cup {Missing},
   last_tick_slot : Nat \cup {NoSlot}, time_override : BOOLEAN]

(* A stored document of any version is a state of the reducer once it is read,
   with a break no longer than the present one, and reading it again changes
   nothing more, so that two readings of one revision hold the same state
   although the upgrade is never written back.  Outside a break the code takes
   break_remaining as it is stored (state.py:66-84): no version stores a
   negative one there, and it is assumed. *)
THEOREM UpgradeIsStable ==
  ASSUME NEW raw \in StoredDocument,
         raw.break \/ raw.break_remaining >= 0
  PROVE  LET state == NormalizeState(raw)
         IN  /\ state \in BackendState
             /\ state.break => state.break_remaining <= BreakDuration
             /\ NormalizeState(state) = state
<1> DEFINE clamp(n) == Larger(0, Smaller(n, BreakDuration))
           left == IF raw.break THEN clamp(raw.break_remaining)
                                ELSE raw.break_remaining
           reward == IF raw.reward_id < 0 THEN 0 ELSE raw.reward_id
           number == IF raw.revision < 0 THEN 0 ELSE raw.revision
           state == [raw EXCEPT !.break_remaining = left, !.reward_id = reward,
                                !.revision = number]
<1>1. /\ raw.break \in BOOLEAN /\ raw.break_remaining \in Int
      /\ raw.reward_id \in Nat \cup {Missing} /\ raw.revision \in Nat \cup {Missing}
  BY DEF StoredDocument
<1>2. \A n \in Int : /\ clamp(n) \in Nat /\ clamp(n) <= BreakDuration
                     /\ clamp(clamp(n)) = clamp(n)
  BY TimerAssumption DEF Larger, Smaller
<1>3. /\ left \in Nat
      /\ raw.break => left <= BreakDuration /\ clamp(left) = left
  BY <1>1, <1>2
<1>4. reward \in Nat /\ number \in Nat
  BY <1>1 DEF Missing
<1>5. NormalizeState(raw) = state
  BY DEF NormalizeState
<1> HIDE DEF left, reward, number
<1>6. state \in BackendState
  BY <1>3, <1>4 DEF StoredDocument, BackendState
<1>7. /\ state.break = raw.break /\ state.break_remaining = left
      /\ state.reward_id = reward /\ state.revision = number
  BY DEF StoredDocument
<1> HIDE DEF state
<1>8. NormalizeState(state) = state
  <2>1. ~(state.reward_id < 0) /\ ~(state.revision < 0)
    BY <1>4, <1>7
  <2>2. (IF state.break THEN clamp(state.break_remaining) ELSE state.break_remaining)
          = state.break_remaining
    BY <1>3, <1>7
  <2> HIDE DEF clamp
  <2>3. NormalizeState(state)
          = [state EXCEPT !.break_remaining = state.break_remaining,
                          !.reward_id = state.reward_id, !.revision = state.revision]
    BY <2>1, <2>2 DEF NormalizeState, clamp
  <2>4. QED
    BY <1>6, <2>3 DEF BackendState
<1>9. QED
  BY <1>3, <1>5, <1>6, <1>7, <1>8
=============================================================================
