--------------------------- MODULE RoomTimeProofs ----------------------------
(***************************************************************************)
(* Theorems about the time that RoomSync keeps: what the stored document   *)
(* says of its phases, when a reward is earned, that neither ticks nor     *)
(* messages move the end of a cycle, and that people see one RoomCycle.    *)
(* For any number of workers, sockets, seconds, generations, messages and  *)
(* faults, and any durations.                                              *)
(***************************************************************************)
EXTENDS RoomSyncProofs, MCRoomSync, WellFoundedInduction

-----------------------------------------------------------------------------
(***************************************************************************)
(* The phases of a document.                                               *)
(***************************************************************************)
PhasesFit(s) ==
  /\ ~(s.focus /\ s.break)
  /\ s.paused => s.focus
  /\ IF s.focus THEN s.pomodoro_remaining > 0
                ELSE s.pomodoro_remaining = s.pomodoro_duration
  /\ IF s.break THEN s.break_remaining \in 1..BreakDuration
                ELSE s.break_remaining = 0

\* A slot anchor belongs to a countdown that runs.
AnchorFits(s) == s.last_tick_slot # NoSlot => Advancing(s)

(* A fresh document is idle. *)
LEMMA MakeStateFits ==
  PhasesFit(MakeState) /\ AnchorFits(MakeState) /\ ~Advancing(MakeState)
BY DEF MakeState, PhasesFit, AnchorFits, Advancing, Running

(* The fields of a document that the arithmetic is about. *)
LEMMA DocumentFields ==
  ASSUME NEW s \in BackendState
  PROVE  /\ s.pomodoro_remaining \in Nat /\ s.break_remaining \in Nat
         /\ s.pomodoro_duration \in Nat \ {0}
         /\ s.reward_id \in Nat /\ s.sessions_done \in Nat /\ s.revision \in Nat
         /\ s.last_tick_slot \in Nat \cup {-1} /\ s.last_tick_slot \in Int
         /\ BreakDuration \in Nat \ {0}
<1>1. s.pomodoro_duration \in Nat \ {0}
  BY DurationsArePositive DEF BackendState
<1>2. s.last_tick_slot \in Nat \cup {-1}
  BY DEF BackendState, NoSlot
<1>3. QED
  BY <1>1, <1>2, TimerAssumption DEF BackendState

(* The break phase keeps the phases, and takes its seconds off the break. *)
LEMMA BreakPhaseFits ==
  ASSUME NEW s \in BackendState, NEW n \in Nat, PhasesFit(s), s.break
  PROVE  LET t == BreakPhase(s, n)
         IN  /\ PhasesFit(t)
             /\ ~t.focus /\ ~t.paused
             /\ t.reward_id = s.reward_id /\ t.sessions_done = s.sessions_done
             /\ t.last_tick_slot = s.last_tick_slot
             /\ IF t.break THEN t.break_remaining = s.break_remaining - n
                           ELSE s.break_remaining <= n
<1>1. s.break_remaining \in 1..BreakDuration /\ BreakDuration \in Nat \ {0}
  BY DocumentFields DEF PhasesFit
<1>2. ~s.focus /\ ~s.paused /\ s.pomodoro_remaining = s.pomodoro_duration
  BY DEF PhasesFit
<1>3. CASE n = 0
  BY <1>1, <1>2, <1>3 DEF BreakPhase
<1>4. CASE n # 0 /\ n < s.break_remaining
  <2>1. BreakPhase(s, n) = [s EXCEPT !.break_remaining = @ - n]
    BY <1>4 DEF BreakPhase
  <2>2. s.break_remaining - n \in 1..BreakDuration
    BY <1>1, <1>4
  <2>3. QED
    BY <1>2, <2>1, <2>2 DEF PhasesFit, BackendState
<1>5. CASE n # 0 /\ ~(n < s.break_remaining)
  <2>1. BreakPhase(s, n) = [s EXCEPT !.break = FALSE, !.break_remaining = 0]
    BY <1>5 DEF BreakPhase
  <2>2. s.break_remaining <= n
    BY <1>1, <1>5
  <2>3. QED
    BY <1>2, <2>1, <2>2 DEF PhasesFit, BackendState
<1>6. QED
  BY <1>3, <1>4, <1>5

(* A completed focus is a full break and one reward. *)
LEMMA CompleteFocusFits ==
  ASSUME NEW s \in BackendState
  PROVE  LET c == CompleteFocus(s)
         IN  /\ PhasesFit(c) /\ c.break
             /\ c.break_remaining = BreakDuration
             /\ c.reward_id = s.reward_id + 1
             /\ c.sessions_done = s.sessions_done + 1
             /\ c.last_tick_slot = s.last_tick_slot
BY DocumentFields DEF CompleteFocus, PhasesFit, BackendState

(* What a catch-up of n seconds does to a document whose phases fit: they   *)
(* fit again, the cycle is n seconds shorter or over, and a reward is       *)
(* minted at the end of a focus only.                                       *)
Advanced(s, t, n) ==
  /\ PhasesFit(t)
  /\ t.paused = s.paused
  /\ t.last_tick_slot = s.last_tick_slot
  /\ IF Advancing(t) THEN TimeLeft(t) = TimeLeft(s) - n
                     ELSE Advancing(s) => TimeLeft(s) <= n
  /\ t.focus =>
       /\ s.focus
       /\ t.pomodoro_remaining =
            IF Running(s) THEN s.pomodoro_remaining - n ELSE s.pomodoro_remaining
  /\ \/ t.reward_id = s.reward_id /\ t.sessions_done = s.sessions_done
     \/ /\ t.reward_id = s.reward_id + 1 /\ t.sessions_done = s.sessions_done + 1
        /\ Running(s) /\ n > 0 /\ s.pomodoro_remaining <= n

(* So it is, for any document and any gap. *)
LEMMA AdvanceTimerFits ==
  ASSUME NEW s \in BackendState, NEW n \in Nat, PhasesFit(s)
  PROVE  Advanced(s, AdvanceTimer(s, n), n)
<1>1. /\ s.pomodoro_remaining \in Nat /\ s.break_remaining \in Nat
      /\ BreakDuration \in Nat \ {0}
  BY DocumentFields
<1>2. CASE ~Running(s) /\ ~s.break
  <2>1. AdvanceTimer(s, n) = s
    BY <1>2, AdvanceIdle DEF BreakPhase
  <2>2. QED
    BY <1>2, <2>1 DEF Advanced, Advancing
<1>3. CASE ~Running(s) /\ s.break
  <2>. DEFINE t == BreakPhase(s, n)
  <2>1. AdvanceTimer(s, n) = t
    BY <1>3, AdvanceIdle
  <2>2. /\ PhasesFit(t) /\ ~t.focus /\ ~t.paused
        /\ t.reward_id = s.reward_id /\ t.sessions_done = s.sessions_done
        /\ t.last_tick_slot = s.last_tick_slot
        /\ IF t.break THEN t.break_remaining = s.break_remaining - n
                      ELSE s.break_remaining <= n
    BY <1>3, BreakPhaseFits
  <2>3. ~s.focus /\ ~s.paused
    BY <1>3 DEF PhasesFit
  <2>. HIDE DEF t
  <2>4. ~Running(s) /\ ~Running(t) /\ Advancing(s)
    BY <1>3, <2>2 DEF Running, Advancing
  <2>5. TimeLeft(s) = s.break_remaining /\ (t.break => TimeLeft(t) = t.break_remaining)
    BY <1>3, <2>4 DEF TimeLeft
  <2>6. IF Advancing(t) THEN TimeLeft(t) = TimeLeft(s) - n ELSE TimeLeft(s) <= n
    BY <2>2, <2>4, <2>5 DEF Advancing
  <2>7. t.paused = s.paused
    <3>1. t \in BackendState /\ s.paused \in BOOLEAN
      BY BreakPhaseType DEF t, BackendState
    <3>2. QED
      BY <2>2, <2>3, <3>1 DEF BackendState
  <2>8. QED
    BY <2>1, <2>2, <2>6, <2>7 DEF Advanced
<1>4. CASE Running(s) /\ n = 0
  <2>1. AdvanceTimer(s, n) = s
    BY <1>4, AdvanceNothing
  <2>2. TimeLeft(s) = TimeLeft(s) - n
    BY <1>1, <1>4 DEF TimeLeft
  <2>3. QED
    BY <1>1, <1>4, <2>1, <2>2 DEF Advanced, Advancing, Running
<1>5. CASE Running(s) /\ n # 0 /\ n < s.pomodoro_remaining
  <2>. DEFINE t == [s EXCEPT !.pomodoro_remaining = @ - n]
  <2>1. AdvanceTimer(s, n) = t
    BY <1>5, AdvanceWithin
  <2>2. /\ t.pomodoro_remaining = s.pomodoro_remaining - n
        /\ t.focus = s.focus /\ t.paused = s.paused /\ t.break = s.break
        /\ t.break_remaining = s.break_remaining
        /\ t.last_tick_slot = s.last_tick_slot
        /\ t.reward_id = s.reward_id /\ t.sessions_done = s.sessions_done
    BY DEF BackendState
  <2>3. s.focus /\ ~s.paused /\ ~s.break
    BY <1>5 DEF Running, PhasesFit
  <2>. HIDE DEF t
  <2>4. PhasesFit(t)
    BY <1>1, <1>5, <2>2, <2>3 DEF PhasesFit
  <2>5. TimeLeft(t) = TimeLeft(s) - n /\ Advancing(t)
    BY <1>1, <2>2, <2>3 DEF TimeLeft, Running, Advancing
  <2>6. QED
    BY <1>5, <2>1, <2>2, <2>3, <2>4, <2>5 DEF Advanced
<1>6. CASE Running(s) /\ n # 0 /\ ~(n < s.pomodoro_remaining)
  <2>. DEFINE c == CompleteFocus(s)
              m == n - s.pomodoro_remaining
              t == BreakPhase(c, m)
  <2>1. AdvanceTimer(s, n) = t
    BY <1>6, AdvanceThrough
  <2>2. m \in Nat /\ c \in BackendState
    BY <1>1, <1>6, CompleteFocusType
  <2>3. /\ PhasesFit(c) /\ c.break /\ c.break_remaining = BreakDuration
        /\ c.reward_id = s.reward_id + 1 /\ c.sessions_done = s.sessions_done + 1
        /\ c.last_tick_slot = s.last_tick_slot
    BY CompleteFocusFits
  <2>. HIDE DEF c
  <2>4. /\ PhasesFit(t) /\ ~t.focus /\ ~t.paused
        /\ t.reward_id = c.reward_id /\ t.sessions_done = c.sessions_done
        /\ t.last_tick_slot = c.last_tick_slot
        /\ IF t.break THEN t.break_remaining = c.break_remaining - m
                      ELSE c.break_remaining <= m
    <3>. HIDE DEF m
    <3>1. QED
      BY <2>2, <2>3, BreakPhaseFits
  <2>. HIDE DEF t
  <2>5. s.focus /\ ~s.paused
    BY <1>6 DEF Running
  <2>6. TimeLeft(s) = s.pomodoro_remaining + BreakDuration
    BY <1>6 DEF TimeLeft
  <2>7. ~Running(t) /\ (t.break => TimeLeft(t) = t.break_remaining)
    BY <2>4 DEF Running, TimeLeft
  <2>8. IF Advancing(t) THEN TimeLeft(t) = TimeLeft(s) - n ELSE TimeLeft(s) <= n
    BY <1>1, <2>2, <2>3, <2>4, <2>6, <2>7 DEF Advancing
  <2>9. n > 0 /\ s.pomodoro_remaining <= n
    BY <1>1, <1>6
  <2>10. t.paused = s.paused
    <3>1. t \in BackendState /\ s.paused \in BOOLEAN
      BY <2>2, BreakPhaseType DEF t, BackendState
    <3>2. QED
      BY <2>4, <2>5, <3>1 DEF BackendState
  <2>11. QED
    BY <1>6, <2>1, <2>3, <2>4, <2>8, <2>9, <2>10 DEF Advanced
<1>7. QED
  BY <1>2, <1>3, <1>4, <1>5, <1>6

-----------------------------------------------------------------------------
(***************************************************************************)
(* What ticks and messages compute.                                        *)
(***************************************************************************)

\* Two documents with the same countdown, phases and reward.
SamePhases(s, t) ==
  /\ t.focus = s.focus /\ t.paused = s.paused /\ t.break = s.break
  /\ t.pomodoro_remaining = s.pomodoro_remaining
  /\ t.pomodoro_duration = s.pomodoro_duration
  /\ t.break_remaining = s.break_remaining
  /\ t.reward_id = s.reward_id /\ t.sessions_done = s.sessions_done

(* They are alike in everything that is said of phases. *)
LEMMA SamePhasesFit ==
  ASSUME NEW s, NEW t, SamePhases(s, t)
  PROVE  /\ PhasesFit(s) => PhasesFit(t)
         /\ Running(t) <=> Running(s)
         /\ Advancing(t) <=> Advancing(s)
         /\ TimeLeft(t) = TimeLeft(s)
BY DEF SamePhases, PhasesFit, Running, Advancing, TimeLeft

(* Re-anchoring changes the anchor only, and fits it to the phase. *)
LEMMA AnchoredFits ==
  ASSUME NEW s \in BackendState, NEW slot \in Nat
  PROVE  /\ SamePhases(s, Anchored(s, slot))
         /\ Anchored(s, slot).last_tick_slot = IF Advancing(s) THEN slot ELSE NoSlot
         /\ Anchored(s, slot).revision = s.revision
         /\ AnchorFits(Anchored(s, slot))
<1>1. SamePhases(s, Anchored(s, slot))
  BY DEF SamePhases, Anchored, BackendState
<1>2. Anchored(s, slot).last_tick_slot = IF Advancing(s) THEN slot ELSE NoSlot
  BY DEF Anchored, BackendState
<1>3. Anchored(s, slot).revision = s.revision
  BY DEF Anchored, BackendState
<1>4. QED
  BY <1>1, <1>2, <1>3, SamePhasesFit DEF AnchorFits

(* The next revision of a document is the same countdown. *)
LEMMA SuccessorFits ==
  ASSUME NEW base \in BackendState, NEW s \in BackendState
  PROVE  /\ SamePhases(s, Successor(base, s))
         /\ Successor(base, s).last_tick_slot = s.last_tick_slot
BY DEF Successor, SamePhases, BackendState

(* A message leaves phases that fit, never mints a reward, never moves an   *)
(* anchor but to take it away, and pauses only a focus, as it stands.       *)
LEMMA HandleFits ==
  ASSUME NEW s \in BackendState, NEW m \in Message, PhasesFit(s), AnchorFits(s)
  PROVE  LET h == Handle(s, m)
         IN  /\ PhasesFit(h) /\ AnchorFits(h)
             /\ h.reward_id = s.reward_id /\ h.sessions_done = s.sessions_done
             /\ h.last_tick_slot \in {s.last_tick_slot, NoSlot}
             /\ h.paused =>
                  s.paused \/ (s.focus /\ h.pomodoro_remaining = s.pomodoro_remaining)
<1>. DEFINE Fits(h) ==
       /\ PhasesFit(h) /\ AnchorFits(h)
       /\ h.reward_id = s.reward_id /\ h.sessions_done = s.sessions_done
       /\ h.last_tick_slot \in {s.last_tick_slot, NoSlot}
       /\ h.paused => s.paused \/ (s.focus /\ h.pomodoro_remaining = s.pomodoro_remaining)
<1>1. /\ s.pomodoro_duration \in Nat \ {0} /\ s.pomodoro_remaining \in Nat
      /\ BreakDuration \in Nat \ {0}
  BY DocumentFields
<1>2. Fits(s)
  OBVIOUS
<1>3. Fits(FocusToggle(s))
  <2>. DEFINE h == FocusToggle(s)
  <2>1. /\ h.break = FALSE /\ h.focus = (~s.focus) /\ h.paused = FALSE
        /\ h.pomodoro_remaining = s.pomodoro_duration
        /\ h.pomodoro_duration = s.pomodoro_duration
        /\ h.break_remaining = IF s.break THEN 0 ELSE s.break_remaining
        /\ h.last_tick_slot = NoSlot
        /\ h.reward_id = s.reward_id /\ h.sessions_done = s.sessions_done
    BY DEF FocusToggle, BackendState
  <2>2. h.break_remaining = 0
    BY <2>1 DEF PhasesFit
  <2>. HIDE DEF h
  <2>3. PhasesFit(h)
    BY <1>1, <2>1, <2>2 DEF PhasesFit
  <2>4. QED
    BY <2>1, <2>3 DEF AnchorFits, h
<1>4. Fits(FocusPause(s))
  <2>1. CASE ~s.focus
    BY <1>2, <2>1 DEF FocusPause
  <2>2. CASE s.focus
    <3>. DEFINE h == FocusPause(s)
    <3>1. /\ h.break = s.break /\ h.focus = s.focus /\ h.paused = (~s.paused)
          /\ h.pomodoro_remaining = s.pomodoro_remaining
          /\ h.pomodoro_duration = s.pomodoro_duration
          /\ h.break_remaining = s.break_remaining
          /\ h.last_tick_slot = NoSlot
          /\ h.reward_id = s.reward_id /\ h.sessions_done = s.sessions_done
      BY <2>2 DEF FocusPause, BackendState
    <3>. HIDE DEF h
    <3>2. QED
      BY <2>2, <3>1 DEF PhasesFit, AnchorFits, h
  <2>3. QED
    BY <2>1, <2>2
<1>5. Fits(FocusCancel(s))
  <2>. DEFINE h == FocusCancel(s)
  <2>1. /\ h.break = FALSE /\ h.focus = FALSE /\ h.paused = FALSE
        /\ h.pomodoro_remaining = s.pomodoro_duration
        /\ h.pomodoro_duration = s.pomodoro_duration
        /\ h.break_remaining = 0 /\ h.last_tick_slot = NoSlot
        /\ h.reward_id = s.reward_id /\ h.sessions_done = s.sessions_done
    BY DEF FocusCancel, BackendState
  <2>. HIDE DEF h
  <2>2. QED
    BY <2>1 DEF PhasesFit, AnchorFits, h
<1>6. Fits(SkipBreak(s))
  BY <1>2, <1>5 DEF SkipBreak
<1>7. ASSUME m.type = "set_duration" PROVE Fits(SetDuration(s, m.minutes))
  <2>. DEFINE h == SetDuration(s, m.minutes)
              d == m.minutes * MinuteSeconds
  <2>1. CASE m.minutes \notin 1..MaxMinutes
    BY <1>2, <2>1 DEF SetDuration
  <2>2. CASE m.minutes \in 1..MaxMinutes /\ s.focus
    <3>1. h = [s EXCEPT !.pomodoro_duration = d]
      BY <2>2 DEF SetDuration
    <3>2. /\ h.break = s.break /\ h.focus = s.focus /\ h.paused = s.paused
          /\ h.pomodoro_remaining = s.pomodoro_remaining
          /\ h.break_remaining = s.break_remaining
          /\ h.last_tick_slot = s.last_tick_slot
          /\ h.reward_id = s.reward_id /\ h.sessions_done = s.sessions_done
      BY <3>1 DEF BackendState
    <3>. HIDE DEF h
    <3>3. QED
      BY <2>2, <3>2 DEF PhasesFit, AnchorFits, Advancing, Running, h
  <2>3. CASE m.minutes \in 1..MaxMinutes /\ ~s.focus
    <3>1. h = [s EXCEPT !.pomodoro_duration = d, !.pomodoro_remaining = d,
                        !.last_tick_slot = NoSlot]
      BY <2>3 DEF SetDuration
    <3>2. /\ h.break = s.break /\ h.focus = s.focus /\ h.paused = s.paused
          /\ h.pomodoro_remaining = d /\ h.pomodoro_duration = d
          /\ h.break_remaining = s.break_remaining
          /\ h.last_tick_slot = NoSlot
          /\ h.reward_id = s.reward_id /\ h.sessions_done = s.sessions_done
      BY <3>1 DEF BackendState
    <3>. HIDE DEF h, d
    <3>3. QED
      BY <2>3, <3>2 DEF PhasesFit, AnchorFits, h
  <2>4. QED
    BY <2>1, <2>2, <2>3
<1>8. Fits([s EXCEPT !.time_override = m.iso])
  <2>1. SamePhases(s, [s EXCEPT !.time_override = m.iso])
    BY DEF SamePhases, BackendState
  <2>2. [s EXCEPT !.time_override = m.iso].last_tick_slot = s.last_tick_slot
    BY DEF BackendState
  <2>3. QED
    BY <2>1, <2>2, SamePhasesFit DEF SamePhases, AnchorFits, PhasesFit
<1>. HIDE DEF Fits
<1>9. Fits(Handle(s, m))
  BY <1>2, <1>3, <1>4, <1>5, <1>6, <1>7, <1>8 DEF Handle
<1>10. QED
  BY <1>9 DEF Fits

\* From s to t at second `slot': phases, anchor and reward.
Moved(s, t, slot) ==
  /\ PhasesFit(t) /\ AnchorFits(t)
  /\ t.last_tick_slot \in {slot, NoSlot}
  /\ \/ t.reward_id = s.reward_id /\ t.sessions_done = s.sessions_done
     \/ /\ t.reward_id = s.reward_id + 1 /\ t.sessions_done = s.sessions_done + 1
        /\ Running(s)
        /\ s.last_tick_slot # NoSlot => s.last_tick_slot + s.pomodoro_remaining <= slot

\* The same of the end of the cycle.
InTime(s, t, slot) ==
  Advancing(s) /\ s.last_tick_slot # NoSlot /\ s.last_tick_slot <= slot =>
    IF Advancing(t) THEN Deadline(t) = Deadline(s) ELSE Deadline(s) <= slot

\* And of a focus that is not over.
SameFocus(s, t, slot) ==
  /\ t.paused = s.paused
  /\ t.focus => s.focus
  /\ t.focus /\ Running(s) /\ s.last_tick_slot # NoSlot /\ s.last_tick_slot <= slot =>
       t.pomodoro_remaining = s.pomodoro_remaining - (slot - s.last_tick_slot)

(* A catch-up to a second, and the new anchor. *)
LEMMA CatchUpFits ==
  ASSUME NEW s \in BackendState, NEW n \in Nat, NEW slot \in Nat, PhasesFit(s),
         s.last_tick_slot # NoSlot => n = Larger(0, slot - s.last_tick_slot)
  PROVE  LET t == Anchored(AdvanceTimer(s, n), slot)
         IN  /\ Moved(s, t, slot) /\ InTime(s, t, slot) /\ SameFocus(s, t, slot)
             /\ Advancing(t) => t.last_tick_slot # NoSlot
<1>. DEFINE u == AdvanceTimer(s, n)
            t == Anchored(u, slot)
<1>1. /\ s.pomodoro_remaining \in Nat /\ s.last_tick_slot \in Int
      /\ s.last_tick_slot # NoSlot => s.last_tick_slot \in Nat
  BY DocumentFields DEF NoSlot
<1>2. u \in BackendState /\ Advanced(s, u, n)
  BY AdvanceTimerType, AdvanceTimerFits
<1>. HIDE DEF u
<1>3. /\ SamePhases(u, t) /\ AnchorFits(t)
      /\ t.last_tick_slot = IF Advancing(u) THEN slot ELSE NoSlot
  BY <1>2, AnchoredFits
<1>. HIDE DEF t
<1>4. /\ PhasesFit(t) /\ (Advancing(t) <=> Advancing(u)) /\ TimeLeft(t) = TimeLeft(u)
  BY <1>2, <1>3, SamePhasesFit DEF Advanced
<1>5. s.last_tick_slot # NoSlot /\ s.last_tick_slot <= slot =>
        n = slot - s.last_tick_slot
  BY <1>1 DEF Larger
<1>6. Moved(s, t, slot)
  <2>1. n > 0 /\ s.last_tick_slot # NoSlot => n = slot - s.last_tick_slot
    BY <1>1 DEF Larger
  <2>2. QED
    BY <1>1, <1>2, <1>3, <1>4, <2>1 DEF Moved, Advanced, SamePhases
<1>7. InTime(s, t, slot)
  <2>1. SUFFICES ASSUME Advancing(s), s.last_tick_slot # NoSlot, s.last_tick_slot <= slot
                 PROVE  IF Advancing(t) THEN Deadline(t) = Deadline(s)
                                        ELSE Deadline(s) <= slot
    BY DEF InTime
  <2>2. TimeLeft(s) \in Int
    BY DocumentFields DEF TimeLeft
  <2>3. n = slot - s.last_tick_slot
    BY <1>5, <2>1
  <2>4. CASE Advancing(u)
    <3>1. TimeLeft(t) = TimeLeft(s) - n /\ t.last_tick_slot = slot
      BY <1>2, <1>3, <1>4, <2>4 DEF Advanced
    <3>2. QED
      BY <1>1, <1>4, <2>2, <2>3, <2>4, <3>1 DEF Deadline
  <2>5. CASE ~Advancing(u)
    <3>1. TimeLeft(s) <= n
      BY <1>2, <2>1, <2>5 DEF Advanced
    <3>2. QED
      BY <1>1, <1>4, <2>2, <2>3, <2>5, <3>1 DEF Deadline
  <2>6. QED
    BY <2>4, <2>5
<1>8. SameFocus(s, t, slot)
  BY <1>2, <1>3, <1>5 DEF SameFocus, SamePhases, Advanced
<1>9. Advancing(t) => t.last_tick_slot # NoSlot
  BY <1>3, <1>4 DEF NoSlot
<1>10. QED
  BY <1>6, <1>7, <1>8, <1>9 DEF t, u

(* A document that is left as it is, when its anchor is unset or now. *)
LEMMA StandsStill ==
  ASSUME NEW s \in BackendState, NEW slot \in Nat, PhasesFit(s), AnchorFits(s),
         ~Advancing(s) \/ s.last_tick_slot = NoSlot
  PROVE  Moved(s, s, slot) /\ InTime(s, s, slot) /\ SameFocus(s, s, slot)
<1>1. s.last_tick_slot = NoSlot
  BY DEF AnchorFits
<1>2. QED
  BY <1>1 DEF Moved, InTime, SameFocus

(* A tick. *)
LEMMA TickedFits ==
  ASSUME NEW s \in BackendState, NEW slot \in Nat, PhasesFit(s), AnchorFits(s)
  PROVE  LET t == Ticked(s, slot)
         IN  /\ Moved(s, t, slot) /\ InTime(s, t, slot)
             /\ Advancing(t) => t.last_tick_slot # NoSlot
<1>1. CASE ~Advancing(s)
  BY <1>1, StandsStill DEF Ticked
<1>2. CASE Advancing(s)
  <2>1. Elapsed(s, slot) \in Nat
    BY ElapsedType
  <2>2. s.last_tick_slot # NoSlot =>
          Elapsed(s, slot) = Larger(0, slot - s.last_tick_slot)
    BY DEF Elapsed
  <2>3. Ticked(s, slot) = Anchored(AdvanceTimer(s, Elapsed(s, slot)), slot)
    BY <1>2 DEF Ticked
  <2>4. QED
    BY <2>1, <2>2, <2>3, CatchUpFits
<1>3. QED
  BY <1>1, <1>2

(* The reconciliation before a message. *)
LEMMA ReconciledFits ==
  ASSUME NEW s \in BackendState, NEW slot \in Nat, PhasesFit(s), AnchorFits(s)
  PROVE  LET r == Reconciled(s, slot)
         IN  /\ Moved(s, r, slot) /\ InTime(s, r, slot) /\ SameFocus(s, r, slot)
             /\ s.last_tick_slot # NoSlot /\ Advancing(r) => r.last_tick_slot # NoSlot
<1>1. CASE ~(Advancing(s) /\ s.last_tick_slot # NoSlot)
  <2>1. Reconciled(s, slot) = s
    BY <1>1 DEF Reconciled
  <2>2. QED
    BY <1>1, <2>1, StandsStill
<1>2. CASE Advancing(s) /\ s.last_tick_slot # NoSlot
  <2>. DEFINE n == Larger(0, slot - s.last_tick_slot)
  <2>1. n \in Nat
    BY DocumentFields DEF Larger
  <2>2. Reconciled(s, slot) = Anchored(AdvanceTimer(s, n), slot)
    BY <1>2 DEF Reconciled
  <2>3. QED
    BY <2>1, <2>2, CatchUpFits
<1>3. QED
  BY <1>1, <1>2

(* A message: the anchor of a countdown that it starts is its second. *)
LEMMA HandledAtFits ==
  ASSUME NEW s \in BackendState, NEW slot \in Nat, NEW m \in Message,
         PhasesFit(s), AnchorFits(s), s.last_tick_slot \in {slot, NoSlot}
  PROVE  LET t == HandledAt(s, slot, m)
         IN  /\ SamePhases(Handle(s, m), t) /\ PhasesFit(t) /\ AnchorFits(t)
             /\ t.last_tick_slot \in {slot, NoSlot}
             /\ Advancing(t) => t.last_tick_slot # NoSlot
<1>. DEFINE h == Handle(s, m)
            t == HandledAt(s, slot, m)
<1>1. /\ h \in BackendState /\ PhasesFit(h) /\ AnchorFits(h)
      /\ h.last_tick_slot \in {slot, NoSlot}
  BY HandleType, HandleFits
<1>. HIDE DEF h
<1>2. CASE Advancing(h) /\ h.last_tick_slot = NoSlot
  <2>1. t = [h EXCEPT !.last_tick_slot = slot]
    BY <1>2 DEF HandledAt, h
  <2>2. SamePhases(h, t) /\ t.last_tick_slot = slot
    BY <1>1, <2>1 DEF SamePhases, BackendState
  <2>. HIDE DEF t
  <2>3. QED
    BY <1>1, <1>2, <2>2, SamePhasesFit DEF AnchorFits, NoSlot, h, t
<1>3. CASE ~(Advancing(h) /\ h.last_tick_slot = NoSlot)
  <2>1. t = h
    BY <1>3 DEF HandledAt, h
  <2>. HIDE DEF t
  <2>2. QED
    BY <1>1, <1>3, <2>1 DEF SamePhases, h, t
<1>4. QED
  BY <1>2, <1>3

\* The messages that are not about the timer.
Bystander(m) == m.type \in {"location", "time_override", "unknown"}

(* A message, with the reconciliation before it. *)
LEMMA MutatedFits ==
  ASSUME NEW s \in BackendState, NEW slot \in Nat, NEW m \in Message,
         PhasesFit(s), AnchorFits(s)
  PROVE  LET t == Mutated(s, slot, m)
         IN  /\ Moved(s, t, slot)
             /\ Advancing(t) => t.last_tick_slot # NoSlot
             /\ Bystander(m) => InTime(s, t, slot)
             /\ t.paused /\ ~s.paused
                  /\ s.last_tick_slot # NoSlot /\ s.last_tick_slot <= slot =>
                    s.last_tick_slot + s.pomodoro_remaining - t.pomodoro_remaining = slot
<1>. DEFINE r == Reconciled(s, slot)
            h == Handle(r, m)
            t == HandledAt(r, slot, m)
<1>1. /\ s.pomodoro_remaining \in Nat /\ s.last_tick_slot \in Int
  BY DocumentFields
<1>2. /\ r \in BackendState
      /\ Moved(s, r, slot) /\ InTime(s, r, slot) /\ SameFocus(s, r, slot)
      /\ s.last_tick_slot # NoSlot /\ Advancing(r) => r.last_tick_slot # NoSlot
  BY ReconciledType, ReconciledFits
<1>3. Mutated(s, slot, m) = t
  BY DEF Mutated
<1>. HIDE DEF r
<1>4. PhasesFit(r) /\ AnchorFits(r) /\ r.last_tick_slot \in {slot, NoSlot}
  BY <1>2 DEF Moved
<1>5. /\ h.reward_id = r.reward_id /\ h.sessions_done = r.sessions_done
      /\ h.paused => r.paused \/ (r.focus /\ h.pomodoro_remaining = r.pomodoro_remaining)
  BY <1>2, <1>4, HandleFits
<1>6. /\ SamePhases(h, t) /\ PhasesFit(t) /\ AnchorFits(t)
      /\ t.last_tick_slot \in {slot, NoSlot}
      /\ Advancing(t) => t.last_tick_slot # NoSlot
  BY <1>2, <1>4, HandledAtFits
<1>7. Moved(s, t, slot)
  BY <1>2, <1>5, <1>6 DEF Moved, SamePhases
<1>8. ASSUME Bystander(m) PROVE InTime(s, t, slot)
  <2>1. SamePhases(r, h)
    BY <1>2, <1>8 DEF Bystander, Handle, SamePhases, BackendState, h
  <2>. HIDE DEF h, t
  <2>2. SamePhases(r, t)
    BY <1>6, <2>1 DEF SamePhases
  <2>3. (Advancing(t) <=> Advancing(r)) /\ TimeLeft(t) = TimeLeft(r)
    BY <2>2, SamePhasesFit
  <2>4. s.last_tick_slot # NoSlot /\ Advancing(t) => t.last_tick_slot = r.last_tick_slot
    BY <1>2, <1>4, <1>6, <2>3
  <2>5. QED
    BY <1>2, <2>3, <2>4 DEF InTime, Deadline
<1>9. ASSUME t.paused, ~s.paused, s.last_tick_slot # NoSlot, s.last_tick_slot <= slot
      PROVE  s.last_tick_slot + s.pomodoro_remaining - t.pomodoro_remaining = slot
  <2>. HIDE DEF h, t
  <2>1. ~r.paused /\ (r.focus => s.focus)
    BY <1>2, <1>9 DEF SameFocus
  <2>2. r.focus /\ t.pomodoro_remaining = r.pomodoro_remaining
    BY <1>5, <1>6, <1>9, <2>1 DEF SamePhases
  <2>3. Running(s)
    BY <1>9, <2>1, <2>2 DEF Running
  <2>4. r.pomodoro_remaining = s.pomodoro_remaining - (slot - s.last_tick_slot)
    BY <1>2, <1>9, <2>2, <2>3 DEF SameFocus
  <2>5. QED
    BY <1>1, <2>2, <2>4
<1>10. QED
  BY <1>3, <1>6, <1>7, <1>8, <1>9

-----------------------------------------------------------------------------
(***************************************************************************)
(* The invariant.  A document that is coherent stays so only if whoever    *)
(* commits over it brings a second that is not behind its anchor, or a     *)
(* tick that is: the seconds that workers and sockets hold are not ahead   *)
(* of the clock, and a message's is not behind the document it has read.   *)
(***************************************************************************)
SlotsPass ==
  /\ \A w \in Workers :
       ticker[w].pc = "commit" =>
         \/ TickChanges(ticker[w].base, ticker[w].slot)
         \/ ticker[w].slot % CelestialPeriod = 0
  /\ \A c \in Clients :
       /\ client[c].pc \in {"read", "slot"} => client[c].since <= now
       /\ client[c].pc = "slot" => client[c].base.last_tick_slot <= now
       /\ client[c].pc = "commit" =>
            /\ client[c].base.last_tick_slot <= client[c].slot
            /\ client[c].since <= client[c].slot
            /\ client[c].slot <= now

TimeInv == RevisionInv /\ LeaseInv /\ DocumentCoherent /\ SlotsPass

(* DocumentCoherent in the terms of the lemmas. *)
LEMMA CoherentMeans ==
  DocumentCoherent <=>
    /\ PhasesFit(room.state) /\ AnchorFits(room.state)
    /\ room.state.last_tick_slot # NoSlot => room.state.last_tick_slot <= now
    /\ Advancing(room.state) /\ room.state.revision > 0 =>
         room.state.last_tick_slot # NoSlot
BY DEF DocumentCoherent, PhasesFit, AnchorFits

(* Initially the document is fresh and nobody holds a second. *)
LEMMA TimeInit == Init => TimeInv
<1>1. SUFFICES ASSUME Init PROVE TimeInv
  OBVIOUS
<1>2. RevisionInv /\ LeaseInv
  BY <1>1, RevisionInit, LeaseInit
<1>3. room.state = MakeState /\ MakeState.last_tick_slot = NoSlot
  BY <1>1 DEF Init, InitWith, NoRoom, MakeState
<1>4. DocumentCoherent
  BY <1>3, MakeStateFits, CoherentMeans
<1>5. SlotsPass
  BY <1>1 DEF Init, InitWith, IdleTicker, NoClient, SlotsPass
<1>6. QED
  BY <1>2, <1>4, <1>5 DEF TimeInv

(* What is known when a tick commits. *)
LEMMA TickCommits ==
  ASSUME TimeInv, NEW w \in Workers, CommitTick(w)
  PROVE  /\ room.state \in BackendState /\ ticker[w].slot \in Nat
         /\ ticker[w].pc = "commit" /\ ticker[w].base = room.state
         /\ ticker[w].slot <= now /\ now' = now /\ now \in Nat
         /\ room'.instance = room.instance
         /\ room'.state = Successor(room.state, Ticked(room.state, ticker[w].slot))
<1>1. /\ ticker[w].pc = "commit" /\ RoomExists
      /\ ticker[w].instance = room.instance
      /\ ticker[w].base.revision = room.state.revision
      /\ lock.status = "running" /\ lock.slot = ticker[w].slot
  BY DEF CommitTick, TickFenced, LeaseHeld, GenerationCurrent, RevisionCurrent
<1>2. ticker[w].base = room.state
  BY <1>1 DEF TimeInv, RevisionInv, RevisionIdentifiesState, SnapshotCurrent
<1>3. ticker[w].slot <= now
  BY <1>1 DEF TimeInv, LeaseInv
<1>4. room.state \in BackendState /\ ticker[w].slot \in Nat /\ now \in Nat
  BY DEF TimeInv, RevisionInv, TypeOK, TickOfRoom
<1>5. room' = [room EXCEPT !.state = TickSuccessor(w)] /\ now' = now
  BY DEF CommitTick
<1>6. QED
  BY <1>1, <1>2, <1>3, <1>4, <1>5 DEF TickSuccessor, TimeInv, RevisionInv, TypeOK

(* What is known when a message commits. *)
LEMMA MessageCommits ==
  ASSUME TimeInv, NEW c \in Clients, CommitMessage(c)
  PROVE  LET r == client[c]
         IN  /\ room.state \in BackendState /\ r.slot \in Nat /\ r.message \in Message
             /\ r.base = room.state /\ room.state.last_tick_slot <= r.slot
             /\ r.since \in Nat /\ r.since <= r.slot /\ r.slot <= now
             /\ now' = now /\ now \in Nat
             /\ room'.instance = room.instance
             /\ room'.state =
                  Successor(room.state, Mutated(room.state, r.slot, r.message))
<1>1. /\ client[c].pc = "commit" /\ RoomExists
      /\ client[c].bound = room.instance
      /\ client[c].base.revision = room.state.revision
  BY DEF CommitMessage, MessageFenced, GenerationCurrent, RevisionCurrent
<1>2. client[c].base = room.state
  BY <1>1 DEF TimeInv, RevisionInv, RevisionIdentifiesState, SnapshotCurrent
<1>3. /\ client[c].base.last_tick_slot <= client[c].slot
      /\ client[c].since <= client[c].slot
      /\ client[c].slot <= now
  BY <1>1 DEF TimeInv, SlotsPass
<1>4. /\ room.state \in BackendState /\ now \in Nat /\ client[c].slot \in Nat
      /\ client[c].message \in Message /\ client[c].since \in Nat
  BY DEF TimeInv, RevisionInv, TypeOK, Socket
<1>5. room' = [room EXCEPT !.state = MessageSuccessor(c)] /\ now' = now
  BY DEF CommitMessage
<1>6. QED
  BY <1>2, <1>3, <1>4, <1>5 DEF MessageSuccessor, TimeInv, RevisionInv, TypeOK

(* A commit of a second that has come leaves a coherent document. *)
LEMMA CommitIsCoherent ==
  ASSUME NEW s \in BackendState, NEW t \in BackendState, NEW slot \in Nat,
         Moved(s, t, slot), Advancing(t) => t.last_tick_slot # NoSlot,
         room'.state = Successor(s, t), now' \in Nat, slot <= now'
  PROVE  DocumentCoherent'
<1>. DEFINE u == Successor(s, t)
<1>1. SamePhases(t, u) /\ u.last_tick_slot = t.last_tick_slot
  BY SuccessorFits
<1>. HIDE DEF u
<1>2. /\ PhasesFit(u) /\ (Advancing(u) <=> Advancing(t))
      /\ u.last_tick_slot \in {slot, NoSlot}
      /\ u.last_tick_slot # NoSlot => Advancing(u)
  BY <1>1, SamePhasesFit DEF Moved, AnchorFits
<1>3. u.last_tick_slot # NoSlot => u.last_tick_slot <= now'
  BY <1>2
<1>4. room'.state = u
  BY DEF u
<1>5. QED
  BY <1>1, <1>2, <1>3, <1>4 DEF DocumentCoherent, PhasesFit

(* Every step keeps the document coherent. *)
LEMMA CoherentNext ==
  ASSUME TimeInv, [Next]_vars
  PROVE  DocumentCoherent'
<1>1. /\ PhasesFit(room.state) /\ AnchorFits(room.state)
      /\ room.state.last_tick_slot \in Int /\ now \in Nat
  <2>1. room.state \in BackendState /\ now \in Nat
    BY DEF TimeInv, RevisionInv, TypeOK
  <2>2. QED
    BY <2>1, CoherentMeans, DocumentFields DEF TimeInv
<1>2. ASSUME UNCHANGED room, now' \in {now, now + 1} PROVE DocumentCoherent'
  <2>1. room.state.last_tick_slot <= now => room.state.last_tick_slot <= now'
    BY <1>1, <1>2
  <2>2. QED
    BY <1>2, <2>1 DEF TimeInv, DocumentCoherent
<1>3. ASSUME room'.state = MakeState PROVE DocumentCoherent'
  <2>1. MakeState.last_tick_slot = NoSlot
    BY DEF MakeState
  <2>2. QED
    BY <1>3, <2>1, MakeStateFits DEF DocumentCoherent, PhasesFit, AnchorFits
<1>4. CASE CreateRoom \/ ExpireRoom
  BY <1>3, <1>4 DEF CreateRoom, ExpireRoom, NoRoom
<1>5. ASSUME NEW w \in Workers, CommitTick(w) PROVE DocumentCoherent'
  <2>. DEFINE t == Ticked(room.state, ticker[w].slot)
  <2>1. /\ room.state \in BackendState /\ ticker[w].slot \in Nat
        /\ ticker[w].slot <= now' /\ now' \in Nat
        /\ room'.state = Successor(room.state, t)
    BY <1>5, TickCommits
  <2>2. /\ t \in BackendState /\ Moved(room.state, t, ticker[w].slot)
        /\ Advancing(t) => t.last_tick_slot # NoSlot
    BY <1>1, <2>1, TickedType, TickedFits
  <2>. HIDE DEF t
  <2>3. QED
    BY <2>1, <2>2, CommitIsCoherent
<1>6. ASSUME NEW c \in Clients, CommitMessage(c) PROVE DocumentCoherent'
  <2>. DEFINE r == client[c]
              t == Mutated(room.state, r.slot, r.message)
  <2>1. /\ room.state \in BackendState /\ r.slot \in Nat /\ r.message \in Message
        /\ r.slot <= now' /\ now' \in Nat
        /\ room'.state = Successor(room.state, t)
    BY <1>6, MessageCommits
  <2>2. /\ t \in BackendState /\ Moved(room.state, t, r.slot)
        /\ Advancing(t) => t.last_tick_slot # NoSlot
    BY <1>1, <2>1, MutatedType, MutatedFits
  <2>. HIDE DEF t, r
  <2>3. QED
    BY <2>1, <2>2, CommitIsCoherent
<1>7. ASSUME NEW w \in Workers,
             TickStep(w) \/ TickFails(w) \/ Crash(w), ~CommitTick(w)
      PROVE  DocumentCoherent'
  BY <1>2, <1>7
  DEF TickStep, StartTick, AcquireLease, Reload, RefuseTick, CompleteLease,
      TickFails, Crash
<1>8. ASSUME NEW c \in Clients, ClientStep(c), ~CommitMessage(c)
      PROVE  DocumentCoherent'
  BY <1>2, <1>8
  DEF ClientStep, Connect, Disconnect, Receive, MutationStep, ReadSnapshot,
      ReadSlot, RefuseMessage
<1>9. CASE ClockTick \/ ExpireLock \/ UNCHANGED vars
  BY <1>2, <1>9 DEF ClockTick, ExpireLock, vars
<1>10. QED
  BY <1>4, <1>5, <1>6, <1>7, <1>8, <1>9 DEF Next, RedisStep

(* A document of an older version, normalized, is coherent: its countdown   *)
(* may lack the anchor, as nothing was committed over it yet.               *)
LEMMA UpgradedFits ==
  ASSUME NEW s \in UpgradedStates
  PROVE  /\ s \in BackendState /\ PhasesFit(s)
         /\ s.last_tick_slot = NoSlot /\ s.revision = 0
<1>1. PICK f \in BOOLEAN, p \in BOOLEAN, b \in BOOLEAN :
        s = NormalizeState(OlderDocument(f, f /\ p, ~f /\ b))
  BY DEF UpgradedStates
<1>. DEFINE d == DefaultMinutes * MinuteSeconds
<1>2. d \in Durations /\ d \in Nat \ {0} /\ BreakDuration \in Nat \ {0}
  BY DurationsArePositive, TimerAssumption DEF Durations
<1>3. MakeState =
        [focus |-> FALSE, paused |-> FALSE,
         pomodoro_remaining |-> d, pomodoro_duration |-> d,
         break |-> FALSE, break_remaining |-> 0,
         sessions_done |-> 0, reward_id |-> 0, revision |-> 0,
         last_tick_slot |-> NoSlot, time_override |-> FALSE]
  BY DEF MakeState
<1>. HIDE DEF d
<1>. DEFINE o == OlderDocument(f, f /\ p, ~f /\ b)
<1>4. /\ ~(o.focus /\ o.break) /\ (o.paused => o.focus)
      /\ o.pomodoro_remaining = d /\ o.pomodoro_duration = d
      /\ o.break => o.break_remaining = 2 * BreakDuration
      /\ ~o.break => o.break_remaining = 0
      /\ o.reward_id = Missing /\ o.revision = Missing
      /\ o.last_tick_slot = NoSlot
  BY <1>3 DEF OlderDocument
<1>5. o \in StoredDocument
  <2>1. \A x \in BOOLEAN, y \in BOOLEAN, z \in BOOLEAN :
          OlderDocument(x, y, z) \in StoredDocument
    <3>1. TAKE x \in BOOLEAN, y \in BOOLEAN, z \in BOOLEAN
    <3>. DEFINE q == IF z THEN 2 * BreakDuration ELSE 0
    <3>2. q \in Int
      BY <1>2
    <3>3. OlderDocument(x, y, z) =
            [MakeState EXCEPT !.focus = x, !.paused = y, !.break = z,
                              !.break_remaining = q, !.reward_id = Missing,
                              !.revision = Missing]
      BY DEF OlderDocument
    <3>. HIDE DEF q
    <3>4. QED
      BY <3>2, <3>3, MakeStateType DEF BackendState, StoredDocument
  <2>2. (f /\ p) \in BOOLEAN /\ (~f /\ b) \in BOOLEAN
    OBVIOUS
  <2>. HIDE DEF d
  <2>3. QED
    BY <2>1, <2>2
<1>6. s = NormalizeState(o)
  BY <1>1
<1>. HIDE DEF o
<1>. DEFINE left == IF o.break THEN Larger(0, Smaller(o.break_remaining, BreakDuration))
                               ELSE o.break_remaining
<1>7. (o.break => left = BreakDuration) /\ (~o.break => left = 0)
  BY <1>2, <1>4 DEF Larger, Smaller
<1>8. s = [o EXCEPT !.break_remaining = left, !.reward_id = 0, !.revision = 0]
  BY <1>4, <1>6 DEF NormalizeState, StoredDocument, Missing
<1>. HIDE DEF left
<1>9. /\ s.focus = o.focus /\ s.paused = o.paused /\ s.break = o.break
      /\ s.pomodoro_remaining = o.pomodoro_remaining
      /\ s.pomodoro_duration = o.pomodoro_duration
      /\ s.break_remaining = left /\ s.revision = 0
      /\ s.last_tick_slot = o.last_tick_slot
  BY <1>5, <1>8 DEF StoredDocument
<1>10. s \in BackendState
  <2>1. left \in Nat
    BY <1>2, <1>7
  <2>2. QED
    BY <1>5, <1>8, <2>1 DEF StoredDocument, BackendState
<1>11. PhasesFit(s)
  BY <1>2, <1>4, <1>7, <1>9 DEF PhasesFit
<1>12. QED
  BY <1>4, <1>9, <1>10, <1>11

(* So a room that an older version left behind starts well, too. *)
LEMMA UpgradeTimeInit == UpgradeInit => TimeInv
<1>1. SUFFICES ASSUME NEW s \in UpgradedStates, InitWith([instance |-> 1, state |-> s])
               PROVE  TimeInv
  BY DEF UpgradeInit
<1>2. s \in BackendState /\ PhasesFit(s) /\ s.last_tick_slot = NoSlot /\ s.revision = 0
  BY UpgradedFits
<1>3. TypeOK
  <2>1. room \in [instance : Nat, state : BackendState]
    BY <1>1, <1>2 DEF InitWith
  <2>2. lock \in TickLock
    BY <1>1 DEF InitWith, NoLock, TickLock
  <2>3. QED
    BY <1>1, <2>1, <2>2, IdleTypes, SyncAssumption DEF InitWith, NoSlot, TypeOK
<1>4. RevisionInv
  BY <1>1, <1>3
  DEF RevisionInv, GenerationsHandedOut, RevisionIdentifiesState, InitWith,
      IdleTicker, NoClient
<1>5. LeaseInv
  BY <1>1, SyncAssumption DEF InitWith, NoLock, NoSlot, LeaseInv
<1>6. DocumentCoherent
  BY <1>1, <1>2, CoherentMeans DEF InitWith, AnchorFits
<1>7. SlotsPass
  BY <1>1 DEF InitWith, IdleTicker, NoClient, SlotsPass
<1>8. QED
  BY <1>4, <1>5, <1>6, <1>7 DEF TimeInv

(* A worker keeps its part: a tick goes on to its commit when it has        *)
(* something to change, or in a second of the celestial refresh.            *)
LEMMA TickStepSlots ==
  ASSUME TimeInv, NEW w \in Workers, TickStep(w) \/ TickFails(w) \/ Crash(w)
  PROVE  SlotsPass'
<1>. DEFINE Due(t) == t.pc = "commit" => \/ TickChanges(t.base, t.slot)
                                         \/ t.slot % CelestialPeriod = 0
<1>1. UNCHANGED <<now, client>>
  BY DEF TickStep, StartTick, AcquireLease, Reload, CommitTick, RefuseTick,
         CompleteLease, TickFails, Crash
<1>2. ticker \in [Workers -> TickOfRoom] /\ ticker[w] \in TickOfRoom
  BY DEF TimeInv, RevisionInv, TypeOK
<1>3. ASSUME NEW t, SetTicker(w, t), Due(t) PROVE SlotsPass'
  <2>1. \A v \in Workers : ticker'[v] = IF v = w THEN t ELSE ticker[v]
    BY <1>2, <1>3 DEF SetTicker
  <2>2. \A v \in Workers : Due(ticker'[v])
    BY <1>3, <2>1 DEF TimeInv, SlotsPass
  <2>3. QED
    BY <1>1, <2>2 DEF TimeInv, SlotsPass
<1>4. /\ Due(IdleTicker) /\ Due([IdleTicker EXCEPT !.pc = "acquire"])
      /\ Due([IdleTicker EXCEPT !.pc = "reload", !.slot = now])
      /\ Due([ticker[w] EXCEPT !.pc = "complete"])
  BY <1>2 DEF IdleTicker, TickOfRoom
<1>5. CASE Reload(w)
  <2>. DEFINE t == [ticker[w] EXCEPT !.pc = "commit", !.instance = room.instance,
                                     !.base = room.state]
  <2>1. t.base = room.state /\ t.slot = ticker[w].slot
    BY <1>2 DEF TickOfRoom
  <2>2. \/ SetTicker(w, [ticker[w] EXCEPT !.pc = "complete"])
        \/ /\ SetTicker(w, t)
           /\ \/ TickChanges(room.state, ticker[w].slot)
              \/ \E connected \in BOOLEAN :
                   CelestialDue(room.state, ticker[w].slot, connected)
    BY <1>5 DEF Reload
  <2>. HIDE DEF t
  <2>3. CASE SetTicker(w, t) /\ TickChanges(room.state, ticker[w].slot)
    BY <1>3, <2>1, <2>3
  <2>4. CASE SetTicker(w, t) /\ ticker[w].slot % CelestialPeriod = 0
    BY <1>3, <2>1, <2>4
  <2>5. QED
    BY <1>3, <1>4, <2>2, <2>3, <2>4 DEF CelestialDue
<1>6. CASE ~Reload(w)
  <2>. HIDE DEF Due
  <2>1. QED
    BY <1>3, <1>4, <1>6
    DEF TickStep, StartTick, AcquireLease, CommitTick, RefuseTick, CompleteLease,
        TickFails, Crash
<1>7. QED
  BY <1>5, <1>6

(* A socket keeps its part: the second is read after the document.          *)
LEMMA ClientStepSlots ==
  ASSUME TimeInv, NEW c \in Clients, ClientStep(c)
  PROVE  SlotsPass'
<1>. DEFINE r == client[c]
            InOrder(n) ==
              /\ n.pc \in {"read", "slot"} => n.since <= now
              /\ n.pc = "slot" => n.base.last_tick_slot <= now
              /\ n.pc = "commit" => /\ n.base.last_tick_slot <= n.slot
                                    /\ n.since <= n.slot
                                    /\ n.slot <= now
<1>1. UNCHANGED <<now, ticker>>
  BY DEF ClientStep, Connect, Disconnect, Receive, MutationStep, ReadSnapshot,
         ReadSlot, CommitMessage, RefuseMessage
<1>2. client \in [Clients -> Socket] /\ r \in Socket /\ now \in Nat
  BY DEF TimeInv, RevisionInv, TypeOK
<1>3. InOrder(r)
  BY DEF TimeInv, SlotsPass
<1>4. ASSUME NEW n, SetClient(c, n), InOrder(n) PROVE SlotsPass'
  <2>1. \A d \in Clients : client'[d] = IF d = c THEN n ELSE client[d]
    BY <1>2, <1>4 DEF SetClient
  <2>2. \A d \in Clients : InOrder(client'[d])
    BY <1>4, <2>1 DEF TimeInv, SlotsPass
  <2>3. QED
    BY <1>1, <2>2 DEF TimeInv, SlotsPass
<1>5. InOrder(NoClient) /\ \A i : InOrder(Connected(i))
  BY DEF NoClient, Connected
<1>6. ASSUME NEW m \in Message, Receive(c, m) PROVE SlotsPass'
  <2>. DEFINE n == [r EXCEPT !.pc = "read", !.message = m, !.attempt = 1, !.since = now]
  <2>1. n.pc = "read" /\ n.since = now
    BY <1>2 DEF Socket
  <2>2. SetClient(c, n)
    BY <1>6 DEF Receive
  <2>. HIDE DEF n
  <2>3. QED
    BY <1>2, <1>4, <2>1, <2>2
<1>7. CASE ReadSnapshot(c)
  <2>. DEFINE n == [r EXCEPT !.pc = "slot", !.base = room.state]
  <2>1. n.pc = "slot" /\ n.since = r.since /\ n.base = room.state
    BY <1>2 DEF Socket
  <2>2. r.pc = "read" /\ (SetClient(c, n) \/ SetClient(c, NoClient))
    BY <1>7 DEF ReadSnapshot
  <2>. HIDE DEF n
  <2>3. room.state.last_tick_slot <= now
    <3>1. room.state \in BackendState
      BY DEF TimeInv, RevisionInv, TypeOK
    <3>2. QED
      BY <1>2, <3>1, CoherentMeans DEF TimeInv, BackendState, NoSlot
  <2>4. InOrder(n)
    BY <1>3, <2>1, <2>2, <2>3
  <2>5. QED
    BY <1>4, <1>5, <2>2, <2>4
<1>8. CASE ReadSlot(c)
  <2>. DEFINE n == [r EXCEPT !.pc = "commit", !.slot = now]
  <2>1. /\ n.pc = "commit" /\ n.since = r.since /\ n.base = r.base /\ n.slot = now
    BY <1>2 DEF Socket
  <2>2. r.pc = "slot" /\ (SetClient(c, n) \/ SetClient(c, Connected(r.bound)))
    BY <1>8 DEF ReadSlot
  <2>. HIDE DEF n
  <2>3. InOrder(n)
    BY <1>2, <1>3, <2>1, <2>2
  <2>4. QED
    BY <1>4, <1>5, <2>2, <2>3
<1>9. CASE RefuseMessage(c)
  <2>1. Retry(r).pc = "read" /\ Retry(r).since = r.since
    BY DEF Retry, Connected, NoClient
  <2>2. r.pc = "commit" /\ (SetClient(c, Retry(r)) \/ SetClient(c, NoClient))
    BY <1>9 DEF RefuseMessage
  <2>3. r.since <= now
    BY <1>2, <1>3, <2>2 DEF Socket
  <2>4. InOrder(Retry(r))
    BY <2>1, <2>3
  <2>5. QED
    BY <1>4, <1>5, <2>2, <2>4
<1>10. CASE Connect(c) \/ Disconnect(c) \/ CommitMessage(c)
  <2>1. SetClient(c, NoClient) \/ \E i : SetClient(c, Connected(i))
    BY <1>10 DEF Connect, Disconnect, CommitMessage
  <2>. HIDE DEF InOrder
  <2>2. QED
    BY <1>4, <1>5, <2>1
<1>11. QED
  BY <1>6, <1>7, <1>8, <1>9, <1>10 DEF ClientStep, MutationStep

(* Every step keeps the invariant. *)
LEMMA TimeNext ==
  ASSUME TimeInv, [Next]_vars
  PROVE  TimeInv'
<1>1. RevisionInv' /\ LeaseInv' /\ DocumentCoherent'
  BY RevisionNext, LeaseNext, CoherentNext DEF TimeInv, RevisionInv
<1>2. ASSUME UNCHANGED <<ticker, client>>, now' \in {now, now + 1} PROVE SlotsPass'
  <2>1. /\ now \in Nat
        /\ \A c \in Clients : /\ client[c].since \in Nat /\ client[c].slot \in Nat
                              /\ client[c].base.last_tick_slot \in Int
    <3>1. \A c \in Clients : client[c] \in Socket
      BY DEF TimeInv, RevisionInv, TypeOK
    <3>2. QED
      BY <3>1, DocumentFields DEF TimeInv, RevisionInv, TypeOK, Socket
  <2>2. QED
    BY <1>2, <2>1 DEF TimeInv, SlotsPass
<1>3. ASSUME RedisStep \/ UNCHANGED vars PROVE SlotsPass'
  BY <1>2, <1>3 DEF RedisStep, ClockTick, ExpireLock, CreateRoom, ExpireRoom, vars
<1>4. SlotsPass'
  BY <1>3, TickStepSlots, ClientStepSlots DEF Next
<1>5. QED
  BY <1>1, <1>4 DEF TimeInv

(* The stored document satisfies the rules of its phases at all times, and  *)
(* its anchor is set exactly while its countdown runs, whatever ticks,      *)
(* messages, retries and generations do.                                    *)
THEOREM DocumentsAreCoherent == Spec \/ UpgradeSpec => []DocumentCoherent
<1>1. TimeInv => DocumentCoherent
  BY DEF TimeInv
<1>2. QED
  BY <1>1, TimeInit, UpgradeTimeInit, TimeNext, PTL DEF Spec, UpgradeSpec

(* The rest of what the readers and writers of a room rely on holds of such *)
(* a room, too: revisions identify states, no update is lost, and no second *)
(* is ticked twice.                                                         *)
THEOREM UpgradedRoomsKeepUpdates ==
  UpgradeSpec => /\ []RevisionIdentifiesState
                 /\ NoLostUpdate
                 /\ TickSecondsIncrease
<1>1. TimeInv => RevisionInv /\ TypeOK /\ LeaseInv /\ RevisionIdentifiesState
  BY DEF TimeInv, RevisionInv
<1>2. TimeInv /\ [Next]_vars => [ExactSuccessor]_vars
  BY <1>1, CommitsAreExact
<1>3. TimeInv /\ [Next]_vars => [LaterTick]_vars
  BY <1>1, TicksGoForward
<1>4. QED
  BY <1>1, <1>2, <1>3, UpgradeTimeInit, TimeNext, PTL
  DEF UpgradeSpec, NoLostUpdate, TickSecondsIncrease

-----------------------------------------------------------------------------
(***************************************************************************)
(* A gap is its ticks one by one.  The ticks are a recursive function of   *)
(* their number; the induction over it goes by least counterexample.       *)
(***************************************************************************)

(* Every set of numbers has a least one.                                    *)
LEMMA LeastNatural ==
  ASSUME NEW T \in SUBSET Nat, T # {}
  PROVE  \E x \in T : \A y \in T : ~(y < x)
<1>1. PICK x \in T : \A y \in T : ~(<<y, x>> \in OpToRel(<, Nat))
  BY NatLessThanWellFounded, WFMin
<1>2. \A y \in T : y < x => <<y, x>> \in OpToRel(<, Nat)
  BY DEF OpToRel
<1>3. QED
  BY <1>1, <1>2

(* The function that ticks a document is well defined: the catch-ups of     *)
(* advance_timer_state are one.                                             *)
LEMMA TicksAreDefined ==
  ASSUME NEW s \in BackendState
  PROVE  Ticks(s) = [n \in Nat |->
                       IF n = 0 THEN s ELSE AdvanceTimer(Ticks(s)[n - 1], 1)]
<1>. DEFINE TickedOnce(f) ==
              [n \in Nat |-> IF n = 0 THEN s ELSE AdvanceTimer(f[n - 1], 1)]
            catchUp == [n \in Nat |-> AdvanceTimer(s, n)]
<1>1. catchUp = TickedOnce(catchUp)
  <2>1. ASSUME NEW n \in Nat
        PROVE  catchUp[n] = IF n = 0 THEN s ELSE AdvanceTimer(catchUp[n - 1], 1)
    <3>1. CASE n = 0
      BY <3>1, AdvanceNothing
    <3>2. CASE n # 0
      <4>1. n - 1 \in Nat /\ n - 1 + 1 = n
        BY <3>2
      <4>2. AdvanceTimer(AdvanceTimer(s, n - 1), 1) = AdvanceTimer(s, n - 1 + 1)
        BY <4>1, CatchUpIsAdditive
      <4>3. QED
        BY <3>2, <4>1, <4>2
    <3>3. QED
      BY <3>1, <3>2
  <2>2. QED
    BY <2>1
<1>2. \E f : f = TickedOnce(f)
  BY <1>1
<1>. HIDE DEF catchUp
<1>3. Ticks(s) = CHOOSE f : f = TickedOnce(f)
  BY DEF Ticks
<1>4. QED
  BY <1>2, <1>3

(* A catch-up of n seconds is n ticks, for every document and every n.      *)
THEOREM CatchUpIsItsTicks ==
  ASSUME NEW s \in BackendState, NEW n \in Nat
  PROVE  AdvanceTimer(s, n) = Ticks(s)[n]
<1>. DEFINE wrong == {k \in Nat : AdvanceTimer(s, k) # Ticks(s)[k]}
<1>1. SUFFICES wrong = {}
  OBVIOUS
<1>2. SUFFICES ASSUME wrong # {} PROVE FALSE
  OBVIOUS
<1>3. PICK k \in wrong : \A m \in wrong : ~(m < k)
  <2>1. wrong \in SUBSET Nat
    OBVIOUS
  <2>. HIDE DEF wrong
  <2>2. QED
    BY <1>2, <2>1, LeastNatural
<1>4. Ticks(s)[k] = IF k = 0 THEN s ELSE AdvanceTimer(Ticks(s)[k - 1], 1)
  BY <1>3, TicksAreDefined
<1>5. CASE k = 0
  BY <1>3, <1>4, <1>5, AdvanceNothing
<1>6. CASE k # 0
  <2>1. k - 1 \in Nat /\ k - 1 + 1 = k /\ k - 1 < k
    BY <1>3, <1>6
  <2>2. AdvanceTimer(s, k - 1) = Ticks(s)[k - 1]
    BY <1>3, <2>1
  <2>3. AdvanceTimer(AdvanceTimer(s, k - 1), 1) = AdvanceTimer(s, k - 1 + 1)
    BY <2>1, CatchUpIsAdditive
  <2>4. QED
    BY <1>3, <1>4, <1>6, <2>1, <2>2, <2>3
<1>7. QED
  BY <1>5, <1>6

(* In every reachable state, also of a room that an older version left      *)
(* behind, the document is coherent and the catch-up that the next tick or  *)
(* message applies to it is what its seconds would have done one by one.    *)
THEOREM ReducersAreSound == Spec \/ UpgradeSpec => []ReducerIsSound
<1>1. TimeInv => ReducerIsSound
  <2>1. SUFFICES ASSUME TimeInv PROVE ReducerIsSound
    OBVIOUS
  <2>2. DocumentCoherent
    BY <2>1 DEF TimeInv
  <2>3. room.state \in BackendState
    BY <2>1 DEF TimeInv, RevisionInv, TypeOK
  <2>4. 0..Horizon \subseteq Nat
    OBVIOUS
  <2>5. CatchUpIsTickByTick
    BY <2>3, <2>4, CatchUpIsItsTicks DEF CatchUpIsTickByTick
  <2>6. QED
    BY <2>2, <2>5 DEF ReducerIsSound
<1>2. QED
  BY <1>1, TimeInit, UpgradeTimeInit, TimeNext, PTL DEF Spec, UpgradeSpec

-----------------------------------------------------------------------------
(***************************************************************************)
(* What a step may do to the reward and to the end of the cycle.           *)
(***************************************************************************)

\* The steps that change the document within a generation.
Commits ==
  \/ \E w \in Workers : CommitTick(w)
  \/ \E c \in Clients : CommitMessage(c)

(* Within a generation only commits change the document. *)
LEMMA OnlyCommits ==
  ASSUME TimeInv, [Next]_vars, room' # room, room'.instance = room.instance
  PROVE  Commits
<1>1. CASE CreateRoom
  <2>1. room'.instance # 0 /\ room.instance = 0
    BY <1>1 DEF CreateRoom, RoomExists, TimeInv, RevisionInv, TypeOK
  <2>2. QED
    BY <2>1
<1>2. CASE ExpireRoom
  BY <1>2 DEF ExpireRoom, NoRoom, RoomExists
<1>3. CASE ClockTick \/ ExpireLock \/ UNCHANGED vars
  BY <1>3 DEF ClockTick, ExpireLock, vars
<1>4. ASSUME NEW w \in Workers, TickStep(w) \/ TickFails(w) \/ Crash(w)
      PROVE  CommitTick(w)
  BY <1>4
  DEF TickStep, StartTick, AcquireLease, Reload, RefuseTick, CompleteLease,
      TickFails, Crash
<1>5. ASSUME NEW c \in Clients, ClientStep(c) PROVE CommitMessage(c)
  BY <1>5
  DEF ClientStep, Connect, Disconnect, Receive, MutationStep, ReadSnapshot,
      ReadSlot, RefuseMessage
<1>6. QED
  BY <1>1, <1>2, <1>3, <1>4, <1>5 DEF Next, RedisStep, Commits

(* The document that the commits start from. *)
LEMMA CommittedOver ==
  ASSUME TimeInv
  PROVE  /\ room.state \in BackendState /\ now \in Nat
         /\ PhasesFit(room.state) /\ AnchorFits(room.state)
         /\ room.state.last_tick_slot \in Int
         /\ room.state.pomodoro_remaining \in Nat
         /\ TimeLeft(room.state) \in Nat
<1>1. room.state \in BackendState /\ now \in Nat
  BY DEF TimeInv, RevisionInv, TypeOK
<1>2. QED
  BY <1>1, CoherentMeans, DocumentFields DEF TimeInv, TimeLeft

\* What RewardIsEarned says of a step.
Earned ==
  room'.instance = room.instance /\ room'.state.reward_id # room.state.reward_id =>
    /\ room'.state.reward_id = room.state.reward_id + 1
    /\ room'.state.sessions_done = room.state.sessions_done + 1
    /\ Running(room.state)
    /\ room.state.last_tick_slot # NoSlot =>
         room.state.last_tick_slot + room.state.pomodoro_remaining <= now

(* A commit of a second that has come earns what it mints. *)
LEMMA CommitEarns ==
  ASSUME TimeInv, NEW t \in BackendState, NEW slot \in Nat, slot <= now,
         Moved(room.state, t, slot), room'.state = Successor(room.state, t)
  PROVE  Earned
<1>1. SamePhases(t, room'.state)
  BY CommittedOver, SuccessorFits
<1>2. QED
  BY <1>1, CommittedOver DEF Moved, SamePhases, Earned

(* No other step mints one. *)
LEMMA StepsEarn ==
  ASSUME TimeInv, [Next]_vars
  PROVE  Earned
<1>1. ASSUME NEW w \in Workers, CommitTick(w) PROVE Earned
  <2>. DEFINE t == Ticked(room.state, ticker[w].slot)
  <2>1. /\ ticker[w].slot \in Nat /\ ticker[w].slot <= now
        /\ room'.state = Successor(room.state, t)
    BY <1>1, TickCommits
  <2>2. t \in BackendState /\ Moved(room.state, t, ticker[w].slot)
    BY <2>1, CommittedOver, TickedType, TickedFits
  <2>. HIDE DEF t
  <2>3. QED
    BY <2>1, <2>2, CommitEarns
<1>2. ASSUME NEW c \in Clients, CommitMessage(c) PROVE Earned
  <2>. DEFINE r == client[c]
              t == Mutated(room.state, r.slot, r.message)
  <2>1. /\ r.slot \in Nat /\ r.message \in Message /\ r.slot <= now
        /\ room'.state = Successor(room.state, t)
    BY <1>2, MessageCommits
  <2>2. t \in BackendState /\ Moved(room.state, t, r.slot)
    BY <2>1, CommittedOver, MutatedType, MutatedFits
  <2>. HIDE DEF t, r
  <2>3. QED
    BY <2>1, <2>2, CommitEarns
<1>3. QED
  BY <1>1, <1>2, OnlyCommits DEF Commits, Earned

(* A reward is minted one at a time, from a running focus only, and never   *)
(* before the focus has run its time.                                       *)
THEOREM RewardsAreEarned == Spec \/ UpgradeSpec => RewardIsEarned
<1>1. TimeInv /\ [Next]_vars => [Earned]_vars
  BY StepsEarn
<1>2. QED
  BY <1>1, TimeInit, UpgradeTimeInit, TimeNext, PTL
  DEF Spec, UpgradeSpec, RewardIsEarned, Earned

\* What TickAccountsForTime says of a step.
AccountsForTime ==
  \A w \in Workers : CommitTick(w) =>
    IF ticker[w].slot >= room.state.last_tick_slot
    THEN KeepsDeadline(room.state, room'.state)
    ELSE /\ ticker[w].slot % CelestialPeriod = 0
         /\ SameCountdown(room.state, room'.state)

(* A commit whose second is not behind the anchor keeps the deadline. *)
LEMMA CommitKeepsDeadline ==
  ASSUME TimeInv, NEW t \in BackendState, NEW slot \in Nat, slot <= now,
         InTime(room.state, t, slot), room.state.last_tick_slot <= slot,
         room'.state = Successor(room.state, t)
  PROVE  KeepsDeadline(room.state, room'.state)
<1>1. /\ SamePhases(t, room'.state)
      /\ room'.state.last_tick_slot = t.last_tick_slot
  BY CommittedOver, SuccessorFits
<1>2. /\ Advancing(room'.state) <=> Advancing(t)
      /\ Deadline(room'.state) = Deadline(t)
  BY <1>1, SamePhasesFit DEF Deadline
<1>3. Deadline(room.state) \in Int
  BY CommittedOver DEF Deadline
<1>4. QED
  BY <1>2, <1>3, CommittedOver DEF InTime, KeepsDeadline

(* A tick whose second the document has left behind changes nothing. *)
LEMMA OvertakenTick ==
  ASSUME NEW s \in BackendState, NEW slot \in Nat, slot < s.last_tick_slot
  PROVE  /\ ~TickChanges(s, slot)
         /\ SameCountdown(s, Successor(s, Ticked(s, slot)))
<1>1. s.last_tick_slot \in Nat /\ s.last_tick_slot # NoSlot
  BY DEF BackendState, NoSlot
<1>2. Elapsed(s, slot) = 0
  BY <1>1 DEF Elapsed, Larger
<1>3. AdvanceTimer(s, Elapsed(s, slot)) = s
  BY <1>2, AdvanceNothing
<1>4. Ticked(s, slot) \in {s, Anchored(s, slot)}
  BY <1>3 DEF Ticked
<1>5. /\ SameCountdown(s, Successor(s, s))
      /\ SameCountdown(s, Successor(s, Anchored(s, slot)))
  BY DEF SameCountdown, Successor, Anchored, BackendState
<1>6. QED
  BY <1>3, <1>4, <1>5 DEF TickChanges

(* So every tick accounts for time. *)
LEMMA TicksAccount ==
  ASSUME TimeInv, [Next]_vars
  PROVE  AccountsForTime
<1>1. SUFFICES ASSUME NEW w \in Workers, CommitTick(w)
               PROVE  IF ticker[w].slot >= room.state.last_tick_slot
                      THEN KeepsDeadline(room.state, room'.state)
                      ELSE /\ ticker[w].slot % CelestialPeriod = 0
                           /\ SameCountdown(room.state, room'.state)
  BY DEF AccountsForTime
<1>. DEFINE slot == ticker[w].slot
            t == Ticked(room.state, slot)
<1>2. /\ slot \in Nat /\ slot <= now
      /\ ticker[w].pc = "commit" /\ ticker[w].base = room.state
      /\ room'.state = Successor(room.state, t)
  BY <1>1, TickCommits
<1>3. t \in BackendState /\ InTime(room.state, t, slot)
  BY <1>2, CommittedOver, TickedType, TickedFits
<1>4. CASE room.state.last_tick_slot <= slot
  <2>. HIDE DEF t
  <2>1. KeepsDeadline(room.state, room'.state)
    BY <1>2, <1>3, <1>4, CommitKeepsDeadline
  <2>2. slot >= room.state.last_tick_slot
    BY <1>2, <1>4, CommittedOver
  <2>3. QED
    BY <2>1, <2>2
<1>5. CASE ~(room.state.last_tick_slot <= slot)
  <2>1. slot < room.state.last_tick_slot /\ ~(slot >= room.state.last_tick_slot)
    BY <1>2, <1>5, CommittedOver
  <2>2. ~TickChanges(room.state, slot) /\ SameCountdown(room.state, room'.state)
    BY <1>2, <2>1, CommittedOver, OvertakenTick
  <2>3. slot % CelestialPeriod = 0
    BY <1>2, <2>2 DEF TimeInv, SlotsPass
  <2>4. QED
    BY <2>1, <2>2, <2>3
<1>6. QED
  BY <1>4, <1>5

(* A tick accounts for time and for nothing else; one that was overtaken by *)
(* a message commits in a refresh second or not at all, and leaves the      *)
(* countdown as the message left it.                                        *)
THEOREM TicksAccountForTime == Spec \/ UpgradeSpec => TickAccountsForTime
<1>1. TimeInv /\ [Next]_vars => [AccountsForTime]_vars
  BY TicksAccount
<1>2. QED
  BY <1>1, TimeInit, UpgradeTimeInit, TimeNext, PTL
  DEF Spec, UpgradeSpec, TickAccountsForTime, AccountsForTime

\* What BystanderKeepsDeadline and PauseIsPrompt say of a step.
BystandersKeep ==
  \A c \in Clients :
    CommitMessage(c)
      /\ client[c].message.type \in {"location", "time_override", "unknown"}
      => KeepsDeadline(room.state, room'.state)

PausesPromptly ==
  \A c \in Clients :
    CommitMessage(c) /\ room'.state.paused /\ ~room.state.paused
      /\ room.state.last_tick_slot # NoSlot =>
        room.state.last_tick_slot + room.state.pomodoro_remaining
          - room'.state.pomodoro_remaining \in client[c].since..now

(* And every message does. *)
LEMMA MessagesKeepTime ==
  ASSUME TimeInv, [Next]_vars
  PROVE  BystandersKeep /\ PausesPromptly
<1>1. SUFFICES
        ASSUME NEW c \in Clients, CommitMessage(c)
        PROVE  /\ Bystander(client[c].message) => KeepsDeadline(room.state, room'.state)
               /\ room'.state.paused /\ ~room.state.paused
                    /\ room.state.last_tick_slot # NoSlot =>
                      room.state.last_tick_slot + room.state.pomodoro_remaining
                        - room'.state.pomodoro_remaining \in client[c].since..now
  BY DEF BystandersKeep, PausesPromptly, Bystander
<1>. DEFINE r == client[c]
            t == Mutated(room.state, r.slot, r.message)
<1>2. /\ r.slot \in Nat /\ r.message \in Message
      /\ room.state.last_tick_slot <= r.slot /\ r.slot <= now
      /\ r.since \in Nat /\ r.since <= r.slot
      /\ room'.state = Successor(room.state, t)
  BY <1>1, MessageCommits
<1>3. /\ t \in BackendState
      /\ Bystander(r.message) => InTime(room.state, t, r.slot)
      /\ t.paused /\ ~room.state.paused
           /\ room.state.last_tick_slot # NoSlot /\ room.state.last_tick_slot <= r.slot =>
             room.state.last_tick_slot + room.state.pomodoro_remaining
               - t.pomodoro_remaining = r.slot
  BY <1>2, CommittedOver, MutatedType, MutatedFits
<1>. HIDE DEF t
<1>4. Bystander(r.message) => KeepsDeadline(room.state, room'.state)
  BY <1>2, <1>3, CommitKeepsDeadline
<1>5. SamePhases(t, room'.state)
  BY <1>2, <1>3, CommittedOver, SuccessorFits
<1>6. QED
  BY <1>2, <1>3, <1>4, <1>5, CommittedOver DEF SamePhases

(* A message that is not about the timer does not move the end of the cycle.*)
THEOREM BystandersKeepDeadline == Spec \/ UpgradeSpec => BystanderKeepsDeadline
<1>1. TimeInv /\ [Next]_vars => [BystandersKeep]_vars
  BY MessagesKeepTime
<1>2. QED
  BY <1>1, TimeInit, UpgradeTimeInit, TimeNext, PTL
  DEF Spec, UpgradeSpec, BystanderKeepsDeadline, BystandersKeep

(* A pause freezes the focus at a second between the receipt of the message *)
(* and its commit, however often the commit was retried.                    *)
THEOREM PausesArePrompt == Spec \/ UpgradeSpec => PauseIsPrompt
<1>1. TimeInv /\ [Next]_vars => [PausesPromptly]_vars
  BY MessagesKeepTime
<1>2. QED
  BY <1>1, TimeInit, UpgradeTimeInit, TimeNext, PTL
  DEF Spec, UpgradeSpec, PauseIsPrompt, PausesPromptly
-----------------------------------------------------------------------------
(***************************************************************************)
(* The refinement.  A cycle as RoomCycle has it.                           *)
(***************************************************************************)
Seen ==
  [generation : Nat, phase : {"idle", "focus", "paused", "break"}, deadline : Int,
   left : Nat, duration : Nat, rewards : Nat]

(***************************************************************************)
(* What people see of a document, as one cycle of RoomCycle.               *)
(***************************************************************************)
View(g, s) ==
  [generation |-> g, phase |-> PhaseOf(s), deadline |-> DeadlineOf(s),
   left |-> IF s.paused THEN s.pomodoro_remaining ELSE 0,
   duration |-> s.pomodoro_duration, rewards |-> s.reward_id]

(* Two cycles with the same fields are one. *)
LEMMA SeenAlike ==
  ASSUME NEW a \in Seen, NEW b \in Seen,
         a.generation = b.generation, a.phase = b.phase, a.deadline = b.deadline,
         a.left = b.left, a.duration = b.duration, a.rewards = b.rewards
  PROVE  a = b
BY DEF Seen

(* The phases exclude each other, and each has its own countdown. *)
LEMMA PhaseIs ==
  ASSUME NEW s \in BackendState, PhasesFit(s)
  PROVE  /\ PhaseOf(s) = IF s.break THEN "break" ELSE IF s.paused THEN "paused"
                         ELSE IF s.focus THEN "focus" ELSE "idle"
         /\ DeadlineOf(s) = IF s.break THEN s.last_tick_slot + s.break_remaining
                            ELSE IF s.focus /\ ~s.paused
                                 THEN s.last_tick_slot + s.pomodoro_remaining ELSE 0
<1> DEFINE d == s.last_tick_slot + s.break_remaining
           e == s.last_tick_slot + s.pomodoro_remaining
<1>1. ~(s.focus /\ s.break) /\ (s.paused => s.focus)
  BY DEF PhasesFit
<1> HIDE DEF d, e
<1>2. CASE s.break
  <2>1. ~s.focus /\ ~s.paused /\ ~Running(s)
    BY <1>1, <1>2 DEF Running
  <2>2. PhaseOf(s) = "break"
    BY <1>2, <2>1, Zenon DEF PhaseOf
  <2>3. DeadlineOf(s) = d
    BY <1>2, <2>1, Zenon DEF DeadlineOf, d
  <2> QED
    BY <1>2, <2>2, <2>3 DEF d
<1>3. CASE s.paused
  <2>1. s.focus /\ ~s.break /\ ~Running(s)
    BY <1>1, <1>3 DEF Running
  <2>2. PhaseOf(s) = "paused"
    BY <1>3, <2>1, Zenon DEF PhaseOf
  <2>3. DeadlineOf(s) = 0
    BY <1>3, <2>1, Zenon DEF DeadlineOf
  <2> QED
    BY <1>3, <2>1, <2>2, <2>3
<1>4. CASE s.focus /\ ~s.paused
  <2>1. s.focus /\ ~s.break /\ ~s.paused /\ Running(s)
    BY <1>1, <1>4 DEF Running
  <2>2. PhaseOf(s) = "focus"
    BY <2>1, Zenon DEF PhaseOf
  <2>3. DeadlineOf(s) = e
    BY <2>1, Zenon DEF DeadlineOf, e
  <2> QED
    BY <2>1, <2>2, <2>3 DEF e
<1>5. CASE ~s.focus /\ ~s.break
  <2>1. ~s.paused /\ ~Running(s)
    BY <1>1, <1>5 DEF Running
  <2>2. PhaseOf(s) = "idle"
    BY <1>5, <2>1, Zenon DEF PhaseOf
  <2>3. DeadlineOf(s) = 0
    BY <1>5, <2>1, Zenon DEF DeadlineOf
  <2> QED
    BY <1>5, <2>1, <2>2, <2>3
<1> QED
  BY <1>2, <1>3, <1>4, <1>5

(* The fields of what is seen. *)
LEMMA ViewIs ==
  ASSUME NEW s \in BackendState, PhasesFit(s), NEW g \in Nat
  PROVE  LET v == View(g, s)
         IN  /\ v \in Seen
             /\ v.generation = g
             /\ v.duration = s.pomodoro_duration /\ v.rewards = s.reward_id
             /\ v.phase = IF s.break THEN "break" ELSE IF s.paused THEN "paused"
                          ELSE IF s.focus THEN "focus" ELSE "idle"
             /\ v.deadline = IF s.break THEN s.last_tick_slot + s.break_remaining
                             ELSE IF s.focus /\ ~s.paused
                                  THEN s.last_tick_slot + s.pomodoro_remaining ELSE 0
             /\ v.left = IF s.paused THEN s.pomodoro_remaining ELSE 0
<1>1. /\ s.pomodoro_remaining \in Nat /\ s.break_remaining \in Nat
      /\ s.pomodoro_duration \in Nat /\ s.reward_id \in Nat
      /\ s.last_tick_slot \in Int
  BY DocumentFields
<1>2. DeadlineOf(s) \in Int /\ PhaseOf(s) \in {"idle", "focus", "paused", "break"}
  BY <1>1, PhaseIs
<1>3. View(g, s) \in Seen
  BY <1>1, <1>2 DEF View, Seen
<1> QED
  BY <1>3, PhaseIs DEF View

(* The break phase keeps the durations. *)
LEMMA DurationKept ==
  ASSUME NEW s \in BackendState, NEW n \in Nat
  PROVE  BreakPhase(s, n).pomodoro_duration = s.pomodoro_duration
<1>1. [s EXCEPT !.break_remaining = @ - n].pomodoro_duration = s.pomodoro_duration
  BY DEF BackendState
<1>2. [s EXCEPT !.break = FALSE, !.break_remaining = 0].pomodoro_duration
        = s.pomodoro_duration
  BY DEF BackendState
<1> QED
  BY <1>1, <1>2, Zenon DEF BreakPhase

(* A cycle at rest, field by field. *)
LEMMA Rested ==
  ASSUME NEW c \in Seen
  PROVE  LET r == Cycle!Resting(c)
         IN  /\ r \in Seen /\ r.phase = "idle" /\ r.deadline = 0 /\ r.left = 0
             /\ r.generation = c.generation /\ r.duration = c.duration
             /\ r.rewards = c.rewards
<1> DEFINE r == [c EXCEPT !.phase = "idle", !.deadline = 0, !.left = 0]
<1>1. 0 \in Int /\ 0 \in Nat
  OBVIOUS
<1>2. r \in Seen
  BY <1>1 DEF Seen
<1>3. /\ r.phase = "idle" /\ r.deadline = 0 /\ r.left = 0
      /\ r.generation = c.generation /\ r.duration = c.duration
      /\ r.rewards = c.rewards
  BY DEF Seen
<1> QED
  BY <1>2, <1>3 DEF Cycle!Resting

(* A focus until a second. *)
LEMMA FocusedUntil ==
  ASSUME NEW c \in Seen, NEW x \in Int
  PROVE  LET r == Cycle!FocusUntil(c, x)
         IN  /\ r \in Seen /\ r.phase = "focus" /\ r.deadline = x /\ r.left = 0
             /\ r.generation = c.generation /\ r.duration = c.duration
             /\ r.rewards = c.rewards
<1> DEFINE r == [c EXCEPT !.phase = "focus", !.deadline = x, !.left = 0]
<1>1. 0 \in Int /\ 0 \in Nat
  OBVIOUS
<1>2. r \in Seen
  BY <1>1 DEF Seen
<1>3. /\ r.phase = "focus" /\ r.deadline = x /\ r.left = 0
      /\ r.generation = c.generation /\ r.duration = c.duration
      /\ r.rewards = c.rewards
  BY DEF Seen
<1> QED
  BY <1>2, <1>3 DEF Cycle!FocusUntil

(* A focus whose deadline has come earns its reward and starts its break. *)
LEMMA FocusEnded ==
  ASSUME NEW c \in Seen, NEW x \in Int, c.phase = "focus", x >= c.deadline
  PROVE  LET r == Cycle!EndFocus(c, x)
         IN  /\ r \in Seen /\ r.phase = "break"
             /\ r.deadline = c.deadline + BreakDuration /\ r.left = c.left
             /\ r.generation = c.generation /\ r.duration = c.duration
             /\ r.rewards = c.rewards + 1
<1>1. /\ c.deadline \in Int /\ c.rewards \in Nat /\ BreakDuration \in Nat
  BY TimerAssumption DEF Seen
<1>2. c.deadline + BreakDuration \in Int /\ c.rewards + 1 \in Nat
  BY <1>1
<1>3. Cycle!EndFocus(c, x) =
        [c EXCEPT !.phase = "break", !.deadline = c.deadline + BreakDuration,
                  !.rewards = c.rewards + 1]
  BY DEF Cycle!EndFocus
<1> QED
  BY <1>2, <1>3 DEF Seen

(* A break that a catch-up of n seconds continues at second a. *)
LEMMA BreakIsUntil ==
  ASSUME NEW s \in BackendState, PhasesFit(s), s.break, NEW n \in Nat,
         NEW a \in Nat, NEW slot \in Nat, a + n = slot, NEW g \in Nat,
         NEW c \in Seen, c.phase = "break", c.deadline = a + s.break_remaining,
         c.left = 0, c.generation = g, c.duration = s.pomodoro_duration,
         c.rewards = s.reward_id
  PROVE  View(g, Anchored(BreakPhase(s, n), slot)) = Cycle!EndBreak(c, slot)
<1> DEFINE b == BreakPhase(s, n)
           t == Anchored(b, slot)
<1>1. b \in BackendState /\ b.break_remaining \in Nat /\ s.break_remaining \in Nat
  BY BreakPhaseType, DocumentFields
<1>2. /\ PhasesFit(b) /\ ~b.focus /\ ~b.paused /\ b.reward_id = s.reward_id
      /\ b.pomodoro_duration = s.pomodoro_duration
      /\ IF b.break THEN b.break_remaining = s.break_remaining - n
                    ELSE s.break_remaining <= n
  BY BreakPhaseFits, DurationKept
<1>3. b.break => b.break_remaining > 0
  BY <1>2 DEF PhasesFit
<1> HIDE DEF b
<1>4. t \in BackendState
  BY <1>1, AnchoredType
<1>5. SamePhases(b, t) /\ t.last_tick_slot = IF b.break THEN slot ELSE NoSlot
  BY <1>1, <1>2, AnchoredFits DEF Advancing, Running
<1>6. PhasesFit(t)
  BY <1>2, <1>5, SamePhasesFit
<1> HIDE DEF t
<1>7. /\ ~t.focus /\ ~t.paused /\ t.reward_id = s.reward_id
      /\ t.pomodoro_duration = s.pomodoro_duration /\ (t.break <=> b.break)
      /\ t.break_remaining = b.break_remaining
  BY <1>2, <1>5 DEF SamePhases
<1> DEFINE v == View(g, t)
<1>8. /\ v \in Seen /\ v.generation = g /\ v.duration = s.pomodoro_duration
      /\ v.rewards = s.reward_id /\ v.left = 0
      /\ v.phase = IF t.break THEN "break" ELSE "idle"
      /\ v.deadline = IF t.break THEN t.last_tick_slot + t.break_remaining ELSE 0
  BY <1>4, <1>6, <1>7, ViewIs
<1> HIDE DEF v
<1>9. CASE b.break
  <2>1. v.deadline = c.deadline /\ ~(slot >= c.deadline)
    BY <1>1, <1>2, <1>3, <1>5, <1>7, <1>8, <1>9
  <2>2. Cycle!EndBreak(c, slot) = c
    BY <2>1 DEF Cycle!EndBreak
  <2> QED
    BY <1>7, <1>8, <1>9, <2>1, <2>2, SeenAlike DEF v, t, b
<1>10. CASE ~b.break
  <2>1. slot >= c.deadline
    BY <1>1, <1>2, <1>10
  <2>2. Cycle!EndBreak(c, slot) = Cycle!Resting(c)
    BY <2>1 DEF Cycle!EndBreak
  <2>3. v.phase = "idle" /\ v.deadline = 0
    BY <1>7, <1>8, <1>10
  <2>4. v = Cycle!Resting(c)
    BY <1>8, <2>3, Rested, SeenAlike
  <2> QED
    BY <2>2, <2>4 DEF v, t, b
<1> QED
  BY <1>9, <1>10

(* A focus that is not over goes on. *)
LEMMA FocusIsUntil ==
  ASSUME NEW s \in BackendState, PhasesFit(s), Running(s), NEW slot \in Nat,
         s.last_tick_slot # NoSlot, s.last_tick_slot <= slot,
         slot - s.last_tick_slot < s.pomodoro_remaining, NEW g \in Nat
  PROVE  View(g, Anchored(AdvanceTimer(s, slot - s.last_tick_slot), slot)) = View(g, s)
<1> DEFINE n == slot - s.last_tick_slot
           u == AdvanceTimer(s, n)
           t == Anchored(u, slot)
<1>1. /\ s.pomodoro_remaining \in Nat /\ s.last_tick_slot \in Nat /\ n \in Nat
      /\ s.focus /\ ~s.paused /\ ~s.break
  BY DocumentFields DEF NoSlot, PhasesFit, Running
<1>2. n < s.pomodoro_remaining /\ s.last_tick_slot + n = slot
  BY <1>1
<1> HIDE DEF n
<1>3. /\ u \in BackendState /\ u.focus /\ ~u.paused /\ ~u.break
      /\ u.pomodoro_remaining = s.pomodoro_remaining - n
      /\ u.pomodoro_duration = s.pomodoro_duration /\ u.reward_id = s.reward_id
      /\ u.break_remaining = s.break_remaining
  <2>0. u \in BackendState
    BY <1>1, AdvanceTimerType
  <2>1. CASE n = 0
    <3>1. u = s
      BY <2>1, AdvanceNothing
    <3> QED
      BY <1>1, <2>0, <2>1, <3>1
  <2>2. CASE n # 0
    <3>1. u = [s EXCEPT !.pomodoro_remaining = @ - n]
      BY <1>1, <1>2, <2>2, AdvanceWithin
    <3> HIDE DEF u
    <3> QED
      BY <1>1, <2>0, <3>1 DEF BackendState
  <2> QED
    BY <2>1, <2>2
<1> HIDE DEF u
<1>4. /\ t \in BackendState /\ SamePhases(u, t) /\ t.last_tick_slot = slot
  BY <1>3, AnchoredType, AnchoredFits DEF Advancing, Running
<1>5. PhasesFit(s) /\ s.pomodoro_remaining - n > 0 /\ s.break_remaining = 0
  BY <1>1, <1>2 DEF PhasesFit
<1> HIDE DEF t
<1>6. /\ t.focus /\ ~t.paused /\ ~t.break
      /\ t.pomodoro_remaining = s.pomodoro_remaining - n
      /\ t.pomodoro_duration = s.pomodoro_duration /\ t.reward_id = s.reward_id
      /\ t.break_remaining = 0
  BY <1>3, <1>4, <1>5 DEF SamePhases
<1>7. PhasesFit(t)
  BY <1>5, <1>6 DEF PhasesFit
<1> DEFINE v == View(g, s)
           x == View(g, t)
<1>8. /\ v \in Seen /\ v.generation = g /\ v.duration = s.pomodoro_duration
      /\ v.rewards = s.reward_id /\ v.left = 0 /\ v.phase = "focus"
      /\ v.deadline = s.last_tick_slot + s.pomodoro_remaining
  BY <1>1, ViewIs
<1>9. /\ x \in Seen /\ x.generation = g /\ x.duration = t.pomodoro_duration
      /\ x.rewards = t.reward_id /\ x.left = 0 /\ x.phase = "focus"
      /\ x.deadline = t.last_tick_slot + t.pomodoro_remaining
  BY <1>4, <1>6, <1>7, ViewIs
<1> HIDE DEF v, x
<1>10. x.deadline = v.deadline
  BY <1>1, <1>2, <1>4, <1>6, <1>8, <1>9
<1>11. x = v
  BY <1>6, <1>8, <1>9, <1>10, SeenAlike
<1> QED
  BY <1>11 DEF x, v, t, u, n

(* A catch-up to a second is what RoomCycle says of that second. *)
LEMMA CatchUpIsUntil ==
  ASSUME NEW s \in BackendState, PhasesFit(s), Advancing(s), NEW slot \in Nat,
         s.last_tick_slot # NoSlot, s.last_tick_slot <= slot, NEW g \in Nat
  PROVE  View(g, Anchored(AdvanceTimer(s, slot - s.last_tick_slot), slot))
           = Cycle!Until(View(g, s), slot)
<1> DEFINE n == slot - s.last_tick_slot
           v == View(g, s)
<1>1. /\ s.pomodoro_remaining \in Nat /\ s.break_remaining \in Nat
      /\ s.last_tick_slot \in Nat /\ n \in Nat /\ s.last_tick_slot + n = slot
  BY DocumentFields DEF NoSlot
<1> HIDE DEF n
<1>2. CASE s.break
  <2>1. ~Running(s) /\ ~s.focus /\ ~s.paused
    BY <1>2 DEF PhasesFit, Running
  <2>2. AdvanceTimer(s, n) = BreakPhase(s, n)
    BY <1>1, <2>1, AdvanceIdle
  <2>3. /\ v \in Seen /\ v.generation = g /\ v.duration = s.pomodoro_duration
        /\ v.rewards = s.reward_id /\ v.left = 0 /\ v.phase = "break"
        /\ v.deadline = s.last_tick_slot + s.break_remaining
    BY <1>2, <2>1, ViewIs
  <2> HIDE DEF v
  <2>4. View(g, Anchored(BreakPhase(s, n), slot)) = Cycle!EndBreak(v, slot)
    BY <1>1, <1>2, <2>3, BreakIsUntil
  <2>5. Cycle!EndFocus(v, slot) = v
    BY <2>3 DEF Cycle!EndFocus
  <2> QED
    BY <2>2, <2>4, <2>5 DEF Cycle!Until, v, n
<1>3. CASE ~s.break
  <2>0. Running(s) /\ s.focus /\ ~s.paused
    BY <1>3 DEF Advancing, Running
  <2>1. /\ v \in Seen /\ v.generation = g /\ v.duration = s.pomodoro_duration
        /\ v.rewards = s.reward_id /\ v.left = 0 /\ v.phase = "focus"
        /\ v.deadline = s.last_tick_slot + s.pomodoro_remaining
    BY <1>3, <2>0, ViewIs
  <2> HIDE DEF v
  <2>2. CASE n < s.pomodoro_remaining
    <3>1. ~(slot >= v.deadline)
      BY <1>1, <2>1, <2>2
    <3>2. Cycle!EndFocus(v, slot) = v /\ Cycle!EndBreak(v, slot) = v
      BY <2>1, <3>1 DEF Cycle!EndFocus, Cycle!EndBreak
    <3>3. View(g, Anchored(AdvanceTimer(s, slot - s.last_tick_slot), slot)) = View(g, s)
      BY <2>0, <2>2, FocusIsUntil DEF n
    <3> QED
      BY <3>2, <3>3 DEF Cycle!Until, v
  <2>3. CASE ~(n < s.pomodoro_remaining)
    <3> DEFINE c == CompleteFocus(s)
               e == Cycle!EndFocus(v, slot)
               m == n - s.pomodoro_remaining
               a == s.last_tick_slot + s.pomodoro_remaining
    <3>1. n \in Nat \ {0} /\ m \in Nat /\ a \in Nat /\ a + m = slot
      BY <1>1, <2>0, <2>3 DEF PhasesFit
    <3>2. AdvanceTimer(s, n) = BreakPhase(c, m)
      BY <2>0, <2>3, <3>1, AdvanceThrough
    <3>3. /\ c \in BackendState /\ PhasesFit(c) /\ c.break
          /\ c.break_remaining = BreakDuration /\ c.reward_id = s.reward_id + 1
      BY CompleteFocusType, CompleteFocusFits
    <3>4. c.pomodoro_duration = s.pomodoro_duration
      BY DEF CompleteFocus, BackendState
    <3>5. slot >= v.deadline
      BY <1>1, <2>1, <2>3
    <3>6. /\ e \in Seen /\ e.phase = "break"
          /\ e.deadline = v.deadline + BreakDuration /\ e.left = v.left
          /\ e.generation = v.generation /\ e.duration = v.duration
          /\ e.rewards = v.rewards + 1
      BY <2>1, <3>5, FocusEnded
    <3> HIDE DEF c, e, m
    <3>7. /\ e.deadline = a + c.break_remaining /\ e.left = 0 /\ e.generation = g
          /\ e.duration = c.pomodoro_duration /\ e.rewards = c.reward_id
      BY <2>1, <3>3, <3>4, <3>6
    <3> HIDE DEF a
    <3>8. View(g, Anchored(BreakPhase(c, m), slot)) = Cycle!EndBreak(e, slot)
      BY <3>1, <3>3, <3>6, <3>7, BreakIsUntil
    <3> QED
      BY <3>2, <3>8 DEF Cycle!Until, e, v, n
  <2> QED
    BY <2>2, <2>3
<1> QED
  BY <1>2, <1>3

(* What is seen of a document that is anchored to a second. *)
AnchoredView(g, s, slot, v) ==
  /\ v \in Seen /\ v.generation = g
  /\ v.duration = s.pomodoro_duration /\ v.rewards = s.reward_id
  /\ v.phase = IF s.break THEN "break" ELSE IF s.paused THEN "paused"
               ELSE IF s.focus THEN "focus" ELSE "idle"
  /\ v.deadline = IF s.break THEN slot + s.break_remaining
                  ELSE IF s.focus /\ ~s.paused THEN slot + s.pomodoro_remaining ELSE 0
  /\ v.left = IF s.paused THEN s.pomodoro_remaining ELSE 0

(* So it is for every document whose anchor is that second. *)
LEMMA AnchoredIsSeen ==
  ASSUME NEW s \in BackendState, PhasesFit(s), NEW slot \in Nat, NEW g \in Nat,
         Advancing(s) => s.last_tick_slot = slot
  PROVE  AnchoredView(g, s, slot, View(g, s))
BY ViewIs DEF AnchoredView, Advancing, Running

(* The same documents look the same. *)
LEMMA AnchoredAlike ==
  ASSUME NEW g, NEW slot, NEW s, NEW t, SamePhases(s, t), NEW v, NEW x,
         AnchoredView(g, s, slot, v), AnchoredView(g, t, slot, x)
  PROVE  x = v
BY SeenAlike DEF SamePhases, AnchoredView

(* A message, handled at the second to which the document is anchored, does *)
(* what RoomCycle says.                                                     *)
LEMMA HandledIsObeyed ==
  ASSUME NEW r \in BackendState, PhasesFit(r), AnchorFits(r), NEW slot \in Nat,
         Advancing(r) => r.last_tick_slot = slot, NEW m \in Message, NEW g \in Nat
  PROVE  View(g, HandledAt(r, slot, m)) = Cycle!Obey(View(g, r), m, slot)
<1> DEFINE h == Handle(r, m)
           t == HandledAt(r, slot, m)
           v == View(g, r)
           x == View(g, t)
<1>1. r.last_tick_slot \in {slot, NoSlot} /\ slot # NoSlot
  BY DEF AnchorFits, NoSlot
<1>2. /\ SamePhases(h, t) /\ PhasesFit(t) /\ t.last_tick_slot \in {slot, NoSlot}
      /\ Advancing(t) => t.last_tick_slot # NoSlot
  BY <1>1, HandledAtFits
<1>3. t \in BackendState
  BY HandleType DEF HandledAt, BackendState
<1>4. AnchoredView(g, r, slot, v)
  BY AnchoredIsSeen
<1> HIDE DEF h, t, v
<1>5. AnchoredView(g, t, slot, x)
  BY <1>2, <1>3, AnchoredIsSeen
<1> HIDE DEF x
<1>6. AnchoredView(g, h, slot, x)
  BY <1>2, <1>5 DEF AnchoredView, SamePhases
<1>7. h = r => x = v
  BY <1>4, <1>6, SeenAlike DEF AnchoredView
<1>8. v \in Seen /\ x \in Seen
  BY <1>4, <1>6 DEF AnchoredView
<1>9. /\ r.pomodoro_duration \in Nat /\ r.pomodoro_remaining \in Nat
      /\ r.break_remaining \in Nat
      /\ ~(r.focus /\ r.break) /\ (r.paused => r.focus)
  BY DocumentFields DEF PhasesFit
<1>10. Cycle!Resting(v) = x <=>
         /\ x.phase = "idle" /\ x.deadline = 0 /\ x.left = 0
         /\ x.generation = v.generation /\ x.duration = v.duration
         /\ x.rewards = v.rewards
  BY <1>8, Rested, SeenAlike
<1>11. ASSUME NEW e \in Int, x.phase = "focus", x.deadline = e, x.left = 0,
              x.generation = v.generation, x.duration = v.duration,
              x.rewards = v.rewards
       PROVE  x = Cycle!FocusUntil(v, e)
  <2> DEFINE y == Cycle!FocusUntil(v, e)
  <2>1. /\ y \in Seen /\ y.phase = "focus" /\ y.deadline = e /\ y.left = 0
        /\ y.generation = v.generation /\ y.duration = v.duration
        /\ y.rewards = v.rewards
    BY <1>8, FocusedUntil
  <2> HIDE DEF y
  <2>2. x = y
    BY <1>8, <1>11, <2>1, SeenAlike
  <2> QED
    BY <2>2 DEF y
<1>12. ASSUME h.focus = FALSE, h.paused = FALSE, h.break = FALSE,
              h.pomodoro_duration = r.pomodoro_duration, h.reward_id = r.reward_id
       PROVE  x = Cycle!Resting(v)
  BY <1>4, <1>6, <1>10, <1>12 DEF AnchoredView
<1>13. CASE m.type = "focus_toggle"
  <2>1. h = FocusToggle(r)
    BY <1>13 DEF Handle, h
  <2>2. /\ h.focus = ~r.focus /\ h.paused = FALSE /\ h.break = FALSE
        /\ h.pomodoro_remaining = r.pomodoro_duration
        /\ h.pomodoro_duration = r.pomodoro_duration /\ h.reward_id = r.reward_id
    BY <2>1 DEF FocusToggle, BackendState
  <2>3. Cycle!Obey(v, m, slot) = Cycle!Toggle(v, slot)
    BY <1>13 DEF Cycle!Obey
  <2>4. CASE r.focus
    <3>1. v.phase \in {"focus", "paused"}
      BY <1>4, <1>9, <2>4 DEF AnchoredView
    <3>2. x = Cycle!Resting(v)
      BY <1>12, <2>2, <2>4
    <3> QED
      BY <2>3, <3>1, <3>2 DEF Cycle!Toggle, x, v, t
  <2>5. CASE ~r.focus
    <3>1. ~(v.phase \in {"focus", "paused"}) /\ v.duration = r.pomodoro_duration
      BY <1>4, <1>9, <2>5 DEF AnchoredView
    <3>2. slot + v.duration \in Int
      BY <1>9, <3>1
    <3>3. /\ x.phase = "focus" /\ x.deadline = slot + v.duration /\ x.left = 0
          /\ x.generation = v.generation /\ x.duration = v.duration
          /\ x.rewards = v.rewards
      BY <1>4, <1>6, <2>2, <2>5, <3>1 DEF AnchoredView
    <3>4. x = Cycle!FocusUntil(v, slot + v.duration)
      BY <1>11, <3>2, <3>3
    <3> QED
      BY <2>3, <3>1, <3>4 DEF Cycle!Toggle, x, v, t
  <2> QED
    BY <2>4, <2>5
<1>14. CASE m.type = "focus_pause"
  <2>1. h = FocusPause(r)
    BY <1>14 DEF Handle, h
  <2>2. Cycle!Obey(v, m, slot) = Cycle!Pause(v, slot)
    BY <1>14 DEF Cycle!Obey
  <2>3. r.focus =>
          /\ h.focus = r.focus /\ h.paused = ~r.paused /\ h.break = r.break
          /\ h.pomodoro_remaining = r.pomodoro_remaining
          /\ h.pomodoro_duration = r.pomodoro_duration /\ h.reward_id = r.reward_id
    BY <2>1 DEF FocusPause, BackendState
  <2>4. CASE r.focus /\ ~r.paused
    <3> DEFINE p == [v EXCEPT !.phase = "paused", !.deadline = 0,
                              !.left = v.deadline - slot]
    <3>1. /\ v.phase = "focus" /\ v.deadline = slot + r.pomodoro_remaining
      BY <1>4, <1>9, <2>4 DEF AnchoredView
    <3>2. v.deadline - slot = r.pomodoro_remaining /\ v.deadline - slot \in Nat /\ 0 \in Int
      BY <1>9, <3>1
    <3>3. p \in Seen
      BY <1>8, <3>2 DEF Seen
    <3>4. /\ p.phase = "paused" /\ p.deadline = 0 /\ p.left = r.pomodoro_remaining
          /\ p.generation = v.generation /\ p.duration = v.duration
          /\ p.rewards = v.rewards
      BY <1>8, <3>2 DEF Seen
    <3>5. Cycle!Pause(v, slot) = p
      BY <3>1 DEF Cycle!Pause
    <3> HIDE DEF p
    <3>6. /\ x.phase = "paused" /\ x.deadline = 0 /\ x.left = r.pomodoro_remaining
          /\ x.generation = v.generation /\ x.duration = v.duration
          /\ x.rewards = v.rewards
      BY <1>4, <1>6, <1>9, <2>3, <2>4 DEF AnchoredView
    <3>7. x = p
      BY <1>8, <3>3, <3>4, <3>6, SeenAlike
    <3> QED
      BY <2>2, <3>5, <3>7 DEF x, v, t
  <2>5. CASE r.paused
    <3>1. /\ v.phase = "paused" /\ v.left = r.pomodoro_remaining
      BY <1>4, <1>9, <2>5 DEF AnchoredView
    <3>2. Cycle!Pause(v, slot) = Cycle!FocusUntil(v, slot + v.left)
      BY <3>1 DEF Cycle!Pause
    <3>3. slot + v.left \in Int
      BY <1>9, <3>1
    <3>4. /\ x.phase = "focus" /\ x.deadline = slot + v.left /\ x.left = 0
          /\ x.generation = v.generation /\ x.duration = v.duration
          /\ x.rewards = v.rewards
      BY <1>4, <1>6, <1>9, <2>3, <2>5, <3>1 DEF AnchoredView
    <3>5. x = Cycle!FocusUntil(v, slot + v.left)
      BY <1>11, <3>3, <3>4
    <3> QED
      BY <2>2, <3>2, <3>5 DEF x, v, t
  <2>6. CASE ~r.focus
    <3>1. h = r /\ v.phase \notin {"focus", "paused"}
      BY <1>4, <1>9, <2>1, <2>6 DEF FocusPause, AnchoredView
    <3>2. Cycle!Pause(v, slot) = v
      BY <3>1 DEF Cycle!Pause
    <3> QED
      BY <1>7, <2>2, <3>1, <3>2 DEF x, v, t
  <2> QED
    BY <1>9, <2>4, <2>5, <2>6
<1>15. FocusCancel(r) = h => x = Cycle!Resting(v)
  <2>1. LET c == FocusCancel(r)
        IN  /\ c.focus = FALSE /\ c.paused = FALSE /\ c.break = FALSE
            /\ c.pomodoro_duration = r.pomodoro_duration /\ c.reward_id = r.reward_id
    BY DEF FocusCancel, BackendState
  <2> QED
    BY <1>12, <2>1
<1>16. CASE m.type = "focus_cancel"
  <2>1. h = FocusCancel(r) /\ Cycle!Obey(v, m, slot) = Cycle!Resting(v)
    BY <1>16 DEF Handle, Cycle!Obey, h
  <2> QED
    BY <1>15, <2>1 DEF x, v, t
<1>17. CASE m.type = "skip_break"
  <2>1. /\ h = SkipBreak(r)
        /\ Cycle!Obey(v, m, slot) = IF v.phase = "break" THEN Cycle!Resting(v) ELSE v
    BY <1>17 DEF Handle, Cycle!Obey, h
  <2>2. v.phase = "break" <=> r.break
    BY <1>4 DEF AnchoredView
  <2>3. CASE r.break
    <3>1. h = FocusCancel(r)
      BY <2>1, <2>3 DEF SkipBreak
    <3> QED
      BY <1>15, <2>1, <2>2, <2>3, <3>1 DEF x, v, t
  <2>4. CASE ~r.break
    <3>1. h = r
      BY <2>1, <2>4 DEF SkipBreak
    <3> QED
      BY <1>7, <2>1, <2>2, <2>4, <3>1 DEF x, v, t
  <2> QED
    BY <2>3, <2>4
<1>18. CASE m.type = "set_duration" /\ m.minutes \in 1..MaxMinutes
  <2> DEFINE d == m.minutes * MinuteSeconds
             c == [v EXCEPT !.duration = d]
  <2>1. d \in Nat
    BY <1>18, DurationsArePositive DEF Durations
  <2>2. Cycle!Obey(v, m, slot) = c /\ h = SetDuration(r, m.minutes)
    BY <1>18 DEF Handle, Cycle!Obey, h
  <2> HIDE DEF d
  <2>3. /\ c \in Seen /\ c.duration = d /\ c.phase = v.phase /\ c.deadline = v.deadline
        /\ c.left = v.left /\ c.generation = v.generation /\ c.rewards = v.rewards
    BY <1>8, <2>1 DEF Seen
  <2>4. /\ h.focus = r.focus /\ h.paused = r.paused /\ h.break = r.break
        /\ h.break_remaining = r.break_remaining
        /\ h.pomodoro_duration = d /\ h.reward_id = r.reward_id
        /\ r.focus => h.pomodoro_remaining = r.pomodoro_remaining
    <3>1. h = IF r.focus THEN [r EXCEPT !.pomodoro_duration = d]
              ELSE [r EXCEPT !.pomodoro_duration = d, !.pomodoro_remaining = d,
                             !.last_tick_slot = NoSlot]
      BY <1>18, <2>2 DEF SetDuration, d
    <3> QED
      BY <3>1 DEF BackendState
  <2> HIDE DEF c
  <2>5. x = c
    BY <1>4, <1>6, <1>8, <1>9, <2>3, <2>4, SeenAlike DEF AnchoredView
  <2> QED
    BY <2>2, <2>5 DEF x, v, t
<1>19. CASE m.type = "time_override"
  <2>1. h = [r EXCEPT !.time_override = m.iso] /\ Cycle!Obey(v, m, slot) = v
    BY <1>19 DEF Handle, Cycle!Obey, h
  <2>2. SamePhases(r, h)
    BY <2>1 DEF SamePhases, BackendState
  <2>3. x = v
    BY <1>4, <1>6, <2>2, AnchoredAlike
  <2> QED
    BY <2>1, <2>3 DEF x, v, t
<1>20. CASE m.type \in {"location", "unknown"}
  <2>1. h = r /\ Cycle!Obey(v, m, slot) = v
    BY <1>20 DEF Handle, Cycle!Obey, h
  <2> QED
    BY <1>7, <2>1 DEF x, v, t
<1>21. CASE m.type = "set_duration" /\ m.minutes \notin 1..MaxMinutes
  <2>1. h = r /\ Cycle!Obey(v, m, slot) = v
    BY <1>21 DEF Handle, Cycle!Obey, SetDuration, h
  <2> QED
    BY <1>7, <2>1 DEF x, v, t
<1> QED
  BY <1>13, <1>14, <1>16, <1>17, <1>18, <1>19, <1>20, <1>21 DEF Message

-----------------------------------------------------------------------------
(* What people see of the room. *)
LEMMA CycleIsView ==
  /\ CycleOf(room) = View(room.instance, room.state)
  /\ CycleOf(room)' = View(room'.instance, room'.state)
BY DEF CycleOf, View

(* Nobody sees the revision. *)
LEMMA RevisionUnseen ==
  ASSUME NEW s \in BackendState, NEW base \in BackendState, NEW g
  PROVE  View(g, Successor(base, s)) = View(g, s)
<1>1. /\ SamePhases(s, Successor(base, s))
      /\ Successor(base, s).last_tick_slot = s.last_tick_slot
  BY SuccessorFits
<1> QED
  BY <1>1 DEF SamePhases, View, PhaseOf, DeadlineOf, Running

(* Idle and paused rooms do not age. *)
LEMMA StillIsUntil ==
  ASSUME NEW s \in BackendState, PhasesFit(s), ~Advancing(s),
         NEW slot \in Nat, NEW g \in Nat
  PROVE  Cycle!Until(View(g, s), slot) = View(g, s)
<1> DEFINE v == View(g, s)
<1>1. ~s.break /\ ~(s.focus /\ ~s.paused)
  BY DEF Advancing, Running
<1>2. v.phase \in {"idle", "paused"}
  BY <1>1, ViewIs
<1> HIDE DEF v
<1>3. Cycle!EndFocus(v, slot) = v /\ Cycle!EndBreak(v, slot) = v
  BY <1>2 DEF Cycle!EndFocus, Cycle!EndBreak
<1> QED
  BY <1>3 DEF Cycle!Until, v

\* A countdown that runs is anchored, unless an older version stored it.
Anchoring == Advancing(room.state) => room.state.last_tick_slot # NoSlot

CycleInv == TimeInv /\ Anchoring

(* The steps that change the room or the clock. *)
LEMMA RoomMoves ==
  ASSUME TimeInv, [Next]_vars
  PROVE  \/ room' = room /\ now' \in {now, now + 1}
         \/ CreateRoom
         \/ ExpireRoom
         \/ Commits
<1>1. CASE RedisStep \/ UNCHANGED vars
  BY <1>1 DEF RedisStep, ClockTick, ExpireLock, vars
<1>2. ASSUME NEW w \in Workers, TickStep(w) \/ TickFails(w) \/ Crash(w)
      PROVE  (room' = room /\ now' = now) \/ CommitTick(w)
  BY <1>2
  DEF TickStep, StartTick, AcquireLease, Reload, RefuseTick, CompleteLease,
      TickFails, Crash
<1>3. ASSUME NEW c \in Clients, ClientStep(c)
      PROVE  (room' = room /\ now' = now) \/ CommitMessage(c)
  BY <1>3
  DEF ClientStep, Connect, Disconnect, Receive, MutationStep, ReadSnapshot,
      ReadSlot, RefuseMessage
<1> QED
  BY <1>1, <1>2, <1>3 DEF Next, Commits

(* A room that has just come about is idle. *)
LEMMA CycleInit == Init => CycleInv
<1>1. Init => room.state = MakeState
  BY DEF Init, InitWith, NoRoom
<1> QED
  BY <1>1, TimeInit, MakeStateFits DEF CycleInv, Anchoring

(* Every commit anchors what it leaves running. *)
LEMMA CycleNext ==
  ASSUME CycleInv, [Next]_vars
  PROVE  CycleInv'
<1>1. TimeInv /\ TimeInv' /\ DocumentCoherent'
  BY TimeNext DEF CycleInv, TimeInv
<1>2. ASSUME NEW t \in BackendState, room'.state = Successor(room.state, t)
      PROVE  Anchoring'
  <2>1. room.state.revision \in Nat
    BY <1>1, CommittedOver, DocumentFields
  <2>2. room'.state.revision = room.state.revision + 1
    BY <1>2 DEF Successor, BackendState
  <2>3. room'.state.revision > 0
    BY <2>1, <2>2
  <2> QED
    BY <1>1, <2>3 DEF DocumentCoherent, Anchoring
<1>3. ASSUME room' = room PROVE Anchoring'
  BY <1>3 DEF CycleInv, Anchoring
<1>4. ASSUME CreateRoom \/ ExpireRoom PROVE Anchoring'
  <2>1. room'.state = MakeState
    BY <1>4 DEF CreateRoom, ExpireRoom, NoRoom
  <2> QED
    BY <2>1, MakeStateFits DEF Anchoring
<1>5. ASSUME NEW w \in Workers, CommitTick(w) PROVE Anchoring'
  <2>1. /\ room.state \in BackendState /\ ticker[w].slot \in Nat
        /\ room'.state = Successor(room.state, Ticked(room.state, ticker[w].slot))
    BY <1>1, <1>5, TickCommits
  <2> QED
    BY <1>2, <2>1, TickedType
<1>6. ASSUME NEW c \in Clients, CommitMessage(c) PROVE Anchoring'
  <2>1. /\ room.state \in BackendState /\ client[c].slot \in Nat
        /\ client[c].message \in Message
        /\ room'.state =
             Successor(room.state, Mutated(room.state, client[c].slot, client[c].message))
    BY <1>1, <1>6, MessageCommits
  <2> QED
    BY <1>2, <2>1, MutatedType
<1> QED
  BY <1>1, <1>3, <1>4, <1>5, <1>6, RoomMoves DEF CycleInv, Commits

(* Initially there is no room, and people see none. *)
LEMMA CycleBegins == Init => Cycle!Init
<1>1. SUFFICES ASSUME Init PROVE now \in Nat /\ CycleOf(room) = Cycle!Absent
  BY DEF Cycle!Init
<1>2. /\ now \in Nat /\ room.instance = 0 /\ room.state = MakeState
  BY <1>1, SyncAssumption DEF Init, InitWith, NoRoom
<1>3. View(0, MakeState) = Cycle!Absent
  BY DEF View, MakeState, PhaseOf, DeadlineOf, Running, Cycle!Absent
<1> QED
  BY <1>2, <1>3, CycleIsView

\* A tick that a message has overtaken, which commits a celestial refresh.
OvertakenRefresh ==
  \E w \in Workers :
    /\ CommitTick(w)
    /\ ticker[w].slot < room.state.last_tick_slot
    /\ ticker[w].slot % CelestialPeriod = 0

(* A tick at a second the document has not passed is time going by. *)
LEMMA TickIsElapse ==
  ASSUME CycleInv, NEW w \in Workers, CommitTick(w),
         room.state.last_tick_slot <= ticker[w].slot
  PROVE  [Cycle!Next]_<<now, CycleOf(room)>>
<1> DEFINE s == room.state
           slot == ticker[w].slot
           g == room.instance
           t == Ticked(s, slot)
<1>1. /\ s \in BackendState /\ slot \in Nat /\ slot <= now /\ now' = now /\ now \in Nat
      /\ room'.instance = g /\ room'.state = Successor(s, t) /\ PhasesFit(s)
      /\ s.last_tick_slot \in Int
  BY TickCommits, CommittedOver DEF CycleInv
<1>2. g \in Nat /\ g # 0
  BY DEF CommitTick, TickFenced, GenerationCurrent, RoomExists, CycleInv, TimeInv,
         RevisionInv, TypeOK
<1>3. CycleOf(room) = View(g, s) /\ CycleOf(room)' = View(g, t)
  BY <1>1, CycleIsView, RevisionUnseen, TickedType
<1>4. CASE Advancing(s)
  <2>1. s.last_tick_slot # NoSlot /\ s.last_tick_slot <= slot
    BY <1>4 DEF CycleInv, Anchoring
  <2>2. Elapsed(s, slot) = slot - s.last_tick_slot
    BY <1>1, <2>1 DEF Elapsed, Larger
  <2>3. t = Anchored(AdvanceTimer(s, slot - s.last_tick_slot), slot)
    BY <1>4, <2>2 DEF Ticked
  <2>4. View(g, t) = Cycle!Until(View(g, s), slot)
    BY <1>1, <1>2, <1>4, <2>1, <2>3, CatchUpIsUntil
  <2>5. View(g, s).generation # 0
    BY <1>2 DEF View
  <2>6. slot \in 0..now
    BY <1>1
  <2> QED
    BY <1>1, <1>3, <2>4, <2>5, <2>6 DEF Cycle!Next, Cycle!Elapse
<1>5. CASE ~Advancing(s)
  <2>1. t = s
    BY <1>5 DEF Ticked
  <2> QED
    BY <1>1, <1>3, <2>1
<1> QED
  BY <1>4, <1>5

(* A message is obeyed after the time before it has gone by. *)
LEMMA MessageIsAct ==
  ASSUME CycleInv, NEW c \in Clients, CommitMessage(c)
  PROVE  Cycle!Act
<1> DEFINE s == room.state
           slot == client[c].slot
           m == client[c].message
           g == room.instance
           r == Reconciled(s, slot)
           t == HandledAt(r, slot, m)
<1>1. /\ s \in BackendState /\ slot \in Nat /\ slot <= now /\ now' = now /\ now \in Nat
      /\ m \in Message /\ s.last_tick_slot <= slot
      /\ room'.instance = g /\ room'.state = Successor(s, t)
      /\ PhasesFit(s) /\ AnchorFits(s) /\ s.last_tick_slot \in Int
  BY MessageCommits, CommittedOver DEF CycleInv, Mutated
<1>2. g \in Nat /\ g # 0
  BY DEF CommitMessage, MessageFenced, GenerationCurrent, RoomExists, CycleInv, TimeInv,
         RevisionInv, TypeOK
<1>3. /\ r \in BackendState /\ Moved(s, r, slot)
      /\ s.last_tick_slot # NoSlot /\ Advancing(r) => r.last_tick_slot # NoSlot
  BY <1>1, ReconciledType, ReconciledFits
<1>4. View(g, r) = Cycle!Until(View(g, s), slot)
  <2>1. CASE Advancing(s)
    <3>1. s.last_tick_slot # NoSlot
      BY <2>1 DEF CycleInv, Anchoring
    <3>2. Larger(0, slot - s.last_tick_slot) = slot - s.last_tick_slot
      BY <1>1 DEF Larger
    <3>3. r = Anchored(AdvanceTimer(s, slot - s.last_tick_slot), slot)
      BY <2>1, <3>1, <3>2 DEF Reconciled
    <3> QED
      BY <1>1, <1>2, <2>1, <3>1, <3>3, CatchUpIsUntil
  <2>2. CASE ~Advancing(s)
    <3>1. r = s
      BY <2>2 DEF Reconciled
    <3> QED
      BY <1>1, <1>2, <2>2, <3>1, StillIsUntil
  <2> QED
    BY <2>1, <2>2
<1>5. Advancing(r) => r.last_tick_slot = slot
  <2>1. CASE Advancing(s)
    BY <1>3, <2>1 DEF CycleInv, Anchoring, Moved
  <2>2. CASE ~Advancing(s)
    BY <2>2 DEF Reconciled
  <2> QED
    BY <2>1, <2>2
<1>6. PhasesFit(r) /\ AnchorFits(r)
  BY <1>3 DEF Moved
<1>7. t \in BackendState
  BY <1>1, MutatedType DEF Mutated
<1> HIDE DEF r
<1>8. View(g, t) = Cycle!Obey(View(g, r), m, slot)
  BY <1>1, <1>2, <1>3, <1>5, <1>6, HandledIsObeyed
<1> HIDE DEF t
<1>9. CycleOf(room) = View(g, s) /\ CycleOf(room)' = View(g, t)
  BY <1>1, <1>7, CycleIsView, RevisionUnseen
<1>10. View(g, s).generation # 0 /\ slot \in 0..now
  BY <1>1, <1>2 DEF View
<1>11. Cycle!Message = Message
  BY DEF Cycle!Message, Message
<1> QED
  BY <1>1, <1>4, <1>8, <1>9, <1>10, <1>11 DEF Cycle!Act

(* Every other step is a step of RoomCycle or nothing. *)
LEMMA StepShowsCycle ==
  ASSUME CycleInv, [Next]_vars
  PROVE  [Cycle!Next]_<<now, CycleOf(room)>> \/ OvertakenRefresh
<1>1. CASE room' = room /\ now' \in {now, now + 1}
  <2>1. CycleOf(room)' = CycleOf(room)
    BY <1>1, CycleIsView
  <2> QED
    BY <1>1, <2>1 DEF Cycle!Next, Cycle!Second
<1>2. CASE CreateRoom
  <2>1. /\ room.instance = 0 /\ room'.instance = instances + 1 /\ instances + 1 > 0
        /\ room'.state = MakeState /\ now' = now
    BY <1>2 DEF CreateRoom, RoomExists, CycleInv, TimeInv, RevisionInv, TypeOK
  <2>2. View(instances + 1, MakeState) = [Cycle!Absent EXCEPT !.generation = instances + 1]
    BY DEF View, MakeState, PhaseOf, DeadlineOf, Running, Cycle!Absent
  <2>3. /\ CycleOf(room).generation = 0
        /\ CycleOf(room)' = [Cycle!Absent EXCEPT !.generation = instances + 1]
        /\ CycleOf(room)'.generation = instances + 1
    BY <2>1, <2>2, CycleIsView DEF View
  <2> QED
    BY <2>1, <2>3 DEF Cycle!Next, Cycle!Create
<1>3. CASE ExpireRoom
  <2>1. room'.instance = 0 /\ room'.state = MakeState /\ now' = now
    BY <1>3 DEF ExpireRoom, NoRoom
  <2>2. View(0, MakeState) = Cycle!Absent
    BY DEF View, MakeState, PhaseOf, DeadlineOf, Running, Cycle!Absent
  <2> QED
    BY <2>1, <2>2, CycleIsView DEF Cycle!Next, Cycle!Vanish
<1>4. ASSUME NEW w \in Workers, CommitTick(w)
      PROVE  [Cycle!Next]_<<now, CycleOf(room)>> \/ OvertakenRefresh
  <2>1. CASE room.state.last_tick_slot <= ticker[w].slot
    BY <1>4, <2>1, TickIsElapse
  <2>2. CASE ~(room.state.last_tick_slot <= ticker[w].slot)
    <3>1. ticker[w].slot \in Nat /\ room.state.last_tick_slot \in Int
      BY <1>4, TickCommits, CommittedOver DEF CycleInv
    <3>2. ticker[w].slot < room.state.last_tick_slot
      BY <2>2, <3>1
    <3>3. ~(ticker[w].slot >= room.state.last_tick_slot)
      BY <3>1, <3>2
    <3>4. ticker[w].slot % CelestialPeriod = 0
      BY <1>4, <3>3, TicksAccount DEF CycleInv, AccountsForTime
    <3> QED
      BY <1>4, <3>2, <3>4 DEF OvertakenRefresh
  <2> QED
    BY <2>1, <2>2
<1>5. ASSUME NEW c \in Clients, CommitMessage(c)
      PROVE  [Cycle!Next]_<<now, CycleOf(room)>>
  BY <1>5, MessageIsAct DEF Cycle!Next
<1> QED
  BY <1>1, <1>2, <1>3, <1>4, <1>5, RoomMoves DEF CycleInv, Commits

(* Whatever the workers, sockets, conflicts, crashes and generations do,    *)
(* people see the cycle of RoomCycle, but for a tick that a message has     *)
(* overtaken in a refresh second.                                           *)
THEOREM OnlyRefreshesDisturb ==
  Spec => Cycle!Init /\ [][Cycle!Next \/ OvertakenRefresh]_<<now, CycleOf(room)>>
<1>1. CycleInv /\ [Next]_vars =>
        [Cycle!Next \/ OvertakenRefresh]_<<now, CycleOf(room)>>
  BY StepShowsCycle
<1> QED
  BY <1>1, CycleBegins, CycleInit, CycleNext, PTL DEF Spec

-----------------------------------------------------------------------------
\* No celestial refresh is due while the clock runs.
NoRefreshDue ==
  /\ FirstSlot <= MaxSlot
  /\ \A second \in FirstSlot..MaxSlot : second % CelestialPeriod # 0

\* The seconds that the clock and the leases show.
InWindow ==
  /\ now \in FirstSlot..MaxSlot
  /\ \A w \in Workers :
       ticker[w].pc \in {"reload", "commit", "complete"} =>
         ticker[w].slot \in FirstSlot..MaxSlot

(* The clock starts in the window. *)
LEMMA WindowInit ==
  ASSUME NoRefreshDue, Init
  PROVE  InWindow
BY SyncAssumption DEF NoRefreshDue, Init, InitWith, IdleTicker, InWindow

(* A lease is for the second at which it was acquired. *)
LEMMA WindowNext ==
  ASSUME TypeOK, InWindow, [Next]_vars
  PROVE  InWindow'
<1>1. ASSUME UNCHANGED ticker, now' = now \/ (now < MaxSlot /\ now' = now + 1)
      PROVE  InWindow'
  BY <1>1, SyncAssumption DEF InWindow
<1>2. CASE RedisStep \/ UNCHANGED vars
  BY <1>1, <1>2 DEF RedisStep, ClockTick, ExpireLock, CreateRoom, ExpireRoom, vars
<1>3. ASSUME NEW c \in Clients, ClientStep(c) PROVE InWindow'
  BY <1>1, <1>3
  DEF ClientStep, Connect, Disconnect, Receive, MutationStep, ReadSnapshot,
      ReadSlot, CommitMessage, RefuseMessage
<1>4. ASSUME NEW w \in Workers, TickStep(w) \/ TickFails(w) \/ Crash(w)
      PROVE  InWindow'
  <2> DEFINE Shown(u) == u.pc \in {"reload", "commit", "complete"} =>
                           u.slot \in FirstSlot..MaxSlot
             Reloaded == [ticker[w] EXCEPT !.pc = "commit", !.instance = room.instance,
                                           !.base = room.state]
  <2>1. now' = now
    BY <1>4 DEF TickStep, StartTick, AcquireLease, Reload, CommitTick, RefuseTick,
                CompleteLease, TickFails, Crash
  <2>2. ticker \in [Workers -> TickOfRoom] /\ ticker[w] \in TickOfRoom
    BY DEF TypeOK
  <2>3. ASSUME NEW u, SetTicker(w, u), Shown(u) PROVE InWindow'
    <3>1. \A v \in Workers : ticker'[v] = IF v = w THEN u ELSE ticker[v]
      BY <2>2, <2>3 DEF SetTicker
    <3>2. \A v \in Workers : Shown(ticker'[v])
      BY <2>3, <3>1 DEF InWindow
    <3> QED
      BY <2>1, <3>2 DEF InWindow
  <2>4. /\ Shown(IdleTicker) /\ Shown([IdleTicker EXCEPT !.pc = "acquire"])
        /\ Shown([IdleTicker EXCEPT !.pc = "reload", !.slot = now])
    BY DEF IdleTicker, InWindow
  <2>5. ticker[w].pc \in {"reload", "commit"} =>
          Shown([ticker[w] EXCEPT !.pc = "complete"]) /\ Shown(Reloaded)
    BY <2>2 DEF InWindow, TickOfRoom
  <2> HIDE DEF Shown
  <2>6. CASE Reload(w)
    BY <2>3, <2>5, <2>6 DEF Reload
  <2>7. CASE CommitTick(w) \/ RefuseTick(w) \/ TickFails(w)
    BY <2>3, <2>4, <2>5, <2>7 DEF CommitTick, RefuseTick, TickFails
  <2>8. CASE StartTick(w) \/ AcquireLease(w) \/ CompleteLease(w) \/ Crash(w)
    BY <2>3, <2>4, <2>8 DEF StartTick, AcquireLease, CompleteLease, Crash
  <2> QED
    BY <1>4, <2>6, <2>7, <2>8 DEF TickStep
<1> QED
  BY <1>2, <1>3, <1>4 DEF Next

(* So no overtaken tick finds a refresh due. *)
LEMMA NothingOvertakes ==
  ASSUME NoRefreshDue, InWindow
  PROVE  ~OvertakenRefresh
BY DEF NoRefreshDue, InWindow, OvertakenRefresh, CommitTick

(* With no refresh due, the refinement is exact. *)
THEOREM RoomsShowOneCycle == NoRefreshDue /\ Spec => ShowsOneCycle
<1>1. SUFFICES ASSUME NoRefreshDue PROVE Spec => ShowsOneCycle
  OBVIOUS
<1>2. Init => CycleInv /\ InWindow
  BY <1>1, CycleInit, WindowInit
<1>3. CycleInv /\ InWindow /\ [Next]_vars => CycleInv' /\ InWindow'
  BY CycleNext, WindowNext DEF CycleInv, TimeInv, RevisionInv
<1>4. CycleInv /\ InWindow /\ [Next]_vars => [Cycle!Next]_<<now, CycleOf(room)>>
  BY <1>1, StepShowsCycle, NothingOvertakes
<1> QED
  BY <1>2, <1>3, <1>4, CycleBegins, PTL DEF Spec, ShowsOneCycle

(* Nor does any tick then move the end of a cycle, nor a message that is    *)
(* not about it, and a pause freezes it promptly.                           *)
THEOREM TimeStaysKept == NoRefreshDue /\ Spec => TimeIsKept
<1>1. SUFFICES ASSUME NoRefreshDue PROVE Spec => TimeIsKept
  OBVIOUS
<1> DEFINE Keeps ==
      (\E w \in Workers : CommitTick(w)) => KeepsDeadline(room.state, room'.state)
<1>2. Init => TimeInv /\ InWindow
  BY <1>1, TimeInit, WindowInit
<1>3. TimeInv /\ InWindow /\ [Next]_vars => TimeInv' /\ InWindow'
  BY TimeNext, WindowNext DEF TimeInv, RevisionInv
<1>4. TimeInv /\ InWindow /\ [Next]_vars => [Keeps]_vars
  <2>1. SUFFICES ASSUME TimeInv, InWindow, [Next]_vars, NEW w \in Workers, CommitTick(w)
                 PROVE  KeepsDeadline(room.state, room'.state)
    OBVIOUS
  <2>2. ticker[w].slot % CelestialPeriod # 0
    BY <1>1, <2>1 DEF NoRefreshDue, InWindow, CommitTick
  <2> QED
    BY <2>1, <2>2, TicksAccount DEF AccountsForTime
<1>5. Spec => TickKeepsDeadline
  BY <1>2, <1>3, <1>4, PTL DEF Spec, TickKeepsDeadline
<1> QED
  BY <1>5, BystandersKeepDeadline, PausesArePrompt, PTL DEF TimeIsKept
=============================================================================
