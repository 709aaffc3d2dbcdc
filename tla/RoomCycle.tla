------------------------------ MODULE RoomCycle ------------------------------
(***************************************************************************)
(* What a shared room promises the people in it, without documents,        *)
(* revisions, leases or workers: a cycle of focus and break whose phases   *)
(* end at fixed seconds of one clock.  Nobody counts down here; a running  *)
(* phase has a deadline, and only a message moves it.                      *)
(***************************************************************************)
EXTENDS RoomTimer

VARIABLES now,    \* the clock, in seconds
          cycle   \* the room's cycle

Absent ==
  [generation |-> 0, phase |-> "idle", deadline |-> 0, left |-> 0,
   duration |-> DefaultMinutes * MinuteSeconds, rewards |-> 0]

Init == now \in Nat /\ cycle = Absent

Resting(c) == [c EXCEPT !.phase = "idle", !.deadline = 0, !.left = 0]

FocusUntil(c, second) ==
  [c EXCEPT !.phase = "focus", !.deadline = second, !.left = 0]

-----------------------------------------------------------------------------
(***************************************************************************)
(* The passage of time.  A focus that reaches its deadline earns one       *)
(* reward and starts a break there and then, however late it is noticed;   *)
(* the break ends at its own deadline.                                     *)
(***************************************************************************)
EndFocus(c, second) ==
  IF c.phase = "focus" /\ second >= c.deadline
  THEN [c EXCEPT !.phase = "break", !.deadline = @ + BreakDuration,
                 !.rewards = @ + 1]
  ELSE c

EndBreak(c, second) ==
  IF c.phase = "break" /\ second >= c.deadline THEN Resting(c) ELSE c

Until(c, second) == EndBreak(EndFocus(c, second), second)

(***************************************************************************)
(* What each message asks for, at a second of the clock.                   *)
(***************************************************************************)
Toggle(c, second) ==
  IF c.phase \in {"focus", "paused"} THEN Resting(c)
  ELSE FocusUntil(c, second + c.duration)

Pause(c, second) ==
  CASE c.phase = "focus"  -> [c EXCEPT !.phase = "paused", !.deadline = 0,
                                       !.left = c.deadline - second]
    [] c.phase = "paused" -> FocusUntil(c, second + c.left)
    [] OTHER              -> c

Obey(c, m, second) ==
  CASE m.type = "focus_toggle" -> Toggle(c, second)
    [] m.type = "focus_pause"  -> Pause(c, second)
    [] m.type = "focus_cancel" -> Resting(c)
    [] m.type = "skip_break"   -> IF c.phase = "break" THEN Resting(c) ELSE c
    [] m.type = "set_duration" /\ m.minutes \in 1..MaxMinutes ->
         [c EXCEPT !.duration = m.minutes * MinuteSeconds]
    [] OTHER -> c

-----------------------------------------------------------------------------
Second == now' = now + 1 /\ UNCHANGED cycle

Create ==
  /\ cycle.generation = 0
  /\ cycle'.generation > 0
  /\ cycle' = [Absent EXCEPT !.generation = cycle'.generation]
  /\ UNCHANGED now

Vanish == cycle' = Absent /\ UNCHANGED now

\* Time up to some second, at most the present one, is accounted for; never
\* a second that has not come yet.
Elapse ==
  /\ cycle.generation # 0
  /\ \E second \in 0..now : cycle' = Until(cycle, second)
  /\ UNCHANGED now

Act ==
  /\ cycle.generation # 0
  /\ \E second \in 0..now, m \in Message :
       cycle' = Obey(Until(cycle, second), m, second)
  /\ UNCHANGED now

Next == Second \/ Create \/ Vanish \/ Elapse \/ Act

CycleSpec == Init /\ [][Next]_<<now, cycle>>
=============================================================================
