---------------------------- MODULE RoomSyncCycle ----------------------------
(***************************************************************************)
(* RoomSync implements RoomCycle: the countdown of the document, read with *)
(* its slot anchor, is a fixed deadline.                                   *)
(***************************************************************************)
EXTENDS RoomSync

PhaseOf(s) ==
  CASE s.break    -> "break"
    [] s.paused   -> "paused"
    [] Running(s) -> "focus"
    [] OTHER      -> "idle"

DeadlineOf(s) ==
  CASE s.break    -> s.last_tick_slot + s.break_remaining
    [] Running(s) -> s.last_tick_slot + s.pomodoro_remaining
    [] OTHER      -> 0

CycleOf(r) ==
  [generation |-> r.instance,
   phase      |-> PhaseOf(r.state),
   deadline   |-> DeadlineOf(r.state),
   left       |-> IF r.state.paused THEN r.state.pomodoro_remaining ELSE 0,
   duration   |-> r.state.pomodoro_duration,
   rewards    |-> r.state.reward_id]

Cycle == INSTANCE RoomCycle WITH cycle <- CycleOf(room)

(* Whatever the workers, sockets, conflicts, crashes and generations do,    *)
(* people see the cycle of RoomCycle: one reward per completed focus, the   *)
(* break right behind it, every deadline moved by messages only.            *)
ShowsOneCycle == Cycle!Init /\ [][Cycle!Next]_<<now, CycleOf(room)>>
=============================================================================
