----------------------------- MODULE MCRoomSync ------------------------------
(***************************************************************************)
(* Instances of RoomSync for TLC.                                          *)
(***************************************************************************)
EXTENDS RoomSyncCycle, TLC

Symmetry == Permutations(Workers) \cup Permutations(Clients)

\* Longer than the longest focus and its break.
Horizon == MaxMinutes * MinuteSeconds + BreakDuration + 1

\* The document after n ticks of one second.
Ticks(s) ==
  LET after[n \in Nat] == IF n = 0 THEN s ELSE AdvanceTimer(after[n - 1], 1)
  IN  after

(* A catch-up after a scheduler gap (advance_timer_state with many seconds) *)
(* is what that many one-second ticks would have done, across the           *)
(* completion of a focus and the end of its break; so one gap never mints   *)
(* two rewards, skips a break or stretches one.                             *)
CatchUpIsTickByTick ==
  \A n \in 0..Horizon : AdvanceTimer(room.state, n) = Ticks(room.state)[n]

(* Whatever version stored the document, whatever messages arrive in        *)
(* whatever phase: its phases exclude each other and fit its countdowns,    *)
(* and a gap of any length is its ticks one by one (state.py:66-126).       *)
ReducerIsSound == DocumentCoherent /\ CatchUpIsTickByTick

=============================================================================
