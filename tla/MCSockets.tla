------------------------------ MODULE MCSockets ------------------------------
(***************************************************************************)
(* Instances for TLC of the two ends of a connection: the sockets of a     *)
(* worker (module Sockets), which write the documents of a room in order,  *)
(* and what a page makes of documents that come in order (RoomView).  A    *)
(* behaviour is of one end.                                                *)
(***************************************************************************)
EXTENDS Sockets, RoomView, TLC

VARIABLE part   \* "sockets" or "view"

ends == <<part, vars, viewVars>>

\* The variables of a page that does not act.
Unused == "unused"
ViewUnused ==
  /\ document = Unused /\ linked = Unused /\ first = Unused /\ wire = Unused
  /\ currentState = Unused /\ tab = Unused /\ inert = Unused /\ focused = Unused
  /\ moves = Unused /\ polling = Unused /\ ritual = Unused /\ reward = Unused
  /\ earned = Unused /\ blind = Unused

\* The sockets rest in their initial state while the page acts.
EndsInit ==
  \/ part = "sockets" /\ Init /\ ViewUnused
  \/ part = "view" /\ Init /\ ViewInit

EndsNext ==
  \/ part = "sockets" /\ Next /\ UNCHANGED <<part, viewVars>>
  \/ part = "view" /\ ViewNext /\ UNCHANGED <<part, vars>>

EndsSpec == EndsInit /\ [][EndsNext]_ends

Symmetry == Permutations(Sockets)

-----------------------------------------------------------------------------
(* What the page offers and lights is what the last document says, whatever *)
(* was hidden, shown or lost before: see ControlsFollowMode and             *)
(* ConstellationKeepsUp.                                                    *)
PageShowsTheRoom ==
  part = "view" => ControlsFollowMode /\ ConstellationKeepsUp

(* RitualIsOfThisBreak of RoomView: no celebration of a reward that was not *)
(* seen to rise, no recovery of an earlier break.                           *)
RitualFollowsBreak == part = "view" => RitualIsOfThisBreak
=============================================================================
