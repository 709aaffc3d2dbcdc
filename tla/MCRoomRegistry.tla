--------------------------- MODULE MCRoomRegistry ----------------------------
(***************************************************************************)
(* Instances for TLC of the two guards of a room: its registry and the     *)
(* limiter of wrong PINs.  A behaviour is of one or the other, and the     *)
(* other rests in its initial state: they share no key, and a request that *)
(* is refused by the limiter never gets to the registry.                   *)
(***************************************************************************)
EXTENDS RoomRegistry, PinLimiter, TLC

VARIABLE part     \* "registry" or "limiter"

GuardInit == part \in {"registry", "limiter"} /\ Init /\ LimiterInit

GuardNext ==
  \/ part = "registry" /\ Next /\ UNCHANGED <<part, limiterVars>>
  \/ part = "limiter" /\ LimiterNext /\ UNCHANGED <<part, vars>>

GuardSpec == GuardInit /\ [][GuardNext]_<<part, vars, limiterVars>>

Symmetry == Permutations(Requests) \cup Permutations(Pins) \cup Permutations(Rooms)
=============================================================================
