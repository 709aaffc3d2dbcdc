---------------------------- MODULE MCRoomFanout -----------------------------
(***************************************************************************)
(* Instances of RoomFanout for TLC: two workers, and two or three sockets  *)
(* of one of them.                                                          *)
(***************************************************************************)
EXTENDS RoomFanout, TLC

CONSTANTS w1, w2, s1, s2, s3

TwoOnOne == s1 :> w1 @@ s2 :> w1
ThreeOnOne == s1 :> w1 @@ s2 :> w1 @@ s3 :> w1

Symmetry == Permutations({s1, s2, s3})

=============================================================================
