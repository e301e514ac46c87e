---------------------------- MODULE MCNetStatus ----------------------------
(* NetStatus for TLC; room keys are interchangeable. *)
EXTENDS NetStatus, TLC

RoomSymmetry == Permutations(Rooms)
=============================================================================
