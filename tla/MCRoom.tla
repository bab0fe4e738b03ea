------------------------------- MODULE MCRoom -------------------------------
(* The players are interchangeable: any of them may open the room.           *)
EXTENDS Room, TLC

PlayerSymmetry == Permutations(Players)
=============================================================================
