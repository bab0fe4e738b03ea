----------------------------- MODULE MCRegistry -----------------------------
(* The names are interchangeable.                                            *)
EXTENDS Registry, TLC

NameSymmetry == Permutations(Names)
=============================================================================
