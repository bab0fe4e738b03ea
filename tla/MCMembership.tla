---------------------------- MODULE MCMembership ----------------------------
(* Names and sockets are interchangeable.                                    *)
EXTENDS Membership, TLC

NamesAndSockets == Permutations(Names) \cup Permutations(Sockets)
=============================================================================
