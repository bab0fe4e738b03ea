------------------------------- MODULE Roster -------------------------------
(***************************************************************************)
(* What a room promises about the people in it: who is present, and who is *)
(* the host.  Presence comes and goes freely.  The host of a room that has *)
(* people in it stays the host until it is away and somebody present takes *)
(* over; whoever enters an empty room finds it without a host and becomes  *)
(* it, or finds the host it had when it was stored.                        *)
(***************************************************************************)
CONSTANTS Names, NoName

VARIABLES members, host

vars == <<members, host>>

Init == members = {} /\ host = NoName

Enter(p) ==
  /\ p \notin members
  /\ members' = members \cup {p}
  /\ host' = IF host = NoName THEN p ELSE host

Exit(p) ==
  /\ p \in members
  /\ members' = members \ {p}
  /\ UNCHANGED host

\* The host is away: somebody who is there takes over.
TakeOver(p) ==
  /\ host \notin members /\ p \in members
  /\ host' = p
  /\ UNCHANGED members

\* Everybody is out, and the room is forgotten, or read from its row again.
Reset ==
  /\ members' = {}
  /\ host' \in Names \cup {NoName}

Next ==
  \/ \E p \in Names : Enter(p) \/ Exit(p) \/ TakeOver(p)
  \/ Reset

Spec == Init /\ [][Next]_vars
=============================================================================
