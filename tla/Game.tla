-------------------------------- MODULE Game --------------------------------
(***************************************************************************)
(* What a room promises its players: a game is a lobby, then the rounds 1, *)
(* 2, ..., rounds; each round is played, reviewed (the last one is not),   *)
(* scored and put on record, once; then the game is over and may be played *)
(* again.  Who plays, answers, votes or disconnects is of no concern here. *)
(* Module Room is shown to implement this one.                             *)
(***************************************************************************)
EXTENDS Naturals

CONSTANT RoundCounts

VARIABLES
  phase,      \* the stage the game is in
  round,      \* the current round, 0 in the lobby
  rounds,     \* how many rounds the game has
  recorded    \* how many rounds are scored and on record

vars == <<phase, round, rounds, recorded>>

Init == phase = "none" /\ round = 0 /\ rounds \in RoundCounts /\ recorded = 0

\* A first player enters, and the last one leaves.
Open ==
  /\ phase = "none" /\ phase' = "lobby"
  /\ rounds' \in RoundCounts
  /\ UNCHANGED <<round, recorded>>

Empty ==
  /\ phase # "none" /\ phase' = "none"
  /\ round' = 0 /\ recorded' = 0
  /\ UNCHANGED rounds

Configure ==
  /\ phase = "lobby"
  /\ rounds' \in RoundCounts
  /\ UNCHANGED <<phase, round, recorded>>

Start ==
  /\ phase = "lobby" /\ phase' = "round"
  /\ round' = 1
  /\ UNCHANGED <<rounds, recorded>>

\* The end of a round: its review, or after the last one the scoring at once.
EndRound ==
  /\ phase = "round"
  /\ phase' = IF round < rounds THEN "review" ELSE "scoring"
  /\ UNCHANGED <<round, rounds, recorded>>

EndReview ==
  /\ phase = "review" /\ phase' = "scoring"
  /\ UNCHANGED <<round, rounds, recorded>>

\* The round goes on record; the next one starts or the game is over.
Record ==
  /\ phase = "scoring"
  /\ recorded' = recorded + 1
  /\ \/ round < rounds /\ phase' = "round" /\ round' = round + 1
     \/ round >= rounds /\ phase' = "over" /\ UNCHANGED round
  /\ UNCHANGED rounds

PlayAgain ==
  /\ phase = "over" /\ phase' = "lobby"
  /\ round' = 0 /\ recorded' = 0
  /\ rounds' \in RoundCounts

\* The host dissolves the room in a review: this game will not go on.
Abandon ==
  /\ phase = "review" /\ phase' = "abandoned"
  /\ UNCHANGED <<round, rounds, recorded>>

Next ==
  \/ Open \/ Empty \/ Configure \/ Start \/ EndRound \/ EndReview \/ Record
  \/ PlayAgain \/ Abandon

Spec == Init /\ [][Next]_vars
=============================================================================
