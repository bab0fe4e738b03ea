------------------------------- MODULE Results -------------------------------
(***************************************************************************)
(* After the game: a finished game of module Scoring, the appeals of its   *)
(* players against cells with 0 points (appeals_service.py; the language   *)
(* model that appeals_llm.py asks is external), and the word queue of      *)
(* module WordQueue that an appeal may add to.                             *)
(*                                                                         *)
(* An appeal needs the token of a player of the room (appeal_tokens.py),   *)
(* which those connected get when the game ends and others when they come  *)
(* back.  Tokens are in the server's memory only; the transcript is in the *)
(* database.  Game and queue share nothing but the appeals, so the queue   *)
(* is set to work when the transcript is gone.                             *)
(***************************************************************************)
EXTENDS Scoring, WordQueue

VARIABLES
  tokens,              \* _tokens: the players who hold one for this room
  open,                \* the room is in memory
  expired              \* the transcript has been purged

resultsVars == <<vars, queueVars, tokens, open, expired>>

ResultsInit == Init /\ QueueInit /\ tokens = {} /\ open = TRUE /\ expired = FALSE

\* A step of the game; at its end everybody present gets a token.
Play ==
  /\ ~expired /\ Next
  /\ tokens' = IF stage' = "over" THEN present' ELSE tokens
  /\ UNCHANGED <<queueVars, open, expired>>

\* A known player's connect after the game (_send_initial_state).
ConnectAfter(p) ==
  /\ stage = "over" /\ open /\ p \in DOMAIN scores \ present
  /\ present' = present \cup {p} /\ tokens' = tokens \cup {p}
  /\ UNCHANGED <<stage, round, answers, votes, provisional, scores, things, history,
                 formsSent, leaves, queueVars, open, expired>>

\* The server restarts: the room of a finished game is not loaded again.
Restart ==
  /\ stage = "over" /\ open
  /\ open' = FALSE /\ tokens' = {}
  /\ UNCHANGED <<vars, queueVars, expired>>

\* The cells that an appeal can be about.
Refused ==
  {cell \in (DOMAIN history) \X Players \X Categories :
     LET points == history[cell[1]].points
     IN  cell[2] \in DOMAIN points /\ points[cell[2]][cell[3]] = 0}

\* submit_appeal of a cell the word lists refused, and the model is for it: it
\* proposes the answer or another word.
Appeal(p) ==
  /\ stage = "over" /\ p \in tokens
  /\ \E cell \in Refused :
       LET e == history[cell[1]]
           a == e.answers[p][cell[3]]
       IN  /\ cell[2] = p /\ cell[3] # VetoCategory
           /\ Reason(cell[3], a, p \in e.rejected) = "not_in_dictionary"
           /\ \E w \in Words \cup {a} : SuggestWord(w)
  /\ UNCHANGED <<vars, tokens, open, expired>>

\* purge_stale_game_transcripts; the tokens are long expired.
Expire ==
  /\ stage = "over" /\ ~open /\ tokens = {}
  /\ expired' = TRUE
  /\ stage' = "round" /\ round' = 1 /\ present' = Players
  /\ answers' = <<>> /\ provisional' = <<>> /\ history' = <<>>
  /\ scores' = [p \in Players |-> 0] /\ things' = {}
  /\ formsSent' = 0 /\ leaves' = 0
  /\ UNCHANGED <<votes, queueVars, tokens, open>>

ResultsNext ==
  \/ Play \/ Restart \/ Expire
  \/ \E p \in Players : ConnectAfter(p) \/ Appeal(p)
  \/ expired /\ QueueNext /\ UNCHANGED <<vars, tokens, open, expired>>

ResultsSpec == ResultsInit /\ [][ResultsNext]_resultsVars
=============================================================================
