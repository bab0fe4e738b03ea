------------------------------- MODULE Scoring -------------------------------
(***************************************************************************)
(* The answers of a round, the review with its votes on the answers in the *)
(* category Rzecz, the points, the lexicon of accepted things, and what is *)
(* kept of a round for the appeals (manager.py: veto_tallies up to         *)
(* compute_round_scores; handlers.py: handle_answers, handle_veto_vote,    *)
(* the two ends of the review; things_lexicon.py; appeals_explain.py).     *)
(*                                                                         *)
(* An answer is one of a few words, which differ in what the rules ask of  *)
(* them; raw spellings of one normalised word count as that word.  The     *)
(* timing of the rounds is module Room's concern: a finalisation is one    *)
(* step here.  A vote on a custom category does not get past the message's *)
(* validation (ws_messages.py, VetoVoteMessage), so there are none.        *)
(***************************************************************************)
EXTENDS Naturals, FiniteSets, Sequences, FiniteSetsExt, Functions

CONSTANTS
  Players,
  MAX_ROUNDS,
  Categories,          \* the room's categories
  VetoCategory,        \* VETO_CATEGORY
  FaunaFlora,          \* _FAUNA_FLORA
  Empty,               \* no answer
  WrongLetter,         \* answers with another letter than the round's
  TooShort,            \* answers shorter than two characters
  Dictionary,          \* answers the word lists accept
  Forms,               \* the forms the players send: [Categories -> answers]
  MaxForms,            \* bound on the forms sent in a game
  MaxLeaves            \* bound on the sockets closed in a game

ASSUME ScoringAssumption ==
  /\ IsFiniteSet(Players) /\ IsFiniteSet(Categories) /\ MAX_ROUNDS \in Nat \ {0}
  /\ VetoCategory \in Categories /\ FaunaFlora \subseteq Categories \ {VetoCategory}
  /\ \A f \in Forms : f = [c \in Categories |-> f[c]]
  /\ MaxForms \in Nat /\ MaxLeaves \in Nat

VARIABLES
  stage,               \* "round", "review" or "over"
  round,
  present,             \* connections
  answers,             \* answers_received: [of some players -> form]
  votes,               \* veto_votes: [target -> [voter -> vote]]
  provisional,         \* provisional_round_scores
  scores,
  things,              \* the table things
  history,             \* round_history
  formsSent, leaves    \* counters for the bounds

vars == <<stage, round, present, answers, votes, provisional, scores, things, history,
          formsSent, leaves>>

Nothing == [c \in Categories |-> Empty]
NoVotes == [t \in Players |-> <<>>]

-----------------------------------------------------------------------------
(* Validity, votes and points                                              *)

\* _fill_base_scores and _calculate_base_category_score.
Valid(c, a) ==
  /\ a # Empty /\ a \notin WrongLetter
  /\ c \in FaunaFlora => a \notin TooShort
  /\ c = VetoCategory \/ a \in Dictionary

Count(v, target) == Cardinality({p \in DOMAIN votes[target] : votes[target][p] = v})

\* vetoed_rzecz_players.
VetoedRzeczPlayers ==
  {p \in DOMAIN answers :
     answers[p][VetoCategory] # Empty /\ Count("nie", p) > Count("tak", p)}

\* sync_results_roster.
Roster ==
  IF present = {} THEN answers
  ELSE [p \in present |-> IF p \in DOMAIN answers THEN answers[p] ELSE Nothing]

\* Mutant: rejected answers still make those of the others common.
Contenders(given, rejected, c) == {p \in DOMAIN given : Valid(c, given[p][c])}

\* Mutant: a rejected thing costs the player the other answers as well.
Unrejected(given, rejected, c) ==
  {p \in DOMAIN given : Valid(c, given[p][c]) /\ p \notin rejected}

\* The players whose answer is to get points.
Scoring(given, rejected, c) ==
  {p \in DOMAIN given : Valid(c, given[p][c]) /\ ~(c = VetoCategory /\ p \in rejected)}

\* _assign_round_points of one category.
PointsIn(given, rejected, c) ==
  LET valid == Scoring(given, rejected, c)
      same(p) == {q \in valid : given[q][c] = given[p][c]}
  IN  [p \in DOMAIN given |->
         IF p \notin valid THEN 0
         ELSE IF Cardinality(valid) = 1 THEN 15
         ELSE IF Cardinality(same(p)) = 1 THEN 10 ELSE 5]

\* compute_round_scores.
Points(given, rejected) ==
  [p \in DOMAIN given |-> [c \in Categories |-> PointsIn(given, rejected, c)[p]]]

Total(points) == MapThenSumSet(LAMBDA c : points[c], Categories)

\* Mutant: a rejected thing is written down all the same.
AllThings(given, points, rejected) ==
  {given[p][VetoCategory] : p \in {q \in DOMAIN given :
                                     Valid(VetoCategory, given[q][VetoCategory])}}

\* persist_accepted_things.
AcceptedThings(given, points, rejected) ==
  {given[p][VetoCategory] : p \in {q \in DOMAIN given \ rejected :
                                     points[q][VetoCategory] > 0}}

\* Mutant: the word lists come before the length.
ReasonListFirst(c, a, vetoed) ==
  IF a = Empty THEN "empty"
  ELSE IF a \in WrongLetter THEN "wrong_letter"
  ELSE IF c # VetoCategory /\ a \notin Dictionary THEN "not_in_dictionary"
  ELSE "veto_rejected"

\* explain_zero_score.
Reason(c, a, vetoed) ==
  IF a = Empty THEN "empty"
  ELSE IF a \in WrongLetter THEN "wrong_letter"
  ELSE IF c \in FaunaFlora /\ a \in TooShort THEN "too_short"
  ELSE IF c = VetoCategory /\ vetoed THEN "veto_rejected"
  ELSE IF c # VetoCategory /\ a \notin Dictionary THEN "not_in_dictionary"
  ELSE IF c = VetoCategory THEN "veto_rejected" ELSE "not_in_dictionary"

-----------------------------------------------------------------------------
(* The round and its review                                                *)

Init ==
  /\ stage = "round" /\ round = 1
  /\ present = Players
  /\ answers = <<>> /\ votes = NoVotes /\ provisional = <<>>
  /\ scores = [p \in Players |-> 0]
  /\ things = {} /\ history = <<>>
  /\ formsSent = 0 /\ leaves = 0

\* _finalize_results_phase of these answers, up to the next round or the end of
\* the game; standing is the scores so far.
Finalize(given, rejected, standing) ==
  LET points == Points(given, rejected)
  IN  /\ scores' = [p \in DOMAIN standing \cup DOMAIN given |->
                      (IF p \in DOMAIN standing THEN standing[p] ELSE 0)
                        + (IF p \in DOMAIN given THEN Total(points[p]) ELSE 0)]
      /\ things' = things \cup AcceptedThings(given, points, rejected)
      /\ history' = Append(history, [answers |-> given, points |-> points,
                                     rejected |-> rejected])
      /\ votes' = NoVotes /\ provisional' = <<>>
      /\ IF round >= MAX_ROUNDS
         THEN stage' = "over" /\ answers' = given /\ UNCHANGED round
         ELSE stage' = "round" /\ round' = round + 1 /\ answers' = <<>>

\* _begin_results_phase: a review, but for the last round.
Begin(given, standing) ==
  IF round >= MAX_ROUNDS
  THEN Finalize(given, {}, standing)
  ELSE /\ stage' = "review"
       /\ answers' = given
       /\ votes' = NoVotes /\ provisional' = Points(given, {})
       /\ scores' = standing
       /\ UNCHANGED <<round, things, history>>

\* handle_answers; the last one to answer ends the round.
Answer(p, form) ==
  /\ stage = "round" /\ p \in present /\ formsSent < MaxForms
  /\ formsSent' = formsSent + 1
  /\ LET sent == [q \in DOMAIN answers \cup {p} |-> IF q = p THEN form ELSE answers[q]]
     IN  IF present \subseteq DOMAIN sent
         THEN Begin(Restrict(sent, present), scores)
         ELSE /\ answers' = sent
              /\ UNCHANGED <<stage, round, votes, provisional, scores, things, history>>
  /\ UNCHANGED <<present, leaves>>

\* The time is up, or the stop phase over, before all have answered.
TimeUp ==
  /\ stage = "round" /\ present # {}
  /\ Begin(Roster, scores)
  /\ UNCHANGED <<present, formsSent, leaves>>

\* Mutant: players may vote on their own answer.
AnyAnswer(p, target) ==
  target \in DOMAIN answers /\ answers[target][VetoCategory] # Empty

MayVoteOn(p, target) ==
  /\ target # p /\ target \in DOMAIN answers
  /\ answers[target][VetoCategory] # Empty

\* handle_veto_vote.
Vote(p, target, v) ==
  /\ stage = "review" /\ p \in present /\ MayVoteOn(p, target)
  /\ votes' = [votes EXCEPT ![target] =
                 [q \in DOMAIN @ \cup {p} |-> IF q = p THEN v ELSE @[q]]]
  /\ UNCHANGED <<stage, round, present, answers, provisional, scores, things, history,
                 formsSent, leaves>>

\* _results_phase_countdown is over.
ReviewEnds ==
  /\ stage = "review"
  /\ Finalize(Roster, VetoedRzeczPlayers, scores)
  /\ UNCHANGED <<present, formsSent, leaves>>

\* A socket is closed, and comes back.
Leave(p) ==
  /\ stage # "over" /\ p \in present /\ present # {p} /\ leaves < MaxLeaves
  /\ present' = present \ {p} /\ leaves' = leaves + 1
  /\ UNCHANGED <<stage, round, answers, votes, provisional, scores, things, history,
                 formsSent>>

Return(p) ==
  /\ stage # "over" /\ p \notin present /\ p \in DOMAIN scores
  /\ present' = present \cup {p}
  /\ UNCHANGED <<stage, round, answers, votes, provisional, scores, things, history,
                 formsSent, leaves>>

\* kick_player: the answers go, the votes stay; the last answer missing may
\* have been this player's.
Kick(p) ==
  /\ stage # "over" /\ p \in present /\ present # {p} /\ leaves < MaxLeaves
  /\ present' = present \ {p} /\ leaves' = leaves + 1
  /\ LET left  == Restrict(answers, DOMAIN answers \ {p})
         known == Restrict(scores, DOMAIN scores \ {p})
     IN  IF stage = "round" /\ present' \subseteq DOMAIN left
         THEN Begin(Restrict(left, present'), known)
         ELSE /\ answers' = left /\ scores' = known
              /\ UNCHANGED <<stage, round, votes, provisional, things, history>>
  /\ UNCHANGED formsSent

Next ==
  \/ \E p \in Players :
       \/ \E f \in Forms : Answer(p, f)
       \/ \E t \in Players, v \in {"tak", "nie"} : Vote(p, t, v)
       \/ Leave(p) \/ Return(p) \/ Kick(p)
  \/ TimeUp \/ ReviewEnds

Spec == Init /\ [][Next]_vars

-----------------------------------------------------------------------------
Answers == {Empty} \cup WrongLetter \cup TooShort \cup Dictionary
             \cup UNION {{f[c] : c \in Categories} : f \in Forms}
Cells(S) == [Categories -> S]
PerPlayer(f, S) == DOMAIN f \subseteq Players /\ \A p \in DOMAIN f : f[p] \in S

TypeOK ==
  /\ stage \in {"round", "review", "over"} /\ round \in 1..MAX_ROUNDS
  /\ present \subseteq DOMAIN scores /\ PerPlayer(scores, Nat)
  /\ PerPlayer(answers, Cells(Answers))
  /\ DOMAIN votes = Players
  /\ \A t \in Players : PerPlayer(votes[t], {"tak", "nie"}) /\ t \notin DOMAIN votes[t]
  /\ PerPlayer(provisional, Cells({0, 5, 10, 15}))
  /\ things \subseteq Answers
  /\ Len(history) = IF stage = "over" THEN round ELSE round - 1
  /\ formsSent \in 0..MaxForms /\ leaves \in 0..MaxLeaves

\* compute_round_scores takes the rejected answers away before it compares: for
\* the others, a rejected answer is as good as one never given.
RejectedCountsAsMissing ==
  \A i \in DOMAIN history :
    LET e == history[i]
        missing == [p \in DOMAIN e.answers |->
                      IF p \in e.rejected
                      THEN [e.answers[p] EXCEPT ![VetoCategory] = Empty] ELSE e.answers[p]]
    IN  e.points = Points(missing, {})

\* The review takes points only from the answers it rejects: what another cell
\* was shown to be worth when the review began, it is worth at least when it
\* ends, whoever has left, come back or been kicked in between.
ReviewOnlyAddsElsewhere ==
  [][stage = "review" /\ history' # history =>
       LET e == history'[Len(history')]
       IN  \A p \in DOMAIN provisional \cap DOMAIN e.points, c \in Categories :
             c # VetoCategory \/ p \notin e.rejected
               => e.points[p][c] >= provisional[p][c]]_vars

\* A cell with 0 points has the reason the appeal gives: the players' votes only
\* if there was such a vote, the word lists only if they are all that the answer
\* lacked, which is what makes it worth suggesting (appeals_llm.py).
ZeroIsExplained ==
  \A i \in DOMAIN history : \A p \in DOMAIN history[i].points, c \in Categories :
    LET e == history[i]
        a == e.answers[p][c]
        reason == Reason(c, a, p \in e.rejected)
    IN  e.points[p][c] = 0 =>
          /\ reason = "veto_rejected" => c = VetoCategory /\ p \in e.rejected
          /\ reason = "not_in_dictionary" =>
               /\ a \notin Dictionary \cup WrongLetter \cup {Empty}
               /\ c \in FaunaFlora => a \notin TooShort

\* A thing is in the lexicon if and only if somebody got points for it in some
\* round, the votes against the same thing of somebody else notwithstanding.
LexiconIsDeserved ==
  things = UNION {{e.answers[p][VetoCategory] :
                     p \in {q \in DOMAIN e.points : e.points[q][VetoCategory] > 0}} :
                  e \in {history[i] : i \in DOMAIN history}}
=============================================================================
