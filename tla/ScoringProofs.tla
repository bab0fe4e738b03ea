---------------------------- MODULE ScoringProofs ----------------------------
(***************************************************************************)
(* Proofs about module Scoring under specification ResultsSpec, for every  *)
(* set of players, categories, words and forms.  The heart is arithmetic   *)
(* on one category: a cell gets points if and only if its player is in     *)
(* Scoring(given, rejected, c), and the fewer players are in that set the  *)
(* more it gets.  The invariant says what the answers of a review have to  *)
(* do with those the review began with.                                    *)
(***************************************************************************)
EXTENDS Results, TLAPS, FiniteSetTheorems, WellFoundedInduction

\* Forms of some players, every category in its place.
Formed(given) ==
  DOMAIN given \subseteq Players /\ \A p \in DOMAIN given : DOMAIN given[p] = Categories

\* The answers with the rejected things taken out.
Without(given, rejected) ==
  [p \in DOMAIN given |->
     IF p \in rejected THEN [given[p] EXCEPT ![VetoCategory] = Empty] ELSE given[p]]

-----------------------------------------------------------------------------
(* Points of a cell                                                        *)

\* Among the valid, those with the answer of p.
Alike(given, valid, p, c) == {q \in valid : given[q][c] = given[p][c]}

Worth(valid, alike, p) ==
  IF p \notin valid THEN 0
  ELSE IF Cardinality(valid) = 1 THEN 15 ELSE IF Cardinality(alike) = 1 THEN 10 ELSE 5

LEMMA CellPoints ==
  ASSUME NEW given, NEW rejected, NEW p \in DOMAIN given, NEW c \in Categories
  PROVE  /\ DOMAIN Points(given, rejected) = DOMAIN given
         /\ Points(given, rejected)[p][c] =
              Worth(Scoring(given, rejected, c),
                    Alike(given, Scoring(given, rejected, c), p, c), p)
<1>1. Points(given, rejected)[p][c] = PointsIn(given, rejected, c)[p]
  BY DEF Points
<1>2. DOMAIN Points(given, rejected) = DOMAIN given
  BY DEF Points
<1> QED BY <1>1, <1>2 DEF PointsIn, Worth, Alike

\* Points are given to those who are in Scoring, and to nobody else.
LEMMA PositivePoints ==
  ASSUME NEW given, NEW rejected, NEW p \in DOMAIN given, NEW c \in Categories
  PROVE  /\ Points(given, rejected)[p][c] \in {0, 5, 10, 15}
         /\ Points(given, rejected)[p][c] = 0 <=> p \notin Scoring(given, rejected, c)
BY CellPoints DEF Worth

\* The points of answers are made of these alone: who scores, and what is the
\* same as what among them.
LEMMA SamePoints ==
  ASSUME NEW given, NEW other, NEW rejected, DOMAIN other = DOMAIN given,
         \A c \in Categories :
           /\ Scoring(other, {}, c) = Scoring(given, rejected, c)
           /\ \A p \in Scoring(given, rejected, c) : other[p][c] = given[p][c]
  PROVE  Points(other, {}) = Points(given, rejected)
<1>1. ASSUME NEW c \in Categories
      PROVE  PointsIn(other, {}, c) = PointsIn(given, rejected, c)
  <2> DEFINE valid == Scoring(given, rejected, c)
             as(p) == {q \in valid : given[q][c] = given[p][c]}
             by(p) == {q \in valid : other[q][c] = other[p][c]}
             worth(p, n) == IF p \notin valid THEN 0
                            ELSE IF Cardinality(valid) = 1 THEN 15
                            ELSE IF n = 1 THEN 10 ELSE 5
  <2>1. PointsIn(given, rejected, c) = [p \in DOMAIN given |-> worth(p, Cardinality(as(p)))]
    BY DEF PointsIn
  <2>2. PointsIn(other, {}, c) = [p \in DOMAIN given |-> worth(p, Cardinality(by(p)))]
    BY DEF PointsIn
  <2>3. \A p \in valid : as(p) = by(p)
    OBVIOUS
  <2>4. \A p \in DOMAIN given : worth(p, Cardinality(as(p))) = worth(p, Cardinality(by(p)))
    BY <2>3
  <2> HIDE DEF worth, as, by
  <2> QED BY <2>1, <2>2, <2>4
<1> QED BY <1>1 DEF Points

\* A rejected thing is as good as none.
LEMMA RejectedIsMissing ==
  ASSUME NEW given, NEW rejected, Formed(given)
  PROVE  Points(given, rejected) = Points(Without(given, rejected), {})
<1> DEFINE other == Without(given, rejected)
<1>1. DOMAIN other = DOMAIN given
  BY DEF Without
<1>2. ASSUME NEW p \in DOMAIN given, NEW c \in Categories
      PROVE  other[p][c] = IF p \in rejected /\ c = VetoCategory THEN Empty ELSE given[p][c]
  <2>1. DOMAIN given[p] = Categories
    BY DEF Formed
  <2> QED BY <2>1 DEF Without
<1> HIDE DEF other
<1>3. ASSUME NEW c \in Categories
      PROVE  /\ Scoring(other, {}, c) = Scoring(given, rejected, c)
             /\ \A p \in Scoring(given, rejected, c) : other[p][c] = given[p][c]
  <2>1. \A p \in DOMAIN given : ~Valid(c, Empty)
    BY DEF Valid
  <2> QED BY <1>1, <1>2, <2>1 DEF Scoring
<1>4. Points(other, {}) = Points(given, rejected)
  BY <1>1, <1>3, SamePoints
<1> QED BY <1>4 DEF other

\* When players drop out of a category, those who stay in it get no less.
LEMMA FewerMeansMore ==
  ASSUME NEW given, NEW later, NEW rejected, Formed(given),
         NEW p \in DOMAIN given \cap DOMAIN later, NEW c \in Categories,
         Scoring(later, rejected, c) \subseteq Scoring(given, {}, c),
         p \in Scoring(given, {}, c) => p \in Scoring(later, rejected, c),
         \A q \in Scoring(later, rejected, c) : later[q][c] = given[q][c]
  PROVE  Points(later, rejected)[p][c] >= Points(given, {})[p][c]
<1> DEFINE before == Scoring(given, {}, c)
           after  == Scoring(later, rejected, c)
           sameBefore == Alike(given, before, p, c)
           sameAfter  == Alike(later, after, p, c)
<1>1. /\ Points(given, {})[p][c] = Worth(before, sameBefore, p)
      /\ Points(later, rejected)[p][c] = Worth(after, sameAfter, p)
  BY CellPoints
<1>2. CASE p \notin before
  BY <1>1, <1>2 DEF Worth
<1>3. CASE p \in before
  <2>1. p \in after /\ p \in sameBefore /\ p \in sameAfter
    BY <1>3 DEF Alike
  <2>2. after \subseteq before /\ sameAfter \subseteq sameBefore
    BY <2>1 DEF Alike
  <2>3. IsFiniteSet(before) /\ IsFiniteSet(sameBefore)
    <3>1. before \subseteq Players /\ sameBefore \subseteq Players
      BY DEF Formed, Scoring, Alike
    <3> HIDE DEF before, sameBefore
    <3> QED BY <3>1, FS_Subset, ScoringAssumption
  <2> HIDE DEF before, after, sameBefore, sameAfter
  <2>4. ASSUME NEW A, NEW B, IsFiniteSet(B), A \subseteq B, p \in A, Cardinality(B) = 1
        PROVE  Cardinality(A) = 1
    <3>1. PICK x : B = {x}
      BY <2>4, FS_Singleton
    <3>2. A = B
      BY <2>4, <3>1
    <3> QED BY <2>4, <3>2
  <2>5. /\ Cardinality(before) = 1 => Cardinality(after) = 1
        /\ Cardinality(sameBefore) = 1 => Cardinality(sameAfter) = 1
    BY <2>1, <2>2, <2>3, <2>4
  <2> QED BY <1>1, <1>3, <2>1, <2>5 DEF Worth
<1> QED BY <1>2, <1>3

-----------------------------------------------------------------------------
(* The invariant                                                           *)

\* Who is there has a score, and scores are the players'.
PeopleKnown == present \subseteq DOMAIN scores /\ DOMAIN scores \subseteq Players

\* The answers of a review are those it began with, but for the kicked, who are
\* unknown by now; the points shown are for those it began with.
AgreesWithBegin(g) ==
  /\ Formed(g) /\ provisional = Points(g, {})
  /\ DOMAIN answers \subseteq DOMAIN g
  /\ \A p \in DOMAIN answers : answers[p] = g[p]
  /\ \A p \in DOMAIN g \ DOMAIN answers : p \notin DOMAIN scores

ReviewKnowsItsBegin == stage = "review" => \E g : AgreesWithBegin(g)

\* What a finalisation puts down.
Recorded(e) == Formed(e.answers) /\ e.points = Points(e.answers, e.rejected)

History ==
  /\ \E S : history \in Seq(S)
  /\ \A i \in DOMAIN history : Recorded(history[i])

\* The things of a round that got points.
Deserved(e) ==
  {e.answers[p][VetoCategory] : p \in {q \in DOMAIN e.points : e.points[q][VetoCategory] > 0}}

Lexicon == things = UNION {Deserved(e) : e \in {history[i] : i \in DOMAIN history}}

SInv ==
  /\ Formed(answers)
  /\ PeopleKnown
  /\ ReviewKnowsItsBegin
  /\ History
  /\ Lexicon

\* A finalisation of well-formed answers keeps the record and the lexicon.
LEMMA FinalizeKeeps ==
  ASSUME SInv, NEW given, NEW rejected, NEW standing,
         Formed(given), DOMAIN standing \subseteq Players, present' \subseteq DOMAIN standing,
         Finalize(given, rejected, standing)
  PROVE  SInv'
<1> DEFINE e == [answers |-> given, points |-> Points(given, rejected), rejected |-> rejected]
<1>1. /\ things' = things \cup AcceptedThings(given, Points(given, rejected), rejected)
      /\ history' = Append(history, e)
      /\ stage' # "review" /\ answers' \in {given, <<>>}
      /\ DOMAIN scores' = DOMAIN standing \cup DOMAIN given
  BY DEF Finalize
<1>2. e.answers = given /\ e.points = Points(given, rejected) /\ e.rejected = rejected
  OBVIOUS
<1> HIDE DEF e
<1>3. Recorded(e)
  BY <1>2 DEF Recorded
<1>4. PICK S : history \in Seq(S)
  BY DEF SInv, History
<1>5. /\ Len(history) \in Nat /\ DOMAIN history = 1..Len(history)
      /\ DOMAIN history' = DOMAIN history \cup {Len(history) + 1}
      /\ \A i \in DOMAIN history : history'[i] = history[i]
      /\ history'[Len(history) + 1] = e
  BY <1>1, <1>4
<1>6. History'
  <2>1. history \in Seq(S \cup {e})
    <3>1. \A A, B : A \subseteq B /\ history \in Seq(A) => history \in Seq(B)
      OBVIOUS
    <3> QED BY <1>4, <3>1
  <2>2. history' \in Seq(S \cup {e})
    BY <1>1, <2>1
  <2>3. \A i \in DOMAIN history' : Recorded(history'[i])
    BY <1>3, <1>5 DEF SInv, History
  <2> QED BY <2>2, <2>3 DEF History
<1>7. Lexicon'
  <2>1. {history'[i] : i \in DOMAIN history'} = {history[i] : i \in DOMAIN history} \cup {e}
    BY <1>5
  <2>2. AcceptedThings(given, Points(given, rejected), rejected) = Deserved(e)
    <3>1. DOMAIN Points(given, rejected) = DOMAIN given
      BY DEF Points
    <3>2. \A q \in DOMAIN given :
            Points(given, rejected)[q][VetoCategory] > 0 => q \notin rejected
      <4> SUFFICES ASSUME NEW q \in DOMAIN given, Points(given, rejected)[q][VetoCategory] > 0
                   PROVE  q \notin rejected
        OBVIOUS
      <4>1. q \in Scoring(given, rejected, VetoCategory)
        BY PositivePoints, ScoringAssumption
      <4> QED BY <4>1 DEF Scoring
    <3> QED BY <1>2, <3>1, <3>2 DEF AcceptedThings, Deserved
  <2>3. things' = things \cup Deserved(e)
    BY <1>1, <2>2
  <2> HIDE DEF e
  <2> QED BY <2>1, <2>3 DEF SInv, Lexicon
<1>8. Formed(answers)'
  BY <1>1 DEF Formed
<1>9. PeopleKnown' /\ ReviewKnowsItsBegin'
  BY <1>1 DEF PeopleKnown, ReviewKnowsItsBegin, Formed
<1> QED BY <1>6, <1>7, <1>8, <1>9 DEF SInv

\* A review that begins, or the end of the last round.
LEMMA BeginKeeps ==
  ASSUME SInv, NEW given, NEW standing,
         Formed(given), DOMAIN standing \subseteq Players, present' \subseteq DOMAIN standing,
         Begin(given, standing)
  PROVE  SInv'
<1>1. CASE round >= MAX_ROUNDS
  BY <1>1, FinalizeKeeps DEF Begin
<1>2. CASE ~(round >= MAX_ROUNDS)
  <2>1. /\ answers' = given /\ provisional' = Points(given, {}) /\ scores' = standing
        /\ UNCHANGED <<things, history>>
    BY <1>2 DEF Begin
  <2>2. AgreesWithBegin(given)'
    BY <2>1 DEF AgreesWithBegin
  <2>3. ReviewKnowsItsBegin'
    BY <2>2 DEF ReviewKnowsItsBegin
  <2>4. Formed(answers)' /\ PeopleKnown' /\ History' /\ Lexicon'
    BY <2>1 DEF SInv, Formed, PeopleKnown, History, Lexicon
  <2> QED BY <2>3, <2>4 DEF SInv
<1> QED BY <1>1, <1>2

\* The answers of those who are there, or all of them.
LEMMA RosterIsFormed ==
  ASSUME Formed(answers), PeopleKnown
  PROVE  /\ Formed(Roster)
         /\ \A p \in DOMAIN Roster :
              Roster[p] = Nothing \/ (p \in DOMAIN answers /\ Roster[p] = answers[p])
         /\ \A p \in DOMAIN Roster : p \in DOMAIN answers => Roster[p] = answers[p]
         /\ present # {} => DOMAIN Roster = present
         /\ present = {} => Roster = answers
<1>1. DOMAIN Nothing = Categories
  BY DEF Nothing
<1>2. CASE present = {}
  BY <1>2 DEF Roster
<1>3. CASE present # {}
  <2>1. Roster = [p \in present |-> IF p \in DOMAIN answers THEN answers[p] ELSE Nothing]
    BY <1>3 DEF Roster
  <2>2. DOMAIN Roster = present /\ present \subseteq Players
    BY <2>1 DEF PeopleKnown
  <2>3. \A p \in present : Roster[p] = IF p \in DOMAIN answers THEN answers[p] ELSE Nothing
    BY <2>1
  <2>4. Formed(Roster)
    BY <1>1, <2>2, <2>3 DEF Formed
  <2> QED BY <1>3, <2>2, <2>3, <2>4
<1> QED BY <1>2, <1>3

-----------------------------------------------------------------------------
(* The steps                                                               *)

LEMMA AnswerStep ==
  ASSUME SInv, NEW p \in Players, NEW f \in Forms, Answer(p, f)
  PROVE  SInv'
<1> PICK sent : sent = [q \in DOMAIN answers \cup {p} |-> IF q = p THEN f ELSE answers[q]]
  OBVIOUS
<1>1. Formed(sent)
  BY ScoringAssumption DEF SInv, Formed
<1>2. present' = present /\ stage = "round"
  BY DEF Answer
<1>3. CASE present \subseteq DOMAIN sent
  <2> PICK given : given = Restrict(sent, present)
    OBVIOUS
  <2>1. Formed(given)
    BY <1>1, <1>3 DEF Formed, Restrict
  <2> PICK standing : standing = scores
    OBVIOUS
  <2>2. Begin(given, standing)
    BY <1>3 DEF Answer
  <2>3. DOMAIN standing \subseteq Players /\ present' \subseteq DOMAIN standing
    BY <1>2 DEF SInv, PeopleKnown
  <2> QED BY <2>1, <2>2, <2>3, BeginKeeps
<1>4. CASE ~(present \subseteq DOMAIN sent)
  <2>1. answers' = sent /\ UNCHANGED <<stage, round, votes, provisional, scores, things, history>>
    BY <1>4 DEF Answer
  <2>2. Formed(answers)'
    BY <1>1, <2>1 DEF Formed
  <2>3. PeopleKnown' /\ ReviewKnowsItsBegin' /\ History' /\ Lexicon'
    BY <1>2, <2>1 DEF SInv, PeopleKnown, ReviewKnowsItsBegin, History, Lexicon
  <2> QED BY <2>2, <2>3 DEF SInv
<1> QED BY <1>3, <1>4

LEMMA TimeUpStep ==
  ASSUME SInv, TimeUp
  PROVE  SInv'
<1> PICK given : given = Roster
  OBVIOUS
<1> PICK standing : standing = scores
  OBVIOUS
<1>1. Formed(given)
  BY RosterIsFormed DEF SInv
<1>2. Begin(given, standing) /\ present' = present
  BY DEF TimeUp
<1>3. DOMAIN standing \subseteq Players /\ present' \subseteq DOMAIN standing
  BY <1>2 DEF SInv, PeopleKnown
<1> QED BY <1>1, <1>2, <1>3, BeginKeeps

LEMMA ReviewEndsStep ==
  ASSUME SInv, ReviewEnds
  PROVE  SInv'
<1> PICK given : given = Roster
  OBVIOUS
<1> PICK standing : standing = scores
  OBVIOUS
<1> PICK rejected : rejected = VetoedRzeczPlayers
  OBVIOUS
<1>1. Formed(given)
  BY RosterIsFormed DEF SInv
<1>2. Finalize(given, rejected, standing) /\ present' = present
  BY DEF ReviewEnds
<1>3. DOMAIN standing \subseteq Players /\ present' \subseteq DOMAIN standing
  BY <1>2 DEF SInv, PeopleKnown
<1> QED BY <1>1, <1>2, <1>3, FinalizeKeeps

LEMMA KickStep ==
  ASSUME SInv, NEW p \in Players, Kick(p)
  PROVE  SInv'
<1> PICK left : left = Restrict(answers, DOMAIN answers \ {p})
  OBVIOUS
<1> PICK known : known = Restrict(scores, DOMAIN scores \ {p})
  OBVIOUS
<1>1. Formed(left)
  BY DEF SInv, Formed, Restrict
<1>2. present' = present \ {p} /\ DOMAIN known = DOMAIN scores \ {p}
  BY DEF Kick, Restrict
<1>3. DOMAIN known \subseteq Players /\ present' \subseteq DOMAIN known
  BY <1>2 DEF SInv, PeopleKnown
<1>4. CASE stage = "round" /\ present' \subseteq DOMAIN left
  <2> PICK given : given = Restrict(left, present')
    OBVIOUS
  <2>1. Formed(given)
    BY <1>1, <1>4 DEF Formed, Restrict
  <2>2. Begin(given, known)
    BY <1>4 DEF Kick
  <2> QED BY <1>3, <2>1, <2>2, BeginKeeps
<1>5. CASE ~(stage = "round" /\ present' \subseteq DOMAIN left)
  <2>1. /\ answers' = left /\ scores' = known
        /\ UNCHANGED <<stage, round, votes, provisional, things, history>>
    BY <1>5 DEF Kick
  <2>2. ReviewKnowsItsBegin'
    <3> SUFFICES ASSUME stage = "review" PROVE \E g : AgreesWithBegin(g)'
      BY <2>1 DEF ReviewKnowsItsBegin
    <3>1. PICK g : AgreesWithBegin(g)
      BY DEF SInv, ReviewKnowsItsBegin
    <3>2. AgreesWithBegin(g)'
      BY <1>2, <2>1, <3>1 DEF AgreesWithBegin, Restrict
    <3> QED BY <3>2
  <2>3. Formed(answers)' /\ PeopleKnown' /\ History' /\ Lexicon'
    BY <1>1, <1>3, <2>1 DEF SInv, Formed, PeopleKnown, History, Lexicon
  <2> QED BY <2>2, <2>3 DEF SInv
<1> QED BY <1>4, <1>5

\* Votes, departures and returns, and a restart, change no answers and points.
LEMMA OtherStep ==
  ASSUME SInv, UNCHANGED <<stage, answers, provisional, scores, things, history>>,
         present' \subseteq DOMAIN scores
  PROVE  SInv'
BY DEF SInv, Formed, PeopleKnown, ReviewKnowsItsBegin, AgreesWithBegin, History, Lexicon

LEMMA NextStep ==
  ASSUME SInv, Next
  PROVE  SInv'
<1>1. CASE TimeUp \/ ReviewEnds
  BY <1>1, TimeUpStep, ReviewEndsStep
<1>2. ASSUME NEW p \in Players, \E f \in Forms : Answer(p, f)
      PROVE  SInv'
  BY <1>2, AnswerStep
<1>3. ASSUME NEW p \in Players, NEW t \in Players, NEW v \in {"tak", "nie"}, Vote(p, t, v)
      PROVE  SInv'
  BY <1>3, OtherStep DEF Vote, SInv, PeopleKnown
<1>4. ASSUME NEW p \in Players, Leave(p) \/ Return(p)
      PROVE  SInv'
  BY <1>4, OtherStep DEF Leave, Return, SInv, PeopleKnown
<1>5. ASSUME NEW p \in Players, Kick(p)
      PROVE  SInv'
  BY <1>5, KickStep
<1> QED BY <1>1, <1>2, <1>3, <1>4, <1>5 DEF Next

LEMMA Step ==
  ASSUME SInv, [ResultsNext]_resultsVars
  PROVE  SInv'
<1>1. CASE Play
  BY <1>1, NextStep DEF Play
<1>2. ASSUME NEW p \in Players, ConnectAfter(p)
      PROVE  SInv'
  BY <1>2, OtherStep DEF ConnectAfter, SInv, PeopleKnown
<1>3. CASE Restart
  BY <1>3, OtherStep DEF Restart, vars, SInv, PeopleKnown
<1>4. ASSUME NEW p \in Players, Appeal(p)
      PROVE  SInv'
  BY <1>4, OtherStep DEF Appeal, vars, SInv, PeopleKnown
<1>5. CASE UNCHANGED vars
  BY <1>5, OtherStep DEF vars, SInv, PeopleKnown
<1>6. CASE Expire
  <2>1. /\ answers' = <<>> /\ history' = <<>> /\ things' = {} /\ stage' = "round"
        /\ present' = Players /\ DOMAIN scores' = Players
    BY <1>6 DEF Expire
  <2>2. History' /\ Lexicon'
    <3>1. history' \in Seq({}) /\ DOMAIN history' = {}
      BY <2>1
    <3> QED BY <2>1, <3>1 DEF History, Lexicon
  <2> QED BY <2>1, <2>2 DEF SInv, Formed, PeopleKnown, ReviewKnowsItsBegin
<1> QED BY <1>1, <1>2, <1>3, <1>4, <1>5, <1>6 DEF ResultsNext, resultsVars

-----------------------------------------------------------------------------
(* The sum of a form's points                                              *)

\* The sum as the recursion makes it: f holds the sums of the smaller sets.
Picked(S) == CHOOSE c \in S : TRUE
Summed(points, f, S) == IF S = {} THEN 0 ELSE points[Picked(S)] + f[S \ {Picked(S)}]

\* f is right about the sets of at most n categories.
SumsUpTo(points, f, n) ==
  \A S \in SUBSET Categories : Cardinality(S) <= n => f[S] = Summed(points, f, S)

LEMMA TotalIsASum ==
  ASSUME NEW points
  PROVE  Total(points) =
           (CHOOSE f : f = [S \in SUBSET Categories |-> Summed(points, f, S)])[Categories]
BY DEF Total, MapThenSumSet, MapThenFoldSet, Summed, Picked

\* A set without one of its members is smaller.
LEMMA SmallerWithout ==
  ASSUME NEW S \in SUBSET Categories
  PROVE  /\ Cardinality(S) \in Nat
         /\ S = {} <=> Cardinality(S) = 0
         /\ S # {} => /\ Picked(S) \in S
                      /\ S \ {Picked(S)} \in SUBSET Categories
                      /\ Cardinality(S \ {Picked(S)}) = Cardinality(S) - 1
<1>1. IsFiniteSet(S)
  BY ScoringAssumption, FS_Subset
<1>2. Cardinality(S) \in Nat /\ (Cardinality(S) = 0 <=> S = {})
  BY <1>1, FS_CardinalityType, FS_EmptySet
<1>3. ASSUME S # {} PROVE Picked(S) \in S
  BY <1>3 DEF Picked
<1>4. ASSUME S # {} PROVE Cardinality(S \ {Picked(S)}) = Cardinality(S) - 1
  BY <1>1, <1>3, <1>4, FS_RemoveElement
<1> QED BY <1>2, <1>3, <1>4

\* A number that has a property, and so a least one: what the proofs by
\* contradiction below start from.
LEMMA LeastExists ==
  ASSUME NEW T \in SUBSET Nat, T # {}
  PROVE  \E n \in T : \A m \in T : n <= m
<1>1. PICK n \in T : \A m \in T : <<m, n>> \notin OpToRel(<, Nat)
  BY WFMin, NatLessThanWellFounded
<1>2. \A m \in T : ~(m < n)
  BY <1>1, Zenon DEF OpToRel
<1> QED BY <1>2

\* There is a function that the recursion defines.
LEMMA SumsExist ==
  ASSUME NEW points
  PROVE  \E f : f = [S \in SUBSET Categories |-> Summed(points, f, S)]
<1> DEFINE Wrong == {n \in Nat : \A f : ~SumsUpTo(points, f, n)}
<1>1. Wrong = {}
  <2> SUFFICES ASSUME Wrong # {} PROVE FALSE
    OBVIOUS
  <2>1. PICK n \in Wrong : \A m \in Wrong : n <= m
    <3>1. Wrong \in SUBSET Nat
      OBVIOUS
    <3> HIDE DEF Wrong
    <3> QED BY <3>1, LeastExists
  <2>2. CASE n = 0
    <3> DEFINE f == [S \in SUBSET Categories |-> 0]
    <3>1. SumsUpTo(points, f, 0)
      <4> SUFFICES ASSUME NEW S \in SUBSET Categories, Cardinality(S) <= 0
                   PROVE  f[S] = Summed(points, f, S)
        BY DEF SumsUpTo
      <4>1. Cardinality(S) \in Nat /\ (S = {} <=> Cardinality(S) = 0)
        BY SmallerWithout
      <4>2. S = {}
        BY <4>1
      <4> QED BY <4>2 DEF Summed
    <3> QED BY <2>2, <3>1
  <2>3. CASE n # 0
    <3>1. n - 1 \in Nat /\ n - 1 \notin Wrong
      BY <2>1, <2>3
    <3>2. PICK f : SumsUpTo(points, f, n - 1)
      BY <3>1
    <3> DEFINE g == [S \in SUBSET Categories |-> Summed(points, f, S)]
    <3>3. \A S \in SUBSET Categories : Cardinality(S) <= n - 1 => g[S] = f[S]
      BY <3>2 DEF SumsUpTo
    <3>4. ASSUME NEW S \in SUBSET Categories, Cardinality(S) <= n
          PROVE  g[S] = Summed(points, g, S)
      <4>1. CASE S = {}
        BY <4>1 DEF Summed
      <4>2. CASE S # {}
        <5>1. /\ S \ {Picked(S)} \in SUBSET Categories
              /\ Cardinality(S \ {Picked(S)}) <= n - 1
          BY <3>1, <3>4, <4>2, SmallerWithout
        <5>2. g[S \ {Picked(S)}] = f[S \ {Picked(S)}]
          BY <3>3, <5>1
        <5>3. g[S] = Summed(points, f, S)
          OBVIOUS
        <5> HIDE DEF g
        <5> QED BY <5>2, <5>3 DEF Summed
      <4> QED BY <4>1, <4>2
    <3>5. SumsUpTo(points, g, n)
      <4> HIDE DEF g
      <4> QED BY <3>4 DEF SumsUpTo
    <3>6. n \notin Wrong
      <4> HIDE DEF g
      <4> QED BY <3>5
    <3> QED BY <3>6
  <2> QED BY <2>2, <2>3
<1>2. Cardinality(Categories) \in Nat
  BY ScoringAssumption, FS_CardinalityType
<1>3. PICK f : SumsUpTo(points, f, Cardinality(Categories))
  BY <1>1, <1>2
<1> DEFINE g == [S \in SUBSET Categories |-> Summed(points, f, S)]
<1>4. \A S \in SUBSET Categories : g[S] = f[S]
  <2>1. \A S \in SUBSET Categories : Cardinality(S) <= Cardinality(Categories)
    BY ScoringAssumption, FS_Subset
  <2> QED BY <1>3, <2>1 DEF SumsUpTo
<1>5. ASSUME NEW S \in SUBSET Categories
      PROVE  Summed(points, f, S) = Summed(points, g, S)
  <2>1. S # {} => f[S \ {Picked(S)}] = g[S \ {Picked(S)}]
    BY <1>4
  <2> HIDE DEF g
  <2> QED BY <2>1 DEF Summed
<1>6. g = [S \in SUBSET Categories |-> Summed(points, g, S)]
  <2> DEFINE h == [S \in SUBSET Categories |-> Summed(points, g, S)]
  <2>1. \A S \in SUBSET Categories : h[S] = g[S]
    BY <1>5
  <2> QED BY <2>1
<1> HIDE DEF g
<1> QED BY <1>6

\* The sum of points is a number.
LEMMA TotalIsANumber ==
  ASSUME NEW points, \A c \in Categories : points[c] \in Nat
  PROVE  Total(points) \in Nat
<1> PICK sum : sum = (CHOOSE f : f = [S \in SUBSET Categories |-> Summed(points, f, S)])
  OBVIOUS
<1>1. \A S \in SUBSET Categories : sum[S] = Summed(points, sum, S)
  <2>1. sum = [S \in SUBSET Categories |-> Summed(points, sum, S)]
    BY SumsExist
  <2> QED BY <2>1
<1> DEFINE Wrong == {Cardinality(S) : S \in {R \in SUBSET Categories : sum[R] \notin Nat}}
<1>2. Wrong = {}
  <2> SUFFICES ASSUME Wrong # {} PROVE FALSE
    OBVIOUS
  <2>1. PICK n \in Wrong : \A m \in Wrong : n <= m
    <3>1. \A S \in SUBSET Categories : Cardinality(S) \in Nat
      BY SmallerWithout
    <3>2. Wrong \in SUBSET Nat
      BY <3>1
    <3> HIDE DEF Wrong
    <3> QED BY <3>2, LeastExists
  <2>2. PICK S \in SUBSET Categories : n = Cardinality(S) /\ sum[S] \notin Nat
    OBVIOUS
  <2>3. S # {}
    <3>1. sum[S] = Summed(points, sum, S)
      BY <1>1
    <3> QED BY <2>2, <3>1 DEF Summed
  <2>4. /\ Picked(S) \in Categories /\ S \ {Picked(S)} \in SUBSET Categories
        /\ Cardinality(S \ {Picked(S)}) = n - 1 /\ n \in Nat
    BY <2>2, <2>3, SmallerWithout
  <2>5. n - 1 \notin Wrong
    <3> HIDE DEF Wrong
    <3> QED BY <2>1, <2>4
  <2>6. sum[S \ {Picked(S)}] \in Nat
    BY <2>4, <2>5
  <2>7. sum[S] = points[Picked(S)] + sum[S \ {Picked(S)}]
    BY <1>1, <2>3 DEF Summed
  <2> QED BY <2>2, <2>4, <2>6, <2>7
<1>3. sum[Categories] \in Nat
  BY <1>2
<1> QED BY <1>3, TotalIsASum

-----------------------------------------------------------------------------
(* Types                                                                   *)

Graded == Cells({0, 5, 10, 15})

\* The votes and the bounds, which a finalisation leaves typed by itself.
Bounded == formsSent \in 0..MaxForms /\ leaves \in 0..MaxLeaves

LEMMA PointsTyped ==
  ASSUME NEW given, NEW rejected, DOMAIN given \subseteq Players
  PROVE  PerPlayer(Points(given, rejected), Graded)
<1>1. DOMAIN Points(given, rejected) = DOMAIN given
  BY DEF Points
<1>2. ASSUME NEW p \in DOMAIN given
      PROVE  Points(given, rejected)[p] \in Graded
  <2>1. Points(given, rejected)[p] = [c \in Categories |-> PointsIn(given, rejected, c)[p]]
    BY DEF Points
  <2>2. \A c \in Categories : Points(given, rejected)[p][c] \in {0, 5, 10, 15}
    BY PositivePoints
  <2>3. \A c \in Categories : PointsIn(given, rejected, c)[p] \in {0, 5, 10, 15}
    BY <2>1, <2>2
  <2> QED BY <2>1, <2>3 DEF Graded, Cells
<1> QED BY <1>1, <1>2 DEF PerPlayer

LEMMA RosterTyped ==
  ASSUME SInv, TypeOK
  PROVE  PerPlayer(Roster, Cells(Answers))
<1>1. Nothing \in Cells(Answers)
  BY DEF Nothing, Cells, Answers
<1>2. PerPlayer(answers, Cells(Answers))
  BY DEF TypeOK
<1>3. Formed(Roster) /\ \A p \in DOMAIN Roster :
        Roster[p] = Nothing \/ (p \in DOMAIN answers /\ Roster[p] = answers[p])
  BY RosterIsFormed DEF SInv
<1> QED BY <1>1, <1>2, <1>3 DEF PerPlayer, Formed

\* A form that is sent is an answer for every category.
LEMMA FormsTyped == Forms \subseteq Cells(Answers)
<1> SUFFICES ASSUME NEW f \in Forms PROVE f \in Cells(Answers)
  OBVIOUS
<1>1. f = [c \in Categories |-> f[c]]
  BY ScoringAssumption
<1>2. \A c \in Categories : f[c] \in Answers
  BY DEF Answers
<1> QED BY <1>1, <1>2 DEF Cells

LEMMA FinalizeTyped ==
  ASSUME SInv, TypeOK, stage # "over", NEW given, NEW rejected, NEW standing,
         PerPlayer(given, Cells(Answers)), PerPlayer(standing, Nat),
         present' \subseteq DOMAIN standing, Bounded',
         Finalize(given, rejected, standing)
  PROVE  TypeOK'
<1> DEFINE points == Points(given, rejected)
<1>0. /\ round \in 1..MAX_ROUNDS /\ Len(history) = round - 1
      /\ MAX_ROUNDS \in Nat
  BY ScoringAssumption DEF TypeOK
<1>1. PerPlayer(points, Graded) /\ DOMAIN points = DOMAIN given
  BY PointsTyped DEF PerPlayer, Points
<1>2. ASSUME NEW p \in DOMAIN given PROVE Total(points[p]) \in Nat
  <2>1. points[p] \in Graded
    BY <1>1, <1>2 DEF PerPlayer
  <2>2. \A c \in Categories : points[p][c] \in Nat
    BY <2>1 DEF Graded, Cells
  <2> HIDE DEF points
  <2> QED BY <2>2, TotalIsANumber
<1> HIDE DEF points
<1>3. present' \subseteq DOMAIN scores' /\ PerPlayer(scores', Nat)
  <2>1. scores' = [p \in DOMAIN standing \cup DOMAIN given |->
                     (IF p \in DOMAIN standing THEN standing[p] ELSE 0)
                       + (IF p \in DOMAIN given THEN Total(points[p]) ELSE 0)]
    BY DEF Finalize, points
  <2>2. DOMAIN scores' = DOMAIN standing \cup DOMAIN given
    BY <2>1
  <2>3. \A p \in DOMAIN standing : standing[p] \in Nat
    BY DEF PerPlayer
  <2>4. \A p \in DOMAIN scores' : scores'[p] \in Nat
    BY <1>2, <2>1, <2>3
  <2> QED BY <2>2, <2>4 DEF PerPlayer
<1>4. /\ things' = things \cup AcceptedThings(given, points, rejected)
      /\ votes' = NoVotes /\ provisional' = <<>>
      /\ history' = Append(history, [answers |-> given, points |-> points,
                                     rejected |-> rejected])
  BY DEF Finalize, points
<1>5. things' \subseteq Answers
  <2>1. \A p \in DOMAIN given : given[p][VetoCategory] \in Answers
    BY ScoringAssumption DEF PerPlayer, Cells
  <2>2. AcceptedThings(given, points, rejected) \subseteq Answers
    BY <2>1 DEF AcceptedThings
  <2> QED BY <1>4, <2>2 DEF TypeOK
<1>6. Len(history') = round
  <2>1. PICK S : history \in Seq(S)
    BY DEF SInv, History
  <2> QED BY <1>0, <1>4, <2>1
<1>7. PerPlayer(answers', Cells(Answers))
  <2>1. answers' = given \/ answers' = <<>>
    BY DEF Finalize
  <2> QED BY <2>1 DEF PerPlayer
<1>8. /\ stage' \in {"round", "over"} /\ round' \in 1..MAX_ROUNDS
      /\ Len(history') = IF stage' = "over" THEN round' ELSE round' - 1
  BY <1>0, <1>6 DEF Finalize
<1>9. /\ DOMAIN votes' = Players
      /\ \A t \in Players : PerPlayer(votes'[t], {"tak", "nie"}) /\ t \notin DOMAIN votes'[t]
      /\ PerPlayer(provisional', Cells({0, 5, 10, 15}))
  BY <1>4 DEF NoVotes, PerPlayer
<1> QED BY <1>3, <1>5, <1>7, <1>8, <1>9 DEF TypeOK, Bounded, PerPlayer, Cells, Answers

LEMMA BeginTyped ==
  ASSUME SInv, TypeOK, stage # "over", NEW given, NEW standing,
         PerPlayer(given, Cells(Answers)), PerPlayer(standing, Nat),
         present' \subseteq DOMAIN standing, Bounded',
         Begin(given, standing)
  PROVE  TypeOK'
<1>1. CASE round >= MAX_ROUNDS
  BY <1>1, FinalizeTyped DEF Begin
<1>2. CASE ~(round >= MAX_ROUNDS)
  <2>1. /\ stage' = "review" /\ answers' = given /\ votes' = NoVotes
        /\ provisional' = Points(given, {}) /\ scores' = standing
        /\ round' = round /\ things' = things /\ history' = history
    BY <1>2 DEF Begin
  <2>2. PerPlayer(provisional', Cells({0, 5, 10, 15}))
    BY <2>1, PointsTyped DEF PerPlayer, Graded
  <2>3. /\ DOMAIN votes' = Players
        /\ \A t \in Players : PerPlayer(votes'[t], {"tak", "nie"}) /\ t \notin DOMAIN votes'[t]
    BY <2>1 DEF NoVotes, PerPlayer
  <2>4. /\ PerPlayer(answers', Cells(Answers)) /\ PerPlayer(scores', Nat)
        /\ present' \subseteq DOMAIN scores'
    BY <2>1
  <2> QED BY <2>1, <2>2, <2>3, <2>4 DEF TypeOK, Bounded, PerPlayer, Cells, Answers
<1> QED BY <1>1, <1>2

LEMMA AnswerTyped ==
  ASSUME SInv, TypeOK, NEW p \in Players, NEW f \in Forms, Answer(p, f)
  PROVE  TypeOK'
<1> PICK sent : sent = [q \in DOMAIN answers \cup {p} |-> IF q = p THEN f ELSE answers[q]]
  OBVIOUS
<1>1. PerPlayer(sent, Cells(Answers))
  <2>1. f \in Cells(Answers)
    BY FormsTyped
  <2> QED BY <2>1 DEF TypeOK, PerPlayer
<1>2. present' = present /\ stage = "round"
  BY DEF Answer
<1>3. Bounded'
  BY ScoringAssumption DEF TypeOK, Answer, Bounded
<1>4. CASE present \subseteq DOMAIN sent
  <2> PICK given : given = Restrict(sent, present)
    OBVIOUS
  <2>1. PerPlayer(given, Cells(Answers))
    BY <1>1, <1>4 DEF PerPlayer, Restrict
  <2> PICK standing : standing = scores
    OBVIOUS
  <2>2. Begin(given, standing)
    BY <1>4 DEF Answer
  <2>3. PerPlayer(standing, Nat) /\ present' \subseteq DOMAIN standing
    BY <1>2 DEF TypeOK
  <2> QED BY <1>2, <1>3, <2>1, <2>2, <2>3, BeginTyped
<1>5. CASE ~(present \subseteq DOMAIN sent)
  <2>1. answers' = sent /\ UNCHANGED <<stage, round, votes, provisional, scores, things, history>>
    BY <1>5 DEF Answer
  <2>2. PerPlayer(answers', Cells(Answers))
    BY <1>1, <2>1
  <2> QED BY <1>2, <1>3, <2>1, <2>2 DEF TypeOK, Bounded, PerPlayer, Cells, Answers
<1> QED BY <1>4, <1>5

LEMMA RoundEndTyped ==
  ASSUME SInv, TypeOK, TimeUp \/ ReviewEnds
  PROVE  TypeOK'
<1> PICK given : given = Roster
  OBVIOUS
<1> PICK standing : standing = scores
  OBVIOUS
<1> PICK rejected : rejected = VetoedRzeczPlayers
  OBVIOUS
<1>1. PerPlayer(given, Cells(Answers))
  BY RosterTyped
<1>2. /\ stage # "over" /\ present' = present
      /\ Begin(given, standing) \/ Finalize(given, rejected, standing)
  BY DEF TimeUp, ReviewEnds
<1>3. PerPlayer(standing, Nat) /\ present' \subseteq DOMAIN standing
  BY <1>2 DEF TypeOK
<1>4. Bounded'
  BY DEF TypeOK, Bounded, TimeUp, ReviewEnds
<1> QED BY <1>1, <1>2, <1>3, <1>4, BeginTyped, FinalizeTyped

LEMMA VoteTyped ==
  ASSUME TypeOK, NEW p \in Players, NEW t \in Players, NEW v \in {"tak", "nie"}, Vote(p, t, v)
  PROVE  TypeOK'
<1>1. votes' = [votes EXCEPT ![t] = [q \in DOMAIN votes[t] \cup {p} |->
                                       IF q = p THEN v ELSE votes[t][q]]]
  BY DEF Vote
<1>2. p # t
  BY DEF Vote, MayVoteOn
<1>3. /\ DOMAIN votes = Players
      /\ \A s \in Players : PerPlayer(votes[s], {"tak", "nie"}) /\ s \notin DOMAIN votes[s]
  BY DEF TypeOK
<1>4. DOMAIN votes' = Players
  BY <1>1, <1>3
<1>5. ASSUME NEW s \in Players
      PROVE  PerPlayer(votes'[s], {"tak", "nie"}) /\ s \notin DOMAIN votes'[s]
  <2>1. CASE s = t
    <3>1. votes'[s] = [q \in DOMAIN votes[t] \cup {p} |-> IF q = p THEN v ELSE votes[t][q]]
      BY <1>1, <1>3, <2>1
    <3> QED BY <1>2, <1>3, <2>1, <3>1 DEF PerPlayer
  <2>2. CASE s # t
    BY <1>1, <1>3, <2>2
  <2> QED BY <2>1, <2>2
<1>6. UNCHANGED <<stage, round, present, answers, provisional, scores, things, history,
                  formsSent, leaves>>
  BY DEF Vote
<1> QED BY <1>4, <1>5, <1>6 DEF TypeOK, PerPlayer, Cells, Answers

LEMMA KickTyped ==
  ASSUME SInv, TypeOK, NEW p \in Players, Kick(p)
  PROVE  TypeOK'
<1> PICK left : left = Restrict(answers, DOMAIN answers \ {p})
  OBVIOUS
<1> PICK known : known = Restrict(scores, DOMAIN scores \ {p})
  OBVIOUS
<1>1. PerPlayer(left, Cells(Answers)) /\ PerPlayer(known, Nat)
  BY DEF TypeOK, PerPlayer, Restrict
<1>2. present' = present \ {p} /\ DOMAIN known = DOMAIN scores \ {p}
  BY DEF Kick, Restrict
<1>3. present' \subseteq DOMAIN known
  BY <1>2 DEF TypeOK
<1>4. Bounded'
  BY ScoringAssumption DEF TypeOK, Kick, Bounded
<1>5. CASE stage = "round" /\ present' \subseteq DOMAIN left
  <2> PICK given : given = Restrict(left, present')
    OBVIOUS
  <2>1. PerPlayer(given, Cells(Answers))
    BY <1>1, <1>5 DEF PerPlayer, Restrict
  <2>2. Begin(given, known)
    BY <1>5 DEF Kick
  <2> QED BY <1>1, <1>3, <1>4, <1>5, <2>1, <2>2, BeginTyped
<1>6. CASE ~(stage = "round" /\ present' \subseteq DOMAIN left)
  <2>1. /\ answers' = left /\ scores' = known
        /\ UNCHANGED <<stage, round, votes, provisional, things, history>>
    BY <1>6 DEF Kick
  <2> QED BY <1>1, <1>3, <1>4, <2>1 DEF TypeOK, Bounded, PerPlayer, Cells, Answers
<1> QED BY <1>5, <1>6

\* Departures and returns, appeals and a restart.
LEMMA OtherTyped ==
  ASSUME TypeOK, Bounded', present' \subseteq DOMAIN scores,
         UNCHANGED <<stage, round, answers, votes, provisional, scores, things, history>>
  PROVE  TypeOK'
BY DEF TypeOK, Bounded, PerPlayer, Cells, Answers

LEMMA ExpireTyped ==
  ASSUME TypeOK, Expire
  PROVE  TypeOK'
<1>1. /\ stage' = "round" /\ round' = 1 /\ present' = Players
      /\ answers' = <<>> /\ provisional' = <<>> /\ history' = <<>>
      /\ scores' = [p \in Players |-> 0] /\ things' = {} /\ votes' = votes
      /\ formsSent' = 0 /\ leaves' = 0
  BY DEF Expire
<1>2. Len(history') = 0
  BY <1>1
<1>3. /\ DOMAIN votes = Players
      /\ \A t \in Players : PerPlayer(votes[t], {"tak", "nie"}) /\ t \notin DOMAIN votes[t]
  BY DEF TypeOK
<1> QED BY <1>1, <1>2, <1>3, ScoringAssumption DEF TypeOK, PerPlayer

LEMMA TypedNext ==
  ASSUME SInv, TypeOK, Next
  PROVE  TypeOK'
<1>1. CASE TimeUp \/ ReviewEnds
  BY <1>1, RoundEndTyped
<1>2. ASSUME NEW p \in Players, \E f \in Forms : Answer(p, f)
      PROVE  TypeOK'
  BY <1>2, AnswerTyped
<1>3. ASSUME NEW p \in Players, NEW t \in Players, NEW v \in {"tak", "nie"}, Vote(p, t, v)
      PROVE  TypeOK'
  BY <1>3, VoteTyped
<1>4. ASSUME NEW p \in Players, Leave(p) \/ Return(p)
      PROVE  TypeOK'
  <2>1. Bounded' /\ present' \subseteq DOMAIN scores
    BY <1>4, ScoringAssumption DEF TypeOK, Bounded, Leave, Return
  <2> QED BY <1>4, <2>1, OtherTyped DEF Leave, Return
<1>5. ASSUME NEW p \in Players, Kick(p)
      PROVE  TypeOK'
  BY <1>5, KickTyped
<1> QED BY <1>1, <1>2, <1>3, <1>4, <1>5 DEF Next

LEMMA TypedStep ==
  ASSUME SInv, TypeOK, [ResultsNext]_resultsVars
  PROVE  TypeOK'
<1>0. Bounded
  BY DEF TypeOK, Bounded
<1>1. CASE Play
  BY <1>1, TypedNext DEF Play
<1>2. ASSUME NEW p \in Players, ConnectAfter(p)
      PROVE  TypeOK'
  BY <1>0, <1>2, OtherTyped DEF ConnectAfter, TypeOK, Bounded
<1>3. CASE UNCHANGED vars
  BY <1>0, <1>3, OtherTyped DEF vars, TypeOK, Bounded
<1>4. CASE Expire
  BY <1>4, ExpireTyped
<1> QED BY <1>1, <1>2, <1>3, <1>4 DEF ResultsNext, resultsVars, Restart, Appeal

-----------------------------------------------------------------------------
(* The theorems                                                            *)

\* The invariant of the game, through appeals and restarts.
THEOREM ScoringInvariant == ResultsSpec => []SInv
<1>1. ResultsInit => SInv
  <2> SUFFICES ASSUME Init PROVE SInv
    BY DEF ResultsInit
  <2>1. history \in Seq({}) /\ DOMAIN history = {}
    BY DEF Init
  <2> QED BY <2>1 DEF Init, SInv, Formed, PeopleKnown, ReviewKnowsItsBegin, History, Lexicon
<1>2. SInv /\ [ResultsNext]_resultsVars => SInv'
  BY Step
<1> QED BY <1>1, <1>2, PTL DEF ResultsSpec

\* Points and scores are numbers, nobody votes on an answer of their own, and there
\* is one entry on record for every round played.
THEOREM ScoringTyped == ResultsSpec => []TypeOK
<1>1. ResultsInit => TypeOK
  <2> SUFFICES ASSUME Init PROVE TypeOK
    BY DEF ResultsInit
  <2>1. Len(history) = 0
    BY DEF Init
  <2> QED BY <2>1, ScoringAssumption DEF Init, TypeOK, PerPlayer, NoVotes
<1>2. SInv /\ TypeOK /\ [ResultsNext]_resultsVars => TypeOK'
  BY TypedStep
<1> QED BY <1>1, <1>2, ScoringInvariant, PTL DEF ResultsSpec

\* For the others, a rejected thing is as good as one never given: every round
\* on record has the points of the answers without it.
THEOREM RejectedIsNoAnswer == ResultsSpec => []RejectedCountsAsMissing
<1>1. SInv => RejectedCountsAsMissing
  <2> SUFFICES ASSUME SInv, NEW i \in DOMAIN history
               PROVE  history[i].points = Points(Without(history[i].answers, history[i].rejected), {})
    BY DEF RejectedCountsAsMissing, Without
  <2>1. Recorded(history[i])
    BY DEF SInv, History
  <2> QED BY <2>1, RejectedIsMissing DEF Recorded
<1> QED BY <1>1, ScoringInvariant, PTL

\* The lexicon has what got points in some round, and nothing else.
THEOREM LexiconSound == ResultsSpec => []LexiconIsDeserved
<1>1. SInv => LexiconIsDeserved
  BY DEF SInv, Lexicon, Deserved, LexiconIsDeserved
<1> QED BY <1>1, ScoringInvariant, PTL

\* The reason an appeal gives for 0 points is the reason there was: the two
\* copies of the rules agree.
THEOREM ReasonsAreTrue == ResultsSpec => []ZeroIsExplained
<1>1. SInv => ZeroIsExplained
  <2> SUFFICES ASSUME SInv, NEW i \in DOMAIN history,
                      NEW p \in DOMAIN history[i].points, NEW c \in Categories,
                      history[i].points[p][c] = 0
               PROVE  LET e == history[i]
                          a == e.answers[p][c]
                          reason == Reason(c, a, p \in e.rejected)
                      IN  /\ reason = "veto_rejected" => c = VetoCategory /\ p \in e.rejected
                          /\ reason = "not_in_dictionary" =>
                               /\ a \notin Dictionary \cup WrongLetter \cup {Empty}
                               /\ c \in FaunaFlora => a \notin TooShort
    BY DEF ZeroIsExplained
  <2>1. Recorded(history[i])
    BY DEF SInv, History
  <2>2. p \in DOMAIN history[i].answers
    BY <2>1 DEF Recorded, Points
  <2>3. p \notin Scoring(history[i].answers, history[i].rejected, c)
    BY <2>1, <2>2, PositivePoints DEF Recorded
  <2>4. \/ ~Valid(c, history[i].answers[p][c])
        \/ c = VetoCategory /\ p \in history[i].rejected
    BY <2>2, <2>3 DEF Scoring
  <2> QED BY <2>4, ScoringAssumption DEF Valid, Reason
<1> QED BY <1>1, ScoringInvariant, PTL

\* A review takes points from the answers it rejects, and from no others.
THEOREM ReviewIsFair == ResultsSpec => ReviewOnlyAddsElsewhere
<1> DEFINE Fair ==
      stage = "review" /\ history' # history =>
        LET e == history'[Len(history')]
        IN  \A p \in DOMAIN provisional \cap DOMAIN e.points, c \in Categories :
              c # VetoCategory \/ p \notin e.rejected
                => e.points[p][c] >= provisional[p][c]
<1>1. SInv /\ [ResultsNext]_resultsVars => [Fair]_vars
  <2> SUFFICES ASSUME SInv, ResultsNext, stage = "review", history' # history
               PROVE  Fair
    BY DEF resultsVars, vars
  <2>1. ReviewEnds
    <3>1. Next
      BY DEF ResultsNext, Play, ConnectAfter, Appeal, Restart, Expire, vars
    <3> QED BY <3>1 DEF Next, Answer, TimeUp, Vote, Leave, Return, Kick
  <2> PICK given : given = Roster
    OBVIOUS
  <2> PICK rejected : rejected = VetoedRzeczPlayers
    OBVIOUS
  <2> DEFINE e == history'[Len(history')]
  <2>2. e.points = Points(given, rejected) /\ e.rejected = rejected
    <3>1. PICK S : history \in Seq(S)
      BY DEF SInv, History
    <3>2. PICK n : n = [answers |-> given, points |-> Points(given, rejected), rejected |-> rejected]
      OBVIOUS
    <3>3. history' = Append(history, n)
      BY <2>1, <3>2 DEF ReviewEnds, Finalize
    <3>4. e = n
      BY <3>1, <3>3
    <3> QED BY <3>2, <3>4
  <2>3. PICK g : AgreesWithBegin(g)
    BY DEF SInv, ReviewKnowsItsBegin
  <2>4. Formed(g) /\ provisional = Points(g, {}) /\ DOMAIN provisional = DOMAIN g
    BY <2>3 DEF AgreesWithBegin, Points
  <2>5. DOMAIN Points(given, rejected) = DOMAIN given
    BY DEF Points
  <2>6. ASSUME NEW q \in DOMAIN given
        PROVE  given[q] = Nothing \/ (q \in DOMAIN g /\ given[q] = g[q])
    <3>1. given[q] = Nothing \/ (q \in DOMAIN answers /\ given[q] = answers[q])
      BY RosterIsFormed DEF SInv
    <3> QED BY <2>3, <3>1 DEF AgreesWithBegin
  <2>7. ASSUME NEW q \in DOMAIN given \cap DOMAIN g
        PROVE  given[q] = g[q]
    <3>1. q \in DOMAIN answers
      BY <2>3, RosterIsFormed DEF SInv, AgreesWithBegin, PeopleKnown
    <3> QED BY <2>3, <3>1, RosterIsFormed DEF SInv, AgreesWithBegin
  <2>8. \A c \in Categories : ~Valid(c, Nothing[c])
    BY DEF Valid, Nothing
  <2>9. ASSUME NEW p \in DOMAIN g \cap DOMAIN given, NEW c \in Categories,
               c # VetoCategory \/ p \notin rejected
        PROVE  Points(given, rejected)[p][c] >= Points(g, {})[p][c]
    <3>1. Scoring(given, rejected, c) \subseteq Scoring(g, {}, c)
      BY <2>6, <2>8 DEF Scoring
    <3>2. \A q \in Scoring(given, rejected, c) : given[q][c] = g[q][c]
      BY <2>6, <2>8 DEF Scoring
    <3>3. p \in Scoring(g, {}, c) => p \in Scoring(given, rejected, c)
      BY <2>7, <2>9 DEF Scoring
    <3> QED BY <2>4, <3>1, <3>2, <3>3, FewerMeansMore
  <2> QED BY <2>2, <2>4, <2>5, <2>9
<1> HIDE DEF Fair
<1>2. ResultsSpec => [][Fair]_vars
  BY <1>1, ScoringInvariant, PTL DEF ResultsSpec
<1> QED BY <1>2 DEF Fair, ReviewOnlyAddsElsewhere
=============================================================================
