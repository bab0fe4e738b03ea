----------------------------- MODULE LetterDeck -----------------------------
(***************************************************************************)
(* The deck of letters of one room (manager.py, class Room).               *)
(*                                                                         *)
(* letter_queue is a shuffled deck, drawn from its END, and recent_letters *)
(* a deque(maxlen=RECENT_LETTERS_MEMORY) of the letters drawn last.  A     *)
(* round draws one letter; an exhausted deck is shuffled anew with the     *)
(* recent letters at its bottom.  A new game in the same room goes on with *)
(* the deck it finds (restart_game refills nothing), so one action, the    *)
(* start of a round, is all that ever happens to a deck.                   *)
(***************************************************************************)
EXTENDS Integers, Sequences, FiniteSets

CONSTANTS
  ALPHABET,               \* the letters of the game (22 of them)
  RECENT_LETTERS_MEMORY   \* how many drawn letters are remembered (7)

\* The code's values, 22 and 7, satisfy this.  A deck shorter than twice the
\* memory would bring the recent letters back before they are forgotten.
ASSUME DeckAssumption ==
  /\ IsFiniteSet(ALPHABET)
  /\ RECENT_LETTERS_MEMORY \in Nat \ {0}
  /\ 2 * RECENT_LETTERS_MEMORY <= Cardinality(ALPHABET)

DeckSize == Cardinality(ALPHABET)

VARIABLES
  letter_queue,    \* the deck, its last element is drawn next
  recent_letters   \* the letters drawn last, the newest at the end

vars == <<letter_queue, recent_letters>>

Letters(s) == {s[i] : i \in DOMAIN s}

\* Two different places of s hold different letters.
Distinct(s) == \A i, j \in DOMAIN s : s[i] = s[j] => i = j

\* Mutants of Shuffles: the recent letters on top of the deck (fresh and stale
\* joined the wrong way round), and a shuffle that forgets the memory.
ShufflesRecentOnTop(recent) ==
  {deck \in [1..DeckSize -> ALPHABET] :
     /\ Distinct(deck)
     /\ \A i, j \in 1..DeckSize :
          deck[i] \in Letters(recent) /\ deck[j] \notin Letters(recent)
            => i > j}
ShufflesAll(recent) == {deck \in [1..DeckSize -> ALPHABET] : Distinct(deck)}

\* Room._refill_letter_queue: every letter once, in an arbitrary order, but
\* the recent ones below (that is, before) all the others.
Shuffles(recent) ==
  {deck \in [1..DeckSize -> ALPHABET] :
     /\ Distinct(deck)
     /\ \A i, j \in 1..DeckSize :
          deck[i] \in Letters(recent) /\ deck[j] \notin Letters(recent)
            => i < j}

\* Mutant of Remember: a deque without maxlen.
RememberAll(recent, letter) == Append(recent, letter)

\* deque.append under maxlen: the oldest letter makes room for the newest.
Remember(recent, letter) ==
  Append(IF Len(recent) < RECENT_LETTERS_MEMORY THEN recent ELSE Tail(recent),
         letter)

\* Mutant of DrawFrom: letter_queue[-1] in place of letter_queue.pop().
PeekAt(deck) ==
  /\ letter_queue' = deck
  /\ recent_letters' = Remember(recent_letters, deck[Len(deck)])

\* letter_queue.pop() and _recent_letters.append(letter) of start_round.
DrawFrom(deck) ==
  /\ letter_queue' = SubSeq(deck, 1, Len(deck) - 1)
  /\ recent_letters' = Remember(recent_letters, deck[Len(deck)])

-----------------------------------------------------------------------------
\* Room.__init__: nothing drawn yet, a first shuffle.
Init ==
  /\ recent_letters = <<>>
  /\ letter_queue \in Shuffles(<<>>)

\* The part of Room.start_round that draws the letter of the round.
DrawLetter ==
  \/ /\ letter_queue # <<>>
     /\ DrawFrom(letter_queue)
  \/ /\ letter_queue = <<>>
     /\ \E deck \in Shuffles(recent_letters) : DrawFrom(deck)

Next == DrawLetter

Spec == Init /\ [][Next]_vars

-----------------------------------------------------------------------------
TypeOK ==
  /\ letter_queue \in Seq(ALPHABET)
  /\ recent_letters \in Seq(ALPHABET)
  /\ Len(letter_queue) <= DeckSize
  /\ Len(recent_letters) <= RECENT_LETTERS_MEMORY

LiesDeep(deck, recent) ==
  \A i \in DOMAIN deck, j \in DOMAIN recent :
    deck[i] = recent[j] =>
      i + j <= Len(deck) + Len(recent) - RECENT_LETTERS_MEMORY

\* A letter that is still remembered lies so deep in the deck that it will be
\* forgotten before it is drawn: the letter at place i of the deck is drawn
\* after Len(letter_queue) - i other draws, by which time the memory has
\* dropped its place j.  This is what "recent letters at the BOTTOM" of
\* _refill_letter_queue buys, at every point of a cycle and across cycles.
RecentLiesDeep == LiesDeep(letter_queue, recent_letters)

\* No letter is in the deck twice, and the memory holds no letter twice.
DeckWithoutRepeats == Distinct(letter_queue) /\ Distinct(recent_letters)

\* The comment on RECENT_LETTERS_MEMORY and CHANGELOG 0.3.0: the letter a round
\* draws is none of the last RECENT_LETTERS_MEMORY letters drawn in the room,
\* whether the deck was just reshuffled, half drawn, or went over to a new game.
DrawsNoRecentLetter ==
  [][recent_letters'[Len(recent_letters')] \notin Letters(recent_letters)]_vars
=============================================================================
