-------------------------- MODULE LetterDeckProofs --------------------------
(***************************************************************************)
(* For every alphabet and every memory of at most half its size, a room    *)
(* never draws a letter it still remembers.  The inductive invariant is    *)
(* the one TLC checks, RecentLiesDeep with DeckWithoutRepeats; the only    *)
(* fact about finite sets it needs is that the recent letters, all at the  *)
(* bottom of a new deck, fill no more places than the memory has.          *)
(***************************************************************************)
EXTENDS LetterDeck, FiniteSetTheorems, SequenceTheorems, TLAPS

IInv == TypeOK /\ RecentLiesDeep /\ DeckWithoutRepeats

\* The size of a finite deck is a natural number, at least twice the memory.
LEMMA DeckSizeNat ==
  /\ DeckSize \in Nat
  /\ RECENT_LETTERS_MEMORY \in Nat \ {0}
  /\ 2 * RECENT_LETTERS_MEMORY <= DeckSize
BY DeckAssumption, FS_CardinalityType DEF DeckSize

\* A shuffle is a sequence of DeckSize letters without a repeat.
LEMMA ShuffleIsDeck ==
  ASSUME NEW recent, NEW deck \in Shuffles(recent)
  PROVE  /\ deck \in Seq(ALPHABET)
         /\ Len(deck) = DeckSize
         /\ Distinct(deck)
BY DeckSizeNat DEF Shuffles

\* The recent letters of a new deck sit at the places no higher than their
\* number: below such a letter there are only recent letters, each of them at
\* one place (a pigeonhole argument).
LEMMA StaleAtBottom ==
  ASSUME NEW recent \in Seq(ALPHABET), NEW deck \in Shuffles(recent),
         NEW i \in 1..DeckSize, deck[i] \in Letters(recent)
  PROVE  i <= Len(recent)
<1>1. \A k \in 1..i : deck[k] \in Letters(recent)
  BY DeckSizeNat DEF Shuffles
<1>2. \A k \in 1..i : \E j \in 1..Len(recent) : deck[k] = recent[j]
  BY <1>1 DEF Letters
<1> DEFINE f == [k \in 1..i |-> CHOOSE j \in 1..Len(recent) : deck[k] = recent[j]]
<1>3. \A k \in 1..i : f[k] \in 1..Len(recent) /\ deck[k] = recent[f[k]]
  BY <1>2
<1>4. f \in Injection(1..i, 1..Len(recent))
  <2>1. f \in [1..i -> 1..Len(recent)]
    BY <1>3
  <2>2. \A k, l \in 1..i : f[k] = f[l] => k = l
    BY <1>3, DeckSizeNat DEF Shuffles, Distinct
  <2> QED BY <2>1, <2>2 DEF Injection, IsInjective
<1>5. /\ IsFiniteSet(1..i) /\ Cardinality(1..i) = i
      /\ IsFiniteSet(1..Len(recent)) /\ Cardinality(1..Len(recent)) = Len(recent)
  <2>1. 1 \in Int /\ i \in Int /\ 1 <= i /\ Len(recent) \in Nat
    BY DeckSizeNat
  <2>2. \A n \in Nat : IsFiniteSet(1..n) /\ Cardinality(1..n) = n
    <3> TAKE n \in Nat
    <3>1. IsFiniteSet(1..n) /\ Cardinality(1..n) = IF 1 > n THEN 0 ELSE n - 1 + 1
      BY FS_Interval, 1 \in Int, n \in Int
    <3> QED BY <3>1
  <2> QED BY <2>1, <2>2
<1>6. Cardinality(1..i) <= Cardinality(1..Len(recent))
  BY <1>4, <1>5, FS_Injection
<1> QED BY <1>5, <1>6

-----------------------------------------------------------------------------
\* A new deck keeps the remembered letters deep enough: the i-th and j-th
\* places that share a letter are both within the memory's length, and the
\* deck is at least twice as long.
LEMMA ShuffleLiesDeep ==
  ASSUME NEW recent \in Seq(ALPHABET), Len(recent) <= RECENT_LETTERS_MEMORY,
         NEW deck \in Shuffles(recent)
  PROVE  LiesDeep(deck, recent)
<1> SUFFICES ASSUME NEW i \in DOMAIN deck, NEW j \in DOMAIN recent,
                    deck[i] = recent[j]
             PROVE  i + j <= Len(deck) + Len(recent) - RECENT_LETTERS_MEMORY
  BY DEF LiesDeep
<1>1. Len(deck) = DeckSize /\ i \in 1..DeckSize /\ j \in 1..Len(recent)
  BY ShuffleIsDeck, DeckSizeNat
<1>2. i <= Len(recent)
  BY <1>1, StaleAtBottom DEF Letters
<1> QED BY <1>1, <1>2, DeckSizeNat

\* list.pop(): all but the last element stay, each at its place.
LEMMA Popped ==
  ASSUME NEW deck \in Seq(ALPHABET), Len(deck) \in Nat \ {0}
  PROVE  LET rest == SubSeq(deck, 1, Len(deck) - 1)
         IN  /\ rest \in Seq(ALPHABET) /\ Len(rest) = Len(deck) - 1
             /\ \A i \in 1..Len(deck) - 1 : rest[i] = deck[i]
<1> DEFINE n == Len(deck)
           rest == SubSeq(deck, 1, n - 1)
           size == Len(rest)
<1>1. 1 \in Int /\ n - 1 \in Int /\ \A i \in 1..n - 1 : deck[i] \in ALPHABET
  OBVIOUS
<1>2. /\ rest \in Seq(ALPHABET)
      /\ size = IF 1 <= n - 1 THEN (n - 1) - 1 + 1 ELSE 0
      /\ \A i \in 1..(n - 1) - 1 + 1 : rest[i] = deck[1 + i - 1]
  BY <1>1, SubSeqProperties
<1>3. n \in Nat \ {0}
  OBVIOUS
<1> HIDE DEF n, rest, size
<1>4. size = n - 1
  BY <1>2, <1>3
<1>5. \A i \in 1..n - 1 : i \in 1..(n - 1) - 1 + 1 /\ 1 + i - 1 = i
  BY <1>3
<1>6. \A i \in 1..n - 1 : rest[i] = deck[i]
  BY <1>2, <1>5
<1> QED BY <1>2, <1>4, <1>6 DEF n, rest, size

\* What one draw from a good deck does: the letter drawn is none of the
\* remembered ones, and deck and memory are good again.
LEMMA GoodDraw ==
  ASSUME TypeOK, Distinct(recent_letters),
         NEW deck \in Seq(ALPHABET), Len(deck) \in 1..DeckSize,
         Distinct(deck), LiesDeep(deck, recent_letters), DrawFrom(deck)
  PROVE  /\ IInv'
         /\ recent_letters'[Len(recent_letters')] \notin Letters(recent_letters)
<1> DEFINE n == Len(deck)
           m == Len(recent_letters)
           k == Len(recent_letters')
<1> USE DeckSizeNat
<1>1. /\ n \in Nat \ {0} /\ n <= DeckSize
      /\ m \in Nat /\ m <= RECENT_LETTERS_MEMORY
      /\ recent_letters \in Seq(ALPHABET)
  BY DEF TypeOK
<1>2. \A j \in 1..m : deck[n] # recent_letters[j]
  BY <1>1 DEF LiesDeep
<1>3. /\ letter_queue' \in Seq(ALPHABET) /\ Len(letter_queue') = n - 1
      /\ \A i \in 1..n - 1 : letter_queue'[i] = deck[i]
  BY <1>1, Popped DEF DrawFrom
<1>a. Distinct(letter_queue')
  <2>1. DOMAIN letter_queue' = 1..n - 1 /\ 1..n - 1 \subseteq DOMAIN deck
    BY <1>1, <1>3
  <2>2. \A i, j \in 1..n - 1 : deck[i] = deck[j] => i = j
    BY <2>1 DEF Distinct
  <2> QED BY <1>3, <2>1, <2>2 DEF Distinct
<1>b. \A i \in 1..n - 1 : deck[i] # deck[n]
  <2>1. DOMAIN deck = 1..n
    BY <1>1
  <2> QED BY <1>1, <2>1 DEF Distinct
<1>c. \A i \in 1..n - 1, j \in 1..m :
        deck[i] = recent_letters[j] => i + j <= n + m - RECENT_LETTERS_MEMORY
  <2>1. DOMAIN deck = 1..n /\ DOMAIN recent_letters = 1..m
    BY <1>1
  <2> QED BY <1>1, <2>1 DEF LiesDeep
<1>d. \A i, j \in 1..m : recent_letters[i] = recent_letters[j] => i = j
  <2>1. DOMAIN recent_letters = 1..m
    BY <1>1
  <2> QED BY <2>1 DEF Distinct
<1>4. CASE m < RECENT_LETTERS_MEMORY
  <2>1. recent_letters' = Append(recent_letters, deck[n])
    BY <1>4 DEF DrawFrom, Remember
  <2>2. /\ recent_letters' \in Seq(ALPHABET) /\ k = m + 1
        /\ \A j \in 1..m : recent_letters'[j] = recent_letters[j]
        /\ recent_letters'[m + 1] = deck[n]
    BY <1>1, <2>1
  <2>3. TypeOK'
    BY <1>1, <1>3, <1>4, <2>2 DEF TypeOK
  <2>4. DeckWithoutRepeats'
    <3>1. SUFFICES ASSUME NEW i \in 1..m + 1, NEW j \in 1..m + 1,
                          recent_letters'[i] = recent_letters'[j]
                   PROVE  i = j
      <4>1. DOMAIN recent_letters' = 1..m + 1
        BY <1>1, <2>2
      <4> QED BY <1>a, <4>1 DEF DeckWithoutRepeats, Distinct
    <3>2. CASE i # m + 1 /\ j # m + 1
      BY <1>1, <1>d, <2>2, <3>1, <3>2
    <3>3. CASE i = m + 1 \/ j = m + 1
      BY <1>1, <1>2, <2>2, <3>1, <3>3
    <3> QED BY <3>2, <3>3
  <2>5. RecentLiesDeep'
    <3>1. SUFFICES ASSUME NEW i \in 1..n - 1, NEW j \in 1..m + 1,
                          deck[i] = recent_letters'[j]
                   PROVE  i + j <= (n - 1) + k - RECENT_LETTERS_MEMORY
      <4>1. DOMAIN recent_letters' = 1..m + 1 /\ DOMAIN letter_queue' = 1..n - 1
        BY <1>1, <1>3, <2>2
      <4> QED BY <1>3, <4>1 DEF RecentLiesDeep, LiesDeep
    <3>2. CASE j = m + 1
      BY <1>b, <2>2, <3>1, <3>2
    <3>3. CASE j # m + 1
      <4>1. j \in 1..m /\ deck[i] = recent_letters[j]
        BY <1>1, <2>2, <3>1, <3>3
      <4>2. i + j <= n + m - RECENT_LETTERS_MEMORY
        BY <1>c, <4>1, <3>1
      <4> QED BY <1>1, <1>4, <2>2, <4>2
    <3> QED BY <3>2, <3>3
  <2>6. recent_letters'[k] \notin Letters(recent_letters)
    BY <1>1, <1>2, <2>2 DEF Letters
  <2> QED BY <2>3, <2>4, <2>5, <2>6 DEF IInv
<1>5. CASE m = RECENT_LETTERS_MEMORY
  <2>1. recent_letters' = Append(Tail(recent_letters), deck[n])
    BY <1>1, <1>5 DEF DrawFrom, Remember
  <2>2. /\ recent_letters' \in Seq(ALPHABET) /\ k = m
        /\ \A j \in 1..m - 1 : recent_letters'[j] = recent_letters[j + 1]
        /\ recent_letters'[m] = deck[n]
    BY <1>1, <1>5, <2>1
  <2>3. TypeOK'
    BY <1>1, <1>3, <1>5, <2>2 DEF TypeOK
  <2>4. DeckWithoutRepeats'
    <3>1. SUFFICES ASSUME NEW i \in 1..m, NEW j \in 1..m,
                          recent_letters'[i] = recent_letters'[j]
                   PROVE  i = j
      <4>1. DOMAIN recent_letters' = 1..m
        BY <1>1, <2>2
      <4> QED BY <1>a, <4>1 DEF DeckWithoutRepeats, Distinct
    <3>2. CASE i # m /\ j # m
      BY <1>1, <1>d, <2>2, <3>1, <3>2
    <3>3. CASE i = m \/ j = m
      BY <1>1, <1>2, <2>2, <3>1, <3>3
    <3> QED BY <3>2, <3>3
  <2>5. RecentLiesDeep'
    <3>1. SUFFICES ASSUME NEW i \in 1..n - 1, NEW j \in 1..m,
                          deck[i] = recent_letters'[j]
                   PROVE  i + j <= (n - 1) + k - RECENT_LETTERS_MEMORY
      <4>1. DOMAIN recent_letters' = 1..m /\ DOMAIN letter_queue' = 1..n - 1
        BY <1>1, <1>3, <2>2
      <4> QED BY <1>3, <4>1 DEF RecentLiesDeep, LiesDeep
    <3>2. CASE j = m
      BY <1>b, <2>2, <3>1, <3>2
    <3>3. CASE j # m
      <4>1. j + 1 \in 1..m /\ deck[i] = recent_letters[j + 1]
        BY <1>1, <2>2, <3>1, <3>3
      <4>2. i + (j + 1) <= n + m - RECENT_LETTERS_MEMORY
        BY <1>c, <4>1, <3>1
      <4> QED BY <1>1, <1>5, <2>2, <4>2
    <3> QED BY <3>2, <3>3
  <2>6. recent_letters'[k] \notin Letters(recent_letters)
    BY <1>1, <1>2, <2>2 DEF Letters
  <2> QED BY <2>3, <2>4, <2>5, <2>6 DEF IInv
<1> QED BY <1>1, <1>4, <1>5

\* Every draw, from the deck at hand or from a new one.
LEMMA DrawStep ==
  ASSUME IInv, DrawLetter
  PROVE  /\ IInv'
         /\ recent_letters'[Len(recent_letters')] \notin Letters(recent_letters)
<1>1. TypeOK /\ Distinct(recent_letters) /\ Distinct(letter_queue)
  BY DEF IInv, DeckWithoutRepeats
<1>2. CASE letter_queue # <<>> /\ DrawFrom(letter_queue)
  <2>1. letter_queue \in Seq(ALPHABET) /\ Len(letter_queue) \in 1..DeckSize
    BY <1>1, <1>2, DeckSizeNat DEF TypeOK
  <2> QED BY <1>1, <1>2, <2>1, GoodDraw DEF IInv, RecentLiesDeep
<1>3. ASSUME NEW deck \in Shuffles(recent_letters), DrawFrom(deck)
      PROVE  /\ IInv'
             /\ recent_letters'[Len(recent_letters')] \notin Letters(recent_letters)
  <2>1. deck \in Seq(ALPHABET) /\ Len(deck) \in 1..DeckSize /\ Distinct(deck)
    BY ShuffleIsDeck, DeckSizeNat
  <2>2. LiesDeep(deck, recent_letters)
    BY <1>1, ShuffleLiesDeep DEF TypeOK
  <2> QED BY <1>1, <1>3, <2>1, <2>2, GoodDraw
<1> QED BY <1>2, <1>3 DEF DrawLetter

\* The deck and the memory are well formed, without repeats, and the
\* remembered letters lie deep, in every reachable state.
THEOREM DeckInvariant == Spec => []IInv
<1>1. Init => IInv
  <2> SUFFICES ASSUME Init PROVE IInv
    OBVIOUS
  <2>1. recent_letters = <<>> /\ letter_queue \in Shuffles(<<>>)
    BY DEF Init
  <2>2. letter_queue \in Seq(ALPHABET) /\ Len(letter_queue) = DeckSize
    BY <2>1, ShuffleIsDeck
  <2>3. TypeOK
    BY <2>1, <2>2, DeckSizeNat DEF TypeOK
  <2>4. DeckWithoutRepeats
    BY <2>1, ShuffleIsDeck DEF DeckWithoutRepeats, Distinct
  <2>5. RecentLiesDeep
    BY <2>1 DEF RecentLiesDeep, LiesDeep
  <2> QED BY <2>3, <2>4, <2>5 DEF IInv
<1>2. IInv /\ [Next]_vars => IInv'
  <2> SUFFICES ASSUME IInv, [Next]_vars PROVE IInv'
    OBVIOUS
  <2>1. CASE Next
    BY <2>1, DrawStep DEF Next
  <2>2. CASE UNCHANGED vars
    BY <2>2 DEF vars, IInv, TypeOK, RecentLiesDeep, LiesDeep, DeckWithoutRepeats, Distinct
  <2> QED BY <2>1, <2>2
<1> QED BY <1>1, <1>2, PTL DEF Spec

\* No room ever draws a letter that is among the last RECENT_LETTERS_MEMORY
\* letters it drew: not inside a cycle, not across a reshuffle, and not in the
\* next game, which goes on with the same deck.
THEOREM NoRecentLetter == Spec => DrawsNoRecentLetter
<1>1. IInv /\ [Next]_vars
        => [recent_letters'[Len(recent_letters')] \notin Letters(recent_letters)]_vars
  BY DrawStep DEF Next
<1> QED BY <1>1, DeckInvariant, PTL DEF Spec, DrawsNoRecentLetter

\* The three parts of the invariant, each a property of its own.

\* Deck and memory are sequences of letters, no longer than they should be.
THEOREM DeckTypeCorrect == Spec => []TypeOK
<1>1. IInv => TypeOK
  BY DEF IInv
<1> QED BY <1>1, DeckInvariant, PTL

\* A remembered letter is forgotten before the deck gets down to it.
THEOREM RecentStaysDeep == Spec => []RecentLiesDeep
<1>1. IInv => RecentLiesDeep
  BY DEF IInv
<1> QED BY <1>1, DeckInvariant, PTL

\* No letter is in the deck twice, or in the memory twice.
THEOREM DeckNeverRepeats == Spec => []DeckWithoutRepeats
<1>1. IInv => DeckWithoutRepeats
  BY DEF IInv
<1> QED BY <1>1, DeckInvariant, PTL
=============================================================================
