--------------------------- MODULE WordLifeProofs ---------------------------
(***************************************************************************)
(* Proofs about the word queue under specification ResultsSpec, for every  *)
(* number of reporters, deciders, words and rows and every batch limit:    *)
(* steps of the game, tokens and restarts leave the queue alone; an appeal *)
(* appends a row.  And about the word lists, for every seed and every      *)
(* order of the lists, under WordSpec, of which every behaviour is one of  *)
(* ResultsSpec, so that what is proved of that holds of the whole: the     *)
(* lists are loaded whole, and what they accept are the names listed, for  *)
(* every vocabulary and seed of which SeedAssumption holds.                *)
(***************************************************************************)
EXTENDS WordLife, TLAPS, FiniteSetTheorems, SequenceTheorems, WellFoundedInduction

Row(names) == [word : names, letter : {"lower", "upper"}, status : Verdicts \cup {"pending"}]

\* The words of appeals come from forms, so no set of names is fixed.
QueueTypes ==
  /\ \E names : rows \in Seq(Row(names))
  /\ Len(rows) <= MaxRows
  /\ cursor \in 0..Len(rows)
  /\ \A i \in 1..MaxRows : told[i] \subseteq Verdicts /\ (i > Len(rows) => told[i] = {})
  /\ DOMAIN told = 1..MaxRows
  /\ DOMAIN looked = Reporters
  /\ deciding \in [Deciders -> [id : Nat, verdict : Verdicts] \cup {NoDecision}]
  /\ \A d \in Deciders : deciding[d] # NoDecision => deciding[d].id \in DOMAIN rows

\* As long as nobody contests a row, at most one request is about to decide on
\* it, and that one has seen it as it is: pending, with nothing reported.
OneDecider ==
  \A id \in DOMAIN rows : id \notin contested =>
    \A d \in Deciders : deciding[d].id = id =>
      /\ rows[id].status = "pending" /\ told[id] = {}
      /\ \A e \in Deciders : deciding[e].id = id => d = e

\* As long as nobody crosses a report, at most one is about to insert the word,
\* and no row has it.
OneReporter ==
  \A r \in Reporters : LET w == looked[r] IN
    w # Idle /\ w \notin crossed =>
      /\ Pending(w, "lower") = {}
      /\ \A q \in Reporters : looked[q] = w => q = r

PendingOnce ==
  \A w : w \notin crossed =>
    \A i, j \in Pending(w, "lower") : i = j

QInv ==
  /\ QueueTypes
  /\ OneDecider /\ DecisionStands
  /\ OneReporter /\ PendingOnce
  /\ CursorSkipsNothing

-----------------------------------------------------------------------------
(* Lemmas                                                                  *)

\* A nonempty set of numbers up to n has a maximum.
LEMMA MaxExists ==
  ASSUME NEW n \in Nat, NEW S, S \subseteq 0..n, S # {}
  PROVE  Max(S) \in S /\ \A x \in S : x <= Max(S)
<1> DEFINE T == {n - x : x \in S}
<1>1. T \subseteq Nat /\ T # {}
  <2>1. T \subseteq Nat
    OBVIOUS
  <2>2. PICK x \in S : TRUE
    OBVIOUS
  <2>3. n - x \in T
    OBVIOUS
  <2> QED BY <2>1, <2>3
<1> HIDE DEF T
<1>2. PICK t \in T : \A u \in T : <<u, t>> \notin OpToRel(<, Nat)
  BY <1>1, WFMin, NatLessThanWellFounded
<1>3. \A u \in T : t <= u
  <2>1. \A u \in T : ~(u < t)
    BY <1>1, <1>2, Zenon DEF OpToRel
  <2> QED BY <1>1, <2>1
<1>4. PICK m \in S : t = n - m
  BY DEF T
<1>5. \A x \in S : m >= x
  <2>1. \A x \in S : t <= n - x
    BY <1>3 DEF T
  <2> QED BY <1>4, <2>1
<1>6. \E m_1 \in S : \A x \in S : m_1 >= x
  BY <1>5
<1>7. Max(S) \in S /\ \A x \in S : Max(S) >= x
  BY <1>6 DEF Max
<1> QED BY <1>7

\* A row added at the end leaves the others as they are.
LEMMA Appended ==
  ASSUME NEW names, rows \in Seq(Row(names)), NEW word, NEW letter \in {"lower", "upper"},
         Insert(word, letter)
  PROVE  /\ rows' \in Seq(Row(names \cup {word}))
         /\ Len(rows') = Len(rows) + 1 /\ DOMAIN rows' = DOMAIN rows \cup {Len(rows')}
         /\ Len(rows) \in Nat /\ DOMAIN rows = 1..Len(rows)
         /\ \A i \in DOMAIN rows : rows'[i] = rows[i]
         /\ rows'[Len(rows')] = [word |-> word, letter |-> letter, status |-> "pending"]
<1> DEFINE row == [word |-> word, letter |-> letter, status |-> "pending"]
<1>1. row \in Row(names \cup {word})
  BY DEF Row
<1>2. Row(names) \subseteq Row(names \cup {word})
  BY DEF Row
<1>3. rows \in Seq(Row(names \cup {word}))
  <2>1. \A A, B : A \subseteq B /\ rows \in Seq(A) => rows \in Seq(B)
    OBVIOUS
  <2> QED BY <1>2, <2>1
<1>4. rows' = Append(rows, row)
  BY DEF Insert
<1> HIDE DEF row
<1>5. /\ rows' \in Seq(Row(names \cup {word}))
      /\ Len(rows') = Len(rows) + 1 /\ DOMAIN rows' = DOMAIN rows \cup {Len(rows')}
      /\ Len(rows) \in Nat /\ DOMAIN rows = 1..Len(rows)
      /\ \A i \in DOMAIN rows : rows'[i] = rows[i]
      /\ rows'[Len(rows')] = row
  BY <1>1, <1>3, <1>4
<1> QED BY <1>5 DEF row

\* A verdict on a row leaves the other rows as they are.
LEMMA Decided ==
  ASSUME NEW names, rows \in Seq(Row(names)), NEW id \in DOMAIN rows, NEW v \in Verdicts,
         rows' = [rows EXCEPT ![id].status = v]
  PROVE  /\ rows' \in Seq(Row(names))
         /\ Len(rows') = Len(rows) /\ DOMAIN rows' = DOMAIN rows
         /\ \A i \in DOMAIN rows : i # id => rows'[i] = rows[i]
         /\ rows'[id].status = v
         /\ \A word, letter : Pending(word, letter)' \subseteq Pending(word, letter)
<1>1. rows[id] \in Row(names)
  OBVIOUS
<1>2. [rows[id] EXCEPT !.status = v] \in Row(names)
      /\ [rows[id] EXCEPT !.status = v].status = v
  BY <1>1 DEF Row
<1>3. rows' = [rows EXCEPT ![id] = [rows[id] EXCEPT !.status = v]]
  OBVIOUS
<1> DEFINE row == [rows[id] EXCEPT !.status = v]
<1>4. row \in Row(names) /\ row.status = v
  BY <1>2
<1> HIDE DEF row
<1>5. rows' = [rows EXCEPT ![id] = row]
  BY <1>3 DEF row
<1>6. /\ rows' \in Seq(Row(names))
      /\ Len(rows') = Len(rows) /\ DOMAIN rows' = DOMAIN rows
      /\ \A i \in DOMAIN rows : i # id => rows'[i] = rows[i]
      /\ rows'[id].status = v
  BY <1>4, <1>5
<1>7. ASSUME NEW word, NEW letter PROVE Pending(word, letter)' \subseteq Pending(word, letter)
  BY <1>6 DEF Pending, Verdicts
<1> QED BY <1>6, <1>7

-----------------------------------------------------------------------------
(* The steps                                                               *)

LEMMA ReportLooksStep ==
  ASSUME QInv, NEW r \in Reporters, NEW word \in Words, ReportLooks(r, word)
  PROVE  QInv'
<1> USE DEF ReportLooks
<1>1. looked[r] = Idle /\ Pending(word, "lower") = {}
  BY DEF Unqueued
<1>2. QueueTypes'
  BY DEF QInv, QueueTypes
<1>3. \A w, letter : Pending(w, letter)' = Pending(w, letter)
  BY DEF Pending
<1>4. DOMAIN looked = Reporters /\ DOMAIN looked' = Reporters
  BY DEF QInv, QueueTypes
<1>5. OneReporter'
  <2> SUFFICES ASSUME NEW q \in Reporters, looked'[q] # Idle, looked'[q] \notin crossed'
               PROVE  /\ Pending(looked'[q], "lower") = {}
                      /\ \A t \in Reporters : looked'[t] = looked'[q] => t = q
    BY <1>3 DEF OneReporter
  <2>1. crossed \subseteq crossed'
    OBVIOUS
  <2>2. CASE q = r
    BY <1>1, <1>4, <2>2
  <2>3. CASE q # r
    <3>1. looked'[q] = looked[q]
      BY <1>4, <2>3
    <3>2. looked[q] # word
      BY <2>1, <3>1
    <3> QED BY <1>4, <2>1, <3>1, <3>2 DEF QInv, OneReporter
  <2> QED BY <2>2, <2>3
<1>6. PendingOnce'
  BY <1>3 DEF QInv, PendingOnce
<1>7. OneDecider' /\ DecisionStands' /\ CursorSkipsNothing'
  BY DEF QInv, OneDecider, DecisionStands, CursorSkipsNothing
<1> QED BY <1>2, <1>5, <1>6, <1>7 DEF QInv

\* A row is added for a word that no report has found unqueued, or by the only
\* report that has.
LEMMA InsertStep ==
  ASSUME QInv, NEW word, NEW letter \in {"lower", "upper"}, Insert(word, letter),
         UNCHANGED <<cursor, handed, deciding, told, contested, crossed>>,
         DOMAIN looked' = Reporters,
         \/ letter = "upper" /\ UNCHANGED looked
         \/ letter = "lower" /\ \E r \in Reporters :
              /\ looked[r] = word /\ word # Idle
              /\ looked' = [looked EXCEPT ![r] = Idle]
  PROVE  QInv'
<1> USE DEF QInv
<1>1. PICK names : rows \in Seq(Row(names))
  BY DEF QueueTypes
<1> DEFINE n == Len(rows')
<1>2. /\ rows' \in Seq(Row(names \cup {word}))
      /\ n = Len(rows) + 1 /\ DOMAIN rows' = DOMAIN rows \cup {n}
      /\ Len(rows) \in Nat /\ DOMAIN rows = 1..Len(rows)
      /\ \A i \in DOMAIN rows : rows'[i] = rows[i]
      /\ rows'[n] = [word |-> word, letter |-> letter, status |-> "pending"]
  BY <1>1, Appended
<1>3. Len(rows) < MaxRows
  BY DEF Insert
<1> HIDE DEF n
<1>4. n \notin DOMAIN rows /\ n \in 1..MaxRows /\ Len(rows') = n
  BY <1>2, <1>3, WordQueueAssumption DEF n
<1>5. QueueTypes'
  <2>1. \E a : rows' \in Seq(Row(a))
    BY <1>2
  <2> QED BY <1>2, <1>3, <1>4, <2>1, WordQueueAssumption DEF QueueTypes
<1>6. \A d \in Deciders : deciding[d].id # n
  <2> SUFFICES ASSUME NEW d \in Deciders PROVE deciding[d].id # n
    OBVIOUS
  <2> QED BY <1>4 DEF QueueTypes, NoDecision
<1>7. OneDecider'
  BY <1>2, <1>6 DEF OneDecider
<1>8. DecisionStands' /\ CursorSkipsNothing'
  <2>1. told[n] = {}
    BY <1>2, <1>4 DEF QueueTypes
  <2>2. ~(n <= cursor)
    BY <1>2 DEF QueueTypes
  <2> QED BY <1>2, <2>1, <2>2 DEF DecisionStands, CursorSkipsNothing
<1>9. \A w : Pending(w, "lower")' =
        IF letter = "lower" /\ w = word THEN Pending(w, "lower") \cup {n}
        ELSE Pending(w, "lower")
  <2> SUFFICES ASSUME NEW w
               PROVE  Pending(w, "lower")' =
                        IF letter = "lower" /\ w = word THEN Pending(w, "lower") \cup {n}
                        ELSE Pending(w, "lower")
    OBVIOUS
  <2> DEFINE sought == [word |-> w, letter |-> "lower", status |-> "pending"]
  <2>1. rows'[n] = sought <=> letter = "lower" /\ w = word
    BY <1>2
  <2>2. Pending(w, "lower") = {i \in DOMAIN rows : rows[i] = sought}
    BY DEF Pending
  <2>3. Pending(w, "lower")' = {i \in DOMAIN rows' : rows'[i] = sought}
    BY DEF Pending
  <2> HIDE DEF sought
  <2>4. \A i : i \in Pending(w, "lower")' <=>
                 i \in Pending(w, "lower") \/ (i = n /\ letter = "lower" /\ w = word)
    BY <1>2, <1>4, <2>1, <2>2, <2>3
  <2> QED BY <2>4
<1>10. CASE letter = "upper"
  <2>1. UNCHANGED looked
    BY <1>10
  <2>2. \A w : Pending(w, "lower")' = Pending(w, "lower")
    BY <1>9, <1>10
  <2>3. OneReporter' /\ PendingOnce'
    BY <2>1, <2>2 DEF OneReporter, PendingOnce
  <2> QED BY <1>5, <1>7, <1>8, <2>3
<1>11. CASE letter = "lower"
  <2>1. PICK r \in Reporters : /\ looked[r] = word /\ word # Idle
                               /\ looked' = [looked EXCEPT ![r] = Idle]
    BY <1>11
  <2>2. word \notin crossed =>
          Pending(word, "lower") = {} /\ \A q \in Reporters : looked[q] = word => q = r
    BY <2>1 DEF OneReporter
  <2>3. PendingOnce'
    BY <1>9, <1>11, <2>2 DEF PendingOnce
  <2>4. OneReporter'
    <3> SUFFICES ASSUME NEW q \in Reporters, NEW w, w = looked'[q], w # Idle, w \notin crossed
                 PROVE  /\ Pending(w, "lower")' = {}
                        /\ \A t \in Reporters : looked'[t] = w => t = q
      BY DEF OneReporter
    <3>1. q # r /\ looked[q] = w
      BY <2>1 DEF QueueTypes
    <3>2. w # word
      BY <2>2, <3>1
    <3>3. Pending(w, "lower")' = Pending(w, "lower")
      BY <1>9, <3>2
    <3> QED BY <2>1, <3>1, <3>3 DEF OneReporter, QueueTypes
  <2> QED BY <1>5, <1>7, <1>8, <2>3, <2>4
<1> QED BY <1>10, <1>11

LEMMA DecisionReadsStep ==
  ASSUME QInv, NEW d \in Deciders, NEW id \in handed, NEW v \in Verdicts,
         DecisionReads(d, id, v)
  PROVE  QInv'
<1> USE DEF QInv, DecisionReads
<1> DEFINE decision == [id |-> id, verdict |-> v]
<1>1. id \in DOMAIN rows /\ id \in Nat \ {0} /\ rows[id].status = "pending"
  BY DEF QueueTypes, IsPending
<1>2. /\ decision \in [id : Nat, verdict : Verdicts]
      /\ decision.id = id /\ decision # NoDecision
  BY <1>1 DEF NoDecision
<1> HIDE DEF decision
<1>3. deciding' = [deciding EXCEPT ![d] = decision] /\ deciding[d] = NoDecision
  BY DEF decision
<1>4. QueueTypes'
  BY <1>1, <1>2, <1>3 DEF QueueTypes
<1>5. OneDecider'
  <2> SUFFICES ASSUME NEW i \in DOMAIN rows, i \notin contested',
                      NEW e \in Deciders, deciding'[e].id = i
               PROVE  /\ rows[i].status = "pending" /\ told[i] = {}
                      /\ \A f \in Deciders : deciding'[f].id = i => e = f
    BY DEF OneDecider
  <2>1. contested \subseteq contested'
    OBVIOUS
  <2>2. \A f \in Deciders : deciding'[f] = IF f = d THEN decision ELSE deciding[f]
    BY <1>3 DEF QueueTypes
  <2>3. CASE i = id
    <3>1. \A f \in Deciders : deciding[f].id # id
      BY <2>3
    <3>2. told[id] \subseteq {"pending"} /\ told[id] \subseteq Verdicts
      <4>1. id \in 1..MaxRows
        BY <1>1, WordQueueAssumption DEF QueueTypes
      <4> QED BY <1>1, <2>1, <2>3, <4>1 DEF DecisionStands, QueueTypes
    <3>3. told[id] = {}
      BY <3>2 DEF Verdicts
    <3> QED BY <1>1, <2>2, <2>3, <3>1, <3>3
  <2>4. CASE i # id
    BY <1>2, <2>1, <2>2, <2>4 DEF OneDecider
  <2> QED BY <2>3, <2>4
<1>6. DecisionStands' /\ CursorSkipsNothing'
  BY DEF DecisionStands, CursorSkipsNothing
<1>7. OneReporter' /\ PendingOnce'
  BY DEF OneReporter, PendingOnce, Pending
<1> QED BY <1>4, <1>5, <1>6, <1>7

\* What a verdict on a row does, whoever gives it.
LEMMA VerdictKeeps ==
  ASSUME QInv, NEW id \in DOMAIN rows, NEW v \in Verdicts,
         rows' = [rows EXCEPT ![id].status = v],
         UNCHANGED <<looked, cursor, handed, crossed>>
  PROVE  /\ OneReporter' /\ PendingOnce' /\ CursorSkipsNothing'
         /\ \E names : rows' \in Seq(Row(names))
         /\ Len(rows') = Len(rows) /\ DOMAIN rows' = DOMAIN rows
         /\ \A i \in DOMAIN rows : i # id => rows'[i] = rows[i]
         /\ rows'[id].status = v
<1>1. PICK names : rows \in Seq(Row(names))
  BY DEF QInv, QueueTypes
<1>2. /\ rows' \in Seq(Row(names))
      /\ Len(rows') = Len(rows) /\ DOMAIN rows' = DOMAIN rows
      /\ \A i \in DOMAIN rows : i # id => rows'[i] = rows[i]
      /\ rows'[id].status = v
      /\ \A word, letter : Pending(word, letter)' \subseteq Pending(word, letter)
  BY <1>1, Decided
<1>3. OneReporter'
  BY <1>2 DEF QInv, OneReporter
<1>4. PendingOnce'
  BY <1>2 DEF QInv, PendingOnce
<1>5. CursorSkipsNothing'
  BY <1>2 DEF QInv, CursorSkipsNothing, Verdicts
<1> QED BY <1>2, <1>3, <1>4, <1>5

LEMMA DecisionWritesStep ==
  ASSUME QInv, NEW d \in Deciders, DecisionWrites(d)
  PROVE  QInv'
<1> DEFINE id == deciding[d].id
           v == deciding[d].verdict
<1>1. /\ id \in DOMAIN rows /\ v \in Verdicts /\ deciding[d] # NoDecision
      /\ rows' = [rows EXCEPT ![id].status = v]
      /\ told' = [told EXCEPT ![id] = @ \cup {v}]
      /\ deciding' = [deciding EXCEPT ![d] = NoDecision]
      /\ UNCHANGED <<looked, cursor, handed, contested, crossed>>
  BY DEF DecisionWrites, QInv, QueueTypes
<1>2. /\ OneReporter' /\ PendingOnce' /\ CursorSkipsNothing'
      /\ \E names : rows' \in Seq(Row(names))
      /\ Len(rows') = Len(rows) /\ DOMAIN rows' = DOMAIN rows
      /\ \A i \in DOMAIN rows : i # id => rows'[i] = rows[i]
      /\ rows'[id].status = v
  BY <1>1, VerdictKeeps
<1>3. DOMAIN rows = 1..Len(rows) /\ Len(rows) \in Nat /\ id \in 1..MaxRows
  BY <1>1, WordQueueAssumption DEF QInv, QueueTypes
<1>4. \A i \in 1..MaxRows : told'[i] = IF i = id THEN told[i] \cup {v} ELSE told[i]
  BY <1>1, <1>3 DEF QInv, QueueTypes
<1>5. \A e \in Deciders : deciding'[e] = IF e = d THEN NoDecision ELSE deciding[e]
  BY <1>1 DEF QInv, QueueTypes
<1>6. QueueTypes'
  <2>1. DOMAIN told' = 1..MaxRows /\ DOMAIN looked' = Reporters
    BY <1>1 DEF QInv, QueueTypes
  <2>2. deciding' \in [Deciders -> [id : Nat, verdict : Verdicts] \cup {NoDecision}]
    BY <1>1 DEF QInv, QueueTypes
  <2>3. \A i \in 1..MaxRows : told'[i] \subseteq Verdicts /\ (i > Len(rows') => told'[i] = {})
    BY <1>1, <1>2, <1>3, <1>4 DEF QInv, QueueTypes
  <2>4. \A e \in Deciders : deciding'[e] # NoDecision => deciding'[e].id \in DOMAIN rows'
    BY <1>2, <1>5 DEF QInv, QueueTypes
  <2> QED BY <1>1, <1>2, <2>1, <2>2, <2>3, <2>4 DEF QInv, QueueTypes
<1>7. \A e \in Deciders : e # d /\ id \notin contested => deciding[e].id # id
  BY <1>1 DEF QInv, OneDecider
<1>8. OneDecider'
  <2> SUFFICES ASSUME NEW i \in DOMAIN rows, i \notin contested,
                      NEW e \in Deciders, deciding'[e].id = i
               PROVE  /\ rows'[i].status = "pending" /\ told'[i] = {}
                      /\ \A f \in Deciders : deciding'[f].id = i => e = f
    BY <1>1, <1>2 DEF OneDecider
  <2>1. i # 0 /\ i \in 1..MaxRows
    BY <1>3, WordQueueAssumption DEF QInv, QueueTypes
  <2>2. e # d
    BY <1>5, <2>1 DEF NoDecision
  <2>3. deciding[e].id = i /\ i # id
    BY <1>5, <1>7, <2>2
  <2>4. rows[i].status = "pending" /\ told[i] = {}
        /\ \A f \in Deciders : deciding[f].id = i => e = f
    BY <2>3 DEF QInv, OneDecider
  <2>5. \A f \in Deciders : deciding'[f].id = i => deciding[f].id = i
    BY <1>5, <2>1 DEF NoDecision
  <2> QED BY <1>2, <1>4, <2>1, <2>3, <2>4, <2>5
<1>9. DecisionStands'
  <2> SUFFICES ASSUME NEW i \in DOMAIN rows, i \notin contested
               PROVE  told'[i] \subseteq {rows'[i].status}
    BY <1>1, <1>2 DEF DecisionStands
  <2>1. i \in 1..MaxRows
    BY <1>3, WordQueueAssumption DEF QInv, QueueTypes
  <2>2. CASE i = id
    <3>1. told[i] = {}
      BY <2>2 DEF QInv, OneDecider
    <3> QED BY <1>2, <1>4, <2>1, <2>2, <3>1
  <2>3. CASE i # id
    BY <1>2, <1>4, <2>1, <2>3 DEF QInv, DecisionStands
  <2> QED BY <2>2, <2>3
<1> QED BY <1>2, <1>6, <1>8, <1>9 DEF QInv

LEMMA ReviewStep ==
  ASSUME QInv, NEW id \in DOMAIN rows, NEW v \in {"accepted", "rejected"}, Review(id, v)
  PROVE  QInv'
<1> USE DEF Review
<1>1. /\ OneReporter' /\ PendingOnce' /\ CursorSkipsNothing'
      /\ \E names : rows' \in Seq(Row(names))
      /\ Len(rows') = Len(rows) /\ DOMAIN rows' = DOMAIN rows
      /\ \A i \in DOMAIN rows : i # id => rows'[i] = rows[i]
  BY VerdictKeeps DEF Verdicts
<1>2. QueueTypes'
  BY <1>1 DEF QInv, QueueTypes
<1>3. OneDecider' /\ DecisionStands'
  BY <1>1 DEF QInv, OneDecider, DecisionStands
<1> QED BY <1>1, <1>2, <1>3 DEF QInv

\* A batch is a beginning of the pending rows, so it ends at its largest id and
\* leaves none before it out.
LEMMA FetchStep ==
  ASSUME QInv, FetchBatch
  PROVE  QInv'
<1> USE DEF QInv
<1> DEFINE ids == PendingAfter(cursor)
           fetched == BatchOf(ids)
<1>1. /\ cursor' = NextAfterId(fetched) /\ handed' = handed \cup fetched
      /\ UNCHANGED <<rows, looked, deciding, told, contested, crossed>>
  BY DEF FetchBatch
<1>2. DOMAIN rows = 1..Len(rows) /\ Len(rows) \in Nat /\ cursor \in 0..Len(rows)
  BY DEF QueueTypes
<1>3. ids \subseteq 1..Len(rows) /\ fetched \subseteq ids
  BY <1>2 DEF PendingAfter, BatchOf
<1>4. CASE fetched = {}
  BY <1>1, <1>4 DEF NextAfterId, QueueTypes, OneDecider, DecisionStands, OneReporter,
                    PendingOnce, Pending, CursorSkipsNothing
<1>5. CASE fetched # {}
  <2> DEFINE last == Max(fetched)
  <2>1. last \in fetched /\ \A i \in fetched : i <= last
    <3> HIDE DEF fetched, ids
    <3>1. fetched \subseteq 0..Len(rows)
      BY <1>3
    <3> QED BY <1>2, <1>5, <3>1, MaxExists
  <2>2. cursor' = last
    BY <1>1, <1>5 DEF NextAfterId
  <2>3. ASSUME NEW i \in ids, i <= last PROVE i \in fetched
    <3> DEFINE before(k) == {j \in ids : j < k}
    <3>1. before(i) \subseteq before(last)
      BY <1>3, <2>1, <2>3
    <3>2. IsFiniteSet(before(last)) /\ IsFiniteSet(before(i))
      <4>1. IsFiniteSet(1..Len(rows))
        BY <1>2, FS_Interval
      <4>2. before(last) \subseteq 1..Len(rows) /\ before(i) \subseteq 1..Len(rows)
        BY <1>3
      <4> HIDE DEF before
      <4> QED BY <4>1, <4>2, FS_Subset
    <3>3. Cardinality(before(last)) < BatchLimit
      BY <2>1 DEF BatchOf
    <3>4. /\ Cardinality(before(i)) <= Cardinality(before(last))
          /\ Cardinality(before(i)) \in Nat /\ Cardinality(before(last)) \in Nat
      <4> HIDE DEF before
      <4> QED BY <3>1, <3>2, FS_Subset, FS_CardinalityType
    <3>5. Cardinality(before(i)) < BatchLimit
      <4> HIDE DEF before
      <4> QED BY <3>3, <3>4, WordQueueAssumption
    <3> QED BY <3>5 DEF BatchOf
  <2> HIDE DEF last
  <2>4. CursorSkipsNothing'
    <3> SUFFICES ASSUME NEW i \in DOMAIN rows, i <= last, rows[i].status = "pending"
                 PROVE  i \in handed \cup fetched
      BY <1>1, <2>2 DEF CursorSkipsNothing
    <3>1. CASE i <= cursor
      BY <3>1 DEF CursorSkipsNothing
    <3>2. CASE ~(i <= cursor)
      <4>1. i \in ids
        BY <1>2, <3>2 DEF PendingAfter
      <4> QED BY <2>3, <4>1
    <3> QED BY <3>1, <3>2
  <2>5. QueueTypes'
    <3>1. last \in 0..Len(rows)
      BY <1>3, <2>1
    <3> QED BY <1>1, <2>2, <3>1 DEF QueueTypes
  <2>6. OneDecider' /\ DecisionStands' /\ OneReporter' /\ PendingOnce'
    BY <1>1 DEF OneDecider, DecisionStands, OneReporter, PendingOnce, Pending
  <2> QED BY <2>4, <2>5, <2>6
<1> QED BY <1>4, <1>5

LEMMA StartOverStep ==
  ASSUME QInv, StartOver
  PROVE  QInv'
<1>1. DOMAIN rows = 1..Len(rows) /\ Len(rows) \in Nat
  BY DEF QInv, QueueTypes
<1>2. CursorSkipsNothing'
  BY <1>1 DEF StartOver, CursorSkipsNothing
<1>3. QueueTypes'
  BY <1>1 DEF StartOver, QInv, QueueTypes
<1> QED BY <1>2, <1>3 DEF StartOver, QInv, OneDecider, DecisionStands, OneReporter,
           PendingOnce, Pending

LEMMA QueueStutters ==
  ASSUME QInv, UNCHANGED queueVars
  PROVE  QInv'
BY DEF queueVars, QInv, QueueTypes, OneDecider, DecisionStands, OneReporter, PendingOnce,
       Pending, CursorSkipsNothing

LEMMA SuggestStep ==
  ASSUME QInv, NEW word, SuggestWord(word)
  PROVE  QInv'
<1>1. DOMAIN looked' = Reporters
  BY DEF SuggestWord, QInv, QueueTypes
<1>2. /\ Insert(word, "upper") /\ UNCHANGED looked
      /\ UNCHANGED <<cursor, handed, deciding, told, contested, crossed>>
  BY DEF SuggestWord
<1>3. "upper" \in {"lower", "upper"}
  OBVIOUS
<1> QED BY <1>1, <1>2, <1>3, InsertStep

LEMMA ReportInsertsStep ==
  ASSUME QInv, NEW r \in Reporters, ReportInserts(r)
  PROVE  QInv'
<1>1. DOMAIN looked' = Reporters
  BY DEF ReportInserts, QInv, QueueTypes
<1>2. PICK word : word = looked[r]
  OBVIOUS
<1>3. /\ word # Idle /\ Insert(word, "lower")
      /\ looked' = [looked EXCEPT ![r] = Idle]
      /\ UNCHANGED <<cursor, handed, deciding, told, contested, crossed>>
  BY <1>2 DEF ReportInserts
<1> QED BY <1>1, <1>2, <1>3, InsertStep

LEMMA QueueStep ==
  ASSUME QInv, QueueNext
  PROVE  QInv'
<1>1. CASE \E r \in Reporters : ReportInserts(r) \/ \E w \in Words : ReportLooks(r, w)
  BY <1>1, ReportInsertsStep, ReportLooksStep
<1>2. CASE FetchBatch \/ StartOver
  BY <1>2, FetchStep, StartOverStep
<1>3. CASE \E d \in Deciders :
             DecisionWrites(d) \/ \E id \in handed, v \in Verdicts : DecisionReads(d, id, v)
  BY <1>3, DecisionWritesStep, DecisionReadsStep
<1>4. CASE \E id \in DOMAIN rows, v \in {"accepted", "rejected"} : Review(id, v)
  BY <1>4, ReviewStep
<1> QED BY <1>1, <1>2, <1>3, <1>4 DEF QueueNext

-----------------------------------------------------------------------------
(* The theorems                                                            *)

\* The invariant of the queue, through games, appeals and restarts.
THEOREM QueueInvariant == ResultsSpec => []QInv
<1>1. ResultsInit => QInv
  <2> SUFFICES ASSUME QueueInit PROVE QInv
    BY DEF ResultsInit
  <2>1. rows \in Seq(Row({})) /\ Len(rows) = 0 /\ DOMAIN rows = {}
    BY DEF QueueInit
  <2>2. QueueTypes
    BY <2>1, WordQueueAssumption DEF QueueInit, QueueTypes
  <2> QED BY <2>1, <2>2 DEF QueueInit, QInv, OneDecider, DecisionStands, OneReporter,
             PendingOnce, Pending, CursorSkipsNothing
<1>2. QInv /\ [ResultsNext]_resultsVars => QInv'
  <2> SUFFICES ASSUME QInv, [ResultsNext]_resultsVars PROVE QInv'
    OBVIOUS
  <2>1. CASE Play \/ Restart \/ Expire \/ UNCHANGED resultsVars
    <3>1. UNCHANGED queueVars
      BY <2>1 DEF Play, Restart, Expire, resultsVars
    <3> QED BY <3>1, QueueStutters
  <2>2. ASSUME NEW p \in Players, ConnectAfter(p)
        PROVE  QInv'
    <3>1. UNCHANGED queueVars
      BY <2>2 DEF ConnectAfter
    <3> QED BY <3>1, QueueStutters
  <2>3. ASSUME NEW p \in Players, Appeal(p)
        PROVE  QInv'
    <3>1. PICK word : SuggestWord(word)
      BY <2>3 DEF Appeal
    <3> QED BY <3>1, SuggestStep
  <2>4. CASE QueueNext
    BY <2>4, QueueStep
  <2> QED BY <2>1, <2>2, <2>3, <2>4 DEF ResultsNext
<1> QED BY <1>1, <1>2, PTL DEF ResultsSpec

\* A decision reported as applied is the row's status, for any number of
\* workers and reviewers, as long as only one of them deals with the row.
THEOREM DecisionsStand == ResultsSpec => []DecisionStands
<1>1. QInv => DecisionStands
  BY DEF QInv
<1> QED BY <1>1, QueueInvariant, PTL

\* No pending row is left behind by the worker's cursor, for any batch limit and
\* however rows are inserted and decided between two batches.
THEOREM CursorIsSound == ResultsSpec => []CursorSkipsNothing
<1>1. QInv => CursorSkipsNothing
  BY DEF QInv
<1> QED BY <1>1, QueueInvariant, PTL

\* Reports queue a pending word once, unless two have looked at a time.
THEOREM ReportsQueueOnce == ResultsSpec => []QueuedOnce
<1>1. QInv => QueuedOnce
  <2> SUFFICES ASSUME QInv, NEW w \in Words, w \notin crossed
               PROVE  Cardinality(Pending(w, "lower")) <= 1
    BY DEF QueuedOnce
  <2>1. Pending(w, "lower") = {} \/ \E i : Pending(w, "lower") = {i}
    BY DEF QInv, PendingOnce
  <2>2. CASE Pending(w, "lower") = {}
    <3>1. Cardinality(Pending(w, "lower")) = 0
      BY <2>2, FS_EmptySet
    <3> QED BY <3>1
  <2>3. ASSUME NEW i, Pending(w, "lower") = {i}
        PROVE  Cardinality(Pending(w, "lower")) <= 1
    <3>1. Cardinality(Pending(w, "lower")) = 1
      BY <2>3, FS_Singleton
    <3> QED BY <3>1
  <2> QED BY <2>1, <2>2, <2>3
<1> QED BY <1>1, QueueInvariant, PTL

-----------------------------------------------------------------------------
(* The word lists                                                          *)

\* The list has all its rows, or a crash has cut its seed short.
Settled(l) == table[l] >= Len(Seed[l]) \/ l \in interrupted

\* The list that is being seeded at this moment.
UnderWay(l) ==
  phase = "seeding" /\ turn <= Len(Order) /\ batch > 0 /\ l = Order[turn]

LexiconTypes ==
  /\ phase \in {"down", "seeding", "serving"}
  /\ turn \in 1..(Len(Order) + 1) /\ batch \in Nat
  /\ table \in [Lists -> Nat] /\ \A l \in Lists : table[l] <= Len(Seed[l])

\* A table with a row in it counts as seeded: so it is settled, but for the one
\* under way, which has the batches counted.
LInv ==
  /\ LexiconTypes
  /\ \A l \in Lists : UnderWay(l) => table[l] = batch
  /\ \A l \in Lists : table[l] > 0 /\ ~UnderWay(l) => Settled(l)
  /\ phase \in {"seeding", "serving"} => \A i \in 1..(turn - 1) : Settled(Order[i])
  /\ phase = "serving" => turn = Len(Order) + 1

\* The lists in their order, and their seeds.
LEMMA ListsInOrder ==
  /\ Len(Order) \in Nat
  /\ \A i \in 1..Len(Order) : Order[i] \in Lists
  /\ \A l \in Lists : \E i \in 1..Len(Order) : Order[i] = l
  /\ \A l \in Lists : Len(Seed[l]) \in Nat
<1>1. Order \in Seq(Lists) /\ Range(Order) = Lists
  BY LexiconAssumption
<1>2. \A l \in Lists : Seed[l] \in Seq(SUBSET Seq(Vocabulary))
  BY LexiconAssumption
<1>3. DOMAIN Order = 1..Len(Order)
  BY <1>1
<1> QED BY <1>1, <1>2, <1>3 DEF Range

\* What is settled stays so, since rows are only added.
LEMMA SettledStays ==
  ASSUME LInv, LexiconNext, NEW l \in Lists
  PROVE  table'[l] >= table[l] /\ (Settled(l) => Settled(l)')
<1>1. CASE SeedBatch
  <2>1. turn <= Len(Order) /\ phase = "seeding" /\ ~Seeded(Order[turn])
        /\ table' = [table EXCEPT ![Order[turn]] = batch + 1] /\ interrupted' = interrupted
    BY <1>1 DEF SeedBatch
  <2>2. l # Order[turn] => table'[l] = table[l]
    BY <2>1 DEF LInv, LexiconTypes
  <2>3. l = Order[turn] => table'[l] = batch + 1 /\ table[l] <= batch
    BY <2>1 DEF LInv, LexiconTypes, UnderWay, Seeded
  <2>4. table[l] \in Nat /\ batch \in Nat /\ Len(Seed[l]) \in Nat
    BY ListsInOrder DEF LInv, LexiconTypes
  <2>5. table'[l] \in Nat /\ table'[l] >= table[l]
    BY <2>2, <2>3, <2>4
  <2> QED BY <2>1, <2>4, <2>5 DEF Settled
<1>2. CASE Start \/ NextList \/ Reload \/ Crash
  <2>1. table' = table /\ interrupted \subseteq interrupted'
    BY <1>2 DEF Start, NextList, Reload, Crash
  <2> QED BY <2>1 DEF Settled, LInv, LexiconTypes
<1> QED BY <1>1, <1>2 DEF LexiconNext

\* The list whose turn it is and that counts as seeded is settled.
LEMMA SeededIsSettled ==
  ASSUME LInv, phase = "seeding", turn <= Len(Order), Seeded(Order[turn])
  PROVE  Settled(Order[turn])
<1>1. Order[turn] \in Lists
  BY ListsInOrder DEF LInv, LexiconTypes
<1>2. Len(Seed[Order[turn]]) \in Nat /\ table[Order[turn]] \in Nat /\ batch \in Nat
  BY <1>1, ListsInOrder DEF LInv, LexiconTypes
<1>3. CASE batch = 0
  BY <1>1, <1>2, <1>3 DEF LInv, UnderWay, Seeded, SeedDone, Settled
<1>4. CASE batch > 0
  BY <1>1, <1>2, <1>4 DEF LInv, UnderWay, Seeded, SeedDone, Settled
<1> QED BY <1>2, <1>3, <1>4

LEMMA LexiconStep ==
  ASSUME LInv, LexiconNext
  PROVE  LInv'
<1>1. ASSUME NEW l \in Lists, Settled(l) PROVE Settled(l)'
  BY <1>1, SettledStays
<1>2. CASE Start
  <2> USE <1>2 DEF Start
  <2>1. LexiconTypes'
    BY ListsInOrder DEF LInv, LexiconTypes
  <2>2. \A l \in Lists : ~UnderWay(l) /\ ~UnderWay(l)'
    BY DEF UnderWay
  <2> QED BY <1>1, <2>1, <2>2 DEF LInv
<1>3. CASE SeedBatch
  <2> USE <1>3 DEF SeedBatch
  <2> DEFINE now == Order[turn]
  <2>1. now \in Lists
    BY ListsInOrder DEF LInv, LexiconTypes
  <2>2. table' = [table EXCEPT ![now] = batch + 1] /\ batch' = batch + 1
        /\ UNCHANGED <<phase, turn>> /\ phase = "seeding" /\ turn <= Len(Order)
    OBVIOUS
  <2>3. LexiconTypes'
    <3>1. batch + 1 <= Len(Seed[now])
      <4>1. Len(Seed[now]) \in Nat /\ batch \in Nat /\ batch # Len(Seed[now])
        BY <2>1, ListsInOrder DEF Seeded, SeedDone, LInv, LexiconTypes
      <4>2. batch > 0 => batch <= Len(Seed[now])
        BY <2>1, <2>2 DEF UnderWay, LInv, LexiconTypes
      <4> QED BY <4>1, <4>2
    <3> QED BY <2>1, <2>2, <3>1 DEF LInv, LexiconTypes
  <2>4. \A l \in Lists : UnderWay(l)' => table'[l] = batch'
    BY <2>1, <2>2 DEF UnderWay, LInv, LexiconTypes
  <2>5. ASSUME NEW l \in Lists, table'[l] > 0, ~UnderWay(l)'
        PROVE  Settled(l)'
    <3>1. l # now
      BY <2>2, <2>5 DEF UnderWay, LInv, LexiconTypes
    <3>2. table'[l] = table[l] /\ ~UnderWay(l)
      BY <2>2, <3>1 DEF UnderWay, LInv, LexiconTypes
    <3> QED BY <1>1, <2>5, <3>2 DEF LInv
  <2>6. \A i \in 1..(turn' - 1) : Settled(Order[i])'
    <3>1. \A i \in 1..(turn - 1) : Order[i] \in Lists /\ Settled(Order[i])
      BY <2>2, ListsInOrder DEF LInv, LexiconTypes
    <3> QED BY <1>1, <2>2, <3>1
  <2> QED BY <2>2, <2>3, <2>4, <2>5, <2>6 DEF LInv
<1>4. CASE NextList
  <2> USE <1>4 DEF NextList
  <2>1. phase = "seeding" /\ turn <= Len(Order) /\ turn' = turn + 1 /\ batch' = 0
        /\ UNCHANGED <<phase, table>>
    OBVIOUS
  <2>2. Order[turn] \in Lists /\ Settled(Order[turn])
    BY <2>1, ListsInOrder, SeededIsSettled DEF LInv, LexiconTypes
  <2>3. LexiconTypes'
    BY <2>1, ListsInOrder DEF LInv, LexiconTypes
  <2>4. \A l \in Lists : ~UnderWay(l)'
    BY <2>1 DEF UnderWay
  <2>5. \A l \in Lists : table[l] > 0 => Settled(l)
    BY <2>2 DEF LInv, UnderWay
  <2>6. \A i \in 1..(turn' - 1) : Order[i] \in Lists /\ Settled(Order[i])
    BY <2>1, <2>2, ListsInOrder DEF LInv, LexiconTypes
  <2> QED BY <1>1, <2>1, <2>3, <2>4, <2>5, <2>6 DEF LInv
<1>5. CASE Reload
  <2> USE <1>5 DEF Reload
  <2>1. LexiconTypes'
    BY DEF LInv, LexiconTypes
  <2>2. turn = Len(Order) + 1
    BY ListsInOrder DEF LInv, LexiconTypes
  <2>3. \A l \in Lists : ~UnderWay(l) /\ ~UnderWay(l)'
    BY <2>2, ListsInOrder DEF UnderWay
  <2>4. \A i \in 1..(turn - 1) : Order[i] \in Lists /\ Settled(Order[i])
    BY <2>2, ListsInOrder DEF LInv
  <2> QED BY <1>1, <2>1, <2>2, <2>3, <2>4 DEF LInv
<1>6. CASE Crash
  <2> USE <1>6 DEF Crash
  <2>1. LexiconTypes'
    BY DEF LInv, LexiconTypes
  <2>2. \A l \in Lists : ~UnderWay(l)'
    BY DEF UnderWay
  <2>3. ASSUME NEW l \in Lists, table[l] > 0
        PROVE  Settled(l)'
    <3>1. CASE UnderWay(l) /\ ~Seeded(l)
      BY <3>1 DEF UnderWay, Settled
    <3>2. CASE UnderWay(l) /\ Seeded(l)
      BY <1>1, <2>3, <3>2, SeededIsSettled DEF UnderWay
    <3>3. CASE ~UnderWay(l)
      BY <1>1, <2>3, <3>3 DEF LInv
    <3> QED BY <3>1, <3>2, <3>3
  <2> QED BY <2>1, <2>2, <2>3 DEF LInv
<1> QED BY <1>2, <1>3, <1>4, <1>5, <1>6 DEF LexiconNext

LEMMA WordInitLInv == WordInit => LInv
<1> SUFFICES ASSUME LexiconInit PROVE LInv
  BY DEF WordInit
<1>1. \A l \in Lists : table[l] = 0
  BY DEF LexiconInit, Nowhere
<1>2. LexiconTypes
  BY ListsInOrder DEF LexiconInit, LexiconTypes, Nowhere
<1> QED BY <1>1, <1>2 DEF LexiconInit, LInv, UnderWay

\* _seed_executemany_if_empty: tables and the place in init_db fit together,
\* wherever the server is killed.
THEOREM LexiconInvariant == WordSpec => []LInv
<1>1. LInv /\ [WordNext]_wordVars => LInv'
  <2> SUFFICES ASSUME LInv, [WordNext]_wordVars PROVE LInv'
    OBVIOUS
  <2>1. CASE LexiconNext
    BY <2>1, LexiconStep
  <2>2. CASE UNCHANGED lexiconVars
    BY <2>2 DEF lexiconVars, LInv, LexiconTypes, UnderWay, Settled
  <2> QED BY <2>1, <2>2 DEF WordNext, wordVars
<1> QED BY <1>1, WordInitLInv, PTL DEF WordSpec

\* init_db: the lists of a server that serves are whole, unless a crash has cut
\* the seed of one short.
THEOREM ListsAreWhole == WordSpec => []WholeUnlessInterrupted
<1>1. LInv => WholeUnlessInterrupted
  <2> SUFFICES ASSUME LInv, phase = "serving", NEW l \in Lists, table[l] < Len(Seed[l])
               PROVE  l \in interrupted
    BY DEF WholeUnlessInterrupted
  <2>1. PICK i \in 1..Len(Order) : Order[i] = l
    BY ListsInOrder
  <2>2. i \in 1..(turn - 1)
    BY ListsInOrder DEF LInv
  <2>3. Settled(l)
    BY <2>1, <2>2 DEF LInv
  <2> QED BY <2>3, ListsInOrder DEF Settled, LInv, LexiconTypes
<1> QED BY <1>1, LexiconInvariant, PTL

-----------------------------------------------------------------------------
(* Names and their spellings                                               *)

\* A sequence begins another if it has the same members in the same places.
LEMMA PrefixByPlace ==
  ASSUME NEW S, NEW a \in Seq(S), NEW m \in Seq(S)
  PROVE  IsPrefix(a, m) <=> Len(a) <= Len(m) /\ \A i \in 1..Len(a) : a[i] = m[i]
<1> DEFINE b == SubSeq(a, 1, Len(a))
           c == SubSeq(m, 1, Len(a))
<1>1. CASE Len(a) <= Len(m)
  <2>1. /\ b \in Seq(S) /\ Len(b) = Len(a) /\ \A i \in 1..Len(a) : b[i] = a[i]
        /\ c \in Seq(S) /\ Len(c) = Len(a) /\ \A i \in 1..Len(a) : c[i] = m[i]
    BY <1>1
  <2> HIDE DEF b, c
  <2>2. b = c => \A i \in 1..Len(a) : a[i] = m[i]
    BY <2>1
  <2>3. ASSUME \A i \in 1..Len(a) : a[i] = m[i] PROVE b = c
    BY <2>1, <2>3, SeqEqual
  <2> QED BY <1>1, <2>2, <2>3 DEF IsPrefix, b, c
<1>2. CASE ~(Len(a) <= Len(m))
  BY <1>2 DEF IsPrefix
<1> QED BY <1>1, <1>2

\* Folding goes word by word.
LEMMA FoldedName ==
  ASSUME NEW fold \in [Vocabulary -> Vocabulary], NEW n \in Seq(Vocabulary)
  PROVE  /\ Folded(fold, n) \in Seq(Vocabulary)
         /\ Len(Folded(fold, n)) = Len(n)
         /\ \A i \in 1..Len(n) : Folded(fold, n)[i] = fold[n[i]]
<1>1. DOMAIN n = 1..Len(n) /\ Len(n) \in Nat /\ \A i \in 1..Len(n) : n[i] \in Vocabulary
  OBVIOUS
<1>2. Folded(fold, n) = [i \in 1..Len(n) |-> fold[n[i]]]
  BY <1>1 DEF Folded
<1>3. [i \in 1..Len(n) |-> fold[n[i]]] \in Seq(Vocabulary)
  BY <1>1
<1>4. Len([i \in 1..Len(n) |-> fold[n[i]]]) = Len(n)
  BY <1>1
<1> QED BY <1>2, <1>3, <1>4

\* A name without its Polish letters is, without any marks, the same.
LEMMA PlainOfFolded ==
  ASSUME NEW n \in Seq(Vocabulary)
  PROVE  Plain(Folded(PlFold, n)) = Plain(n)
<1> DEFINE f(fold, m) == Folded(fold, m)
<1>0. PlFold \in [Vocabulary -> Vocabulary] /\ DeFold \in [Vocabulary -> Vocabulary]
  BY WordListsAssumption
<1>1. f(PlFold, n) \in Seq(Vocabulary) /\ Len(f(PlFold, n)) = Len(n)
  BY <1>0, FoldedName
<1>2. /\ f(DeFold, f(PlFold, n)) \in Seq(Vocabulary) /\ Len(f(DeFold, f(PlFold, n))) = Len(n)
      /\ f(DeFold, n) \in Seq(Vocabulary) /\ Len(f(DeFold, n)) = Len(n)
  BY <1>0, <1>1, FoldedName
<1>3. /\ Plain(n) \in Seq(Vocabulary) /\ Len(Plain(n)) = Len(n)
      /\ Plain(f(PlFold, n)) \in Seq(Vocabulary) /\ Len(Plain(f(PlFold, n))) = Len(n)
  BY <1>0, <1>2, FoldedName DEF Plain
<1>4. ASSUME NEW i \in 1..Len(n)
      PROVE  Plain(f(PlFold, n))[i] = Plain(n)[i]
  <2>1. n[i] \in Vocabulary
    OBVIOUS
  <2>2. Plain(n)[i] = PlFold[DeFold[n[i]]]
    BY <1>0, <1>2, FoldedName DEF Plain
  <2>3. f(DeFold, f(PlFold, n))[i] = DeFold[PlFold[n[i]]]
    BY <1>0, <1>1, FoldedName
  <2>4. Plain(f(PlFold, n))[i] = PlFold[DeFold[PlFold[n[i]]]]
    BY <1>0, <1>2, <2>3, FoldedName DEF Plain
  <2>5. PlFold[DeFold[PlFold[n[i]]]] = PlFold[DeFold[n[i]]]
    BY <1>0, <2>1, WordListsAssumption
  <2> QED BY <2>2, <2>4, <2>5
<1> QED BY <1>3, <1>4

\* What begins a name begins it without the marks, too.
LEMMA PlainPrefix ==
  ASSUME NEW a \in Seq(Vocabulary), NEW m \in Seq(Vocabulary), IsPrefix(a, m)
  PROVE  IsPrefix(Plain(a), Plain(m))
<1>0. PlFold \in [Vocabulary -> Vocabulary] /\ DeFold \in [Vocabulary -> Vocabulary]
  BY WordListsAssumption
<1>1. ASSUME NEW n \in Seq(Vocabulary)
      PROVE  /\ Plain(n) \in Seq(Vocabulary) /\ Len(Plain(n)) = Len(n)
             /\ \A i \in 1..Len(n) : Plain(n)[i] = PlFold[DeFold[n[i]]]
  <2>1. /\ Folded(DeFold, n) \in Seq(Vocabulary) /\ Len(Folded(DeFold, n)) = Len(n)
        /\ \A i \in 1..Len(n) : Folded(DeFold, n)[i] = DeFold[n[i]]
    BY <1>0, FoldedName
  <2> QED BY <1>0, <2>1, FoldedName DEF Plain
<1>2. Len(a) <= Len(m) /\ \A i \in 1..Len(a) : a[i] = m[i]
  BY PrefixByPlace
<1>3. \A i \in 1..Len(Plain(a)) : Plain(a)[i] = Plain(m)[i]
  BY <1>1, <1>2
<1> QED BY <1>1, <1>2, <1>3, PrefixByPlace

\* The parts of a name are names.
LEMMA PartsAreNames ==
  ASSUME NEW n \in Seq(Vocabulary)
  PROVE  \A m \in Parts(n) : m \in Seq(Vocabulary) /\ m # <<>>
<1> SUFFICES ASSUME NEW i \in 1..Len(n), NEW j \in 1..Len(n), i <= j
             PROVE  SubSeq(n, i, j) \in Seq(Vocabulary) /\ SubSeq(n, i, j) # <<>>
  BY DEF Parts
<1>1. SubSeq(n, i, j) \in Seq(Vocabulary) /\ Len(SubSeq(n, i, j)) = j - i + 1
  OBVIOUS
<1>2. Len(SubSeq(n, i, j)) # 0
  BY <1>1
<1> QED BY <1>1, <1>2

\* Without its Polish letters, a name without German letters has none, either.
LEMMA StillNotGerman ==
  ASSUME NEW n \in Seq(Vocabulary), ~HasGerman(n)
  PROVE  ~HasGerman(Folded(PlFold, n))
<1> PICK m : m = Folded(PlFold, n)
  OBVIOUS
<1>0. PlFold \in [Vocabulary -> Vocabulary] /\ DeFold \in [Vocabulary -> Vocabulary]
  BY WordListsAssumption
<1>1. m \in Seq(Vocabulary) /\ Len(m) = Len(n) /\ \A i \in 1..Len(n) : m[i] = PlFold[n[i]]
  BY <1>0, FoldedName
<1>2. /\ Folded(DeFold, m) \in Seq(Vocabulary) /\ Len(Folded(DeFold, m)) = Len(m)
      /\ \A i \in 1..Len(m) : Folded(DeFold, m)[i] = DeFold[m[i]]
  BY <1>0, <1>1, FoldedName
<1>3. ASSUME NEW i \in 1..Len(n)
      PROVE  DeFold[m[i]] = m[i]
  <2>1. DeFold[n[i]] = n[i]
    BY <1>0, FoldedName DEF HasGerman
  <2>2. DeFold[PlFold[n[i]]] = PlFold[DeFold[n[i]]]
    <3>1. n[i] \in Vocabulary
      OBVIOUS
    <3> QED BY <3>1, WordListsAssumption
  <2> QED BY <1>1, <2>1, <2>2
<1>4. Folded(DeFold, m) = m
  BY <1>1, <1>2, <1>3, SeqEqual
<1> QED BY <1>4 DEF HasGerman

\* What the seeds are like holds of the rows there are.
LEMMA RowsAreNames ==
  ASSUME LInv, NEW l \in Lists, NEW n \in Rows(l, table[l]) \cup Extra(l)
  PROVE  /\ n \in Seq(Vocabulary) /\ n # <<>> /\ n # <<Slash>>
         /\ l = "countries" => ~HasGerman(n) /\ n \notin DOMAIN CountryAliases
         /\ l = "cities" => {n, Folded(PlFold, n)} \cap DOMAIN CityAliases = {}
<1>1. /\ table[l] \in Nat /\ Len(Seed[l]) \in Nat /\ table[l] <= Len(Seed[l])
  BY ListsInOrder DEF LInv, LexiconTypes
<1>2. Rows(l, table[l]) \subseteq Rows(l, Len(Seed[l]))
  BY <1>1 DEF Rows
<1>3. l \in {"countries", "cities"} => Extra(l) = {}
  BY DEF Extra
<1> QED BY <1>2, <1>3, SeedAssumption

\* A name without German letters that is no alias is looked up as it is.
LEMMA NotResolved ==
  ASSUME NEW aliases, NEW n, ~HasGerman(n), n \notin DOMAIN aliases
  PROVE  Resolve(aliases, n) = n
BY DEF HasGerman, Resolve

LEMMA HeadIsAWord ==
  ASSUME NEW n \in Seq(Vocabulary), n # <<>>
  PROVE  /\ Len(n) \in Nat \ {0} /\ Head(n) = n[1] /\ Head(n) \in Vocabulary
         /\ Len(n) = 1 => n = <<Head(n)>>
         /\ Len(n) # 1 => Len(n) >= 2
         /\ <<Head(n)>> \in Seq(Vocabulary)
         /\ IsPrefix(<<Head(n)>>, n)
<1>1. Len(n) \in Nat \ {0} /\ Head(n) = n[1] /\ Head(n) \in Vocabulary
  BY EmptySeq
<1>2. <<Head(n)>> \in Seq(Vocabulary) /\ Len(<<Head(n)>>) = 1 /\ <<Head(n)>>[1] = Head(n)
  BY <1>1
<1>3. ASSUME Len(n) = 1 PROVE n = <<Head(n)>>
  BY <1>1, <1>2, <1>3, SeqEqual
<1>4. IsPrefix(<<Head(n)>>, n)
  <2>1. Len(<<Head(n)>>) <= Len(n) /\ \A i \in 1..Len(<<Head(n)>>) : <<Head(n)>>[i] = n[i]
    BY <1>1, <1>2
  <2> QED BY <1>2, <2>1, PrefixByPlace
<1> QED BY <1>1, <1>2, <1>3, <1>4

LEMMA SynonymsAreNames ==
  ASSUME NEW n \in Seq(Vocabulary), n # <<>>
  PROVE  \A m \in WithFolded(Synonyms(n)) : m \in Seq(Vocabulary) /\ m # <<>>
<1>1. \A m \in Synonyms(n) : m \in Seq(Vocabulary) /\ m # <<>>
  BY PartsAreNames DEF Synonyms
<1>2. ASSUME NEW m \in Synonyms(n)
      PROVE  Folded(PlFold, m) \in Seq(Vocabulary) /\ Folded(PlFold, m) # <<>>
  <2>1. m \in Seq(Vocabulary) /\ Len(m) \in Nat \ {0}
    BY <1>1, HeadIsAWord
  <2>2. Folded(PlFold, m) \in Seq(Vocabulary) /\ Len(Folded(PlFold, m)) # 0
    BY <2>1, WordListsAssumption, FoldedName
  <2> QED BY <2>2
<1> QED BY <1>1, <1>2 DEF WithFolded

\* The lists of animals and plants have every synonym of a row, in both spellings.
LEMMA SynonymsAreLoaded ==
  ASSUME NEW names, NEW extra, NEW n \in names \cup extra
  PROVE  WithFolded(Synonyms(n)) \subseteq FaunaFloraCache(names, extra)
<1>1. Synonyms(n) \subseteq WithParts(names \cup extra)
  BY DEF Synonyms, WithParts
<1> QED BY <1>1 DEF WithFolded, FaunaFloraCache

\* What is looked up for an animal or a plant is a synonym of a row, or a row as
\* it is written, in either spelling.
LEMMA LoadedIsSynonym ==
  ASSUME NEW names, NEW extra, NEW k \in FaunaFloraCache(names, extra)
  PROVE  \E n \in names \cup extra : k \in WithFolded(Synonyms(n) \cup {n})
<1>1. PICK m \in WithParts(names \cup extra) : k = m \/ k = Folded(PlFold, m)
  BY DEF FaunaFloraCache, WithFolded
<1>2. PICK n \in names \cup extra : m \in Synonyms(n) \cup {n}
  BY <1>1 DEF WithParts, Synonyms
<1> QED BY <1>1, <1>2 DEF WithFolded

\* data.py: from a start on, every row of a list may be written in each of its
\* spellings, but for cities with German letters.
THEOREM ListedAccepted == WordSpec => ListedIsAccepted
<1> DEFINE Listed ==
      Reload =>
        \A l \in Lists : \A n \in Rows(l, table[l]) \cup Extra(l) :
          (l = "cities" => ~HasGerman(n)) =>
            \A a \in Spellings(l, n) : Accepted(l, a, Cache(l, cache'[l]))
<1>1. LInv => Listed
  <2> SUFFICES ASSUME LInv, Reload, NEW l \in Lists,
                      NEW n \in Rows(l, table[l]) \cup Extra(l),
                      l = "cities" => ~HasGerman(n), NEW a \in Spellings(l, n)
               PROVE  Accepted(l, a, Cache(l, cache'[l]))
    BY DEF Listed
  <2> PICK names : names = Rows(l, table[l])
    OBVIOUS
  <2>1. Cache(l, cache'[l]) = Loaded(l, names)
    BY DEF Reload, Cache
  <2>2. n \in Seq(Vocabulary) /\ n # <<>>
    BY RowsAreNames
  <2>3. CASE l = "countries"
    <3>1. a = n /\ n \in names /\ Loaded(l, names) = names
      BY <2>3 DEF Spellings, Extra, Loaded
    <3>2. Resolve(CountryAliases, n) = n
      BY <2>3, RowsAreNames, NotResolved
    <3> QED BY <2>1, <2>3, <3>1, <3>2 DEF Accepted
  <2>4. CASE l = "cities"
    <3>1. /\ n \in names /\ Loaded(l, names) = Cities(names)
          /\ a \in {n, Folded(PlFold, n)} /\ a \notin MIASTA_NORM_BLOCKLIST
      BY <2>4 DEF Spellings, Extra, Loaded
    <3>2. a \in Cities(names)
      BY <3>1 DEF Cities, WithFolded
    <3>3. ~HasGerman(a)
      BY <2>2, <2>4, <3>1, StillNotGerman
    <3>4. a \notin DOMAIN CityAliases
      BY <2>4, <3>1, RowsAreNames
    <3>5. Resolve(CityAliases, a) = a
      BY <3>3, <3>4, NotResolved
    <3> QED BY <2>1, <2>4, <3>1, <3>2, <3>5 DEF Accepted
  <2>5. CASE l = "names"
    BY <2>1, <2>5 DEF Spellings, Extra, Loaded, Accepted
  <2>6. CASE l = "jobs"
    <3>1. n \in names /\ Loaded(l, names) = Jobs(names)
      BY <2>6 DEF Extra, Loaded
    <3>2. a = n \/ (a = <<Head(n)>> /\ Head(n) \in Long \ JOB_ALIAS_PREFIX_SKIP)
      BY <2>6 DEF Spellings
    <3>3. Len(n) = 1 => n = <<Head(n)>>
      BY <2>2, HeadIsAWord
    <3>4. Len(n) # 1 => Len(n) >= 2
      BY <2>2, HeadIsAWord
    <3>5. a \in Jobs(names)
      BY <3>1, <3>2, <3>3, <3>4 DEF Jobs
    <3> QED BY <2>1, <2>6, <3>1, <3>5 DEF Accepted, JobAccepted
  <2>7. CASE l \in {"animal_norms", "plant_norms"}
    <3>1. Loaded(l, names) = FaunaFloraCache(names, Extra(l))
      BY <2>7 DEF Extra, Loaded
    <3> PICK kept : kept = FaunaFloraCache(names, Extra(l))
      OBVIOUS
    <3>2. WithFolded(Synonyms(n)) \subseteq kept
      BY SynonymsAreLoaded
    <3>3. \/ a \in WithFolded(Synonyms(n))
          \/ \E m \in WithFolded(Synonyms(n)) : a = <<Head(m)>> /\ Head(m) \notin Short
      BY <2>7 DEF Spellings
    <3>4. ASSUME NEW m \in WithFolded(Synonyms(n)), a = <<Head(m)>>, Head(m) \notin Short
          PROVE  FaunaFloraValid(a, kept)
      <4>1. IsPrefix(a, m)
        BY <2>2, <3>4, SynonymsAreNames, HeadIsAWord
      <4>2. a \notin {<<w>> : w \in Short}
        BY <3>4
      <4> QED BY <3>2, <4>1, <4>2 DEF FaunaFloraValid, IsStrictPrefix
    <3>5. FaunaFloraValid(a, kept)
      BY <3>2, <3>3, <3>4 DEF FaunaFloraValid
    <3> QED BY <2>1, <2>7, <3>1, <3>5 DEF Accepted
  <2> QED BY <2>3, <2>4, <2>5, <2>6, <2>7 DEF Lists
<1> HIDE DEF Listed
<1>2. WordSpec => [][Listed]_lexiconVars
  BY <1>1, LexiconInvariant, PTL
<1> QED BY <1>2 DEF Listed, ListedIsAccepted

\* data.py: nothing else counts.
THEOREM AcceptedListed == WordSpec => AcceptedIsListed
<1> DEFINE Accepts ==
      Reload =>
        \A l \in Lists : \A a \in AnswerSet :
          Accepted(l, a, Cache(l, cache'[l])) => IsListed(l, a)
<1>1. LInv => Accepts
  <2> SUFFICES ASSUME LInv, Reload, NEW l \in Lists, NEW a \in AnswerSet,
                      Accepted(l, a, Cache(l, cache'[l]))
               PROVE  IsListed(l, a)
    BY DEF Accepts
  <2> PICK names : names = Rows(l, table[l])
    OBVIOUS
  <2>1. Accepted(l, a, Loaded(l, names))
    BY DEF Reload, Cache
  <2>2. a \in Seq(Vocabulary)
    <3>1. CASE \E v \in Vocabulary : a = <<v>>
      BY <3>1
    <3>2. CASE \E v, w \in Vocabulary : a = <<v, w>>
      BY <3>2
    <3> QED BY <3>1, <3>2 DEF AnswerSet
  <2>3. CASE l = "countries"
    <3>1. Resolve(CountryAliases, a) \in names
      BY <2>1, <2>3 DEF Accepted, Loaded
    <3> QED BY <2>3, <3>1 DEF IsListed, Means
  <2>4. CASE l = "cities"
    <3> PICK b : b = Resolve(CityAliases, a)
      OBVIOUS
    <3>1. b \in WithFolded(names) /\ b \notin MIASTA_NORM_BLOCKLIST
      BY <2>1, <2>4 DEF Accepted, Loaded, Cities
    <3>2. PICK n \in names : b = n \/ b = Folded(PlFold, n)
      BY <3>1 DEF WithFolded
    <3>3. Plain(n) = Plain(b)
      BY <3>2, RowsAreNames, PlainOfFolded
    <3>4. a \notin MIASTA_NORM_BLOCKLIST
      BY <3>1, SeedAssumption, NotResolved
    <3> QED BY <2>4, <3>3, <3>4 DEF IsListed, Means
  <2>5. CASE l = "names"
    BY <2>1, <2>5 DEF IsListed, Means, Loaded, Accepted
  <2>6. CASE l = "jobs"
    BY <2>1, <2>6 DEF IsListed, Means, Loaded, Accepted, JobAccepted, Jobs
  <2>7. CASE l \in {"animal_norms", "plant_norms"}
    <3> PICK extra : extra = Extra(l)
      OBVIOUS
    <3>1. FaunaFloraValid(a, FaunaFloraCache(names, extra))
      BY <2>1, <2>7 DEF Accepted, Loaded, Extra
    <3>2. PICK k \in FaunaFloraCache(names, extra) :
            /\ a = k \/ IsPrefix(a, k)
            /\ a \in {<<w>> : w \in Short} => a = k
      BY <3>1 DEF FaunaFloraValid, IsStrictPrefix
    <3>3. PICK n \in names \cup extra : k \in WithFolded(Synonyms(n) \cup {n})
      BY <3>2, LoadedIsSynonym
    <3>4. PICK m \in Synonyms(n) \cup {n} : k = m \/ k = Folded(PlFold, m)
      BY <3>3 DEF WithFolded
    <3>5. n \in Seq(Vocabulary) /\ n # <<>> /\ n # <<Slash>>
      BY RowsAreNames
    <3>6. m \in Seq(Vocabulary) /\ m # <<>>
      BY <3>4, <3>5, PartsAreNames DEF Synonyms
    <3>7. k \in Seq(Vocabulary) /\ Len(k) = Len(m) /\ Plain(k) = Plain(m)
      BY <3>4, <3>6, FoldedName, PlainOfFolded, WordListsAssumption
    <3>8. IsPrefix(Plain(a), Plain(m))
      <4>1. IsPrefix(a, k)
        BY <2>2, <3>2, <3>7, PrefixByPlace
      <4> QED BY <2>2, <3>7, <4>1, PlainPrefix
    <3>9. ASSUME a \in {<<w>> : w \in Short}
          PROVE  a \in WithFolded(Synonyms(n))
      <4>1. Len(m) = 1
        <5>1. PICK w \in Short : a = <<w>>
          BY <3>9
        <5>2. Len(a) = 1
          BY <5>1
        <5> QED BY <3>2, <3>7, <3>9, <5>2
      <4>2. m \in Synonyms(n)
        <5>1. CASE m = n
          <6>1. n = <<n[1]>> /\ n[1] # Slash
            BY <3>5, <3>6, <4>1, <5>1, HeadIsAWord
          <6>2. Slash \notin Range(n)
            BY <3>5, <4>1, <5>1, <6>1 DEF Range
          <6> QED BY <5>1, <6>2 DEF Synonyms
        <5>2. CASE m # n
          BY <3>4, <5>2
        <5> QED BY <5>1, <5>2
      <4> QED BY <3>2, <3>4, <3>9, <4>2 DEF WithFolded
    <3>10. Means(l, a, n)
      BY <2>7, <3>4, <3>8 DEF Means
    <3> QED BY <2>7, <3>9, <3>10 DEF IsListed
  <2> QED BY <2>3, <2>4, <2>5, <2>6, <2>7 DEF Lists
<1> HIDE DEF Accepts
<1>2. WordSpec => [][Accepts]_lexiconVars
  BY <1>1, LexiconInvariant, PTL
<1> QED BY <1>2 DEF Accepts, AcceptedIsListed

\* With the word lists before it, a game with its appeals and the queue after it
\* behaves as module Results says.
THEOREM WordsPlayResults == WordSpec => ResultsSpec
<1>1. WordInit => ResultsInit
  BY DEF WordInit
<1>2. [WordNext]_wordVars => [ResultsNext]_resultsVars
  BY DEF WordNext, wordVars
<1> QED BY <1>1, <1>2, PTL DEF WordSpec, ResultsSpec
=============================================================================
