------------------------------ MODULE WordQueue ------------------------------
(***************************************************************************)
(* The queue of words proposed for the dictionary: the table               *)
(* dictionary_suggestions (db.py), reports from the site (word_queue.py),  *)
(* the worker that takes the pending rows in batches and posts a decision  *)
(* on each (word_worker.py, an external program on the other side), and    *)
(* the reviewer's command line tool (scripts/review_suggestions.py).       *)
(*                                                                         *)
(* Each request is an asyncio task of its own; looking for a pending row   *)
(* and inserting one are two database calls, and so are reading the status *)
(* of a row and writing the decision.  Row ids are given in the order of   *)
(* the inserts.  A row is a word and the case its letter is written in:    *)
(* reports lower it, the appeals of a game keep the alphabet's capital.    *)
(***************************************************************************)
EXTENDS Naturals, FiniteSets, Sequences, FiniteSetsExt

CONSTANTS
  Words,               \* the words people report, category included
  Reporters,           \* requests to report a word, one at a time each
  Deciders,            \* requests to decide, one at a time each
  BatchLimit,          \* limit of a batch
  MaxRows              \* bound on the rows

ASSUME WordQueueAssumption ==
  BatchLimit \in Nat \ {0} /\ MaxRows \in Nat

Verdicts == {"accepted", "rejected", "error"}

VARIABLES
  rows,                \* dictionary_suggestions: by id, [word, letter, status]
  looked,              \* per reporter: the word it has found no pending row of
  cursor,              \* after_id of the worker's next request
  handed,              \* the ids it has been given since it began at 0
  deciding,            \* per decider: the decision on a row it has read as
                       \* pending
  told,                \* history: per id, the decisions reported as applied
  contested,           \* history: ids decided on twice at a time, or reviewed
  crossed              \* history: words two reports have looked for at a time

queueVars == <<rows, looked, cursor, handed, deciding, told, contested, crossed>>

Idle == "idle"
NoDecision == [id |-> 0, verdict |-> "none"]

QueueInit ==
  /\ rows = <<>>
  /\ looked = [r \in Reporters |-> Idle]
  /\ cursor = 0 /\ handed = {}
  /\ deciding = [d \in Deciders |-> NoDecision]
  /\ told = [i \in 1..MaxRows |-> {}] /\ contested = {} /\ crossed = {}

-----------------------------------------------------------------------------
Pending(word, letter) ==
  {i \in DOMAIN rows : rows[i] = [word |-> word, letter |-> letter, status |-> "pending"]}

\* Mutant: a report does not look whether the word is queued.
NotQueued(word) == TRUE

\* fetch_pending_dictionary_suggestion finds none.
Unqueued(word) == Pending(word, "lower") = {}

\* insert_dictionary_suggestion.
Insert(word, letter) ==
  /\ Len(rows) < MaxRows
  /\ rows' = Append(rows, [word |-> word, letter |-> letter, status |-> "pending"])

\* report_dictionary_suggestion: if the word is queued, that is the answer.
ReportLooks(r, word) ==
  /\ looked[r] = Idle /\ Unqueued(word)
  /\ looked' = [looked EXCEPT ![r] = word]
  /\ crossed' = IF \E q \in Reporters : looked[q] = word THEN crossed \cup {word} ELSE crossed
  /\ UNCHANGED <<rows, cursor, handed, deciding, told, contested>>

ReportInserts(r) ==
  /\ looked[r] # Idle
  /\ Insert(looked[r], "lower")
  /\ looked' = [looked EXCEPT ![r] = Idle]
  /\ UNCHANGED <<cursor, handed, deciding, told, contested, crossed>>

\* maybe_enqueue_dictionary_suggestion of an appeal inserts without looking.
SuggestWord(word) ==
  /\ Insert(word, "upper")
  /\ UNCHANGED <<looked, cursor, handed, deciding, told, contested, crossed>>

-----------------------------------------------------------------------------
PendingAfter(id) == {i \in DOMAIN rows : i > id /\ rows[i].status = "pending"}

\* list_pending_dictionary_suggestions: the first of them.
BatchOf(ids) ==
  {i \in ids : Cardinality({j \in ids : j < i}) < BatchLimit}

\* Mutant: the next request begins after all pending rows.
AfterAll(batch) == IF batch = {} THEN cursor ELSE Len(rows)

\* next_after_id.
NextAfterId(batch) == IF batch = {} THEN cursor ELSE Max(batch)

\* fetch_pending_batch.
FetchBatch ==
  LET batch == BatchOf(PendingAfter(cursor))
  IN  /\ cursor' = NextAfterId(batch)
      /\ handed' = handed \cup batch
      /\ UNCHANGED <<rows, looked, deciding, told, contested, crossed>>

\* The worker begins again at the first row.
StartOver ==
  /\ cursor > 0
  /\ cursor' = 0 /\ handed' = {}
  /\ UNCHANGED <<rows, looked, deciding, told, contested, crossed>>

\* Mutant: a decided row may be decided again.
Decidable(id) == TRUE

IsPending(id) == rows[id].status = "pending"

\* decide_pending_dictionary_suggestion reads the row ...
DecisionReads(d, id, verdict) ==
  /\ deciding[d] = NoDecision /\ id \in DOMAIN rows /\ IsPending(id)
  /\ deciding' = [deciding EXCEPT ![d] = [id |-> id, verdict |-> verdict]]
  /\ contested' = IF \E e \in Deciders : deciding[e].id = id THEN contested \cup {id}
                  ELSE contested
  /\ UNCHANGED <<rows, looked, cursor, handed, told, crossed>>

\* ... and writes whatever its status is by then.
DecisionWrites(d) ==
  LET decision == deciding[d]
  IN  /\ decision # NoDecision
      /\ rows' = [rows EXCEPT ![decision.id].status = decision.verdict]
      /\ told' = [told EXCEPT ![decision.id] = @ \cup {decision.verdict}]
      /\ deciding' = [deciding EXCEPT ![d] = NoDecision]
      /\ UNCHANGED <<looked, cursor, handed, contested, crossed>>

\* cmd_approve and cmd_reject do not look at the status at all.
Review(id, verdict) ==
  /\ id \in DOMAIN rows
  /\ rows' = [rows EXCEPT ![id].status = verdict]
  /\ contested' = contested \cup {id}
  /\ UNCHANGED <<looked, cursor, handed, deciding, told, crossed>>

QueueNext ==
  \/ \E r \in Reporters : ReportInserts(r) \/ \E w \in Words : ReportLooks(r, w)
  \/ FetchBatch \/ StartOver
  \/ \E d \in Deciders :
       DecisionWrites(d) \/ \E id \in handed, v \in Verdicts : DecisionReads(d, id, v)
  \/ \E id \in DOMAIN rows, v \in {"accepted", "rejected"} : Review(id, v)

-----------------------------------------------------------------------------
\* Every pending row the worker's cursor has passed has been handed to it: the
\* ids grow with the inserts, and a batch ends where the next one begins.
CursorSkipsNothing ==
  \A id \in DOMAIN rows : id <= cursor /\ rows[id].status = "pending" => id \in handed

\* A decision that was reported as applied is the status of the row, unless
\* another request had read the row as pending in the meantime or a reviewer
\* has decided as well (decide_pending_dictionary_suggestion).
DecisionStands ==
  \A id \in DOMAIN rows : id \notin contested => told[id] \subseteq {rows[id].status}

\* A word reported while it is pending is not queued twice, unless two reports
\* had both looked for it before one of them inserted it.
QueuedOnce ==
  \A w \in Words : w \notin crossed => Cardinality(Pending(w, "lower")) <= 1
=============================================================================
