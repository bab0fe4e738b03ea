------------------------------- MODULE Lexicon -------------------------------
(***************************************************************************)
(* The word lists of the server: seeded into the database at a start       *)
(* (init_db, db.py) and loaded into memory (lifespan, main.py).            *)
(*                                                                         *)
(* A list is seeded in batches with a commit after each, if its table is   *)
(* empty; the server may be killed between any two.  The lexicon of things *)
(* is not seeded: module Scoring has it.                                   *)
(***************************************************************************)
EXTENDS WordLists

CONSTANTS
  Seed,                 \* list -> the batches of its seed, sets of names
  Order                 \* the order in which init_db seeds the lists

ASSUME LexiconAssumption ==
  /\ Order \in Seq(Lists) /\ Range(Order) = Lists
  /\ Seed \in [Lists -> Seq(SUBSET Seq(Vocabulary))]
  /\ \A l \in Lists : \A i \in DOMAIN Seed[l] : Seed[l][i] # {}

VARIABLES
  phase,                \* "down", "seeding", "serving"
  turn, batch,          \* the list being seeded, and the batches committed
  table,                \* list -> its rows, as the number of committed batches
  cache,                \* list -> the rows that were loaded, likewise
  interrupted           \* history: lists whose seed a crash has cut short

lexiconVars == <<phase, turn, batch, table, cache, interrupted>>

Nowhere == [l \in Lists |-> 0]

\* The rows of the first k batches, and what answers are looked up in then.
Rows(l, k)  == UNION {Seed[l][i] : i \in 1..k}
Cache(l, k) == Loaded(l, Rows(l, k))

\* What the seeds are like (countries_seed.py, cities_seed.py, the files of
\* seed_data): names have words, a slash alone is no name, countries have no
\* German letters, and names that are written here are not aliases of others.
ASSUME SeedAssumption ==
  /\ \A l \in Lists : \A n \in Rows(l, Len(Seed[l])) \cup Extra(l) :
       n \in Seq(Vocabulary) /\ n # <<>> /\ n # <<Slash>>
  /\ \A n \in Rows("countries", Len(Seed["countries"])) :
       ~HasGerman(n) /\ n \notin DOMAIN CountryAliases
  /\ \A n \in Rows("cities", Len(Seed["cities"])) :
       {n, Folded(PlFold, n)} \cap DOMAIN CityAliases = {}
  /\ \A n \in MIASTA_NORM_BLOCKLIST : ~HasGerman(n) /\ n \notin DOMAIN CityAliases

LexiconInit ==
  /\ phase = "down" /\ turn = 1 /\ batch = 0
  /\ table = Nowhere /\ cache = Nowhere
  /\ interrupted = {}

\* lifespan calls init_db.
Start ==
  /\ phase = "down" /\ phase' = "seeding"
  /\ turn' = 1 /\ batch' = 0
  /\ UNCHANGED <<table, cache, interrupted>>

\* Mutant: the seed stops one batch early.
StopsEarly(l) == batch + 1 >= Len(Seed[l])

\* The last batch is in.
SeedDone(l) == batch = Len(Seed[l])

\* _seed_executemany_if_empty, _seed_norms_from_iter: a table with a row in it
\* has been seeded.
Seeded(l) ==
  \/ batch = 0 /\ table[l] > 0
  \/ SeedDone(l)

SeedBatch ==
  /\ phase = "seeding" /\ turn <= Len(Order)
  /\ LET l == Order[turn] IN
     /\ ~Seeded(l)
     /\ table' = [table EXCEPT ![l] = batch + 1]
     /\ batch' = batch + 1
  /\ UNCHANGED <<phase, turn, cache, interrupted>>

NextList ==
  /\ phase = "seeding" /\ turn <= Len(Order)
  /\ Seeded(Order[turn])
  /\ turn' = turn + 1 /\ batch' = 0
  /\ UNCHANGED <<phase, table, cache, interrupted>>

\* The reload functions, before the first request.
Reload ==
  /\ phase = "seeding" /\ turn > Len(Order)
  /\ phase' = "serving"
  /\ cache' = table
  /\ UNCHANGED <<turn, batch, table, interrupted>>

\* The process is killed, at any moment.
Crash ==
  /\ phase # "down" /\ phase' = "down"
  /\ cache' = Nowhere
  /\ interrupted' = IF phase = "seeding" /\ turn <= Len(Order) /\ batch > 0 /\ ~Seeded(Order[turn])
                    THEN interrupted \cup {Order[turn]} ELSE interrupted
  /\ UNCHANGED <<turn, batch, table>>

LexiconNext == Start \/ SeedBatch \/ NextList \/ Reload \/ Crash

-----------------------------------------------------------------------------
\* The comment in init_db speaks of interrupted starts: a list that a serving
\* process has in part only is one whose seeding was cut short by a crash.
WholeUnlessInterrupted ==
  phase = "serving" =>
    \A l \in Lists : table[l] < Len(Seed[l]) => l \in interrupted

\* data.py: from a start on, every row of a list may be written in each of its
\* spellings, but for cities with German letters.
ListedIsAccepted ==
  [][Reload =>
       \A l \in Lists : \A n \in Rows(l, table[l]) \cup Extra(l) :
         (l = "cities" => ~HasGerman(n)) =>
           \A a \in Spellings(l, n) : Accepted(l, a, Cache(l, cache'[l]))]_lexiconVars

\* Answers as long as this are looked at.
AnswerSet == {<<v>> : v \in Vocabulary} \cup {<<v, w>> : v \in Vocabulary, w \in Vocabulary}

\* The answer a is a way to write a row of the list, or begins with the stem of
\* a job; it is no homonym, and no first word that is too short.
IsListed(l, a) ==
  /\ \/ \E n \in Rows(l, table[l]) \cup Extra(l) : Means(l, a, n)
     \/ l = "jobs" /\ Head(a) \in JOB_STANDALONE_OR_PREFIX
  /\ l = "cities" => a \notin MIASTA_NORM_BLOCKLIST
  /\ l \in {"animal_norms", "plant_norms"} /\ a \in {<<w>> : w \in Short} =>
       \E n \in Rows(l, table[l]) \cup Extra(l) : a \in WithFolded(Synonyms(n))

\* data.py: nothing else counts.
AcceptedIsListed ==
  [][Reload =>
       \A l \in Lists : \A a \in AnswerSet : Accepted(l, a, Cache(l, cache'[l])) => IsListed(l, a)]_lexiconVars
=============================================================================
