------------------------------ MODULE WordLists ------------------------------
(***************************************************************************)
(* Which answers count: how the rows of the word lists become the sets     *)
(* that answers are looked up in (the reload functions of data.py), and    *)
(* how a normalised answer is looked up (_calculate_base_category_score    *)
(* and _fauna_flora_norm_valid, manager.py; geo_answer_aliases.py).        *)
(*                                                                         *)
(* A name is a sequence of words.  Strings are left alone: what the rules  *)
(* ask of a word is a set or a function given as a constant.               *)
(***************************************************************************)
EXTENDS Naturals, Sequences, SequencesExt

CONSTANTS
  Vocabulary, Slash,    \* Slash is a word of its own
  PlFold, DeFold,       \* word -> word without Polish, German letters
  Tiny, Short, Long,    \* words of one letter, of fewer than 3, of more than 3
  CityAliases, CountryAliases,        \* name -> name
  MIASTA_NORM_BLOCKLIST, ZWIERZETA_EXTRA, ROSLINY_EXTRA,   \* sets of names
  JOB_ALIAS_PREFIX_SKIP, JOB_STANDALONE_OR_PREFIX          \* sets of words

Lists == {"countries", "cities", "names", "jobs", "animal_norms", "plant_norms"}

ASSUME WordListsAssumption ==
  /\ PlFold \in [Vocabulary -> Vocabulary] /\ DeFold \in [Vocabulary -> Vocabulary]
  /\ Slash \in Vocabulary /\ PlFold[Slash] = Slash /\ DeFold[Slash] = Slash
  /\ \A w \in Vocabulary : /\ PlFold[PlFold[w]] = PlFold[w] /\ DeFold[DeFold[w]] = DeFold[w]
                          /\ DeFold[PlFold[w]] = PlFold[DeFold[w]]
  /\ Tiny \subseteq Short /\ Short \cap Long = {} /\ Short \cup Long \subseteq Vocabulary

\* str.translate, word by word.
Folded(fold, n) == [i \in DOMAIN n |-> fold[n[i]]]

WithFolded(names) == names \cup {Folded(PlFold, n) : n \in names}

-----------------------------------------------------------------------------
(* The caches                                                              *)

\* The places where a part between slashes begins and ends.
IsPart(n, i, j) ==
  /\ i = 1 \/ n[i - 1] = Slash
  /\ j = Len(n) \/ n[j + 1] = Slash
  /\ \A k \in i..j : n[k] # Slash

\* The parts of a name with a slash in it.
Parts(n) ==
  {SubSeq(n, p[1], p[2]) : p \in {q \in (1..Len(n)) \X (1..Len(n)) :
                                   q[1] <= q[2] /\ IsPart(n, q[1], q[2])}}
    \ {<<w>> : w \in Tiny}

\* _add_slash_synonym_fragments
WithParts(names) == names \cup UNION {Parts(n) : n \in {m \in names : Slash \in Range(m)}}

\* reload_miasta
Cities(rows) == WithFolded(rows) \ MIASTA_NORM_BLOCKLIST

\* reload_jobs
Jobs(rows) ==
  rows \cup {<<Head(n)>> : n \in {m \in rows : /\ Len(m) >= 2
                                               /\ Head(m) \in Long \ JOB_ALIAS_PREFIX_SKIP}}

\* Mutant: the parts are left out.
NoParts(rows, extra) == WithFolded(rows \cup extra)

\* reload_zwierzeta, reload_rosliny
FaunaFloraCache(rows, extra) == WithFolded(WithParts(rows \cup extra))

\* What answers to this list are looked up in.
Loaded(l, rows) ==
  CASE l = "cities"       -> Cities(rows)
    [] l = "jobs"         -> Jobs(rows)
    [] l = "animal_norms" -> FaunaFloraCache(rows, ZWIERZETA_EXTRA)
    [] l = "plant_norms"  -> FaunaFloraCache(rows, ROSLINY_EXTRA)
    [] OTHER              -> rows

-----------------------------------------------------------------------------
(* The look-up                                                             *)

\* resolve_city_answer, resolve_country_answer
Resolve(aliases, a) ==
  LET plain == Folded(DeFold, a) IN
  IF a \in DOMAIN aliases THEN aliases[a]
  ELSE IF plain \in DOMAIN aliases THEN aliases[plain]
  ELSE plain

\* Mutant: the first words of any length will do.
AnyFirstWords(a, cache) == \E n \in cache : IsPrefix(a, n)

\* _fauna_flora_norm_valid: the name, or its first words.
FaunaFloraValid(a, cache) ==
  \/ a \in cache
  \/ a \notin {<<w>> : w \in Short} /\ \E n \in cache : IsStrictPrefix(a, n)

\* job_answer_accepted
JobAccepted(a, cache) == a \in cache \/ Head(a) \in JOB_STANDALONE_OR_PREFIX

\* _calculate_base_category_score, for an answer that is not empty.
Accepted(l, a, cache) ==
  CASE l = "countries" -> Resolve(CountryAliases, a) \in cache
    [] l = "cities"    -> Resolve(CityAliases, a) \in cache
    [] l = "names"     -> a \in cache
    [] l = "jobs"      -> JobAccepted(a, cache)
    [] OTHER           -> FaunaFloraValid(a, cache)

-----------------------------------------------------------------------------
(* What the lists are said to do: the comment at the top of data.py.       *)

HasGerman(n) == Folded(DeFold, n) # n

Extra(l) ==
  CASE l = "animal_norms" -> ZWIERZETA_EXTRA
    [] l = "plant_norms"  -> ROSLINY_EXTRA
    [] OTHER              -> {}

\* "Figowiec / fikus" is two names.
Synonyms(n) == IF Slash \in Range(n) THEN Parts(n) ELSE {n}

\* The ways to write the name n of a list: in full, without Polish letters, a
\* synonym, its first word, the first word of a job.
Spellings(l, n) ==
  CASE l = "cities" -> {m \in {n, Folded(PlFold, n)} : m \notin MIASTA_NORM_BLOCKLIST}
    [] l = "jobs"   -> {n} \cup {<<w>> : w \in {Head(n)} \cap (Long \ JOB_ALIAS_PREFIX_SKIP)}
    [] l \in {"animal_norms", "plant_norms"} ->
         LET full == WithFolded(Synonyms(n))
         IN  full \cup {<<Head(m)>> : m \in {k \in full : Head(k) \notin Short}}
    [] OTHER        -> {n}

\* Without any marks.
Plain(n) == Folded(PlFold, Folded(DeFold, n))

\* The answer a could be meant for n, if spelling is forgiven.
Means(l, a, n) ==
  CASE l = "countries" -> Plain(n) = Plain(Resolve(CountryAliases, a))
    [] l = "cities"    -> Plain(n) = Plain(Resolve(CityAliases, a))
    [] l = "names"     -> n = a
    [] l = "jobs"      -> a = n \/ a = <<Head(n)>>
    [] OTHER           -> \E m \in Synonyms(n) \cup {n} : IsPrefix(Plain(a), Plain(m))
=============================================================================
