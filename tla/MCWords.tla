------------------------------- MODULE MCWords -------------------------------
(***************************************************************************)
(* A small lexicon: a word with pl at its end has a Polish letter in it,   *)
(* one with de a German one.  And forms with what the rules tell apart in  *)
(* a category with a word list, and two things, given or not.              *)
(***************************************************************************)
EXTENDS WordLife, TLC

Polish == [lodz_pl |-> "lodz", biala_pl |-> "biala", poludniowa_pl |-> "poludniowa",
           zaba_pl |-> "zaba", malpa_pl |-> "malpa", paproc_pl |-> "paproc"]

German == [malmo_de |-> "malmo", munchen_de |-> "munchen"]

MCVocabulary ==
  DOMAIN Polish \cup Range(Polish) \cup DOMAIN German \cup Range(German) \cup
  {"/", "sztokholm", "stockholm", "monachium", "bielsko", "uran", "afryka", "rpa", "anna",
   "kowal", "maly", "pomocniczy", "technik", "iks", "ai", "fikus", "x",
   "kot", "domowy", "pies", "k", "kkk"}

MCPlFold == [w \in MCVocabulary |-> IF w \in DOMAIN Polish THEN Polish[w] ELSE w]
MCDeFold == [w \in MCVocabulary |-> IF w \in DOMAIN German THEN German[w] ELSE w]

MCTiny  == {"x", "k"}
MCShort == {"x", "k", "ai"}
MCLong  == {"kowal", "pomocniczy", "technik"}

SouthAfrica == <<"poludniowa_pl", "afryka">>

MCCityAliases ==
  [a \in {<<"stockholm">>, <<"munchen">>} |->
     IF a = <<"munchen">> THEN <<"monachium">> ELSE <<"sztokholm">>]

MCCountryAliases == [a \in {<<"rpa">>} |-> SouthAfrica]

Blocked      == {<<"uran">>}
ExtraAnimals == {<<"malpa_pl">>}
ExtraPlants  == {<<"iks">>}
SkippedHeads == {"pomocniczy"}
Stems        == {"technik"}

MCSeed ==
  [countries    |-> <<{SouthAfrica}>>,
   cities       |-> <<{<<"lodz_pl">>, <<"sztokholm">>, <<"uran">>, <<"malmo_de">>},
                      {<<"bielsko", "biala_pl">>, <<"monachium">>}>>,
   names        |-> <<{<<"anna">>}>>,
   jobs         |-> <<{<<"kowal", "maly">>}, {<<"pomocniczy", "kowal">>}>>,
   animal_norms |-> <<{<<"zaba_pl", "maly">>, <<"kot", "domowy">>, <<"pies">>},
                      {<<"ai", "maly">>, <<"x", "/", "zaba">>}>>,
   plant_norms  |-> <<{<<"fikus", "maly", "/", "paproc_pl">>}>>]

MCOrder == <<"countries", "cities", "names", "jobs", "animal_norms", "plant_norms">>

MCCategories == {"Zwierze", "Rzecz"}
MCForms ==
  {[Zwierze |-> "kot", Rzecz |-> "kubek"], [Zwierze |-> "kot", Rzecz |-> "klucz"],
   [Zwierze |-> "k", Rzecz |-> "klucz"], [Zwierze |-> "kkk", Rzecz |-> ""],
   [Zwierze |-> "pies", Rzecz |-> "kubek"]}

\* The answers in these forms that the lists, loaded whole, accept.
ASSUME DictionaryAssumption ==
  Dictionary =
    {a \in {f["Zwierze"] : f \in Forms} :
       Accepted("animal_norms", <<a>>, Cache("animal_norms", Len(Seed["animal_norms"])))}

Symmetry == Permutations(Players) \cup Permutations(Reporters) \cup Permutations(Deciders)
=============================================================================
