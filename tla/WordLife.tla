------------------------------ MODULE WordLife ------------------------------
(***************************************************************************)
(* A word's way through the server: it is seeded and loaded (module        *)
(* Lexicon), counts in games, is appealed for and decided on (module       *)
(* Results).  A game reads of the lists only which answers they accept,    *)
(* the constant Dictionary of module Scoring: it is played, here, when all *)
(* lists are whole, and once it has begun they do not change any more.     *)
(***************************************************************************)
EXTENDS Results, Lexicon

wordVars == <<resultsVars, lexiconVars>>

WordInit == ResultsInit /\ LexiconInit

\* The first game has not begun.
NothingPlayed ==
  present = Players /\ answers = <<>> /\ history = <<>> /\ ~expired

WordNext ==
  \/ NothingPlayed /\ LexiconNext /\ UNCHANGED resultsVars
  \/ phase = "serving" /\ interrupted = {} /\ ResultsNext /\ UNCHANGED lexiconVars

WordSpec == WordInit /\ [][WordNext]_wordVars
=============================================================================
