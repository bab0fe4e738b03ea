---------------------------- MODULE MCLetterDeck ----------------------------
(* Six letters and a memory of three: the smallest deck in which the memory  *)
(* is exactly half of the alphabet, the tightest case DeckAssumption allows. *)
EXTENDS LetterDeck

CONSTANTS A, B, C, D, E, F

MCAlphabet == {A, B, C, D, E, F}
=============================================================================
