---------------------------- MODULE MCPlayerPage ----------------------------
(* Small times in the order of the real ones; the cfg gives every constant.  *)
EXTENDS PlayerPage
=============================================================================
