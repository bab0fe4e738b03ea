---------------------------- MODULE MCLobbyIdle ----------------------------
(* Small sizes for the idle timer; the cfg gives every constant its value.  *)
EXTENDS LobbyIdle
=============================================================================
