------------------------------- MODULE MCLobby -----------------------------
(* One page, and two status requests that may overtake each other.         *)
EXTENDS Lobby
============================================================================
