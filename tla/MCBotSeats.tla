----------------------------- MODULE MCBotSeats -----------------------------
(* Instances of BotSeats for TLC. *)
EXTENDS BotSeats, TLC

RoomSymmetry == Permutations(Rooms)
=============================================================================
