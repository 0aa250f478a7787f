------------------------------ MODULE MCEngine ------------------------------
EXTENDS Engine

(* A bare board, and one with a wall across the middle. *)
MCTerrains == {{}, {<<4, y>> : y \in 1 .. Height - 2}}
=============================================================================
