------------------------------- MODULE MCPlay ------------------------------
(* Two directions, a gun of one shot, and queues that hardly hold a move.  *)
EXTENDS Play

(* When the bot is gone there is nothing left to look at.                  *)
Alive == bot \in {"playing", "asking"}
============================================================================
