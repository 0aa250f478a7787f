------------------------------- MODULE Mirror -------------------------------
(***************************************************************************)
(* What the tick stream promises: a client shows a board that the server   *)
(* has had, and follows it tick by tick, unless it has missed a tick; then *)
(* what it shows means nothing until the next full board reaches it.       *)
(*                                                                         *)
(* A full board may be an older one than the client has shown before, for  *)
(* a game_start is queued some time after its board was read.              *)
(***************************************************************************)
EXTENDS Naturals

CONSTANTS Receivers, Grids, NoGrid, FirstGrid, MaxTick

VARIABLES
  tick,    \* the server's tick
  boards,  \* per tick, the board it ended with
  shown,   \* per client, the board it shows
  at,      \* per client, the tick of the last message applied
  inStep   \* per client, no tick was missed since it last got a full board

vars == <<tick, boards, shown, at, inStep>>

Init ==
  /\ tick = 0
  /\ boards = [t \in 0..MaxTick |-> FirstGrid]
  /\ shown = [r \in Receivers |-> NoGrid]
  /\ at = [r \in Receivers |-> 0]
  /\ inStep = [r \in Receivers |-> FALSE]

Advance ==
  /\ tick < MaxTick
  /\ tick' = tick + 1
  /\ \E g \in Grids : boards' = [boards EXCEPT ![tick + 1] = g]
  /\ UNCHANGED <<shown, at, inStep>>

Follow(r) ==
  /\ inStep[r] /\ at[r] < tick
  /\ at' = [at EXCEPT ![r] = @ + 1]
  /\ shown' = [shown EXCEPT ![r] = boards[at[r] + 1]]
  /\ UNCHANGED <<tick, boards, inStep>>

Jump(r) ==
  /\ \E t \in 0..tick :
       /\ at' = [at EXCEPT ![r] = t]
       /\ shown' = [shown EXCEPT ![r] = boards[t]]
  /\ inStep' = [inStep EXCEPT ![r] = TRUE]
  /\ UNCHANGED <<tick, boards>>

Miss(r) ==
  /\ \E t \in 0..tick : at' = [at EXCEPT ![r] = t]
  /\ \E g \in Grids \cup {NoGrid} : shown' = [shown EXCEPT ![r] = g]
  /\ inStep' = [inStep EXCEPT ![r] = FALSE]
  /\ UNCHANGED <<tick, boards>>

Next == Advance \/ \E r \in Receivers : Follow(r) \/ Jump(r) \/ Miss(r)

Spec == Init /\ [][Next]_vars
=============================================================================
