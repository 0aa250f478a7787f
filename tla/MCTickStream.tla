---------------------------- MODULE MCTickStream ----------------------------
(* Instances of TickStream for TLC. *)
EXTENDS TickStream, FiniteSets, TLC

CONSTANTS c1, c2, p1, a, b

MCFirstGrid == [c \in {c1, c2} |-> 0]
MCPlayers   == <<p1>>
MCNoPlayers == <<>>

\* Bound: at most two changes of a cell in a match.
FewChanges ==
  Cardinality({x \in (1..tick) \X Cells : boards[x[1]][x[2]] # boards[x[1] - 1][x[2]]}) <= 2

\* Neither the cells nor the handlers that start the match differ.
Symmetry == Permutations({c1, c2}) \cup Permutations({a, b})

\* Bound: a spectator comes when the handlers have told the player, and to a
\* player that loses nothing; what one receiver is sent does not depend on what
\* another one loses.
OneAtATime ==
  subscribed # {} => (\A h \in Starters : todo[h] = <<>>) /\ ~dropped[p1]
=============================================================================
