------------------------------- MODULE Board -------------------------------
(***************************************************************************)
(* The board, the tanks on it, and what happens to them: movement, mines   *)
(* that are laid, hits and respawns.  The operators take the state of a    *)
(* game, a record with the fields of engine.GameController that the rules  *)
(* read, and return the state after the call; engine/board.go, player.go   *)
(* and the parts of game.go that they name are translated in call order.   *)
(*                                                                         *)
(* Time is counted in updates of 1/60 second.  A moment the code keeps     *)
(* (LastMoveTime, ArmedTime, VisibleStartTime) is here the number of       *)
(* updates that are left until the delay after it has passed, so that two  *)
(* states that differ only in how long ago it passed are one.              *)
(***************************************************************************)
EXTENDS Integers, Sequences

CONSTANTS
  Width, Height,      \* the size of the board (40 by 21)
  SpawnRow,           \* the row both tanks start in (10)
  FullLives,          \* tanks per game, shots and mines per life:
  FullAmmo,           \* DifficultyToResources
  FullMines,
  MoveDelay,          \* updates between two moves of a tank
  ShotDelay,          \* updates between two steps of a shot
  MineArmDelay,       \* updates until a mine its owner has left is armed
  MineVisibleDuration \* updates until a mine its owner has left is hidden

Players == {1, 2}
Opponent(p) == 3 - p

(* engine.DirectionVectors: y grows downwards. *)
Vector ==
  [up |-> <<0, -1>>, down |-> <<0, 1>>, left |-> <<-1, 0>>, right |-> <<1, 0>>,
   upleft |-> <<-1, -1>>, upright |-> <<1, -1>>,
   downleft |-> <<-1, 1>>, downright |-> <<1, 1>>]
Direction == DOMAIN Vector
NoSwing == "none"

Cells == (0 .. Width - 1) \X (0 .. Height - 1)
Interior == (1 .. Width - 2) \X (1 .. Height - 2)

(* The two kinds of wreckage differ only in how they are drawn. *)
CellType ==
  {"empty", "wall", "tank1", "tank2", "barrel1", "barrel2", "shot", "mine", "wreckage"}
CellTypeForTank == <<"tank1", "tank2">>
CellTypeForBarrel == <<"barrel1", "barrel2">>

StartColumn == <<2, Width - 3>>
Start(p) == <<StartColumn[p], SpawnRow>>
StartDir == <<"right", "left">>

(* There is a column between the two start columns.                        *)
ASSUME BoardAssumption ==
  /\ Width \in Nat /\ Height \in Nat /\ SpawnRow \in Nat
  /\ Width >= 7 /\ 1 <= SpawnRow /\ SpawnRow <= Height - 2
  /\ FullLives \in Nat \ {0} /\ FullAmmo \in Nat \ {0, 1} /\ FullMines \in Nat
  /\ MoveDelay \in Nat /\ ShotDelay \in Nat \ {0}
  /\ MineArmDelay \in Nat \ {0} /\ MineVisibleDuration \in Nat

----------------------------------------------------------------------------
(* The state of a game.  A shot keeps where its last step started (from:   *)
(* StepStartX, StepStartY), whether it still flies (live: Active) and the  *)
(* cell it ended at (hit: CollisionPos, a sequence of at most one cell).   *)
(* Mine.ArmedTime = 0, the owner has not left the cell, is NotLeft.  Mines *)
(* that have exploded stay in the code's list, inactive and never read     *)
(* again; here they leave the sequence.                                    *)
NotLeft == -1
Shot ==
  [at : Cells, dir : Direction, owner : Players, left : 0 .. Width + Height,
   wait : 0 .. ShotDelay, from : Cells, live : BOOLEAN,
   hit : {<<>>} \cup {<<c>> : c \in Cells}]
Mine ==
  [at : Interior, owner : Players, visible : BOOLEAN,
   armIn : NotLeft .. MineArmDelay, hideIn : 0 .. MineVisibleDuration]
Game ==
  [grid : [Cells -> CellType], pos : [Players -> Interior], dir : [Players -> Direction],
   lives : [Players -> 0 .. FullLives], ammo : [Players -> 0 .. FullAmmo],
   stock : [Players -> 0 .. FullMines],
   swing : [Players -> Direction \cup {NoSwing}], moveWait : [Players -> 0 .. MoveDelay],
   shots : Seq(Shot), mines : Seq(Mine), emptyGun : [Players -> BOOLEAN],
   winner : {0} \cup Players, wins : [Players -> Nat], battles : Nat]

----------------------------------------------------------------------------
(* Tanks and the cells they occupy: engine/player.go *)

InBounds(c) == c \in Cells
Ahead(c, d) == <<c[1] + Vector[d][1], c[2] + Vector[d][2]>>
BarrelPos(g, p) == Ahead(g.pos[p], g.dir[p])

(* A barrel is drawn only where the cell is free. *)
DrawBarrel(g, p) ==
  LET c == BarrelPos(g, p)
  IN IF InBounds(c) /\ g.grid[c] = "empty"
     THEN [g EXCEPT !.grid[c] = CellTypeForBarrel[p]]
     ELSE g

EraseBarrel(g, p) ==
  LET c == BarrelPos(g, p)
  IN IF InBounds(c) /\ g.grid[c] = CellTypeForBarrel[p]
     THEN [g EXCEPT !.grid[c] = "empty"]
     ELSE g

(* The body is drawn over whatever the cell holds. *)
OccupyBoard(g, p) ==
  DrawBarrel([g EXCEPT !.grid[g.pos[p]] = CellTypeForTank[p]], p)

ClearFromBoard(g, p) ==
  LET erased == EraseBarrel(g, p)
  IN IF erased.grid[g.pos[p]] = CellTypeForTank[p]
     THEN [erased EXCEPT !.grid[g.pos[p]] = "empty"]
     ELSE erased

Clamp(i, last) == IF i < 1 THEN 1 ELSE IF i > last THEN last ELSE i

\* Mutant: an enemy tank is no obstacle.
AttemptMoveThrough(g, p, d) ==
  LET ahead == Ahead(g.pos[p], d)
      to == <<Clamp(ahead[1], Width - 2), Clamp(ahead[2], Height - 2)>>
      blocked == g.grid[to] \in {"wall", "wreckage", CellTypeForBarrel[Opponent(p)]}
  IN IF to = g.pos[p] \/ blocked
     THEN g
     ELSE OccupyBoard([ClearFromBoard(g, p) EXCEPT !.pos[p] = to, !.dir[p] = d], p)

AttemptMove(g, p, d) ==
  LET ahead == Ahead(g.pos[p], d)
      to == <<Clamp(ahead[1], Width - 2), Clamp(ahead[2], Height - 2)>>
      free == g.grid[to] \in {"empty", "shot", "mine", CellTypeForBarrel[p]}
  IN IF to = g.pos[p] \/ ~free
     THEN g
     ELSE OccupyBoard([ClearFromBoard(g, p) EXCEPT !.pos[p] = to, !.dir[p] = d], p)

\* Mutant: a tank with no life left loses another.
TakeDamageAlways(g, p) == [g EXCEPT !.lives[p] = @ - 1]

TakeDamage(g, p) == [g EXCEPT !.lives[p] = IF @ > 0 THEN @ - 1 ELSE @]
IsAlive(g, p) == g.lives[p] > 0

----------------------------------------------------------------------------
(* One key: engine/game.go.  A tank moves in the direction it faces and    *)
(* only turns its barrel when the key is for another one.                  *)

ProcessMovement(g, p, d) ==
  CASE g.moveWait[p] > 0 -> g
    [] g.moveWait[p] = 0 /\ d \in {g.dir[p], g.swing[p]} ->
         [AttemptMove(g, p, d) EXCEPT !.moveWait[p] = MoveDelay, !.swing[p] = NoSwing]
    [] OTHER ->
         [DrawBarrel([EraseBarrel(g, p) EXCEPT !.dir[p] = d], p)
            EXCEPT !.moveWait[p] = MoveDelay, !.swing[p] = d]

NewMine(g, p) ==
  [at |-> g.pos[p], owner |-> p, visible |-> TRUE,
   armIn |-> NotLeft, hideIn |-> MineVisibleDuration]
IsArmed(m) == m.armIn = 0

(* The mine is laid under the tank, whose own cell then shows the mine. *)
PlaceMine(g, p) ==
  IF g.stock[p] > 0
  THEN [g EXCEPT !.grid[g.pos[p]] = "mine", !.stock[p] = @ - 1,
                 !.mines = Append(@, NewMine(g, p))]
  ELSE g

----------------------------------------------------------------------------
(* Hits and respawns: engine/game.go *)

(* The free row nearest to the start, the upper one first; the start row   *)
(* itself, whatever is there, when the whole column is taken.              *)
FindSpawnPos(g, p) ==
  LET free == {y \in 1 .. Height - 2 : g.grid[<<StartColumn[p], y>>] = "empty"}
      turn(y) == IF y <= SpawnRow THEN 2 * (SpawnRow - y) ELSE 2 * (y - SpawnRow) + 1
  IN IF free = {}
     THEN Start(p)
     ELSE <<StartColumn[p], CHOOSE y \in free : \A z \in free : turn(y) <= turn(z)>>

\* Mutant: a tank is moved before its old cells are cleared.
RespawnSingleTankMovesFirst(g, p) ==
  LET moved == [g EXCEPT !.pos[p] = FindSpawnPos(g, p), !.dir[p] = StartDir[p]]
  IN [OccupyBoard(ClearFromBoard(moved, p), p)
        EXCEPT !.ammo[p] = FullAmmo, !.stock[p] = FullMines, !.swing[p] = NoSwing]

\* Mutant: the mines are not given back.
RespawnSingleTankKeeps(g, p) ==
  LET cleared == ClearFromBoard(g, p)
  IN [OccupyBoard([cleared EXCEPT !.pos[p] = FindSpawnPos(cleared, p),
                                  !.dir[p] = StartDir[p]], p)
        EXCEPT !.ammo[p] = FullAmmo, !.swing[p] = NoSwing]

RespawnSingleTank(g, p) ==
  LET cleared == ClearFromBoard(g, p)
  IN [OccupyBoard([cleared EXCEPT !.pos[p] = FindSpawnPos(cleared, p),
                                  !.dir[p] = StartDir[p]], p)
        EXCEPT !.ammo[p] = FullAmmo, !.stock[p] = FullMines, !.swing[p] = NoSwing]

RespawnBothTanks(g) == RespawnSingleTank(RespawnSingleTank(g, 1), 2)

\* Mutant: the tank that is defeated wins.
OnPlayerDefeatedAsWinner(g, p) ==
  RespawnBothTanks([g EXCEPT !.winner = p, !.wins[p] = @ + 1, !.battles = @ + 1])

(* The tank that was defeated is put back on the board with the other. *)
OnPlayerDefeated(g, p) ==
  RespawnBothTanks([g EXCEPT !.winner = Opponent(p), !.wins[Opponent(p)] = @ + 1,
                             !.battles = @ + 1])

Covered == {"empty", "wall", "shot", "mine", "barrel1", "barrel2"}
PlaceDiceWreckage(g, c) ==
  LET corners == {<<c[1] + i, c[2] + j>> : i \in {-1, 1}, j \in {-1, 1}}
  IN [g EXCEPT !.grid =
        [x \in Cells |-> IF x \in corners /\ @[x] \in Covered THEN "wreckage" ELSE @[x]]]

TankHit(g, p, c) ==
  LET hit == TakeDamage(PlaceDiceWreckage(ClearFromBoard(g, p), c), p)
  IN IF IsAlive(hit, p) THEN RespawnBothTanks(hit) ELSE OnPlayerDefeated(hit, p)

(* A barrel hit leaves the other tank where it is, unless it was the last. *)
BarrelHit(g, p, c) ==
  LET wrecked == [ClearFromBoard(g, p) EXCEPT !.grid[g.pos[p]] = "wreckage",
                                              !.grid[c] = "wreckage"]
      hit == TakeDamage(wrecked, p)
  IN IF IsAlive(hit, p) THEN RespawnSingleTank(hit, p) ELSE OnPlayerDefeated(hit, p)

(* NewGameController and InitRound, on a board with these walls inside. *)
NewRound(walls) ==
  LET bare == [grid |-> [c \in Cells |-> IF c \notin Interior \/ c \in walls
                                         THEN "wall" ELSE "empty"],
               pos |-> <<Start(1), Start(2)>>, dir |-> StartDir,
               lives |-> [p \in Players |-> FullLives],
               ammo |-> [p \in Players |-> FullAmmo],
               stock |-> [p \in Players |-> FullMines],
               swing |-> [p \in Players |-> NoSwing],
               moveWait |-> [p \in Players |-> 0],
               shots |-> <<>>, mines |-> <<>>,
               emptyGun |-> [p \in Players |-> FALSE],
               winner |-> 0, wins |-> [p \in Players |-> 0], battles |-> 0]
  IN OccupyBoard(OccupyBoard(bare, 1), 2)

(* Terrain keeps the spawns, their neighbours and a lane at both ends of   *)
(* row 12 free (Board.generateTerrain).                                    *)
Reserved(c) ==
  \/ \E p \in Players : /\ c[1] - StartColumn[p] \in -1 .. 1
                        /\ c[2] - SpawnRow \in -1 .. 1
  \/ c[2] = 12 /\ (c[1] \in 1 .. 5 \/ c[1] \in Width - 6 .. Width - 2)

----------------------------------------------------------------------------
(* What the rules promise of a game.                                       *)

(* A cell that shows a tank or a barrel is where that tank, or its barrel, *)
(* is.                                                                     *)
Drawn(g) ==
  \A c \in Cells, p \in Players :
    /\ g.grid[c] = CellTypeForTank[p] => g.pos[p] = c
    /\ g.grid[c] = CellTypeForBarrel[p] => BarrelPos(g, p) = c

(* There is a winner when, and only when, a tank has no life left, and the *)
(* winner is one whose opponent has none.                                  *)
Settled(g) ==
  IF g.winner = 0
  THEN \A p \in Players : g.lives[p] > 0
  ELSE g.lives[Opponent(g.winner)] = 0

(* The tank is at its own end of the board, facing its opponent, with all  *)
(* its shots and mines.                                                    *)
Restored(g, p) ==
  /\ g.pos[p][1] = StartColumn[p] /\ g.dir[p] = StartDir[p]
  /\ g.ammo[p] = FullAmmo /\ g.stock[p] = FullMines

(* A cell that shows a mine has a visible one to explode. *)
MinesShown(g) ==
  \A c \in Cells : g.grid[c] = "mine" =>
    \E i \in DOMAIN g.mines : g.mines[i].at = c /\ g.mines[i].visible
============================================================================
