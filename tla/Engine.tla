------------------------------- MODULE Engine ------------------------------
(***************************************************************************)
(* A game of the engine, one tick at a time: at most one key per player,   *)
(* then GameController.Update with its shots, the explosions they set off, *)
(* the mines that set off each other, the empty-gun penalty and the mines' *)
(* clocks.  It is driven by the match loop (server/match.go), which stops  *)
(* at a winner.  The headless runner of the tests                          *)
(* (engine/match_runner.go) makes the same calls and plays on after a      *)
(* winner up to its last tick; that part of a game is not modelled.        *)
(***************************************************************************)
EXTENDS Board, SequencesExt

CONSTANTS
  Terrains,   \* the walls the board may start with, one set of cells each
  Keys,       \* the actions the players may use
  MaxKeys     \* bound: keys pressed in a game

VARIABLES
  gc,         \* the game
  warmUp,     \* updates until SimTime reaches ShotDelay, once
  keysLeft    \* keys the bound still allows

vars == <<gc, warmUp, keysLeft>>

Action == Direction \cup {"none", "fire", "placemine"}

ASSUME EngineAssumption ==
  /\ \A walls \in Terrains :
       walls \subseteq Interior /\ \A c \in walls : ~Reserved(c)
  /\ Keys \subseteq Action /\ "none" \in Keys
  /\ MaxKeys \in Nat

----------------------------------------------------------------------------
(* Explosions: engine/mine_explosion.go *)

(* The cells of an explosion, in the order in which they are scanned. *)
Area(c, r) ==
  LET side == 2 * r + 1
  IN [i \in 1 .. side * side |-> <<c[1] - r + ((i - 1) % side), c[2] - r + ((i - 1) \div side)>>]

(* The mines an explosion or a shot finds in a cell; the oldest goes off. *)
MinesAt(g, c) == {i \in DOMAIN g.mines : g.mines[i].at = c}
FirstMine(g, c) == CHOOSE i \in MinesAt(g, c) : \A j \in MinesAt(g, c) : i <= j
Detonated(g, c) ==
  [g EXCEPT !.mines = RemoveAt(@, FirstMine(g, c)), !.grid[c] = "empty"]

(* One cell of the scan of ExplodeMine, in a state that is the game and    *)
(* the cells still to scan.  A mine is scanned around at once, before the  *)
(* rest, and what a hit moves is met again further on.                     *)
ScanCell(s) ==
  LET g == s[1]
      c == Head(s[2])
      rest == Tail(s[2])
      ct == IF InBounds(c) THEN g.grid[c] ELSE "outside"
  IN CASE s[2] = <<>> -> s
       [] s[2] # <<>> /\ ct \in {"wall", "wreckage", "shot"} ->
            <<[g EXCEPT !.grid[c] = "empty"], rest>>
       [] s[2] # <<>> /\ ct = "mine" /\ MinesAt(g, c) # {} ->
            <<Detonated(g, c), Area(c, 2) \o rest>>
       [] s[2] # <<>> /\ ct = "tank1" -> <<TankHit(g, 1, c), rest>>
       [] s[2] # <<>> /\ ct = "tank2" -> <<TankHit(g, 2, c), rest>>
       [] OTHER -> <<g, rest>>

(* A cell a step, and 25 more cells for each mine that goes off. *)
ScanSteps(g, todo) == Len(todo) + 25 * Len(g.mines)
Scan(g, todo) ==
  LET run[n \in Nat] == IF n = 0 THEN <<g, todo>> ELSE ScanCell(run[n - 1])
  IN run[ScanSteps(g, todo)][1]

ExplodeMine(g, c, r) == Scan([g EXCEPT !.grid[c] = "empty"], Area(c, r))

(* A tank on an armed mine is hit, and sent off, before the mine explodes. *)
ResolveTankMineCollision(g, p) ==
  LET armed == {i \in DOMAIN g.mines : IsArmed(g.mines[i]) /\ g.mines[i].at = g.pos[p]}
      i == CHOOSE i \in armed : \A j \in armed : i <= j
      c == g.pos[p]
  IN IF armed = {} THEN g
     ELSE ExplodeMine([TankHit(g, p, c) EXCEPT !.mines = RemoveAt(@, i)], c, 1)

----------------------------------------------------------------------------
(* Shots: engine/projectile.go, shotshot.go, game.go *)

ShotOf(g, p) == {i \in DOMAIN g.shots : g.shots[i].owner = p}

(* Three quarters of the board in the direction of the shot. *)
MaxRange(d) ==
  LET least == IF Height < Width THEN Height ELSE Width
      size == CASE d \in {"left", "right"} -> Width
                [] d \in {"up", "down"} -> Height
                [] OTHER -> least
  IN (3 * size) \div 4

(* NewShot's LastMoveTime is 0, so it steps at once, except at the very    *)
(* start of a match.                                                       *)
NewShot(g, p, first) ==
  [at |-> BarrelPos(g, p), dir |-> g.dir[p], owner |-> p, left |-> MaxRange(g.dir[p]),
   wait |-> first, from |-> BarrelPos(g, p), live |-> TRUE, hit |-> <<>>]

ShotSpawnPosition(g, p) ==
  InBounds(BarrelPos(g, p)) /\ g.grid[BarrelPos(g, p)] # "wall"

\* Mutant: the last shot is looked for before it is taken off.
FireShotEarly(g, p, first) ==
  IF g.ammo[p] > 0 /\ ShotOf(g, p) = {} /\ ShotSpawnPosition(g, p)
  THEN [g EXCEPT !.shots = Append(@, NewShot(g, p, first)), !.ammo[p] = @ - 1,
                 !.emptyGun[p] = @ \/ g.ammo[p] = 0]
  ELSE g

FireShot(g, p, first) ==
  IF g.ammo[p] > 0 /\ ShotOf(g, p) = {} /\ ShotSpawnPosition(g, p)
  THEN [g EXCEPT !.shots = Append(@, NewShot(g, p, first)), !.ammo[p] = @ - 1,
                 !.emptyGun[p] = @ \/ g.ammo[p] = 1]
  ELSE g

ApplyInput(g, p, key, first) ==
  CASE key = "none" -> g
    [] key = "fire" -> FireShot(g, p, first)
    [] key = "placemine" -> PlaceMine(g, p)
    [] OTHER -> ResolveTankMineCollision(ProcessMovement(g, p, key), p)

(* Shot.Step, for a shot that is due: what it meets ends it, and whatever  *)
(* ends it is looked at again when the hits are resolved.                  *)
Stop(s, where) == [s EXCEPT !.live = FALSE, !.hit = where]
Foreign(s, ct) ==
  ct \in {CellTypeForTank[Opponent(s.owner)], CellTypeForBarrel[Opponent(s.owner)]}

Step(grid, s) ==
  LET next == Ahead(s.at, s.dir)
      ahead == IF InBounds(next) THEN grid[next] ELSE "outside"
      moved == [s EXCEPT !.at = next, !.left = @ - 1, !.wait = ShotDelay]
  IN CASE s.left = 0 -> Stop(s, <<>>)
       [] s.left > 0 /\ Foreign(s, grid[s.at]) -> Stop(s, <<s.at>>)
       [] s.left > 0 /\ ~Foreign(s, grid[s.at]) ->
            CASE ahead = "outside" -> Stop(s, <<s.at>>)
              [] ahead \in {"wall", "wreckage", "mine"} \/ Foreign(s, ahead) -> Stop(s, <<next>>)
              [] OTHER -> moved

(* The walls and wreckage a shot runs into are gone with it. *)
Breaks(grid, s) ==
  IF s.hit \notin {<<>>, <<s.at>>} /\ grid[s.hit[1]] \in {"wall", "wreckage"}
  THEN [grid EXCEPT ![s.hit[1]] = "empty"] ELSE grid

StepShot(g, i) ==
  IF i \notin DOMAIN g.shots \/ g.shots[i].wait > 0
  THEN g
  ELSE LET after == Step(g.grid, g.shots[i])
       IN [g EXCEPT !.grid = Breaks(@, after),
                    !.shots = [j \in DOMAIN @ |-> IF j = i THEN after ELSE @[j]]]

(* The list has at most two shots: a player has at most one in the air. *)
MoveShots(g) == StepShot(StepShot(g, 1), 2)

\* Mutant: only shots in one cell collide.
ShotsCrossedHeadOnNever(a, b) == a.live /\ b.live /\ a.at = b.at

(* ShotsCrossedHeadOn: one to the right (down) and one to the left (up) in *)
(* a row (column) have changed sides.                                      *)
Swapped(a, b, axis, forth, back) ==
  LET line == 3 - axis
      lower == IF a.from[axis] < b.from[axis] THEN a ELSE b
      upper == IF a.from[axis] < b.from[axis] THEN b ELSE a
  IN /\ a.from[line] = b.from[line] /\ a.at[line] = b.at[line]
     /\ a.from[axis] # b.from[axis]
     /\ lower.dir = forth /\ upper.dir = back
     /\ lower.at[axis] > upper.at[axis]
ShotsCrossedHeadOn(a, b) ==
  a.live /\ b.live
  /\ (Swapped(a, b, 1, "right", "left") \/ Swapped(a, b, 2, "down", "up"))

(* Halfway between the two that crossed, or the cell they share. *)
ShotShotExplosionKey(a, b) ==
  IF ~ShotsCrossedHeadOn(a, b) THEN a.at
  ELSE IF a.at[2] = b.at[2] THEN <<(a.at[1] + b.at[1]) \div 2, a.at[2]>>
  ELSE <<a.at[1], (a.at[2] + b.at[2]) \div 2>>

(* DetectShotShotCollisions, for the one pair there may be. *)
MeetShots(g) ==
  LET a == g.shots[1]
      b == g.shots[2]
      met == a.live /\ b.live /\ (a.at = b.at \/ ShotsCrossedHeadOn(a, b))
  IN IF Len(g.shots) = 2 /\ met
     THEN ExplodeMine([g EXCEPT !.shots = <<Stop(a, <<>>), Stop(b, <<>>)>>],
                      ShotShotExplosionKey(a, b), 2)
     ELSE g

(* The cell a shot ended at, or the cell it is in. *)
Target(s) == IF s.hit # <<>> THEN s.hit ELSE IF s.live THEN <<s.at>> ELSE <<>>

HitBy(g, i) ==
  IF i \notin DOMAIN g.shots \/ Target(g.shots[i]) = <<>>
  THEN g
  ELSE LET c == Target(g.shots[i])[1]
           enemy == Opponent(g.shots[i].owner)
           ct == g.grid[c]
       IN CASE ct = CellTypeForBarrel[enemy] -> BarrelHit(g, enemy, c)
            [] ct = "tank1" -> TankHit(g, 1, c)
            [] ct = "tank2" -> TankHit(g, 2, c)
            [] ct = "mine" /\ MinesAt(g, c) # {} -> ExplodeMine(Detonated(g, c), c, 2)
            [] OTHER -> g

(* The shots that have ended go, and the next step of the others starts    *)
(* where they are.                                                         *)
Drop(s, i) == IF i \in DOMAIN s /\ ~s[i].live THEN RemoveAt(s, i) ELSE s
Kept(shots) ==
  LET kept == Drop(Drop(shots, 2), 1)
  IN [i \in DOMAIN kept |-> [kept[i] EXCEPT !.from = kept[i].at]]

(* Hits are resolved shot by shot. *)
HitShots(g) ==
  LET hit == HitBy(HitBy(g, 1), 2)
  IN [hit EXCEPT !.shots = Kept(@)]

(* The player who has fired the last shot is hit when that shot has ended. *)
EmptyGun(g, p) ==
  IF g.emptyGun[p] /\ ShotOf(g, p) = {}
  THEN LET paid == [g EXCEPT !.emptyGun[p] = FALSE]
       IN IF IsAlive(g, p) THEN TankHit(paid, p, g.pos[p]) ELSE paid
  ELSE g

(* EmptyGunPending is a map: its players are visited in either order. *)
UpdateShots(g, firstPlayer) ==
  EmptyGun(EmptyGun(HitShots(MeetShots(MoveShots(g))), firstPlayer),
           Opponent(firstPlayer))

----------------------------------------------------------------------------
(* Mines and clocks *)

\* Mutant: a mine that hides stays on the board.
UpdateMineStays(g, i) ==
  LET m == g.mines[i]
      owned == g.pos[m.owner] = m.at
      seen == [m EXCEPT !.visible = @ \/ owned,
                        !.hideIn = IF owned THEN MineVisibleDuration ELSE @,
                        !.armIn = IF ~owned /\ @ = NotLeft THEN MineArmDelay ELSE @]
  IN [g EXCEPT !.mines[i] =
        [seen EXCEPT !.visible = @ /\ ~IsArmed(seen) /\ seen.hideIn > 0]]

UpdateMine(g, i) ==
  LET m == g.mines[i]
      owned == g.pos[m.owner] = m.at
      seen == [m EXCEPT !.visible = @ \/ owned,
                        !.hideIn = IF owned THEN MineVisibleDuration ELSE @,
                        !.armIn = IF ~owned /\ @ = NotLeft THEN MineArmDelay ELSE @]
      hides == seen.visible /\ (IsArmed(seen) \/ seen.hideIn = 0)
      after == [seen EXCEPT !.visible = @ /\ ~hides]
      shown == IF owned /\ ~m.visible /\ g.grid[m.at] = "empty" THEN "mine" ELSE g.grid[m.at]
  IN [g EXCEPT !.mines[i] = after,
               !.grid[m.at] = IF hides /\ shown = "mine" THEN "empty" ELSE shown]

UpdateMines(g) ==
  LET run[n \in 0 .. Len(g.mines)] == IF n = 0 THEN g ELSE UpdateMine(run[n - 1], n)
  IN run[Len(g.mines)]

Less(n) == IF n > 0 THEN n - 1 ELSE n

(* SimTime += dt: every delay that runs has one update less to go. *)
ShotWaits(s) == [s EXCEPT !.wait = Less(@)]
MineWaits(m) == [m EXCEPT !.armIn = Less(@), !.hideIn = Less(@)]
Elapse(g) ==
  [g EXCEPT !.moveWait = [p \in Players |-> Less(@[p])],
            !.shots = [i \in DOMAIN @ |-> ShotWaits(@[i])],
            !.mines = [i \in DOMAIN @ |-> MineWaits(@[i])]]

Update(g, firstPlayer) == UpdateMines(UpdateShots(Elapse(g), firstPlayer))

----------------------------------------------------------------------------
Init ==
  /\ \E walls \in Terrains : gc = NewRound(walls)
  /\ warmUp = ShotDelay
  /\ keysLeft = MaxKeys

Pressed(key) == IF key = "none" THEN 0 ELSE 1

(* A tick of the match loop: the first action each player's tracker holds, *)
(* then Update.  At a winner the match is over and the loop calls the      *)
(* engine no more; the winner it then clears is kept here.                 *)
Tick(key1, key2, firstPlayer) ==
  LET keys == Pressed(key1) + Pressed(key2)
  IN /\ gc.winner = 0
     /\ keys <= keysLeft
     /\ gc' = Update(ApplyInput(ApplyInput(gc, 1, key1, warmUp), 2, key2, warmUp), firstPlayer)
     /\ warmUp' = Less(warmUp)
     /\ keysLeft' = keysLeft - keys

Next == \E key1 \in Keys, key2 \in Keys, firstPlayer \in Players : Tick(key1, key2, firstPlayer)

Spec == Init /\ [][Next]_vars

----------------------------------------------------------------------------
(* Every part of a game stays in its range: tanks inside the border, shots *)
(* on the board and one per player, mines where a tank can stand, no       *)
(* counter below zero.  Between two ticks every shot is in the air.        *)
OneShotEach(g) == \A i, j \in DOMAIN g.shots : i # j => g.shots[i].owner # g.shots[j].owner
Flying(g) ==
  \A i \in DOMAIN g.shots :
    g.shots[i].live /\ g.shots[i].hit = <<>> /\ g.shots[i].from = g.shots[i].at
TypeOK ==
  /\ gc \in Game /\ OneShotEach(gc) /\ Flying(gc)
  /\ warmUp \in 0 .. ShotDelay /\ keysLeft \in 0 .. MaxKeys

(* No tank or barrel is left behind on the board by a move, a hit or a     *)
(* respawn: a cell that shows one is where that tank, or its barrel, is.   *)
(* The cells decide what shots and explosions hit.                         *)
NoPhantom == Drawn(gc)

(* A cell that shows a mine has a visible one to explode, however mines    *)
(* were covered, hidden or set off; and an armed mine is never visible.    *)
ArmedHidden(g) == \A i \in DOMAIN g.mines : IsArmed(g.mines[i]) => ~g.mines[i].visible
NoPhantomMine == MinesShown(gc) /\ ArmedHidden(gc)

(* The winner is known as soon as a tank has no life left, and is one whose *)
(* opponent has none, also when one update defeats both tanks.              *)
Decided == Settled(gc)

(* A player with no shot left has the last one in the air and pays for it  *)
(* when it ends: nobody goes on without ammunition, and no penalty waits   *)
(* for a shot that is gone.  Of games that stop at a winner, as the served *)
(* ones do.                                                                *)
LastShotFlies ==
  \A p \in Players :
    /\ gc.ammo[p] = 0 => gc.emptyGun[p]
    /\ gc.emptyGun[p] => ShotOf(gc, p) # {}

(* Two tanks come to stand in one cell only where the board did not show   *)
(* the tank that was there: it had laid a mine under itself, or the cell   *)
(* has been cleared by an explosion; or where the start column is taken.   *)
Hidden(g, p) == g.grid[g.pos[p]] # CellTypeForTank[p]
TanksApart ==
  [][gc.pos[1] # gc.pos[2] /\ gc'.pos[1] = gc'.pos[2] =>
       \E p \in Players : \/ Hidden(gc, p) \/ gc'.stock[p] < gc.stock[p]
                          \/ gc'.lives[p] < gc.lives[p] /\ gc'.pos[p] = Start(p)]_vars

(* Two shots that face each other in a row or a column never change sides, *)
(* in whatever phase of their delays they were fired.                      *)
Facing(s, t, axis) ==
  /\ <<s.dir, t.dir>> = IF axis = 1 THEN <<"right", "left">> ELSE <<"down", "up">>
  /\ s.at[3 - axis] = t.at[3 - axis]
NoPassThrough ==
  [][\A i, j \in DOMAIN gc.shots, k, l \in DOMAIN gc'.shots, axis \in {1, 2} :
       /\ gc'.shots[k].owner = gc.shots[i].owner /\ gc'.shots[l].owner = gc.shots[j].owner
       /\ Facing(gc.shots[i], gc.shots[j], axis)
       /\ gc.shots[i].at[axis] < gc.shots[j].at[axis]
       => gc'.shots[k].at[axis] < gc'.shots[l].at[axis]]_vars

(* A tank that lost a life in a tick ends it at its own end of the board,  *)
(* facing its opponent, with all its shots and mines.  Only player 2, when *)
(* it was hit by what the key of player 1 set off, may have used its own   *)
(* key after that, in the same tick.                                       *)
HitBeforeItsKey(g, p) ==
  p = 2 /\ \E key \in Keys : ApplyInput(g, 1, key, warmUp).lives[2] < g.lives[2]
HitRespawns ==
  [][\A p \in Players :
       gc'.lives[p] < gc.lives[p] => Restored(gc', p) \/ HitBeforeItsKey(gc, p)]_vars
============================================================================
