---------------------------- MODULE BoardProofs ----------------------------
(***************************************************************************)
(* What the board's operators keep, on a board of any size with any        *)
(* walls: the game keeps its type, no tank or barrel is left behind in a   *)
(* cell it is not in, and a tank without lives means there is a winner.    *)
(*                                                                         *)
(* The operators are compositions of four that write the grid, and of a    *)
(* change of place.  Clearing leaves the tank in no cell at all (Gone);    *)
(* only then may it change its place; drawing puts it where it is.         *)
(***************************************************************************)
EXTENDS Board, WellFoundedInduction, TLAPS

(* Writing a grid, or one cell of it.                                      *)
Regrid(g, grid) == [g EXCEPT !.grid = grid]
Write(g, c, v) == [g EXCEPT !.grid[c] = v]
(* Nothing but the grid differs.                                           *)
OnlyGrid(g, h) == h = [g EXCEPT !.grid = h.grid]
(* The game's score is the same.                                           *)
SameScore(g, h) == h.lives = g.lives /\ h.winner = g.winner
(* Where the tank is, and what it has left.                                *)
SameTank(g, h, q) ==
  /\ h.pos[q] = g.pos[q] /\ h.dir[q] = g.dir[q]
  /\ h.ammo[q] = g.ammo[q] /\ h.stock[q] = g.stock[q]
(* Shots and mines are the same, and no cell shows a mine that did not.    *)
Undisturbed(g, h) ==
  /\ h.mines = g.mines /\ h.shots = g.shots /\ h.emptyGun = g.emptyGun
  /\ \A c \in Cells : h.grid[c] = "mine" => g.grid[c] = "mine"
(* One tank has moved or turned, and nothing else has happened.            *)
OwnMove(g, h, p) ==
  /\ SameScore(g, h) /\ Undisturbed(g, h) /\ h.ammo = g.ammo
  /\ \A q \in Players : q # p => SameTank(g, h, q)
(* The tank's cell shows it, and goes on showing every tank it showed.     *)
Shows(g, q) == g.grid[g.pos[q]] = CellTypeForTank[q]
StaysShown(g, h) == \A q \in Players : Shows(g, q) => Shows(h, q)
(* A movement key: a column further at most, and over no tank that shows.  *)
Steps(g, h, p) ==
  /\ h.stock = g.stock /\ StaysShown(g, h)
  /\ h.pos[p][1] \in g.pos[p][1] - 1 .. g.pos[p][1] + 1
(* A tank comes back where no tank is, or over one that does not show, or  *)
(* to the start of its column.                                             *)
BackBeside(g, h, p) ==
  \/ h.pos[p] = Start(p)
  \/ \A q \in Players : q # p =>
       h.pos[p] # g.pos[q] \/ (g.pos[q] # g.pos[p] /\ ~Shows(g, q))
(* The tank is in no cell, and neither is its barrel.                      *)
Gone(g, p) == \A c \in Cells : g.grid[c] \notin {CellTypeForTank[p], CellTypeForBarrel[p]}

----------------------------------------------------------------------------
(* Places *)

LEMMA InteriorInCells == Interior \subseteq Cells
<1> SUFFICES ASSUME NEW c \in Interior PROVE c \in Cells
  OBVIOUS
<1>1. c[1] \in 1 .. Width - 2 /\ c[2] \in 1 .. Height - 2 /\ c = <<c[1], c[2]>>
  BY DEF Interior
<1>2. c[1] \in 0 .. Width - 1 /\ c[2] \in 0 .. Height - 1
  BY <1>1, BoardAssumption
<1> QED BY <1>1, <1>2 DEF Cells

LEMMA GameFields ==
  ASSUME NEW g \in Game
  PROVE  /\ g.moveWait \in [Players -> 0 .. MoveDelay]
         /\ g.swing \in [Players -> Direction \cup {NoSwing}]
         /\ g.ammo \in [Players -> 0 .. FullAmmo] /\ g.stock \in [Players -> 0 .. FullMines]
         /\ g.lives \in [Players -> 0 .. FullLives] /\ g.wins \in [Players -> Nat]
         /\ g.battles \in Nat /\ g.winner \in {0} \cup Players
BY DEF Game

LEMMA FullIsInRange ==
  /\ MoveDelay \in 0 .. MoveDelay /\ FullAmmo \in 0 .. FullAmmo
  /\ FullMines \in 0 .. FullMines /\ FullLives \in 0 .. FullLives /\ FullLives > 0
BY BoardAssumption

LEMMA ColumnInside == ASSUME NEW p \in Players PROVE StartColumn[p] \in 1 .. Width - 2
BY BoardAssumption DEF StartColumn, Players

LEMMA StepIsSmall ==
  ASSUME NEW d \in Direction
  PROVE  Vector[d][1] \in -1 .. 1 /\ Vector[d][2] \in -1 .. 1
BY DEF Direction, Vector

LEMMA AheadIsNear ==
  ASSUME NEW c \in Interior, NEW d \in Direction
  PROVE  Ahead(c, d) \in Cells
<1>1. c[1] \in 1 .. Width - 2 /\ c[2] \in 1 .. Height - 2
  BY DEF Interior
<1>2. /\ c[1] + Vector[d][1] \in 0 .. Width - 1
      /\ c[2] + Vector[d][2] \in 0 .. Height - 1
  BY <1>1, StepIsSmall, BoardAssumption
<1> QED BY <1>2 DEF Ahead, Cells

LEMMA BarrelOnBoard ==
  ASSUME NEW g \in Game, NEW p \in Players
  PROVE  BarrelPos(g, p) \in Cells /\ g.pos[p] \in Cells /\ g.pos[p] \in Interior
BY AheadIsNear, InteriorInCells DEF BarrelPos, Game

LEMMA ClampIsInside ==
  ASSUME NEW i \in Int, NEW last \in Int, 1 <= last
  PROVE  Clamp(i, last) \in 1 .. last
BY DEF Clamp

LEMMA StartInside == ASSUME NEW p \in Players PROVE Start(p) \in Interior
<1>1. StartColumn[p] \in 1 .. Width - 2
  BY ColumnInside
<1>2. SpawnRow \in 1 .. Height - 2
  BY BoardAssumption
<1> QED BY <1>1, <1>2 DEF Start, Interior

LEMMA TankCells ==
  ASSUME NEW p \in Players
  PROVE  /\ CellTypeForTank[p] \in CellType /\ CellTypeForBarrel[p] \in CellType
         /\ CellTypeForTank[p] \in {"tank1", "tank2"}
         /\ CellTypeForBarrel[p] \in {"barrel1", "barrel2"}
         /\ Opponent(p) \in Players /\ Opponent(p) # p /\ Opponent(Opponent(p)) = p
         /\ \A q \in Players : q # p => /\ CellTypeForTank[q] # CellTypeForTank[p]
                                        /\ CellTypeForBarrel[q] # CellTypeForBarrel[p]
BY DEF Players, Opponent, CellTypeForTank, CellTypeForBarrel, CellType

----------------------------------------------------------------------------
(* Writing the grid *)

LEMMA WriteGrid ==
  ASSUME NEW g \in Game, NEW h \in [Cells -> CellType]
  PROVE  Regrid(g, h) \in Game /\ Regrid(g, h).grid = h /\ OnlyGrid(g, Regrid(g, h))
BY DEF Game, OnlyGrid, Regrid

LEMMA WriteCell ==
  ASSUME NEW g \in Game, NEW c \in Cells, NEW v \in CellType
  PROVE  /\ Write(g, c, v) \in Game /\ OnlyGrid(g, Write(g, c, v))
         /\ \A x \in Cells : Write(g, c, v).grid[x] = IF x = c THEN v ELSE g.grid[x]
<1> DEFINE h == [g.grid EXCEPT ![c] = v]
<1>1. g.grid \in [Cells -> CellType]
  BY DEF Game
<1>2. /\ h \in [Cells -> CellType]
      /\ \A x \in Cells : h[x] = IF x = c THEN v ELSE g.grid[x]
  BY <1>1
<1>3. Write(g, c, v) = Regrid(g, h)
  BY DEF Write, Regrid
<1> HIDE DEF h
<1>4. Regrid(g, h) \in Game /\ Regrid(g, h).grid = h /\ OnlyGrid(g, Regrid(g, h))
  BY <1>2, WriteGrid
<1> QED BY <1>2, <1>3, <1>4

LEMMA OnlyGridKeeps ==
  ASSUME NEW g \in Game, NEW h \in Game, OnlyGrid(g, h)
  PROVE  /\ h.pos = g.pos /\ h.dir = g.dir /\ h.ammo = g.ammo /\ h.stock = g.stock
         /\ h.mines = g.mines /\ h.shots = g.shots /\ h.emptyGun = g.emptyGun
         /\ SameScore(g, h)
         /\ \A p \in Players : BarrelPos(h, p) = BarrelPos(g, p)
<1>1. /\ h.pos = g.pos /\ h.dir = g.dir /\ h.ammo = g.ammo /\ h.stock = g.stock
      /\ h.mines = g.mines /\ h.shots = g.shots /\ h.emptyGun = g.emptyGun
      /\ h.lives = g.lives /\ h.winner = g.winner
  BY DEF OnlyGrid, Game
<1> QED BY <1>1 DEF SameScore, BarrelPos

LEMMA OnlyGridUndisturbed ==
  ASSUME NEW g \in Game, NEW h \in Game, OnlyGrid(g, h),
         \A c \in Cells : h.grid[c] = g.grid[c] \/ h.grid[c] # "mine"
  PROVE  Undisturbed(g, h)
BY OnlyGridKeeps DEF Undisturbed

LEMMA UndisturbedAgain ==
  ASSUME NEW g, NEW h, NEW k, Undisturbed(g, h), Undisturbed(h, k)
  PROVE  Undisturbed(g, k)
BY DEF Undisturbed

LEMMA OwnMoveAgain ==
  ASSUME NEW p, NEW g, NEW h, NEW k, OwnMove(g, h, p), OwnMove(h, k, p)
  PROVE  OwnMove(g, k, p)
BY UndisturbedAgain DEF OwnMove, SameScore, SameTank

LEMMA OnlyGridMove ==
  ASSUME NEW g \in Game, NEW h \in Game, OnlyGrid(g, h), Undisturbed(g, h), NEW p
  PROVE  OwnMove(g, h, p)
BY OnlyGridKeeps DEF OwnMove, SameTank

LEMMA OnlyGridAgain ==
  ASSUME NEW g \in Game, NEW h \in Game, NEW k \in Game, OnlyGrid(g, h), OnlyGrid(h, k)
  PROVE  OnlyGrid(g, k)
BY DEF OnlyGrid, Game
----------------------------------------------------------------------------
(* Drawing and erasing *)

LEMMA DrawBarrelOK ==
  ASSUME NEW g \in Game, NEW p \in Players, NEW h, h = DrawBarrel(g, p)
  PROVE  /\ h \in Game /\ OnlyGrid(g, h)
         /\ \A x \in Cells : g.grid[x] # "empty" => h.grid[x] = g.grid[x]
         /\ \A x \in Cells : \/ h.grid[x] = g.grid[x]
                             \/ x = BarrelPos(g, p) /\ h.grid[x] = CellTypeForBarrel[p]
<1>1. CASE g.grid[BarrelPos(g, p)] = "empty"
  <2>1. h = Write(g, BarrelPos(g, p), CellTypeForBarrel[p])
    BY <1>1, BarrelOnBoard DEF Write, DrawBarrel, InBounds
  <2>2. CellTypeForBarrel[p] \in CellType /\ BarrelPos(g, p) \in Cells
    BY BarrelOnBoard, TankCells
  <2>3. /\ h \in Game /\ OnlyGrid(g, h)
        /\ \A x \in Cells :
             h.grid[x] = IF x = BarrelPos(g, p) THEN CellTypeForBarrel[p] ELSE g.grid[x]
    BY <2>1, <2>2, WriteCell
  <2> QED BY <1>1, <2>2, <2>3
<1>2. CASE g.grid[BarrelPos(g, p)] # "empty"
  <2>1. h = g
    BY <1>2 DEF DrawBarrel
  <2>2. OnlyGrid(g, g)
    BY DEF OnlyGrid, Game
  <2> QED BY <2>1, <2>2
<1> QED BY <1>1, <1>2

LEMMA EraseBarrelOK ==
  ASSUME NEW g \in Game, NEW p \in Players, NEW h, h = EraseBarrel(g, p)
  PROVE  /\ h \in Game /\ OnlyGrid(g, h)
         /\ \A x \in Cells : g.grid[x] # CellTypeForBarrel[p] => h.grid[x] = g.grid[x]
         /\ \A x \in Cells : h.grid[x] \in {g.grid[x], "empty"}
         /\ h.grid[BarrelPos(g, p)] # CellTypeForBarrel[p]
<1>0. "empty" \in CellType /\ CellTypeForBarrel[p] # "empty"
  BY TankCells DEF CellType
<1>1. CASE g.grid[BarrelPos(g, p)] = CellTypeForBarrel[p]
  <2>1. h = Write(g, BarrelPos(g, p), "empty")
    BY <1>1, BarrelOnBoard DEF Write, EraseBarrel, InBounds
  <2>2. BarrelPos(g, p) \in Cells
    BY BarrelOnBoard
  <2>3. /\ h \in Game /\ OnlyGrid(g, h)
        /\ \A x \in Cells : h.grid[x] = IF x = BarrelPos(g, p) THEN "empty" ELSE g.grid[x]
    BY <1>0, <2>1, <2>2, WriteCell
  <2> QED BY <1>0, <1>1, <2>2, <2>3
<1>2. CASE g.grid[BarrelPos(g, p)] # CellTypeForBarrel[p]
  <2>1. h = g
    BY <1>2 DEF EraseBarrel
  <2>2. OnlyGrid(g, g)
    BY DEF OnlyGrid, Game
  <2> QED BY <2>1, <2>2, <1>2
<1> QED BY <1>1, <1>2

LEMMA OccupyBoardOK ==
  ASSUME NEW g \in Game, NEW p \in Players, NEW h, h = OccupyBoard(g, p)
  PROVE  /\ h \in Game /\ OnlyGrid(g, h)
         /\ h.grid[g.pos[p]] = CellTypeForTank[p]
         /\ \A x \in Cells : x # g.pos[p] /\ g.grid[x] # "empty" => h.grid[x] = g.grid[x]
         /\ \A x \in Cells : \/ h.grid[x] = g.grid[x]
                             \/ x = g.pos[p] /\ h.grid[x] = CellTypeForTank[p]
                             \/ x = BarrelPos(g, p) /\ h.grid[x] = CellTypeForBarrel[p]
<1>0. CellTypeForTank[p] \in CellType /\ g.pos[p] \in Cells
  BY BarrelOnBoard, TankCells
<1>1. PICK k : k = Write(g, g.pos[p], CellTypeForTank[p])
  OBVIOUS
<1>2. /\ k \in Game /\ OnlyGrid(g, k)
      /\ \A x \in Cells :
           k.grid[x] = IF x = g.pos[p] THEN CellTypeForTank[p] ELSE g.grid[x]
  BY <1>0, <1>1, WriteCell
<1>3. BarrelPos(k, p) = BarrelPos(g, p)
  BY <1>2, OnlyGridKeeps
<1>4. h = DrawBarrel(k, p)
  BY <1>1 DEF OccupyBoard, Write
<1>5. /\ h \in Game /\ OnlyGrid(k, h)
      /\ \A x \in Cells : k.grid[x] # "empty" => h.grid[x] = k.grid[x]
      /\ \A x \in Cells : \/ h.grid[x] = k.grid[x]
                          \/ x = BarrelPos(k, p) /\ h.grid[x] = CellTypeForBarrel[p]
  BY <1>2, <1>4, DrawBarrelOK
<1>6. OnlyGrid(g, h)
  BY <1>2, <1>5, OnlyGridAgain
<1>7. h.grid[g.pos[p]] = CellTypeForTank[p]
  <2>1. k.grid[g.pos[p]] = CellTypeForTank[p] /\ CellTypeForTank[p] # "empty"
    BY <1>0, <1>2, TankCells
  <2> QED BY <1>0, <1>5, <2>1
<1> QED BY <1>2, <1>3, <1>5, <1>6, <1>7

LEMMA ClearFromBoardOK ==
  ASSUME NEW g \in Game, NEW p \in Players, NEW h, h = ClearFromBoard(g, p)
  PROVE  /\ h \in Game /\ OnlyGrid(g, h)
         /\ \A x \in Cells : g.grid[x] \notin {CellTypeForTank[p], CellTypeForBarrel[p]}
                             => h.grid[x] = g.grid[x]
         /\ \A x \in Cells : h.grid[x] \in {g.grid[x], "empty"}
         /\ h.grid[BarrelPos(g, p)] # CellTypeForBarrel[p]
         /\ h.grid[g.pos[p]] # CellTypeForTank[p]
<1>0. "empty" \in CellType /\ CellTypeForBarrel[p] # "empty" /\ CellTypeForTank[p] # "empty"
  BY TankCells DEF CellType
<1>1. PICK k : k = EraseBarrel(g, p)
  OBVIOUS
<1>2. /\ k \in Game /\ OnlyGrid(g, k)
      /\ \A x \in Cells : g.grid[x] # CellTypeForBarrel[p] => k.grid[x] = g.grid[x]
      /\ \A x \in Cells : k.grid[x] \in {g.grid[x], "empty"}
      /\ k.grid[BarrelPos(g, p)] # CellTypeForBarrel[p]
  BY <1>1, EraseBarrelOK
<1>3. k.pos = g.pos /\ g.pos[p] \in Cells /\ BarrelPos(g, p) \in Cells
  BY <1>2, OnlyGridKeeps, BarrelOnBoard
<1>4. CASE k.grid[g.pos[p]] = CellTypeForTank[p]
  <2>1. h = Write(k, g.pos[p], "empty")
    BY <1>1, <1>3, <1>4 DEF Write, ClearFromBoard
  <2>2. /\ h \in Game /\ OnlyGrid(k, h)
        /\ \A x \in Cells : h.grid[x] = IF x = g.pos[p] THEN "empty" ELSE k.grid[x]
    BY <2>1, <1>0, <1>2, <1>3, WriteCell
  <2>3. OnlyGrid(g, h)
    BY <1>2, <2>2, OnlyGridAgain
  <2> QED BY <2>2, <2>3, <1>0, <1>2, <1>3, <1>4
<1>5. CASE k.grid[g.pos[p]] # CellTypeForTank[p]
  <2>1. h = k
    BY <1>1, <1>3, <1>5 DEF ClearFromBoard
  <2> QED BY <2>1, <1>2, <1>5
<1> QED BY <1>4, <1>5

----------------------------------------------------------------------------
(* Clearing, changing place, drawing *)

LEMMA DrawnSame ==
  ASSUME NEW g, NEW h, h.grid = g.grid, h.pos = g.pos, h.dir = g.dir, Drawn(g)
  PROVE  Drawn(h)
BY DEF Drawn, BarrelPos

LEMMA ClearGone ==
  ASSUME NEW g \in Game, Drawn(g), NEW p \in Players, NEW h, h = ClearFromBoard(g, p)
  PROVE  /\ h \in Game /\ Drawn(h) /\ Gone(h, p) /\ OnlyGrid(g, h) /\ Undisturbed(g, h)
         /\ \A x \in Cells : g.grid[x] \notin {CellTypeForTank[p], CellTypeForBarrel[p]}
                             => h.grid[x] = g.grid[x]
<1>1. /\ h \in Game /\ OnlyGrid(g, h)
      /\ \A x \in Cells : g.grid[x] \notin {CellTypeForTank[p], CellTypeForBarrel[p]}
                          => h.grid[x] = g.grid[x]
      /\ \A x \in Cells : h.grid[x] \in {g.grid[x], "empty"}
      /\ h.grid[BarrelPos(g, p)] # CellTypeForBarrel[p]
      /\ h.grid[g.pos[p]] # CellTypeForTank[p]
  BY ClearFromBoardOK
<1>2. h.pos = g.pos /\ \A q \in Players : BarrelPos(h, q) = BarrelPos(g, q)
  BY <1>1, OnlyGridKeeps
<1>3. \A q \in Players : CellTypeForTank[q] # "empty" /\ CellTypeForBarrel[q] # "empty"
  BY TankCells
<1>4. Drawn(h)
  BY <1>1, <1>2, <1>3 DEF Drawn
<1>5. Gone(h, p)
  BY <1>1, <1>2, <1>4 DEF Drawn, Gone
<1>6. Undisturbed(g, h)
  BY <1>1, OnlyGridUndisturbed
<1> QED BY <1>1, <1>4, <1>5, <1>6

(* A tank that is in no cell may be anywhere.                              *)
Relocated(g, p, to, d) == [g EXCEPT !.pos[p] = to, !.dir[p] = d]

LEMMA Relocate ==
  ASSUME NEW g \in Game, Drawn(g), NEW p \in Players, Gone(g, p),
         NEW to \in Interior, NEW d \in Direction, NEW h, h = Relocated(g, p, to, d)
  PROVE  /\ h \in Game /\ Drawn(h) /\ SameScore(g, h) /\ Undisturbed(g, h)
         /\ h.pos[p] = to /\ h.dir[p] = d /\ h.ammo = g.ammo /\ h.stock = g.stock
         /\ \A q \in Players : q # p => h.pos[q] = g.pos[q] /\ h.dir[q] = g.dir[q]
<1>1. /\ h \in Game /\ h.grid = g.grid /\ h.lives = g.lives /\ h.winner = g.winner
      /\ h.pos = [g.pos EXCEPT ![p] = to] /\ h.dir = [g.dir EXCEPT ![p] = d]
      /\ h.ammo = g.ammo /\ h.stock = g.stock
      /\ h.mines = g.mines /\ h.shots = g.shots /\ h.emptyGun = g.emptyGun
  BY DEF Relocated, Game
<1>2. g.pos \in [Players -> Interior] /\ g.dir \in [Players -> Direction]
  BY DEF Game
<1>3. /\ h.pos[p] = to /\ h.dir[p] = d
      /\ \A q \in Players : q # p => h.pos[q] = g.pos[q] /\ h.dir[q] = g.dir[q]
  BY <1>1, <1>2
<1>4. Drawn(h)
  BY <1>1, <1>3 DEF Drawn, Gone, BarrelPos
<1> QED BY <1>1, <1>3, <1>4 DEF SameScore, Undisturbed

LEMMA OccupyDrawn ==
  ASSUME NEW g \in Game, Drawn(g), NEW p \in Players, NEW h, h = OccupyBoard(g, p)
  PROVE  h \in Game /\ Drawn(h) /\ OnlyGrid(g, h) /\ Undisturbed(g, h)
<1>1. /\ h \in Game /\ OnlyGrid(g, h)
      /\ \A x \in Cells : \/ h.grid[x] = g.grid[x]
                          \/ x = g.pos[p] /\ h.grid[x] = CellTypeForTank[p]
                          \/ x = BarrelPos(g, p) /\ h.grid[x] = CellTypeForBarrel[p]
  BY OccupyBoardOK
<1>2. h.pos = g.pos /\ \A q \in Players : BarrelPos(h, q) = BarrelPos(g, q)
  BY <1>1, OnlyGridKeeps
<1>3. \A q \in Players : /\ CellTypeForTank[q] # CellTypeForBarrel[p]
                         /\ CellTypeForBarrel[q] # CellTypeForTank[p]
                         /\ CellTypeForTank[q] = CellTypeForTank[p] => q = p
                         /\ CellTypeForBarrel[q] = CellTypeForBarrel[p] => q = p
  BY TankCells
<1>4. Drawn(h)
  <2> SUFFICES ASSUME NEW c \in Cells, NEW q \in Players
               PROVE  /\ h.grid[c] = CellTypeForTank[q] => h.pos[q] = c
                      /\ h.grid[c] = CellTypeForBarrel[q] => BarrelPos(h, q) = c
    BY DEF Drawn
  <2>1. CASE h.grid[c] = g.grid[c]
    BY <1>2, <2>1 DEF Drawn
  <2>2. CASE c = g.pos[p] /\ h.grid[c] = CellTypeForTank[p]
    BY <1>2, <1>3, <2>2
  <2>3. CASE c = BarrelPos(g, p) /\ h.grid[c] = CellTypeForBarrel[p]
    BY <1>2, <1>3, <2>3
  <2> QED BY <1>1, <2>1, <2>2, <2>3
<1>5. CellTypeForTank[p] # "mine" /\ CellTypeForBarrel[p] # "mine"
  BY TankCells
<1>6. Undisturbed(g, h)
  BY <1>1, <1>5, OnlyGridUndisturbed
<1> QED BY <1>1, <1>4, <1>6

LEMMA PutAt ==
  ASSUME NEW g \in Game, Drawn(g), NEW p \in Players, Gone(g, p),
         NEW to \in Interior, NEW d \in Direction, NEW h,
         h = OccupyBoard(Relocated(g, p, to, d), p)
  PROVE  /\ h \in Game /\ Drawn(h) /\ SameScore(g, h) /\ Undisturbed(g, h)
         /\ h.pos[p] = to /\ h.dir[p] = d /\ h.ammo = g.ammo /\ h.stock = g.stock
         /\ \A q \in Players : q # p => h.pos[q] = g.pos[q] /\ h.dir[q] = g.dir[q]
         /\ Shows(h, p)
         /\ \A q \in Players : q # p /\ to # g.pos[q] /\ Shows(g, q) => Shows(h, q)
<1>1. PICK k : k = Relocated(g, p, to, d)
  OBVIOUS
<1>2. /\ k \in Game /\ Drawn(k) /\ SameScore(g, k) /\ Undisturbed(g, k)
      /\ k.pos[p] = to /\ k.dir[p] = d /\ k.ammo = g.ammo /\ k.stock = g.stock
      /\ \A q \in Players : q # p => k.pos[q] = g.pos[q] /\ k.dir[q] = g.dir[q]
  BY <1>1, Relocate
<1>3. h \in Game /\ Drawn(h) /\ OnlyGrid(k, h) /\ Undisturbed(k, h)
  BY <1>1, <1>2, OccupyDrawn
<1>4. /\ h.pos = k.pos /\ h.dir = k.dir /\ h.ammo = k.ammo /\ h.stock = k.stock
      /\ SameScore(k, h)
  BY <1>2, <1>3, OnlyGridKeeps
<1>5. Undisturbed(g, h)
  BY <1>2, <1>3, UndisturbedAgain
<1>6. /\ h.grid[to] = CellTypeForTank[p]
      /\ \A x \in Cells : x # to /\ g.grid[x] # "empty" => h.grid[x] = g.grid[x]
  <2>1. k.grid = g.grid
    BY <1>1 DEF Relocated, Game
  <2> QED BY <1>1, <1>2, <2>1, OccupyBoardOK
<1>7. \A q \in Players : q # p /\ to # g.pos[q] /\ Shows(g, q) => Shows(h, q)
  <2>1. \A q \in Players : g.pos[q] \in Cells /\ CellTypeForTank[q] # "empty"
    BY BarrelOnBoard, TankCells
  <2> QED BY <1>2, <1>4, <1>6, <2>1 DEF Shows
<1> QED BY <1>2, <1>3, <1>4, <1>5, <1>6, <1>7 DEF SameScore, Shows

----------------------------------------------------------------------------
(* Keys *)

LEMMA AttemptMoveOK ==
  ASSUME NEW g \in Game, Drawn(g), NEW p \in Players, NEW d \in Direction,
         NEW h, h = AttemptMove(g, p, d)
  PROVE  h \in Game /\ Drawn(h) /\ OwnMove(g, h, p) /\ Steps(g, h, p)
<1> DEFINE ahead == Ahead(g.pos[p], d)
           to == <<Clamp(ahead[1], Width - 2), Clamp(ahead[2], Height - 2)>>
<1>1. ahead[1] \in Int /\ ahead[2] \in Int
  <2>1. ahead \in Cells
    BY AheadIsNear, BarrelOnBoard
  <2> QED BY <2>1, BoardAssumption DEF Cells
<1>2. to \in Interior
  <2>1. Width - 2 \in Int /\ Height - 2 \in Int /\ 1 <= Width - 2 /\ 1 <= Height - 2
    BY BoardAssumption
  <2> HIDE DEF ahead
  <2>2. /\ Clamp(ahead[1], Width - 2) \in 1 .. Width - 2
        /\ Clamp(ahead[2], Height - 2) \in 1 .. Height - 2
    BY <1>1, <2>1, ClampIsInside
  <2> QED BY <2>2 DEF Interior
<1>3. PICK k : k = ClearFromBoard(g, p)
  OBVIOUS
<1>4. k \in Game /\ Drawn(k) /\ Gone(k, p) /\ OnlyGrid(g, k) /\ Undisturbed(g, k)
  BY <1>3, ClearGone
<1>4a. \A q \in Players : q # p => k.pos[q] = g.pos[q] /\ (Shows(g, q) => Shows(k, q))
  <2>1. k.pos = g.pos /\ \A q \in Players : g.pos[q] \in Cells
    BY <1>4, OnlyGridKeeps, BarrelOnBoard
  <2>2. \A q \in Players : q # p => CellTypeForTank[q]
      \notin {CellTypeForTank[p], CellTypeForBarrel[p]}
    BY TankCells
  <2>3. \A x \in Cells : g.grid[x] \notin {CellTypeForTank[p], CellTypeForBarrel[p]}
      => k.grid[x] = g.grid[x]
    BY <1>3, ClearGone
  <2> QED BY <2>1, <2>2, <2>3 DEF Shows
<1>5. \/ h = g
      \/ /\ h = OccupyBoard(Relocated(k, p, to, d), p)
         /\ g.grid[to] \in {"empty", "shot", "mine", CellTypeForBarrel[p]}
  BY <1>3 DEF AttemptMove, Relocated
<1>5a. /\ g.pos[p][1] \in Int /\ to[1] \in g.pos[p][1] - 1 .. g.pos[p][1] + 1
  <2>1. g.pos[p][1] \in 1 .. Width - 2 /\ Width \in Nat
    BY BarrelOnBoard, BoardAssumption DEF Game, Interior
  <2>2. Vector[d][1] \in -1 .. 1
    BY DEF Direction, Vector
  <2>3. ahead[1] = g.pos[p][1] + Vector[d][1]
    BY DEF Ahead
  <2>4. to[1] = Clamp(ahead[1], Width - 2)
    OBVIOUS
  <2> HIDE DEF ahead, to
  <2> QED BY <2>1, <2>2, <2>3, <2>4 DEF Clamp
<1>6. OwnMove(g, k, p)
  BY <1>4, OnlyGridMove
<1> HIDE DEF to
<1>7. CASE h = g
  <2>1. g.pos[p][1] \in g.pos[p][1] - 1 .. g.pos[p][1] + 1
    BY <1>5a
  <2> QED BY <1>7, <2>1 DEF OwnMove, SameScore, Undisturbed, SameTank, Steps, StaysShown
<1>8. CASE /\ h = OccupyBoard(Relocated(k, p, to, d), p)
           /\ g.grid[to] \in {"empty", "shot", "mine", CellTypeForBarrel[p]}
  <2>1. /\ h \in Game /\ Drawn(h) /\ SameScore(k, h) /\ Undisturbed(k, h)
        /\ h.pos[p] = to /\ h.dir[p] = d /\ h.ammo = k.ammo /\ h.stock = k.stock
        /\ \A q \in Players : q # p => h.pos[q] = k.pos[q] /\ h.dir[q] = k.dir[q]
        /\ Shows(h, p)
        /\ \A q \in Players : q # p /\ to # k.pos[q] /\ Shows(k, q) => Shows(h, q)
    BY <1>2, <1>4, <1>8, PutAt
  <2>2. OwnMove(k, h, p)
    BY <2>1 DEF OwnMove, SameTank
  <2>3. \A q \in Players : to = g.pos[q] => ~Shows(g, q)
    <3>1. \A q \in Players : CellTypeForTank[q]
        \notin {"empty", "shot", "mine", CellTypeForBarrel[p]}
      BY TankCells
    <3> QED BY <1>8, <3>1 DEF Shows
  <2>4. StaysShown(g, h)
    BY <1>4a, <2>1, <2>3 DEF StaysShown
  <2>5. h.stock = g.stock
    BY <1>4, <2>1, OnlyGridKeeps
  <2> QED BY <1>5a, <1>6, <2>1, <2>2, <2>4, <2>5, OwnMoveAgain DEF Steps
<1> QED BY <1>5, <1>7, <1>8

LEMMA WaitOK ==
  ASSUME NEW g \in Game, Drawn(g), NEW p \in Players, NEW s \in Direction \cup {NoSwing},
         NEW h, h = [g EXCEPT !.moveWait[p] = MoveDelay, !.swing[p] = s]
  PROVE  /\ h \in Game /\ Drawn(h) /\ OwnMove(g, h, p)
         /\ \A f \in Game : Steps(f, g, p) => Steps(f, h, p)
<1> DEFINE w == [g.moveWait EXCEPT ![p] = MoveDelay]
           z == [g.swing EXCEPT ![p] = s]
<1>1. w \in [Players -> 0 .. MoveDelay] /\ z \in [Players -> Direction \cup {NoSwing}]
  <2>1. /\ g.moveWait \in [Players -> 0 .. MoveDelay] /\ MoveDelay \in 0 .. MoveDelay
        /\ g.swing \in [Players -> Direction \cup {NoSwing}]
    BY GameFields, FullIsInRange
  <2> QED BY <2>1
<1>2. h = [g EXCEPT !.moveWait = w, !.swing = z]
  OBVIOUS
<1> HIDE DEF w, z
<1>3. /\ h \in Game /\ h.grid = g.grid /\ h.pos = g.pos /\ h.dir = g.dir
      /\ h.lives = g.lives /\ h.winner = g.winner /\ h.ammo = g.ammo /\ h.stock = g.stock
      /\ h.mines = g.mines /\ h.shots = g.shots /\ h.emptyGun = g.emptyGun
  BY <1>1, <1>2 DEF Game
<1>4. OwnMove(g, h, p)
  BY <1>3 DEF OwnMove, SameScore, Undisturbed, SameTank
<1>5. \A f \in Game : Steps(f, g, p) => Steps(f, h, p)
  BY <1>3 DEF Steps, StaysShown, Shows
<1> QED BY <1>3, <1>4, <1>5, DrawnSame

(* The barrel is erased before the tank turns.                             *)
Turned(g, p, d) == [g EXCEPT !.dir[p] = d]

LEMMA TurnOK ==
  ASSUME NEW g \in Game, Drawn(g), NEW p \in Players, NEW d \in Direction,
         NEW h, h = DrawBarrel(Turned(EraseBarrel(g, p), p, d), p)
  PROVE  h \in Game /\ Drawn(h) /\ OwnMove(g, h, p) /\ Steps(g, h, p)
<1>1. PICK k : k = EraseBarrel(g, p)
  OBVIOUS
<1>2. /\ k \in Game /\ OnlyGrid(g, k)
      /\ \A x \in Cells : k.grid[x] \in {g.grid[x], "empty"}
      /\ k.grid[BarrelPos(g, p)] # CellTypeForBarrel[p]
  BY <1>1, EraseBarrelOK
<1>3. /\ k.pos = g.pos /\ k.dir = g.dir /\ OwnMove(g, k, p)
      /\ \A q \in Players : BarrelPos(k, q) = BarrelPos(g, q)
  <2>1. Undisturbed(g, k)
    BY <1>2, OnlyGridUndisturbed
  <2> QED BY <1>2, <2>1, OnlyGridKeeps, OnlyGridMove
<1>4. \A q \in Players : CellTypeForTank[q] # "empty" /\ CellTypeForBarrel[q] # "empty"
  BY TankCells
<1>5. Drawn(k) /\ \A c \in Cells : k.grid[c] # CellTypeForBarrel[p]
  BY <1>2, <1>3, <1>4 DEF Drawn
<1>6. PICK l : l = Turned(k, p, d)
  OBVIOUS
<1>7. /\ l \in Game /\ l.grid = k.grid /\ l.pos = k.pos /\ OwnMove(k, l, p)
      /\ l.dir = [k.dir EXCEPT ![p] = d] /\ k.dir \in [Players -> Direction]
  <2>1. /\ l \in Game /\ l.grid = k.grid /\ l.pos = k.pos
        /\ l.lives = k.lives /\ l.winner = k.winner /\ l.ammo = k.ammo /\ l.stock = k.stock
        /\ l.mines = k.mines /\ l.shots = k.shots /\ l.emptyGun = k.emptyGun
        /\ l.dir = [k.dir EXCEPT ![p] = d] /\ k.dir \in [Players -> Direction]
    BY <1>2, <1>6 DEF Turned, Game
  <2>2. \A q \in Players : q # p => SameTank(k, l, q)
    BY <2>1 DEF SameTank
  <2> QED BY <2>1, <2>2 DEF OwnMove, SameScore, Undisturbed
<1>8. \A q \in Players : q # p => BarrelPos(l, q) = BarrelPos(k, q)
  BY <1>7 DEF BarrelPos
<1>9. Drawn(l)
  BY <1>5, <1>7, <1>8 DEF Drawn
<1>10. /\ h \in Game /\ OnlyGrid(l, h)
       /\ \A x \in Cells : \/ h.grid[x] = l.grid[x]
                           \/ x = BarrelPos(l, p) /\ h.grid[x] = CellTypeForBarrel[p]
  BY <1>1, <1>6, <1>7, DrawBarrelOK
<1>11. /\ h.pos = l.pos /\ OwnMove(l, h, p)
       /\ \A q \in Players : BarrelPos(h, q) = BarrelPos(l, q)
  <2>1. CellTypeForBarrel[p] # "mine"
    BY TankCells
  <2>2. Undisturbed(l, h)
    BY <1>7, <1>10, <2>1, OnlyGridUndisturbed
  <2> QED BY <1>7, <1>10, <2>2, OnlyGridKeeps, OnlyGridMove
<1>12. \A q \in Players : /\ CellTypeForTank[q] # CellTypeForBarrel[p]
                          /\ CellTypeForBarrel[q] = CellTypeForBarrel[p] => q = p
  BY TankCells
<1>13. Drawn(h)
  BY <1>9, <1>10, <1>11, <1>12 DEF Drawn
<1>14. Steps(g, h, p)
  <2>1. \A q \in Players : /\ g.pos[q] \in Cells /\ CellTypeForTank[q] # CellTypeForBarrel[p]
                           /\ CellTypeForTank[q] # "empty"
    BY BarrelOnBoard, TankCells
  <2>2. \A x \in Cells : /\ g.grid[x] # CellTypeForBarrel[p] => k.grid[x] = g.grid[x]
                         /\ l.grid[x] # "empty" => h.grid[x] = l.grid[x]
    BY <1>1, <1>6, <1>7, EraseBarrelOK, DrawBarrelOK
  <2>3. StaysShown(g, h)
    <3>1. h.pos = g.pos /\ l.grid = k.grid
      BY <1>3, <1>7, <1>11
    <3> QED BY <2>1, <2>2, <3>1 DEF StaysShown, Shows
  <2>4. h.stock = g.stock /\ h.pos = g.pos
    <3>1. k.stock = g.stock /\ h.stock = l.stock
      BY <1>2, <1>7, <1>10, OnlyGridKeeps
    <3>2. l.stock = k.stock
      BY <1>2, <1>6 DEF Turned, Game
    <3> QED BY <1>3, <1>7, <1>11, <3>1, <3>2
  <2>5. g.pos[p][1] \in Int
    BY BarrelOnBoard, BoardAssumption DEF Game, Interior
  <2> QED BY <2>3, <2>4, <2>5 DEF Steps
<1> QED BY <1>3, <1>7, <1>10, <1>11, <1>13, <1>14, OwnMoveAgain

\* A movement key, whatever it meets, leaves neither the tank nor its barrel
\* behind on the board (Tank.AttemptMove, GameController.ProcessMovement).
THEOREM MoveKeepsBoard ==
  ASSUME NEW g \in Game, Drawn(g), Settled(g), NEW p \in Players, NEW d \in Direction,
         NEW h, h = ProcessMovement(g, p, d)
  PROVE  h \in Game /\ Drawn(h) /\ Settled(h) /\ OwnMove(g, h, p) /\ Steps(g, h, p)
<1>0. OwnMove(g, h, p) => Settled(h)
  BY DEF OwnMove, SameScore, Settled
<1>1. CASE g.moveWait[p] > 0
  <2>1. h = g
    BY <1>1 DEF ProcessMovement
  <2>2. g.pos[p][1] \in g.pos[p][1] - 1 .. g.pos[p][1] + 1
    BY BarrelOnBoard, BoardAssumption DEF Game, Interior
  <2> QED BY <2>1, <2>2 DEF OwnMove, SameScore, Undisturbed, SameTank, Steps, StaysShown
<1>2. CASE ~(g.moveWait[p] > 0)
  <2>1. g.moveWait[p] = 0
    BY <1>2, BoardAssumption DEF Game
  <2>2. CASE d \in {g.dir[p], g.swing[p]}
    <3>1. PICK k : k = AttemptMove(g, p, d)
      OBVIOUS
    <3>2. k \in Game /\ Drawn(k) /\ OwnMove(g, k, p) /\ Steps(g, k, p)
      BY <3>1, AttemptMoveOK
    <3>3. h = [k EXCEPT !.moveWait[p] = MoveDelay, !.swing[p] = NoSwing]
      BY <2>1, <2>2, <3>1 DEF ProcessMovement
    <3>4. h \in Game /\ Drawn(h) /\ OwnMove(k, h, p) /\ Steps(g, h, p)
      BY <3>2, <3>3, WaitOK
    <3> QED BY <3>2, <3>4, <1>0, OwnMoveAgain
  <2>3. CASE d \notin {g.dir[p], g.swing[p]}
    <3>1. PICK k : k = DrawBarrel(Turned(EraseBarrel(g, p), p, d), p)
      OBVIOUS
    <3>2. k \in Game /\ Drawn(k) /\ OwnMove(g, k, p) /\ Steps(g, k, p)
      BY <3>1, TurnOK
    <3>3. h = [k EXCEPT !.moveWait[p] = MoveDelay, !.swing[p] = d]
      BY <2>1, <2>3, <3>1 DEF ProcessMovement, Turned
    <3>4. h \in Game /\ Drawn(h) /\ OwnMove(k, h, p) /\ Steps(g, h, p)
      BY <3>2, <3>3, WaitOK
    <3> QED BY <3>2, <3>4, <1>0, OwnMoveAgain
  <2> QED BY <2>2, <2>3
<1> QED BY <1>1, <1>2

\* Laying a mine hides the tank and shows nothing that is not there, and the cell
\* that shows the mine has it (GameController.PlaceMine).
THEOREM MineKeepsBoard ==
  ASSUME NEW g \in Game, Drawn(g), Settled(g), MinesShown(g), NEW p \in Players,
         NEW h, h = PlaceMine(g, p)
  PROVE  /\ h \in Game /\ Drawn(h) /\ Settled(h) /\ MinesShown(h) /\ SameScore(g, h)
         /\ h.shots = g.shots /\ h.emptyGun = g.emptyGun /\ h.ammo = g.ammo
         /\ \A q \in Players : q # p => SameTank(g, h, q)
         /\ h = g \/ /\ h.pos = g.pos /\ h.stock[p] < g.stock[p]
                     /\ \A x \in Cells : x # g.pos[p] => h.grid[x] = g.grid[x]
<1>1. CASE g.stock[p] > 0
  <2>1. "mine" \in CellType /\ g.pos[p] \in Cells /\ g.pos[p] \in Interior
    BY BarrelOnBoard DEF CellType
  <2>2. PICK k : k = Write(g, g.pos[p], "mine")
    OBVIOUS
  <2>3. /\ k \in Game /\ OnlyGrid(g, k)
        /\ \A x \in Cells : k.grid[x] = IF x = g.pos[p] THEN "mine" ELSE g.grid[x]
    BY <2>1, <2>2, WriteCell
  <2>4. /\ k.pos = g.pos /\ k.stock = g.stock /\ SameScore(g, k)
        /\ \A q \in Players : BarrelPos(k, q) = BarrelPos(g, q)
    BY <2>3, OnlyGridKeeps
  <2>5. \A q \in Players : CellTypeForTank[q] # "mine" /\ CellTypeForBarrel[q] # "mine"
    BY TankCells
  <2>6. Drawn(k)
    BY <2>3, <2>4, <2>5 DEF Drawn
  <2>7. PICK m : m = NewMine(k, p)
    OBVIOUS
  <2>8. m \in Mine
    BY <2>1, <2>4, <2>7, BoardAssumption DEF Mine, NewMine, NotLeft
  <2> DEFINE z == [k.stock EXCEPT ![p] = @ - 1]
             ms == Append(k.mines, m)
  <2>9. z \in [Players -> 0 .. FullMines]
    BY <1>1, <2>4, BoardAssumption DEF Game
  <2>10. ms \in Seq(Mine)
    BY <2>3, <2>8 DEF Game
  <2>11. h = [k EXCEPT !.stock = z, !.mines = ms]
    <3>1. h = [g EXCEPT !.grid[g.pos[p]] = "mine", !.stock[p] = @ - 1,
                        !.mines = Append(@, NewMine(g, p))]
      BY <1>1 DEF PlaceMine
    <3>2. NewMine(g, p) = m
      BY <2>4, <2>7 DEF NewMine
    <3>3. h = [k EXCEPT !.stock[p] = @ - 1, !.mines = Append(@, m)]
      BY <2>2, <3>1, <3>2 DEF Write
    <3> QED BY <3>3
  <2> HIDE DEF z, ms
  <2>12. /\ h \in Game /\ h.grid = k.grid /\ h.pos = k.pos /\ h.dir = k.dir
         /\ SameScore(k, h) /\ h.shots = k.shots /\ h.emptyGun = k.emptyGun
         /\ h.ammo = k.ammo /\ h.stock = z /\ h.mines = ms
    <3>1. k \in Game
      BY <2>3
    <3>2. h \in Game
      BY <2>9, <2>10, <2>11, <3>1 DEF Game
    <3>3. /\ h.grid = k.grid /\ h.pos = k.pos /\ h.dir = k.dir /\ h.lives = k.lives
          /\ h.winner = k.winner /\ h.shots = k.shots /\ h.emptyGun = k.emptyGun
          /\ h.ammo = k.ammo /\ h.stock = z /\ h.mines = ms
      BY <2>11, <3>1 DEF Game
    <3> QED BY <3>2, <3>3 DEF SameScore
  <2>13. Drawn(h)
    BY <2>6, <2>12, DrawnSame
  <2>14. /\ k.mines = g.mines /\ k.shots = g.shots /\ k.emptyGun = g.emptyGun
         /\ k.ammo = g.ammo /\ k.dir = g.dir
    BY <2>3, OnlyGridKeeps
  <2>15. MinesShown(h)
    <3> SUFFICES ASSUME NEW x \in Cells, h.grid[x] = "mine"
                 PROVE  \E i \in DOMAIN h.mines : h.mines[i].at = x /\ h.mines[i].visible
      BY DEF MinesShown
    <3>1. /\ g.mines \in Seq(Mine) /\ DOMAIN g.mines = 1 .. Len(g.mines)
          /\ Len(g.mines) \in Nat
      BY DEF Game
    <3>2. /\ DOMAIN h.mines = 1 .. Len(g.mines) + 1 /\ h.mines[Len(g.mines) + 1] = m
          /\ \A i \in DOMAIN g.mines : h.mines[i] = g.mines[i]
      BY <2>8, <2>12, <2>14, <3>1 DEF ms
    <3>3. CASE x = g.pos[p]
      <4>1. m.at = x /\ m.visible /\ Len(g.mines) + 1 \in DOMAIN h.mines
        BY <2>4, <2>7, <3>1, <3>2, <3>3 DEF NewMine
      <4> QED BY <3>2, <4>1
    <3>4. CASE x # g.pos[p]
      <4>1. g.grid[x] = "mine"
        BY <2>3, <2>12, <3>4
      <4>2. PICK i \in DOMAIN g.mines : g.mines[i].at = x /\ g.mines[i].visible
        BY <4>1 DEF MinesShown
      <4>3. i \in DOMAIN h.mines
        BY <3>1, <3>2
      <4> QED BY <3>2, <4>2, <4>3
    <3> QED BY <3>3, <3>4
  <2>16. \A q \in Players : q # p => SameTank(g, h, q)
    BY <2>4, <2>9, <2>12, <2>14 DEF SameTank, z, Game
  <2>17. h.pos = g.pos /\ h.stock[p] < g.stock[p] /\ \A x \in Cells : x # g.pos[p]
      => h.grid[x] = g.grid[x]
    <3>1. h.stock[p] = g.stock[p] - 1 /\ g.stock[p] \in Nat
      BY <2>4, <2>12, BoardAssumption DEF z, Game
    <3> QED BY <2>3, <2>4, <2>12, <3>1
  <2> QED BY <2>4, <2>12, <2>13, <2>14, <2>15, <2>16, <2>17 DEF SameScore, Settled
<1>2. CASE ~(g.stock[p] > 0)
  <2>1. h = g
    BY <1>2 DEF PlaceMine
  <2> QED BY <2>1 DEF SameScore, SameTank
<1> QED BY <1>1, <1>2

----------------------------------------------------------------------------
(* Hits and respawns *)

LEMMA LeastNat ==
  ASSUME NEW T, T \subseteq Nat, T # {}
  PROVE  \E x \in T : \A y \in T : x <= y
<1>1. PICK x \in T : \A y \in T : ~ (<<y, x>> \in OpToRel(<, Nat))
  BY WFMin, NatLessThanWellFounded
<1>2. \A y \in T : ~ (y < x)
  BY <1>1 DEF OpToRel
<1>3. \A y \in T : x <= y
  <2> TAKE y \in T
  <2>1. x \in Nat /\ y \in Nat
    OBVIOUS
  <2> QED BY <1>2, <2>1
<1> QED BY <1>3

\* The row that is chosen is free, or the start row.
LEMMA FindSpawnPosOK ==
  ASSUME NEW g \in Game, NEW p \in Players
  PROVE  /\ FindSpawnPos(g, p) \in Interior
         /\ FindSpawnPos(g, p)[1] = StartColumn[p]
         /\ FindSpawnPos(g, p) = Start(p) \/ g.grid[FindSpawnPos(g, p)] = "empty"
<1> DEFINE free == {y \in 1 .. Height - 2 : g.grid[<<StartColumn[p], y>>] = "empty"}
           turn(y) == IF y <= SpawnRow THEN 2 * (SpawnRow - y) ELSE 2 * (y - SpawnRow) + 1
<1>1. CASE free = {}
  <2>1. FindSpawnPos(g, p) = Start(p)
    BY <1>1 DEF FindSpawnPos
  <2> QED BY <2>1, StartInside DEF Start
<1>2. CASE free # {}
  <2>1. \A y \in free : y \in 1 .. Height - 2 /\ turn(y) \in Nat
    BY BoardAssumption
  <2> DEFINE turns == {turn(y) : y \in free}
  <2>1a. turns \subseteq Nat /\ turns # {}
    BY <1>2, <2>1
  <2> HIDE DEF turns
  <2>1b. \E t \in turns : \A u \in turns : t <= u
    BY <2>1a, LeastNat
  <2> USE DEF turns
  <2>2. PICK t \in turns : \A u \in turns : t <= u
    BY <2>1b
  <2>3. \E y \in free : \A z \in free : turn(y) <= turn(z)
    BY <2>2
  <2> DEFINE row == CHOOSE y \in free : \A z \in free : turn(y) <= turn(z)
  <2>4. row \in free
    BY <2>3
  <2>5. FindSpawnPos(g, p) = <<StartColumn[p], row>>
    BY <1>2 DEF FindSpawnPos
  <2> HIDE DEF row
  <2>6. row \in 1 .. Height - 2 /\ g.grid[<<StartColumn[p], row>>] = "empty"
    BY <2>1, <2>4
  <2>7. StartColumn[p] \in 1 .. Width - 2
    BY ColumnInside
  <2> QED BY <2>5, <2>6, <2>7 DEF Interior
<1> QED BY <1>1, <1>2

Restocked(g, a, s, w) == [g EXCEPT !.ammo = a, !.stock = s, !.swing = w]

LEMMA RestockOK ==
  ASSUME NEW g \in Game, NEW a \in [Players -> 0 .. FullAmmo],
         NEW s \in [Players -> 0 .. FullMines],
         NEW w \in [Players -> Direction \cup {NoSwing}],
         NEW h, h = Restocked(g, a, s, w)
  PROVE  /\ h \in Game /\ h.grid = g.grid /\ h.pos = g.pos /\ h.dir = g.dir
         /\ h.lives = g.lives /\ h.winner = g.winner /\ h.ammo = a /\ h.stock = s
         /\ Undisturbed(g, h)
BY DEF Game, Restocked, Undisturbed

LEMMA RespawnSingleTankOK ==
  ASSUME NEW g \in Game, Drawn(g), NEW p \in Players, NEW h, h = RespawnSingleTank(g, p)
  PROVE  /\ h \in Game /\ Drawn(h) /\ SameScore(g, h) /\ Undisturbed(g, h) /\ Restored(h, p)
         /\ \A q \in Players : q # p => SameTank(g, h, q)
         /\ \/ h.pos[p] = Start(p)
            \/ g.grid[h.pos[p]] \in {"empty", CellTypeForTank[p], CellTypeForBarrel[p]}
<1>1. PICK k : k = ClearFromBoard(g, p)
  OBVIOUS
<1>2. k \in Game /\ Drawn(k) /\ Gone(k, p) /\ OnlyGrid(g, k) /\ Undisturbed(g, k)
  BY <1>1, ClearGone
<1>3. /\ k.pos = g.pos /\ k.dir = g.dir /\ k.ammo = g.ammo /\ k.stock = g.stock
      /\ SameScore(g, k)
  BY <1>2, OnlyGridKeeps
<1>4. PICK to \in Interior : /\ to = FindSpawnPos(k, p) /\ to[1] = StartColumn[p]
                             /\ to = Start(p) \/ k.grid[to] = "empty"
  BY <1>2, FindSpawnPosOK
<1>4a. to = Start(p) \/ g.grid[to] \in {"empty", CellTypeForTank[p], CellTypeForBarrel[p]}
  <2>1. to \in Cells
    BY InteriorInCells
  <2> QED BY <1>1, <1>4, <2>1, ClearGone
<1>5. StartDir[p] \in Direction
  BY DEF StartDir, Players, Direction, Vector
<1>6. PICK l : l = OccupyBoard(Relocated(k, p, to, StartDir[p]), p)
  OBVIOUS
<1>7. /\ l \in Game /\ Drawn(l) /\ SameScore(k, l) /\ Undisturbed(k, l)
      /\ l.pos[p] = to /\ l.dir[p] = StartDir[p] /\ l.ammo = k.ammo /\ l.stock = k.stock
      /\ \A q \in Players : q # p => l.pos[q] = k.pos[q] /\ l.dir[q] = k.dir[q]
  BY <1>2, <1>5, <1>6, PutAt
<1>8. h = [l EXCEPT !.ammo[p] = FullAmmo, !.stock[p] = FullMines, !.swing[p] = NoSwing]
  BY <1>1, <1>4, <1>6 DEF RespawnSingleTank, Relocated
<1> DEFINE a == [l.ammo EXCEPT ![p] = FullAmmo]
           s == [l.stock EXCEPT ![p] = FullMines]
           w == [l.swing EXCEPT ![p] = NoSwing]
<1>9. /\ a \in [Players -> 0 .. FullAmmo] /\ s \in [Players -> 0 .. FullMines]
      /\ w \in [Players -> Direction \cup {NoSwing}]
      /\ a[p] = FullAmmo /\ s[p] = FullMines
      /\ \A q \in Players : q # p => a[q] = l.ammo[q] /\ s[q] = l.stock[q]
  <2>1. /\ l.ammo \in [Players -> 0 .. FullAmmo] /\ l.stock \in [Players -> 0 .. FullMines]
        /\ l.swing \in [Players -> Direction \cup {NoSwing}]
    BY <1>7, GameFields
  <2>2. FullAmmo \in 0 .. FullAmmo /\ FullMines \in 0 .. FullMines
    BY FullIsInRange
  <2> QED BY <2>1, <2>2
<1>10. h = Restocked(l, a, s, w)
  BY <1>8 DEF Restocked
<1> HIDE DEF a, s, w
<1>11. /\ h \in Game /\ h.grid = l.grid /\ h.pos = l.pos /\ h.dir = l.dir
       /\ h.lives = l.lives /\ h.winner = l.winner /\ h.ammo = a /\ h.stock = s
       /\ Undisturbed(l, h)
  BY <1>7, <1>9, <1>10, RestockOK
<1>12. Drawn(h)
  BY <1>7, <1>11, DrawnSame
<1>13. SameScore(g, h)
  BY <1>3, <1>7, <1>11 DEF SameScore
<1>14. Restored(h, p)
  BY <1>4, <1>7, <1>9, <1>11 DEF Restored
<1>15. \A q \in Players : q # p => SameTank(g, h, q)
  BY <1>3, <1>7, <1>9, <1>11 DEF SameTank
<1>16. Undisturbed(g, h)
  BY <1>2, <1>7, <1>11, UndisturbedAgain
<1>17. h.pos[p] = to
  BY <1>7, <1>11
<1> QED BY <1>4a, <1>11, <1>12, <1>13, <1>14, <1>15, <1>16, <1>17

LEMMA RespawnBothTanksOK ==
  ASSUME NEW g \in Game, Drawn(g), NEW h, h = RespawnBothTanks(g)
  PROVE  /\ h \in Game /\ Drawn(h) /\ SameScore(g, h) /\ Undisturbed(g, h)
         /\ \A p \in Players : Restored(h, p)
<1>1. PICK k : k = RespawnSingleTank(g, 1)
  OBVIOUS
<1>2. 1 \in Players /\ 2 \in Players /\ 1 # 2 /\ \A p \in Players : p = 1 \/ p = 2
  BY DEF Players
<1>3. k \in Game /\ Drawn(k) /\ SameScore(g, k) /\ Undisturbed(g, k) /\ Restored(k, 1)
  BY <1>1, <1>2, RespawnSingleTankOK
<1>4. h = RespawnSingleTank(k, 2)
  BY <1>1 DEF RespawnBothTanks
<1>5. /\ h \in Game /\ Drawn(h) /\ SameScore(k, h) /\ Undisturbed(k, h) /\ Restored(h, 2)
      /\ \A q \in Players : q # 2 => SameTank(k, h, q)
  BY <1>2, <1>3, <1>4, RespawnSingleTankOK
<1>6. Restored(h, 1)
  BY <1>2, <1>3, <1>5 DEF Restored, SameTank
<1>7. SameScore(g, h)
  BY <1>3, <1>5 DEF SameScore
<1>8. Undisturbed(g, h)
  BY <1>3, <1>5, UndisturbedAgain
<1> QED BY <1>2, <1>5, <1>6, <1>7, <1>8

LEMMA WreckageOK ==
  ASSUME NEW g \in Game, Drawn(g), NEW c \in Cells, NEW h, h = PlaceDiceWreckage(g, c)
  PROVE  h \in Game /\ Drawn(h) /\ OnlyGrid(g, h) /\ Undisturbed(g, h)
<1> DEFINE corners == {<<c[1] + i, c[2] + j>> : i \in {-1, 1}, j \in {-1, 1}}
           grid == [x \in Cells |-> IF x \in corners /\ g.grid[x] \in Covered
                                    THEN "wreckage" ELSE g.grid[x]]
<1>1. h = Regrid(g, grid)
  BY DEF PlaceDiceWreckage, Regrid
<1>2. grid \in [Cells -> CellType] /\ \A x \in Cells : grid[x] \in {"wreckage", g.grid[x]}
  <2>1. g.grid \in [Cells -> CellType]
    BY DEF Game
  <2>2. "wreckage" \in CellType
    BY DEF CellType
  <2> HIDE DEF corners
  <2> QED BY <2>1, <2>2
<1> HIDE DEF grid
<1>3. h \in Game /\ h.grid = grid /\ OnlyGrid(g, h)
  BY <1>1, <1>2, WriteGrid
<1>4. h.pos = g.pos /\ \A q \in Players : BarrelPos(h, q) = BarrelPos(g, q)
  BY <1>3, OnlyGridKeeps
<1>5. \A q \in Players : CellTypeForTank[q] # "wreckage" /\ CellTypeForBarrel[q] # "wreckage"
  BY TankCells
<1>6. Drawn(h)
  BY <1>2, <1>3, <1>4, <1>5 DEF Drawn
<1>7. Undisturbed(g, h)
  BY <1>2, <1>3, OnlyGridUndisturbed
<1> QED BY <1>3, <1>6, <1>7

LEMMA TakeDamageOK ==
  ASSUME NEW g \in Game, Drawn(g), NEW p \in Players, NEW h, h = TakeDamage(g, p)
  PROVE  /\ h \in Game /\ Drawn(h) /\ h.winner = g.winner /\ Undisturbed(g, h)
         /\ h.grid = g.grid
         /\ h.lives[p] = IF g.lives[p] > 0 THEN g.lives[p] - 1 ELSE g.lives[p]
         /\ \A q \in Players : SameTank(g, h, q) /\ (q # p => h.lives[q] = g.lives[q])
<1> DEFINE left == IF g.lives[p] > 0 THEN g.lives[p] - 1 ELSE g.lives[p]
           lives == [g.lives EXCEPT ![p] = left]
<1>1. h = [g EXCEPT !.lives = lives]
  BY DEF TakeDamage
<1>2. /\ lives \in [Players -> 0 .. FullLives] /\ lives[p] = left
      /\ \A q \in Players : q # p => lives[q] = g.lives[q]
  <2>1. g.lives \in [Players -> 0 .. FullLives]
    BY GameFields
  <2>2. left \in 0 .. FullLives
    BY <2>1, BoardAssumption
  <2> QED BY <2>1, <2>2
<1> HIDE DEF lives
<1>3. /\ h \in Game /\ h.grid = g.grid /\ h.pos = g.pos /\ h.dir = g.dir
      /\ h.ammo = g.ammo /\ h.stock = g.stock /\ h.winner = g.winner /\ h.lives = lives
      /\ h.mines = g.mines /\ h.shots = g.shots /\ h.emptyGun = g.emptyGun
  BY <1>1, <1>2 DEF Game
<1>4. Drawn(h)
  BY <1>3, DrawnSame
<1> QED BY <1>2, <1>3, <1>4 DEF SameTank, Undisturbed

(* A battle is counted for the opponent of a tank without lives.           *)
Scored(g, p) ==
  [g EXCEPT !.winner = Opponent(p), !.wins[Opponent(p)] = @ + 1, !.battles = @ + 1]

LEMMA DefeatedOK ==
  ASSUME NEW g \in Game, Drawn(g), NEW p \in Players, g.lives[p] = 0,
         NEW h, h = OnPlayerDefeated(g, p)
  PROVE  /\ h \in Game /\ Drawn(h) /\ Settled(h) /\ h.lives = g.lives /\ Undisturbed(g, h)
         /\ \A q \in Players : Restored(h, q)
<1>1. PICK k : k = Scored(g, p)
  OBVIOUS
<1> DEFINE wins == [g.wins EXCEPT ![Opponent(p)] = @ + 1]
<1>2. wins \in [Players -> Nat] /\ g.battles + 1 \in Nat /\ Opponent(p) \in {0} \cup Players
  <2>1. g.wins \in [Players -> Nat] /\ g.battles \in Nat
    BY GameFields
  <2>2. Opponent(p) \in Players
    BY TankCells
  <2> QED BY <2>1, <2>2
<1>3. k = [g EXCEPT !.winner = Opponent(p), !.wins = wins, !.battles = g.battles + 1]
  BY <1>1 DEF Scored
<1> HIDE DEF wins
<1>4. /\ k \in Game /\ k.grid = g.grid /\ k.pos = g.pos /\ k.dir = g.dir
      /\ k.lives = g.lives /\ k.winner = Opponent(p) /\ Undisturbed(g, k)
  <2>1. /\ k.grid = g.grid /\ k.pos = g.pos /\ k.dir = g.dir
        /\ k.lives = g.lives /\ k.winner = Opponent(p)
    BY <1>3 DEF Game
  <2>1a. k \in Game
    BY <1>2, <1>3 DEF Game
  <2>2. k.mines = g.mines /\ k.shots = g.shots /\ k.emptyGun = g.emptyGun
    BY <1>3 DEF Game
  <2> QED BY <2>1, <2>1a, <2>2 DEF Undisturbed
<1>5. Drawn(k)
  BY <1>4, DrawnSame
<1>6. h = RespawnBothTanks(k)
  BY <1>1 DEF OnPlayerDefeated, Scored
<1>7. /\ h \in Game /\ Drawn(h) /\ SameScore(k, h) /\ Undisturbed(k, h)
      /\ \A q \in Players : Restored(h, q)
  BY <1>4, <1>5, <1>6, RespawnBothTanksOK
<1>8. h.winner = Opponent(p) /\ h.winner # 0 /\ h.lives[Opponent(h.winner)] = 0
  <2>1. Opponent(p) # 0 /\ Opponent(Opponent(p)) = p
    BY DEF Players, Opponent
  <2> QED BY <1>4, <1>7, <2>1 DEF SameScore
<1>9. Undisturbed(g, h)
  BY <1>4, <1>7, UndisturbedAgain
<1> QED BY <1>4, <1>7, <1>8, <1>9 DEF SameScore, Settled

(* A tank that survives its hit leaves the score settled as it was.        *)
LEMMA SurvivorSettled ==
  ASSUME NEW g \in Game, Settled(g), NEW p \in Players, NEW h \in Game,
         h.winner = g.winner, h.lives[p] > 0,
         h.lives[p] = IF g.lives[p] > 0 THEN g.lives[p] - 1 ELSE g.lives[p],
         \A q \in Players : q # p => h.lives[q] = g.lives[q]
  PROVE  Settled(h)
<1>1. /\ \A q \in Players : g.lives[q] \in Nat /\ h.lives[q] \in Nat
      /\ g.winner \in {0} \cup Players
  BY GameFields, BoardAssumption
<1>2. g.lives[p] > 0
  BY <1>1
<1>3. CASE g.winner = 0
  BY <1>1, <1>3 DEF Settled
<1>4. CASE g.winner \in Players
  <2>1. Opponent(g.winner) \in Players /\ g.winner # 0
    BY <1>4 DEF Players, Opponent
  <2>2. g.lives[Opponent(g.winner)] = 0
    BY <2>1 DEF Settled
  <2>3. Opponent(g.winner) # p
    BY <1>1, <1>2, <2>2
  <2> QED BY <2>1, <2>2, <2>3 DEF Settled
<1> QED BY <1>1, <1>3, <1>4

\* A tank that is hit leaves nothing behind, also when the hit defeats it or it
\* had been defeated before; the score stays settled; and both tanks are back at
\* their ends of the board, facing each other, with all their shots and mines
\* (GameController.TankHit with all it calls).
THEOREM TankHitKeepsBoard ==
  ASSUME NEW g \in Game, Drawn(g), Settled(g), NEW p \in Players, NEW c \in Cells,
         NEW h, h = TankHit(g, p, c)
  PROVE  /\ h \in Game /\ Drawn(h) /\ Settled(h) /\ Undisturbed(g, h)
         /\ \A q \in Players : Restored(h, q)
<1>1. PICK k : k = ClearFromBoard(g, p)
  OBVIOUS
<1>2. k \in Game /\ Drawn(k) /\ OnlyGrid(g, k) /\ Undisturbed(g, k)
  BY <1>1, ClearGone
<1>3. PICK l : l = PlaceDiceWreckage(k, c)
  OBVIOUS
<1>4. l \in Game /\ Drawn(l) /\ OnlyGrid(k, l) /\ Undisturbed(k, l)
  BY <1>2, <1>3, WreckageOK
<1>5. l.lives = g.lives /\ l.winner = g.winner
  BY <1>2, <1>4, OnlyGridKeeps DEF SameScore
<1>6. PICK m : m = TakeDamage(l, p)
  OBVIOUS
<1>7. /\ m \in Game /\ Drawn(m) /\ m.winner = g.winner /\ Undisturbed(l, m)
      /\ m.lives[p] = IF g.lives[p] > 0 THEN g.lives[p] - 1 ELSE g.lives[p]
      /\ \A q \in Players : q # p => m.lives[q] = g.lives[q]
  BY <1>4, <1>5, <1>6, TakeDamageOK
<1>7a. Undisturbed(g, m)
  BY <1>2, <1>4, <1>7, UndisturbedAgain
<1>8. CASE m.lives[p] > 0
  <2>1. h = RespawnBothTanks(m)
    BY <1>1, <1>3, <1>6, <1>8 DEF TankHit, IsAlive
  <2>2. /\ h \in Game /\ Drawn(h) /\ SameScore(m, h) /\ Undisturbed(m, h)
        /\ \A q \in Players : Restored(h, q)
    BY <1>7, <2>1, RespawnBothTanksOK
  <2>3. Settled(m)
    BY <1>7, <1>8, SurvivorSettled
  <2> QED BY <1>7a, <2>2, <2>3, UndisturbedAgain DEF SameScore, Settled
<1>9. CASE ~(m.lives[p] > 0)
  <2>1. m.lives[p] = 0
    BY <1>7, <1>9, GameFields, BoardAssumption
  <2>2. h = OnPlayerDefeated(m, p)
    BY <1>1, <1>3, <1>6, <1>9 DEF TankHit, IsAlive
  <2> QED BY <1>7, <1>7a, <2>1, <2>2, DefeatedOK, UndisturbedAgain
<1> QED BY <1>8, <1>9

\* The same for a hit on the barrel; its tank is restored, and the other one is
\* left where it is unless the hit decides the battle
\* (GameController.BarrelHit with all it calls).
THEOREM BarrelHitKeepsBoard ==
  ASSUME NEW g \in Game, Drawn(g), Settled(g), NEW p \in Players, NEW c \in Cells,
         NEW h, h = BarrelHit(g, p, c)
  PROVE  /\ h \in Game /\ Drawn(h) /\ Settled(h) /\ Undisturbed(g, h)
         /\ Restored(h, p)
         /\ \/ \A q \in Players : Restored(h, q)
            \/ /\ h.lives[p] < g.lives[p] /\ BackBeside(g, h, p)
               /\ \A q \in Players : q # p => SameTank(g, h, q) /\ h.lives[q] = g.lives[q]
<1>1. PICK k : k = ClearFromBoard(g, p)
  OBVIOUS
<1>2. k \in Game /\ Drawn(k) /\ OnlyGrid(g, k) /\ Undisturbed(g, k)
  BY <1>1, ClearGone
<1>3. PICK l : l = Write(k, g.pos[p], "wreckage")
  OBVIOUS
<1>4. "wreckage" \in CellType /\ g.pos[p] \in Cells
  BY BarrelOnBoard DEF CellType
<1>5. /\ l \in Game /\ OnlyGrid(k, l)
      /\ \A x \in Cells : l.grid[x] \in {"wreckage", k.grid[x]}
      /\ l.grid[g.pos[p]] = "wreckage"
  BY <1>2, <1>3, <1>4, WriteCell
<1>6. PICK m : m = Write(l, c, "wreckage")
  OBVIOUS
<1>7. /\ m \in Game /\ OnlyGrid(l, m)
      /\ \A x \in Cells : m.grid[x] \in {"wreckage", l.grid[x]}
  BY <1>4, <1>5, <1>6, WriteCell
<1>8. OnlyGrid(k, m) /\ OnlyGrid(g, m)
  BY <1>2, <1>5, <1>7, OnlyGridAgain
<1>9. /\ m.pos = k.pos /\ \A q \in Players : BarrelPos(m, q) = BarrelPos(k, q)
      /\ m.lives = g.lives /\ m.winner = g.winner
      /\ \A q \in Players : SameTank(g, m, q)
  BY <1>2, <1>7, <1>8, OnlyGridKeeps DEF SameScore, SameTank
<1>10. \A q \in Players : CellTypeForTank[q] # "wreckage" /\ CellTypeForBarrel[q] # "wreckage"
  BY TankCells
<1>11. Drawn(m)
  BY <1>2, <1>5, <1>7, <1>9, <1>10 DEF Drawn
<1>11a. Undisturbed(g, m)
  <2>1. \A x \in Cells : m.grid[x] = k.grid[x] \/ m.grid[x] # "mine"
    BY <1>5, <1>7
  <2>2. Undisturbed(k, m)
    BY <1>2, <1>7, <1>8, <2>1, OnlyGridUndisturbed
  <2> QED BY <1>2, <2>2, UndisturbedAgain
(* A cell of the other tank, if it is not free, is not made free.          *)
<1>11b. ASSUME NEW q \in Players, q # p, g.pos[q] = g.pos[p] \/ Shows(g, q)
        PROVE  m.grid[g.pos[q]] \notin {"empty", CellTypeForTank[p], CellTypeForBarrel[p]}
  <2>1. /\ g.pos[q] \in Cells
        /\ CellTypeForTank[q] \notin {"empty", CellTypeForTank[p], CellTypeForBarrel[p]}
        /\ "wreckage" \notin {"empty", CellTypeForTank[p], CellTypeForBarrel[p]}
    BY <1>10, <1>11b, BarrelOnBoard, TankCells
  <2>2. CASE g.pos[q] = g.pos[p]
    BY <1>4, <1>5, <1>7, <2>1, <2>2
  <2>3. CASE Shows(g, q)
    <3>1. k.grid[g.pos[q]] = CellTypeForTank[q]
      BY <1>1, <2>1, <2>3, ClearGone DEF Shows
    <3> QED BY <1>5, <1>7, <2>1, <3>1
  <2> QED BY <1>11b, <2>2, <2>3
<1>12. PICK n : n = TakeDamage(m, p)
  OBVIOUS
<1>13. /\ n \in Game /\ Drawn(n) /\ n.winner = g.winner
       /\ n.lives[p] = IF g.lives[p] > 0 THEN g.lives[p] - 1 ELSE g.lives[p]
       /\ \A q \in Players : q # p => n.lives[q] = g.lives[q]
       /\ \A q \in Players : SameTank(g, n, q)
       /\ Undisturbed(g, n) /\ n.grid = m.grid
  <2>1. /\ n \in Game /\ Drawn(n) /\ n.winner = m.winner /\ Undisturbed(m, n)
        /\ n.grid = m.grid
        /\ n.lives[p] = IF m.lives[p] > 0 THEN m.lives[p] - 1 ELSE m.lives[p]
        /\ \A q \in Players : SameTank(m, n, q) /\ (q # p => n.lives[q] = m.lives[q])
    BY <1>7, <1>11, <1>12, TakeDamageOK
  <2>2. \A q \in Players : SameTank(g, n, q)
    BY <1>9, <2>1 DEF SameTank
  <2> QED BY <1>9, <1>11a, <2>1, <2>2, UndisturbedAgain
<1>14. n = TakeDamage([ClearFromBoard(g, p) EXCEPT !.grid[g.pos[p]] = "wreckage",
                                                    !.grid[c] = "wreckage"], p)
  <2>1. m = [ClearFromBoard(g, p) EXCEPT !.grid[g.pos[p]] = "wreckage", !.grid[c] = "wreckage"]
    BY <1>1, <1>3, <1>6 DEF Write
  <2> QED BY <2>1, <1>12
<1>15. CASE n.lives[p] > 0
  <2>1. h = RespawnSingleTank(n, p)
    BY <1>14, <1>15 DEF BarrelHit, IsAlive
  <2>2. /\ h \in Game /\ Drawn(h) /\ SameScore(n, h) /\ Undisturbed(n, h) /\ Restored(h, p)
        /\ \A q \in Players : q # p => SameTank(n, h, q)
        /\ \/ h.pos[p] = Start(p)
           \/ n.grid[h.pos[p]] \in {"empty", CellTypeForTank[p], CellTypeForBarrel[p]}
    BY <1>13, <2>1, RespawnSingleTankOK
  <2>2a. BackBeside(g, h, p)
    BY <1>11b, <1>13, <2>2 DEF BackBeside
  <2>2b. h.lives[p] < g.lives[p]
    <3>1. g.lives[p] \in Nat /\ h.lives[p] = n.lives[p]
      BY <2>2, BoardAssumption DEF Game, SameScore
    <3> QED BY <1>13, <1>15, <3>1
  <2>3. Settled(n)
    BY <1>13, <1>15, SurvivorSettled
  <2>4. ASSUME NEW q \in Players, q # p
        PROVE  SameTank(g, h, q) /\ h.lives[q] = g.lives[q]
    BY <1>13, <2>2, <2>4 DEF SameScore, SameTank
  <2>5. Undisturbed(g, h)
    BY <1>13, <2>2, UndisturbedAgain
  <2> QED BY <1>13, <2>2, <2>2a, <2>2b, <2>3, <2>4, <2>5 DEF SameScore, Settled
<1>16. CASE ~(n.lives[p] > 0)
  <2>1. n.lives[p] = 0
    BY <1>13, <1>16, GameFields, BoardAssumption
  <2>2. h = OnPlayerDefeated(n, p)
    BY <1>14, <1>16 DEF BarrelHit, IsAlive
  <2>3. /\ h \in Game /\ Drawn(h) /\ Settled(h) /\ h.lives = n.lives /\ Undisturbed(n, h)
        /\ \A q \in Players : Restored(h, q)
    BY <1>13, <2>1, <2>2, DefeatedOK
  <2>4. Undisturbed(g, h)
    BY <1>13, <2>3, UndisturbedAgain
  <2> QED BY <2>1, <2>3, <2>4
<1> QED BY <1>15, <1>16

----------------------------------------------------------------------------
\* A new game, on a board with any walls, is of its type, shows both tanks where
\* they are, has no winner, no shots and no mines, and its tanks have all of theirs
\* (NewGameController, InitRound, DrawTanks).
THEOREM NewRoundIsGame ==
  ASSUME NEW walls, NEW h, h = NewRound(walls)
  PROVE  /\ h \in Game /\ Drawn(h) /\ Settled(h) /\ MinesShown(h)
         /\ h.shots = <<>> /\ h.mines = <<>>
         /\ \A p \in Players : h.ammo[p] = FullAmmo /\ ~h.emptyGun[p]
<1> DEFINE grid == [c \in Cells |-> IF c \notin Interior \/ c \in walls THEN "wall" ELSE "empty"]
           pos == <<Start(1), Start(2)>>
           full(n) == [p \in Players |-> n]
           bare == [grid |-> grid, pos |-> pos, dir |-> StartDir,
                    lives |-> full(FullLives), ammo |-> full(FullAmmo),
                    stock |-> full(FullMines), swing |-> full(NoSwing),
                    moveWait |-> full(0), shots |-> <<>>, mines |-> <<>>,
                    emptyGun |-> full(FALSE),
                    winner |-> 0, wins |-> full(0), battles |-> 0]
<1>1. grid \in [Cells -> CellType] /\ \A c \in Cells : grid[c] \in {"wall", "empty"}
  <2>1. "wall" \in CellType /\ "empty" \in CellType
    BY DEF CellType
  <2> QED BY <2>1
<1>2. pos \in [Players -> Interior]
  <2>1. Start(1) \in Interior /\ Start(2) \in Interior
    BY StartInside DEF Players
  <2> HIDE DEF Start
  <2> QED BY <2>1 DEF Players
<1>3. StartDir \in [Players -> Direction]
  BY DEF StartDir, Players, Direction, Vector
<1>4. /\ full(FullLives) \in [Players -> 0 .. FullLives]
      /\ full(FullAmmo) \in [Players -> 0 .. FullAmmo]
      /\ full(FullMines) \in [Players -> 0 .. FullMines]
      /\ full(NoSwing) \in [Players -> Direction \cup {NoSwing}]
      /\ full(0) \in [Players -> 0 .. MoveDelay]
      /\ full(0) \in [Players -> Nat]
      /\ full(FALSE) \in [Players -> BOOLEAN]
  BY FullIsInRange, BoardAssumption
<1>5. <<>> \in Seq(Shot) /\ <<>> \in Seq(Mine)
  OBVIOUS
<1>6. PICK b : b = bare
  OBVIOUS
<1>7. h = OccupyBoard(OccupyBoard(b, 1), 2)
  BY <1>6 DEF NewRound
<1> HIDE DEF grid, pos, full
<1>8. /\ b \in Game /\ b.grid = grid /\ b.lives = full(FullLives) /\ b.winner = 0
      /\ b.shots = <<>> /\ b.mines = <<>> /\ b.ammo = full(FullAmmo)
      /\ b.emptyGun = full(FALSE)
  BY <1>1, <1>2, <1>3, <1>4, <1>5, <1>6 DEF Game
<1>9. Drawn(b)
  <2>1. \A q \in Players : /\ CellTypeForTank[q] \notin {"wall", "empty"}
                           /\ CellTypeForBarrel[q] \notin {"wall", "empty"}
    BY TankCells
  <2> QED BY <1>1, <1>8, <2>1 DEF Drawn
<1>10. 1 \in Players /\ 2 \in Players
  BY DEF Players
<1>11. PICK k : k = OccupyBoard(b, 1)
  OBVIOUS
<1>12. /\ k \in Game /\ Drawn(k) /\ SameScore(b, k)
       /\ k.ammo = b.ammo /\ Undisturbed(b, k)
  BY <1>8, <1>9, <1>10, <1>11, OccupyDrawn, OnlyGridKeeps
<1>13. /\ h \in Game /\ Drawn(h) /\ SameScore(k, h)
       /\ h.ammo = k.ammo /\ Undisturbed(k, h)
  BY <1>7, <1>10, <1>11, <1>12, OccupyDrawn, OnlyGridKeeps
<1>14. h.winner = 0 /\ \A p \in Players : h.lives[p] > 0
  <2>1. h.winner = 0 /\ h.lives = full(FullLives)
    BY <1>8, <1>12, <1>13 DEF SameScore
  <2> QED BY <2>1, FullIsInRange DEF full
<1>15. /\ h.shots = <<>> /\ h.mines = <<>> /\ h.ammo = full(FullAmmo)
       /\ h.emptyGun = full(FALSE) /\ \A c \in Cells : h.grid[c] = "mine" => grid[c] = "mine"
  BY <1>8, <1>12, <1>13 DEF Undisturbed
<1>16. MinesShown(h)
  BY <1>1, <1>15 DEF MinesShown
<1>17. \A p \in Players : h.ammo[p] = FullAmmo /\ ~h.emptyGun[p]
  BY <1>15 DEF full
<1> QED BY <1>13, <1>14, <1>15, <1>16, <1>17 DEF Settled
=============================================================================
