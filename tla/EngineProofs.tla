---------------------------- MODULE EngineProofs ----------------------------
(***************************************************************************)
(* What a tick keeps, on a board of any size, with any walls, delays, keys *)
(* and number of lives: the proofs follow the calls of a tick in order.    *)
(*                                                                         *)
(* Sound is what every call keeps, in the middle of an update too.  Spared *)
(* is what a call may do to the tanks: each is as it was or restored by a  *)
(* hit.  Ready adds what holds of shots and ammunition between the parts   *)
(* of a tick; Aloft is what is left of that while shots end.               *)
(***************************************************************************)
EXTENDS Engine, BoardProofs, SequenceTheorems

----------------------------------------------------------------------------
(* Repetition.  The scan of an explosion and the round of the mines repeat *)
(* a step; a set that the step does not leave holds every state of them.   *)

LEMMA CountUp ==
  ASSUME NEW P \in SUBSET Nat, 0 \in P, \A n \in P : n + 1 \in P
  PROVE  \A n \in Nat : n \in P
<1> DEFINE T == {n \in Nat : n \notin P}
<1> SUFFICES ASSUME T # {} PROVE FALSE
  OBVIOUS
<1>1. T \subseteq Nat
  OBVIOUS
<1> HIDE DEF T
<1>2. PICK x \in T : \A y \in T : x <= y
  BY <1>1, LeastNat
<1> USE DEF T
<1>3. x \in Nat /\ x # 0
  OBVIOUS
<1>4. x - 1 \in Nat /\ ~(x <= x - 1) /\ (x - 1) + 1 = x
  BY <1>3
<1>5. x - 1 \in P
  BY <1>2, <1>4
<1> QED BY <1>2, <1>4, <1>5

Repeats(r, S, first, f) ==
  r \in [Nat -> S] /\ r[0] = first /\ \A n \in Nat : r[n + 1] = f[n][r[n]]

LEMMA Repeated ==
  ASSUME NEW S, NEW first \in S, NEW f \in [Nat -> [S -> S]]
  PROVE  \E r : Repeats(r, S, first, f)
<1> DEFINE Upto(n, r) == /\ r \in [0 .. n -> S] /\ r[0] = first
                         /\ \A i \in 0 .. n : i < n => r[i + 1] = f[i][r[i]]
<1>1. \A n \in Nat : \E r : Upto(n, r)
  <2> DEFINE P == {n \in Nat : \E r : Upto(n, r)}
  <2>1. 0 \in P
    <3>1. Upto(0, [i \in 0 .. 0 |-> first])
      OBVIOUS
    <3> QED BY <3>1
  <2>2. ASSUME NEW n \in P PROVE n + 1 \in P
    <3>1. PICK r : Upto(n, r)
      OBVIOUS
    <3> DEFINE q == [i \in 0 .. (n + 1) |-> IF i <= n THEN r[i] ELSE f[n][r[n]]]
    <3>2. n \in Nat /\ n \in 0 .. n /\ r[n] \in S /\ f[n][r[n]] \in S
      BY <3>1
    <3>3. \A i \in 0 .. (n + 1) : i <= n => i \in 0 .. n
      BY <3>2
    <3>4. \A i \in 0 .. (n + 1) : q[i] = IF i <= n THEN r[i] ELSE f[n][r[n]]
      OBVIOUS
    <3>5. q \in [0 .. (n + 1) -> S]
      BY <3>1, <3>2, <3>3
    <3> HIDE DEF q
    <3>6. q[0] = first
      BY <3>1, <3>2, <3>4
    <3>7. ASSUME NEW i \in 0 .. (n + 1), i < n + 1
          PROVE  q[i + 1] = f[i][q[i]]
      <4>1. i \in 0 .. n /\ i <= n /\ i + 1 \in 0 .. (n + 1) /\ q[i] = r[i]
        BY <3>2, <3>4, <3>7
      <4>2. CASE i < n
        <5>1. i + 1 <= n
          BY <3>2, <4>1, <4>2
        <5> QED BY <3>1, <3>4, <4>1, <4>2, <5>1
      <4>3. CASE ~(i < n)
        <5>1. i = n /\ ~(i + 1 <= n)
          BY <3>2, <4>1, <4>3
        <5> QED BY <3>4, <4>1, <5>1
      <4> QED BY <4>2, <4>3
    <3>8. Upto(n + 1, q)
      BY <3>5, <3>6, <3>7
    <3> QED BY <3>2, <3>8
  <2> HIDE DEF P
  <2>3. P \in SUBSET Nat
    BY DEF P
  <2>4. \A n \in Nat : n \in P
    BY <2>1, <2>2, <2>3, CountUp
  <2> QED BY <2>4 DEF P
<1>2. \A n \in Nat : \A r : Upto(n, r) =>
        /\ r[0] = first /\ r[n] \in S
        /\ \A i \in Nat : i < n => r[i + 1] = f[i][r[i]]
  <2> TAKE n \in Nat
  <2>1. n \in 0 .. n /\ \A i \in Nat : i < n => i \in 0 .. n
    OBVIOUS
  <2> QED BY <2>1
<1> HIDE DEF Upto
<1>3. \A i \in Nat : \A n, m \in Nat : \A r, q :
        Upto(n, r) /\ Upto(m, q) /\ i <= n /\ i <= m => r[i] = q[i]
  <2> DEFINE Agree(i) == \A n, m \in Nat : \A r, q :
               Upto(n, r) /\ Upto(m, q) /\ i <= n /\ i <= m => r[i] = q[i]
             P == {i \in Nat : Agree(i)}
  <2>1. Agree(0)
    BY <1>2
  <2>2. ASSUME NEW i \in Nat, Agree(i) PROVE Agree(i + 1)
    <3> SUFFICES ASSUME NEW n \in Nat, NEW m \in Nat, NEW r, NEW q,
                        Upto(n, r), Upto(m, q), i + 1 <= n, i + 1 <= m
                 PROVE  r[i + 1] = q[i + 1]
      OBVIOUS
    <3>1. i <= n /\ i <= m /\ i < n /\ i < m
      OBVIOUS
    <3>2. r[i] = q[i]
      BY <2>2, <3>1
    <3> HIDE DEF Agree
    <3>3. r[i + 1] = f[i][r[i]]
      BY <1>2, <3>1
    <3>4. q[i + 1] = f[i][q[i]]
      BY <1>2, <3>1
    <3> QED BY <3>2, <3>3, <3>4
  <2> HIDE DEF Agree
  <2>3. P \in SUBSET Nat /\ 0 \in P /\ \A i \in P : i + 1 \in P
    BY <2>1, <2>2
  <2> HIDE DEF P
  <2>4. \A i \in Nat : i \in P
    BY <2>3, CountUp
  <2> QED BY <2>4 DEF P, Agree
<1> DEFINE pick(n) == CHOOSE r : Upto(n, r)
           run == [n \in Nat |-> pick(n)[n]]
<1>4. \A n \in Nat : Upto(n, pick(n))
  BY <1>1
<1> HIDE DEF pick
<1>5. run \in [Nat -> S]
  <2>1. ASSUME NEW n \in Nat PROVE pick(n)[n] \in S
    BY <1>2, <1>4
  <2> QED BY <2>1
<1>6. run[0] = first
  BY <1>2, <1>4
<1>7. ASSUME NEW n \in Nat PROVE run[n + 1] = f[n][run[n]]
  <2>1. n + 1 \in Nat /\ n < n + 1 /\ n <= n /\ n <= n + 1
    OBVIOUS
  <2>2. pick(n + 1)[n] = pick(n)[n]
    BY <1>3, <1>4, <2>1
  <2>3. pick(n + 1)[n + 1] = f[n][pick(n + 1)[n]]
    BY <1>2, <1>4, <2>1
  <2> QED BY <2>1, <2>2, <2>3
<1> QED BY <1>5, <1>6, <1>7 DEF Repeats

(* The scan of an explosion is a repetition, and ends where its set says.  *)
ScanRuns(r, S, g, todo) ==
  /\ r \in [Nat -> S] /\ r[0] = <<g, todo>> /\ \A n \in Nat : r[n + 1] = ScanCell(r[n])
  /\ Scan(g, todo) = r[ScanSteps(g, todo)][1]

LEMMA ScanRepeats ==
  ASSUME NEW S, NEW g, NEW todo, <<g, todo>> \in S, \A s \in S : ScanCell(s) \in S
  PROVE  \E r : ScanRuns(r, S, g, todo)
<1> DEFINE Def(r) == [n \in Nat |-> IF n = 0 THEN <<g, todo>> ELSE ScanCell(r[n - 1])]
           run == CHOOSE r : r = Def(r)
           f == [n \in Nat |-> [s \in S |-> ScanCell(s)]]
<1>1. \E r : r = Def(r)
  <2>1. \A n \in Nat, s \in S : f[n][s] = ScanCell(s)
    OBVIOUS
  <2>2. f \in [Nat -> [S -> S]]
    BY <2>1
  <2> HIDE DEF f
  <2>3. PICK r : Repeats(r, S, <<g, todo>>, f)
    BY <2>2, Repeated
  <2>4. ASSUME NEW n \in Nat PROVE r[n] = Def(r)[n]
    <3>1. CASE n = 0
      BY <2>3, <3>1 DEF Repeats
    <3>2. CASE n # 0
      <4>1. n - 1 \in Nat /\ (n - 1) + 1 = n
        BY <3>2
      <4>2. r[n] = ScanCell(r[n - 1])
        BY <2>1, <2>3, <4>1 DEF Repeats
      <4> QED BY <3>2, <4>2
    <3> QED BY <3>1, <3>2
  <2>5. r = [n \in Nat |-> r[n]]
    BY <2>3 DEF Repeats
  <2> QED BY <2>4, <2>5
<1>2. run = Def(run)
  BY <1>1
<1> HIDE DEF run
<1>3. run[0] = <<g, todo>> /\ \A n \in Nat : run[n + 1] = ScanCell(run[n])
  <2>1. ASSUME NEW n \in Nat PROVE run[n + 1] = ScanCell(run[n])
    <3>1. n + 1 \in Nat /\ n + 1 # 0 /\ (n + 1) - 1 = n
      OBVIOUS
    <3>2. run[n + 1] = Def(run)[n + 1]
      BY <1>2
    <3> QED BY <3>1, <3>2
  <2>2. run[0] = Def(run)[0]
    BY <1>2
  <2> QED BY <2>1, <2>2
<1>4. run \in [Nat -> S]
  <2> DEFINE P == {n \in Nat : run[n] \in S}
  <2>1. P \in SUBSET Nat /\ 0 \in P /\ \A n \in P : n + 1 \in P
    BY <1>3
  <2> HIDE DEF P
  <2>2. \A n \in Nat : n \in P
    BY <2>1, CountUp
  <2>3. \A n \in Nat : run[n] \in S
    BY <2>2 DEF P
  <2>4. run = [n \in Nat |-> run[n]]
    BY <1>2
  <2> QED BY <2>3, <2>4
<1>5. Scan(g, todo) = run[ScanSteps(g, todo)][1]
  BY DEF Scan, run
<1> QED BY <1>3, <1>4, <1>5 DEF ScanRuns

----------------------------------------------------------------------------
(* What every call of the rules keeps, and what it may do to a tank.       *)

Sound(g) == g \in Game /\ Drawn(g) /\ Settled(g) /\ MinesShown(g)

(* The tank is as it was; every tank is, or has been restored by a hit.    *)
Untouched(g, h, q) == h.lives[q] = g.lives[q] /\ SameTank(g, h, q)
Spared(g, h) == \A q \in Players : Restored(h, q) \/ Untouched(g, h, q)
SameShots(g, h) == h.shots = g.shots /\ h.emptyGun = g.emptyGun

(* Where the tanks are: both at home, after a hit on a tank; both as they  *)
(* were, and every tank that was shown still shown; or one back home,      *)
(* after a hit on its barrel.                                              *)
Home(g) == \A q \in Players : Restored(g, q)
Unmoved(g, h) == \A q \in Players : Untouched(g, h, q)
Quiet(g, h) == Home(h) \/ Unmoved(g, h)
Calm(g, h) == Home(h) \/ (Unmoved(g, h) /\ StaysShown(g, h))
OneBack(g, h, p) ==
  /\ Restored(h, p) /\ h.lives[p] < g.lives[p] /\ BackBeside(g, h, p)
  /\ \A q \in Players : q # p => Untouched(g, h, q)
Moved(g, h) == Quiet(g, h) \/ \E p \in Players : OneBack(g, h, p)

LEMMA QuietAgain ==
  ASSUME NEW g, NEW h, NEW k, Quiet(h, k)
  PROVE  /\ Quiet(g, h) => Quiet(g, k)
         /\ \A p \in Players : OneBack(g, h, p) => Home(k) \/ OneBack(g, k, p)
         /\ Moved(g, h) => Moved(g, k)
<1>1. CASE Home(k)
  BY <1>1 DEF Quiet, Moved
<1>2. CASE Unmoved(h, k)
  <2>1. \A p \in Players : OneBack(g, h, p) => OneBack(g, k, p)
    BY <1>2 DEF OneBack, BackBeside, Unmoved, Untouched, SameTank, Restored
  <2>2. Home(h) => Home(k)
    BY <1>2 DEF Home, Unmoved, Untouched, SameTank, Restored
  <2>3. Unmoved(g, h) => Unmoved(g, k)
    BY <1>2 DEF Unmoved, Untouched, SameTank
  <2> QED BY <2>1, <2>2, <2>3 DEF Quiet, Moved
<1> QED BY <1>1, <1>2 DEF Quiet

LEMMA CalmAgain ==
  ASSUME NEW g, NEW h, NEW k, Calm(h, k)
  PROVE  Calm(g, h) => Calm(g, k)
<1>1. CASE Home(k)
  BY <1>1 DEF Calm
<1>2. CASE Unmoved(h, k) /\ StaysShown(h, k)
  <2>2. Home(h) => Home(k)
    BY <1>2 DEF Home, Unmoved, Untouched, SameTank, Restored
  <2>3. Unmoved(g, h) => Unmoved(g, k)
    BY <1>2 DEF Unmoved, Untouched, SameTank
  <2>4. StaysShown(g, h) => StaysShown(g, k)
    BY <1>2 DEF StaysShown
  <2> QED BY <2>2, <2>3, <2>4 DEF Calm
<1> QED BY <1>1, <1>2 DEF Calm

(* What is seen from a later game is seen from the earlier one.            *)
LEMMA CalmMoved ==
  ASSUME NEW g, NEW h, NEW k, Calm(g, h), Moved(h, k)
  PROVE  /\ Moved(g, k)
         /\ \A p \in Players : OneBack(h, k, p) => Home(k) \/ OneBack(g, k, p)
<1>1. CASE Home(h)
  <2>1. \A p \in Players : OneBack(h, k, p) => Home(k)
    BY <1>1 DEF Home, OneBack, Untouched, SameTank, Restored
  <2>2. Unmoved(h, k) => Home(k)
    BY <1>1 DEF Home, Unmoved, Untouched, SameTank, Restored
  <2> QED BY <2>1, <2>2 DEF Quiet, Moved
<1>2. CASE Unmoved(g, h) /\ StaysShown(g, h)
  <2>1. \A p \in Players : OneBack(h, k, p) => OneBack(g, k, p)
    BY <1>2 DEF OneBack, BackBeside, Unmoved, StaysShown, Untouched, SameTank
  <2>2. Unmoved(h, k) => Unmoved(g, k)
    BY <1>2 DEF Unmoved, Untouched, SameTank
  <2> QED BY <2>1, <2>2 DEF Quiet, Moved
<1> QED BY <1>1, <1>2 DEF Calm

LEMMA SparedAgain ==
  ASSUME NEW g, NEW h, NEW k, Spared(g, h), Spared(h, k)
  PROVE  Spared(g, k)
BY DEF Spared, Untouched, SameTank, Restored

LEMMA SparedSame ==
  ASSUME NEW g, NEW h, h.pos = g.pos, h.dir = g.dir, h.ammo = g.ammo, h.stock = g.stock,
         h.lives = g.lives
  PROVE  Spared(g, h) /\ Unmoved(g, h) /\ (h.grid = g.grid => Calm(g, h))
BY DEF Spared, Unmoved, Calm, StaysShown, Shows, Untouched, SameTank

LEMMA UndisturbedMines ==
  ASSUME NEW g, NEW h, MinesShown(g), Undisturbed(g, h)
  PROVE  MinesShown(h)
BY DEF MinesShown, Undisturbed

LEMMA TankHitSound ==
  ASSUME NEW g, Sound(g), NEW p \in Players, NEW c \in Cells, NEW h, h = TankHit(g, p, c)
  PROVE  /\ Sound(h) /\ Spared(g, h) /\ SameShots(g, h) /\ h.mines = g.mines
         /\ Home(h)
<1>1. h \in Game /\ Drawn(h) /\ Settled(h) /\ Undisturbed(g, h) /\ Home(h)
  BY TankHitKeepsBoard DEF Sound, Home
<1>2. MinesShown(h)
  BY <1>1, UndisturbedMines DEF Sound
<1> QED BY <1>1, <1>2 DEF Sound, Spared, SameShots, Undisturbed, Home

LEMMA BarrelHitSound ==
  ASSUME NEW g, Sound(g), NEW p \in Players, NEW c \in Cells, NEW h, h = BarrelHit(g, p, c)
  PROVE  /\ Sound(h) /\ Spared(g, h) /\ SameShots(g, h) /\ h.mines = g.mines
         /\ Home(h) \/ OneBack(g, h, p)
<1>1. h \in Game /\ Drawn(h) /\ Settled(h) /\ Undisturbed(g, h) /\ (Home(h) \/ OneBack(g, h, p))
  BY BarrelHitKeepsBoard DEF Sound, Home, OneBack, Untouched
<1>2. MinesShown(h)
  BY <1>1, UndisturbedMines DEF Sound
<1>3. Spared(g, h)
  BY <1>1 DEF Spared, Home, OneBack
<1> QED BY <1>1, <1>2, <1>3 DEF Sound, SameShots, Undisturbed

(* Writing a cell that shows no tank hides none.                           *)
LEMMA OutOfSight ==
  ASSUME NEW g \in Game, NEW h, h.pos = g.pos, Unmoved(g, h), NEW c,
         \A x \in Cells : x # c => h.grid[x] = g.grid[x],
         g.grid[c] \notin {"tank1", "tank2"}
  PROVE  Calm(g, h)
<1>1. \A q \in Players : g.pos[q] \in Cells /\ CellTypeForTank[q] \in {"tank1", "tank2"}
  BY BarrelOnBoard, TankCells
<1> QED BY <1>1 DEF Calm, StaysShown, Shows

(* A cell that shows no tank, no barrel and no mine afterwards.            *)
LEMMA BlankSound ==
  ASSUME NEW g, Sound(g), NEW c \in Cells, NEW v \in {"empty", "wreckage"},
         NEW h, h = Write(g, c, v)
  PROVE  /\ Sound(h) /\ Spared(g, h) /\ SameShots(g, h) /\ h.mines = g.mines
         /\ \A x \in Cells : h.grid[x] = IF x = c THEN v ELSE g.grid[x]
         /\ Unmoved(g, h) /\ (g.grid[c] \notin {"tank1", "tank2"} => Calm(g, h))
<1>1. v \in CellType /\ v # "mine" /\ g \in Game
  BY DEF CellType, Sound
<1>2. /\ h \in Game /\ OnlyGrid(g, h)
      /\ \A x \in Cells : h.grid[x] = IF x = c THEN v ELSE g.grid[x]
  BY <1>1, WriteCell
<1>3. /\ h.pos = g.pos /\ h.dir = g.dir /\ h.ammo = g.ammo /\ h.stock = g.stock
      /\ h.mines = g.mines /\ h.shots = g.shots /\ h.emptyGun = g.emptyGun
      /\ h.lives = g.lives /\ h.winner = g.winner
      /\ \A q \in Players : BarrelPos(h, q) = BarrelPos(g, q)
  BY <1>1, <1>2, OnlyGridKeeps DEF SameScore
<1>4. \A q \in Players : CellTypeForTank[q] # v /\ CellTypeForBarrel[q] # v
  BY TankCells
<1>5. Drawn(h)
  BY <1>2, <1>3, <1>4 DEF Drawn, Sound
<1>6. MinesShown(h)
  BY <1>1, <1>2, <1>3 DEF MinesShown, Sound
<1>7. Settled(h)
  BY <1>3 DEF Settled, Sound
<1>8. Unmoved(g, h) /\ (g.grid[c] \notin {"tank1", "tank2"} => Calm(g, h))
  BY <1>1, <1>2, <1>3, SparedSame, OutOfSight
<1> QED BY <1>2, <1>3, <1>5, <1>6, <1>7, <1>8, SparedSame DEF Sound, SameShots

----------------------------------------------------------------------------
(* Mines that go off *)

LEMMA RemoveAtOK ==
  ASSUME NEW T, NEW s \in Seq(T), NEW i \in 1 .. Len(s)
  PROVE  /\ RemoveAt(s, i) \in Seq(T) /\ Len(RemoveAt(s, i)) = Len(s) - 1
         /\ \A j \in 1 .. Len(s) - 1 : RemoveAt(s, i)[j] = IF j < i THEN s[j] ELSE s[j + 1]
<1> DEFINE a == SubSeq(s, 1, i - 1)
           b == SubSeq(s, i + 1, Len(s))
<1>0. Len(s) \in Nat /\ i \in Int
  OBVIOUS
<1>1. \A j \in 1 .. Len(s) : s[j] \in T
  OBVIOUS
<1>2. a \in Seq(T) /\ Len(a) = i - 1 /\ \A j \in 1 .. i - 1 : a[j] = s[j]
  <2>1. \A j \in 1 .. i - 1 : s[j] \in T
    BY <1>0, <1>1
  <2>2. /\ a \in Seq(T) /\ Len(a) = IF 1 <= i - 1 THEN i - 1 - 1 + 1 ELSE 0
        /\ \A j \in 1 .. i - 1 - 1 + 1 : a[j] = s[1 + j - 1]
    BY <1>0, <2>1, SubSeqProperties
  <2>3. (i - 1) - 1 + 1 = i - 1 /\ \A j \in 1 .. i - 1 : 1 + j - 1 = j
    BY <1>0
  <2> HIDE DEF a
  <2>4. Len(a) = i - 1
    BY <1>0, <2>2
  <2>5. \A j \in 1 .. i - 1 : a[j] = s[j]
    BY <2>2, <2>3
  <2> QED BY <2>2, <2>4, <2>5
<1>3. b \in Seq(T) /\ Len(b) = Len(s) - i /\ \A j \in 1 .. Len(s) - i : b[j] = s[i + j]
  <2>1. \A j \in i + 1 .. Len(s) : s[j] \in T
    BY <1>0, <1>1
  <2>2. /\ b \in Seq(T) /\ Len(b) = IF i + 1 <= Len(s) THEN Len(s) - (i + 1) + 1 ELSE 0
        /\ \A j \in 1 .. Len(s) - (i + 1) + 1 : b[j] = s[i + 1 + j - 1]
    BY <1>0, <2>1, SubSeqProperties
  <2>3. Len(s) - (i + 1) + 1 = Len(s) - i /\ \A j \in 1 .. Len(s) - i : i + 1 + j - 1 = i + j
    BY <1>0
  <2> HIDE DEF b
  <2>4. Len(b) = Len(s) - i
    <3>1. PICK n \in Nat : n = Len(s)
      BY <1>0
    <3>2. i \in 1 .. n
      BY <3>1
    <3>3. Len(b) = IF i + 1 <= n THEN n - (i + 1) + 1 ELSE 0
      BY <2>2, <3>1
    <3>4. CASE i + 1 <= n
      BY <3>1, <3>2, <3>3, <3>4
    <3>5. CASE ~(i + 1 <= n)
      BY <3>1, <3>2, <3>3, <3>5
    <3> QED BY <3>4, <3>5
  <2>5. \A j \in 1 .. Len(s) - i : b[j] = s[i + j]
    BY <2>2, <2>3
  <2> QED BY <2>2, <2>4, <2>5
<1>4. RemoveAt(s, i) = a \o b
  BY DEF RemoveAt
<1> HIDE DEF a, b
<1>5. /\ a \o b \in Seq(T) /\ Len(a \o b) = Len(a) + Len(b)
      /\ \A j \in 1 .. Len(a) + Len(b) :
           (a \o b)[j] = IF j <= Len(a) THEN a[j] ELSE b[j - Len(a)]
  BY <1>2, <1>3, ConcatProperties
<1>6. Len(a) + Len(b) = Len(s) - 1
  BY <1>0, <1>2, <1>3
<1>7. ASSUME NEW j \in 1 .. Len(s) - 1
      PROVE  (a \o b)[j] = IF j < i THEN s[j] ELSE s[j + 1]
  <2>1. CASE j < i
    <3>1. j <= Len(a) /\ j \in 1 .. i - 1
      BY <1>0, <1>2, <2>1
    <3> QED BY <1>2, <1>5, <1>6, <2>1, <3>1
  <2>2. CASE ~(j < i)
    <3>1. ~(j <= Len(a)) /\ j - Len(a) \in 1 .. Len(s) - i /\ i + (j - Len(a)) = j + 1
      BY <1>0, <1>2, <2>2
    <3> QED BY <1>3, <1>5, <1>6, <2>2, <3>1
  <2> QED BY <2>1, <2>2
<1> QED BY <1>4, <1>5, <1>6, <1>7

(* A mine leaves the list, and its cell shows none.                        *)
Removed(g, i, c) == [g EXCEPT !.mines = RemoveAt(@, i), !.grid[c] = "empty"]

LEMMA RemovedSound ==
  ASSUME NEW g, Sound(g), NEW i \in DOMAIN g.mines, NEW c, c = g.mines[i].at,
         NEW h, h = Removed(g, i, c)
  PROVE  /\ c \in Cells
         /\ Sound(h) /\ Spared(g, h) /\ SameShots(g, h) /\ Len(h.mines) = Len(g.mines) - 1
         /\ g.grid[c] \notin {"tank1", "tank2"} => Calm(g, h)
<1>1. /\ g \in Game /\ g.mines \in Seq(Mine) /\ g.grid \in [Cells -> CellType]
      /\ DOMAIN g.mines = 1 .. Len(g.mines)
  BY DEF Sound, Game
<1>2. c \in Cells
  <2>1. g.mines[i] \in Mine
    BY <1>1
  <2> QED BY <2>1, InteriorInCells DEF Mine
<1> DEFINE ms == RemoveAt(g.mines, i)
           grid == [g.grid EXCEPT ![c] = "empty"]
<1>3. /\ ms \in Seq(Mine) /\ Len(ms) = Len(g.mines) - 1
      /\ \A j \in 1 .. Len(g.mines) - 1 : ms[j] = IF j < i THEN g.mines[j] ELSE g.mines[j + 1]
  BY <1>1, RemoveAtOK
<1>4. /\ grid \in [Cells -> CellType]
      /\ \A x \in Cells : grid[x] = IF x = c THEN "empty" ELSE g.grid[x]
  BY <1>1 DEF CellType
<1>5. h = [g EXCEPT !.mines = ms, !.grid = grid]
  BY DEF Removed
<1> HIDE DEF ms, grid
<1>5a. g \in Game /\ ms \in Seq(Mine) /\ grid \in [Cells -> CellType]
  BY <1>1, <1>3, <1>4
<1>6. /\ h \in Game /\ h.grid = grid /\ h.mines = ms /\ h.pos = g.pos /\ h.dir = g.dir
      /\ h.ammo = g.ammo /\ h.stock = g.stock /\ h.lives = g.lives /\ h.winner = g.winner
      /\ h.shots = g.shots /\ h.emptyGun = g.emptyGun
  BY <1>5, <1>5a DEF Game
<1>7. Drawn(h)
  <2>1. \A q \in Players : CellTypeForTank[q] # "empty" /\ CellTypeForBarrel[q] # "empty"
    BY TankCells
  <2>2. \A q \in Players : BarrelPos(h, q) = BarrelPos(g, q)
    BY <1>6 DEF BarrelPos
  <2> QED BY <1>4, <1>6, <2>1, <2>2 DEF Drawn, Sound
<1>8. MinesShown(h)
  <2> SUFFICES ASSUME NEW x \in Cells, h.grid[x] = "mine"
               PROVE  \E j \in DOMAIN h.mines : h.mines[j].at = x /\ h.mines[j].visible
    BY DEF MinesShown
  <2>1. x # c /\ g.grid[x] = "mine"
    BY <1>4, <1>6
  <2>2. PICK j \in DOMAIN g.mines : g.mines[j].at = x /\ g.mines[j].visible
    BY <2>1 DEF MinesShown, Sound
  <2>3. j \in 1 .. Len(g.mines) /\ i \in 1 .. Len(g.mines) /\ j # i /\ Len(g.mines) \in Nat
    BY <1>1, <2>1, <2>2
  <2>4. DOMAIN h.mines = 1 .. Len(g.mines) - 1
    BY <1>3, <1>6
  <2>5. CASE j < i
    <3>1. j \in 1 .. Len(g.mines) - 1
      BY <2>3, <2>5
    <3> QED BY <1>3, <1>6, <2>2, <2>4, <2>5, <3>1
  <2>6. CASE ~(j < i)
    <3>1. j - 1 \in 1 .. Len(g.mines) - 1 /\ ~(j - 1 < i) /\ (j - 1) + 1 = j
      BY <2>3, <2>6
    <3> QED BY <1>3, <1>6, <2>2, <2>4, <3>1
  <2> QED BY <2>5, <2>6
<1>9. Settled(h)
  BY <1>6 DEF Settled, Sound
<1>10. g.grid[c] \notin {"tank1", "tank2"} => Calm(g, h)
  BY <1>1, <1>4, <1>6, SparedSame, OutOfSight
<1> QED BY <1>2, <1>3, <1>6, <1>7, <1>8, <1>9, <1>10, SparedSame DEF Sound, SameShots

LEMMA FirstMineOK ==
  ASSUME NEW g \in Game, NEW c, MinesAt(g, c) # {}
  PROVE  FirstMine(g, c) \in DOMAIN g.mines /\ g.mines[FirstMine(g, c)].at = c
<1>1. MinesAt(g, c) \subseteq Nat
  BY DEF MinesAt, Game
<1>2. \E i \in MinesAt(g, c) : \A j \in MinesAt(g, c) : i <= j
  BY <1>1, LeastNat
<1>3. FirstMine(g, c) \in MinesAt(g, c)
  BY <1>2 DEF FirstMine
<1> QED BY <1>3 DEF MinesAt

LEMMA DetonatedSound ==
  ASSUME NEW g, Sound(g), NEW c, MinesAt(g, c) # {}, NEW h, h = Detonated(g, c)
  PROVE  /\ Sound(h) /\ Spared(g, h) /\ SameShots(g, h) /\ Len(h.mines) = Len(g.mines) - 1
         /\ g.grid[c] \notin {"tank1", "tank2"} => Calm(g, h)
<1>1. FirstMine(g, c) \in DOMAIN g.mines /\ g.mines[FirstMine(g, c)].at = c
  BY FirstMineOK DEF Sound
<1>2. h = Removed(g, FirstMine(g, c), c)
  BY DEF Detonated, Removed
<1> QED BY <1>1, <1>2, RemovedSound

----------------------------------------------------------------------------
(* The scan of an explosion *)

Place == Int \X Int

LEMMA AreaOK ==
  ASSUME NEW c \in Place, NEW r \in {1, 2}
  PROVE  Area(c, r) \in Seq(Place) /\ (r = 2 => Len(Area(c, r)) = 25)
<1> DEFINE n == (2 * r + 1) * (2 * r + 1)
<1>1. n \in Nat /\ (r = 2 => n = 25)
  OBVIOUS
<1>2. \A i \in 1 .. n : <<c[1] - r + ((i - 1) % (2 * r + 1)),
    c[2] - r + ((i - 1) \div (2 * r + 1))>> \in Place
  <2>1. c[1] \in Int /\ c[2] \in Int
    BY DEF Place
  <2>2. CASE r = 1
    BY <2>1, <2>2 DEF Place
  <2>3. CASE r = 2
    BY <2>1, <2>3 DEF Place
  <2> QED BY <2>2, <2>3
<1>3. Area(c, r) = [i \in 1 .. n |-> <<c[1] - r + ((i - 1) % (2 * r + 1)),
    c[2] - r + ((i - 1) \div (2 * r + 1))>>]
  BY DEF Area
<1> HIDE DEF n
<1>4. Area(c, r) \in [1 .. n -> Place]
  BY <1>2, <1>3
<1>5. Area(c, r) \in Seq(Place) /\ Len(Area(c, r)) = n
  BY <1>1, <1>4
<1> QED BY <1>1, <1>5

LEMMA CellsArePlaces == Cells \subseteq Place
BY BoardAssumption DEF Cells, Place

(* The states of a scan that began with the game g0.                       *)
Scanned(g0) ==
  {s \in Game \X Seq(Place) : Sound(s[1]) /\ Spared(g0, s[1]) /\ SameShots(g0, s[1])}

LEMMA ScanCounts ==
  ASSUME NEW g, g.mines \in Seq(Mine), NEW todo \in Seq(Place)
  PROVE  /\ ScanSteps(g, todo) \in Nat
         /\ \A h, more :
              \/ Len(more) = Len(todo) - 1 /\ h.mines = g.mines
              \/ Len(more) = Len(todo) + 24 /\ Len(h.mines) = Len(g.mines) - 1
              => ScanSteps(h, more) = ScanSteps(g, todo) - 1
<1>1. PICK a \in Nat, b \in Nat : a = Len(todo) /\ b = Len(g.mines)
  OBVIOUS
<1>2. ScanSteps(g, todo) = a + 25 * b
  BY <1>1 DEF ScanSteps
<1>3. ASSUME NEW h, NEW more, Len(more) = Len(todo) - 1, h.mines = g.mines
      PROVE  ScanSteps(h, more) = ScanSteps(g, todo) - 1
  <2>1. ScanSteps(h, more) = (a - 1) + 25 * b
    BY <1>1, <1>3 DEF ScanSteps
  <2> QED BY <1>2, <2>1
<1>4. ASSUME NEW h, NEW more, Len(more) = Len(todo) + 24, Len(h.mines) = Len(g.mines) - 1
      PROVE  ScanSteps(h, more) = ScanSteps(g, todo) - 1
  <2>1. ScanSteps(h, more) = (a + 24) + 25 * (b - 1)
    BY <1>1, <1>4 DEF ScanSteps
  <2> QED BY <1>2, <2>1
<1>5. ScanSteps(g, todo) \in Nat
  BY <1>2
<1> QED BY <1>3, <1>4, <1>5

(* A step takes a cell off the list, and whatever a mine adds to the list  *)
(* has been counted for the mine.                                          *)
LEMMA ScanCellKeeps ==
  ASSUME NEW g0, NEW s \in Scanned(g0), s[2] # <<>>, NEW t, t = ScanCell(s)
  PROVE  /\ t \in Scanned(g0) /\ ScanSteps(t[1], t[2]) = ScanSteps(s[1], s[2]) - 1
         /\ Calm(s[1], t[1])
<1> DEFINE g == s[1]
           c == Head(s[2])
           rest == Tail(s[2])
           ct == IF InBounds(c) THEN g.grid[c] ELSE "outside"
<1>1. /\ g \in Game /\ g.mines \in Seq(Mine) /\ s[2] \in Seq(Place)
      /\ Sound(g) /\ Spared(g0, g) /\ SameShots(g0, g)
  BY DEF Scanned, Game
<1>2. c \in Place /\ rest \in Seq(Place) /\ Len(rest) = Len(s[2]) - 1
  BY <1>1, HeadTailProperties
<1>3. ASSUME NEW h, NEW more \in Seq(Place), t = <<h, more>>,
             Sound(h), Spared(g, h), SameShots(g, h), Calm(g, h),
             \/ Len(more) = Len(s[2]) - 1 /\ h.mines = g.mines
             \/ Len(more) = Len(s[2]) + 24 /\ Len(h.mines) = Len(g.mines) - 1
      PROVE  /\ t \in Scanned(g0) /\ ScanSteps(t[1], t[2]) = ScanSteps(s[1], s[2]) - 1
             /\ Calm(s[1], t[1])
  <2>1. t \in Scanned(g0)
    BY <1>1, <1>3, SparedAgain DEF Scanned, Sound, SameShots
  <2>2. t[1] = h /\ t[2] = more
    BY <1>3
  <2>3. ScanSteps(h, more) = ScanSteps(g, s[2]) - 1
    BY <1>1, <1>3, ScanCounts
  <2> QED BY <1>3, <2>1, <2>2, <2>3
<1>4. CASE ct \in {"wall", "wreckage", "shot"}
  <2>1. c \in Cells
    BY <1>4 DEF InBounds
  <2>2. PICK h : h = Write(g, c, "empty")
    OBVIOUS
  <2>3. t = <<h, rest>>
    BY <1>4, <2>2 DEF ScanCell, Write
  <2>4. Sound(h) /\ Spared(g, h) /\ SameShots(g, h) /\ h.mines = g.mines /\ Calm(g, h)
    <3>1. g.grid[c] \notin {"tank1", "tank2"}
      BY <1>4, <2>1 DEF InBounds
    <3> QED BY <1>1, <2>1, <2>2, <3>1, BlankSound
  <2> QED BY <1>2, <1>3, <2>3, <2>4
<1>5. CASE ct = "mine" /\ MinesAt(g, c) # {}
  <2>1. PICK h : h = Detonated(g, c)
    OBVIOUS
  <2>2. PICK area : area = Area(c, 2)
    OBVIOUS
  <2>3. t = <<h, area \o rest>>
    BY <1>5, <2>1, <2>2 DEF ScanCell
  <2>4. /\ Sound(h) /\ Spared(g, h) /\ SameShots(g, h) /\ Len(h.mines) = Len(g.mines) - 1
        /\ Calm(g, h)
    <3>1. g.grid[c] \notin {"tank1", "tank2"}
      BY <1>5
    <3> QED BY <1>1, <1>5, <2>1, <3>1, DetonatedSound
  <2>5. area \in Seq(Place) /\ Len(area) = 25
    BY <1>2, <2>2, AreaOK
  <2> HIDE DEF rest
  <2>6. area \o rest \in Seq(Place) /\ Len(area \o rest) = Len(area) + Len(rest)
    BY <1>2, <2>5, ConcatProperties
  <2>7. Len(area \o rest) = Len(s[2]) + 24
    <3>1. PICK n \in Nat : n = Len(s[2])
      BY <1>1
    <3> QED BY <1>2, <2>5, <2>6, <3>1
  <2> QED BY <1>3, <2>3, <2>4, <2>6, <2>7
<1>6. ASSUME NEW p \in Players, ct = CellTypeForTank[p]
      PROVE  /\ t \in Scanned(g0) /\ ScanSteps(t[1], t[2]) = ScanSteps(s[1], s[2]) - 1
             /\ Calm(s[1], t[1])
  <2>1. c \in Cells
    BY <1>6, TankCells DEF InBounds
  <2>2. PICK h : h = TankHit(g, p, c)
    OBVIOUS
  <2>3. t = <<h, rest>>
    <3>1. CASE p = 1
      <4>1. ct = "tank1"
        BY <1>6, <3>1 DEF CellTypeForTank
      <4> QED BY <2>2, <3>1, <4>1 DEF ScanCell
    <3>2. CASE p = 2
      <4>1. ct = "tank2"
        BY <1>6, <3>2 DEF CellTypeForTank
      <4> QED BY <2>2, <3>2, <4>1 DEF ScanCell
    <3> QED BY <3>1, <3>2 DEF Players
  <2>4. Sound(h) /\ Spared(g, h) /\ SameShots(g, h) /\ h.mines = g.mines /\ Calm(g, h)
    BY <1>1, <2>1, <2>2, TankHitSound DEF Calm
  <2> QED BY <1>2, <1>3, <2>3, <2>4
<1>7. CASE /\ ct \notin {"wall", "wreckage", "shot"} /\ ~(ct = "mine" /\ MinesAt(g, c) # {})
           /\ ct # "tank1" /\ ct # "tank2"
  <2>1. t = <<g, rest>>
    BY <1>7 DEF ScanCell
  <2>2. Spared(g, g) /\ SameShots(g, g) /\ Calm(g, g)
    BY SparedSame DEF SameShots
  <2> QED BY <1>1, <1>2, <1>3, <2>1, <2>2
<1>8. CellTypeForTank[1] = "tank1" /\ CellTypeForTank[2] = "tank2" /\ 1 \in Players /\ 2 \in Players
  BY DEF CellTypeForTank, Players
<1> HIDE DEF g, c, rest, ct
<1> QED BY <1>4, <1>5, <1>6, <1>7, <1>8

\* The scan of an explosion comes to its end, whatever chain of mines it sets off,
\* within the steps the model counts for it: no cell is left to scan.  And the game
\* it leaves is as sound as the one it began with (ExplodeMine).
THEOREM ScanEnds ==
  ASSUME NEW g, Sound(g), NEW todo \in Seq(Place), NEW h, h = Scan(g, todo)
  PROVE  /\ Sound(h) /\ Spared(g, h) /\ SameShots(g, h) /\ Calm(g, h)
         /\ \E r \in [Nat -> Scanned(g)] :
              /\ r[0] = <<g, todo>> /\ \A n \in Nat : r[n + 1] = ScanCell(r[n])
              /\ r[ScanSteps(g, todo)] = <<h, <<>>>>
<1> DEFINE S == Scanned(g)
           last == ScanSteps(g, todo)
<1>1. <<g, todo>> \in S
  BY SparedSame DEF Scanned, Sound, SameShots
<1>2. ASSUME NEW s \in S PROVE ScanCell(s) \in S
  <2>1. CASE s[2] = <<>>
    BY <2>1 DEF ScanCell
  <2>2. CASE s[2] # <<>>
    BY <2>2, ScanCellKeeps
  <2> QED BY <2>1, <2>2
<1> HIDE DEF S
<1>3. PICK r \in [Nat -> S] :
        /\ r[0] = <<g, todo>> /\ \A n \in Nat : r[n + 1] = ScanCell(r[n])
        /\ h = r[last][1]
  <2>1. \A s \in S : ScanCell(s) \in S
    BY <1>2
  <2>2. \E r : ScanRuns(r, S, g, todo)
    BY <1>1, <2>1, ScanRepeats
  <2> QED BY <2>2 DEF ScanRuns
<1>4. \A s \in S : /\ s = <<s[1], s[2]>> /\ s[1].mines \in Seq(Mine) /\ s[2] \in Seq(Place)
                   /\ Sound(s[1]) /\ Spared(g, s[1]) /\ SameShots(g, s[1])
  BY DEF S, Scanned, Game
<1>5. last \in Nat
  <2>1. g.mines \in Seq(Mine)
    BY DEF Sound, Game
  <2> QED BY <2>1, ScanCounts
<1> HIDE DEF last
<1> DEFINE P == {n \in Nat : r[n][2] = <<>> \/ ScanSteps(r[n][1], r[n][2]) = last - n}
<1>6. \A n \in Nat : n \in P
  <2>1. 0 \in P
    <3>1. r[0][1] = g /\ r[0][2] = todo
      BY <1>3
    <3> QED BY <1>5, <3>1 DEF last
  <2>2. ASSUME NEW n \in P PROVE n + 1 \in P
    <3>1. n \in Nat /\ n + 1 \in Nat /\ r[n] \in S /\ r[n + 1] = ScanCell(r[n])
      BY <1>3
    <3>2. CASE r[n][2] = <<>>
      <4>1. r[n + 1] = r[n]
        BY <3>1, <3>2 DEF ScanCell
      <4> QED BY <3>1, <3>2, <4>1
    <3>3. CASE r[n][2] # <<>>
      <4>1. ScanSteps(r[n + 1][1], r[n + 1][2]) = ScanSteps(r[n][1], r[n][2]) - 1
        BY <3>1, <3>3, ScanCellKeeps DEF S
      <4>2. ScanSteps(r[n][1], r[n][2]) = last - n
        BY <3>3
      <4>3. ScanSteps(r[n + 1][1], r[n + 1][2]) = last - (n + 1)
        BY <1>5, <3>1, <4>1, <4>2
      <4> QED BY <3>1, <4>3
    <3> QED BY <3>2, <3>3
  <2>3. P \in SUBSET Nat
    OBVIOUS
  <2> HIDE DEF P
  <2> QED BY <2>1, <2>2, <2>3, CountUp
<1>7. r[last][2] = <<>>
  <2>1. SUFFICES ASSUME r[last][2] # <<>> PROVE FALSE
    OBVIOUS
  <2>2. ScanSteps(r[last][1], r[last][2]) = 0
    BY <1>5, <1>6, <2>1
  <2>3. /\ r[last] \in S /\ r[last + 1] \in S /\ r[last + 1] = ScanCell(r[last])
    <3>1. last + 1 \in Nat
      BY <1>5
    <3> QED BY <1>3, <1>5, <3>1
  <2>4. ScanSteps(r[last + 1][1], r[last + 1][2]) = 0 - 1
    BY <2>1, <2>2, <2>3, ScanCellKeeps DEF S
  <2>5. ScanSteps(r[last + 1][1], r[last + 1][2]) \in Nat
    BY <1>4, <2>3, ScanCounts
  <2> QED BY <2>4, <2>5
<1>8. r[last] \in S
  BY <1>3, <1>5
<1>9. r[last] = <<h, <<>>>>
  BY <1>3, <1>4, <1>7, <1>8
<1>10. Sound(h) /\ Spared(g, h) /\ SameShots(g, h)
  BY <1>3, <1>4, <1>8
<1>10a. Calm(g, h)
  <2> DEFINE Q == {n \in Nat : Calm(g, r[n][1])}
  <2>1. 0 \in Q
    <3>1. r[0][1] = g
      BY <1>3
    <3> QED BY <3>1, SparedSame
  <2>2. ASSUME NEW n \in Q PROVE n + 1 \in Q
    <3>1. n \in Nat /\ n + 1 \in Nat /\ r[n] \in S /\ r[n + 1] = ScanCell(r[n])
      BY <1>3
    <3>2. CASE r[n][2] = <<>>
      <4>1. r[n + 1] = r[n]
        BY <3>1, <3>2 DEF ScanCell
      <4> QED BY <3>1, <4>1
    <3>3. CASE r[n][2] # <<>>
      <4>1. Calm(r[n][1], r[n + 1][1])
        BY <3>1, <3>3, ScanCellKeeps DEF S
      <4> QED BY <3>1, <4>1, CalmAgain
    <3> QED BY <3>2, <3>3
  <2>3. Q \in SUBSET Nat /\ \A n \in Q : n + 1 \in Q
    BY <2>2
  <2> HIDE DEF Q
  <2>4. last \in Q
    BY <1>5, <2>1, <2>3, CountUp
  <2> QED BY <1>3, <2>4 DEF Q
<1>11. \E q \in [Nat -> S] :
              /\ q[0] = <<g, todo>> /\ \A n \in Nat : q[n + 1] = ScanCell(q[n])
              /\ q[last] = <<h, <<>>>>
  BY <1>3, <1>9
<1> QED BY <1>10, <1>10a, <1>11 DEF S, last

LEMMA ExplodeMineSound ==
  ASSUME NEW g, Sound(g), NEW c \in Cells, NEW r \in {1, 2}, NEW h, h = ExplodeMine(g, c, r)
  PROVE  /\ Sound(h) /\ Spared(g, h) /\ SameShots(g, h)
         /\ Quiet(g, h) /\ (g.grid[c] \notin {"tank1", "tank2"} => Calm(g, h))
<1>1. PICK k : k = Write(g, c, "empty")
  OBVIOUS
<1>2. /\ Sound(k) /\ Spared(g, k) /\ SameShots(g, k) /\ Quiet(g, k)
      /\ g.grid[c] \notin {"tank1", "tank2"} => Calm(g, k)
  BY <1>1, BlankSound DEF Quiet
<1>3. PICK todo \in Seq(Place) : todo = Area(c, r)
  BY AreaOK, CellsArePlaces
<1>4. h = Scan(k, todo)
  BY <1>1, <1>3 DEF ExplodeMine, Write
<1>5. Sound(h) /\ Spared(k, h) /\ SameShots(k, h) /\ Calm(k, h)
  BY <1>2, <1>4, ScanEnds
<1>6. Quiet(k, h)
  BY <1>5 DEF Quiet, Calm
<1> QED BY <1>2, <1>5, <1>6, SparedAgain, QuietAgain, CalmAgain DEF SameShots

\* A tank that steps on an armed mine is hit and restored, and the explosion that
\* follows, which may meet it again, leaves the game sound
\* (ResolveTankMineCollision).
LEMMA MineCollisionSound ==
  ASSUME NEW g, Sound(g), NEW p \in Players, NEW h, h = ResolveTankMineCollision(g, p)
  PROVE  Sound(h) /\ Spared(g, h) /\ SameShots(g, h) /\ (h = g \/ Home(h))
<1> DEFINE armed == {i \in DOMAIN g.mines : IsArmed(g.mines[i]) /\ g.mines[i].at = g.pos[p]}
           i == CHOOSE j \in armed : \A k \in armed : j <= k
           c == g.pos[p]
<1>1. CASE armed = {}
  <2>1. h = g
    BY <1>1 DEF ResolveTankMineCollision
  <2> QED BY <2>1, SparedSame DEF SameShots
<1>2. CASE armed # {}
  <2>1. i \in DOMAIN g.mines /\ g.mines[i].at = c
    <3>1. armed \subseteq Nat
      BY DEF Sound, Game
    <3> HIDE DEF armed
    <3>2. \E j \in armed : \A k \in armed : j <= k
      BY <1>2, <3>1, LeastNat
    <3>3. i \in armed
      BY <3>2
    <3> QED BY <3>3 DEF armed
  <2>2. c \in Cells
    BY BarrelOnBoard DEF Sound
  <2>3. PICK k : k = TankHit(g, p, c)
    OBVIOUS
  <2>4. Sound(k) /\ Spared(g, k) /\ SameShots(g, k) /\ k.mines = g.mines /\ Home(k)
    BY <2>2, <2>3, TankHitSound
  <2>5. PICK m : m = Removed(k, i, c)
    OBVIOUS
  <2>6. h = ExplodeMine([k EXCEPT !.mines = RemoveAt(@, i)], c, 1)
    BY <1>2, <2>3 DEF ResolveTankMineCollision
  <2> HIDE DEF i, c, armed
  <2>7. Sound(m) /\ Spared(k, m) /\ SameShots(k, m)
    BY <2>1, <2>4, <2>5, RemovedSound
  <2>8. PICK todo \in Seq(Place) : todo = Area(c, 1)
    BY <2>2, AreaOK, CellsArePlaces
  <2>9. h = Scan(m, todo)
    BY <2>5, <2>6, <2>8 DEF ExplodeMine, Removed
  <2>10. Sound(h) /\ Spared(m, h) /\ SameShots(m, h)
    BY <2>7, <2>9, ScanEnds
  <2>11. Spared(g, m)
    BY <2>4, <2>7, SparedAgain
  <2>12. Spared(g, h)
    BY <2>10, <2>11, SparedAgain
  <2>13. Home(h)
    BY <2>4, <2>7, <2>10 DEF Home, Spared, Untouched, SameTank, Restored
  <2> QED BY <2>4, <2>7, <2>10, <2>12, <2>13 DEF SameShots
<1> QED BY <1>1, <1>2

----------------------------------------------------------------------------
(* Keys *)

(* Nobody is without ammunition unless the last shot is to be paid for,    *)
(* and what is to be paid for is in the air: the parts of LastShotFlies.   *)
Loaded(g) == \A p \in Players : g.ammo[p] = 0 => g.emptyGun[p]
Pending(g) == \A p \in Players : g.emptyGun[p] => ShotOf(g, p) # {}

(* A game between the steps of a tick, before any shot moves.              *)
Ready(g) == Sound(g) /\ OneShotEach(g) /\ Flying(g) /\ Loaded(g) /\ Pending(g)

LEMMA FullIsLoaded == FullAmmo \in Nat /\ FullAmmo # 0 /\ FullAmmo - 1 > 0
BY BoardAssumption

LEMMA SparedLoaded ==
  ASSUME NEW g, NEW h, Spared(g, h), SameShots(g, h), Loaded(g)
  PROVE  Loaded(h)
BY FullIsLoaded DEF Spared, Untouched, SameTank, SameShots, Restored, Loaded

LEMMA SparedReady ==
  ASSUME NEW g, NEW h, Ready(g), Sound(h), Spared(g, h), SameShots(g, h)
  PROVE  Ready(h)
<1>1. OneShotEach(h) /\ Flying(h) /\ Pending(h)
  BY DEF Ready, SameShots, OneShotEach, Flying, Pending, ShotOf
<1>2. Loaded(h)
  BY SparedLoaded DEF Ready
<1> QED BY <1>1, <1>2 DEF Ready

(* What the key of a player may do: the other tank is hit and restored or  *)
(* left alone; the player's own keeps its lives and spends one shot at     *)
(* most, unless it is restored too; and a shot is added only where the     *)
(* player has none.                                                        *)
KeyDone(g, h, p) ==
  /\ \A q \in Players : q # p => Restored(h, q) \/ Untouched(g, h, q)
  /\ Restored(h, p) \/ (h.lives[p] = g.lives[p] /\ h.ammo[p] >= g.ammo[p] - 1)
  /\ \/ h.shots = g.shots
     \/ ShotOf(g, p) = {} /\ \E s \in Shot : s.owner = p /\ h.shots = Append(g.shots, s)

(* And where it may leave the tanks: both at home, after a mine; or the    *)
(* player's own a column further at most, the other where it was, and each *)
(* shown as before, but for a mine that has been laid in its cell.         *)
Nudged(g, h, p) ==
  /\ h.pos[p][1] \in g.pos[p][1] - 1 .. g.pos[p][1] + 1
  /\ \A q \in Players :
       /\ h.lives[q] = g.lives[q] /\ h.stock[q] <= g.stock[q]
       /\ q # p => h.pos[q] = g.pos[q]
       /\ Shows(g, q) =>
            \/ Shows(h, q) \/ h.stock[q] < g.stock[q]
            \/ /\ q # p /\ g.pos[q] = g.pos[p] /\ h.pos[p] = g.pos[p]
               /\ h.stock[p] < g.stock[p]
KeyMoves(g, h, p) == Home(h) \/ Nudged(g, h, p)

LEMMA KeyStays ==
  ASSUME NEW g \in Game, NEW h, h.grid = g.grid, h.pos = g.pos, h.stock = g.stock,
         h.lives = g.lives, NEW p \in Players
  PROVE  KeyMoves(g, h, p)
<1>1. g.pos[p][1] \in g.pos[p][1] - 1 .. g.pos[p][1] + 1
  BY BarrelOnBoard, BoardAssumption DEF Game, Interior
<1>2. \A q \in Players : h.stock[q] <= g.stock[q]
  BY BoardAssumption DEF Game
<1> QED BY <1>1, <1>2 DEF KeyMoves, Nudged, Shows

LEMMA SparedKey ==
  ASSUME NEW g \in Game, NEW h, Spared(g, h), SameShots(g, h), NEW p \in Players
  PROVE  KeyDone(g, h, p)
<1>1. g.ammo[p] \in Nat
  BY BoardAssumption DEF Game
<1> QED BY <1>1 DEF KeyDone, Spared, Untouched, SameTank, SameShots

LEMMA MaxRangeOK ==
  ASSUME NEW d
  PROVE  MaxRange(d) \in 0 .. Width + Height
<1> DEFINE least == IF Height < Width THEN Height ELSE Width
           size == CASE d \in {"left", "right"} -> Width
                     [] d \in {"up", "down"} -> Height
                     [] OTHER -> least
<1>1. size \in Nat /\ size <= Width + Height
  <2>1. Width \in Nat /\ Height \in Nat
    BY BoardAssumption
  <2>2. least \in Nat /\ least <= Width + Height
    BY <2>1
  <2>3. size \in {Width, Height, least}
    OBVIOUS
  <2> HIDE DEF size
  <2> QED BY <2>1, <2>2, <2>3
<1>2. MaxRange(d) = (3 * size) \div 4
  BY DEF MaxRange
<1> HIDE DEF size
<1>3. (3 * size) \div 4 \in 0 .. size
  BY <1>1
<1> QED BY <1>1, <1>2, <1>3, BoardAssumption

LEMMA NewShotOK ==
  ASSUME NEW g \in Game, NEW p \in Players, NEW first \in 0 .. ShotDelay
  PROVE  LET s == NewShot(g, p, first)
         IN s \in Shot /\ s.owner = p /\ s.live /\ s.hit = <<>> /\ s.from = s.at
<1>1. BarrelPos(g, p) \in Cells /\ g.dir[p] \in Direction
  BY BarrelOnBoard DEF Game
<1>2. MaxRange(g.dir[p]) \in 0 .. Width + Height
  BY MaxRangeOK
<1> QED BY <1>1, <1>2 DEF NewShot, Shot

LEMMA FireShotOK ==
  ASSUME NEW g, Ready(g), NEW p \in Players, NEW first \in 0 .. ShotDelay,
         NEW h, h = FireShot(g, p, first)
  PROVE  Ready(h) /\ KeyDone(g, h, p) /\ KeyMoves(g, h, p)
<1>0. g \in Game
  BY DEF Ready, Sound
<1>1. CASE g.ammo[p] > 0 /\ ShotOf(g, p) = {} /\ ShotSpawnPosition(g, p)
  <2>1. PICK s \in Shot : s = NewShot(g, p, first) /\ s.owner = p /\ s.live /\ s.hit = <<>>
      /\ s.from = s.at
    BY <1>0, NewShotOK
  <2> DEFINE shots == Append(g.shots, s)
             ammo == [g.ammo EXCEPT ![p] = @ - 1]
             gun == [g.emptyGun EXCEPT ![p] = @ \/ g.ammo[p] = 1]
  <2>2. h = [g EXCEPT !.shots = shots, !.ammo = ammo, !.emptyGun = gun]
    BY <1>1, <2>1 DEF FireShot
  <2>3. /\ shots \in Seq(Shot) /\ Len(shots) = Len(g.shots) + 1 /\ g.shots \in Seq(Shot)
        /\ \A i \in 1 .. Len(g.shots) : shots[i] = g.shots[i]
        /\ shots[Len(g.shots) + 1] = s
    <3>1. g.shots \in Seq(Shot)
      BY <1>0 DEF Game
    <3> QED BY <2>1, <3>1, AppendProperties
  <2>4. /\ ammo \in [Players -> 0 .. FullAmmo] /\ ammo[p] = g.ammo[p] - 1 /\ g.ammo[p] \in Nat
        /\ \A q \in Players : q # p => ammo[q] = g.ammo[q]
    BY <1>0, <1>1, GameFields, BoardAssumption
  <2>5. /\ gun \in [Players -> BOOLEAN] /\ gun[p] = (g.emptyGun[p] \/ g.ammo[p] = 1)
        /\ \A q \in Players : q # p => gun[q] = g.emptyGun[q]
    <3>1. g.emptyGun \in [Players -> BOOLEAN]
      BY <1>0 DEF Game
    <3> QED BY <3>1
  <2> HIDE DEF shots, ammo, gun
  <2>5a. /\ shots \in Seq(Shot) /\ ammo \in [Players -> 0 .. FullAmmo]
         /\ gun \in [Players -> BOOLEAN]
    BY <2>3, <2>4, <2>5
  <2>6. /\ h \in Game /\ h.grid = g.grid /\ h.pos = g.pos /\ h.dir = g.dir /\ h.stock = g.stock
        /\ h.lives = g.lives /\ h.winner = g.winner /\ h.mines = g.mines
        /\ h.shots = shots /\ h.ammo = ammo /\ h.emptyGun = gun
    BY <1>0, <2>2, <2>5a DEF Game
  <2>7. Sound(h)
    <3>1. Drawn(h)
      BY <2>6, DrawnSame DEF Ready, Sound
    <3> QED BY <2>6, <3>1 DEF Ready, Sound, Settled, MinesShown
  <2>8. DOMAIN h.shots = 1 .. Len(g.shots) + 1 /\ DOMAIN g.shots = 1 .. Len(g.shots)
      /\ Len(g.shots) \in Nat
    BY <2>3, <2>6
  <2>9. \A i \in DOMAIN h.shots :
          \/ i \in DOMAIN g.shots /\ h.shots[i] = g.shots[i] /\ g.shots[i].owner # p
          \/ i = Len(g.shots) + 1 /\ h.shots[i] = s
    BY <1>1, <2>3, <2>6, <2>8 DEF ShotOf
  <2>10. OneShotEach(h)
    BY <2>1, <2>9 DEF Ready, OneShotEach
  <2>11. Flying(h)
    BY <2>1, <2>9 DEF Ready, Flying
  <2>12. Loaded(h)
    BY <2>4, <2>5, <2>6 DEF Ready, Loaded
  <2>13. Pending(h)
    <3>1. ShotOf(h, p) # {}
      BY <2>1, <2>3, <2>6, <2>8 DEF ShotOf
    <3>2. ASSUME NEW q \in Players, q # p, h.emptyGun[q] PROVE ShotOf(h, q) # {}
      <4>1. g.emptyGun[q]
        BY <2>5, <2>6, <3>2
      <4>2. PICK i \in DOMAIN g.shots : g.shots[i].owner = q
        BY <4>1 DEF Ready, Pending, ShotOf
      <4>3. i \in DOMAIN h.shots /\ h.shots[i] = g.shots[i]
        BY <2>3, <2>6, <2>8, <4>2
      <4> QED BY <4>2, <4>3 DEF ShotOf
    <3> QED BY <3>1, <3>2 DEF Pending
  <2>14. KeyDone(g, h, p)
    <3>1. \A q \in Players : q # p => Untouched(g, h, q)
      BY <2>4, <2>6 DEF Untouched, SameTank
    <3>2. h.lives[p] = g.lives[p] /\ h.ammo[p] >= g.ammo[p] - 1
      BY <2>4, <2>6
    <3>3. ShotOf(g, p) = {} /\ s.owner = p /\ h.shots = Append(g.shots, s)
      BY <1>1, <2>1, <2>6 DEF shots
    <3> QED BY <3>1, <3>2, <3>3 DEF KeyDone
  <2>15. KeyMoves(g, h, p)
    BY <1>0, <2>6, KeyStays
  <2> QED BY <2>7, <2>10, <2>11, <2>12, <2>13, <2>14, <2>15 DEF Ready
<1>2. CASE ~(g.ammo[p] > 0 /\ ShotOf(g, p) = {} /\ ShotSpawnPosition(g, p))
  <2>1. h = g
    BY <1>2 DEF FireShot
  <2>2. Spared(g, h) /\ SameShots(g, h)
    BY <2>1, SparedSame DEF SameShots
  <2>3. KeyMoves(g, h, p)
    BY <1>0, <2>1, KeyStays
  <2> QED BY <1>0, <2>1, <2>2, <2>3, SparedKey
<1> QED BY <1>1, <1>2

LEMMA PlaceMineOK ==
  ASSUME NEW g, Ready(g), NEW p \in Players, NEW h, h = PlaceMine(g, p)
  PROVE  Ready(h) /\ KeyDone(g, h, p) /\ KeyMoves(g, h, p)
<1>1. /\ h \in Game /\ Drawn(h) /\ Settled(h) /\ MinesShown(h) /\ SameScore(g, h)
      /\ h.shots = g.shots /\ h.emptyGun = g.emptyGun /\ h.ammo = g.ammo
      /\ \A q \in Players : q # p => SameTank(g, h, q)
      /\ h = g \/ /\ h.pos = g.pos /\ h.stock[p] < g.stock[p]
                  /\ \A x \in Cells : x # g.pos[p] => h.grid[x] = g.grid[x]
  BY MineKeepsBoard DEF Ready, Sound
<1>2. g.ammo[p] \in Nat
  BY BoardAssumption DEF Ready, Sound, Game
<1>3. Ready(h)
  BY <1>1 DEF Ready, Sound, OneShotEach, Flying, Loaded, Pending, ShotOf
<1>4. KeyDone(g, h, p)
  BY <1>1, <1>2 DEF KeyDone, Untouched, SameScore
<1>5. g \in Game
  BY DEF Ready, Sound
<1>6. CASE h = g
  <2>1. KeyMoves(g, h, p)
    BY <1>5, <1>6, KeyStays
  <2> QED BY <1>3, <1>4, <2>1
<1>7. CASE /\ h.pos = g.pos /\ h.stock[p] < g.stock[p]
           /\ \A x \in Cells : x # g.pos[p] => h.grid[x] = g.grid[x]
  <2>0. g.pos[p][1] \in g.pos[p][1] - 1 .. g.pos[p][1] + 1
    BY <1>5, BarrelOnBoard, BoardAssumption DEF Game, Interior
  <2>1. \A q \in Players : g.pos[q] \in Cells
    BY <1>5, BarrelOnBoard
  <2>2. \A q \in Players : h.stock[q] <= g.stock[q] /\ h.lives[q] = g.lives[q]
    <3>1. g.stock \in [Players -> 0 .. FullMines] /\ h.stock \in [Players -> 0 .. FullMines]
      BY <1>1, <1>5 DEF Game
    <3>2. \A q \in Players : g.stock[q] \in Nat /\ h.stock[q] \in Nat
      BY <3>1, BoardAssumption
    <3>3. \A q \in Players : q # p => h.stock[q] = g.stock[q]
      BY <1>1 DEF SameTank
    <3>4. h.lives = g.lives
      BY <1>1 DEF SameScore
    <3> QED BY <1>7, <3>2, <3>3, <3>4
  <2>3. ASSUME NEW q \in Players, Shows(g, q)
        PROVE  \/ Shows(h, q) \/ h.stock[q] < g.stock[q]
               \/ /\ q # p /\ g.pos[q] = g.pos[p] /\ h.pos[p] = g.pos[p]
                  /\ h.stock[p] < g.stock[p]
    BY <1>7, <2>1, <2>3 DEF Shows
  <2>4. Nudged(g, h, p)
    BY <1>7, <2>0, <2>2, <2>3 DEF Nudged
  <2> QED BY <1>3, <1>4, <2>4 DEF KeyMoves
<1> QED BY <1>1, <1>6, <1>7

LEMMA MoveOK ==
  ASSUME NEW g, Ready(g), NEW p \in Players, NEW d \in Direction,
         NEW h, h = ResolveTankMineCollision(ProcessMovement(g, p, d), p)
  PROVE  Ready(h) /\ KeyDone(g, h, p) /\ KeyMoves(g, h, p)
<1>1. PICK k : k = ProcessMovement(g, p, d)
  OBVIOUS
<1>2. k \in Game /\ Drawn(k) /\ Settled(k) /\ OwnMove(g, k, p) /\ Steps(g, k, p)
  BY <1>1, MoveKeepsBoard DEF Ready, Sound
<1>3. Ready(k)
  <2>1. MinesShown(k)
    BY <1>2, UndisturbedMines DEF Ready, Sound, OwnMove
  <2> QED BY <1>2, <2>1
          DEF Ready, Sound, OwnMove, Undisturbed, OneShotEach, Flying, Loaded, Pending, ShotOf
<1>4. Sound(h) /\ Spared(k, h) /\ SameShots(k, h) /\ (h = k \/ Home(h))
  BY <1>1, <1>3, MineCollisionSound DEF Ready
<1>5. Ready(h)
  BY <1>3, <1>4, SparedReady
<1>6. KeyDone(k, h, p)
  BY <1>2, <1>4, SparedKey
<1>7. h.shots = g.shots
  BY <1>2, <1>4 DEF OwnMove, Undisturbed, SameShots
<1>8. \A q \in Players : q # p => Restored(h, q) \/ Untouched(g, h, q)
  BY <1>2, <1>6 DEF KeyDone, OwnMove, SameScore, Untouched, SameTank
<1>9. Restored(h, p) \/ (h.lives[p] = g.lives[p] /\ h.ammo[p] >= g.ammo[p] - 1)
  BY <1>2, <1>6 DEF KeyDone, OwnMove, SameScore
<1>10. Nudged(g, k, p)
  <2>1. \A q \in Players : k.stock[q] <= g.stock[q]
    BY <1>2, BoardAssumption DEF Steps, Ready, Sound, Game
  <2> QED BY <1>2, <2>1 DEF Nudged, Steps, StaysShown, OwnMove, SameScore, SameTank
<1>11. KeyMoves(g, h, p)
  BY <1>4, <1>10 DEF KeyMoves
<1> QED BY <1>5, <1>7, <1>8, <1>9, <1>11 DEF KeyDone

LEMMA ApplyInputOK ==
  ASSUME NEW g, Ready(g), NEW p \in Players, NEW key \in Action, NEW first \in 0 .. ShotDelay,
         NEW h, h = ApplyInput(g, p, key, first)
  PROVE  Ready(h) /\ KeyDone(g, h, p) /\ KeyMoves(g, h, p)
<1>1. CASE key = "none"
  <2>1. h = g
    BY <1>1 DEF ApplyInput
  <2>2. Spared(g, h) /\ SameShots(g, h)
    BY <2>1, SparedSame DEF SameShots
  <2> QED BY <2>1, <2>2, SparedKey, KeyStays DEF Ready, Sound
<1>2. CASE key = "fire"
  <2>1. h = FireShot(g, p, first)
    BY <1>2 DEF ApplyInput
  <2> QED BY <2>1, FireShotOK
<1>3. CASE key = "placemine"
  <2>1. h = PlaceMine(g, p)
    BY <1>3 DEF ApplyInput
  <2> QED BY <2>1, PlaceMineOK
<1>4. CASE key \in Direction
  <2>1. key # "none" /\ key # "fire" /\ key # "placemine"
    BY <1>4 DEF Direction, Vector
  <2>2. h = ResolveTankMineCollision(ProcessMovement(g, p, key), p)
    BY <2>1 DEF ApplyInput
  <2> QED BY <1>4, <2>2, MoveOK
<1> QED BY <1>1, <1>2, <1>3, <1>4 DEF Action

----------------------------------------------------------------------------
(* Shots *)

(* The state of a tick while shots end: those that fly have hit nothing.   *)
Aloft(g) ==
  /\ Sound(g) /\ OneShotEach(g)
  /\ \A i \in DOMAIN g.shots : g.shots[i].live => g.shots[i].hit = <<>>
SameGuns(g, h) == Spared(g, h) /\ h.emptyGun = g.emptyGun

LEMMA SameGunsAgain ==
  ASSUME NEW g, NEW h, NEW k, SameGuns(g, h), SameGuns(h, k)
  PROVE  SameGuns(g, k)
BY SparedAgain DEF SameGuns

LEMMA ShotsOfGame ==
  ASSUME NEW g, Sound(g)
  PROVE  /\ g \in Game /\ g.shots \in Seq(Shot) /\ Len(g.shots) \in Nat
         /\ DOMAIN g.shots = 1 .. Len(g.shots)
         /\ \A i \in DOMAIN g.shots : g.shots[i] \in Shot
<1>1. g \in Game /\ g.shots \in Seq(Shot)
  BY DEF Sound, Game
<1> QED BY <1>1

LEMMA TwoShots ==
  ASSUME NEW s \in Seq(Shot), \A i, j \in DOMAIN s : i # j => s[i].owner # s[j].owner
  PROVE  Len(s) \in 0 .. 2
<1>0. PICK n \in Nat : n = Len(s) /\ DOMAIN s = 1 .. n
  OBVIOUS
<1>1. SUFFICES ASSUME ~(n <= 2) PROVE FALSE
  <2>1. n <= 2 => n \in 0 .. 2
    OBVIOUS
  <2> QED BY <1>0, <2>1
<1>2. 1 \in DOMAIN s /\ 2 \in DOMAIN s /\ 3 \in DOMAIN s
  BY <1>0, <1>1
<1>3. s[1] \in Shot /\ s[2] \in Shot /\ s[3] \in Shot
  BY <1>2
<1>4. s[1].owner \in {1, 2} /\ s[2].owner \in {1, 2} /\ s[3].owner \in {1, 2}
  BY <1>3 DEF Shot, Players
<1>5. s[1].owner # s[2].owner /\ s[1].owner # s[3].owner /\ s[2].owner # s[3].owner
  BY <1>2
<1> QED BY <1>4, <1>5

LEMMA ReshotSound ==
  ASSUME NEW g, Sound(g), NEW shots \in Seq(Shot), NEW h, h = [g EXCEPT !.shots = shots]
  PROVE  Sound(h) /\ SameGuns(g, h) /\ h.shots = shots /\ Calm(g, h)
<1>1. /\ h \in Game /\ h.grid = g.grid /\ h.pos = g.pos /\ h.dir = g.dir /\ h.ammo = g.ammo
      /\ h.stock = g.stock /\ h.lives = g.lives /\ h.winner = g.winner /\ h.mines = g.mines
      /\ h.emptyGun = g.emptyGun /\ h.shots = shots
  BY DEF Sound, Game
<1>2. Drawn(h)
  BY <1>1, DrawnSame DEF Sound
<1> QED BY <1>1, <1>2, SparedSame DEF Sound, Settled, MinesShown, SameGuns

LEMMA LessOK ==
  /\ \A k \in Int : \A m \in 0 .. k : Less(m) \in 0 .. k
  /\ \A k \in Nat : \A m \in NotLeft .. k : Less(m) \in NotLeft .. k
BY DEF Less, NotLeft

(* Time passes: nothing else changes.                                      *)
LEMMA ElapseOK ==
  ASSUME NEW g, Ready(g), NEW h, h = Elapse(g)
  PROVE  /\ Ready(h) /\ SameGuns(g, h) /\ DOMAIN h.shots = DOMAIN g.shots /\ Calm(g, h)
         /\ \A i \in DOMAIN g.shots : h.shots[i] = ShotWaits(g.shots[i])
<1> DEFINE wait == [p \in Players |-> Less(g.moveWait[p])]
           shots == [i \in DOMAIN g.shots |-> ShotWaits(g.shots[i])]
           mines == [i \in DOMAIN g.mines |-> MineWaits(g.mines[i])]
<1>1. /\ g \in Game /\ g.shots \in Seq(Shot) /\ g.mines \in Seq(Mine)
      /\ g.moveWait \in [Players -> 0 .. MoveDelay]
  BY DEF Ready, Sound, Game
<1>2. MoveDelay \in Nat /\ ShotDelay \in Nat /\ MineArmDelay \in Nat /\ MineVisibleDuration \in Nat
  BY BoardAssumption
<1>3. wait \in [Players -> 0 .. MoveDelay]
  <2>1. ASSUME NEW p \in Players PROVE Less(g.moveWait[p]) \in 0 .. MoveDelay
    <3>1. g.moveWait[p] \in 0 .. MoveDelay /\ MoveDelay \in Int
      BY <1>1, <1>2
    <3> QED BY <3>1, LessOK
  <2> QED BY <2>1
<1>4. shots \in Seq(Shot) /\ DOMAIN shots = DOMAIN g.shots
  <2>1. ASSUME NEW i \in DOMAIN g.shots PROVE ShotWaits(g.shots[i]) \in Shot
    <3>1. g.shots[i] \in Shot
      BY <1>1
    <3>1a. g.shots[i].wait \in 0 .. ShotDelay
      BY <3>1 DEF Shot
    <3>2. Less(g.shots[i].wait) \in 0 .. ShotDelay
      BY <1>2, <3>1a, LessOK
    <3> QED BY <3>1, <3>2 DEF Shot, ShotWaits
  <2>2. Len(g.shots) \in Nat /\ DOMAIN g.shots = 1 .. Len(g.shots)
    BY <1>1
  <2>3. shots \in [1 .. Len(g.shots) -> Shot]
    BY <2>1, <2>2
  <2> QED BY <2>2, <2>3
<1>5. mines \in Seq(Mine) /\ DOMAIN mines = DOMAIN g.mines
      /\ \A i \in DOMAIN g.mines : mines[i].at = g.mines[i].at
             /\ mines[i].visible = g.mines[i].visible
  <2>1. ASSUME NEW i \in DOMAIN g.mines
        PROVE  /\ mines[i] \in Mine
               /\ mines[i].at = g.mines[i].at /\ mines[i].visible = g.mines[i].visible
    <3>1. g.mines[i] \in Mine
      BY <1>1
    <3>2. Less(g.mines[i].armIn) \in NotLeft .. MineArmDelay
        /\ Less(g.mines[i].hideIn) \in 0 .. MineVisibleDuration
      BY <1>2, <3>1, LessOK DEF Mine
    <3> QED BY <3>1, <3>2 DEF Mine, MineWaits
  <2>2. Len(g.mines) \in Nat /\ DOMAIN g.mines = 1 .. Len(g.mines)
    BY <1>1
  <2>3. mines \in [1 .. Len(g.mines) -> Mine]
    BY <2>1, <2>2
  <2>4. mines \in Seq(Mine) /\ DOMAIN mines = DOMAIN g.mines
    BY <2>2, <2>3
  <2> QED BY <2>1, <2>4
<1>6. h = [g EXCEPT !.moveWait = wait, !.shots = shots, !.mines = mines]
  BY DEF Elapse
<1>7. \A i \in DOMAIN g.shots : shots[i] = ShotWaits(g.shots[i])
  OBVIOUS
<1> HIDE DEF wait, shots, mines
<1>7a. g \in Game /\ shots \in Seq(Shot) /\ mines \in Seq(Mine)
  BY <1>1, <1>4, <1>5
<1>8. /\ h \in Game /\ h.grid = g.grid /\ h.pos = g.pos /\ h.dir = g.dir /\ h.ammo = g.ammo
      /\ h.stock = g.stock /\ h.lives = g.lives /\ h.winner = g.winner /\ h.mines = mines
      /\ h.emptyGun = g.emptyGun /\ h.shots = shots
  BY <1>3, <1>6, <1>7a DEF Game
<1>9. Drawn(h)
  BY <1>8, DrawnSame DEF Ready, Sound
<1>10. MinesShown(h)
  BY <1>5, <1>8 DEF Ready, Sound, MinesShown
<1>11. Sound(h)
  BY <1>8, <1>9, <1>10 DEF Ready, Sound, Settled
<1>12. \A i \in DOMAIN g.shots : /\ g.shots[i] \in Shot
                                 /\ shots[i].owner = g.shots[i].owner
                                        /\ shots[i].live = g.shots[i].live
                                 /\ shots[i].hit = g.shots[i].hit /\ shots[i].at = g.shots[i].at
                                 /\ shots[i].from = g.shots[i].from
  <2> TAKE i \in DOMAIN g.shots
  <2>1. g.shots[i] \in Shot
    BY <1>1
  <2> QED BY <1>7, <2>1 DEF Shot, ShotWaits
<1>13. OneShotEach(h) /\ Flying(h) /\ Loaded(h) /\ Pending(h)
  <2>1. OneShotEach(h) /\ Flying(h)
    BY <1>4, <1>8, <1>12 DEF Ready, OneShotEach, Flying
  <2>2. Loaded(h)
    BY <1>8 DEF Ready, Loaded
  <2>3. Pending(h)
    BY <1>4, <1>8, <1>12 DEF Ready, Pending, ShotOf
  <2> QED BY <2>1, <2>2, <2>3
<1>14. SameGuns(g, h) /\ Calm(g, h)
  BY <1>8, SparedSame DEF SameGuns
<1> QED BY <1>4, <1>7, <1>8, <1>11, <1>13, <1>14 DEF Ready

(* A step of a shot: it is the same shot, and one that still flies has hit *)
(* nothing and is where it was or a cell further.                          *)
Flown(s, t) ==
  /\ t.owner = s.owner /\ t.dir = s.dir /\ t.from = s.from
  /\ t.live => s.live /\ t.hit = s.hit /\ t.at \in {s.at, Ahead(s.at, s.dir)}

LEMMA StopOK ==
  ASSUME NEW s \in Shot, NEW where \in {<<>>} \cup {<<c>> : c \in Cells}
  PROVE  /\ Stop(s, where) \in Shot /\ Flown(s, Stop(s, where)) /\ ~Stop(s, where).live
         /\ Stop(s, where).owner = s.owner
BY DEF Stop, Shot, Flown

LEMMA StepOK ==
  ASSUME NEW grid, NEW s \in Shot
  PROVE  Step(grid, s) \in Shot /\ Flown(s, Step(grid, s))
<1> DEFINE next == Ahead(s.at, s.dir)
           ahead == IF InBounds(next) THEN grid[next] ELSE "outside"
           moved == [s EXCEPT !.at = next, !.left = @ - 1, !.wait = ShotDelay]
<1>1. s.at \in Cells /\ s.left \in 0 .. Width + Height /\ s.live \in BOOLEAN
  BY DEF Shot
<1>2. <<s.at>> \in {<<c>> : c \in Cells}
  BY <1>1
<1>3. ahead # "outside" => next \in Cells
  BY DEF InBounds
<1>4. \/ Step(grid, s) = Stop(s, <<>>)
      \/ Step(grid, s) = Stop(s, <<s.at>>)
      \/ Step(grid, s) = Stop(s, <<next>>) /\ ahead # "outside"
      \/ Step(grid, s) = moved /\ ahead # "outside" /\ s.left > 0
  <2>1. CASE s.left = 0
    BY <2>1 DEF Step
  <2>2. CASE s.left > 0 /\ Foreign(s, grid[s.at])
    BY <2>2 DEF Step
  <2>3. CASE s.left > 0 /\ ~Foreign(s, grid[s.at])
    <3>1. CASE ahead = "outside"
      <4>0. ~Foreign(s, "outside")
        BY TankCells DEF Foreign, Shot
      <4>1. Step(grid, s) = Stop(s, <<s.at>>)
        BY <2>3, <3>1, <4>0 DEF Step
      <4> QED BY <4>1
    <3>2. CASE ahead # "outside" /\ (ahead \in {"wall", "wreckage", "mine"} \/ Foreign(s, ahead))
      <4>1. Step(grid, s) = Stop(s, <<next>>)
        BY <2>3, <3>2 DEF Step
      <4> QED BY <3>2, <4>1
    <3>3. CASE ahead # "outside" /\ ~(ahead \in {"wall", "wreckage", "mine"} \/ Foreign(s, ahead))
      <4>1. Step(grid, s) = moved
        BY <2>3, <3>3 DEF Step
      <4> QED BY <2>3, <3>3, <4>1
    <3> QED BY <3>1, <3>2, <3>3
  <2>4. s.left = 0 \/ s.left > 0
    BY <1>1, BoardAssumption
  <2> QED BY <2>1, <2>2, <2>3, <2>4
<1>5. ASSUME next \in Cells, s.left > 0
      PROVE  moved \in Shot /\ Flown(s, moved)
  <2>1. s.left - 1 \in 0 .. Width + Height /\ ShotDelay \in 0 .. ShotDelay
    BY <1>1, <1>5, BoardAssumption
  <2> HIDE DEF next
  <2>2. moved \in Shot /\ moved.owner = s.owner /\ moved.dir = s.dir /\ moved.from = s.from
        /\ moved.live = s.live /\ moved.hit = s.hit /\ moved.at = next
    BY <1>5, <2>1 DEF Shot
  <2> QED BY <2>2 DEF Flown, next
<1> HIDE DEF next, ahead, moved
<1>6. CASE Step(grid, s) = Stop(s, <<>>)
  BY <1>6, StopOK
<1>7. CASE Step(grid, s) = Stop(s, <<s.at>>)
  BY <1>2, <1>7, StopOK
<1>8. CASE Step(grid, s) = Stop(s, <<next>>) /\ ahead # "outside"
  <2>1. <<next>> \in {<<c>> : c \in Cells}
    BY <1>3, <1>8
  <2> QED BY <1>8, <2>1, StopOK
<1>9. CASE Step(grid, s) = moved /\ ahead # "outside" /\ s.left > 0
  BY <1>3, <1>5, <1>9
<1> QED BY <1>4, <1>6, <1>7, <1>8, <1>9

LEMMA FlownSame == ASSUME NEW s PROVE Flown(s, s)
BY DEF Flown

(* The shot at one place of the list moves; the others stay as they are.   *)
LEMMA StepShotOK ==
  ASSUME NEW g, Aloft(g), NEW i \in {1, 2}, NEW h, h = StepShot(g, i)
  PROVE  /\ Aloft(h) /\ SameGuns(g, h) /\ DOMAIN h.shots = DOMAIN g.shots /\ Calm(g, h)
         /\ \A j \in DOMAIN g.shots :
              /\ Flown(g.shots[j], h.shots[j])
              /\ j # i => h.shots[j] = g.shots[j]
<1>1. /\ g \in Game /\ g.shots \in Seq(Shot) /\ Len(g.shots) \in Nat
      /\ DOMAIN g.shots = 1 .. Len(g.shots) /\ \A j \in DOMAIN g.shots : g.shots[j] \in Shot
  BY ShotsOfGame DEF Aloft
<1>2. CASE i \notin DOMAIN g.shots \/ g.shots[i].wait > 0
  <2>1. h = g
    BY <1>2 DEF StepShot
  <2>2. SameGuns(g, h) /\ Calm(g, h)
    BY <2>1, SparedSame DEF SameGuns
  <2> QED BY <2>1, <2>2, FlownSame
<1>3. CASE ~(i \notin DOMAIN g.shots \/ g.shots[i].wait > 0)
  <2>1. PICK after \in Shot : after = Step(g.grid, g.shots[i]) /\ Flown(g.shots[i], after)
    BY <1>1, <1>3, StepOK
  <2>2. PICK grid : grid = Breaks(g.grid, after)
    OBVIOUS
  <2> DEFINE shots == [j \in DOMAIN g.shots |-> IF j = i THEN after ELSE g.shots[j]]
  <2>3. h = [g EXCEPT !.grid = grid, !.shots = shots]
    BY <1>3, <2>1, <2>2 DEF StepShot
  <2>4. shots \in Seq(Shot) /\ DOMAIN shots = DOMAIN g.shots
        /\ \A j \in DOMAIN g.shots : shots[j] = IF j = i THEN after ELSE g.shots[j]
    <3>1. shots \in [1 .. Len(g.shots) -> Shot]
      BY <1>1, <2>1
    <3> QED BY <1>1, <3>1
  <2> HIDE DEF shots
  <2>5. PICK k : k = Regrid(g, grid)
    OBVIOUS
  <2>6. Sound(k) /\ SameGuns(g, k) /\ Calm(g, k)
    <3>1. CASE after.hit \notin {<<>>, <<after.at>>}
        /\ g.grid[after.hit[1]] \in {"wall", "wreckage"}
      <4>1. after.hit[1] \in Cells
        <5>1. PICK c \in Cells : after.hit = <<c>>
          BY <2>1, <3>1 DEF Shot
        <5> QED BY <5>1
      <4>2. k = Write(g, after.hit[1], "empty")
        BY <2>2, <2>5, <3>1 DEF Breaks, Regrid, Write
      <4>3. g.grid[after.hit[1]] \notin {"tank1", "tank2"} /\ Sound(g)
        BY <3>1 DEF Aloft
      <4>4. Sound(k) /\ Spared(g, k) /\ SameShots(g, k) /\ Calm(g, k)
        BY <4>1, <4>2, <4>3, BlankSound
      <4> QED BY <4>4 DEF SameGuns, SameShots
    <3>2. CASE ~(after.hit \notin {<<>>, <<after.at>>}
        /\ g.grid[after.hit[1]] \in {"wall", "wreckage"})
      <4>1. grid = g.grid
        BY <2>2, <3>2 DEF Breaks
      <4>2. k = g
        BY <1>1, <2>5, <4>1 DEF Regrid, Game
      <4> QED BY <4>2, SparedSame DEF Aloft, SameGuns
    <3> QED BY <3>1, <3>2
  <2>7. h = [k EXCEPT !.shots = shots]
    BY <2>3, <2>5 DEF Regrid
  <2>8. Sound(h) /\ SameGuns(k, h) /\ h.shots = shots /\ Calm(k, h)
    BY <2>4, <2>6, <2>7, ReshotSound
  <2>9. SameGuns(g, h) /\ Calm(g, h)
    BY <2>6, <2>8, SameGunsAgain, CalmAgain
  <2>10. \A j \in DOMAIN g.shots : Flown(g.shots[j], h.shots[j]) /\ (j # i
      => h.shots[j] = g.shots[j])
    BY <2>1, <2>4, <2>8, FlownSame
  <2>11. \A j \in DOMAIN g.shots : h.shots[j].owner = g.shots[j].owner
    BY <2>10 DEF Flown
  <2>12. OneShotEach(h)
    BY <2>4, <2>8, <2>11 DEF Aloft, OneShotEach
  <2>13. \A j \in DOMAIN h.shots : h.shots[j].live => h.shots[j].hit = <<>>
    BY <2>4, <2>8, <2>10 DEF Aloft, Flown
  <2> QED BY <2>4, <2>8, <2>9, <2>10, <2>12, <2>13 DEF Aloft
<1> QED BY <1>2, <1>3

LEMMA MoveShotsOK ==
  ASSUME NEW g, Aloft(g), NEW h, h = MoveShots(g)
  PROVE  /\ Aloft(h) /\ SameGuns(g, h) /\ DOMAIN h.shots = DOMAIN g.shots /\ Calm(g, h)
         /\ \A j \in DOMAIN g.shots : Flown(g.shots[j], h.shots[j])
<1>1. PICK k : k = StepShot(g, 1)
  OBVIOUS
<1>2. /\ Aloft(k) /\ SameGuns(g, k) /\ DOMAIN k.shots = DOMAIN g.shots /\ Calm(g, k)
      /\ \A j \in DOMAIN g.shots :
              /\ Flown(g.shots[j], k.shots[j])
              /\ j # 1 => k.shots[j] = g.shots[j]
  BY <1>1, StepShotOK
<1>3. h = StepShot(k, 2)
  BY <1>1 DEF MoveShots
<1>4. /\ Aloft(h) /\ SameGuns(k, h) /\ DOMAIN h.shots = DOMAIN k.shots /\ Calm(k, h)
      /\ \A j \in DOMAIN k.shots :
              /\ Flown(k.shots[j], h.shots[j])
              /\ j # 2 => h.shots[j] = k.shots[j]
  BY <1>2, <1>3, StepShotOK
<1>5. \A j \in DOMAIN g.shots : Flown(g.shots[j], h.shots[j])
  <2> TAKE j \in DOMAIN g.shots
  <2>1. CASE j = 1
    <3>1. h.shots[j] = k.shots[j]
      BY <1>2, <1>4, <2>1
    <3> QED BY <1>2, <3>1
  <2>2. CASE j # 1
    <3>1. k.shots[j] = g.shots[j]
      BY <1>2, <2>2
    <3> QED BY <1>2, <1>4, <3>1
  <2> QED BY <2>1, <2>2
<1> QED BY <1>2, <1>4, <1>5, SameGunsAgain, CalmAgain

LEMMA ExplosionKeyOnBoard ==
  ASSUME NEW a \in Shot, NEW b \in Shot
  PROVE  ShotShotExplosionKey(a, b) \in Cells
<1>1. a.at \in Cells /\ b.at \in Cells
  BY DEF Shot
<1>2. PICK x1 \in 0 .. Width - 1, y1 \in 0 .. Height - 1 : a.at = <<x1, y1>>
  BY <1>1 DEF Cells
<1>3. PICK x2 \in 0 .. Width - 1, y2 \in 0 .. Height - 1 : b.at = <<x2, y2>>
  BY <1>1 DEF Cells
<1>4. (x1 + x2) \div 2 \in 0 .. Width - 1 /\ (y1 + y2) \div 2 \in 0 .. Height - 1
  BY BoardAssumption
<1>5. /\ <<(x1 + x2) \div 2, y1>> \in Cells /\ <<x1, (y1 + y2) \div 2>> \in Cells
  BY <1>4 DEF Cells
<1> QED BY <1>1, <1>2, <1>3, <1>5 DEF ShotShotExplosionKey

(* Two shots that meet are both ended, and hit nothing more; otherwise     *)
(* neither changes.                                                        *)
Spent(g) == \A j \in DOMAIN g.shots : Target(g.shots[j]) = <<>>

LEMMA MeetShotsOK ==
  ASSUME NEW g, Aloft(g), NEW h, h = MeetShots(g)
  PROVE  /\ Aloft(h) /\ SameGuns(g, h) /\ DOMAIN h.shots = DOMAIN g.shots
         /\ \A j \in DOMAIN g.shots : h.shots[j] = g.shots[j] \/ h.shots[j] = Stop(g.shots[j], <<>>)
         /\ \/ h.shots = g.shots /\
                 ~(/\ Len(g.shots) = 2 /\ g.shots[1].live /\ g.shots[2].live
                   /\ g.shots[1].at = g.shots[2].at \/ ShotsCrossedHeadOn(g.shots[1], g.shots[2]))
            \/ \A j \in DOMAIN h.shots : ~h.shots[j].live
         /\ h = g \/ (Quiet(g, h) /\ Spent(h))
<1> DEFINE a == g.shots[1]
           b == g.shots[2]
           met == a.live /\ b.live /\ (a.at = b.at \/ ShotsCrossedHeadOn(a, b))
<1>1. /\ g \in Game /\ g.shots \in Seq(Shot) /\ Len(g.shots) \in Nat
      /\ DOMAIN g.shots = 1 .. Len(g.shots) /\ \A j \in DOMAIN g.shots : g.shots[j] \in Shot
  BY ShotsOfGame DEF Aloft
<1>2. CASE ~(Len(g.shots) = 2 /\ met)
  <2>1. h = g
    BY <1>2 DEF MeetShots
  <2>2. SameGuns(g, h)
    BY <2>1, SparedSame DEF SameGuns
  <2> QED BY <1>2, <2>1, <2>2
<1>3. CASE Len(g.shots) = 2 /\ met
  <2>1. DOMAIN g.shots = {1, 2} /\ a \in Shot /\ b \in Shot
    BY <1>1, <1>3
  <2>2. PICK s \in Shot, t \in Shot :
          /\ s = Stop(a, <<>>) /\ t = Stop(b, <<>>) /\ ~s.live /\ ~t.live
          /\ s.owner = a.owner /\ t.owner = b.owner
    BY <2>1, StopOK
  <2>2a. Target(s) = <<>> /\ Target(t) = <<>>
    BY <2>1, <2>2 DEF Stop, Shot, Target
  <2>3. PICK shots : shots = <<s, t>>
    OBVIOUS
  <2>3a. shots \in Seq(Shot) /\ Len(shots) = 2 /\ shots[1] = s /\ shots[2] = t
    BY <2>3
  <2>3b. DOMAIN shots = 1 .. 2 /\ 1 .. 2 = {1, 2}
    BY <2>3
  <2>4. PICK k : k = [g EXCEPT !.shots = shots]
    OBVIOUS
  <2>5. Sound(k) /\ SameGuns(g, k) /\ k.shots = shots /\ Calm(g, k)
    <3>1. Sound(g)
      BY DEF Aloft
    <3> QED BY <2>3a, <2>4, <3>1, ReshotSound
  <2>6. PICK c \in Cells : c = ShotShotExplosionKey(a, b)
    BY <2>1, ExplosionKeyOnBoard
  <2>7. h = ExplodeMine(k, c, 2)
    BY <1>3, <2>2, <2>3, <2>4, <2>6 DEF MeetShots
  <2>8. Sound(h) /\ Spared(k, h) /\ SameShots(k, h) /\ Quiet(k, h)
    BY <2>5, <2>7, ExplodeMineSound
  <2>8a. Quiet(g, h)
    BY <2>5, <2>8, QuietAgain DEF Calm, Quiet
  <2>9. SameGuns(g, h) /\ h.shots = shots
    BY <2>5, <2>8, SameGunsAgain DEF SameGuns, SameShots
  <2>10. Aloft(h)
    <3>1. a.owner # b.owner
      BY <2>1 DEF Aloft, OneShotEach
    <3>2. OneShotEach(h)
      BY <2>2, <2>3a, <2>3b, <2>9, <3>1 DEF OneShotEach
    <3> QED BY <2>2, <2>3a, <2>3b, <2>8, <2>9, <3>2 DEF Aloft
  <2>11. Spent(h)
    BY <2>2a, <2>3a, <2>3b, <2>9 DEF Spent
  <2> QED BY <2>1, <2>2, <2>3a, <2>3b, <2>8a, <2>9, <2>10, <2>11
<1> QED BY <1>2, <1>3

(* The hit of a shot, whatever it hits.                                    *)
LEMMA HitByOK ==
  ASSUME NEW g, Aloft(g), NEW i \in {1, 2}, NEW h, h = HitBy(g, i)
  PROVE  /\ Aloft(h) /\ SameGuns(g, h) /\ h.shots = g.shots
         /\ \/ Calm(g, h)
            \/ i \in DOMAIN g.shots /\ OneBack(g, h, Opponent(g.shots[i].owner))
         /\ Spent(g) => h = g
<1>1. SUFFICES /\ Sound(h) /\ Spared(g, h) /\ SameShots(g, h)
               /\ \/ Calm(g, h)
                  \/ i \in DOMAIN g.shots /\ OneBack(g, h, Opponent(g.shots[i].owner))
  <2>1. Spent(g) => h = g
    BY DEF Spent, HitBy
  <2> QED BY <2>1 DEF Aloft, SameGuns, SameShots, OneShotEach
<1>2. CASE i \notin DOMAIN g.shots \/ Target(g.shots[i]) = <<>>
  <2>1. h = g
    BY <1>2 DEF HitBy
  <2> QED BY <2>1, SparedSame DEF Aloft, SameShots
<1>3. CASE ~(i \notin DOMAIN g.shots \/ Target(g.shots[i]) = <<>>)
  <2>1. g.shots[i] \in Shot
    BY <1>3, ShotsOfGame DEF Aloft
  <2>2. PICK c \in Cells : Target(g.shots[i]) = <<c>>
    BY <1>3, <2>1 DEF Target, Shot
  <2>3. PICK enemy \in Players : enemy = Opponent(g.shots[i].owner)
    BY <2>1, TankCells DEF Shot
  <2> DEFINE ct == g.grid[c]
  <2>4. CellTypeForBarrel[enemy] \in {"barrel1", "barrel2"}
    BY <2>3, TankCells
  <2>5. CASE ct = CellTypeForBarrel[enemy]
    <3>1. h = BarrelHit(g, enemy, c)
      BY <1>3, <2>2, <2>3, <2>4, <2>5 DEF HitBy
    <3>2. Sound(h) /\ Spared(g, h) /\ SameShots(g, h) /\ (Home(h) \/ OneBack(g, h, enemy))
      <4>1. Sound(g)
        BY DEF Aloft
      <4> QED BY <3>1, <4>1, BarrelHitSound
    <3> QED BY <1>3, <2>3, <3>2 DEF Calm
  <2>6. CASE ct = "tank1"
    <3>1. h = TankHit(g, 1, c)
      BY <1>3, <2>2, <2>3, <2>4, <2>6 DEF HitBy
    <3>2. 1 \in Players
      BY DEF Players
    <3>3. Sound(h) /\ Spared(g, h) /\ SameShots(g, h) /\ Home(h)
      BY <3>1, <3>2, TankHitSound DEF Aloft
    <3> QED BY <3>3 DEF Calm
  <2>7. CASE ct = "tank2"
    <3>1. h = TankHit(g, 2, c)
      BY <1>3, <2>2, <2>3, <2>4, <2>7 DEF HitBy
    <3>2. 2 \in Players
      BY DEF Players
    <3>3. Sound(h) /\ Spared(g, h) /\ SameShots(g, h) /\ Home(h)
      BY <3>1, <3>2, TankHitSound DEF Aloft
    <3> QED BY <3>3 DEF Calm
  <2>8. CASE ct = "mine" /\ MinesAt(g, c) # {}
    <3>1. PICK k : k = Detonated(g, c)
      OBVIOUS
    <3>2. h = ExplodeMine(k, c, 2)
      BY <1>3, <2>2, <2>3, <2>4, <2>8, <3>1 DEF HitBy
    <3>3. Sound(k) /\ Spared(g, k) /\ SameShots(g, k) /\ Calm(g, k)
      BY <2>8, <3>1, DetonatedSound DEF Aloft
    <3>4. k.grid[c] = "empty"
      BY <3>1 DEF Detonated, Aloft, Sound, Game
    <3>5. Sound(h) /\ Spared(k, h) /\ SameShots(k, h) /\ Calm(k, h)
      BY <3>2, <3>3, <3>4, ExplodeMineSound
    <3>6. Spared(g, h) /\ Calm(g, h)
      BY <3>3, <3>5, SparedAgain, CalmAgain
    <3> QED BY <3>3, <3>5, <3>6 DEF SameShots
  <2>9. CASE /\ ct # CellTypeForBarrel[enemy] /\ ct # "tank1" /\ ct # "tank2"
             /\ ~(ct = "mine" /\ MinesAt(g, c) # {})
    <3>1. h = g
      BY <1>3, <2>2, <2>3, <2>9 DEF HitBy
    <3> QED BY <3>1, SparedSame DEF Aloft, SameShots
  <2> HIDE DEF ct
  <2> QED BY <2>5, <2>6, <2>7, <2>8, <2>9
<1> QED BY <1>2, <1>3

(* Dropping shots keeps the list one of distinct owners.                   *)
Distinct(s) == s \in Seq(Shot) /\ \A i, j \in DOMAIN s : i # j => s[i].owner # s[j].owner

LEMMA DropOK ==
  ASSUME NEW s, Distinct(s), NEW i \in Nat
  PROVE  /\ Distinct(Drop(s, i))
         /\ i \in DOMAIN s /\ ~s[i].live =>
              /\ Len(Drop(s, i)) = Len(s) - 1
              /\ \A k \in 1 .. Len(s) - 1 : Drop(s, i)[k] = IF k < i THEN s[k] ELSE s[k + 1]
         /\ ~(i \in DOMAIN s /\ ~s[i].live) => Drop(s, i) = s
<1>1. PICK n \in Nat : n = Len(s) /\ DOMAIN s = 1 .. n /\ s \in Seq(Shot)
  BY DEF Distinct
<1>2. CASE i \in DOMAIN s /\ ~s[i].live
  <2>1. PICK t : t = RemoveAt(s, i)
    OBVIOUS
  <2>2. /\ t \in Seq(Shot) /\ Len(t) = Len(s) - 1
        /\ \A j \in 1 .. Len(s) - 1 : t[j] = IF j < i THEN s[j] ELSE s[j + 1]
    BY <1>1, <1>2, <2>1, RemoveAtOK
  <2>3. Drop(s, i) = t
    BY <1>2, <2>1 DEF Drop
  <2>4. DOMAIN t = 1 .. n - 1 /\ i \in 1 .. n
    BY <1>1, <1>2, <2>2
  <2>5. ASSUME NEW j \in DOMAIN t, NEW k \in DOMAIN t, j # k
        PROVE  t[j].owner # t[k].owner
    <3> DEFINE at(m) == IF m < i THEN m ELSE m + 1
    <3>1. j \in 1 .. n - 1 /\ k \in 1 .. n - 1
      BY <2>4
    <3>2. t[j] = s[at(j)] /\ t[k] = s[at(k)]
      BY <1>1, <2>2, <3>1
    <3>3. at(j) \in DOMAIN s /\ at(k) \in DOMAIN s /\ at(j) # at(k)
      BY <1>1, <2>4, <2>5, <3>1
    <3> HIDE DEF at
    <3> QED BY <3>2, <3>3 DEF Distinct
  <2> QED BY <1>2, <2>2, <2>3, <2>5 DEF Distinct
<1>3. CASE ~(i \in DOMAIN s /\ ~s[i].live)
  <2>1. Drop(s, i) = s
    BY <1>3 DEF Drop
  <2> QED BY <1>3, <2>1
<1> QED BY <1>2, <1>3

\* Every shot that has ended leaves the list, and the shots that are left are those
\* that still fly (the filter at the end of updateShots).
LEMMA KeptOK ==
  ASSUME NEW shots, Distinct(shots), NEW s, s = Kept(shots)
  PROVE  /\ Distinct(s)
         /\ \A k \in DOMAIN s : \E j \in DOMAIN shots :
              shots[j].live /\ s[k] = [shots[j] EXCEPT !.from = shots[j].at]
<1>1. PICK a : a = Drop(shots, 2)
  OBVIOUS
<1>2. PICK b : b = Drop(a, 1)
  OBVIOUS
<1>3. Len(shots) \in 0 .. 2 /\ shots \in Seq(Shot) /\ DOMAIN shots = 1 .. Len(shots)
  BY TwoShots DEF Distinct
<1>4. Distinct(a) /\ a \in Seq(Shot) /\ DOMAIN a = 1 .. Len(a) /\ Len(a) \in Nat
  <2>1. Distinct(a)
    BY <1>1, DropOK
  <2>2. a \in Seq(Shot)
    BY <2>1 DEF Distinct
  <2> QED BY <2>1, <2>2
<1>5. Len(a) \in 0 .. 2 /\ \A k \in DOMAIN a : /\ k \in DOMAIN shots /\ a[k] = shots[k]
                                               /\ k = 2 => a[k].live
  <2>1. CASE 2 \in DOMAIN shots /\ ~shots[2].live
    <3>1. Len(shots) = 2
      BY <1>3, <2>1
    <3>2. Len(a) = Len(shots) - 1
        /\ \A k \in 1 .. Len(shots) - 1 : a[k] = IF k < 2 THEN shots[k] ELSE shots[k + 1]
      BY <1>1, <2>1, DropOK
    <3>3. Len(a) = 1 /\ a[1] = shots[1] /\ DOMAIN a = {1} /\ 1 \in DOMAIN shots
      BY <1>3, <1>4, <3>1, <3>2
    <3> QED BY <3>3
  <2>2. CASE ~(2 \in DOMAIN shots /\ ~shots[2].live)
    <3>1. a = shots
      BY <1>1, <2>2, DropOK
    <3> QED BY <1>3, <2>2, <3>1
  <2> QED BY <2>1, <2>2
<1>6. Distinct(b) /\ b \in Seq(Shot) /\ DOMAIN b = 1 .. Len(b) /\ Len(b) \in Nat
  <2>1. Distinct(b)
    BY <1>2, <1>4, DropOK
  <2>2. b \in Seq(Shot)
    BY <2>1 DEF Distinct
  <2> QED BY <2>1, <2>2
<1>7. \A k \in DOMAIN b : \E j \in DOMAIN shots : shots[j].live /\ b[k] = shots[j]
  <2>1. CASE 1 \in DOMAIN a /\ ~a[1].live
    <3>1. Len(b) = Len(a) - 1 /\ \A k \in 1 .. Len(a) - 1 : b[k] = IF k < 1 THEN a[k] ELSE a[k + 1]
      BY <1>2, <1>4, <2>1, DropOK
    <3>2. ASSUME NEW k \in DOMAIN b PROVE k = 1 /\ 2 \in DOMAIN a /\ b[k] = a[2]
      <4>1. Len(a) = 2 /\ k = 1
        BY <1>4, <1>5, <1>6, <3>1, <3>2
      <4> QED BY <1>4, <3>1, <4>1
    <3> QED BY <1>5, <3>2
  <2>2. CASE ~(1 \in DOMAIN a /\ ~a[1].live)
    <3>1. b = a
      BY <1>2, <1>4, <2>2, DropOK
    <3>2. \A k \in DOMAIN a : k = 1 \/ k = 2
      BY <1>4, <1>5
    <3> QED BY <1>5, <2>2, <3>1, <3>2
  <2> QED BY <2>1, <2>2
<1>8. s = [k \in DOMAIN b |-> [b[k] EXCEPT !.from = b[k].at]]
  BY <1>1, <1>2 DEF Kept
<1>9. \A k \in DOMAIN b : /\ b[k] \in Shot /\ s[k] \in Shot /\ s[k].owner = b[k].owner
  <2> TAKE k \in DOMAIN b
  <2>1. b[k] \in Shot
    BY <1>6
  <2>2. [b[k] EXCEPT !.from = b[k].at] \in Shot /\ [b[k] EXCEPT !.from = b[k].at].owner = b[k].owner
    BY <2>1 DEF Shot
  <2> QED BY <1>8, <2>1, <2>2
<1>10. DOMAIN s = DOMAIN b /\ s \in Seq(Shot)
  <2>1. s \in [1 .. Len(b) -> Shot]
    BY <1>6, <1>8, <1>9
  <2> QED BY <1>6, <1>8, <2>1
<1>11. Distinct(s)
  BY <1>6, <1>9, <1>10 DEF Distinct
<1>12. ASSUME NEW k \in DOMAIN s
       PROVE  \E j \in DOMAIN shots : shots[j].live /\ s[k] = [shots[j] EXCEPT !.from = shots[j].at]
  <2>1. PICK j \in DOMAIN shots : shots[j].live /\ b[k] = shots[j]
    BY <1>7, <1>10
  <2> QED BY <1>8, <1>10, <2>1
<1> QED BY <1>11, <1>12

LEMMA HitShotsOK ==
  ASSUME NEW g, Aloft(g), NEW h, h = HitShots(g)
  PROVE  /\ Sound(h) /\ OneShotEach(h) /\ Flying(h) /\ SameGuns(g, h)
         /\ \A k \in DOMAIN h.shots : \E j \in DOMAIN g.shots :
              g.shots[j].live /\ h.shots[k] = [g.shots[j] EXCEPT !.from = g.shots[j].at]
         /\ Moved(g, h) /\ (Spent(g) => Quiet(g, h))
<1> DEFINE enemy(i) == Opponent(g.shots[i].owner)
<1>1. PICK a : a = HitBy(g, 1)
  OBVIOUS
<1>2. /\ Aloft(a) /\ SameGuns(g, a) /\ a.shots = g.shots
      /\ Calm(g, a) \/ (1 \in DOMAIN g.shots /\ OneBack(g, a, enemy(1)))
      /\ Spent(g) => a = g
  BY <1>1, HitByOK
<1>3. PICK b : b = HitBy(a, 2)
  OBVIOUS
<1>4. /\ Aloft(b) /\ SameGuns(a, b) /\ b.shots = a.shots
      /\ Calm(a, b) \/ (2 \in DOMAIN g.shots /\ OneBack(a, b, enemy(2)))
      /\ Spent(a) => b = a
  <2>1. /\ Aloft(b) /\ SameGuns(a, b) /\ b.shots = a.shots
        /\ Calm(a, b) \/ (2 \in DOMAIN a.shots /\ OneBack(a, b, Opponent(a.shots[2].owner)))
        /\ Spent(a) => b = a
    BY <1>2, <1>3, HitByOK
  <2> QED BY <1>2, <2>1
<1>5. PICK s : s = Kept(b.shots)
  OBVIOUS
<1>6. Sound(b) /\ Distinct(b.shots)
  <2>1. Sound(b) /\ OneShotEach(b)
    BY <1>4 DEF Aloft
  <2>2. b.shots \in Seq(Shot)
    BY <2>1, ShotsOfGame
  <2> QED BY <2>1, <2>2 DEF OneShotEach, Distinct
<1>7. /\ Distinct(s)
      /\ \A k \in DOMAIN s : \E j \in DOMAIN b.shots :
              b.shots[j].live /\ s[k] = [b.shots[j] EXCEPT !.from = b.shots[j].at]
  BY <1>5, <1>6, KeptOK
<1>8. h = [b EXCEPT !.shots = s]
  BY <1>1, <1>3, <1>5 DEF HitShots
<1>9. s \in Seq(Shot)
  BY <1>7 DEF Distinct
<1>10. Sound(h) /\ SameGuns(b, h) /\ h.shots = s /\ Calm(b, h)
  BY <1>6, <1>8, <1>9, ReshotSound
<1>11. SameGuns(g, h)
  <2>1. SameGuns(g, b)
    BY <1>2, <1>4, SameGunsAgain
  <2> QED BY <1>10, <2>1, SameGunsAgain
<1>12. OneShotEach(h)
  BY <1>7, <1>10 DEF Distinct, OneShotEach
<1>13. \A k \in DOMAIN h.shots : \E j \in DOMAIN g.shots :
              g.shots[j].live /\ h.shots[k] = [g.shots[j] EXCEPT !.from = g.shots[j].at]
  BY <1>2, <1>4, <1>7, <1>10
<1>14. Flying(h)
  <2> SUFFICES ASSUME NEW k \in DOMAIN h.shots
               PROVE  h.shots[k].live /\ h.shots[k].hit = <<>> /\ h.shots[k].from = h.shots[k].at
    BY DEF Flying
  <2>1. PICK j \in DOMAIN g.shots :
          g.shots[j].live /\ h.shots[k] = [g.shots[j] EXCEPT !.from = g.shots[j].at]
    BY <1>13
  <2>2. g.shots[j] \in Shot /\ g.shots[j].hit = <<>>
    BY <2>1, ShotsOfGame DEF Aloft
  <2> QED BY <2>1, <2>2 DEF Shot
<1>15. Moved(g, b)
  <2>1. \A i \in DOMAIN g.shots : enemy(i) \in Players
    <3>1. \A i \in DOMAIN g.shots : g.shots[i].owner \in Players
      BY ShotsOfGame DEF Aloft, Shot
    <3> QED BY <3>1 DEF Players, Opponent
  <2>2. CASE Calm(g, a)
    <3>1. Moved(a, b)
      BY <1>4, <2>1 DEF Moved, Quiet, Calm
    <3> QED BY <2>2, <3>1, CalmMoved
  <2>3. CASE 1 \in DOMAIN g.shots /\ OneBack(g, a, enemy(1)) /\ Calm(a, b)
    <3>1. Moved(g, a) /\ Quiet(a, b)
      BY <2>1, <2>3 DEF Moved, Quiet, Calm
    <3> QED BY <3>1, QuietAgain
  <2>4. CASE /\ 1 \in DOMAIN g.shots /\ OneBack(g, a, enemy(1))
             /\ 2 \in DOMAIN g.shots /\ OneBack(a, b, enemy(2))
    <3>1. enemy(1) # enemy(2) /\ \A q \in Players : q \in {enemy(1), enemy(2)}
      <4>1. g.shots[1].owner \in Players /\ g.shots[2].owner \in Players
        BY <2>4, ShotsOfGame DEF Aloft, Shot
      <4>2. g.shots[1].owner # g.shots[2].owner
        BY <2>4 DEF Aloft, OneShotEach
      <4> QED BY <4>1, <4>2 DEF Players, Opponent
    <3>2. Restored(a, enemy(1)) /\ Restored(b, enemy(2)) /\ Untouched(a, b, enemy(1))
      BY <2>1, <2>4, <3>1 DEF OneBack
    <3>3. Restored(b, enemy(1))
      BY <3>2 DEF Untouched, SameTank, Restored
    <3> HIDE DEF enemy
    <3> QED BY <3>1, <3>2, <3>3 DEF Moved, Quiet, Home
  <2> QED BY <1>2, <1>4, <2>2, <2>3, <2>4
<1>16. Moved(g, h) /\ (Spent(g) => Quiet(g, h))
  <2>1. Quiet(b, h)
    BY <1>10 DEF Quiet, Calm
  <2>2. Spent(g) => Quiet(g, h)
    BY <1>2, <1>4, <2>1
  <2> QED BY <1>15, <2>1, <2>2, QuietAgain
<1> QED BY <1>10, <1>11, <1>12, <1>13, <1>14, <1>16

(* A player without a life left has ammunition: a defeat restores it, and  *)
(* a key spends one shot of it at most.                                    *)
DeadLoaded(g) == \A p \in Players : g.lives[p] = 0 => g.ammo[p] > 0

LEMMA SparedDead ==
  ASSUME NEW g, NEW h, Spared(g, h), DeadLoaded(g)
  PROVE  DeadLoaded(h)
BY BoardAssumption DEF Spared, Untouched, SameTank, Restored, DeadLoaded

\* The penalty for the last shot is paid once, when that shot has ended, and the
\* player who pays is loaded again; the other player's is left waiting
\* (updateShots, EmptyGunPending).
LEMMA EmptyGunOK ==
  ASSUME NEW g, Sound(g), Loaded(g), DeadLoaded(g), NEW p \in Players,
         NEW h, h = EmptyGun(g, p)
  PROVE  /\ Sound(h) /\ Loaded(h) /\ DeadLoaded(h) /\ Spared(g, h) /\ h.shots = g.shots
         /\ h.emptyGun[p] => ShotOf(h, p) # {}
         /\ \A q \in Players : q # p => h.emptyGun[q] = g.emptyGun[q]
         /\ Quiet(g, h)
<1>1. CASE ~(g.emptyGun[p] /\ ShotOf(g, p) = {})
  <2>1. h = g
    BY <1>1 DEF EmptyGun
  <2>2. Spared(g, h) /\ Quiet(g, h)
    BY <2>1, SparedSame DEF Quiet
  <2> QED BY <1>1, <2>1, <2>2
<1>2. CASE g.emptyGun[p] /\ ShotOf(g, p) = {}
  <2>1. PICK paid : paid = [g EXCEPT !.emptyGun[p] = FALSE]
    OBVIOUS
  <2>2. PICK gun : gun = [g.emptyGun EXCEPT ![p] = FALSE]
    OBVIOUS
  <2>3. gun \in [Players -> BOOLEAN] /\ ~gun[p] /\ \A q \in Players : q # p
      => gun[q] = g.emptyGun[q]
    BY <2>2 DEF Sound, Game
  <2>4. paid = [g EXCEPT !.emptyGun = gun]
    BY <2>1, <2>2
  <2>5. /\ paid \in Game /\ paid.grid = g.grid /\ paid.pos = g.pos /\ paid.dir = g.dir
        /\ paid.ammo = g.ammo /\ paid.stock = g.stock /\ paid.lives = g.lives
        /\ paid.winner = g.winner /\ paid.mines = g.mines /\ paid.shots = g.shots
        /\ paid.emptyGun = gun
    BY <2>3, <2>4 DEF Sound, Game
  <2>6. Sound(paid)
    <3>1. Drawn(paid)
      BY <2>5, DrawnSame DEF Sound
    <3> QED BY <2>5, <3>1 DEF Sound, Settled, MinesShown
  <2>7. Spared(g, paid) /\ Quiet(g, paid)
    BY <2>5, SparedSame DEF Quiet
  <2>8. CASE IsAlive(g, p)
    <3>1. h = TankHit(paid, p, g.pos[p])
      BY <1>2, <2>1, <2>8 DEF EmptyGun
    <3>2. g.pos[p] \in Cells
      BY BarrelOnBoard DEF Sound
    <3>3. /\ Sound(h) /\ Spared(paid, h) /\ SameShots(paid, h)
          /\ \A q \in Players : Restored(h, q)
      BY <2>6, <3>1, <3>2, TankHitSound DEF Home
    <3>4. Spared(g, h)
      BY <2>7, <3>3, SparedAgain
    <3>5. Loaded(h)
      BY <3>3, FullIsLoaded DEF Restored, Loaded
    <3>6. h.shots = g.shots /\ h.emptyGun = gun
      BY <2>5, <3>3 DEF SameShots
    <3>7. Quiet(g, h)
      BY <3>3 DEF Quiet, Home
    <3> QED BY <2>3, <3>3, <3>4, <3>5, <3>6, <3>7, SparedDead
  <2>9. CASE ~IsAlive(g, p)
    <3>1. h = paid
      BY <1>2, <2>1, <2>9 DEF EmptyGun
    <3>2. g.lives[p] = 0
      BY <2>9, BoardAssumption DEF IsAlive, Sound, Game
    <3>3. h.ammo[p] # 0
      <4>1. g.ammo[p] > 0
        BY <3>2 DEF DeadLoaded
      <4> QED BY <2>5, <3>1, <4>1
    <3>4. Loaded(h)
      BY <2>3, <2>5, <3>1, <3>3 DEF Loaded
    <3> QED BY <2>3, <2>5, <2>6, <2>7, <3>1, <3>4, SparedDead
  <2> QED BY <2>8, <2>9
<1> QED BY <1>1, <1>2

LEMMA CrossedEitherWay ==
  ASSUME NEW a \in Shot, NEW b \in Shot, ShotsCrossedHeadOn(b, a)
  PROVE  ShotsCrossedHeadOn(a, b)
<1>1. /\ a.from[1] \in Int /\ a.from[2] \in Int /\ b.from[1] \in Int /\ b.from[2] \in Int
      /\ a.at[1] \in Int /\ a.at[2] \in Int /\ b.at[1] \in Int /\ b.at[2] \in Int
  <2>1. a.from \in Cells /\ b.from \in Cells /\ a.at \in Cells /\ b.at \in Cells
    BY DEF Shot
  <2> QED BY <2>1, BoardAssumption DEF Cells
<1>2. ASSUME NEW forth, NEW back, Swapped(b, a, 1, forth, back)
      PROVE  Swapped(a, b, 1, forth, back)
  BY <1>1, <1>2 DEF Swapped
<1>3. ASSUME NEW forth, NEW back, Swapped(b, a, 2, forth, back)
      PROVE  Swapped(a, b, 2, forth, back)
  BY <1>1, <1>3 DEF Swapped
<1> QED BY <1>2, <1>3 DEF ShotsCrossedHeadOn

(* Shots that face each other, step, and neither meet nor cross have not   *)
(* changed sides.                                                          *)
LEMMA NoCross ==
  ASSUME NEW s \in Shot, NEW t \in Shot, NEW a \in Shot, NEW b \in Shot, NEW axis \in {1, 2},
         s.from = s.at, t.from = t.at, Flown(s, a), Flown(t, b), a.live, b.live,
         Facing(s, t, axis), s.at[axis] < t.at[axis],
         a.at # b.at, ~ShotsCrossedHeadOn(a, b)
  PROVE  a.at[axis] < b.at[axis]
<1>1. /\ a.dir = s.dir /\ a.from = s.at /\ a.at \in {s.at, Ahead(s.at, s.dir)}
      /\ b.dir = t.dir /\ b.from = t.at /\ b.at \in {t.at, Ahead(t.at, t.dir)}
  BY DEF Flown
<1>2. PICK x1 \in Int, y1 \in Int : s.at = <<x1, y1>>
  <2>1. s.at \in Cells
    BY DEF Shot
  <2> QED BY <2>1, BoardAssumption DEF Cells
<1>3. PICK x2 \in Int, y2 \in Int : t.at = <<x2, y2>>
  <2>1. t.at \in Cells
    BY DEF Shot
  <2> QED BY <2>1, BoardAssumption DEF Cells
<1>4. CASE axis = 1
  <2>1. s.dir = "right" /\ t.dir = "left" /\ y1 = y2 /\ x1 < x2
    BY <1>2, <1>3, <1>4 DEF Facing
  <2>2. Ahead(s.at, "right") = <<x1 + 1, y1>> /\ Ahead(t.at, "left") = <<x2 - 1, y2>>
    BY <1>2, <1>3 DEF Ahead, Vector
  <2>3. PICK u \in {x1, x1 + 1}, v \in {x2, x2 - 1} : a.at = <<u, y1>> /\ b.at = <<v, y1>>
    BY <1>1, <1>2, <1>3, <2>1, <2>2
  <2>4. u # v
    BY <2>3
  <2>5. ASSUME u > v PROVE FALSE
    <3>1. /\ a.from[2] = b.from[2] /\ a.at[2] = b.at[2] /\ a.from[1] < b.from[1]
                 /\ a.at[1] > b.at[1]
          /\ a.from[1] # b.from[1]
      BY <1>1, <1>2, <1>3, <2>1, <2>3, <2>5
    <3>2. Swapped(a, b, 1, "right", "left")
      BY <1>1, <2>1, <3>1 DEF Swapped
    <3> QED BY <3>2 DEF ShotsCrossedHeadOn
  <2>6. u < v
    BY <2>3, <2>4, <2>5
  <2> QED BY <1>4, <2>3, <2>6
<1>5. CASE axis = 2
  <2>1. s.dir = "down" /\ t.dir = "up" /\ x1 = x2 /\ y1 < y2
    BY <1>2, <1>3, <1>5 DEF Facing
  <2>2. Ahead(s.at, "down") = <<x1, y1 + 1>> /\ Ahead(t.at, "up") = <<x2, y2 - 1>>
    BY <1>2, <1>3 DEF Ahead, Vector
  <2>3. PICK u \in {y1, y1 + 1}, v \in {y2, y2 - 1} : a.at = <<x1, u>> /\ b.at = <<x1, v>>
    BY <1>1, <1>2, <1>3, <2>1, <2>2
  <2>4. u # v
    BY <2>3
  <2>5. ASSUME u > v PROVE FALSE
    <3>1. /\ a.from[1] = b.from[1] /\ a.at[1] = b.at[1] /\ a.from[2] < b.from[2]
                 /\ a.at[2] > b.at[2]
          /\ a.from[2] # b.from[2]
      BY <1>1, <1>2, <1>3, <2>1, <2>3, <2>5
    <3>2. Swapped(a, b, 2, "down", "up")
      BY <1>1, <2>1, <3>1 DEF Swapped
    <3> QED BY <3>2 DEF ShotsCrossedHeadOn
  <2>6. u < v
    BY <2>3, <2>4, <2>5
  <2> QED BY <1>5, <2>3, <2>6
<1> QED BY <1>4, <1>5

(* The shots of two moments of a game: no pair that faced each other has   *)
(* changed sides.                                                          *)
InOrder(g, h) ==
  \A i, j \in DOMAIN g.shots, k, l \in DOMAIN h.shots, axis \in {1, 2} :
    /\ h.shots[k].owner = g.shots[i].owner /\ h.shots[l].owner = g.shots[j].owner
    /\ Facing(g.shots[i], g.shots[j], axis)
    /\ g.shots[i].at[axis] < g.shots[j].at[axis]
    => h.shots[k].at[axis] < h.shots[l].at[axis]

LEMMA FlightInOrder ==
  ASSUME NEW g, Ready(g), NEW e, e = Elapse(g), NEW m, m = MoveShots(e), NEW x, x = MeetShots(m),
         NEW h, h = HitShots(x)
  PROVE  InOrder(g, h)
<1>1. /\ Ready(e) /\ DOMAIN e.shots = DOMAIN g.shots
      /\ \A i \in DOMAIN g.shots : e.shots[i] = ShotWaits(g.shots[i])
  BY ElapseOK
<1>2. Aloft(e)
  BY <1>1 DEF Ready, Aloft, Flying
<1>3. /\ Aloft(m) /\ DOMAIN m.shots = DOMAIN e.shots
      /\ \A i \in DOMAIN e.shots : Flown(e.shots[i], m.shots[i])
  BY <1>2, MoveShotsOK
<1>4. /\ Aloft(x) /\ DOMAIN x.shots = DOMAIN m.shots
      /\ \/ x.shots = m.shots /\
              ~(/\ Len(m.shots) = 2 /\ m.shots[1].live /\ m.shots[2].live
                /\ m.shots[1].at = m.shots[2].at \/ ShotsCrossedHeadOn(m.shots[1], m.shots[2]))
         \/ \A j \in DOMAIN x.shots : ~x.shots[j].live
  BY <1>3, MeetShotsOK
<1>5. \A k \in DOMAIN h.shots : \E j \in DOMAIN x.shots :
        x.shots[j].live /\ h.shots[k] = [x.shots[j] EXCEPT !.from = x.shots[j].at]
  BY <1>4, HitShotsOK
<1>6. \A i \in DOMAIN g.shots : g.shots[i] \in Shot
  BY ShotsOfGame DEF Ready
<1>7. \A i \in DOMAIN m.shots : m.shots[i] \in Shot
  BY <1>3, ShotsOfGame DEF Aloft
<1>8. \A i \in DOMAIN g.shots :
        /\ e.shots[i] \in Shot /\ e.shots[i].at = g.shots[i].at /\ e.shots[i].dir = g.shots[i].dir
        /\ e.shots[i].owner = g.shots[i].owner /\ e.shots[i].from = e.shots[i].at
  <2> TAKE i \in DOMAIN g.shots
  <2>1. e.shots[i] \in Shot /\ e.shots[i].from = e.shots[i].at
    BY <1>1, ShotsOfGame DEF Ready, Flying
  <2> QED BY <1>1, <1>6, <2>1 DEF Shot, ShotWaits
<1> SUFFICES ASSUME NEW i \in DOMAIN g.shots, NEW j \in DOMAIN g.shots,
                    NEW k \in DOMAIN h.shots, NEW l \in DOMAIN h.shots, NEW axis \in {1, 2},
                    h.shots[k].owner = g.shots[i].owner, h.shots[l].owner = g.shots[j].owner,
                    Facing(g.shots[i], g.shots[j], axis),
                    g.shots[i].at[axis] < g.shots[j].at[axis]
             PROVE  h.shots[k].at[axis] < h.shots[l].at[axis]
  BY DEF InOrder
<1>9. \A n \in DOMAIN h.shots, q \in DOMAIN g.shots :
        h.shots[n].owner = g.shots[q].owner =>
          /\ x.shots = m.shots /\ q \in DOMAIN m.shots
          /\ m.shots[q].live /\ h.shots[n].at = m.shots[q].at
  <2> SUFFICES ASSUME NEW n \in DOMAIN h.shots, NEW q \in DOMAIN g.shots,
                      h.shots[n].owner = g.shots[q].owner
               PROVE  /\ x.shots = m.shots /\ q \in DOMAIN m.shots
                      /\ m.shots[q].live /\ h.shots[n].at = m.shots[q].at
    OBVIOUS
  <2>1. PICK y \in DOMAIN x.shots :
          x.shots[y].live /\ h.shots[n] = [x.shots[y] EXCEPT !.from = x.shots[y].at]
    BY <1>5
  <2>2. x.shots = m.shots /\ y \in DOMAIN m.shots /\ y \in DOMAIN g.shots
    BY <1>1, <1>3, <1>4, <2>1
  <2>3. m.shots[y] \in Shot
    BY <1>7, <2>2
  <2>3a. PICK s \in Shot : s = m.shots[y] /\ h.shots[n] = [s EXCEPT !.from = s.at]
    BY <2>1, <2>2, <2>3
  <2>3b. h.shots[n].owner = s.owner /\ h.shots[n].at = s.at
    BY <2>3a DEF Shot
  <2>4. h.shots[n].owner = m.shots[y].owner /\ h.shots[n].at = m.shots[y].at
    BY <2>3a, <2>3b
  <2>5. m.shots[y].owner = g.shots[y].owner
    <3>1. Flown(e.shots[y], m.shots[y]) /\ e.shots[y].owner = g.shots[y].owner
      BY <1>1, <1>3, <1>8, <2>2
    <3> QED BY <3>1 DEF Flown
  <2>6. y = q
    <3>1. g.shots[y].owner = g.shots[q].owner
      BY <2>4, <2>5
    <3>2. OneShotEach(g)
      BY DEF Ready
    <3> QED BY <2>2, <3>1, <3>2 DEF OneShotEach
  <2> QED BY <2>1, <2>2, <2>4, <2>6
<1>10. /\ x.shots = m.shots /\ i \in DOMAIN m.shots /\ j \in DOMAIN m.shots
       /\ m.shots[i].live /\ m.shots[j].live
       /\ h.shots[k].at = m.shots[i].at /\ h.shots[l].at = m.shots[j].at
  BY <1>9
<1>11. i # j
  BY DEF Facing
<1>12. DOMAIN m.shots = {1, 2} /\ Len(m.shots) = 2
  <2>1. m.shots \in Seq(Shot) /\ DOMAIN m.shots = 1 .. Len(m.shots)
    BY <1>3, ShotsOfGame DEF Aloft
  <2>2. Len(m.shots) \in 0 .. 2
    BY <1>3, <2>1, TwoShots DEF Aloft, OneShotEach
  <2>3. PICK n \in 0 .. 2 : n = Len(m.shots) /\ DOMAIN m.shots = 1 .. n
    BY <2>1, <2>2
  <2>4. i \in 1 .. n /\ j \in 1 .. n
    BY <1>10, <2>3
  <2>5. n = 2
    BY <1>11, <2>4
  <2>6. 1 .. 2 = {1, 2}
    OBVIOUS
  <2> QED BY <2>3, <2>5, <2>6
<1> DEFINE a == m.shots[i]
         b == m.shots[j]
<1>14. \/ \A n \in DOMAIN x.shots : ~x.shots[n].live
       \/ m.shots[1].at # m.shots[2].at /\ ~ShotsCrossedHeadOn(m.shots[1], m.shots[2])
  BY <1>4, <1>10, <1>11, <1>12
<1>15. m.shots[1].at # m.shots[2].at /\ ~ShotsCrossedHeadOn(m.shots[1], m.shots[2])
  BY <1>4, <1>10, <1>14
<1>16. a \in Shot /\ b \in Shot /\ a.at # b.at /\ ~ShotsCrossedHeadOn(a, b)
  <2>1. CASE i = 1 /\ j = 2
    BY <1>7, <1>10, <1>15, <2>1
  <2>2. CASE i = 2 /\ j = 1
    BY <1>7, <1>10, <1>15, <2>2, CrossedEitherWay
  <2> QED BY <1>10, <1>11, <1>12, <2>1, <2>2
<1>17. /\ Flown(e.shots[i], a) /\ Flown(e.shots[j], b)
       /\ e.shots[i] \in Shot /\ e.shots[j] \in Shot
       /\ e.shots[i].from = e.shots[i].at /\ e.shots[j].from = e.shots[j].at
  BY <1>1, <1>3, <1>8
<1>18. Facing(e.shots[i], e.shots[j], axis) /\ e.shots[i].at[axis] < e.shots[j].at[axis]
  BY <1>8 DEF Facing
<1>19. a.at[axis] < b.at[axis]
  <2>1. a.live /\ b.live
    BY <1>10
  <2> HIDE DEF a, b
  <2>2. PICK s \in Shot, t \in Shot : s = e.shots[i] /\ t = e.shots[j]
    BY <1>17
  <2>3. /\ s.from = s.at /\ t.from = t.at /\ Flown(s, a) /\ Flown(t, b)
        /\ Facing(s, t, axis) /\ s.at[axis] < t.at[axis]
    BY <1>17, <1>18, <2>2
  <2> QED BY <1>16, <2>1, <2>3, NoCross
<1> QED BY <1>10, <1>19

\* Whatever the shots do in an update, the game is ready for the next one
\* (updateShots).
LEMMA UpdateShotsOK ==
  ASSUME NEW g, Ready(g), DeadLoaded(g), NEW p \in Players,
         NEW h, h = UpdateShots(Elapse(g), p)
  PROVE  Ready(h) /\ Spared(g, h) /\ InOrder(g, h) /\ Moved(g, h)
<1>1. PICK e : e = Elapse(g)
  OBVIOUS
<1>2. PICK m : m = MoveShots(e)
  OBVIOUS
<1>3. PICK x : x = MeetShots(m)
  OBVIOUS
<1>4. PICK y : y = HitShots(x)
  OBVIOUS
<1>5. PICK z : z = EmptyGun(y, p)
  OBVIOUS
<1>6. PICK q : q = Opponent(p)
  OBVIOUS
<1>6a. q \in Players /\ q # p /\ \A r \in Players : r \in {p, q}
  BY <1>6 DEF Players, Opponent
<1>7. h = EmptyGun(z, q)
  BY <1>1, <1>2, <1>3, <1>4, <1>5, <1>6 DEF UpdateShots
<1>8. Ready(e) /\ SameGuns(g, e) /\ Calm(g, e)
  BY <1>1, ElapseOK
<1>9. Aloft(e)
  BY <1>8 DEF Ready, Aloft, Flying
<1>10. Aloft(m) /\ SameGuns(e, m) /\ Calm(e, m)
  BY <1>2, <1>9, MoveShotsOK
<1>11. Aloft(x) /\ SameGuns(m, x) /\ (x = m \/ (Quiet(m, x) /\ Spent(x)))
  BY <1>3, <1>10, MeetShotsOK
<1>12. /\ Sound(y) /\ OneShotEach(y) /\ Flying(y) /\ SameGuns(x, y)
       /\ Moved(x, y) /\ (Spent(x) => Quiet(x, y))
  BY <1>4, <1>11, HitShotsOK
<1>13. SameGuns(g, y)
  <2>1. SameGuns(g, m)
    BY <1>8, <1>10, SameGunsAgain
  <2>2. SameGuns(m, y)
    BY <1>11, <1>12, SameGunsAgain
  <2> QED BY <2>1, <2>2, SameGunsAgain
<1>14. Loaded(y) /\ DeadLoaded(y)
  <2>1. DeadLoaded(y)
    BY <1>13, SparedDead DEF SameGuns
  <2>2. Loaded(y)
    BY <1>13, FullIsLoaded DEF Ready, SameGuns, Spared, Untouched, SameTank, Restored, Loaded
  <2> QED BY <2>1, <2>2
<1>15. /\ Sound(z) /\ Loaded(z) /\ DeadLoaded(z) /\ Spared(y, z) /\ z.shots = y.shots
       /\ z.emptyGun[p] => ShotOf(z, p) # {}
       /\ Quiet(y, z)
  BY <1>5, <1>12, <1>14, EmptyGunOK
<1>16. /\ Sound(h) /\ Loaded(h) /\ DeadLoaded(h) /\ Spared(z, h) /\ h.shots = z.shots
       /\ h.emptyGun[q] => ShotOf(h, q) # {}
       /\ h.emptyGun[p] = z.emptyGun[p]
       /\ Quiet(z, h)
  BY <1>6a, <1>7, <1>15, EmptyGunOK
<1>17. Pending(h)
  <2>1. ShotOf(h, p) = ShotOf(z, p)
    BY <1>16 DEF ShotOf
  <2>2. h.emptyGun[p] => ShotOf(h, p) # {}
    BY <1>15, <1>16, <2>1
  <2> QED BY <1>6a, <1>16, <2>2 DEF Pending
<1>18. OneShotEach(h) /\ Flying(h)
  BY <1>12, <1>15, <1>16 DEF OneShotEach, Flying
<1>19. Spared(g, h)
  <2>1. Spared(g, z)
    BY <1>13, <1>15, SparedAgain DEF SameGuns
  <2> QED BY <1>16, <2>1, SparedAgain
<1>20. InOrder(g, h)
  <2>1. InOrder(g, y)
    BY <1>1, <1>2, <1>3, <1>4, FlightInOrder
  <2>2. h.shots = y.shots
    BY <1>15, <1>16
  <2> QED BY <2>1, <2>2 DEF InOrder
<1>21. Moved(g, h)
  <2>1. Calm(g, m)
    BY <1>8, <1>10, CalmAgain
  <2>2. CASE x = m
    <3>1. Moved(g, y)
      BY <1>12, <2>1, <2>2, CalmMoved
    <3>2. Moved(g, z)
      BY <1>15, <3>1, QuietAgain
    <3> QED BY <1>16, <3>2, QuietAgain
  <2>3. CASE Quiet(m, x) /\ Spent(x)
    <3>1. Quiet(g, m)
      BY <2>1 DEF Quiet, Calm
    <3>2. Quiet(g, x)
      BY <2>3, <3>1, QuietAgain
    <3>3. Quiet(g, y)
      BY <1>12, <2>3, <3>2, QuietAgain
    <3>4. Quiet(g, z)
      BY <1>15, <3>3, QuietAgain
    <3>5. Quiet(g, h)
      BY <1>16, <3>4, QuietAgain
    <3> QED BY <3>5 DEF Moved
  <2> QED BY <1>11, <2>2, <2>3
<1> QED BY <1>16, <1>17, <1>18, <1>19, <1>20, <1>21 DEF Ready

----------------------------------------------------------------------------
(* The mines' clocks *)

(* The mine at one place of the list is shown, hidden or armed: a cell it  *)
(* leaves shows no mine, and one that shows it shows a visible one.        *)
LEMMA UpdateMineOK ==
  ASSUME NEW g, Sound(g), NEW i \in DOMAIN g.mines, NEW h, h = UpdateMine(g, i)
  PROVE  /\ Sound(h) /\ Spared(g, h) /\ SameShots(g, h) /\ DOMAIN h.mines = DOMAIN g.mines
         /\ Unmoved(g, h)
         /\ \A j \in DOMAIN g.mines : j # i => h.mines[j] = g.mines[j]
         /\ IsArmed(h.mines[i]) => ~h.mines[i].visible
<1>1. /\ g \in Game /\ g.mines \in Seq(Mine) /\ g.grid \in [Cells -> CellType]
      /\ DOMAIN g.mines = 1 .. Len(g.mines) /\ Len(g.mines) \in Nat /\ g.mines[i] \in Mine
  BY DEF Sound, Game
<1> DEFINE m == g.mines[i]
           owned == g.pos[m.owner] = m.at
           seen == [m EXCEPT !.visible = @ \/ owned,
                             !.hideIn = IF owned THEN MineVisibleDuration ELSE @,
                             !.armIn = IF ~owned /\ @ = NotLeft THEN MineArmDelay ELSE @]
           hides == seen.visible /\ (IsArmed(seen) \/ seen.hideIn = 0)
           after == [seen EXCEPT !.visible = @ /\ ~hides]
           shown == IF owned /\ ~m.visible /\ g.grid[m.at] = "empty" THEN "mine" ELSE g.grid[m.at]
           cell == IF hides /\ shown = "mine" THEN "empty" ELSE shown
           mines == [g.mines EXCEPT ![i] = after]
           grid == [g.grid EXCEPT ![m.at] = cell]
<1>2. h = [g EXCEPT !.mines = mines, !.grid = grid]
  BY DEF UpdateMine
<1>3. MineArmDelay \in NotLeft .. MineArmDelay /\ MineVisibleDuration \in 0 .. MineVisibleDuration
  BY BoardAssumption DEF NotLeft
<1>4. /\ seen \in Mine /\ seen.at = m.at /\ seen.owner = m.owner
      /\ seen.visible = (m.visible \/ owned)
  BY <1>1, <1>3 DEF Mine
<1> HIDE DEF seen
<1>5. /\ after \in Mine /\ after.at = m.at /\ after.armIn = seen.armIn
      /\ after.visible = (seen.visible /\ ~hides)
  BY <1>4 DEF Mine
<1>6. m.at \in Cells /\ g.grid[m.at] \in CellType
  BY <1>1, InteriorInCells DEF Mine
<1>7. hides \in BOOLEAN /\ owned \in BOOLEAN
  OBVIOUS
<1>8. IsArmed(after) => ~after.visible
  BY <1>5 DEF IsArmed
<1> HIDE DEF after, hides
<1>9. /\ cell \in CellType
      /\ cell \in {"empty", "mine", g.grid[m.at]}
      /\ cell = "mine" => ~hides /\ (owned \/ g.grid[m.at] = "mine")
  BY <1>6 DEF CellType
<1> HIDE DEF cell, owned
<1>10. /\ mines \in Seq(Mine) /\ DOMAIN mines = DOMAIN g.mines /\ mines[i] = after
       /\ \A j \in DOMAIN g.mines : j # i => mines[j] = g.mines[j]
  <2>1. mines \in [1 .. Len(g.mines) -> Mine]
    BY <1>1, <1>5
  <2> QED BY <1>1, <2>1
<1>11. /\ grid \in [Cells -> CellType]
       /\ \A x \in Cells : grid[x] = IF x = m.at THEN cell ELSE g.grid[x]
  BY <1>1, <1>6, <1>9
<1> HIDE DEF mines, grid
<1>11a. g \in Game /\ mines \in Seq(Mine) /\ grid \in [Cells -> CellType]
  BY <1>1, <1>10, <1>11
<1>12. /\ h \in Game /\ h.grid = grid /\ h.mines = mines /\ h.pos = g.pos /\ h.dir = g.dir
       /\ h.ammo = g.ammo /\ h.stock = g.stock /\ h.lives = g.lives /\ h.winner = g.winner
       /\ h.shots = g.shots /\ h.emptyGun = g.emptyGun
  BY <1>2, <1>11a DEF Game
<1> HIDE DEF m
<1>13. Drawn(h)
  <2>1. \A q \in Players : /\ CellTypeForTank[q] \notin {"empty", "mine"}
                           /\ CellTypeForBarrel[q] \notin {"empty", "mine"}
    BY TankCells
  <2>2. \A q \in Players : BarrelPos(h, q) = BarrelPos(g, q)
    BY <1>12 DEF BarrelPos
  <2>3. \A x \in Cells : h.grid[x] \in {"empty", "mine", g.grid[x]}
    BY <1>9, <1>11, <1>12
  <2> QED BY <1>12, <2>1, <2>2, <2>3 DEF Drawn, Sound
<1>14. MinesShown(h)
  <2> SUFFICES ASSUME NEW x \in Cells, h.grid[x] = "mine"
               PROVE  \E j \in DOMAIN h.mines : h.mines[j].at = x /\ h.mines[j].visible
    BY DEF MinesShown
  <2>1. CASE x = m.at
    <3>1. ~hides /\ (owned \/ g.grid[x] = "mine")
      BY <1>9, <1>11, <1>12, <2>1
    <3>2. CASE owned
      <4>1. seen.visible
        BY <1>4, <3>2
      <4>2. after.visible
        BY <1>5, <3>1, <4>1
      <4> QED BY <1>5, <1>10, <1>12, <2>1, <4>2
    <3>3. CASE g.grid[x] = "mine"
      <4>1. PICK j \in DOMAIN g.mines : g.mines[j].at = x /\ g.mines[j].visible
        BY <3>3 DEF MinesShown, Sound
      <4>2. CASE j = i
        <5>1. m.visible
          BY <4>1, <4>2 DEF m
        <5>2. seen.visible
          BY <1>4, <5>1
        <5>3. after.visible
          BY <1>5, <3>1, <5>2
        <5> QED BY <1>5, <1>10, <1>12, <2>1, <5>3
      <4>3. CASE j # i
        BY <1>10, <1>12, <4>1, <4>3
      <4> QED BY <4>2, <4>3
    <3> QED BY <3>1, <3>2, <3>3
  <2>2. CASE x # m.at
    <3>1. g.grid[x] = "mine"
      BY <1>11, <1>12, <2>2
    <3>2. PICK j \in DOMAIN g.mines : g.mines[j].at = x /\ g.mines[j].visible
      BY <3>1 DEF MinesShown, Sound
    <3>3. j # i
      BY <2>2, <3>2 DEF m
    <3> QED BY <1>10, <1>12, <3>2, <3>3
  <2> QED BY <2>1, <2>2
<1>15. Settled(h)
  BY <1>12 DEF Settled, Sound
<1>16. Spared(g, h) /\ Unmoved(g, h)
  BY <1>12, SparedSame
<1> QED BY <1>8, <1>10, <1>12, <1>13, <1>14, <1>15, <1>16 DEF Sound, SameShots

\* After the round of the mines no armed mine is visible, whatever it was before
\* (UpdateMines).
LEMMA UpdateMinesOK ==
  ASSUME NEW g, Sound(g), NEW h, h = UpdateMines(g)
  PROVE  Sound(h) /\ Spared(g, h) /\ SameShots(g, h) /\ ArmedHidden(h) /\ Unmoved(g, h)
<1>1. PICK last \in Nat : last = Len(g.mines) /\ DOMAIN g.mines = 1 .. last /\ g \in Game
  <2>1. g \in Game /\ g.mines \in Seq(Mine)
    BY DEF Sound, Game
  <2>2. Len(g.mines) \in Nat /\ DOMAIN g.mines = 1 .. Len(g.mines)
    BY <2>1
  <2> QED BY <2>1, <2>2
<1> DEFINE Def(r) == [n \in 0 .. last |-> IF n = 0 THEN g ELSE UpdateMine(r[n - 1], n)]
           run == CHOOSE r : r = Def(r)
           S == {s \in Game : /\ Sound(s) /\ Spared(g, s) /\ SameShots(g, s)
                              /\ Unmoved(g, s) /\ DOMAIN s.mines = 1 .. last}
           next(n, s) == IF n < last THEN UpdateMine(s, n + 1) ELSE s
           f == [n \in Nat |-> [s \in S |-> next(n, s)]]
<1>2. h = run[last]
  BY <1>1 DEF UpdateMines
<1>3. \A n \in Nat, s \in S : n < last =>
        /\ UpdateMine(s, n + 1) \in S
        /\ IsArmed(UpdateMine(s, n + 1).mines[n + 1]) => ~UpdateMine(s, n + 1).mines[n + 1].visible
        /\ \A j \in 1 .. last : j # n + 1 => UpdateMine(s, n + 1).mines[j] = s.mines[j]
  <2> SUFFICES ASSUME NEW n \in Nat, NEW s \in S, n < last
               PROVE  /\ UpdateMine(s, n + 1) \in S
                      /\ IsArmed(UpdateMine(s, n + 1).mines[n + 1])
                            => ~UpdateMine(s, n + 1).mines[n + 1].visible
                      /\ \A j \in 1 .. last : j # n + 1
                             => UpdateMine(s, n + 1).mines[j] = s.mines[j]
    OBVIOUS
  <2>1. n + 1 \in DOMAIN s.mines /\ Sound(s)
    OBVIOUS
  <2>2. PICK t : t = UpdateMine(s, n + 1)
    OBVIOUS
  <2>3. /\ Sound(t) /\ Spared(s, t) /\ SameShots(s, t) /\ DOMAIN t.mines = DOMAIN s.mines
        /\ Unmoved(s, t)
        /\ \A j \in DOMAIN s.mines : j # n + 1 => t.mines[j] = s.mines[j]
        /\ IsArmed(t.mines[n + 1]) => ~t.mines[n + 1].visible
    BY <2>1, <2>2, UpdateMineOK
  <2>4. Spared(g, t) /\ SameShots(g, t) /\ Unmoved(g, t)
    <3>1. Unmoved(g, s)
      OBVIOUS
    <3>2. Unmoved(g, t)
      BY <2>3, <3>1 DEF Unmoved, Untouched, SameTank
    <3> QED BY <2>3, <3>2, SparedAgain DEF SameShots
  <2>5. t \in S
    BY <2>3, <2>4 DEF Sound
  <2> QED BY <2>2, <2>3, <2>5
<1>4. g \in S
  BY <1>1, SparedSame DEF SameShots
<1>5. \E r : r = Def(r)
  <2>1. \A n \in Nat, s \in S : f[n][s] = next(n, s)
    OBVIOUS
  <2>2. \A n \in Nat, s \in S : next(n, s) \in S
    BY <1>3
  <2>3. f \in [Nat -> [S -> S]]
    BY <2>2
  <2> HIDE DEF f, S
  <2>4. PICK r : Repeats(r, S, g, f)
    BY <1>4, <2>3, Repeated
  <2>5. r[0] = g /\ \A n \in Nat : r[n] \in S /\ r[n + 1] = next(n, r[n])
    BY <2>1, <2>4 DEF Repeats
  <2>6. PICK q : q = [n \in 0 .. last |-> r[n]]
    OBVIOUS
  <2>7. ASSUME NEW n \in 0 .. last PROVE q[n] = Def(q)[n]
    <3>1. CASE n = 0
      BY <2>5, <2>6, <3>1
    <3>2. CASE n # 0
      <4>1. n - 1 \in Nat /\ n - 1 < last /\ n - 1 \in 0 .. last /\ (n - 1) + 1 = n
        BY <1>1, <3>2
      <4>2. r[n] = UpdateMine(r[n - 1], n)
        BY <2>5, <4>1
      <4> QED BY <2>6, <3>2, <4>1, <4>2
    <3> QED BY <3>1, <3>2
  <2>8. q = [n \in 0 .. last |-> q[n]]
    BY <2>6
  <2> QED BY <2>7, <2>8
<1>6. run = Def(run)
  BY <1>5
<1> HIDE DEF run
<1>7. run[0] = g
  <2>1. 0 \in 0 .. last
    BY <1>1
  <2> QED BY <1>6, <2>1
<1>8. \A n \in Nat : n < last => run[n + 1] = UpdateMine(run[n], n + 1)
  <2> SUFFICES ASSUME NEW n \in Nat, n < last PROVE run[n + 1] = UpdateMine(run[n], n + 1)
    OBVIOUS
  <2>1. n + 1 \in 0 .. last /\ n + 1 # 0 /\ (n + 1) - 1 = n
    BY <1>1
  <2>2. run[n + 1] = Def(run)[n + 1]
    BY <1>6
  <2> QED BY <2>1, <2>2
<1> HIDE DEF S, next, f
<1>9. \A n \in Nat : n <= last =>
        /\ run[n] \in S
        /\ \A j \in 1 .. n : IsArmed(run[n].mines[j]) => ~run[n].mines[j].visible
  <2> DEFINE Q(n) == /\ run[n] \in S
                     /\ \A j \in 1 .. n : IsArmed(run[n].mines[j]) => ~run[n].mines[j].visible
             P == {n \in Nat : n <= last => Q(n)}
  <2>1. 0 \in P
    BY <1>4, <1>7
  <2>2. ASSUME NEW n \in P PROVE n + 1 \in P
    <3>1. n \in Nat /\ n + 1 \in Nat
      OBVIOUS
    <3>2. SUFFICES ASSUME n + 1 <= last PROVE Q(n + 1)
      BY <3>1
    <3>3. n < last /\ n <= last
      BY <1>1, <3>1, <3>2
    <3>4. Q(n)
      BY <3>3
    <3>5. run[n + 1] = UpdateMine(run[n], n + 1)
      BY <1>8, <3>1, <3>3
    <3>6. /\ run[n + 1] \in S
          /\ IsArmed(run[n + 1].mines[n + 1]) => ~run[n + 1].mines[n + 1].visible
          /\ \A j \in 1 .. last : j # n + 1 => run[n + 1].mines[j] = run[n].mines[j]
      BY <1>3, <3>1, <3>3, <3>4, <3>5
    <3>7. \A j \in 1 .. n + 1 : j = n + 1 \/ (j \in 1 .. n /\ j \in 1 .. last /\ j # n + 1)
      BY <1>1, <3>1, <3>2
    <3> QED BY <3>4, <3>6, <3>7
  <2>3. P \in SUBSET Nat
    OBVIOUS
  <2>4. \A n \in P : n + 1 \in P
    BY <2>2
  <2> HIDE DEF P
  <2>5. \A n \in Nat : n \in P
    BY <2>1, <2>3, <2>4, CountUp
  <2> QED BY <2>5 DEF P
<1>10. h \in S /\ \A j \in 1 .. last : IsArmed(h.mines[j]) => ~h.mines[j].visible
  BY <1>1, <1>2, <1>9
<1>11. /\ Sound(h) /\ Spared(g, h) /\ SameShots(g, h) /\ DOMAIN h.mines = 1 .. last
       /\ Unmoved(g, h)
  BY <1>10 DEF S
<1> QED BY <1>10, <1>11 DEF ArmedHidden

----------------------------------------------------------------------------
(* A tick *)

LEMMA UpdateOK ==
  ASSUME NEW g, Ready(g), DeadLoaded(g), NEW p \in Players, NEW h, h = Update(g, p)
  PROVE  Ready(h) /\ ArmedHidden(h) /\ Spared(g, h) /\ InOrder(g, h) /\ Moved(g, h)
<1>1. PICK k : k = UpdateShots(Elapse(g), p)
  OBVIOUS
<1>2. Ready(k) /\ Spared(g, k) /\ InOrder(g, k) /\ Moved(g, k)
  BY <1>1, UpdateShotsOK
<1>3. h = UpdateMines(k)
  BY <1>1 DEF Update
<1>4. Sound(h) /\ Spared(k, h) /\ SameShots(k, h) /\ ArmedHidden(h) /\ Quiet(k, h)
  BY <1>2, <1>3, UpdateMinesOK DEF Ready, Quiet
<1>5. Ready(h)
  BY <1>2, <1>4, SparedReady
<1>6. InOrder(g, h)
  BY <1>2, <1>4 DEF SameShots, InOrder
<1>7. Spared(g, h)
  BY <1>2, <1>4, SparedAgain
<1>8. Moved(g, h)
  BY <1>2, <1>4, QuietAgain
<1> QED BY <1>4, <1>5, <1>6, <1>7, <1>8

(* A life is lost with the tank restored, except where a key follows.      *)
Respawned(g, a, h) ==
  \A q \in Players :
    h.lives[q] < g.lives[q] => Restored(h, q) \/ (q = 2 /\ a.lives[2] < g.lives[2])

LEMMA LivesAreNat ==
  ASSUME NEW g, Ready(g), NEW q \in Players
  PROVE  g.lives[q] \in Nat /\ g.ammo[q] \in Nat
BY BoardAssumption DEF Ready, Sound, Game

(* What two keys do to tanks that are apart: a mine sends both off, and    *)
(* they are still apart; or one that does not show has laid a mine or did  *)
(* not show before, and so has one of two that are in the same cell.       *)
Sent(g) == g.pos[1][1] = StartColumn[1] /\ g.pos[2][1] > StartColumn[1]
Laid(g, h, q) == Hidden(g, q) \/ h.stock[q] < g.stock[q]
Veiled(g, h) ==
  /\ \A q \in Players : h.lives[q] = g.lives[q]
  /\ \/ \A q \in Players : ~Shows(h, q) => Laid(g, h, q)
     \/ h.pos[1] = h.pos[2] /\ \E q \in Players : Laid(g, h, q)

LEMMA StartsApart ==
  /\ StartColumn[1] \in Int /\ StartColumn[2] \in Int
  /\ StartColumn[1] # StartColumn[2] /\ StartColumn[2] - 1 > StartColumn[1]
BY BoardAssumption DEF StartColumn

LEMMA TwoKeysVeil ==
  ASSUME NEW g, Ready(g), g.pos[1] # g.pos[2],
         NEW a, Ready(a), KeyMoves(g, a, 1), NEW b, Ready(b), KeyMoves(a, b, 2)
  PROVE  Sent(b) \/ Veiled(g, b)
<1>1. 1 \in Players /\ 2 \in Players /\ \A q \in Players : q = 1 \/ q = 2
  BY DEF Players
<1>2. CASE Home(b)
  BY <1>1, <1>2, StartsApart DEF Home, Restored, Sent
<1>3. CASE Home(a) /\ Nudged(a, b, 2)
  <2>1. a.pos[1][1] = StartColumn[1] /\ a.pos[2][1] = StartColumn[2]
    BY <1>1, <1>3 DEF Home, Restored
  <2>2. b.pos[1] = a.pos[1] /\ b.pos[2][1] \in a.pos[2][1] - 1 .. a.pos[2][1] + 1
    BY <1>1, <1>3 DEF Nudged
  <2> QED BY <2>1, <2>2, StartsApart DEF Sent
<1>4. CASE Nudged(g, a, 1) /\ Nudged(a, b, 2)
  <2>1. \A q \in Players : /\ b.lives[q] = g.lives[q]
                            /\ g.stock[q] \in Nat /\ a.stock[q] \in Nat /\ b.stock[q] \in Nat
                            /\ a.stock[q] <= g.stock[q] /\ b.stock[q] <= a.stock[q]
    <3>1. \A q \in Players : g.stock[q] \in Nat /\ a.stock[q] \in Nat /\ b.stock[q] \in Nat
      BY BoardAssumption DEF Ready, Sound, Game
    <3> QED BY <1>4, <3>1 DEF Nudged
  <2>2. \A q \in Players : a.stock[q] < g.stock[q] \/ b.stock[q] < a.stock[q] => Laid(g, b, q)
    BY <2>1 DEF Laid
  <2>3. SUFFICES ASSUME NEW q \in Players, ~Shows(b, q), ~Laid(g, b, q)
                 PROVE  b.pos[1] = b.pos[2] /\ Laid(g, b, 2)
    BY <1>1, <2>1 DEF Veiled
  <2>4. Shows(g, q)
    BY <2>3 DEF Laid, Hidden, Shows
  <2>5. Shows(a, q)
    BY <1>1, <1>4, <2>2, <2>3, <2>4 DEF Nudged
  <2>6. q # 2 /\ a.pos[q] = a.pos[2] /\ b.pos[2] = a.pos[2] /\ b.stock[2] < a.stock[2]
    BY <1>1, <1>4, <2>2, <2>3, <2>5 DEF Nudged
  <2>7. b.pos[q] = a.pos[q] /\ q = 1
    BY <1>1, <1>4, <2>6 DEF Nudged
  <2> QED BY <1>1, <2>2, <2>6, <2>7
<1> QED BY <1>2, <1>3, <1>4 DEF KeyMoves

LEMMA TwoKeysOK ==
  ASSUME NEW g, Ready(g), g.winner = 0, NEW key1 \in Action, NEW key2 \in Action,
         NEW first \in 0 .. ShotDelay,
         NEW a, a = ApplyInput(g, 1, key1, first), NEW b, b = ApplyInput(a, 2, key2, first)
  PROVE  /\ Ready(b) /\ KeyDone(g, a, 1) /\ KeyDone(a, b, 2) /\ DeadLoaded(b)
         /\ g.pos[1] # g.pos[2] => Sent(b) \/ Veiled(g, b)
<1>1. 1 \in Players /\ 2 \in Players /\ \A q \in Players : q = 1 \/ q = 2
  BY DEF Players
<1>2. Ready(a) /\ KeyDone(g, a, 1) /\ KeyMoves(g, a, 1)
  BY <1>1, ApplyInputOK
<1>3. Ready(b) /\ KeyDone(a, b, 2) /\ KeyMoves(a, b, 2)
  BY <1>1, <1>2, ApplyInputOK
<1>4. g.lives[1] > 0 /\ g.lives[2] > 0
  BY <1>1 DEF Ready, Sound, Settled
<1>5. /\ g.lives[1] \in Nat /\ g.lives[2] \in Nat /\ a.lives[1] \in Nat /\ a.lives[2] \in Nat
      /\ a.ammo[1] \in Nat /\ a.ammo[2] \in Nat /\ b.ammo[1] \in Nat /\ b.ammo[2] \in Nat
  BY <1>1, <1>2, <1>3, LivesAreNat
<1>6. \A q \in Players : a.lives[q] = 0 => a.ammo[q] = FullAmmo
  BY <1>1, <1>2, <1>4, <1>5 DEF KeyDone, Restored, Untouched
<1>7. ASSUME b.lives[1] = 0 PROVE b.ammo[1] > 0
  <2>1. b.ammo[1] = FullAmmo
    BY <1>1, <1>3, <1>6, <1>7 DEF KeyDone, Restored, Untouched, SameTank
  <2> QED BY <2>1, FullIsLoaded
<1>8. ASSUME b.lives[2] = 0 PROVE b.ammo[2] > 0
  <2>1. b.ammo[2] = FullAmmo \/ b.ammo[2] >= FullAmmo - 1
    BY <1>1, <1>3, <1>6, <1>8 DEF KeyDone, Restored
  <2> QED BY <1>5, <2>1, FullIsLoaded
<1>9. DeadLoaded(b)
  BY <1>1, <1>7, <1>8 DEF DeadLoaded
<1>10. g.pos[1] # g.pos[2] => Sent(b) \/ Veiled(g, b)
  BY <1>2, <1>3, TwoKeysVeil
<1> QED BY <1>2, <1>3, <1>9, <1>10

(* A key leaves the shots that fly as they are, and adds none to an owner  *)
(* who has one.                                                            *)
LEMMA KeyKeepsOrder ==
  ASSUME NEW g, Ready(g), NEW a, NEW p \in Players, KeyDone(g, a, p), NEW h, InOrder(a, h)
  PROVE  InOrder(g, h)
<1>1. g.shots \in Seq(Shot) /\ DOMAIN g.shots = 1 .. Len(g.shots) /\ Len(g.shots) \in Nat
  BY ShotsOfGame DEF Ready
<1>2. \A i \in DOMAIN g.shots : i \in DOMAIN a.shots /\ a.shots[i] = g.shots[i]
  <2>1. CASE a.shots = g.shots
    BY <2>1
  <2>2. CASE \E s \in Shot : a.shots = Append(g.shots, s)
    <3>1. PICK s \in Shot : a.shots = Append(g.shots, s)
      BY <2>2
    <3>2. /\ Len(Append(g.shots, s)) = Len(g.shots) + 1 /\ Append(g.shots, s) \in Seq(Shot)
          /\ \A i \in 1 .. Len(g.shots) : Append(g.shots, s)[i] = g.shots[i]
      BY <1>1, AppendProperties
    <3>3. DOMAIN a.shots = 1 .. Len(g.shots) + 1
      BY <3>1, <3>2
    <3> QED BY <1>1, <3>1, <3>2, <3>3
  <2> QED BY <2>1, <2>2 DEF KeyDone
<1> QED BY <1>2 DEF InOrder

(* Tanks that come to stand in one cell: for a tank that did not show, or  *)
(* for one that lost its life and found its column taken.                  *)
Explained(g, h) ==
  g.pos[1] # g.pos[2] /\ h.pos[1] = h.pos[2] =>
    \E p \in Players : \/ Laid(g, h, p)
                       \/ h.lives[p] < g.lives[p] /\ h.pos[p] = Start(p)

LEMMA SentApart ==
  ASSUME NEW b, Sent(b), NEW h, Moved(b, h)
  PROVE  h.pos[1] # h.pos[2]
<1>1. 1 \in Players /\ 2 \in Players
  BY DEF Players
<1>2. CASE Home(h)
  BY <1>1, <1>2, StartsApart DEF Home, Restored
<1>3. CASE Unmoved(b, h)
  BY <1>1, <1>3, StartsApart DEF Unmoved, Untouched, SameTank, Sent
<1>4. CASE OneBack(b, h, 1)
  BY <1>1, <1>4, StartsApart DEF OneBack, Untouched, SameTank, Restored, Sent
<1>5. CASE OneBack(b, h, 2)
  BY <1>1, <1>5, StartsApart DEF OneBack, Untouched, SameTank, Restored, Sent
<1> QED BY <1>2, <1>3, <1>4, <1>5 DEF Moved, Quiet, Players

LEMMA VeiledExplained ==
  ASSUME NEW g, NEW b, Veiled(g, b), NEW h, Moved(b, h)
  PROVE  Explained(g, h)
<1>1. 1 \in Players /\ 2 \in Players /\ \A q \in Players : q = 1 \/ q = 2
  BY DEF Players
<1> SUFFICES ASSUME h.pos[1] = h.pos[2]
             PROVE  \E p \in Players : \/ Laid(g, h, p)
                                       \/ h.lives[p] < g.lives[p] /\ h.pos[p] = Start(p)
  BY DEF Explained
<1>2. \A q \in Players : Untouched(b, h, q) /\ Laid(g, b, q) => Laid(g, h, q)
  BY DEF Untouched, SameTank, Laid
<1>3. CASE Home(h)
  BY <1>1, <1>3, StartsApart DEF Home, Restored
<1>4. CASE Unmoved(b, h)
  <2>1. b.pos[1] = b.pos[2]
    BY <1>1, <1>4 DEF Unmoved, Untouched, SameTank
  <2>2. ~Shows(b, 1) \/ ~Shows(b, 2)
    BY <2>1 DEF Shows, CellTypeForTank
  <2>3. \E q \in Players : Laid(g, b, q)
    BY <1>1, <2>2 DEF Veiled
  <2> QED BY <1>2, <1>4, <2>3 DEF Unmoved
<1>5. ASSUME NEW p \in Players, OneBack(b, h, p)
      PROVE  \E r \in Players : \/ Laid(g, h, r)
                                \/ h.lives[r] < g.lives[r] /\ h.pos[r] = Start(r)
  <2>1. PICK q \in Players : q # p /\ h.pos[p] = h.pos[q]
      /\ {b.pos[p], b.pos[q]} = {b.pos[1], b.pos[2]}
    BY <1>1
  <2>2. Untouched(b, h, q) /\ h.pos[q] = b.pos[q]
    BY <1>5, <2>1 DEF OneBack, Untouched, SameTank
  <2>3. CASE h.pos[p] = Start(p)
    <3>1. h.lives[p] < g.lives[p]
      BY <1>5 DEF OneBack, Veiled
    <3> QED BY <2>3, <3>1
  <2>4. CASE h.pos[p] # Start(p)
    <3>1. b.pos[q] # b.pos[p] /\ ~Shows(b, q)
      BY <1>5, <2>1, <2>2, <2>4 DEF OneBack, BackBeside
    <3>2. Laid(g, b, q)
      BY <2>1, <3>1 DEF Veiled
    <3> QED BY <1>2, <2>2, <3>2
  <2> QED BY <2>3, <2>4
<1> QED BY <1>3, <1>4, <1>5 DEF Moved, Quiet

(* All that a tick does to a game without a winner.                        *)
LEMMA TickOK ==
  ASSUME NEW g, Ready(g), g.winner = 0, NEW key1 \in Action, NEW key2 \in Action,
         NEW first \in 0 .. ShotDelay, NEW p \in Players,
         NEW a, a = ApplyInput(g, 1, key1, first), NEW b, b = ApplyInput(a, 2, key2, first),
         NEW h, h = Update(b, p)
  PROVE  /\ Ready(h) /\ ArmedHidden(h) /\ InOrder(g, h) /\ Respawned(g, a, h)
         /\ Explained(g, h)
<1>1. 1 \in Players /\ 2 \in Players /\ \A q \in Players : q = 1 \/ q = 2
  BY DEF Players
<1>2. Ready(a)
  BY <1>1, ApplyInputOK
<1>3. /\ Ready(b) /\ KeyDone(g, a, 1) /\ KeyDone(a, b, 2) /\ DeadLoaded(b)
      /\ g.pos[1] # g.pos[2] => Sent(b) \/ Veiled(g, b)
  BY TwoKeysOK
<1>4. Ready(h) /\ ArmedHidden(h) /\ Spared(b, h) /\ InOrder(b, h) /\ Moved(b, h)
  BY <1>3, UpdateOK
<1>5. InOrder(g, h)
  <2>1. InOrder(a, h)
    BY <1>1, <1>2, <1>3, <1>4, KeyKeepsOrder
  <2> QED BY <1>1, <1>3, <2>1, KeyKeepsOrder
<1>6. ASSUME h.lives[1] < g.lives[1] PROVE Restored(h, 1)
  <2>1. SUFFICES ASSUME ~Restored(h, 1) PROVE FALSE
    OBVIOUS
  <2>2. Untouched(b, h, 1)
    BY <1>1, <1>4, <2>1 DEF Spared
  <2>3. ~Restored(b, 1)
    BY <2>1, <2>2 DEF Untouched, SameTank, Restored
  <2>4. Untouched(a, b, 1)
    BY <1>1, <1>3, <2>3 DEF KeyDone
  <2>5. ~Restored(a, 1)
    BY <2>3, <2>4 DEF Untouched, SameTank, Restored
  <2>6. a.lives[1] = g.lives[1]
    BY <1>3, <2>5 DEF KeyDone
  <2>7. h.lives[1] = g.lives[1] /\ g.lives[1] \in Nat
    BY <1>1, <2>2, <2>4, <2>6, LivesAreNat DEF Untouched
  <2> QED BY <1>6, <2>7
<1>7. ASSUME h.lives[2] < g.lives[2], ~Restored(h, 2) PROVE a.lives[2] < g.lives[2]
  <2>1. Untouched(b, h, 2)
    BY <1>1, <1>4, <1>7 DEF Spared
  <2>2. ~Restored(b, 2)
    BY <1>7, <2>1 DEF Untouched, SameTank, Restored
  <2>3. b.lives[2] = a.lives[2]
    BY <1>3, <2>2 DEF KeyDone
  <2> QED BY <1>7, <2>1, <2>3 DEF Untouched
<1>8. Respawned(g, a, h)
  BY <1>1, <1>6, <1>7 DEF Respawned
<1>9. Explained(g, h)
  <2>1. CASE g.pos[1] # g.pos[2] /\ Sent(b)
    BY <1>4, <2>1, SentApart DEF Explained
  <2>2. CASE Veiled(g, b)
    BY <1>4, <2>2, VeiledExplained
  <2>3. CASE ~(g.pos[1] # g.pos[2])
    BY <2>3 DEF Explained
  <2> QED BY <1>3, <2>1, <2>2, <2>3
<1> QED BY <1>4, <1>5, <1>8, <1>9

----------------------------------------------------------------------------
(* The invariant: a game ready for the next tick, as every tick leaves it. *)

EngineInv ==
  /\ Ready(gc) /\ ArmedHidden(gc)
  /\ warmUp \in 0 .. ShotDelay /\ keysLeft \in 0 .. MaxKeys

LEMMA InitEngine == Init => EngineInv
<1> SUFFICES ASSUME Init PROVE EngineInv
  OBVIOUS
<1>1. PICK walls : gc = NewRound(walls)
  BY DEF Init
<1>2. /\ gc \in Game /\ Drawn(gc) /\ Settled(gc) /\ MinesShown(gc)
      /\ gc.shots = <<>> /\ gc.mines = <<>>
      /\ \A p \in Players : gc.ammo[p] = FullAmmo /\ ~gc.emptyGun[p]
  BY <1>1, NewRoundIsGame
<1>3. DOMAIN gc.shots = {} /\ DOMAIN gc.mines = {}
  BY <1>2
<1>4. OneShotEach(gc) /\ Flying(gc) /\ ArmedHidden(gc)
  BY <1>3 DEF OneShotEach, Flying, ArmedHidden
<1>5. Loaded(gc) /\ Pending(gc)
  BY <1>2, FullIsLoaded DEF Loaded, Pending
<1>6. warmUp \in 0 .. ShotDelay /\ keysLeft \in 0 .. MaxKeys
  BY BoardAssumption, EngineAssumption DEF Init
<1> QED BY <1>2, <1>4, <1>5, <1>6 DEF EngineInv, Ready, Sound

(* A tick from the invariant, with the keys that it took.                  *)
LEMMA TickStep ==
  ASSUME EngineInv, Next
  PROVE  /\ EngineInv' /\ InOrder(gc, gc') /\ Explained(gc, gc')
         /\ \E key1 \in Keys : Respawned(gc, ApplyInput(gc, 1, key1, warmUp), gc')
<1>1. PICK key1 \in Keys, key2 \in Keys, p \in Players : Tick(key1, key2, p)
  BY DEF Next
<1>2. PICK a : a = ApplyInput(gc, 1, key1, warmUp)
  OBVIOUS
<1>3. PICK b : b = ApplyInput(a, 2, key2, warmUp)
  OBVIOUS
<1>4. /\ gc.winner = 0 /\ gc' = Update(b, p) /\ warmUp' = Less(warmUp)
      /\ Pressed(key1) + Pressed(key2) <= keysLeft
      /\ keysLeft' = keysLeft - (Pressed(key1) + Pressed(key2))
  BY <1>1, <1>2, <1>3 DEF Tick
<1>5. key1 \in Action /\ key2 \in Action
  BY EngineAssumption
<1>6. warmUp \in 0 .. ShotDelay /\ keysLeft \in 0 .. MaxKeys /\ Ready(gc)
  BY DEF EngineInv
<1>7. /\ Ready(gc') /\ ArmedHidden(gc') /\ InOrder(gc, gc') /\ Respawned(gc, a, gc')
      /\ Explained(gc, gc')
  BY <1>2, <1>3, <1>4, <1>5, <1>6, TickOK
<1>8. warmUp' \in 0 .. ShotDelay
  BY <1>4, <1>6, LessOK, BoardAssumption
<1>9. keysLeft' \in 0 .. MaxKeys
  <2>1. Pressed(key1) \in 0 .. 1 /\ Pressed(key2) \in 0 .. 1
    BY DEF Pressed
  <2> QED BY <1>4, <1>6, <2>1, EngineAssumption
<1>10. EngineInv'
  BY <1>7, <1>8, <1>9 DEF EngineInv, Ready, Sound, OneShotEach, Flying, Loaded, Pending, ShotOf,
     Drawn, Settled, MinesShown, ArmedHidden, BarrelPos, IsArmed
<1> QED BY <1>2, <1>7, <1>10

LEMMA EngineInvKept == Spec => []EngineInv
<1>1. EngineInv /\ [Next]_vars => EngineInv'
  <2> SUFFICES ASSUME EngineInv, [Next]_vars PROVE EngineInv'
    OBVIOUS
  <2>1. CASE UNCHANGED vars
    <3>1. gc' = gc /\ warmUp' = warmUp /\ keysLeft' = keysLeft
      BY <2>1 DEF vars
    <3> QED BY <3>1 DEF EngineInv, Ready, Sound, OneShotEach, Flying, Loaded, Pending, ShotOf,
           Drawn, Settled, MinesShown, ArmedHidden, BarrelPos, IsArmed
  <2>2. CASE Next
    BY <2>2, TickStep
  <2> QED BY <2>1, <2>2
<1> QED BY InitEngine, <1>1, PTL DEF Spec

\* Every part of a game keeps its type, on any board, with any delays and for any
\* keys: tanks stay inside the border and shots on the board, no player has two
\* shots, no counter falls below zero (GameController.Update).
THEOREM GameTyped == Spec => []TypeOK
<1>1. EngineInv => TypeOK
  BY DEF EngineInv, Ready, Sound, TypeOK
<1> QED BY <1>1, EngineInvKept, PTL

\* A cell shows a tank or a barrel only where that tank, or its barrel, is, after any
\* moves, hits, explosions and respawns in one update (ClearFromBoard, OccupyBoard).
THEOREM NoPhantoms == Spec => []NoPhantom
<1>1. EngineInv => NoPhantom
  BY DEF EngineInv, Ready, Sound, NoPhantom
<1> QED BY <1>1, EngineInvKept, PTL

\* A cell shows a mine only where a visible mine is, and no armed mine is visible,
\* however mines are covered, shown again, hidden and set off (updateMines).
THEOREM NoPhantomMines == Spec => []NoPhantomMine
<1>1. EngineInv => NoPhantomMine
  BY DEF EngineInv, Ready, Sound, NoPhantomMine
<1> QED BY <1>1, EngineInvKept, PTL

\* There is a winner exactly when a tank has no life left, and the winner's opponent
\* has none, also when one update defeats both (onPlayerDefeated).
THEOREM WinnerDecided == Spec => []Decided
<1>1. EngineInv => Decided
  BY DEF EngineInv, Ready, Sound, Decided
<1> QED BY <1>1, EngineInvKept, PTL

\* A player without ammunition has the last shot in the air and will pay for it, and
\* no penalty waits for a shot that is gone (updateShots, EmptyGunPending).
THEOREM LastShotInFlight == Spec => []LastShotFlies
<1>1. EngineInv => LastShotFlies
  BY DEF EngineInv, Ready, Loaded, Pending, LastShotFlies
<1> QED BY <1>1, EngineInvKept, PTL

\* Two shots that face each other in a row or a column never change sides, whenever
\* they were fired and whatever the delays (ShotsCrossedHeadOn).
THEOREM ShotsKeepSides == Spec => NoPassThrough
<1> DEFINE Apart == \A i, j \in DOMAIN gc.shots, k, l \in DOMAIN gc'.shots, axis \in {1, 2} :
       /\ gc'.shots[k].owner = gc.shots[i].owner /\ gc'.shots[l].owner = gc.shots[j].owner
       /\ Facing(gc.shots[i], gc.shots[j], axis)
       /\ gc.shots[i].at[axis] < gc.shots[j].at[axis]
       => gc'.shots[k].at[axis] < gc'.shots[l].at[axis]
<1>1. EngineInv /\ Next => Apart
  BY TickStep DEF InOrder
<1>2. EngineInv /\ [Next]_vars => [Apart]_vars
  BY <1>1
<1> HIDE DEF Apart
<1>3. Spec => [][Apart]_vars
  BY <1>2, EngineInvKept, PTL DEF Spec
<1> QED BY <1>3 DEF NoPassThrough, Apart

\* Two tanks that were apart come to stand in one cell only for a tank the board did
\* not show, because it had laid a mine under itself or an explosion had cleared the
\* cell, or for a tank that lost its life and found its column taken (AttemptMove,
\* PlaceMine, FindSpawnPos).
THEOREM TanksKeepApart == Spec => TanksApart
<1> DEFINE Apart == gc.pos[1] # gc.pos[2] /\ gc'.pos[1] = gc'.pos[2] =>
       \E p \in Players : \/ Hidden(gc, p) \/ gc'.stock[p] < gc.stock[p]
                          \/ gc'.lives[p] < gc.lives[p] /\ gc'.pos[p] = Start(p)
<1>1. EngineInv /\ Next => Apart
  BY TickStep DEF Explained, Laid
<1>2. EngineInv /\ [Next]_vars => [Apart]_vars
  BY <1>1
<1> HIDE DEF Apart
<1>3. Spec => [][Apart]_vars
  BY <1>2, EngineInvKept, PTL DEF Spec
<1> QED BY <1>3 DEF TanksApart, Apart

\* A tank that loses a life is back at its own end of the board with all it had, except
\* for player 2 when its own key follows the hit (respawnSingleTank, TankHit).
THEOREM HitsRespawn == Spec => HitRespawns
<1> DEFINE Back == \A p \in Players :
       gc'.lives[p] < gc.lives[p] => Restored(gc', p) \/ HitBeforeItsKey(gc, p)
<1>1. EngineInv /\ Next => Back
  <2> SUFFICES ASSUME EngineInv, Next PROVE Back
    OBVIOUS
  <2>1. PICK key1 \in Keys : Respawned(gc, ApplyInput(gc, 1, key1, warmUp), gc')
    BY TickStep
  <2> QED BY <2>1 DEF Respawned, HitBeforeItsKey, Restored
<1>2. EngineInv /\ [Next]_vars => [Back]_vars
  BY <1>1
<1> HIDE DEF Back
<1>3. Spec => [][Back]_vars
  BY <1>2, EngineInvKept, PTL DEF Spec
<1> QED BY <1>3 DEF HitRespawns, Back
=============================================================================
