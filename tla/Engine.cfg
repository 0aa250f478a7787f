\* A small board; delays of two updates; five keys in a game of two lives.
CONSTANTS
  Width = 10
  Height = 5
  SpawnRow = 2
  FullLives = 2
  FullAmmo = 2
  FullMines = 1
  MoveDelay = 2
  MineArmDelay = 2
  MineVisibleDuration = 2
  ShotDelay = 2
  Terrains <- MCTerrains
  Keys = {"none", "fire", "placemine", "left", "right", "upright"}
  MaxKeys = 5
SPECIFICATION Spec
\* A game ends with its winner.
CHECK_DEADLOCK FALSE
INVARIANTS
  TypeOK
  NoPhantom
  NoPhantomMine
  Decided
  LastShotFlies
PROPERTIES
  TanksApart
  NoPassThrough
  HitRespawns
