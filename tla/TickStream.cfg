\* One player, whom two handlers tell of the start, and a spectator.
CONSTANTS
  c1 = c1
  c2 = c2
  p1 = p1
  a = a
  b = b
  s1 = s1
  Cells = {c1, c2}
  Values = {0, 1}
  NoGrid = NoGrid
  NoMsg = NoMsg
  FirstGrid <- MCFirstGrid
  Players <- MCPlayers
  Spectators = {s1}
  Starters = {a, b}
  KeyframeInterval = 3
  QueueCap = 2
  MaxTick = 6
SPECIFICATION Spec
SYMMETRY Symmetry
CONSTRAINTS FewChanges OneAtATime
\* The bound on ticks ends every run.
CHECK_DEADLOCK FALSE
INVARIANTS
  TypeOK
  InStepShows
  DesyncBound
  BoardFirst
PROPERTIES
  MirrorSpec
