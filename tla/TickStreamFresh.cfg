\* A spectator of a match, who misses nothing.
CONSTANTS
  c1 = c1
  c2 = c2
  p1 = p1
  a = a
  b = b
  s1 = s1
  Cells = {c1, c2}
  Values = {0, 1}
  NoGrid = NoGrid
  NoMsg = NoMsg
  FirstGrid <- MCFirstGrid
  Players <- MCNoPlayers
  Spectators = {s1}
  Starters = {a}
  KeyframeInterval = 3
  QueueCap = 2
  MaxTick = 3
SPECIFICATION Spec
\* The bound on ticks ends every run.
CHECK_DEADLOCK FALSE
INVARIANTS
  FreshStart
