\* Two players, who leave and ask for a rematch, during and after a match.
CONSTANTS
  c1 = c1
  c2 = c2
  NoConn = NoConn
  NoMatch = 0
  NoTimer = 0
  Conns = {c1, c2}
  Reqs = {}
  Matches = {1, 2}
  Timers = {1, 2}
  Kinds = {"create", "join", "play_again"}
SPECIFICATION FairSpec
\* The room's story ends when everybody has left and the bounds are used up.
CHECK_DEADLOCK FALSE
PROPERTIES
  ReconnectDecided
  RematchAgreed
