\* Three websocket connections that create, join and get ready.
CONSTANTS
  c1 = c1
  c2 = c2
  c3 = c3
  NoConn = NoConn
  NoMatch = 0
  NoTimer = 0
  Conns = {c1, c2, c3}
  Reqs = {}
  Matches = {1, 2}
  Timers = {1, 2}
  Kinds = {"create", "join", "ready"}
SPECIFICATION Spec
SYMMETRY ConnSymmetry
\* The room's story ends when everybody has left and the bounds are used up.
CHECK_DEADLOCK FALSE
INVARIANTS
  TypeOK
  AddressedBySeat
  SeatExclusive
  OneGame
  NothingLeftBehind
  PlayersFollowMatch
