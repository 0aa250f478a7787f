\* Rooms entered over HTTP; three connections present two tokens.  Where one is
\* presented twice with success, at most one connection goes away.
CONSTANTS
  c1 = c1
  c2 = c2
  c3 = c3
  r1 = r1
  r2 = r2
  r3 = r3
  NoConn = NoConn
  NoMatch = 0
  NoTimer = 0
  Conns = {c1, c2, c3}
  Reqs = {r1, r2, r3}
  Matches = {1, 2}
  Timers = {1}
  Kinds = {"rejoin"}
SPECIFICATION Spec
CONSTRAINT OneLeaves
SYMMETRY ClientSymmetry
\* The room's story ends when everybody has left and the bounds are used up.
CHECK_DEADLOCK FALSE
INVARIANTS
  OneGame
  AddressedBySeat
  AutoStart
  UsedOnceNothingLeft
