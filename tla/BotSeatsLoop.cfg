\* Two rooms, of the auto-room loop or of a human.
CONSTANTS
  r1 = r1
  r2 = r2
  h1 = h1
  Rooms = {r1, r2}
  Humans = {h1}
  Bot = Bot
  Nobody = Nobody
  NoRoom = NoRoom
  MaxBots = 2
SPECIFICATION Spec
SYMMETRY RoomSymmetry
\* The bounds on rooms and humans end every run.
CHECK_DEADLOCK FALSE
INVARIANTS
  OneBotMatch
