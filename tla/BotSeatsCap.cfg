\* Two rooms that ask for a bot at once, under a cap of one.
CONSTANTS
  r1 = r1
  r2 = r2
  h1 = h1
  h2 = h2
  Rooms = {r1, r2}
  Humans = {h1, h2}
  Bot = Bot
  Nobody = Nobody
  NoRoom = NoRoom
  MaxBots = 1
SPECIFICATION Spec
\* The bounds on rooms and humans end every run.
CHECK_DEADLOCK FALSE
INVARIANTS
  BotCap
