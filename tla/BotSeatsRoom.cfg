\* One room, three humans and a bot for two seats.
CONSTANTS
  r1 = r1
  h1 = h1
  h2 = h2
  h3 = h3
  Rooms = {r1}
  Humans = {h1, h2, h3}
  Bot = Bot
  Nobody = Nobody
  NoRoom = NoRoom
  MaxBots = 0
SPECIFICATION FairSpec
\* The bounds on rooms and humans end every run.
CHECK_DEADLOCK FALSE
INVARIANTS
  TypeOK
  ReservedEmpty
  NoSlotLeak
PROPERTIES
  SeatKept
  ReservationEnds
