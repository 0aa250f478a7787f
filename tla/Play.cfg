SPECIFICATION FairSpec
CONSTANTS
  Moves = {"left"}
  Stores = {"fire"}
  None = None
  Full = 1
  MoveAck = 2
  StoreAck = 1
  SendCap = 2
  QueueCap = 1
  MaxInputs = 1
  Window = 1
  MaxLosses = 1
INVARIANTS TypeOK ClosedLoop NoKeyStuck OverLast
CHECK_DEADLOCK FALSE
CONSTRAINT Alive
PROPERTIES NeverWaits KeyHeals
