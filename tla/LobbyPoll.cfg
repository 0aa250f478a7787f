SPECIFICATION FairSpec
CONSTANT
  MaxPolls = 2
PROPERTY PollSeesOpponent
\* A page that has gone to the game, or back to the lobby, is done.
CHECK_DEADLOCK FALSE
