SPECIFICATION FairSpec
CONSTANTS
  Buttons = {5}
  Play = 5
  QueueLen = 2
  MaxPresses <- PlayOnly
INVARIANTS TypeOK PressesTold
PROPERTIES HeardInOrder LevelHeard
CHECK_DEADLOCK FALSE
