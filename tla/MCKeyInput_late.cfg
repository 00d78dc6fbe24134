SPECIFICATION Spec
CONSTANTS
  Buttons = {5, 13}
  Play = 5
  QueueLen = 2
  MaxPresses <- OnceEach
INVARIANTS LongReleaseAfterLongPress
CHECK_DEADLOCK FALSE
