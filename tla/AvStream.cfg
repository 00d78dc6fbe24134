SPECIFICATION FairSpec
CONSTANTS
  MaxSessions = 2
  RtpQuiet = TRUE
INVARIANTS TypeOK CallbacksUseLive TasksUseLive FramesOwned StopAnswered
PROPERTIES SessionEnds
CHECK_DEADLOCK FALSE
