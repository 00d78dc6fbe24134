SPECIFICATION FairSpec
CONSTANTS
  algo = algo
  raw = raw
  Chain <- Encoder
  HasTask <- EncoderTasks
  Follows <- Hurried
  QueueLen = 5
  RingCap = 1
INVARIANTS TypeOK NoUseAfterFree NoDestroyedRing IdleSleeps StoppedWhenWaited
PROPERTIES OperationsReturn
