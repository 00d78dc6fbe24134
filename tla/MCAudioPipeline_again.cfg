SPECIFICATION Spec
CONSTANTS
  algo = algo
  raw = raw
  Chain <- Encoder
  HasTask <- EncoderTasks
  Follows <- Again
  QueueLen = 5
  RingCap = 1
INVARIANTS StoppedWhenWaited
