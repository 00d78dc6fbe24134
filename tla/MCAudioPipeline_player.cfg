SPECIFICATION Spec
CONSTANTS
  algo = algo
  raw = raw
  Chain <- Encoder
  HasTask <- EncoderTasks
  Follows <- Plays
  QueueLen = 2
  RingCap = 1
INVARIANTS OneTask StopUnderWay AnswerComes
CONSTRAINT NoFault
CHECK_DEADLOCK FALSE
