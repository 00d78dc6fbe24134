SPECIFICATION FairSpec
CONSTANTS
  SIZE = 2
  WORD = 2
  MaxLen = 3
  MaxBytes = 3
INVARIANTS TypeOK Consistent NotBothAsleep WakeUpComes
PROPERTIES ImplementsQueue ReaderSeesData WriterSeesRoom ControlFreesReader EndWhenDrained
