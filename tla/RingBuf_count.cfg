SPECIFICATION Spec
CONSTANTS
  SIZE = 3
  WORD = 2
  MaxLen = 3
  MaxBytes = 4
INVARIANTS CountReported
