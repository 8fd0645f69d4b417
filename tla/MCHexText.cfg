CONSTANTS
  DigitBase = 4
  Files <- MCFiles
  NoRecord = NoRecord
SPECIFICATION Spec
CHECK_DEADLOCK FALSE
INVARIANT ReadsIntactFiles
INVARIANT OneErrorDetected
