SPECIFICATION LoggerSpec
CONSTANTS
  c1 = c1
  c2 = c2
  Writers = {c1, c2}
  Messages <- MCMessages
  OpenOutcomes = {TRUE, FALSE}
CHECK_DEADLOCK FALSE
INVARIANT WrittenInOrder
PROPERTIES WokenIsWritten JoinUnderLockIsFinal
