CONSTANTS
  HighWaterMark = 2
  MaxChunks = 4
  MaxReads = 2
SPECIFICATION Spec
PROPERTY EofReachesReader
CHECK_DEADLOCK FALSE
