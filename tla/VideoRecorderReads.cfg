SPECIFICATION Spec
CONSTANTS
  Formats <- OnlyGIF
  MaxBacklog = 2
  MaxRecordings = 1
  MaxShots = 1
  MaxChunks = 1
INVARIANT ReadsAreSafe
CHECK_DEADLOCK FALSE
