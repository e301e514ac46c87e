SPECIFICATION FairSpec
CONSTANTS
  Formats <- AllFormats
  MaxBacklog = 2
  MaxRecordings = 2
  MaxShots = 3
  MaxChunks = 1
INVARIANTS EncoderHasRecording InOrder NoneLost
PROPERTY Saved
CHECK_DEADLOCK FALSE
