SPECIFICATION FairSpec
CONSTANTS
  MaxFrame = 2
  BusyFrames = {1, 2}
  InputFrames = {}
  MtuBatches = 1
  FastForwardGap = 1
  MaxUdpDown = 1
  MaxUdpUp = 0
  MaxTcpDown = 1
  MaxTcpUp = 0
  MaxControl = 0
  Pipelined = TRUE
INVARIANTS HistoryIsLog RunInItsFrame
PROPERTIES PlaysInLockstep WaitEnds
