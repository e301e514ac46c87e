SPECIFICATION Spec
CONSTANTS
  MaxFrame = 3
  BusyFrames = {}
  InputFrames = {1, 2}
  MtuBatches = 1
  FastForwardGap = 0
  MaxUdpDown = 1
  MaxUdpUp = 2
  MaxTcpDown = 0
  MaxTcpUp = 2
  MaxControl = 1
  Pipelined = FALSE
INVARIANTS NoInputLost InputOnceInOrder ReportsWhatItHas
