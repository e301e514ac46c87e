SPECIFICATION FairSpec
CONSTANTS
  Events = {e1, e2, e3}
  NoEvent = NoEvent
  Sources = {e1, e2}
  Scripts <- Levels
  FixModes = {TRUE}
  MaxEvents = 3
  MaxTickets = 4
  MaxClock = 2
  Delays = {0, 1}
  Messages = 1
INVARIANT OnceEach
PROPERTIES OnTime TriggeredAtOnce FrameEnds
CHECK_DEADLOCK FALSE
