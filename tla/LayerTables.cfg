SPECIFICATION TablesSpec
CONSTANTS
  ScreenSize = 2
  NodeSize = 1
  CellSize = 2
  Margin <- MCMargin
  MinWidth = 2
  Layers = {0, 1, 2}
  Moved = {1, 2}
  SplitSize = 0
  JoinTime = 1
  Places0 <- MCPlaces
  Speeds <- MCSpeeds
  Queries <- MCQueries
  Points <- MCPoints
  MaxBlocks = 2
  MaxChanges = 3
  MaxOffset = 3
INVARIANTS TablesFindOnce LocationsNoneMissed InOneTable
CHECK_DEADLOCK FALSE
