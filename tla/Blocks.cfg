SPECIFICATION Spec
CONSTANTS
  Things = {1, 2, 3}
  Coins = {3}
  Levels <- SmallLevels
  Switched = {1}
  Breakable = {2, 3}
  Rapid = {2}
  Orders = {FALSE, TRUE}
  Leftovers <- SomeLeft
  maxBlocks = 3
  maxNPCs = 2
  maxInteresting = 6
  LongHalf = 2
  ShortHalf = 1
  SwitchTime = 3
  MaxHits = 2
  MaxPresses = 2
  MaxMessages = 1
INVARIANTS NoneForgotten EventsWhole SwitchGivesBack
