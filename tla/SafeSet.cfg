SPECIFICATION SetSpec
CONSTANTS
  Values <- MCValues
  MaxDepth = 3
INVARIANTS NeverStale VisitsAll
PROPERTY GoesInOrder
