SPECIFICATION Spec
CONSTANTS
  l1 = l1
  l2 = l2
  NoLayer = NoLayer
  Layers = {l1, l2}
  Scripts <- OneEvent
  Standing = TRUE
  Reuse = {TRUE, FALSE}
  MaxNPCs = 3
  SoftLimit = 3
  MaxIds = 4
  MaxQueue = 2
  MaxFrames = 1
INVARIANT NoneSurvives
PROPERTY StandingFollows
CHECK_DEADLOCK FALSE
