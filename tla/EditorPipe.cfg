SPECIFICATION FairSpec
CONSTANTS
  CommandKinds = {"MsgBox", "Cheat"}
  NumParts = 2
  MaxAttempts = 1
  MagicHand = TRUE
  MaxTests = 2
  MaxCommands = 2
INVARIANTS LevelWhole CommandsInOrder AloneAsSent
PROPERTIES CommandsDone WaitEnds
CHECK_DEADLOCK FALSE
