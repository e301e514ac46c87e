SPECIFICATION FairSpec
CONSTANTS
  MaxSounds = 5
INVARIANTS InOrder NoneLost
PROPERTIES EndReturns Heard
