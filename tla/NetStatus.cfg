SPECIFICATION FairSpec
CONSTANTS
  Rooms = {r1, r2}
  NoRoom = NoRoom
  MaxRequests = 3
  MaxFaults = 1
INVARIANT ReplyIsFresh
PROPERTIES GuestHasSession WithdrawalHonoured RequestAnswered
CHECK_DEADLOCK FALSE
