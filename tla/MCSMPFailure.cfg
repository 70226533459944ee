CONSTANTS
  N = 2
  UserTransitions = {"On"}
  Unreadable = {}
  SendMayFail = FALSE
  HastyUsers = FALSE
  MaxInbox = 2
  MaxOrders = 2
  MaxRequests = 1
  MaxFaults = 1
  MaxMoves = 0
  MaxStatus = 0
  MaxDeaths = 0
  MaxDirect = 0
SPECIFICATION FairSpec
CHECK_DEADLOCK FALSE
PROPERTY FailureIsNoticed
