CONSTANTS
  N = 2
  UserTransitions = {"On", "Off", "PowerCycle"}
  Unreadable = {}
  SendMayFail = FALSE
  HastyUsers = FALSE
  MaxInbox = 2
  MaxOrders = 2
  MaxRequests = 2
  MaxFaults = 1
  MaxMoves = 0
  MaxStatus = 0
  MaxDeaths = 0
  MaxDirect = 1
SPECIFICATION FairSpec
CHECK_DEADLOCK FALSE
PROPERTY OffReachesAll
