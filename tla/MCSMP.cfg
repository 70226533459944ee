CONSTANTS
  N = 2
  UserTransitions = {"On", "Off"}
  Unreadable = {1}
  SendMayFail = TRUE
  HastyUsers = FALSE
  MaxInbox = 2
  MaxOrders = 1
  MaxRequests = 1
  MaxFaults = 1
  MaxMoves = 1
  MaxStatus = 1
  MaxDeaths = 1
  MaxDirect = 0
SPECIFICATION Spec
CHECK_DEADLOCK FALSE
INVARIANTS TypeOK AggregateIsCurrent CoordinatedUntilOff
