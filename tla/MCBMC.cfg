SPECIFICATION Spec
CONSTANTS
  CheckFwUpdate = TRUE
  Boots <- MCBoots
  Inputs = {"guard", "update", "clock"}
  MaxRequests = 2
  MaxDeaths = 1
  MaxResets = 1
  MaxFailures = 1
  MaxMisreads = 1
  MaxSignals = 2
INVARIANTS TypeOK StateIsCurrent RebootTimeIsRight
PROPERTIES KeepsPromise
CHECK_DEADLOCK FALSE
