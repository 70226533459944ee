SPECIFICATION SystemSpec
CONSTANTS
  mapper = mapper
  CheckFwUpdate = TRUE
  Boots <- MCBoots
  Inputs = {}
  MaxRequests = 1
  MaxDeaths = 1
  MaxResets = 0
  MaxFailures = 1
  MaxMisreads = 0
  MaxSignals = 2
  Targets <- MCTargets
  Services <- MCServices
  Immediate <- MCServices
  ErrorsToMonitor <- MCErrors
  MaxMonDeaths = 1
  MaxUnitFailures = 1
  MaxMisses = 1
  MaxMonSignals = 2
INVARIANTS MonTypeOK LogsHaveFailures
PROPERTIES FailureQuiesces CrashQuiesces
CHECK_DEADLOCK FALSE
