CONSTANTS
  BootCountMax = 2
  Counts <- MCCounts
  OnlyBootWhenReady = FALSE
  CheckFwUpdate = TRUE
  WarmReboot = FALSE
  NoFile = NoFile
  TornFile = TornFile
  MaxJobs = 2
  Surroundings <- MCMixed
  UserTransitions = {"On", "Off", "Reboot"}
  BootOutcomes = {"up", "failed"}
  MaxRequests = 2
  MaxCrashes = 4
  MaxDeaths = 1
  MaxSignals = 3
SPECIFICATION FairSystemSpec
CHECK_DEADLOCK FALSE
INVARIANTS StateFollowsTargets RebootsWithinBudget
PROPERTY BrokenHostQuiesces
