CONSTANTS
  BootCountMax = 1
  Counts <- MCCounts
  OnlyBootWhenReady = TRUE
  CheckFwUpdate = TRUE
  WarmReboot = FALSE
  NoFile = NoFile
  TornFile = TornFile
  MaxJobs = 1
SPECIFICATION Spec
INVARIANTS TypeOK AttemptsWithinRetry RestartRestores
