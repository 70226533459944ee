SPECIFICATION Spec
CONSTANTS
  OneTimePolicies = {"AlwaysOn"}
  RunOn = {"Watchdog"}
  OnlyOnPowerLoss = TRUE
  WhenReady = TRUE
  OnlyBootWhenReady = TRUE
  MaxDelay = 2
  MaxSettings = 1
  RecoveryTimeout = 1
  MaxRequests = 1
  MaxFaults = 1
INVARIANTS BootTypeOK RestoreHonoursOff OneTimeOnce PolicyAwaitsReady
PROPERTIES PolicyDelivered RecoveryEnds
CHECK_DEADLOCK FALSE
