CONSTANTS
  Transitions = {"On", "Off"}
  NoFile = NoFile
  TornFile = TornFile
  MaxTime = 4
  MaxWrites = 3
  MaxSets = 2
  MaxDeaths = 2
  MaxHostDeaths = 1
SPECIFICATION Spec
CHECK_DEADLOCK FALSE
PROPERTY RefusedIsRescheduled
