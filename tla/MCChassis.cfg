SPECIFICATION Spec
CONSTANTS
  p1 = p1
  p2 = p2
  PSUs = {p1}
  OtherPSUs = {p2}
  UserTransitions = {"On", "Off", "PowerCycle"}
  MaxRequests = 2
  MaxDeaths = 1
  MaxResets = 1
  MaxLosses = 1
  MaxFailures = 1
  MaxUnread = 1
  MaxInputs = 2
  MaxHours = 1
  MaxSignals = 2
  MaxEvents = 6
CONSTRAINT FewEvents
INVARIANTS TypeOK StateFollowsPower StatusIsCurrent LossIsReported FilesStand
PROPERTIES MovesWithPower
CHECK_DEADLOCK FALSE
