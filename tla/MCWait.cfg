SPECIFICATION Spec
CONSTANTS
  N = 3
  Unreadable = {3}
  MaxSignals = 3
INVARIANTS TypeOK SuccessMeansOn NoLostWakeup
PROPERTIES WaitEnds
CHECK_DEADLOCK FALSE
