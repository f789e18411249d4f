CONSTANTS
  Worker = {w1, w2}
  Click = {}
  Holdings = 1
  MaxDay = 1
  Faults = {}
SPECIFICATION Spec
INVARIANTS OneCronMessage
CHECK_DEADLOCK FALSE
