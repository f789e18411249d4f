CONSTANTS
  Worker = {w1}
  Click = {c1, c2}
  Holdings = 1
  MaxDay = 2
  Faults = {"crash", "db"}
SPECIFICATION Spec
INVARIANT PollingUntilDone
PROPERTIES RunsEnd PollingEnds
