CONSTANTS
  Caller = {c1}
  Ops = {"placePct"}
  MaxTask = 2
SPECIFICATION Spec
INVARIANTS PercentEquitySizes
CHECK_DEADLOCK FALSE
