CONSTANTS
  Caller = {c1, c2}
  Ops = {"connect", "disconnect", "read", "place", "placePct"}
  MaxTask = 3
SPECIFICATION Spec
INVARIANTS TypeOK ConnectionsSerialised ErrorMeansNoOrder OkMeansOrder
PROPERTIES EveryCallReturns
CHECK_DEADLOCK FALSE
