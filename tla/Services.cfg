CONSTANTS
  Thread = {p1, p2}
  Worker = {w1, w2}
  Tab = {"t1", "t2"}
  Env = "env"
  Name = {"env", "ann"}
  TTL = 1
  MaxNow = 3
  MaxToken = 1
  Held = {"gbp", "listed"}
  MaxDay = 2
  Interval = 3
  MaxTries = 3
  RetryAfter = {0, 4}
  MaxTime = 7
  Score <- MCScore
  Weight = {0, 1}
  Models <- MCModels
  Figures <- MCFigures
  MaxChars = 20
  MarkLen = 2
  Ten = 3
  Fixed = {3, 9, 14, 21}
  LineLen = {2, 3, 5}
  MaxHoldings = 5
SPECIFICATION Spec
INVARIANTS TypeOK AdminSeeded SessionsHonoured  LadderExhausted CompositeFaithful ScoresMonotone NothingUntold
PROPERTIES OverridesStand MappingsHeal RowsKeep RequestsSpaced
CHECK_DEADLOCK FALSE
