CONSTANTS
  Worker = {w1, w2}
  Click = {c1, c2}
  Holdings = 2
  MaxDay = 1
  Faults = {"crash", "db"}
SYMMETRY Symmetry
SPECIFICATION Spec
INVARIANTS TypeOK FlagIsTheRun MarkedDayIsDone StagesKept NotifiedDayWasSent VerdictsHaveSnapshot
