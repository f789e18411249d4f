CONSTANT
  Figures <- MCFigures
SPECIFICATION Spec
INVARIANT LessDebtIsBetter
CHECK_DEADLOCK FALSE
