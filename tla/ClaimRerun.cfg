CONSTANTS
  Composites <- MildComposites
  Buy = 10
  Sell = 15
  Margin = 3
  Days = 2
  Window = 2
  Kept = 3
  Faults = {"rerun"}
SPECIFICATION Spec
INVARIANTS NewBandLasts
