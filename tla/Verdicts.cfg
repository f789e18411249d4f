CONSTANTS
  Composites <- SampleComposites
  Buy = 10
  Sell = 15
  Margin = 3
  Days = 2
  Window = 2
  Kept = 3
  Faults = {"rerun", "earnings", "nodata"}
SPECIFICATION Spec
INVARIANTS TypeOK ChangesAreEarned SellsFall FrozenLabelStands
PROPERTIES BandPrevails
