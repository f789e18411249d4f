CONSTANTS
  Req = {r1, r2}
  Worker = {w1, w2}
  Symbol = {AAA}
  Kinds = {"buy", "sell", "mbuy", "msell", "flatten"}
  Lot = 2
  BuyQty = {2}
  InitQty = {0, 3}
  Caps = {1}
  Faults = {"resting", "timeout", "reconnect", "restart"}
SYMMETRY Symmetry
SPECIFICATION Spec
INVARIANTS TypeOK BuysFounded ExitsFounded ShortOnlyIfStale CoveredSells
