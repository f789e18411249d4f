CONSTANTS
  Req = {r1, r2}
  Worker = {w1}
  Symbol = {AAA, BBB}
  Kinds = {"buy", "sell"}
  Lot = 1
  BuyQty = {1}
  InitQty = {0, 1}
  Caps = {1, 2}
  Faults = {"restart"}
SPECIFICATION Spec
PROPERTIES ImplementsSerialTrader
