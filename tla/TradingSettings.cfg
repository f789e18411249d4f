CONSTANTS
  Req = {r1}
  Worker = {w1}
  Symbol = {AAA}
  Kinds = {"buy", "sell"}
  Lot = 1
  BuyQty = {1}
  InitQty = {0, 1}
  Caps = {0, 1}
  Faults = {"settings", "timeout", "restart"}
SPECIFICATION Spec
INVARIANT SignalsArmed
PROPERTIES EveryRequestAnswered
