---------------------------- MODULE TradingSerial ----------------------------
(***************************************************************************)
(* The bridge implements SerialTrader when nothing outruns a handler: one  *)
(* worker, signals only, orders that fill at once, no timeout and no       *)
(* reconnect.  `async def webhook` is what serialises it: one worker's     *)
(* event loop runs handle_signal to its end before it dispatches another.  *)
(***************************************************************************)
EXTENDS Trading

StageOf(r) ==
  IF task[r] = "placed" THEN "traded"
  ELSE IF pc[r] = "done" \/ task[r] = "failed" THEN "refused"
  ELSE IF pc[r] \in {"new", "settings"} THEN "waiting"
  ELSE "admitted"

Abstract == INSTANCE SerialTrader WITH
  stage <- [r \in Req |-> StageOf(r)],
  deal <- [r \in Req |-> [kind |-> kind[r], sym |-> sym[r]]],
  cap <- [r \in Req |-> snap[r].cap]

\* The conditions of the refinement: one worker, signals, whole shares, and of the
\* faults only crashes and the operator's changes of the settings.
SerialOK ==
  /\ \E w : Worker = {w}
  /\ Kinds \subseteq SignalKinds /\ Lot = 1
  /\ Faults \subseteq {"restart", "settings"}

\* trading.py:1, "the bridge is the source of truth for position state": a
\* signal behaves as one atomic gate-and-trade step on the account as it is
\* when the order is sent, whatever the operator does to the settings.
ImplementsSerialTrader == Abstract!Spec
=============================================================================
