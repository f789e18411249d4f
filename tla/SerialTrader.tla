---------------------------- MODULE SerialTrader ----------------------------
(***************************************************************************)
(* What the gates of app/trading.py promise, as a machine that decides and *)
(* trades in one step: a signal the settings admit is either refused or    *)
(* becomes one order, a BUY while the account is flat in the symbol and    *)
(* below the cap, a SELL of exactly what the account holds.  The step that *)
(* trades sees the account as it is at that instant.                       *)
(***************************************************************************)
EXTENDS Integers, FiniteSets

CONSTANTS Req, Symbol, BuyQty, InitQty, Settings

VARIABLES
  settings,  \* the operator's switches
  position,  \* shares held
  stage,     \* "waiting", "admitted", "refused" or "traded"
  deal,      \* what each request asks: a record of kind and symbol
  cap        \* the max_positions a request was admitted under

vars == <<settings, position, stage, deal, cap>>

Admits(s, k) == s.enabled /\ (k = "buy" => s.buy) /\ (k = "sell" => s.sell)
Open == {s \in Symbol : position[s] # 0}

Init ==
  /\ settings \in Settings
  /\ position \in [Symbol -> InitQty]
  /\ stage = [r \in Req |-> "waiting"]
  /\ deal \in [Req -> [kind : {"buy", "sell"}, sym : Symbol]]
  /\ cap = [r \in Req |-> settings.cap]

Admit(r) ==
  /\ stage[r] = "waiting" /\ Admits(settings, deal[r].kind)
  /\ stage' = [stage EXCEPT ![r] = "admitted"]
  /\ cap' = [cap EXCEPT ![r] = settings.cap]
  /\ UNCHANGED <<settings, position, deal>>

Refuse(r) ==
  /\ stage[r] \in {"waiting", "admitted"}
  /\ stage' = [stage EXCEPT ![r] = "refused"]
  /\ \E c \in {cap[r], settings.cap} : cap' = [cap EXCEPT ![r] = c]
  /\ UNCHANGED <<settings, position, deal>>

Buy(r) ==
  LET s == deal[r].sym IN
  /\ stage[r] = "admitted" /\ deal[r].kind = "buy"
  /\ position[s] <= 0 /\ Cardinality(Open \ {s}) < cap[r]
  /\ stage' = [stage EXCEPT ![r] = "traded"]
  /\ \E q \in BuyQty : position' = [position EXCEPT ![s] = @ + q]
  /\ UNCHANGED <<settings, deal, cap>>

Sell(r) ==
  LET s == deal[r].sym IN
  /\ stage[r] = "admitted" /\ deal[r].kind = "sell"
  /\ position[s] > 0
  /\ stage' = [stage EXCEPT ![r] = "traded"]
  /\ position' = [position EXCEPT ![s] = 0]
  /\ UNCHANGED <<settings, deal, cap>>

Change ==
  /\ settings' \in Settings
  /\ UNCHANGED <<position, stage, deal, cap>>

Next == (\E r \in Req : Admit(r) \/ Refuse(r) \/ Buy(r) \/ Sell(r)) \/ Change
Spec == Init /\ [][Next]_vars
=============================================================================
