------------------------------ MODULE Trading ------------------------------
(***************************************************************************)
(* The TradingView-to-IBKR bridge: the webhook handler and its gates       *)
(* (app/main.py webhook, app/trading.py), the dashboard's manual orders,   *)
(* kill switch and settings form, and the order coroutine that             *)
(* IBKRBroker.place_order leaves on the broker's private event loop.       *)
(*                                                                         *)
(* One request is one HTTP request.  A handler reads the settings, the     *)
(* connection and the account in separate steps, and every other request,  *)
(* the gateway and the operator may act between two of them.  Quantities   *)
(* are counted in 1/Lot shares: IBKR positions may be fractional, orders   *)
(* are int().                                                              *)
(***************************************************************************)
EXTENDS Integers, FiniteSets, Sequences

CONSTANTS
  Req,        \* the HTTP requests of a behaviour
  Worker,     \* uvicorn worker processes (each has its own broker singleton)
  Symbol,
  Kinds,      \* the kinds of request that arrive, a subset of AllKinds
  Lot,        \* units per share
  BuyQty,     \* quantities (units) a BUY may be sized to, or ask for
  InitQty,    \* quantities (units) a symbol may hold at the start
  Caps,       \* values of the max_positions setting
  Faults      \* what the environment may do, a subset of AllFaults

SignalKinds == {"buy", "sell"}                  \* POST /webhook
ManualKinds == {"mbuy", "msell", "flatten"}     \* POST /api/manual
AllKinds    == SignalKinds \cup ManualKinds

\* "resting"  an order may stay unfilled after place_order has returned
\* "timeout"  a broker call may fail or outlive the future.result() timeout
\* "reconnect" the gateway session may go down and come back
\* "restart"  a worker process may be killed and started again
\* "settings" the settings form may be saved while requests are in flight
AllFaults == {"resting", "timeout", "reconnect", "restart", "settings"}

ASSUME TradingAssumption ==
  /\ Kinds \subseteq AllKinds
  /\ Faults \subseteq AllFaults
  /\ IsFiniteSet(Symbol)
  /\ Lot \in Nat \ {0}
  /\ BuyQty \subseteq Nat \ {0}
  /\ InitQty \subseteq Nat
  /\ Caps \subseteq Nat

VARIABLES
  settings,   \* the settings table, the keys the gates read
  form,       \* values of the settings form being saved
  formNext,   \* next key update_settings writes, 0 when no save is running
  connected,  \* _ib.isConnected() of each worker's broker
  position,   \* shares held at IBKR, the account's truth
  pc,         \* control state of each request's handler
  kind, sym, wrk,   \* what the request asks, and the worker that serves it
  snap,       \* the settings the handler read: s = db.get_all_settings()
  held,       \* what position_qty() told the handler
  result,     \* what the handler reported
  task,       \* the _place() coroutine of the request
  qty, left,  \* size of the order sent to IBKR, and what is still working
  seen,       \* history: views of the symbol's position since arrival
  armed,      \* history: the settings allowed the request at some instant
  fewest,     \* history: fewest symbols open against the cap since arrival
  stale       \* history: an order was sent on outdated knowledge of a symbol

broker   == <<connected, position>>
store    == <<settings, form, formNext>>
request  == <<kind, sym, wrk>>
handler  == <<pc, snap, held, result>>
orders   == <<task, qty, left>>
history  == <<seen, armed, fewest>>
vars == <<broker, store, request, handler, orders, history, stale>>

Settings == [enabled : BOOLEAN, buy : BOOLEAN, sell : BOOLEAN, cap : Caps]

\* The order in which api_settings lists the keys is the order of the writes.
SaveOrder == <<"cap", "enabled", "buy", "sell">>

IsSignal(r) == kind[r] \in SignalKinds
Running(r)  == pc[r] \notin {"new", "done"}
Fault(f)    == f \in Faults

\* int(qty): an order is for whole shares, truncated.
Whole(q) == q - (q % Lot)
Abs(q)   == IF q < 0 THEN -q ELSE q

Side(r) == IF \/ kind[r] \in {"buy", "mbuy"}
              \/ kind[r] = "flatten" /\ held[r] < 0
           THEN "BUY" ELSE "SELL"

\* The per-side toggles and the kill switch, as handle_signal tests them.
Allows(s, k) == s.enabled /\ (k = "buy" => s.buy) /\ (k = "sell" => s.sell)

\* What positions() returns to a worker: [] when its broker is disconnected.
View(w, s)  == IF connected[w] THEN position[s] ELSE 0
OpenIn(w)   == {s \in Symbol : View(w, s) # 0}
\* Symbols counted against the cap for a buy of s; -1 when s is open already.
Counted(w, s) == IF s \in OpenIn(w) THEN -1 ELSE Cardinality(OpenIn(w))

\* Orders of symbol s that IBKR has accepted and not filled or cancelled.
Working(s) == {r \in Req : sym[r] = s /\ left[r] > 0}

\* Variation: a handler in the thread pool leaves the event loop free.
AlwaysFree(w) == TRUE

\* `async def webhook` runs handle_signal on the worker's event loop: while
\* it does, the worker dispatches nothing else.
LoopFree(w) == \A r \in Req : wrk[r] = w /\ IsSignal(r) => ~Running(r)

-----------------------------------------------------------------------------
Init ==
  /\ settings \in {s \in Settings : s.buy /\ s.sell}
  /\ form = settings /\ formNext = 0
  /\ connected \in [Worker -> BOOLEAN]
  /\ \A v, w \in Worker : connected[v] /\ connected[w] => v = w
  /\ position \in [Symbol -> InitQty]
  /\ kind \in [Req -> Kinds] /\ sym \in [Req -> Symbol] /\ wrk \in [Req -> Worker]
  /\ pc = [r \in Req |-> "new"]
  /\ snap = [r \in Req |-> settings]
  /\ held = [r \in Req |-> 0]
  /\ result = [r \in Req |-> "none"]
  /\ task = [r \in Req |-> "none"]
  /\ qty = [r \in Req |-> 0] /\ left = [r \in Req |-> 0]
  /\ seen = [r \in Req |-> {}]
  /\ armed = [r \in Req |-> FALSE]
  /\ fewest = [r \in Req |-> Cardinality(Symbol)]
  /\ stale = [s \in Symbol |-> FALSE]

Goto(r, l) == pc' = [pc EXCEPT ![r] = l]
Finish(r, res) == Goto(r, "done") /\ result' = [result EXCEPT ![r] = res]

\* The history variables watch a request from its arrival to its order.
Watched(r) == (Running(r) /\ task[r] # "placed") \/ task[r] = "pending"

Observe ==
  /\ UNCHANGED request
  /\ LET Watch(r, old, new, none) ==
           IF Watched(r)' THEN new ELSE IF task'[r] = "placed" THEN old ELSE none
     IN /\ seen' = [r \in Req |->
             Watch(r, seen[r], seen[r] \cup {View(wrk[r], sym[r])'}, {})]
        /\ armed' = [r \in Req |->
             Watch(r, armed[r], armed[r] \/ Allows(settings, kind[r])', FALSE)]
        /\ fewest' = [r \in Req |->
             LET c == Counted(wrk[r], sym[r])'
             IN Watch(r, fewest[r], IF c < fewest[r] THEN c ELSE fewest[r], Cardinality(Symbol))]

\* The event loop dispatches the request: webhook() past its secret check, or
\* api_manual handed to the thread pool.
Arrive(r) ==
  /\ pc[r] = "new" /\ LoopFree(wrk[r])
  /\ Goto(r, "settings")
  /\ UNCHANGED <<broker, store, snap, held, result, orders, stale>>
  /\ Observe

\* Variation: the kill switch and the toggles are not tested.
ReadSettingsUnchecked(r) ==
  /\ pc[r] = "settings"
  /\ snap' = [snap EXCEPT ![r] = settings]
  /\ Goto(r, IF IsSignal(r) THEN "conn" ELSE IF kind[r] = "flatten" THEN "held" ELSE "submit")
  /\ UNCHANGED <<broker, store, held, result, orders, stale>>
  /\ Observe

\* s = db.get_all_settings(), one locked query, and the tests on s.
ReadSettings(r) ==
  /\ pc[r] = "settings"
  /\ snap' = [snap EXCEPT ![r] = settings]
  /\ \/ /\ IsSignal(r) /\ Allows(settings, kind[r])
        /\ Goto(r, "conn") /\ UNCHANGED result
     \/ /\ IsSignal(r) /\ ~Allows(settings, kind[r])
        /\ Finish(r, "rejected")
     \/ /\ ~IsSignal(r)
        /\ Goto(r, IF kind[r] = "flatten" THEN "held" ELSE "submit")
        /\ UNCHANGED result
  /\ UNCHANGED <<broker, store, held, orders, stale>>
  /\ Observe

CheckConnected(r) ==
  /\ pc[r] = "conn"
  /\ \/ connected[wrk[r]] /\ Goto(r, "held") /\ UNCHANGED result
     \/ ~connected[wrk[r]] /\ Finish(r, "rejected")
  /\ UNCHANGED <<broker, store, snap, held, orders, stale>>
  /\ Observe

\* Variation: a BUY is let through whatever is held.
ReadHeldUngated(r) ==
  /\ pc[r] = "held"
  /\ held' = [held EXCEPT ![r] = View(wrk[r], sym[r])]
  /\ Goto(r, IF kind[r] = "buy" THEN "open" ELSE "submit")
  /\ UNCHANGED <<broker, store, snap, result, orders, stale>>
  /\ Observe

\* position_qty: a live positions() request, then the gate of the kind.
ReadHeld(r) ==
  LET v == View(wrk[r], sym[r]) IN
  /\ pc[r] = "held"
  /\ held' = [held EXCEPT ![r] = v]
  /\ \/ kind[r] = "buy" /\ v <= 0 /\ Goto(r, "open") /\ UNCHANGED result
     \/ kind[r] = "buy" /\ v > 0 /\ Finish(r, "rejected")
     \/ kind[r] = "sell" /\ v > 0 /\ Goto(r, "submit") /\ UNCHANGED result
     \/ kind[r] = "sell" /\ v <= 0 /\ Finish(r, "rejected")
     \/ kind[r] = "flatten" /\ v # 0 /\ Goto(r, "submit") /\ UNCHANGED result
     \/ kind[r] = "flatten" /\ v = 0 /\ Finish(r, "noop")
  /\ UNCHANGED <<broker, store, snap, orders, stale>>
  /\ Observe

\* Variation: the cap is off by one.
ReadOpenInclusive(r) ==
  /\ pc[r] = "open"
  /\ \/ /\ Counted(wrk[r], sym[r]) <= snap[r].cap
        /\ Goto(r, "submit") /\ UNCHANGED result
     \/ /\ Counted(wrk[r], sym[r]) > snap[r].cap
        /\ Finish(r, "rejected")
  /\ UNCHANGED <<broker, store, snap, held, orders, stale>>
  /\ Observe

\* The max_positions cap, on a second positions() request.
ReadOpen(r) ==
  /\ pc[r] = "open"
  /\ \/ /\ Counted(wrk[r], sym[r]) < snap[r].cap
        /\ Goto(r, "submit") /\ UNCHANGED result
     \/ /\ Counted(wrk[r], sym[r]) >= snap[r].cap
        /\ Finish(r, "rejected")
  /\ UNCHANGED <<broker, store, snap, held, orders, stale>>
  /\ Observe

\* A positions() request that fails is caught by nobody in handle_signal: the
\* webhook answers 500.  api_manual logs it.
ReadFails(r) ==
  /\ Fault("timeout") /\ pc[r] \in {"held", "open"}
  /\ Finish(r, "raised")
  /\ UNCHANGED <<broker, store, snap, held, orders, stale>>
  /\ Observe

\* place_order: refused when disconnected, else the coroutine is submitted.
Submit(r) ==
  /\ pc[r] = "submit"
  /\ \/ /\ connected[wrk[r]]
        /\ Goto(r, "wait") /\ UNCHANGED result
        /\ task' = [task EXCEPT ![r] = "pending"]
     \/ /\ ~connected[wrk[r]]
        /\ Finish(r, "rejected") /\ UNCHANGED task
  /\ UNCHANGED <<broker, store, snap, held, qty, left, stale>>
  /\ Observe

\* Variations: an exit keeps the sign of the position, is for the quantity of
\* the signal, or is rounded up to whole shares.
OrderQtySigned(r) == IF kind[r] \in {"sell", "flatten"} THEN {Whole(held[r])}
                     ELSE {Whole(q) : q \in BuyQty}
OrderQtyOfSignal(r) == {Whole(q) : q \in BuyQty}
OrderQtyRoundedUp(r) == IF kind[r] \in {"sell", "flatten"}
                        THEN {Whole(Abs(held[r]) + Lot - 1)}
                        ELSE {Whole(q) : q \in BuyQty}

\* What _place() orders: int() of the quantity it was given, or the sized one.
OrderQty(r) == IF kind[r] \in {"sell", "flatten"} THEN {Whole(Abs(held[r]))}
               ELSE {Whole(q) : q \in BuyQty}

Filled(r, n) ==
  LET bought == IF Side(r) = "BUY" THEN n ELSE -n
  IN position' = [position EXCEPT ![sym[r]] = @ + bought]

\* History only: the order acts on knowledge of the account that is not true
\* any more (or, sold by hand, on none): another order of the symbol is still
\* working, or the position to exit is not the one that was read.
Outdated(r) ==
  \/ Working(sym[r]) # {}
  \/ kind[r] = "msell"
  \/ Side(r) = "SELL" /\ held[r] # position[sym[r]]

\* _place() after qualifying and pricing: placeOrder.  IBKR fills the order at
\* once unless it may rest (limit orders, closed market).
PlaceOrder(r) ==
  /\ task[r] = "pending" /\ connected[wrk[r]]
  /\ task' = [task EXCEPT ![r] = "placed"]
  /\ stale' = [stale EXCEPT ![sym[r]] = @ \/ Outdated(r)]
  /\ \E q \in OrderQty(r) \ {0} :
       /\ qty' = [qty EXCEPT ![r] = q]
       /\ IF Fault("resting")
            THEN left' = [left EXCEPT ![r] = q] /\ UNCHANGED position
            ELSE Filled(r, q) /\ UNCHANGED left
  /\ UNCHANGED <<connected, store, handler>>
  /\ Observe

\* _place() raises: no contract, no price, quantity 0, connection lost.
FailOrder(r) ==
  /\ task[r] = "pending"
  /\ task' = [task EXCEPT ![r] = "failed"]
  /\ UNCHANGED <<broker, store, handler, qty, left, stale>>
  /\ Observe

Answer(r) ==
  /\ pc[r] = "wait" /\ task[r] \in {"placed", "failed"}
  /\ Finish(r, IF task[r] = "placed" THEN "accepted" ELSE "rejected")
  /\ UNCHANGED <<broker, store, snap, held, orders, stale>>
  /\ Observe

\* Variation: future.result() without a timeout.
GiveUpWhenAnswered(r) ==
  /\ Fault("timeout") /\ pc[r] = "wait" /\ task[r] # "pending"
  /\ Finish(r, "rejected")
  /\ UNCHANGED <<broker, store, snap, held, orders, stale>>
  /\ Observe

\* future.result(timeout=45) gives up; the coroutine is not cancelled.
GiveUp(r) ==
  /\ Fault("timeout") /\ pc[r] = "wait"
  /\ Finish(r, "rejected")
  /\ UNCHANGED <<broker, store, snap, held, orders, stale>>
  /\ Observe

Handle(r) == \/ Arrive(r) \/ ReadSettings(r) \/ CheckConnected(r) \/ ReadHeld(r)
             \/ ReadOpen(r) \/ ReadFails(r) \/ Submit(r) \/ Answer(r) \/ GiveUp(r)

-----------------------------------------------------------------------------
\* IBKR: a working order fills, in part or in full, or is cancelled.
Fill(r) ==
  /\ left[r] > 0
  /\ \E n \in {n \in 1..left[r] : n % Lot = 0} :
       Filled(r, n) /\ left' = [left EXCEPT ![r] = @ - n]
  /\ UNCHANGED <<connected, store, handler, task, qty, stale>>
  /\ Observe

CancelOrder(r) ==
  /\ left[r] > 0 /\ left' = [left EXCEPT ![r] = 0]
  /\ UNCHANGED <<broker, store, handler, task, qty, stale>>
  /\ Observe

\* POST /api/disconnect, the gateway's nightly restart, a lost socket, or the
\* first half of connect(), which drops the session it finds.
Disconnect(w) ==
  /\ Fault("reconnect") /\ connected[w]
  /\ connected' = [connected EXCEPT ![w] = FALSE]
  /\ UNCHANGED <<position, store, handler, orders, stale>>
  /\ Observe

\* POST /api/connect.  Every worker connects with the same ibkr_client_id and
\* the gateway refuses a second session of one id.
Connect(w) ==
  /\ \A v \in Worker : ~connected[v]
  /\ connected' = [connected EXCEPT ![w] = TRUE]
  /\ UNCHANGED <<position, store, handler, orders, stale>>
  /\ Observe

\* POST /api/kill.
Kill ==
  /\ settings' = [settings EXCEPT !.enabled = FALSE]
  /\ UNCHANGED <<form, formNext, broker, handler, orders, stale>>
  /\ Observe

\* POST /api/settings: the form holds what the operator's page held.
BeginSave ==
  /\ Fault("settings") /\ formNext = 0
  /\ form' \in Settings /\ formNext' = 1
  /\ UNCHANGED <<settings, broker, handler, orders, stale>>
  /\ Observe

\* update_settings: one committed write per key.
WriteKey ==
  /\ formNext # 0
  /\ LET key == SaveOrder[formNext] IN
       settings' = [settings EXCEPT ![key] = form[key]]
  /\ formNext' = (formNext + 1) % (Len(SaveOrder) + 1)
  /\ form' = IF formNext' = 0 THEN settings' ELSE form
  /\ UNCHANGED <<broker, handler, orders, stale>>
  /\ Observe

\* The process dies (and systemd starts it again): its handlers, coroutines,
\* session and any half-written settings form are gone, IBKR's orders are not.
Restart(w) ==
  /\ Fault("restart")
  /\ pc' = [r \in Req |-> IF wrk[r] = w /\ Running(r) THEN "done" ELSE pc[r]]
  /\ result' = [r \in Req |-> IF wrk[r] = w /\ Running(r) THEN "lost" ELSE result[r]]
  /\ task' = [r \in Req |-> IF wrk[r] = w /\ task[r] = "pending" THEN "failed" ELSE task[r]]
  /\ connected' = [connected EXCEPT ![w] = FALSE]
  /\ formNext' \in {formNext, 0}
  /\ UNCHANGED <<position, settings, form, snap, held, qty, left, stale>>
  /\ Observe

Next ==
  \/ \E r \in Req : Handle(r) \/ PlaceOrder(r) \/ FailOrder(r) \/ Fill(r) \/ CancelOrder(r)
  \/ \E w \in Worker : Disconnect(w) \/ Connect(w) \/ Restart(w)
  \/ Kill \/ BeginSave \/ WriteKey

\* The event loop and the thread pool run every handler on, and the timeout of
\* future.result() ends every wait.
Fairness == \A r \in Req : WF_vars(Handle(r))

Spec == Init /\ [][Next]_vars /\ Fairness

-----------------------------------------------------------------------------
PcStates == {"new", "settings", "conn", "held", "open", "submit", "wait", "done"}
Results  == {"none", "accepted", "rejected", "raised", "noop", "lost"}

\* Every variable keeps its type; a request without an order has nothing working.
TypeOK ==
  /\ settings \in Settings /\ form \in Settings /\ formNext \in 0..Len(SaveOrder)
  /\ connected \in [Worker -> BOOLEAN]
  /\ position \in [Symbol -> Int]
  /\ pc \in [Req -> PcStates] /\ result \in [Req -> Results]
  /\ kind \in [Req -> Kinds] /\ sym \in [Req -> Symbol] /\ wrk \in [Req -> Worker]
  /\ snap \in [Req -> Settings] /\ held \in [Req -> Int]
  /\ task \in [Req -> {"none", "pending", "placed", "failed"}]
  /\ qty \in [Req -> Nat] /\ left \in [Req -> Nat]
  /\ seen \in [Req -> SUBSET Int] /\ armed \in [Req -> BOOLEAN] /\ fewest \in [Req -> Int]
  /\ stale \in [Symbol -> BOOLEAN]

\* README.md:202, "The kill switch disables trading instantly; new signals are
\* rejected": an order a webhook sends comes from a request during whose life
\* the settings allowed it.  A request that arrives after the kill (or the side
\* toggle) and sees no re-enable never trades, however late its coroutine runs.
SignalsArmed == \A r \in Req : IsSignal(r) /\ task[r] = "placed" => armed[r]

\* README.md:32: a webhook BUY is sent only if, at some instant since the
\* request arrived, the worker's view of the account was flat in the symbol and
\* left room under the max_positions the request had read.
BuysFounded ==
  \A r \in Req : kind[r] = "buy" /\ task[r] = "placed" =>
     (\E v \in seen[r] : v <= 0) /\ fewest[r] < snap[r].cap

\* README.md:33 and trading.py:51: a SELL, and a flatten, is for the whole
\* position (in whole shares) the account really had at some instant since the
\* request arrived, never for the signal's own quantity.
ExitsFounded ==
  \A r \in Req : kind[r] \in {"sell", "flatten"} /\ task[r] = "placed" =>
     qty[r] \in {Whole(Abs(v)) : v \in seen[r]} /\ (kind[r] = "sell" => \E v \in seen[r] : v > 0)

\* trading.py:3, "long-only swing design": a symbol can go short only after an
\* order was sent on outdated knowledge of it.  As long as no two orders of a
\* symbol were working together, none was sold by hand and each exit was for
\* the position still held, no fill, cancel, restart or timeout makes it short.
ShortOnlyIfStale == \A s \in Symbol : position[s] < 0 => stale[s]

\* The strengthening of ShortOnlyIfStale that is inductive: a symbol that is
\* not stale has at most one working order, and what a working SELL can still
\* take out of the account is there.
CoveredSells ==
  \A s \in Symbol : ~stale[s] =>
    /\ position[s] >= 0
    /\ \A r \in Working(s) :
         /\ Side(r) = "SELL" => left[r] <= position[s]
         /\ \A q \in Working(s) : q = r

\* Every request that a handler runs is answered: no handler waits for ever on
\* a broker that does not respond.
EveryRequestAnswered == \A r \in Req : pc[r] = "settings" ~> pc[r] = "done"
=============================================================================
