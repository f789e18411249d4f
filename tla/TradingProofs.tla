---------------------------- MODULE TradingProofs ----------------------------
(***************************************************************************)
(* Proofs about Trading, for any number of requests, workers and symbols   *)
(* and any combination of faults.                                          *)
(***************************************************************************)
EXTENDS TradingSerial, FiniteSetTheorems, TLAPS

USE DEF Goto, Finish

-----------------------------------------------------------------------------
(* Types *)

LEMMA ViewType ==
  ASSUME TypeOK, NEW w \in Worker, NEW s \in Symbol
  PROVE  /\ View(w, s) \in Int
         /\ Counted(w, s) \in Int
<1>1. View(w, s) \in Int
  BY DEF View, TypeOK
<1>2. IsFiniteSet(OpenIn(w))
  BY TradingAssumption, FS_Subset DEF OpenIn, TradingAssumption
<1>3. Counted(w, s) \in Int
  BY <1>2, FS_CardinalityType DEF Counted
<1> QED
  BY <1>1, <1>3

LEMMA SymbolCount == Cardinality(Symbol) \in Nat
  BY TradingAssumption, FS_CardinalityType DEF TradingAssumption

\* int(): an order asks for no more than it was given, and never less than 0.
LEMMA WholeBounds == \A q \in Nat : Whole(q) \in Nat /\ Whole(q) <= q
  BY TradingAssumption DEF Whole, TradingAssumption

LEMMA OrderQtyType ==
  ASSUME TypeOK, NEW r \in Req, NEW q \in OrderQty(r)
  PROVE  q \in Nat
<1>1. Abs(held[r]) \in Nat
  BY DEF Abs, TypeOK
<1> QED
  BY <1>1, WholeBounds, TradingAssumption DEF OrderQty, TradingAssumption

LEMMA FilledType ==
  ASSUME TypeOK, NEW r \in Req, NEW n \in Nat, Filled(r, n)
  PROVE  /\ position' \in [Symbol -> Int]
         /\ position'[sym[r]] = position[sym[r]] + (IF Side(r) = "BUY" THEN n ELSE -n)
         /\ \A s \in Symbol \ {sym[r]} : position'[s] = position[s]
<1> DEFINE bought == IF Side(r) = "BUY" THEN n ELSE -n
<1>1. bought \in Int
  OBVIOUS
<1>2. position' = [position EXCEPT ![sym[r]] = @ + bought]
  BY DEF Filled
<1>3. sym[r] \in Symbol /\ position \in [Symbol -> Int]
  BY DEF TypeOK
<1> HIDE DEF bought
<1>4. /\ position' \in [Symbol -> Int]
      /\ position'[sym[r]] = position[sym[r]] + bought
      /\ \A s \in Symbol \ {sym[r]} : position'[s] = position[s]
  BY <1>1, <1>2, <1>3
<1> QED
  BY <1>4 DEF bought

LEMMA SaveLength == Len(SaveOrder) = 4
  BY DEF SaveOrder

\* The part of TypeOK that is about the system, not about the history.
SystemType ==
  /\ settings \in Settings /\ form \in Settings /\ formNext \in 0..Len(SaveOrder)
  /\ connected \in [Worker -> BOOLEAN]
  /\ position \in [Symbol -> Int]
  /\ pc \in [Req -> PcStates] /\ result \in [Req -> Results]
  /\ snap \in [Req -> Settings] /\ held \in [Req -> Int]
  /\ task \in [Req -> {"none", "pending", "placed", "failed"}]
  /\ qty \in [Req -> Nat] /\ left \in [Req -> Nat]
  /\ stale \in [Symbol -> BOOLEAN]

LEMMA ObserveViews ==
  ASSUME TypeOK, SystemType', Observe, NEW r \in Req
  PROVE  View(wrk[r], sym[r])' \in Int /\ Counted(wrk[r], sym[r])' \in Int
<1>1. kind' = kind /\ sym' = sym /\ wrk' = wrk
  BY DEF Observe, request
<1>2. View(wrk[r], sym[r])' \in Int
  BY <1>1 DEF View, TypeOK, SystemType
<1>3. OpenIn(wrk[r])' \subseteq Symbol
  BY DEF OpenIn
<1>4. IsFiniteSet(OpenIn(wrk[r])')
  BY <1>3, TradingAssumption, FS_Subset DEF TradingAssumption
<1>5. Cardinality(OpenIn(wrk[r])') \in Nat
  BY <1>4, FS_CardinalityType
<1> QED
  BY <1>2, <1>5 DEF Counted

LEMMA ObserveType ==
  ASSUME TypeOK, SystemType', Observe
  PROVE  TypeOK'
<1>1. kind' = kind /\ sym' = sym /\ wrk' = wrk
  BY DEF Observe, request
<1>2. \A r \in Req : View(wrk[r], sym[r])' \in Int /\ Counted(wrk[r], sym[r])' \in Int
  BY ObserveViews
<1>3. seen' \in [Req -> SUBSET Int]
  BY <1>2 DEF Observe, TypeOK
<1>4. armed' \in [Req -> BOOLEAN]
  BY DEF Observe, TypeOK
<1>5. fewest' \in [Req -> Int]
  BY <1>2, SymbolCount DEF Observe, TypeOK
<1> QED
  BY <1>1, <1>3, <1>4, <1>5 DEF TypeOK, SystemType

LEMMA StepType == TypeOK /\ [Next]_vars => TypeOK'
<1> SUFFICES ASSUME TypeOK, [Next]_vars PROVE TypeOK'
  OBVIOUS
<1> USE DEF SystemType, broker, store, handler, orders, PcStates, Results
<1>1. ASSUME NEW r \in Req, Arrive(r) PROVE SystemType' /\ Observe
  BY <1>1 DEF Arrive, TypeOK
<1>2. ASSUME NEW r \in Req, ReadSettings(r) PROVE SystemType' /\ Observe
  BY <1>2 DEF ReadSettings, TypeOK
<1>3. ASSUME NEW r \in Req, CheckConnected(r) PROVE SystemType' /\ Observe
  BY <1>3 DEF CheckConnected, TypeOK
<1>4. ASSUME NEW r \in Req, ReadHeld(r) PROVE SystemType' /\ Observe
  <2>1. View(wrk[r], sym[r]) \in Int
    BY <1>4, ViewType DEF TypeOK
  <2> QED
    BY <1>4, <2>1 DEF ReadHeld, TypeOK
<1>5. ASSUME NEW r \in Req, ReadOpen(r) PROVE SystemType' /\ Observe
  BY <1>5 DEF ReadOpen, TypeOK
<1>6. ASSUME NEW r \in Req, ReadFails(r) PROVE SystemType' /\ Observe
  BY <1>6 DEF ReadFails, TypeOK
<1>7. ASSUME NEW r \in Req, Submit(r) PROVE SystemType' /\ Observe
  BY <1>7 DEF Submit, TypeOK
<1>8. ASSUME NEW r \in Req, Answer(r) PROVE SystemType' /\ Observe
  BY <1>8 DEF Answer, TypeOK
<1>9. ASSUME NEW r \in Req, GiveUp(r) PROVE SystemType' /\ Observe
  BY <1>9 DEF GiveUp, TypeOK
<1>10. ASSUME NEW r \in Req, PlaceOrder(r) PROVE SystemType' /\ Observe
  <2>1. PICK q \in OrderQty(r) \ {0} :
          /\ qty' = [qty EXCEPT ![r] = q]
          /\ IF Fault("resting")
               THEN left' = [left EXCEPT ![r] = q] /\ UNCHANGED position
               ELSE Filled(r, q) /\ UNCHANGED left
    BY <1>10 DEF PlaceOrder
  <2>2. q \in Nat
    BY OrderQtyType
  <2>3. position' \in [Symbol -> Int] /\ qty' \in [Req -> Nat] /\ left' \in [Req -> Nat]
    BY <2>1, <2>2, FilledType DEF TypeOK
  <2>4. stale' \in [Symbol -> BOOLEAN]
    BY <1>10 DEF PlaceOrder, TypeOK
  <2> QED
    BY <1>10, <2>3, <2>4 DEF PlaceOrder, TypeOK
<1>11. ASSUME NEW r \in Req, FailOrder(r) PROVE SystemType' /\ Observe
  BY <1>11 DEF FailOrder, TypeOK
<1>12. ASSUME NEW r \in Req, Fill(r) PROVE SystemType' /\ Observe
  <2>1. PICK n \in 1..left[r] : Filled(r, n) /\ left' = [left EXCEPT ![r] = @ - n]
    BY <1>12 DEF Fill
  <2>2. n \in Nat /\ n <= left[r] /\ left[r] \in Nat
    BY DEF TypeOK
  <2>3. position' \in [Symbol -> Int]
    BY <2>1, <2>2, FilledType
  <2>4. left' \in [Req -> Nat]
    BY <2>1, <2>2 DEF TypeOK
  <2> QED
    BY <1>12, <2>3, <2>4 DEF Fill, TypeOK
<1>13. ASSUME NEW r \in Req, CancelOrder(r) PROVE SystemType' /\ Observe
  BY <1>13 DEF CancelOrder, TypeOK
<1>14. ASSUME NEW w \in Worker, Disconnect(w) PROVE SystemType' /\ Observe
  BY <1>14 DEF Disconnect, TypeOK
<1>15. ASSUME NEW w \in Worker, Connect(w) PROVE SystemType' /\ Observe
  BY <1>15 DEF Connect, TypeOK
<1>16. ASSUME NEW w \in Worker, Restart(w) PROVE SystemType' /\ Observe
  BY <1>16 DEF Restart, TypeOK
<1>17. CASE Kill
  <2>1. SystemType' /\ Observe
    BY <1>17 DEF Kill, TypeOK, Settings
  <2> QED
    BY <2>1, ObserveType
<1>18. CASE BeginSave
  <2>1. SystemType' /\ Observe
    BY <1>18, SaveLength DEF BeginSave, TypeOK
  <2> QED
    BY <2>1, ObserveType
<1>19. CASE WriteKey
  <2>1. SystemType' /\ Observe
    <3>1. formNext \in 1..4 /\ formNext' \in 0..4
      BY <1>19, SaveLength DEF WriteKey, TypeOK
    <3>2. SaveOrder[formNext] \in {"cap", "enabled", "buy", "sell"}
      BY <3>1 DEF SaveOrder
    <3>3. settings' \in Settings
      BY <1>19, <3>2 DEF WriteKey, TypeOK, Settings
    <3> QED
      BY <1>19, <3>1, <3>3, SaveLength DEF WriteKey, TypeOK
  <2> QED
    BY <2>1, ObserveType
<1>20. CASE UNCHANGED vars
  BY <1>20 DEF vars, TypeOK, history, request
<1> QED
  BY <1>1, <1>2, <1>3, <1>4, <1>5, <1>6, <1>7, <1>8, <1>9, <1>10, <1>11, <1>12, <1>13, <1>14, <1>15, <1>16, <1>17, <1>18, <1>19, <1>20, ObserveType DEF Next, Handle

LEMMA InitType == Init => TypeOK
<1> SUFFICES ASSUME Init PROVE TypeOK
  OBVIOUS
<1>1. settings \in Settings /\ form \in Settings /\ formNext \in 0..Len(SaveOrder)
  BY SaveLength DEF Init
<1>2. position \in [Symbol -> Int]
  <2>1. position \in [Symbol -> InitQty]
    BY DEF Init
  <2>2. InitQty \subseteq Int
    BY TradingAssumption DEF TradingAssumption
  <2> QED
    BY <2>1, <2>2
<1>3. snap \in [Req -> Settings] /\ fewest \in [Req -> Int]
  BY <1>1, SymbolCount DEF Init
<1>4. pc \in [Req -> PcStates] /\ result \in [Req -> Results]
  BY DEF Init, PcStates, Results
<1>5. seen \in [Req -> SUBSET Int]
  BY DEF Init
<1> QED
  BY <1>1, <1>2, <1>3, <1>4, <1>5 DEF Init, TypeOK

\* Every variable of the bridge keeps its type in every behaviour.
THEOREM TypeCorrect == Spec => []TypeOK
  BY InitType, StepType, PTL DEF Spec

-----------------------------------------------------------------------------
(* The gates: what a request has seen by the time it may trade. *)

Sent(r) == task[r] \in {"pending", "placed"}

\* A handler that has not submitted has no coroutine, without an order nothing
\* works, and only buys reach the cap.
Unsent(r) ==
  /\ pc[r] \in {"new", "settings", "conn", "held", "open", "submit"} => task[r] = "none"
  /\ task[r] # "placed" => left[r] = 0
  /\ pc[r] = "open" => kind[r] = "buy"

Armed(r) ==
  IsSignal(r) /\ (pc[r] \in {"conn", "held", "open", "submit"} \/ Sent(r)) => armed[r]

FlatSeen(r) ==
  kind[r] = "buy" /\ (pc[r] \in {"open", "submit"} \/ Sent(r)) => \E v \in seen[r] : v <= 0

RoomSeen(r) ==
  kind[r] = "buy" /\ (pc[r] = "submit" \/ Sent(r)) => fewest[r] < snap[r].cap

HeldSeen(r) ==
  kind[r] \in {"sell", "flatten"} /\ (pc[r] = "submit" \/ Sent(r)) =>
     held[r] \in seen[r] /\ (kind[r] = "sell" => held[r] > 0)

QtyHeld(r) ==
  kind[r] \in {"sell", "flatten"} /\ task[r] = "placed" => qty[r] = Whole(Abs(held[r]))

Gated(r) == /\ Unsent(r) /\ Armed(r) /\ FlatSeen(r)
            /\ RoomSeen(r) /\ HeldSeen(r) /\ QtyHeld(r)

GateInv == \A r \in Req : Gated(r)

\* While a request is watched, and once its order is placed, what it has seen
\* is never forgotten; while it is watched the present view is recorded.
LEMMA ObserveGrows ==
  ASSUME TypeOK, TypeOK', Observe, NEW r \in Req
  PROVE  /\ kind'[r] = kind[r] /\ sym'[r] = sym[r] /\ wrk'[r] = wrk[r]
         /\ Watched(r)' \/ task'[r] = "placed" =>
              /\ seen[r] \subseteq seen'[r]
              /\ armed[r] => armed'[r]
              /\ fewest'[r] <= fewest[r]
         /\ Watched(r)' =>
              /\ View(wrk[r], sym[r])' \in seen'[r]
              /\ Allows(settings, kind[r])' => armed'[r]
              /\ fewest'[r] <= Counted(wrk[r], sym[r])'
<1>1. kind' = kind /\ sym' = sym /\ wrk' = wrk
  BY DEF Observe, request
<1>2. Watched(r)' \/ task'[r] = "placed" => seen[r] \subseteq seen'[r]
  BY DEF Observe, TypeOK
<1>3. Watched(r)' \/ task'[r] = "placed" => (armed[r] => armed'[r])
  BY DEF Observe, TypeOK
<1>4. Counted(wrk[r], sym[r])' \in Int
  BY ObserveViews DEF TypeOK, SystemType
<1> DEFINE c == Counted(wrk[r], sym[r])'
<1>5. Watched(r)' => fewest'[r] = IF c < fewest[r] THEN c ELSE fewest[r]
  BY DEF Observe, TypeOK
<1>6. ~Watched(r)' /\ task'[r] = "placed" => fewest'[r] = fewest[r]
  BY DEF Observe, TypeOK
<1>7. fewest[r] \in Int /\ c \in Int
  BY <1>4 DEF TypeOK
<1>8. Watched(r)' \/ task'[r] = "placed" => fewest'[r] <= fewest[r]
  BY <1>5, <1>6, <1>7
<1>9. Watched(r)' => View(wrk[r], sym[r])' \in seen'[r]
  BY DEF Observe, TypeOK
<1>10. Watched(r)' => (Allows(settings, kind[r])' => armed'[r])
  BY DEF Observe, TypeOK
<1>11. Watched(r)' => fewest'[r] <= c
  BY <1>5, <1>7
<1> QED
  BY <1>1, <1>2, <1>3, <1>8, <1>9, <1>10, <1>11

LEMMA CapType == ASSUME TypeOK, NEW r \in Req PROVE snap[r].cap \in Int
<1>1. snap[r] \in Settings
  BY DEF TypeOK
<1>2. snap[r].cap \in Caps
  BY <1>1 DEF Settings
<1>3. Caps \subseteq Int
  BY TradingAssumption DEF TradingAssumption
<1> QED
  BY <1>2, <1>3

\* A step that leaves what request p read alone, gives it no new right to
\* trade and does not place its order.
Submitting == {"new", "settings", "conn", "held", "open", "submit"}

NoNewRight(p) ==
  /\ held'[p] = held[p] /\ snap'[p] = snap[p] /\ qty'[p] = qty[p]
  /\ left'[p] = left[p] \/ task'[p] = "placed"
  /\ pc'[p] = "submit" => pc[p] = "submit"
  /\ pc'[p] = "open" => pc[p] = "open"
  /\ pc'[p] \in {"conn", "held"} => pc[p] \in {"conn", "held"}
  /\ pc'[p] \in Submitting => pc[p] \in Submitting /\ task'[p] = task[p]
  /\ task'[p] = "pending" => task[p] = "pending" \/ pc[p] = "submit"
  /\ task'[p] = "placed" <=> task[p] = "placed"

LEMMA GatedFrame ==
  ASSUME TypeOK, TypeOK', Observe, NEW p \in Req, Gated(p), NoNewRight(p)
  PROVE  Gated(p)'
<1> USE DEF NoNewRight, Submitting
<1>1. pc'[p] \in {"conn", "held", "open", "submit"} \/ Sent(p)'
        => Watched(p)' \/ task'[p] = "placed"
  BY DEF Watched, Running, Sent, Gated, Unsent
<1>2. Sent(p)' => Sent(p) \/ pc[p] = "submit"
  BY DEF Sent
<1>3. Unsent(p)' /\ QtyHeld(p)'
  BY ObserveGrows DEF Gated, Unsent, QtyHeld, Whole, Abs
<1>4. Armed(p)'
  BY <1>1, <1>2, ObserveGrows DEF Gated, Armed, IsSignal
<1>5. FlatSeen(p)' /\ HeldSeen(p)'
  BY <1>1, <1>2, ObserveGrows DEF Gated, FlatSeen, HeldSeen
<1>6. RoomSeen(p)'
  <2>1. fewest[p] \in Int /\ fewest'[p] \in Int /\ snap[p].cap \in Int
    BY CapType DEF TypeOK
  <2> QED
    BY <1>1, <1>2, <2>1, ObserveGrows DEF Gated, RoomSeen
<1> QED
  BY <1>3, <1>4, <1>5, <1>6 DEF Gated

\* The four steps that earn a right to trade, each on what the step itself reads.
LEMMA ReadSettingsGated ==
  ASSUME TypeOK, TypeOK', NEW r \in Req, ReadSettings(r), Gated(r)
  PROVE  Gated(r)'
<1> USE DEF broker, store, handler, orders
<1>1. Observe /\ task[r] = "none" /\ task'[r] = "none" /\ left'[r] = left[r]
  BY DEF ReadSettings, Gated, Unsent
<1>2. Armed(r)'
  <2>1. CASE IsSignal(r) /\ Allows(settings, kind[r])
    <3>1. Allows(settings, kind[r])' /\ Watched(r)'
      BY <1>1, <2>1, ObserveGrows DEF ReadSettings, Allows, Watched, Running, TypeOK
    <3> QED
      BY <1>1, <3>1, ObserveGrows DEF Armed
  <2>2. CASE ~(IsSignal(r) /\ Allows(settings, kind[r]))
    <3>1. ~IsSignal(r) \/ pc'[r] = "done"
      BY <2>2 DEF ReadSettings, TypeOK
    <3> QED
      BY <1>1, <3>1, ObserveGrows DEF Armed, IsSignal, Sent
  <2> QED
    BY <2>1, <2>2
<1>3. pc'[r] = "submit" => kind[r] \notin {"buy", "sell", "flatten"}
  BY DEF ReadSettings, IsSignal, SignalKinds, TypeOK
<1>4. pc'[r] # "open"
  BY DEF ReadSettings, TypeOK
<1>5. Unsent(r)' /\ QtyHeld(r)' /\ FlatSeen(r)' /\ RoomSeen(r)' /\ HeldSeen(r)'
  BY <1>1, <1>3, <1>4, ObserveGrows DEF Gated, Unsent, QtyHeld, FlatSeen, RoomSeen, HeldSeen, Sent
<1> QED
  BY <1>2, <1>5 DEF Gated

LEMMA ReadHeldGated ==
  ASSUME TypeOK, TypeOK', NEW r \in Req, ReadHeld(r), Gated(r)
  PROVE  Gated(r)'
<1> USE DEF broker, store, handler, orders
<1>1. /\ Observe /\ task[r] = "none" /\ task'[r] = "none" /\ left'[r] = left[r]
      /\ pc[r] = "held" /\ pc'[r] \in {"open", "submit", "done"}
  BY DEF ReadHeld, Gated, Unsent, TypeOK
<1>2. pc'[r] # "done" => Watched(r)'
  BY <1>1 DEF Watched, Running
<1>3. held'[r] = View(wrk[r], sym[r])
  BY DEF ReadHeld, TypeOK
<1>4. View(wrk[r], sym[r])' = View(wrk[r], sym[r])
  BY <1>1 DEF ReadHeld, View, Observe, request
<1>5. pc'[r] # "done" => held'[r] \in seen'[r]
  BY <1>1, <1>2, <1>3, <1>4, ObserveGrows
<1>6. pc'[r] = "open" => kind[r] = "buy" /\ held'[r] <= 0
  BY <1>3 DEF ReadHeld, TypeOK
<1>7. pc'[r] = "submit" => kind[r] # "buy" /\ (kind[r] = "sell" => held'[r] > 0)
  BY <1>3 DEF ReadHeld, TypeOK
<1>8. Armed(r)'
  BY <1>1, <1>2, ObserveGrows DEF Gated, Armed, IsSignal, Sent
<1>9. FlatSeen(r)' /\ RoomSeen(r)' /\ HeldSeen(r)' /\ Unsent(r)' /\ QtyHeld(r)'
  BY <1>1, <1>5, <1>6, <1>7, ObserveGrows
     DEF Gated, FlatSeen, RoomSeen, HeldSeen, Unsent, QtyHeld, Sent
<1> QED
  BY <1>8, <1>9 DEF Gated

LEMMA ReadOpenGated ==
  ASSUME TypeOK, TypeOK', NEW r \in Req, ReadOpen(r), Gated(r)
  PROVE  Gated(r)'
<1> USE DEF broker, store, handler, orders
<1>1. /\ Observe /\ task[r] = "none" /\ task'[r] = "none" /\ left'[r] = left[r]
      /\ pc[r] = "open" /\ pc'[r] \in {"submit", "done"}
      /\ held'[r] = held[r] /\ snap'[r] = snap[r] /\ qty'[r] = qty[r]
  BY DEF ReadOpen, Gated, Unsent, TypeOK
<1>2. pc'[r] # "done" => Watched(r)'
  BY <1>1 DEF Watched, Running
<1>3. Counted(wrk[r], sym[r])' = Counted(wrk[r], sym[r])
  <2>1. UNCHANGED <<connected, position>> /\ wrk' = wrk /\ sym' = sym
    BY <1>1 DEF ReadOpen, Observe, request
  <2>2. OpenIn(wrk[r])' = OpenIn(wrk[r])
    BY <2>1 DEF OpenIn, View
  <2> QED
    BY <2>1, <2>2 DEF Counted
<1>4. RoomSeen(r)'
  <2>1. /\ fewest[r] \in Int /\ fewest'[r] \in Int /\ snap[r].cap \in Int
        /\ Counted(wrk[r], sym[r]) \in Int
    BY CapType, ViewType DEF TypeOK
  <2>2. pc'[r] = "submit" => Counted(wrk[r], sym[r]) < snap[r].cap
    BY DEF ReadOpen, TypeOK
  <2> QED
    BY <1>1, <1>2, <1>3, <2>1, <2>2, ObserveGrows DEF RoomSeen, Sent
<1>5. kind[r] = "buy"
  BY <1>1 DEF Gated, Unsent
<1>6. Armed(r)' /\ FlatSeen(r)'
  BY <1>1, <1>2, ObserveGrows DEF Gated, Armed, FlatSeen, IsSignal, Sent
<1>7. HeldSeen(r)' /\ Unsent(r)' /\ QtyHeld(r)'
  BY <1>1, <1>5, ObserveGrows DEF Gated, HeldSeen, Unsent, QtyHeld
<1> QED
  BY <1>4, <1>6, <1>7 DEF Gated

LEMMA PlaceOrderGated ==
  ASSUME TypeOK, TypeOK', NEW r \in Req, PlaceOrder(r), Gated(r)
  PROVE  Gated(r)'
<1> USE DEF broker, store, handler, orders
<1>1. /\ Observe /\ task[r] = "pending" /\ task'[r] = "placed"
      /\ pc'[r] = pc[r] /\ held'[r] = held[r] /\ snap'[r] = snap[r]
  BY DEF PlaceOrder, TypeOK
<1>2. Sent(r) /\ Sent(r)' /\ pc[r] \notin Submitting
  BY <1>1 DEF Sent, Submitting, Gated, Unsent
<1>3. Unsent(r)'
  BY <1>1, <1>2 DEF Unsent, Submitting
<1>4. Armed(r)' /\ FlatSeen(r)' /\ HeldSeen(r)'
  BY <1>1, <1>2, ObserveGrows DEF Gated, Armed, FlatSeen, HeldSeen, IsSignal
<1>5. RoomSeen(r)'
  <2>1. fewest[r] \in Int /\ fewest'[r] \in Int /\ snap[r].cap \in Int
    BY CapType DEF TypeOK
  <2> QED
    BY <1>1, <1>2, <2>1, ObserveGrows DEF Gated, RoomSeen
<1>6. QtyHeld(r)'
  <2>1. qty'[r] \in OrderQty(r)
    BY DEF PlaceOrder, TypeOK
  <2> QED
    BY <1>1, <2>1, ObserveGrows DEF QtyHeld, OrderQty, Whole, Abs
<1> QED
  BY <1>3, <1>4, <1>5, <1>6 DEF Gated

LEMMA GateStep == TypeOK /\ TypeOK' /\ GateInv /\ [Next]_vars => GateInv'
<1> SUFFICES ASSUME TypeOK, TypeOK', GateInv, [Next]_vars, NEW p \in Req
             PROVE  Gated(p)'
  BY DEF GateInv
<1> USE DEF broker, store, handler, orders
<1>0. Gated(p)
  BY DEF GateInv
<1>1. ASSUME NEW r \in Req, Arrive(r) PROVE Gated(p)'
  <2>1. Observe /\ NoNewRight(p)
    BY <1>0, <1>1 DEF Arrive, TypeOK, NoNewRight, Submitting, Gated, Unsent
  <2> QED
    BY <1>0, <2>1, GatedFrame
<1>2. ASSUME NEW r \in Req, ReadSettings(r) PROVE Gated(p)'
  <2>1. Observe
    BY <1>2 DEF ReadSettings
  <2>2. CASE p # r
    <3>1. NoNewRight(p)
      BY <1>0, <1>2, <2>2 DEF ReadSettings, TypeOK, NoNewRight, Submitting
    <3> QED
      BY <1>0, <2>1, <3>1, GatedFrame
  <2>3. CASE p = r
    BY <1>0, <1>2, <2>1, <2>3, ReadSettingsGated
  <2> QED
    BY <2>2, <2>3
<1>3. ASSUME NEW r \in Req, CheckConnected(r) PROVE Gated(p)'
  <2>1. Observe /\ NoNewRight(p)
    BY <1>0, <1>3 DEF CheckConnected, TypeOK, NoNewRight, Submitting, Gated, Unsent
  <2> QED
    BY <1>0, <2>1, GatedFrame
<1>4. ASSUME NEW r \in Req, ReadHeld(r) PROVE Gated(p)'
  <2>1. Observe
    BY <1>4 DEF ReadHeld
  <2>2. CASE p # r
    <3>1. NoNewRight(p)
      BY <1>0, <1>4, <2>2 DEF ReadHeld, TypeOK, NoNewRight, Submitting
    <3> QED
      BY <1>0, <2>1, <3>1, GatedFrame
  <2>3. CASE p = r
    BY <1>0, <1>4, <2>1, <2>3, ReadHeldGated
  <2> QED
    BY <2>2, <2>3
<1>5. ASSUME NEW r \in Req, ReadOpen(r) PROVE Gated(p)'
  <2>1. Observe
    BY <1>5 DEF ReadOpen
  <2>2. CASE p # r
    <3>1. NoNewRight(p)
      BY <1>0, <1>5, <2>2 DEF ReadOpen, TypeOK, NoNewRight, Submitting
    <3> QED
      BY <1>0, <2>1, <3>1, GatedFrame
  <2>3. CASE p = r
    BY <1>0, <1>5, <2>1, <2>3, ReadOpenGated
  <2> QED
    BY <2>2, <2>3
<1>6. ASSUME NEW r \in Req, ReadFails(r) PROVE Gated(p)'
  <2>1. Observe /\ NoNewRight(p)
    BY <1>0, <1>6 DEF ReadFails, TypeOK, NoNewRight, Submitting, Gated, Unsent
  <2> QED
    BY <1>0, <2>1, GatedFrame
<1>7. ASSUME NEW r \in Req, Submit(r) PROVE Gated(p)'
  <2>1. Observe /\ NoNewRight(p)
    BY <1>0, <1>7 DEF Submit, TypeOK, NoNewRight, Submitting, Gated, Unsent
  <2> QED
    BY <1>0, <2>1, GatedFrame
<1>8. ASSUME NEW r \in Req, Answer(r) PROVE Gated(p)'
  <2>1. Observe /\ NoNewRight(p)
    BY <1>0, <1>8 DEF Answer, TypeOK, NoNewRight, Submitting, Gated, Unsent
  <2> QED
    BY <1>0, <2>1, GatedFrame
<1>9. ASSUME NEW r \in Req, GiveUp(r) PROVE Gated(p)'
  <2>1. Observe /\ NoNewRight(p)
    BY <1>0, <1>9 DEF GiveUp, TypeOK, NoNewRight, Submitting, Gated, Unsent
  <2> QED
    BY <1>0, <2>1, GatedFrame
<1>10. ASSUME NEW r \in Req, PlaceOrder(r) PROVE Gated(p)'
  <2>1. Observe
    BY <1>10 DEF PlaceOrder
  <2>2. CASE p # r
    <3>1. qty'[p] = qty[p] /\ left'[p] = left[p]
      <4>1. PICK q : /\ qty' = [qty EXCEPT ![r] = q]
                     /\ left' = [left EXCEPT ![r] = q] \/ left' = left
        BY <1>10 DEF PlaceOrder
      <4> QED
        BY <2>2, <4>1 DEF TypeOK
    <3>2. pc' = pc /\ held' = held /\ snap' = snap /\ task'[p] = task[p]
      BY <1>10, <2>2 DEF PlaceOrder, TypeOK
    <3>3. NoNewRight(p)
      BY <3>1, <3>2 DEF NoNewRight, Submitting
    <3> QED
      BY <1>0, <2>1, <3>3, GatedFrame
  <2>3. CASE p = r
    BY <1>0, <1>10, <2>1, <2>3, PlaceOrderGated
  <2> QED
    BY <2>2, <2>3
<1>11. ASSUME NEW r \in Req, FailOrder(r) PROVE Gated(p)'
  <2>1. Observe /\ NoNewRight(p)
    BY <1>0, <1>11 DEF FailOrder, TypeOK, NoNewRight, Submitting, Gated, Unsent
  <2> QED
    BY <1>0, <2>1, GatedFrame
<1>12. ASSUME NEW r \in Req, Fill(r) PROVE Gated(p)'
  <2>1. Observe /\ NoNewRight(p)
    BY <1>0, <1>12 DEF Fill, TypeOK, NoNewRight, Submitting, Gated, Unsent
  <2> QED
    BY <1>0, <2>1, GatedFrame
<1>13. ASSUME NEW r \in Req, CancelOrder(r) PROVE Gated(p)'
  <2>1. Observe /\ NoNewRight(p)
    BY <1>0, <1>13 DEF CancelOrder, TypeOK, NoNewRight, Submitting, Gated, Unsent
  <2> QED
    BY <1>0, <2>1, GatedFrame
<1>14. ASSUME NEW w \in Worker, Disconnect(w) PROVE Gated(p)'
  <2>1. Observe /\ NoNewRight(p)
    BY <1>0, <1>14 DEF Disconnect, TypeOK, NoNewRight, Submitting, Gated, Unsent
  <2> QED
    BY <1>0, <2>1, GatedFrame
<1>15. ASSUME NEW w \in Worker, Connect(w) PROVE Gated(p)'
  <2>1. Observe /\ NoNewRight(p)
    BY <1>0, <1>15 DEF Connect, TypeOK, NoNewRight, Submitting, Gated, Unsent
  <2> QED
    BY <1>0, <2>1, GatedFrame
<1>16. ASSUME NEW w \in Worker, Restart(w) PROVE Gated(p)'
  <2>1. Observe /\ NoNewRight(p)
    BY <1>0, <1>16 DEF Restart, TypeOK, NoNewRight, Submitting, Gated, Unsent
  <2> QED
    BY <1>0, <2>1, GatedFrame
<1>17. CASE Kill
  <2>1. Observe /\ NoNewRight(p)
    BY <1>17 DEF Kill, NoNewRight, Submitting
  <2> QED
    BY <1>0, <2>1, GatedFrame
<1>18. CASE BeginSave
  <2>1. Observe /\ NoNewRight(p)
    BY <1>18 DEF BeginSave, NoNewRight, Submitting
  <2> QED
    BY <1>0, <2>1, GatedFrame
<1>19. CASE WriteKey
  <2>1. Observe /\ NoNewRight(p)
    BY <1>19 DEF WriteKey, NoNewRight, Submitting
  <2> QED
    BY <1>0, <2>1, GatedFrame
<1>20. CASE UNCHANGED vars
  BY <1>0, <1>20 DEF vars, history, request, Gated, Unsent, Armed, FlatSeen, RoomSeen, HeldSeen, QtyHeld, Sent, IsSignal, Whole, Abs
<1> QED
  BY <1>1, <1>2, <1>3, <1>4, <1>5, <1>6, <1>7, <1>8, <1>9, <1>10, <1>11, <1>12, <1>13, <1>14, <1>15, <1>16, <1>17, <1>18, <1>19, <1>20 DEF Next, Handle

LEMMA GateInit == Init => GateInv
  BY DEF Init, GateInv, Gated, Unsent, Armed, FlatSeen, RoomSeen, HeldSeen, QtyHeld, Sent

\* A request has passed the gates of the stages before its own, and the history holds what
\* it saw there.
THEOREM GatesHold == Spec => []GateInv
<1>1. TypeOK /\ GateInv /\ [Next]_vars => TypeOK' /\ GateInv'
  BY StepType, GateStep
<1> QED
  BY InitType, GateInit, <1>1, PTL DEF Spec

\* README.md:202, the kill switch: no order of a webhook request during whose
\* life the settings never allowed it.
THEOREM KillSwitchHolds == Spec => []SignalsArmed
<1>1. GateInv => SignalsArmed
  BY DEF GateInv, Gated, Armed, SignalsArmed, Sent
<1> QED
  BY GatesHold, <1>1, PTL

\* README.md:32: every webhook BUY was founded on a flat view and on room under
\* the cap, both seen during the request.
THEOREM BuysAreFounded == Spec => []BuysFounded
<1>1. GateInv => BuysFounded
  BY DEF GateInv, Gated, FlatSeen, RoomSeen, BuysFounded, Sent
<1> QED
  BY GatesHold, <1>1, PTL

\* README.md:33: every SELL of a signal and every flatten is for the whole of a
\* position seen during the request.
THEOREM ExitsAreFounded == Spec => []ExitsFounded
<1>1. GateInv => ExitsFounded
  BY DEF GateInv, Gated, HeldSeen, QtyHeld, ExitsFounded, Sent
<1> QED
  BY GatesHold, <1>1, PTL

-----------------------------------------------------------------------------
(* A symbol goes short only on outdated knowledge. *)

\* The promise of CoveredSells about one symbol.
Covered(s) ==
  ~stale[s] =>
    /\ position[s] >= 0
    /\ \A r \in Working(s) :
         /\ Side(r) = "SELL" => left[r] <= position[s]
         /\ \A q \in Working(s) : q = r

LEMMA CoveredFrame ==
  ASSUME CoveredSells, UNCHANGED request, UNCHANGED <<position, left, stale>>,
         \A r \in Req : left[r] > 0 => held'[r] = held[r]
  PROVE  CoveredSells'
<1>1. \A s \in Symbol : Working(s)' = Working(s)
  BY DEF Working, request
<1>2. \A s \in Symbol : \A r \in Working(s) : Side(r)' = Side(r)
  BY DEF Working, Side, request
<1> QED
  BY <1>1, <1>2 DEF CoveredSells

LEMMA CoveredCancel ==
  ASSUME TypeOK, CoveredSells, NEW r \in Req, CancelOrder(r)
  PROVE  CoveredSells'
<1> USE DEF broker, store, handler, orders
<1>1. UNCHANGED <<position, stale, held>> /\ UNCHANGED request
  BY DEF CancelOrder, Observe
<1>2. \A s \in Symbol : Working(s)' \subseteq Working(s)
  BY <1>1 DEF CancelOrder, Working, request, TypeOK
<1>3. \A s \in Symbol : \A p \in Working(s)' : left'[p] = left[p] /\ Side(p)' = Side(p)
  BY <1>1 DEF CancelOrder, Working, Side, request, TypeOK
<1> QED
  BY <1>1, <1>2, <1>3 DEF CoveredSells

LEMMA CoveredFill ==
  ASSUME TypeOK, TypeOK', CoveredSells, NEW r \in Req, Fill(r)
  PROVE  CoveredSells'
<1> USE DEF broker, store, handler, orders
<1>1. UNCHANGED <<stale, held>> /\ UNCHANGED request
  BY DEF Fill, Observe
<1>2. PICK n \in 1..left[r] : Filled(r, n) /\ left' = [left EXCEPT ![r] = @ - n]
  BY DEF Fill
<1>3. n \in Nat /\ left[r] \in Nat /\ left'[r] = left[r] - n /\ n > 0 /\ n <= left[r]
  BY <1>2 DEF TypeOK
<1>4. \A p \in Req \ {r} : left'[p] = left[p]
  BY <1>2 DEF TypeOK
<1>5. /\ position'[sym[r]] = position[sym[r]] + (IF Side(r) = "BUY" THEN n ELSE -n)
      /\ \A s \in Symbol \ {sym[r]} : position'[s] = position[s]
  BY <1>2, <1>3, FilledType
<1>6. \A s \in Symbol : Working(s)' \subseteq Working(s)
  <2>1. left[r] > 0
    BY <1>3
  <2>2. \A p \in Req : left'[p] > 0 => left[p] > 0
    BY <1>4, <2>1
  <2> QED
    BY <1>1, <2>2 DEF Working, request
<1>7. \A p \in Req : Side(p)' = Side(p)
  BY <1>1 DEF Side, request
<1>8. r \in Working(sym[r])
  BY <1>3 DEF Working
<1>9. ASSUME NEW s \in Symbol PROVE Covered(s)'
  <2>1. CASE s # sym[r]
    <3>1. \A p \in Working(s)' : left'[p] = left[p]
      BY <1>1, <1>4, <2>1 DEF Working, request
    <3>2. position'[s] = position[s] /\ stale'[s] = stale[s] /\ Covered(s)
      BY <1>1, <1>5, <2>1 DEF Covered, CoveredSells
    <3>3. \A p \in Working(s)' : p \in Working(s) /\ Side(p)' = Side(p)
      BY <1>6, <1>7 DEF Working
    <3> QED
      BY <3>1, <3>2, <3>3 DEF Covered
  <2>2. CASE s = sym[r] /\ ~stale[s]
    <3>1. \A p \in Working(s) : p = r
      BY <1>8, <2>2 DEF CoveredSells
    <3>2. position[s] \in Int /\ position[s] >= 0 /\ Side(r) \in {"BUY", "SELL"}
      BY <2>2 DEF CoveredSells, TypeOK, Side
    <3>3. Side(r) = "SELL" => left[r] <= position[s]
      BY <1>8, <2>2 DEF CoveredSells
    <3>4. position'[s] >= 0 /\ (Side(r) = "SELL" => left'[r] <= position'[s])
      BY <1>3, <1>5, <2>2, <3>2, <3>3
    <3> QED
      BY <1>6, <1>7, <3>1, <3>4 DEF Covered
  <2>3. CASE stale[s]
    BY <1>1, <2>3 DEF Covered
  <2> QED
    BY <2>1, <2>2, <2>3
<1> QED
  BY <1>9 DEF Covered, CoveredSells

LEMMA CoveredPlace ==
  ASSUME TypeOK, TypeOK', GateInv, CoveredSells, NEW r \in Req, PlaceOrder(r)
  PROVE  CoveredSells'
<1> USE DEF broker, store, handler, orders
<1>1. UNCHANGED held /\ UNCHANGED request
  BY DEF PlaceOrder, Observe
<1>2. PICK q \in OrderQty(r) \ {0} :
         IF Fault("resting")
           THEN left' = [left EXCEPT ![r] = q] /\ UNCHANGED position
           ELSE Filled(r, q) /\ UNCHANGED left
  BY DEF PlaceOrder
<1>3. q \in Nat /\ q > 0
  BY OrderQtyType
<1>4. left[r] = 0
  BY DEF PlaceOrder, GateInv, Gated, Unsent
<1>5. \A p \in Req : Side(p)' = Side(p) /\ Side(p) \in {"BUY", "SELL"}
  BY <1>1 DEF Side, request
<1>6. \A s \in Symbol : stale'[s] = (stale[s] \/ (s = sym[r] /\ Outdated(r)))
  BY DEF PlaceOrder, TypeOK
<1>7. ASSUME ~Outdated(r), Side(r) = "SELL", position[sym[r]] >= 0
      PROVE  q <= position[sym[r]]
  <2>1. kind[r] \in {"sell", "flatten"} /\ held[r] = position[sym[r]]
    BY <1>7, TradingAssumption DEF Outdated, Side, TypeOK, TradingAssumption, AllKinds,
       SignalKinds, ManualKinds
  <2>2. held[r] \in Nat /\ q = Whole(Abs(held[r]))
    BY <1>7, <2>1 DEF OrderQty, TypeOK
  <2> QED
    BY <2>1, <2>2, WholeBounds DEF Abs
<1>8. ASSUME NEW s \in Symbol, s # sym[r] PROVE Covered(s)'
  <2>1. position'[s] = position[s] /\ stale'[s] = stale[s]
    BY <1>2, <1>3, <1>6, <1>8, FilledType DEF TypeOK
  <2>2. \A p \in Req : sym[p] = s => left'[p] = left[p]
    BY <1>2, <1>8 DEF TypeOK
  <2>3. Working(s)' = Working(s)
    BY <1>1, <2>2 DEF Working, request
  <2>4. \A p \in Working(s) : left'[p] = left[p] /\ Side(p)' = Side(p)
    BY <1>5, <2>2 DEF Working
  <2> QED
    BY <2>1, <2>3, <2>4 DEF Covered, CoveredSells
<1>9. ASSUME NEW s \in Symbol, s = sym[r], ~stale'[s] PROVE Covered(s)'
  <2>1. ~stale[s] /\ ~Outdated(r) /\ Working(s) = {}
    BY <1>6, <1>9 DEF Outdated
  <2>2. position[s] >= 0 /\ position[s] \in Int
    BY <2>1 DEF CoveredSells, TypeOK
  <2>3. \A p \in Req \ {r} : sym[p] = s => left[p] = 0
    <3>1. \A p \in Req : sym[p] = s => ~(left[p] > 0)
      BY <2>1 DEF Working
    <3>2. \A p \in Req : left[p] \in Nat
      BY DEF TypeOK
    <3> QED
      BY <3>1, <3>2
  <2>4. Side(r) = "SELL" => q <= position[s]
    BY <1>7, <1>9, <2>1, <2>2
  <2>5. CASE Fault("resting")
    <3>1. position'[s] = position[s] /\ left'[r] = q
      BY <1>2, <2>5 DEF TypeOK
    <3>2. \A p \in Working(s)' : p = r
      BY <1>1, <1>2, <2>3, <2>5 DEF Working, request, TypeOK
    <3> QED
      BY <1>5, <2>2, <2>4, <3>1, <3>2 DEF Covered
  <2>6. CASE ~Fault("resting")
    <3>1. Working(s)' = {}
      BY <1>1, <1>2, <2>1, <2>6 DEF Working, request
    <3>2. position'[s] = position[s] + (IF Side(r) = "BUY" THEN q ELSE -q)
      BY <1>2, <1>3, <1>9, <2>6, FilledType
    <3>3. position'[s] >= 0
      BY <1>3, <1>5, <2>2, <2>4, <3>2
    <3> QED
      BY <3>1, <3>3 DEF Covered
  <2> QED
    BY <2>5, <2>6
<1> QED
  BY <1>8, <1>9 DEF Covered, CoveredSells

LEMMA CoveredStep ==
  TypeOK /\ TypeOK' /\ GateInv /\ CoveredSells /\ [Next]_vars => CoveredSells'
<1> SUFFICES ASSUME TypeOK, TypeOK', GateInv, CoveredSells, [Next]_vars
             PROVE  CoveredSells'
  OBVIOUS
<1> USE DEF broker, store, handler, orders
<1>1. ASSUME NEW r \in Req, Arrive(r) PROVE CoveredSells'
  BY <1>1, CoveredFrame DEF Arrive, Observe
<1>2. ASSUME NEW r \in Req, ReadSettings(r) PROVE CoveredSells'
  BY <1>2, CoveredFrame DEF ReadSettings, Observe
<1>3. ASSUME NEW r \in Req, CheckConnected(r) PROVE CoveredSells'
  BY <1>3, CoveredFrame DEF CheckConnected, Observe
<1>4. ASSUME NEW r \in Req, ReadHeld(r) PROVE CoveredSells'
  <2>1. left[r] = 0
    BY <1>4 DEF ReadHeld, GateInv, Gated, Unsent
  <2>2. \A p \in Req : left[p] > 0 => held'[p] = held[p]
    BY <1>4, <2>1 DEF ReadHeld, TypeOK
  <2> QED
    BY <1>4, <2>2, CoveredFrame DEF ReadHeld, Observe
<1>5. ASSUME NEW r \in Req, ReadOpen(r) PROVE CoveredSells'
  BY <1>5, CoveredFrame DEF ReadOpen, Observe
<1>6. ASSUME NEW r \in Req, ReadFails(r) PROVE CoveredSells'
  BY <1>6, CoveredFrame DEF ReadFails, Observe
<1>7. ASSUME NEW r \in Req, Submit(r) PROVE CoveredSells'
  BY <1>7, CoveredFrame DEF Submit, Observe
<1>8. ASSUME NEW r \in Req, Answer(r) PROVE CoveredSells'
  BY <1>8, CoveredFrame DEF Answer, Observe
<1>9. ASSUME NEW r \in Req, GiveUp(r) PROVE CoveredSells'
  BY <1>9, CoveredFrame DEF GiveUp, Observe
<1>10. ASSUME NEW r \in Req, PlaceOrder(r) PROVE CoveredSells'
  BY <1>10, CoveredPlace
<1>11. ASSUME NEW r \in Req, FailOrder(r) PROVE CoveredSells'
  BY <1>11, CoveredFrame DEF FailOrder, Observe
<1>12. ASSUME NEW r \in Req, Fill(r) PROVE CoveredSells'
  BY <1>12, CoveredFill
<1>13. ASSUME NEW r \in Req, CancelOrder(r) PROVE CoveredSells'
  BY <1>13, CoveredCancel
<1>14. ASSUME NEW w \in Worker, Disconnect(w) PROVE CoveredSells'
  BY <1>14, CoveredFrame DEF Disconnect, Observe
<1>15. ASSUME NEW w \in Worker, Connect(w) PROVE CoveredSells'
  BY <1>15, CoveredFrame DEF Connect, Observe
<1>16. ASSUME NEW w \in Worker, Restart(w) PROVE CoveredSells'
  BY <1>16, CoveredFrame DEF Restart, Observe
<1>17. CASE Kill
  BY <1>17, CoveredFrame DEF Kill, Observe
<1>18. CASE BeginSave
  BY <1>18, CoveredFrame DEF BeginSave, Observe
<1>19. CASE WriteKey
  BY <1>19, CoveredFrame DEF WriteKey, Observe
<1>20. CASE UNCHANGED vars
  BY <1>20, CoveredFrame DEF vars
<1> QED
  BY <1>1, <1>2, <1>3, <1>4, <1>5, <1>6, <1>7, <1>8, <1>9, <1>10, <1>11, <1>12, <1>13, <1>14, <1>15, <1>16, <1>17, <1>18, <1>19, <1>20 DEF Next, Handle

LEMMA CoveredInit == Init => CoveredSells
<1> SUFFICES ASSUME Init PROVE CoveredSells
  OBVIOUS
<1>1. \A s \in Symbol : position[s] \in Nat
  BY TradingAssumption DEF Init, TradingAssumption
<1>2. \A s \in Symbol : Working(s) = {}
  BY DEF Init, Working
<1> QED
  BY <1>1, <1>2 DEF CoveredSells

\* What makes the bridge long-only: as long as no order of a symbol was sent on
\* outdated knowledge, every working SELL is covered by shares still held.
THEOREM SellsAreCovered == Spec => []CoveredSells
<1>1. TypeOK /\ GateInv /\ CoveredSells /\ [Next]_vars => CoveredSells'
  BY StepType, CoveredStep
<1> QED
  BY TypeCorrect, GatesHold, CoveredInit, <1>1, PTL DEF Spec

\* trading.py:3, long-only: a symbol is short only after an outdated order.
THEOREM LongUnlessStale == Spec => []ShortOnlyIfStale
<1>1. TypeOK /\ CoveredSells => ShortOnlyIfStale
  BY DEF TypeOK, CoveredSells, ShortOnlyIfStale
<1> QED
  BY TypeCorrect, SellsAreCovered, <1>1, PTL

-----------------------------------------------------------------------------
(* One worker, signals only: the bridge is SerialTrader.  The event loop    *)
(* runs one handler at a time, so what that handler has read is still so    *)
(* when its order goes out.                                                 *)

\* The handler has passed every gate, and its order is not sent yet.
Cleared(r) == pc[r] = "submit" \/ (pc[r] = "wait" /\ task[r] = "pending")

OpenNow == {s \in Symbol : position[s] # 0}

\* What request r has read so far is what the account holds now.
Current(r) ==
  /\ task[r] = "pending" => pc[r] = "wait"
  /\ pc[r] = "wait" => task[r] # "none"
  /\ pc[r] \in {"held", "open"} \/ Cleared(r) => connected[wrk[r]]
  /\ kind[r] = "buy" /\ (pc[r] = "open" \/ Cleared(r)) => position[sym[r]] <= 0
  /\ kind[r] = "buy" /\ Cleared(r) => Cardinality(OpenNow \ {sym[r]}) < snap[r].cap
  /\ kind[r] = "sell" /\ Cleared(r) => held[r] = position[sym[r]] /\ held[r] > 0

Alone == \A q, r \in Req : Running(q) /\ Running(r) => q = r

Settled == /\ \A s \in Symbol : position[s] >= 0
           /\ \A r \in Req : left[r] = 0

SerialInv == Alone /\ Settled /\ \A r \in Req : Current(r)

LEMMA SerialFacts ==
  ASSUME SerialOK, TypeOK
  PROVE  /\ \A v, w \in Worker : v = w
         /\ \A r \in Req : kind[r] \in {"buy", "sell"} /\ IsSignal(r)
         /\ \A q \in Int : Whole(q) = q
         /\ ~Fault("resting") /\ ~Fault("timeout") /\ ~Fault("reconnect")
<1>1. \A r \in Req : kind[r] \in {"buy", "sell"}
  BY DEF SerialOK, TypeOK, SignalKinds
<1>2. \A q \in Int : Whole(q) = q
  BY DEF SerialOK, Whole
<1> QED
  BY <1>1, <1>2 DEF SerialOK, IsSignal, SignalKinds, Fault

\* A request no handler runs has nothing to keep current.
LEMMA IdleCurrent ==
  ASSUME TypeOK, NEW p \in Req, Current(p), ~Running(p), UNCHANGED <<pc[p], task[p]>>
  PROVE  Current(p)'
  BY DEF Current, Running, Cleared

\* A step of the operator or of the broker session: no handler moves.
LEMMA QuietCurrent ==
  ASSUME NEW p \in Req, Current(p), UNCHANGED <<handler, task, position, request>>,
         connected[wrk[p]] => connected'[wrk[p]]
  PROVE  Current(p)'
  BY DEF Current, Cleared, handler, request, OpenNow

LEMMA AloneFrame ==
  ASSUME Alone, \A r \in Req : Running(r)' => Running(r)
  PROVE  Alone'
  BY DEF Alone

\* A step of one handler while no other runs.
LEMMA SoleStep ==
  ASSUME TypeOK, SerialInv, NEW r \in Req, Settled', Current(r)',
         \A p \in Req \ {r} : ~Running(p) /\ UNCHANGED <<pc[p], task[p]>>
  PROVE  SerialInv'
<1>1. \A p \in Req \ {r} : Current(p)'
  BY IdleCurrent DEF SerialInv
<1>2. \A p \in Req \ {r} : ~Running(p)'
  BY DEF Running
<1>3. Alone'
  BY <1>2 DEF Alone
<1> QED
  BY <1>1, <1>3 DEF SerialInv

LEMMA Others ==
  ASSUME Alone, NEW r \in Req, Running(r)
  PROVE  \A p \in Req \ {r} : ~Running(p)
  BY DEF Alone

\* What a connected worker is told is what the account holds.
LEMMA TrueView ==
  ASSUME NEW w \in Worker, connected[w], NEW s \in Symbol
  PROVE  /\ View(w, s) = position[s]
         /\ position[s] = 0 => Counted(w, s) = Cardinality(OpenNow \ {s})
<1>1. \A t \in Symbol : View(w, t) = position[t]
  BY DEF View
<1>2. OpenIn(w) = OpenNow
  BY <1>1 DEF OpenIn, OpenNow
<1>3. position[s] = 0 => s \notin OpenNow /\ OpenNow \ {s} = OpenNow
  BY DEF OpenNow
<1> QED
  BY <1>1, <1>2, <1>3 DEF Counted

\* The order of a signal at the head of its turn: a BUY adds to a flat symbol,
\* a SELL takes all there is.
LEMMA SerialOrder ==
  ASSUME SerialOK, TypeOK, SerialInv, NEW r \in Req, PlaceOrder(r)
  PROVE  /\ pc[r] = "wait" /\ Cleared(r) /\ UNCHANGED <<left, settings, snap, pc>>
         /\ kind[r] = "buy" =>
              \E q \in BuyQty : position' = [position EXCEPT ![sym[r]] = @ + q]
         /\ kind[r] = "sell" => position' = [position EXCEPT ![sym[r]] = 0]
<1>1. task[r] = "pending" /\ pc[r] = "wait" /\ Cleared(r) /\ Current(r)
  BY DEF PlaceOrder, SerialInv, Current, Cleared
<1>2. PICK q \in OrderQty(r) \ {0} : Filled(r, q) /\ UNCHANGED left
  BY SerialFacts DEF PlaceOrder
<1>3. q \in Nat /\ sym[r] \in Symbol /\ position \in [Symbol -> Int] /\ held[r] \in Int
  BY OrderQtyType DEF TypeOK
<1>4. CASE kind[r] = "buy"
  <2>1. PICK b \in BuyQty : q = Whole(b)
    BY <1>4 DEF OrderQty
  <2>2. b \in Int
    BY TradingAssumption DEF TradingAssumption
  <2>3. q = b /\ Side(r) = "BUY"
    BY <1>4, <2>1, <2>2, SerialFacts DEF Side
  <2>4. position' = [position EXCEPT ![sym[r]] = @ + q]
    BY <1>2, <2>3 DEF Filled
  <2> QED
    BY <1>1, <1>2, <1>4, <2>3, <2>4 DEF PlaceOrder, store, handler
<1>5. CASE kind[r] = "sell"
  <2>1. held[r] = position[sym[r]] /\ held[r] > 0
    BY <1>1, <1>5 DEF Current
  <2>2. q = Whole(Abs(held[r])) /\ Abs(held[r]) = held[r] /\ Side(r) = "SELL"
    BY <1>3, <1>5, <2>1 DEF OrderQty, Abs, Side
  <2>3. q = position[sym[r]]
    BY <1>3, <2>1, <2>2, SerialFacts
  <2>4. position' = [position EXCEPT ![sym[r]] = @ + (-q)]
    BY <1>2, <2>2 DEF Filled
  <2>5. position[sym[r]] + (-q) = 0
    BY <1>3, <2>3
  <2>6. position' = [position EXCEPT ![sym[r]] = 0]
    BY <2>4, <2>5
  <2> QED
    BY <1>1, <1>2, <1>5, <2>6 DEF PlaceOrder, store, handler
<1> QED
  BY <1>4, <1>5, SerialFacts

LEMMA SerialStep ==
  SerialOK /\ TypeOK /\ GateInv /\ SerialInv /\ [Next]_vars => SerialInv'
<1> SUFFICES ASSUME SerialOK, TypeOK, GateInv, SerialInv, [Next]_vars PROVE SerialInv'
  OBVIOUS
<1> USE DEF broker, store, handler, orders
<1>a. \A r \in Req : /\ pc[r] \in Submitting => task[r] = "none"
                     /\ pc[r] = "open" => kind[r] = "buy"
  BY DEF GateInv, Gated, Unsent, Submitting
<1>b. \A r \in Req : wrk[r] \in Worker /\ sym[r] \in Symbol /\ position[sym[r]] \in Int
  BY DEF TypeOK
<1>1. ASSUME NEW r \in Req, Arrive(r) PROVE SerialInv'
  <2>1. \A p \in Req : ~Running(p)
    BY <1>1, <1>b, SerialFacts DEF Arrive, LoopFree
  <2>2. Settled' /\ Current(r)'
    BY <1>1, <1>a DEF Arrive, SerialInv, Settled, Current, Cleared, Submitting, TypeOK
  <2>3. \A p \in Req \ {r} : UNCHANGED <<pc[p], task[p]>>
    BY <1>1 DEF Arrive, TypeOK
  <2> QED
    BY <2>1, <2>2, <2>3, SoleStep
<1>2. ASSUME NEW r \in Req, ReadSettings(r) PROVE SerialInv'
  <2>1. Settled' /\ Current(r)' /\ Running(r)
    BY <1>2, <1>a, SerialFacts DEF ReadSettings, SerialInv, Settled, Current, Cleared,
       Submitting, Running, TypeOK
  <2>2. \A p \in Req \ {r} : UNCHANGED <<pc[p], task[p]>>
    BY <1>2 DEF ReadSettings, TypeOK
  <2> QED
    BY <2>1, <2>2, Others, SoleStep DEF SerialInv
<1>3. ASSUME NEW r \in Req, CheckConnected(r) PROVE SerialInv'
  <2>1. Settled' /\ Running(r)
    BY <1>3 DEF CheckConnected, SerialInv, Settled, Running
  <2>2. Current(r)'
    BY <1>3, <1>a DEF CheckConnected, Current, Cleared, Submitting, TypeOK, Observe, request
  <2>3. \A p \in Req \ {r} : UNCHANGED <<pc[p], task[p]>>
    BY <1>3 DEF CheckConnected, TypeOK
  <2> QED
    BY <2>1, <2>2, <2>3, Others, SoleStep DEF SerialInv
<1>4. ASSUME NEW r \in Req, ReadHeld(r) PROVE SerialInv'
  <2>1. Settled' /\ Running(r)
    BY <1>4 DEF ReadHeld, SerialInv, Settled, Running
  <2>2. connected[wrk[r]] /\ task[r] = "none"
    BY <1>4, <1>a DEF ReadHeld, SerialInv, Current, Submitting
  <2>3. View(wrk[r], sym[r]) = position[sym[r]]
    BY <1>b, <2>2, TrueView
  <2>4. /\ UNCHANGED <<kind, sym, wrk, position, connected, snap, task>>
        /\ held'[r] = position[sym[r]]
        /\ \/ pc'[r] = "open" /\ kind[r] = "buy" /\ position[sym[r]] <= 0
           \/ pc'[r] = "submit" /\ kind[r] = "sell" /\ position[sym[r]] > 0
           \/ pc'[r] = "done"
    BY <1>4, <2>3, SerialFacts DEF ReadHeld, TypeOK, Observe, request
  <2>5. Current(r)'
    BY <1>b, <2>2, <2>4 DEF Current, Cleared
  <2>6. \A p \in Req \ {r} : UNCHANGED <<pc[p], task[p]>>
    BY <1>4 DEF ReadHeld, TypeOK
  <2> QED
    BY <2>1, <2>5, <2>6, Others, SoleStep DEF SerialInv
<1>5. ASSUME NEW r \in Req, ReadOpen(r) PROVE SerialInv'
  <2>1. Settled' /\ Running(r)
    BY <1>5 DEF ReadOpen, SerialInv, Settled, Running
  <2>2. connected[wrk[r]] /\ task[r] = "none" /\ kind[r] = "buy" /\ position[sym[r]] <= 0
    BY <1>5, <1>a DEF ReadOpen, SerialInv, Current, Submitting
  <2>3. position[sym[r]] = 0
    BY <1>b, <2>2 DEF SerialInv, Settled
  <2>4. Counted(wrk[r], sym[r]) = Cardinality(OpenNow \ {sym[r]})
    BY <1>b, <2>2, <2>3, TrueView
  <2>5. /\ UNCHANGED <<kind, sym, wrk, position, connected, snap, task, held>>
        /\ \/ pc'[r] = "submit" /\ Cardinality(OpenNow \ {sym[r]}) < snap[r].cap
           \/ pc'[r] = "done"
    BY <1>5, <2>4 DEF ReadOpen, TypeOK, Observe, request
  <2>6. Current(r)'
    BY <1>b, <2>2, <2>5 DEF Current, Cleared, OpenNow
  <2>7. \A p \in Req \ {r} : UNCHANGED <<pc[p], task[p]>>
    BY <1>5 DEF ReadOpen, TypeOK
  <2> QED
    BY <2>1, <2>6, <2>7, Others, SoleStep DEF SerialInv
<1>6. ASSUME NEW r \in Req, ReadFails(r) PROVE SerialInv'
  BY <1>6, SerialFacts DEF ReadFails
<1>7. ASSUME NEW r \in Req, Submit(r) PROVE SerialInv'
  <2>1. Settled' /\ Running(r) /\ task[r] = "none" /\ pc[r] = "submit" /\ Current(r)
    BY <1>7, <1>a DEF Submit, SerialInv, Settled, Running, Submitting
  <2>2. /\ UNCHANGED <<kind, sym, wrk, position, connected, snap, held>>
        /\ \/ pc'[r] = "wait" /\ task'[r] = "pending"
           \/ pc'[r] = "done" /\ task'[r] = "none"
    BY <1>7, <2>1 DEF Submit, TypeOK, Observe, request
  <2>3. Current(r)'
    BY <2>1, <2>2 DEF Current, Cleared, OpenNow
  <2>4. \A p \in Req \ {r} : UNCHANGED <<pc[p], task[p]>>
    BY <1>7 DEF Submit, TypeOK
  <2> QED
    BY <2>1, <2>3, <2>4, Others, SoleStep DEF SerialInv
<1>8. ASSUME NEW r \in Req, Answer(r) PROVE SerialInv'
  <2>1. Settled' /\ Running(r) /\ pc'[r] = "done" /\ task'[r] # "pending"
    BY <1>8 DEF Answer, SerialInv, Settled, Running, TypeOK
  <2>2. Current(r)'
    BY <2>1 DEF Current, Cleared
  <2>3. \A p \in Req \ {r} : UNCHANGED <<pc[p], task[p]>>
    BY <1>8 DEF Answer, TypeOK
  <2> QED
    BY <2>1, <2>2, <2>3, Others, SoleStep DEF SerialInv
<1>9. ASSUME NEW r \in Req, GiveUp(r) PROVE SerialInv'
  BY <1>9, SerialFacts DEF GiveUp
<1>10. ASSUME NEW r \in Req, PlaceOrder(r) PROVE SerialInv'
  <2>1. pc[r] = "wait" /\ pc'[r] = "wait" /\ task'[r] = "placed" /\ Running(r) /\ left' = left
    BY <1>10, SerialOrder DEF PlaceOrder, TypeOK, Running
  <2>2. \A s \in Symbol : position'[s] >= 0
    <3>1. \A s \in Symbol : position[s] \in Int /\ position[s] >= 0
      BY DEF TypeOK, SerialInv, Settled
    <3>2. CASE kind[r] = "buy"
      <4>1. PICK q \in BuyQty : position' = [position EXCEPT ![sym[r]] = @ + q]
        BY <1>10, <3>2, SerialOrder
      <4>2. q \in Nat
        BY TradingAssumption DEF TradingAssumption
      <4> QED
        BY <1>b, <3>1, <4>1, <4>2 DEF TypeOK
    <3>3. CASE kind[r] = "sell"
      <4>1. position' = [position EXCEPT ![sym[r]] = 0]
        BY <1>10, <3>3, SerialOrder
      <4> QED
        BY <3>1, <4>1 DEF TypeOK
    <3> QED
      BY <3>2, <3>3, SerialFacts
  <2>3. Settled'
    BY <2>1, <2>2 DEF SerialInv, Settled
  <2>4. connected' = connected /\ connected[wrk[r]] /\ wrk' = wrk
    BY <1>10 DEF PlaceOrder, Observe, request
  <2>5. Current(r)'
    BY <2>1, <2>4 DEF Current, Cleared
  <2>6. \A p \in Req \ {r} : UNCHANGED <<pc[p], task[p]>>
    BY <1>10 DEF PlaceOrder, TypeOK
  <2> QED
    BY <2>1, <2>3, <2>5, <2>6, Others, SoleStep DEF SerialInv
<1>11. ASSUME NEW r \in Req, FailOrder(r) PROVE SerialInv'
  <2>1. pc[r] = "wait" /\ pc'[r] = "wait" /\ task'[r] = "failed" /\ Settled' /\ Running(r)
    BY <1>11 DEF FailOrder, SerialInv, Settled, Current, Running, TypeOK
  <2>2. Current(r)'
    BY <2>1 DEF Current, Cleared
  <2>3. \A p \in Req \ {r} : UNCHANGED <<pc[p], task[p]>>
    BY <1>11 DEF FailOrder, TypeOK
  <2> QED
    BY <2>1, <2>2, <2>3, Others, SoleStep DEF SerialInv
<1>12. ASSUME NEW r \in Req, Fill(r) \/ CancelOrder(r) PROVE SerialInv'
  BY <1>12 DEF Fill, CancelOrder, SerialInv, Settled
<1>13. ASSUME NEW w \in Worker, Disconnect(w) PROVE SerialInv'
  BY <1>13, SerialFacts DEF Disconnect
<1>14. ASSUME NEW w \in Worker, Connect(w) PROVE SerialInv'
  <2>1. UNCHANGED <<handler, task, position, request, left>>
    BY <1>14 DEF Connect, Observe
  <2>2. \A p \in Req : connected[wrk[p]] => connected'[wrk[p]]
    BY <1>14 DEF Connect, TypeOK
  <2>3. \A p \in Req : Current(p)'
    BY <2>1, <2>2, QuietCurrent DEF SerialInv
  <2> QED
    BY <2>1, <2>3, AloneFrame DEF SerialInv, Settled, Running
<1>15. ASSUME NEW w \in Worker, Restart(w) PROVE SerialInv'
  <2>1. \A p \in Req : wrk[p] = w
    BY <1>b, SerialFacts
  <2>2. \A p \in Req : pc'[p] \in {"new", "done"} /\ task'[p] # "pending"
    BY <1>15, <2>1 DEF Restart, Running, TypeOK
  <2>3. \A p \in Req : ~Running(p)' /\ Current(p)'
    BY <2>2 DEF Running, Current, Cleared
  <2> QED
    BY <1>15, <2>3 DEF Restart, SerialInv, Settled, Alone
<1>16. ASSUME Kill \/ BeginSave \/ WriteKey \/ UNCHANGED vars PROVE SerialInv'
  <2>1. UNCHANGED <<handler, task, position, request, left, connected>>
    BY <1>16 DEF Kill, BeginSave, WriteKey, vars, Observe
  <2>2. \A p \in Req : Current(p)'
    BY <2>1, QuietCurrent DEF SerialInv
  <2> QED
    BY <2>1, <2>2, AloneFrame DEF SerialInv, Settled, Running
<1> QED
  BY <1>1, <1>2, <1>3, <1>4, <1>5, <1>6, <1>7, <1>8, <1>9, <1>10, <1>11, <1>12, <1>13, <1>14, <1>15, <1>16 DEF Next, Handle

LEMMA SerialInit == Init => SerialInv
<1> SUFFICES ASSUME Init PROVE SerialInv
  OBVIOUS
<1>1. \A s \in Symbol : position[s] \in Nat
  BY TradingAssumption DEF Init, TradingAssumption
<1> QED
  BY <1>1 DEF Init, SerialInv, Alone, Settled, Current, Cleared, Running

\* The state of the abstract machine that a state of the bridge stands for.
Stage == [r \in Req |-> StageOf(r)]
Deal  == [r \in Req |-> [kind |-> kind[r], sym |-> sym[r]]]
CapOf == [r \in Req |-> snap[r].cap]

\* A step that moves the stage or the cap of no request but r.
LEMMA OneMoves ==
  ASSUME NEW r \in Req, UNCHANGED request,
         \A p \in Req \ {r} : StageOf(p)' = StageOf(p) /\ snap'[p] = snap[p]
  PROVE  /\ Stage' = [Stage EXCEPT ![r] = StageOf(r)'] /\ Deal' = Deal
         /\ CapOf' = [CapOf EXCEPT ![r] = snap'[r].cap]
<1>1. Stage' = [p \in Req |-> StageOf(p)'] /\ CapOf' = [p \in Req |-> snap'[p].cap]
  BY DEF Stage, CapOf
<1>2. [Stage EXCEPT ![r] = StageOf(r)'] = [p \in Req |-> StageOf(p)']
  BY DEF Stage
<1>3. [CapOf EXCEPT ![r] = snap'[r].cap] = [p \in Req |-> snap'[p].cap]
  BY DEF CapOf
<1> QED
  BY <1>1, <1>2, <1>3 DEF Deal, request

LEMMA NoneMoves ==
  ASSUME UNCHANGED request, UNCHANGED <<settings, position>>,
         \A p \in Req : StageOf(p)' = StageOf(p) /\ snap'[p] = snap[p]
  PROVE  UNCHANGED Abstract!vars
<1>1. Stage' = Stage /\ Deal' = Deal /\ CapOf' = CapOf
  BY DEF Stage, Deal, CapOf, request
<1> QED
  BY <1>1 DEF Abstract!vars, Stage, Deal, CapOf

LEMMA AbstractOf ==
  ASSUME NEW r \in Req
  PROVE  Stage[r] = StageOf(r) /\ Deal[r].kind = kind[r] /\ Deal[r].sym = sym[r]
         /\ CapOf[r] = snap[r].cap
  BY DEF Stage, Deal, CapOf

\* A request that ends without an order.
LEMMA RefuseStep ==
  ASSUME NEW r \in Req, UNCHANGED request, UNCHANGED <<settings, position>>,
         \A p \in Req \ {r} : StageOf(p)' = StageOf(p) /\ snap'[p] = snap[p],
         StageOf(r) \in {"waiting", "admitted"}, StageOf(r)' = "refused",
         snap'[r] \in {snap[r], settings}
  PROVE  Abstract!Refuse(r)
<1>1. snap'[r].cap \in {CapOf[r], settings.cap}
  BY AbstractOf
<1> QED
  BY <1>1, OneMoves, AbstractOf DEF Abstract!Refuse, Stage, Deal, CapOf

LEMMA AdmitStep ==
  ASSUME NEW r \in Req, UNCHANGED request, UNCHANGED <<settings, position>>,
         \A p \in Req \ {r} : StageOf(p)' = StageOf(p) /\ snap'[p] = snap[p],
         StageOf(r) = "waiting", StageOf(r)' = "admitted",
         Allows(settings, kind[r]), snap'[r] = settings
  PROVE  Abstract!Admit(r)
<1>1. Abstract!Admits(settings, Deal[r].kind)
  BY AbstractOf DEF Abstract!Admits, Allows
<1> QED
  BY <1>1, OneMoves, AbstractOf DEF Abstract!Admit, Stage, Deal, CapOf

\* The abstract machine counts as the bridge does.
LEMMA SameCount == ASSUME NEW S PROVE Abstract!Cardinality(S) = Cardinality(S)
  BY DEF Abstract!Cardinality, Cardinality

LEMMA TradeStep ==
  ASSUME SerialOK, TypeOK, SerialInv, NEW r \in Req, PlaceOrder(r)
  PROVE  Abstract!Buy(r) \/ Abstract!Sell(r)
<1>1. /\ pc[r] = "wait" /\ Cleared(r) /\ Current(r) /\ UNCHANGED <<settings, snap, pc>>
      /\ UNCHANGED request /\ task[r] = "pending" /\ task' = [task EXCEPT ![r] = "placed"]
  BY SerialOrder DEF PlaceOrder, Observe, SerialInv
<1>2. StageOf(r) = "admitted" /\ StageOf(r)' = "traded"
  BY <1>1 DEF StageOf, TypeOK
<1>3. \A p \in Req \ {r} : StageOf(p)' = StageOf(p) /\ snap'[p] = snap[p]
  BY <1>1 DEF StageOf, TypeOK
<1>4. /\ Stage' = [Stage EXCEPT ![r] = "traded"] /\ Deal' = Deal
      /\ CapOf' = [CapOf EXCEPT ![r] = snap'[r].cap]
  BY <1>1, <1>2, <1>3, OneMoves
<1>5. CapOf' = CapOf
  BY <1>1 DEF CapOf
<1>6. CASE kind[r] = "buy"
  <2>1. /\ Deal[r].kind = "buy" /\ position[Deal[r].sym] <= 0
        /\ Cardinality(Abstract!Open \ {Deal[r].sym}) < CapOf[r]
    BY <1>1, <1>6, AbstractOf DEF Current, OpenNow, Abstract!Open
  <2>2. \E q \in BuyQty : position' = [position EXCEPT ![Deal[r].sym] = @ + q]
    BY <1>6, SerialOrder, AbstractOf
  <2>3. Stage[r] = "admitted"
    BY <1>2, AbstractOf
  <2>4. Abstract!Buy(r) <=>
          /\ Stage[r] = "admitted" /\ Deal[r].kind = "buy"
          /\ position[Deal[r].sym] <= 0
          /\ Cardinality(Abstract!Open \ {Deal[r].sym}) < CapOf[r]
          /\ Stage' = [Stage EXCEPT ![r] = "traded"]
          /\ \E q \in BuyQty : position' = [position EXCEPT ![Deal[r].sym] = @ + q]
          /\ UNCHANGED <<settings, Deal, CapOf>>
    BY SameCount DEF Abstract!Buy, Stage, Deal, CapOf
  <2> QED
    BY <1>1, <1>4, <1>5, <2>1, <2>2, <2>3, <2>4
<1>7. CASE kind[r] = "sell"
  <2>1. Deal[r].kind = "sell" /\ position[Deal[r].sym] > 0
    BY <1>1, <1>7, AbstractOf DEF Current
  <2>2. position' = [position EXCEPT ![Deal[r].sym] = 0]
    BY <1>7, SerialOrder, AbstractOf
  <2>3. Stage[r] = "admitted"
    BY <1>2, AbstractOf
  <2> QED
    BY <1>1, <1>4, <1>5, <2>1, <2>2, <2>3 DEF Abstract!Sell, Stage, Deal, CapOf
<1> QED
  BY <1>6, <1>7, SerialFacts

LEMMA ChangeStep ==
  ASSUME TypeOK', UNCHANGED request, UNCHANGED <<position, snap, pc, task>>
  PROVE  Abstract!Change
<1>1. Stage' = Stage /\ Deal' = Deal /\ CapOf' = CapOf
  BY DEF Stage, StageOf, Deal, CapOf, request
<1>2. settings' \in Settings
  BY DEF TypeOK
<1> QED
  BY <1>1, <1>2 DEF Abstract!Change, Stage, Deal, CapOf

LEMMA AbstractInit == SerialOK /\ Init => Abstract!Init
<1> SUFFICES ASSUME SerialOK, Init PROVE Abstract!Init
  OBVIOUS
<1>1. settings \in Settings /\ position \in [Symbol -> InitQty]
  BY DEF Init
<1>2. Stage = [r \in Req |-> "waiting"] /\ CapOf = [r \in Req |-> settings.cap]
  BY DEF Init, Stage, StageOf, CapOf
<1>3. Deal \in [Req -> [kind : {"buy", "sell"}, sym : Symbol]]
  <2>1. \A r \in Req : kind[r] \in {"buy", "sell"} /\ sym[r] \in Symbol
    BY DEF Init, SerialOK, SignalKinds
  <2> QED
    BY <2>1 DEF Deal
<1> QED
  BY <1>1, <1>2, <1>3 DEF Abstract!Init, Stage, Deal, CapOf

\* A step of request r that leaves the account and the settings alone is seen by the
\* abstract machine as nothing, as an admission or as a refusal.
LEMMA HandlerRefines ==
  ASSUME SerialOK, TypeOK, GateInv, SerialInv, NEW r \in Req, Handle(r) \/ FailOrder(r)
  PROVE  Abstract!Admit(r) \/ Abstract!Refuse(r) \/ UNCHANGED Abstract!vars
<1> USE DEF broker, store, handler, orders
<1>a. pc[r] \in Submitting => task[r] = "none"
  BY DEF GateInv, Gated, Unsent, Submitting
<1>b. IsSignal(r)
  BY SerialFacts
<1>1. UNCHANGED request /\ UNCHANGED <<settings, position>>
  BY DEF Handle, Arrive, ReadSettings, CheckConnected, ReadHeld, ReadOpen, ReadFails,
     Submit, Answer, GiveUp, FailOrder, Observe
<1>2. \A p \in Req \ {r} : UNCHANGED <<pc[p], task[p], snap[p]>>
  BY DEF Handle, Arrive, ReadSettings, CheckConnected, ReadHeld, ReadOpen, ReadFails,
     Submit, Answer, GiveUp, FailOrder, TypeOK
<1>3. \A p \in Req \ {r} : StageOf(p)' = StageOf(p) /\ snap'[p] = snap[p]
  BY <1>2 DEF StageOf
<1>4. CASE Arrive(r)
  <2>1. StageOf(r)' = StageOf(r) /\ snap'[r] = snap[r]
    BY <1>4, <1>a DEF Arrive, StageOf, TypeOK, Submitting
  <2> QED
    BY <1>1, <1>3, <2>1, NoneMoves
<1>5. CASE ReadSettings(r)
  <2>1. StageOf(r) = "waiting" /\ task'[r] = "none" /\ snap'[r] = settings
    BY <1>5, <1>a DEF ReadSettings, StageOf, TypeOK, Submitting
  <2>2. CASE Allows(settings, kind[r])
    <3>1. StageOf(r)' = "admitted"
      BY <1>5, <1>b, <2>1, <2>2 DEF ReadSettings, StageOf, TypeOK
    <3> QED
      BY <1>1, <1>3, <2>1, <2>2, <3>1, AdmitStep
  <2>3. CASE ~Allows(settings, kind[r])
    <3>1. StageOf(r)' = "refused"
      BY <1>5, <1>b, <2>1, <2>3 DEF ReadSettings, StageOf, TypeOK
    <3> QED
      BY <1>1, <1>3, <2>1, <3>1, RefuseStep
  <2> QED
    BY <2>2, <2>3
<1>6. CASE CheckConnected(r) \/ ReadHeld(r) \/ ReadOpen(r)
  <2>1. /\ pc[r] \in {"conn", "held", "open"} /\ task[r] = "none" /\ task'[r] = "none"
        /\ pc'[r] \in {"held", "open", "submit", "done"} /\ snap' = snap
    BY <1>6, <1>a DEF CheckConnected, ReadHeld, ReadOpen, TypeOK, Submitting
  <2>2. StageOf(r) = "admitted" /\ StageOf(r)' \in {"admitted", "refused"}
    BY <2>1 DEF StageOf
  <2> QED
    BY <1>1, <1>3, <2>1, <2>2, NoneMoves, RefuseStep
<1>7. CASE Submit(r)
  <2>1. /\ pc[r] = "submit" /\ task[r] = "none" /\ snap' = snap
        /\ \/ pc'[r] = "wait" /\ task'[r] = "pending"
           \/ pc'[r] = "done" /\ task'[r] = "none"
    BY <1>7, <1>a DEF Submit, TypeOK, Submitting
  <2>2. StageOf(r) = "admitted" /\ StageOf(r)' \in {"admitted", "refused"}
    BY <2>1 DEF StageOf
  <2> QED
    BY <1>1, <1>3, <2>1, <2>2, NoneMoves, RefuseStep
<1>8. CASE Answer(r)
  <2>1. StageOf(r)' = StageOf(r) /\ snap'[r] = snap[r]
    BY <1>8 DEF Answer, StageOf, TypeOK
  <2> QED
    BY <1>1, <1>3, <2>1, NoneMoves
<1>9. CASE FailOrder(r)
  <2>1. pc[r] = "wait" /\ task[r] = "pending" /\ task'[r] = "failed" /\ snap' = snap
    BY <1>9 DEF FailOrder, SerialInv, Current, TypeOK
  <2>2. StageOf(r) = "admitted" /\ StageOf(r)' = "refused"
    BY <2>1 DEF StageOf
  <2> QED
    BY <1>1, <1>3, <2>1, <2>2, RefuseStep
<1>10. ~ReadFails(r) /\ ~GiveUp(r)
  BY SerialFacts DEF ReadFails, GiveUp
<1> QED
  BY <1>4, <1>5, <1>6, <1>7, <1>8, <1>9, <1>10 DEF Handle

\* The one handler a crash ends, if its order was not out, is refused.
LEMMA RestartRefines ==
  ASSUME SerialOK, TypeOK, GateInv, SerialInv, NEW w \in Worker, Restart(w)
  PROVE  (\E r \in Req : Abstract!Refuse(r)) \/ UNCHANGED Abstract!vars
<1>a. \A p \in Req : wrk[p] = w
  BY SerialFacts DEF TypeOK
<1>b. UNCHANGED request /\ UNCHANGED <<settings, position, snap>>
  BY DEF Restart, Observe
<1>c. \A p \in Req : /\ ~Running(p) => pc'[p] = pc[p] /\ task'[p] = task[p]
                     /\ Running(p) => pc'[p] = "done"
                     /\ task'[p] = "placed" <=> task[p] = "placed"
  BY <1>a DEF Restart, SerialInv, Current, Running, TypeOK
<1>1. \A p \in Req : ~Running(p) => StageOf(p)' = StageOf(p)
  BY <1>c DEF StageOf
<1>2. \A p \in Req : Running(p) =>
        \/ StageOf(p)' = StageOf(p)
        \/ StageOf(p)' = "refused" /\ StageOf(p) \in {"waiting", "admitted"}
  BY <1>c DEF StageOf
<1>3. CASE \A p \in Req : StageOf(p)' = StageOf(p)
  BY <1>3, <1>b, NoneMoves
<1>4. CASE \E p \in Req : StageOf(p)' # StageOf(p)
  <2>1. PICK r \in Req : StageOf(r)' # StageOf(r)
    BY <1>4
  <2>2. Running(r) /\ StageOf(r)' = "refused" /\ StageOf(r) \in {"waiting", "admitted"}
    BY <1>1, <1>2, <2>1
  <2>3. \A p \in Req \ {r} : StageOf(p)' = StageOf(p)
    BY <1>1, <2>2, Others DEF SerialInv
  <2> QED
    BY <1>b, <2>2, <2>3, RefuseStep
<1> QED
  BY <1>3, <1>4

LEMMA SerialRefines ==
  SerialOK /\ TypeOK /\ TypeOK' /\ GateInv /\ SerialInv /\ [Next]_vars
    => [Abstract!Next]_(Abstract!vars)
<1> SUFFICES ASSUME SerialOK, TypeOK, TypeOK', GateInv, SerialInv, [Next]_vars
             PROVE  Abstract!Next \/ UNCHANGED Abstract!vars
  OBVIOUS
<1>1. ASSUME NEW r \in Req, Handle(r) \/ FailOrder(r)
      PROVE  Abstract!Next \/ UNCHANGED Abstract!vars
  BY <1>1, HandlerRefines DEF Abstract!Next
<1>2. ASSUME NEW r \in Req, PlaceOrder(r)
      PROVE  Abstract!Next
  BY <1>2, TradeStep DEF Abstract!Next
<1>3. ASSUME NEW r \in Req, Fill(r) \/ CancelOrder(r) PROVE FALSE
  BY <1>3 DEF Fill, CancelOrder, SerialInv, Settled
<1>4. ASSUME NEW w \in Worker, Restart(w)
      PROVE  Abstract!Next \/ UNCHANGED Abstract!vars
  BY <1>4, RestartRefines DEF Abstract!Next
<1>5. ASSUME NEW w \in Worker, Disconnect(w) PROVE FALSE
  BY <1>5, SerialFacts DEF Disconnect
<1>6. ASSUME NEW w \in Worker, Connect(w)
      PROVE  UNCHANGED Abstract!vars
  <2>1. UNCHANGED request /\ UNCHANGED <<settings, position, snap, pc, task>>
    BY <1>6 DEF Connect, Observe, store, handler, orders
  <2>2. \A p \in Req : StageOf(p)' = StageOf(p)
    BY <2>1 DEF StageOf
  <2> QED
    BY <2>1, <2>2, NoneMoves
<1>7. CASE Kill \/ BeginSave \/ WriteKey
  <2>1. UNCHANGED request /\ UNCHANGED <<position, snap, pc, task>>
    BY <1>7 DEF Kill, BeginSave, WriteKey, Observe, broker, handler, orders
  <2> QED
    BY <2>1, ChangeStep DEF Abstract!Next
<1>8. CASE UNCHANGED vars
  <2>1. UNCHANGED request /\ UNCHANGED <<settings, position, snap, pc, task>>
    BY <1>8 DEF vars, broker, store, handler, orders
  <2>2. \A p \in Req : StageOf(p)' = StageOf(p)
    BY <2>1 DEF StageOf
  <2> QED
    BY <2>1, <2>2, NoneMoves
<1> QED
  BY <1>1, <1>2, <1>3, <1>4, <1>5, <1>6, <1>7, <1>8 DEF Next

\* What a handler has read is still true of the account when its order is sent, as
\* long as one worker serves signals only and every order fills at once.
THEOREM ReadsStayCurrent == SerialOK /\ Spec => []SerialInv
<1>1. SerialOK /\ TypeOK /\ GateInv /\ SerialInv /\ [Next]_vars => SerialInv'
  BY SerialStep
<1> SUFFICES ASSUME SerialOK PROVE Spec => []SerialInv
  OBVIOUS
<1>2. TypeOK /\ GateInv /\ SerialInv /\ [Next]_vars => SerialInv'
  BY <1>1
<1> QED
  BY TypeCorrect, GatesHold, SerialInit, <1>2, PTL DEF Spec

\* trading.py:1: under the same conditions, whatever crashes and whatever the
\* operator does to the settings, every signal is one atomic gate-and-trade step.
THEOREM SerialTraderImplemented ==
  ASSUME SerialOK PROVE Spec => ImplementsSerialTrader
<1>1. TypeOK /\ TypeOK' /\ GateInv /\ SerialInv /\ [Next]_vars => [Abstract!Next]_(Abstract!vars)
  BY SerialRefines
<1>2. Init => Abstract!Init
  BY AbstractInit
<1>3. Spec => []SerialInv
  BY ReadsStayCurrent
<1> QED
  BY TypeCorrect, GatesHold, <1>1, <1>2, <1>3, PTL DEF Spec, ImplementsSerialTrader, Abstract!Spec
=============================================================================
