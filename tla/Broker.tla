------------------------------- MODULE Broker -------------------------------
(***************************************************************************)
(* IBKRBroker (app/broker.py): synchronous methods, called from many       *)
(* threads, that each submit one coroutine to a private asyncio loop and   *)
(* wait for its future with a timeout.  A wait that times out does not     *)
(* cancel the coroutine.  connect and disconnect hold _conn_lock while     *)
(* they wait.  percent_equity sizing calls account_summary, and so _run,   *)
(* on the loop's own thread.                                               *)
(***************************************************************************)
EXTENDS Naturals, FiniteSets

CONSTANTS
  Caller,     \* threads that call the broker
  Ops,        \* the operations they call, a subset of AllOps
  MaxTask     \* bound: coroutines submitted in a behaviour

ConnOps == {"connect", "disconnect"}
\* "read" stands for positions, portfolio, account_summary and open_orders;
\* "placePct" is place_order sized with percent_equity.
AllOps  == ConnOps \cup {"read", "place", "placePct"}
Task    == 1..MaxTask
NoTask  == 0
NoOne   == "no caller"

ASSUME BrokerAssumption ==
  Ops \subseteq AllOps /\ MaxTask \in Nat /\ NoOne \notin Caller /\ IsFiniteSet(Caller)

VARIABLES
  ib,        \* _ib.isConnected(): "up" or "down"
  lock,      \* holder of _conn_lock
  pc, op,    \* each caller: "idle", "lock" or "wait", and what it calls
  mine,      \* the coroutine a caller waits for
  last,      \* coroutines submitted so far; ids are in order of submission
  what,      \* what each coroutine does: an operation, or "inner"
  step,      \* where each coroutine is
  told,      \* what the caller of each coroutine was told
  blocker,   \* the coroutine that blocks the loop thread, or NoTask
  sent       \* coroutines that have called placeOrder

caller == <<pc, op, mine>>
task   == <<last, what, step>>
vars == <<ib, lock, caller, task, told, blocker, sent>>

Init ==
  /\ ib \in {"up", "down"}
  /\ lock = NoOne /\ blocker = NoTask /\ last = 0 /\ sent = {}
  /\ pc = [c \in Caller |-> "idle"] /\ op = [c \in Caller |-> "read"]
  /\ mine = [c \in Caller |-> NoTask]
  /\ what = [k \in Task |-> "inner"] /\ step = [k \in Task |-> "none"]
  /\ told = [k \in Task |-> "nothing"]

Finished(k) == step[k] \in {"done", "failed", "starved"}
Live(k)     == step[k] \notin {"none", "done", "failed", "starved"}

\* Bound: an id is kept for every caller that waits for the lock.
Room == last + Cardinality({c \in Caller : pc[c] = "lock"}) < MaxTask

\* asyncio.run_coroutine_threadsafe: the coroutine joins the loop's queue.
SubmitTask(w) ==
  /\ last' = last + 1
  /\ what' = [what EXCEPT ![last'] = w]

-----------------------------------------------------------------------------
\* The callers

\* place_order and the reads refuse, or answer [], when disconnected.
Call(c) ==
  /\ pc[c] = "idle" /\ ib = "up" /\ Room
  /\ \E o \in Ops \ ConnOps :
       /\ op' = [op EXCEPT ![c] = o]
       /\ SubmitTask(o)
  /\ step' = [step EXCEPT ![last'] = "ready"]
  /\ mine' = [mine EXCEPT ![c] = last']
  /\ pc' = [pc EXCEPT ![c] = "wait"]
  /\ UNCHANGED <<ib, lock, told, blocker, sent>>

CallConn(c) ==
  /\ pc[c] = "idle" /\ Room
  /\ \E o \in Ops \cap ConnOps : op' = [op EXCEPT ![c] = o]
  /\ pc' = [pc EXCEPT ![c] = "lock"]
  /\ UNCHANGED <<ib, lock, mine, task, told, blocker, sent>>

\* Variation: the connection calls do not take the lock.
AcquireUnlocked(c) ==
  /\ pc[c] = "lock"
  /\ SubmitTask(op[c])
  /\ step' = [step EXCEPT ![last'] = "ready"]
  /\ mine' = [mine EXCEPT ![c] = last']
  /\ pc' = [pc EXCEPT ![c] = "wait"]
  /\ UNCHANGED <<ib, lock, op, told, blocker, sent>>

\* with self._conn_lock: self._run(...)
Acquire(c) ==
  /\ pc[c] = "lock" /\ lock = NoOne
  /\ lock' = c
  /\ SubmitTask(op[c])
  /\ step' = [step EXCEPT ![last'] = "ready"]
  /\ mine' = [mine EXCEPT ![c] = last']
  /\ pc' = [pc EXCEPT ![c] = "wait"]
  /\ UNCHANGED <<ib, op, told, blocker, sent>>

\* Variation: acquire() and release() instead of `with`; an exception skips release().
LeaveLocked(c, answer) ==
  /\ told' = [told EXCEPT ![mine[c]] = answer]
  /\ pc' = [pc EXCEPT ![c] = "idle"]
  /\ mine' = [mine EXCEPT ![c] = NoTask]
  /\ op' = [op EXCEPT ![c] = "read"]
  /\ lock' = IF lock = c /\ answer = "ok" THEN NoOne ELSE lock
  /\ UNCHANGED <<ib, task, blocker, sent>>

\* future.result() ends: the caller is told, and leaves `with _conn_lock`.
Leave(c, answer) ==
  /\ told' = [told EXCEPT ![mine[c]] = answer]
  /\ pc' = [pc EXCEPT ![c] = "idle"]
  /\ mine' = [mine EXCEPT ![c] = NoTask]
  /\ op' = [op EXCEPT ![c] = "read"]
  /\ lock' = IF lock = c THEN NoOne ELSE lock
  /\ UNCHANGED <<ib, task, blocker, sent>>

Return(c) ==
  /\ pc[c] = "wait" /\ Finished(mine[c])
  /\ Leave(c, IF step[mine[c]] = "done" THEN "ok" ELSE "error")

\* future.result(timeout) raises; the coroutine stays on the loop.
TimeOut(c) ==
  /\ pc[c] = "wait" /\ ~Finished(mine[c])
  /\ Leave(c, "timeout")

-----------------------------------------------------------------------------
\* The coroutines, on the loop thread

LoopRuns(k) == blocker = NoTask /\ UNCHANGED <<lock, caller, told>>
Become(k, s) == step' = [step EXCEPT ![k] = s]

\* First step of a coroutine, in order of submission, up to its first await.
Begin(k) ==
  /\ LoopRuns(k) /\ step[k] = "ready"
  /\ \A j \in Task : j < k => step[j] # "ready"
  /\ \/ /\ what[k] = "connect" /\ ib = "up"
        /\ ib' = "down" /\ Become(k, "settle")
     \/ /\ what[k] = "connect" /\ ib = "down"
        /\ Become(k, "dial") /\ UNCHANGED ib
     \/ /\ what[k] = "disconnect"
        /\ ib' = "down" /\ Become(k, "done")
     \/ /\ what[k] \notin ConnOps
        /\ Become(k, "await") /\ UNCHANGED ib
  /\ UNCHANGED <<last, what, blocker, sent>>

\* await asyncio.sleep(0.25), then connectAsync, which does nothing when connected.
Settle(k) ==
  /\ LoopRuns(k) /\ step[k] = "settle"
  /\ Become(k, IF ib = "up" THEN "done" ELSE "dial")
  /\ UNCHANGED <<ib, last, what, blocker, sent>>

\* connectAsync succeeds, or fails and leaves the client disconnected.
Dial(k) ==
  /\ LoopRuns(k) /\ step[k] = "dial"
  /\ \/ ib' = "up" /\ Become(k, "done")
     \/ ib' = "down" /\ Become(k, "failed")
  /\ UNCHANGED <<last, what, blocker, sent>>

\* IBKR answers a read.
Answered(k) ==
  /\ LoopRuns(k) /\ step[k] = "await" /\ what[k] \in {"read", "inner"}
  /\ Become(k, "done")
  /\ UNCHANGED <<ib, last, what, blocker, sent>>

\* The awaited request fails, no contract, no price, or a computed quantity of 0.
Fails(k) ==
  /\ LoopRuns(k) /\ step[k] = "await"
  /\ Become(k, "failed")
  /\ UNCHANGED <<ib, last, what, blocker, sent>>

\* Variation: a placeOrder that raises is logged and forgotten.
SendSwallowed(k) ==
  /\ LoopRuns(k) /\ step[k] = "await" /\ what[k] = "place"
  /\ \/ ib = "up" /\ sent' = sent \cup {k} /\ Become(k, "ack")
     \/ ib = "down" /\ Become(k, "done") /\ UNCHANGED sent
  /\ UNCHANGED <<ib, last, what, blocker>>

\* Qualified, priced and sized: placeOrder, which raises when disconnected.
Send(k) ==
  /\ LoopRuns(k) /\ step[k] = "await" /\ what[k] = "place"
  /\ \/ ib = "up" /\ sent' = sent \cup {k} /\ Become(k, "ack")
     \/ ib = "down" /\ Become(k, "failed") /\ UNCHANGED sent
  /\ UNCHANGED <<ib, last, what, blocker>>

\* compute_qty of percent_equity: account_summary() answers {} when
\* disconnected, which sizes the order to 0; connected, it submits a coroutine
\* to the loop it runs on and waits for it there.
SizePercent(k) ==
  /\ LoopRuns(k) /\ step[k] = "await" /\ what[k] = "placePct"
  /\ \/ /\ ib = "down"
        /\ Become(k, "failed") /\ UNCHANGED <<last, what, blocker>>
     \/ /\ ib = "up" /\ Room
        /\ SubmitTask("inner")
        /\ step' = [step EXCEPT ![k] = "sizing", ![last'] = "ready"]
        /\ blocker' = k
  /\ UNCHANGED <<ib, sent>>

\* The nested wait can only time out: the loop that would answer is waiting.
Unblock(k) ==
  /\ blocker = k
  /\ blocker' = NoTask /\ Become(k, "starved")
  /\ UNCHANGED <<ib, lock, caller, told, last, what, sent>>

\* Variation: an order with no status after the polls is an error.
AckRaises(k) ==
  /\ LoopRuns(k) /\ step[k] = "ack"
  /\ Become(k, "done") \/ Become(k, "failed")
  /\ UNCHANGED <<ib, last, what, blocker, sent>>

\* The order status arrived, or 20 polls have passed.
Ack(k) ==
  /\ LoopRuns(k) /\ step[k] = "ack"
  /\ Become(k, "done")
  /\ UNCHANGED <<ib, last, what, blocker, sent>>

\* The gateway drops the session.
Drop ==
  /\ ib = "up" /\ ib' = "down"
  /\ UNCHANGED <<lock, caller, task, told, blocker, sent>>

LoopStep(k) == \/ Begin(k) \/ Settle(k) \/ Dial(k) \/ Answered(k) \/ Fails(k)
               \/ Send(k) \/ SizePercent(k) \/ Unblock(k) \/ Ack(k)
CallerStep(c) == Acquire(c) \/ Return(c) \/ TimeOut(c)

Next == \/ \E c \in Caller : Call(c) \/ CallConn(c) \/ CallerStep(c)
        \/ \E k \in Task : LoopStep(k)
        \/ Drop

\* Threads that wait for a future or for the lock run on, and the timers of the
\* futures fire.  Nothing is asked of IBKR or of the loop, not even that a
\* coroutine that blocks the loop gives it back.
Fairness == \A c \in Caller : WF_vars(CallerStep(c))

Spec == Init /\ [][Next]_vars /\ Fairness

-----------------------------------------------------------------------------
Steps == {"none", "ready", "settle", "dial", "await", "sizing", "ack",
          "done", "failed", "starved"}

\* Types; _conn_lock is held only by a thread that waits for a connection call.
TypeOK ==
  /\ ib \in {"up", "down"} /\ lock \in Caller \cup {NoOne}
  /\ pc \in [Caller -> {"idle", "lock", "wait"}] /\ op \in [Caller -> AllOps]
  /\ mine \in [Caller -> Task \cup {NoTask}]
  /\ last \in 0..MaxTask
  /\ what \in [Task -> AllOps \cup {"inner"}] /\ step \in [Task -> Steps]
  /\ told \in [Task -> {"nothing", "ok", "error", "timeout"}]
  /\ blocker \in Task \cup {NoTask} /\ sent \subseteq Task
  /\ lock # NoOne => pc[lock] = "wait" /\ op[lock] \in ConnOps

\* broker.py:34, _conn_lock: two connection coroutines are on the loop together
\* only after a caller of one of them gave up waiting.
ConnectionsSerialised ==
  \A j, k \in Task :
     /\ j # k /\ Live(j) /\ Live(k)
     /\ what[j] \in ConnOps /\ what[k] \in ConnOps
     => "timeout" \in {told[j], told[k]}

\* trading.py:70-73 reports every exception of place_order as a rejection.  A
\* call that ended with an error of its coroutine has sent no order and never
\* will: only a wait that timed out can be reported rejected and trade.
ErrorMeansNoOrder == \A k \in sent : told[k] # "error"

\* An order reported as placed is at IBKR.
OkMeansOrder ==
  \A k \in Task : told[k] = "ok" /\ what[k] \in {"place", "placePct"} => k \in sent

\* Every call comes back, also if a coroutine blocks the loop for ever, and a call
\* that waits for _conn_lock gets it.
EveryCallReturns == \A c \in Caller : pc[c] # "idle" ~> pc[c] = "idle"

\* README.md:195, "% of equity: floor(NetLiquidation x pct% / price)": sizing an
\* order by equity ends in an order or in an error of the broker.  It ends in
\* the timeout of the nested call, whatever IBKR answers.
PercentEquitySizes == \A k \in Task : step[k] # "starved"
=============================================================================
