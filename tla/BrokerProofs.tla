----------------------------- MODULE BrokerProofs -----------------------------
(***************************************************************************)
(* What the answers of the broker say about orders, and that _conn_lock    *)
(* keeps connection coroutines apart, for any number of threads and of     *)
(* coroutines.                                                             *)
(***************************************************************************)
EXTENDS Broker, FiniteSetTheorems, TLAPS

Locking == {c \in Caller : pc[c] = "lock"}

\* An id is left for every thread that waits for the lock.
RoomKept == last + Cardinality(Locking) <= MaxTask

\* A thread waits for a coroutine of its own, of which nobody was told anything.
CallerOK(c) ==
  /\ pc[c] = "lock" => op[c] \in ConnOps
  /\ pc[c] = "wait" => mine[c] \in 1..last /\ told[mine[c]] = "nothing"
  /\ \A d \in Caller : pc[c] = "wait" /\ pc[d] = "wait" /\ mine[c] = mine[d] => c = d

\* What a caller was told of a coroutine, and whether it sent an order, is as the
\* coroutine ended.
Outcome(k) ==
  /\ k > last <=> step[k] = "none"
  /\ step[k] = "none" => told[k] = "nothing"
  /\ told[k] = "ok" => step[k] = "done"
  /\ told[k] = "error" => step[k] \in {"failed", "starved"}
  /\ k \in sent => step[k] \in {"ack", "done"}
  /\ step[k] \in {"settle", "dial"} => what[k] \in ConnOps
  /\ step[k] = "ack" => k \in sent
  /\ step[k] = "done" /\ what[k] \in {"place", "placePct"} => k \in sent
  /\ blocker = k => step[k] = "sizing"

\* A connection coroutine on the loop is that of the thread with the lock, or abandoned.
Owned(k) ==
  Live(k) /\ what[k] \in ConnOps /\ told[k] # "timeout" => lock # NoOne /\ mine[lock] = k

IInv ==
  /\ TypeOK /\ RoomKept
  /\ \A c \in Caller : CallerOK(c)
  /\ \A k \in Task : Outcome(k) /\ Owned(k)

-----------------------------------------------------------------------------
LEMMA LockingFinite ==
  /\ IsFiniteSet(Locking) /\ Cardinality(Locking) \in Nat
  /\ (\A c \in Caller : pc'[c] = "lock" <=> pc[c] = "lock") => Locking' = Locking
<1>1. Locking \subseteq Caller
  BY DEF Locking
<1>2. IsFiniteSet(Caller)
  BY BrokerAssumption
<1> QED
  BY <1>1, <1>2, FS_Subset, FS_CardinalityType DEF Locking

\* Before the first call.
LEMMA InitInv == ASSUME Init PROVE IInv
<1>1. Locking = {}
  BY DEF Init, Locking
<1>2. Cardinality(Locking) = 0
  BY <1>1, FS_EmptySet
<1>3. TypeOK
  BY BrokerAssumption DEF Init, TypeOK, AllOps, ConnOps, Steps, Task, NoTask
<1>4. RoomKept
  BY <1>2, BrokerAssumption DEF Init, RoomKept
<1> QED
  BY <1>3, <1>4 DEF Init, IInv, CallerOK, Outcome, Owned, Live, Task, NoTask

-----------------------------------------------------------------------------
\* A step of coroutine k from s0 to s on the loop: what others know is as it was.
Moved(k, s) ==
  /\ step' = [step EXCEPT ![k] = s] /\ s \in Steps \ {"none", "ready"}
  /\ step[k] \notin {"none", "done", "failed", "starved"}
  /\ UNCHANGED <<lock, pc, op, mine, last, what, told>>
  /\ ib' \in {"up", "down"} /\ blocker' \in {NoTask, blocker}
  /\ sent' \in {sent, sent \cup {k}}

LEMMA MovedTypes ==
  ASSUME TypeOK, NEW k \in Task, NEW s, Moved(k, s)
  PROVE  TypeOK'
BY DEF TypeOK, Moved, Task, Steps

LEMMA MovedKeeps ==
  ASSUME IInv, NEW k \in Task, NEW s, Moved(k, s), Outcome(k)'
  PROVE  IInv'
<1>1. TypeOK'
  BY MovedTypes DEF IInv
<1>2. RoomKept'
  BY LockingFinite DEF IInv, RoomKept, Moved
<1>3. \A c \in Caller : CallerOK(c)'
  BY DEF IInv, CallerOK, Moved
<1>4. ASSUME NEW j \in Task \ {k}
      PROVE  Outcome(j)'
  <2>1. step'[j] = step[j] /\ (j \in sent' <=> j \in sent)
    BY DEF Moved, IInv, TypeOK
  <2>2. j \in Nat /\ (blocker' = j => blocker = j)
    BY DEF Moved, Task, NoTask
  <2>3. Outcome(j)
    BY DEF IInv
  <2> QED
    BY <2>1, <2>2, <2>3 DEF Outcome, Moved
<1>5. ASSUME NEW j \in Task
      PROVE  Owned(j)'
  <2>1. Live(j)' => Live(j)
    BY DEF Live, Moved, IInv, TypeOK
  <2>2. Owned(j)
    BY DEF IInv
  <2> QED
    BY <2>1, <2>2 DEF Owned, Moved
<1> QED
  BY <1>1, <1>2, <1>3, <1>4, <1>5 DEF IInv

\* The steps of a coroutine that only move it.
LEMMA BeginKeeps ==
  ASSUME IInv, NEW k \in Task, Begin(k)
  PROVE  IInv'
<1>1. PICK s \in {"settle", "dial", "done", "await"} :
        /\ Become(k, s)
        /\ s \in {"settle", "dial"} => what[k] \in ConnOps
        /\ s = "done" => what[k] = "disconnect"
  BY DEF Begin, ConnOps
<1>2. Moved(k, s)
  BY <1>1 DEF Begin, LoopRuns, Become, Moved, Steps, caller, IInv, TypeOK
<1>3. step'[k] = s /\ UNCHANGED <<last, what, told, sent>> /\ step[k] = "ready"
  BY <1>1 DEF Begin, LoopRuns, Become, IInv, TypeOK
<1>4. Outcome(k) /\ blocker' # k
  BY DEF Begin, LoopRuns, IInv, Task, NoTask
<1>5. Outcome(k)'
  BY <1>1, <1>3, <1>4 DEF Outcome
<1> QED
  BY <1>2, <1>5, MovedKeeps

LEMMA ConnectingKeeps ==
  ASSUME IInv, NEW k \in Task, Settle(k) \/ Dial(k)
  PROVE  IInv'
<1>1. PICK s \in {"done", "dial", "failed"} : Become(k, s)
  BY DEF Settle, Dial
<1>2. Moved(k, s)
  BY <1>1 DEF Settle, Dial, LoopRuns, Become, Moved, Steps, caller, IInv, TypeOK
<1>3. step'[k] = s /\ UNCHANGED <<last, what, told, sent>> /\ step[k] \in {"settle", "dial"}
  BY <1>1 DEF Settle, Dial, LoopRuns, Become, IInv, TypeOK
<1>4. Outcome(k) /\ blocker' # k
  BY DEF Settle, Dial, LoopRuns, IInv, Task, NoTask
<1>5. Outcome(k)'
  BY <1>3, <1>4 DEF Outcome, ConnOps
<1> QED
  BY <1>2, <1>5, MovedKeeps

LEMMA AwaitKeeps ==
  ASSUME IInv, NEW k \in Task, Answered(k) \/ Fails(k)
  PROVE  IInv'
<1>1. PICK s \in {"done", "failed"} :
        Become(k, s) /\ (s = "done" => what[k] \in {"read", "inner"})
  BY DEF Answered, Fails
<1>2. Moved(k, s)
  BY <1>1 DEF Answered, Fails, LoopRuns, Become, Moved, Steps, caller, IInv, TypeOK
<1>3. step'[k] = s /\ UNCHANGED <<last, what, told, sent>> /\ step[k] = "await"
  BY <1>1 DEF Answered, Fails, LoopRuns, Become, IInv, TypeOK
<1>4. Outcome(k) /\ blocker' # k
  BY DEF Answered, Fails, LoopRuns, IInv, Task, NoTask
<1>5. Outcome(k)'
  BY <1>1, <1>3, <1>4 DEF Outcome
<1> QED
  BY <1>2, <1>5, MovedKeeps

\* placeOrder is called, and the order is in sent from then on.
LEMMA SendKeeps ==
  ASSUME IInv, NEW k \in Task, Send(k)
  PROVE  IInv'
<1>1. PICK s \in {"ack", "failed"} :
        Become(k, s) /\ sent' = IF s = "ack" THEN sent \cup {k} ELSE sent
  BY DEF Send
<1>2. Moved(k, s)
  BY <1>1 DEF Send, LoopRuns, Become, Moved, Steps, caller, IInv, TypeOK
<1>3. step'[k] = s /\ UNCHANGED <<last, what, told>> /\ step[k] = "await"
  BY <1>1 DEF Send, LoopRuns, Become, IInv, TypeOK
<1>4. Outcome(k) /\ blocker' # k
  BY DEF Send, LoopRuns, IInv, Task, NoTask
<1>5. Outcome(k)'
  BY <1>1, <1>3, <1>4 DEF Outcome
<1> QED
  BY <1>2, <1>5, MovedKeeps

LEMMA AckKeeps ==
  ASSUME IInv, NEW k \in Task, Ack(k)
  PROVE  IInv'
<1>1. Moved(k, "done")
  BY DEF Ack, LoopRuns, Become, Moved, Steps, caller, IInv, TypeOK
<1>2. step'[k] = "done" /\ UNCHANGED <<last, what, told, sent>> /\ step[k] = "ack"
  BY DEF Ack, LoopRuns, Become, IInv, TypeOK
<1>3. Outcome(k) /\ blocker' # k
  BY DEF Ack, LoopRuns, IInv, Task, NoTask
<1>4. Outcome(k)'
  BY <1>2, <1>3 DEF Outcome
<1> QED
  BY <1>1, <1>4, MovedKeeps

LEMMA UnblockKeeps ==
  ASSUME IInv, NEW k \in Task, Unblock(k)
  PROVE  IInv'
<1>1. Outcome(k) /\ step[k] = "sizing" /\ blocker' # k
  BY DEF Unblock, IInv, Outcome, Task, NoTask
<1>2. Moved(k, "starved")
  BY <1>1 DEF Unblock, Become, Moved, Steps, caller, IInv, TypeOK
<1>3. step'[k] = "starved" /\ UNCHANGED <<last, what, told, sent>>
  BY DEF Unblock, Become, IInv, TypeOK
<1>4. Outcome(k)'
  BY <1>1, <1>3 DEF Outcome
<1> QED
  BY <1>2, <1>4, MovedKeeps

LEMMA DropKeeps ==
  ASSUME IInv, Drop
  PROVE  IInv'
<1>1. UNCHANGED <<lock, pc, op, mine, last, what, step, told, blocker, sent>> /\ ib' = "down"
  BY DEF Drop, caller, task
<1>2. TypeOK' /\ RoomKept'
  BY <1>1, LockingFinite DEF IInv, TypeOK, RoomKept
<1>3. \A c \in Caller : CallerOK(c)'
  BY <1>1 DEF IInv, CallerOK
<1>4. \A k \in Task : Outcome(k)' /\ Owned(k)'
  BY <1>1 DEF IInv, Outcome, Owned, Live
<1> QED
  BY <1>2, <1>3, <1>4 DEF IInv

-----------------------------------------------------------------------------
\* A coroutine w joins the queue, under the next id, which nobody has used.
Joins(w) ==
  /\ last < MaxTask /\ last' = last + 1
  /\ what' = [what EXCEPT ![last + 1] = w]
  /\ step'[last + 1] = "ready" /\ step' \in [Task -> Steps]
  /\ UNCHANGED told

LEMMA JoinsOutcome ==
  ASSUME IInv, NEW w, Joins(w), NEW n \in Task, n = last + 1, UNCHANGED sent, blocker' # n
  PROVE  Outcome(n)' /\ told[n] = "nothing"
<1>1. last \in Nat
  BY DEF IInv, TypeOK
<1>2. Outcome(n)
  BY DEF IInv
<1>3. step[n] = "none"
  BY <1>1, <1>2 DEF Outcome
<1>4. told[n] = "nothing" /\ n \notin sent
  BY <1>2, <1>3 DEF Outcome
<1>5. ~(n > last') /\ step'[n] = "ready"
  BY <1>1 DEF Joins
<1>6. Outcome(n)'
  BY <1>4, <1>5 DEF Outcome, Joins
<1> QED
  BY <1>4, <1>6

LEMMA JoinsOthers ==
  ASSUME IInv, NEW w, Joins(w), UNCHANGED sent,
         NEW j \in Task \ {last + 1}, step'[j] = step[j], blocker' = j => blocker = j
  PROVE  Outcome(j)' /\ what'[j] = what[j]
<1>1. last \in Nat /\ j \in Nat
  BY DEF IInv, TypeOK, Task
<1>2. what'[j] = what[j]
  BY DEF Joins, IInv, TypeOK
<1>3. j > last' <=> j > last
  BY <1>1 DEF Joins
<1>4. Outcome(j)
  BY DEF IInv
<1> QED
  BY <1>2, <1>3, <1>4 DEF Outcome, Joins

\* SizePercent submits a coroutine to the loop that it goes on to block.
LEMMA SizePercentKeeps ==
  ASSUME IInv, NEW k \in Task, SizePercent(k)
  PROVE  IInv'
<1>1. Outcome(k) /\ step[k] = "await"
  BY DEF SizePercent, IInv
<1>2. CASE ib = "down"
  <2>1. Become(k, "failed") /\ UNCHANGED <<ib, last, what, blocker, sent>>
    BY <1>2 DEF SizePercent
  <2>2. Moved(k, "failed")
    BY <1>1, <2>1 DEF SizePercent, LoopRuns, Become, Moved, Steps, caller, IInv, TypeOK
  <2>3. step'[k] = "failed" /\ UNCHANGED <<told, sent, what, last>> /\ blocker' # k
    BY <2>1 DEF SizePercent, LoopRuns, Become, IInv, TypeOK, Task, NoTask
  <2>4. Outcome(k)'
    BY <1>1, <2>3 DEF Outcome
  <2> QED
    BY <2>2, <2>4, MovedKeeps
<1>3. CASE ib = "up"
  <2>0. last + 1 \in Task
    BY <1>3, BrokerAssumption, LockingFinite
    DEF SizePercent, Room, Locking, IInv, TypeOK, Task
  <2> PICK n \in Task : n = last + 1
    BY <2>0
  <2>1. /\ step' = [step EXCEPT ![k] = "sizing", ![n] = "ready"]
        /\ last' = n /\ what' = [what EXCEPT ![n] = "inner"] /\ blocker' = k
        /\ UNCHANGED <<ib, lock, pc, op, mine, told, sent>> /\ Room
    BY <1>3 DEF SizePercent, SubmitTask, LoopRuns, caller
  <2>2. last \in Nat /\ k \in Nat /\ MaxTask \in Nat /\ Cardinality(Locking) \in Nat
    BY BrokerAssumption, LockingFinite DEF IInv, TypeOK, Task
  <2>3. last + Cardinality(Locking) < MaxTask
    BY <2>1 DEF Room, Locking
  <2>4. last < MaxTask /\ n \in Task
    BY <2>2, <2>3 DEF Task
  <2>5. k <= last /\ k # n
    BY <1>1, <2>2 DEF Outcome
  <2>6. step' \in [Task -> Steps] /\ step'[n] = "ready" /\ step'[k] = "sizing"
        /\ \A j \in Task \ {k, n} : step'[j] = step[j]
    BY <2>1, <2>4, <2>5 DEF IInv, TypeOK, Steps
  <2>7. Joins("inner")
    BY <2>1, <2>4, <2>6 DEF Joins
  <2>8. Outcome(n)' /\ told[n] = "nothing"
    BY <2>1, <2>5, <2>7, JoinsOutcome
  <2>9. ASSUME NEW j \in Task \ {k, n}
        PROVE  Outcome(j)' /\ what'[j] = what[j]
    BY <2>1, <2>6, <2>7, JoinsOthers
  <2>10. what'[k] = what[k] /\ what'[n] = "inner"
    BY <2>1, <2>4, <2>5 DEF IInv, TypeOK
  <2>11. Outcome(k)'
    <3>1. ~(k > last')
      BY <2>1, <2>2, <2>5
    <3> QED
      BY <1>1, <2>1, <2>6, <3>1 DEF Outcome
  <2>12. ASSUME NEW j \in Task
         PROVE  Owned(j)'
    <3> SUFFICES ASSUME Live(j)', what'[j] \in ConnOps, told[j] # "timeout"
                 PROVE  lock # NoOne /\ mine[lock] = j
      BY <2>1 DEF Owned
    <3>1. j # n
      BY <2>10 DEF ConnOps
    <3>2. Live(j) /\ what[j] \in ConnOps
      BY <1>1, <2>6, <2>9, <2>10, <3>1 DEF Live
    <3> QED
      BY <3>2 DEF IInv, Owned
  <2>13. TypeOK'
    BY <2>1, <2>2, <2>4, <2>6 DEF IInv, TypeOK, Task
  <2>14. RoomKept'
    <3>1. Locking' = Locking
      BY <2>1 DEF Locking
    <3> QED
      BY <2>1, <2>2, <2>3, <3>1 DEF RoomKept
  <2>15. \A c \in Caller : CallerOK(c)'
    BY <2>1, <2>2 DEF IInv, CallerOK
  <2>16. ASSUME NEW j \in Task
         PROVE  Outcome(j)'
    BY <2>8, <2>9, <2>11
  <2> QED
    BY <2>12, <2>13, <2>14, <2>15, <2>16 DEF IInv
<1> QED
  BY <1>2, <1>3 DEF IInv, TypeOK

-----------------------------------------------------------------------------
\* A caller c submits w and waits for it; lock, if c has it, is c's from here on.
Waits(c, w) ==
  /\ w \in AllOps /\ last' = last + 1 /\ last < MaxTask
  /\ what' = [what EXCEPT ![last + 1] = w] /\ step' = [step EXCEPT ![last + 1] = "ready"]
  /\ mine' = [mine EXCEPT ![c] = last + 1] /\ pc' = [pc EXCEPT ![c] = "wait"]
  /\ op' = [op EXCEPT ![c] = w]
  /\ UNCHANGED <<ib, told, blocker, sent>>

LEMMA WaitsKeeps ==
  ASSUME IInv, NEW c \in Caller, pc[c] # "wait", NEW w, Waits(c, w),
         \/ lock' = lock /\ w \notin ConnOps
         \/ lock = NoOne /\ lock' = c /\ w \in ConnOps,
         RoomKept'
  PROVE  IInv'
<1>1. last \in Nat /\ MaxTask \in Nat /\ last + 1 \in Task
  BY BrokerAssumption DEF IInv, TypeOK, Waits, Task
<1> PICK n \in Task : n = last + 1
  BY <1>1
<1>2. blocker # n
  <2>1. blocker = n => Outcome(n) /\ step[n] = "sizing"
    BY <1>1 DEF IInv, Outcome
  <2> QED
    BY <1>1, <2>1 DEF Outcome
<1>3. step' \in [Task -> Steps] /\ step'[n] = "ready" /\ \A j \in Task \ {n} : step'[j] = step[j]
  BY <1>1 DEF Waits, IInv, TypeOK, Steps
<1>4. Joins(w)
  BY <1>3 DEF Waits, Joins
<1>5. Outcome(n)' /\ told[n] = "nothing"
  BY <1>2, <1>4, JoinsOutcome DEF Waits
<1>6. ASSUME NEW j \in Task \ {n}
      PROVE  Outcome(j)' /\ what'[j] = what[j]
  BY <1>3, <1>4, JoinsOthers DEF Waits
<1>7. lock # c
  BY BrokerAssumption DEF IInv, TypeOK
<1>8. /\ pc'[c] = "wait" /\ mine'[c] = n /\ op'[c] = w
      /\ \A d \in Caller \ {c} : pc'[d] = pc[d] /\ mine'[d] = mine[d] /\ op'[d] = op[d]
  BY DEF Waits, IInv, TypeOK
<1>9. TypeOK'
  <2>1. /\ pc' \in [Caller -> {"idle", "lock", "wait"}] /\ op' \in [Caller -> AllOps]
        /\ mine' \in [Caller -> Task \cup {NoTask}] /\ last' \in 0..MaxTask
        /\ what' \in [Task -> AllOps \cup {"inner"}]
    BY <1>1 DEF Waits, IInv, TypeOK
  <2>2. lock' \in Caller \cup {NoOne} /\ (lock' # NoOne => pc'[lock'] = "wait" /\ op'[lock'] \in ConnOps)
    BY <1>7, <1>8 DEF IInv, TypeOK
  <2> QED
    BY <1>3, <2>1, <2>2 DEF Waits, IInv, TypeOK
<1>10. ASSUME NEW d \in Caller
       PROVE  CallerOK(d)'
  <2>1. \A e \in Caller \ {c} : pc[e] = "wait" => mine[e] \in 1..last
    BY DEF IInv, CallerOK
  <2>2. \A e \in Caller \ {c} : pc[e] = "wait" => mine[e] # n
    BY <1>1, <2>1
  <2>3. CASE d = c
    BY <1>1, <1>5, <1>8, <2>2, <2>3 DEF CallerOK, Waits
  <2>4. CASE d # c
    BY <1>1, <1>8, <2>1, <2>2, <2>4 DEF IInv, CallerOK, Waits
  <2> QED
    BY <2>3, <2>4
<1>11. ASSUME NEW j \in Task
       PROVE  Owned(j)'
  <2> SUFFICES ASSUME Live(j)', what'[j] \in ConnOps, told[j] # "timeout"
               PROVE  lock' # NoOne /\ mine'[lock'] = j
    BY DEF Owned, Waits
  <2>1. CASE j = n
    <3>1. w \in ConnOps
      BY <1>1, <2>1 DEF Waits, IInv, TypeOK
    <3> QED
      BY <1>8, <2>1, <3>1, BrokerAssumption
  <2>2. CASE j # n
    <3>1. Live(j) /\ what[j] \in ConnOps
      BY <1>3, <1>6, <2>2 DEF Live
    <3>2. lock # NoOne /\ mine[lock] = j
      BY <3>1 DEF IInv, Owned
    <3>3. lock' = lock /\ lock \in Caller \ {c}
      BY <1>7, <3>2 DEF IInv, TypeOK
    <3> QED
      BY <1>8, <3>2, <3>3
  <2> QED
    BY <2>1, <2>2
<1>12. ASSUME NEW j \in Task
       PROVE  Outcome(j)'
  BY <1>5, <1>6
<1> QED
  BY <1>9, <1>10, <1>11, <1>12 DEF IInv, Waits

LEMMA CallKeeps ==
  ASSUME IInv, NEW c \in Caller, Call(c)
  PROVE  IInv'
<1>1. PICK w \in Ops \ ConnOps : op' = [op EXCEPT ![c] = w] /\ SubmitTask(w)
  BY DEF Call
<1>2. last + Cardinality(Locking) < MaxTask
  BY DEF Call, Room, Locking
<1>3. last \in Nat /\ MaxTask \in Nat /\ Cardinality(Locking) \in Nat
  BY BrokerAssumption, LockingFinite DEF IInv, TypeOK
<1>4. last' = last + 1 /\ last < MaxTask
  BY <1>1, <1>2, <1>3 DEF SubmitTask
<1>5. Waits(c, w)
  BY <1>1, <1>4, BrokerAssumption DEF Call, SubmitTask, Waits
<1>6. Locking' = Locking
  BY DEF Call, Locking, IInv, TypeOK
<1>7. RoomKept'
  BY <1>2, <1>3, <1>4, <1>6 DEF RoomKept
<1> QED
  BY <1>1, <1>5, <1>7, WaitsKeeps DEF Call

LEMMA AcquireKeeps ==
  ASSUME IInv, NEW c \in Caller, Acquire(c)
  PROVE  IInv'
<1>1. c \in Locking /\ op[c] \in ConnOps
  BY DEF Acquire, Locking, IInv, CallerOK
<1>2. Locking' = Locking \ {c}
  BY DEF Acquire, Locking, IInv, TypeOK
<1>3. Cardinality(Locking') = Cardinality(Locking) - 1 /\ Cardinality(Locking) \in Nat
  BY <1>1, <1>2, LockingFinite, FS_RemoveElement
<1>4. Cardinality(Locking) >= 1
  <2>1. IsFiniteSet(Locking') /\ Cardinality(Locking') \in Nat
    BY <1>2, LockingFinite, FS_RemoveElement, FS_CardinalityType
  <2> QED
    BY <1>3, <2>1
<1>5. last \in Nat /\ MaxTask \in Nat /\ last + Cardinality(Locking) <= MaxTask
  BY BrokerAssumption DEF IInv, TypeOK, RoomKept
<1>6. last' = last + 1 /\ last < MaxTask
  BY <1>3, <1>4, <1>5 DEF Acquire, SubmitTask
<1>7. RoomKept'
  BY <1>3, <1>5, <1>6 DEF RoomKept
<1>8. op' = [op EXCEPT ![c] = op[c]] /\ op[c] \in AllOps
  BY <1>1 DEF Acquire, IInv, TypeOK
<1>9. Waits(c, op[c])
  BY <1>6, <1>8 DEF Acquire, SubmitTask, Waits
<1> QED
  BY <1>1, <1>7, <1>9, WaitsKeeps DEF Acquire

LEMMA CallConnKeeps ==
  ASSUME IInv, NEW c \in Caller, CallConn(c)
  PROVE  IInv'
<1>1. PICK w \in Ops \cap ConnOps : op' = [op EXCEPT ![c] = w]
  BY DEF CallConn
<1>2. UNCHANGED <<ib, lock, mine, last, what, step, told, blocker, sent>>
  BY DEF CallConn, task
<1>3. /\ pc'[c] = "lock" /\ op'[c] = w /\ lock # c
      /\ \A d \in Caller \ {c} : pc'[d] = pc[d] /\ op'[d] = op[d]
  BY <1>1, BrokerAssumption DEF CallConn, IInv, TypeOK
<1>4. TypeOK'
  <2>1. pc' \in [Caller -> {"idle", "lock", "wait"}] /\ op' \in [Caller -> AllOps]
    BY <1>1, BrokerAssumption DEF CallConn, IInv, TypeOK
  <2>2. lock # NoOne => pc'[lock] = "wait" /\ op'[lock] \in ConnOps
    BY <1>3 DEF IInv, TypeOK
  <2> QED
    BY <1>2, <2>1, <2>2 DEF IInv, TypeOK
<1>5. RoomKept'
  <2>1. Locking' = Locking \cup {c} /\ c \notin Locking
    BY <1>3 DEF CallConn, Locking, IInv, TypeOK
  <2>2. Cardinality(Locking') = Cardinality(Locking) + 1
    BY <2>1, LockingFinite, FS_AddElement
  <2>3. last + Cardinality(Locking) < MaxTask
    BY DEF CallConn, Room, Locking
  <2>4. last \in Nat /\ MaxTask \in Nat /\ Cardinality(Locking) \in Nat
    BY BrokerAssumption, LockingFinite DEF IInv, TypeOK
  <2> QED
    BY <1>2, <2>2, <2>3, <2>4 DEF RoomKept
<1>6. \A d \in Caller : CallerOK(d)'
  BY <1>1, <1>2, <1>3 DEF IInv, CallerOK
<1>7. \A k \in Task : Outcome(k)' /\ Owned(k)'
  BY <1>2 DEF IInv, Outcome, Owned, Live
<1> QED
  BY <1>4, <1>5, <1>6, <1>7 DEF IInv

\* A caller is told as its coroutine ended, or that it gave up, and leaves the lock.
LEMMA LeaveKeeps ==
  ASSUME IInv, NEW c \in Caller, pc[c] = "wait", NEW a, Leave(c, a),
         \/ a = "ok" /\ step[mine[c]] = "done"
         \/ a = "error" /\ step[mine[c]] \in {"failed", "starved"}
         \/ a = "timeout" /\ ~Finished(mine[c])
  PROVE  IInv'
<1> DEFINE k == mine[c]
<1>1. k \in Task /\ k \in 1..last /\ told[k] = "nothing" /\ last \in Nat
  BY BrokerAssumption DEF IInv, TypeOK, CallerOK, Task
<1>2. UNCHANGED <<ib, last, what, step, blocker, sent>>
  BY DEF Leave, task
<1>3. /\ pc'[c] = "idle" /\ told'[k] = a
      /\ \A d \in Caller \ {c} : pc'[d] = pc[d] /\ mine'[d] = mine[d] /\ op'[d] = op[d]
      /\ \A j \in Task \ {k} : told'[j] = told[j]
  BY <1>1 DEF Leave, IInv, TypeOK
<1>4. lock' = (IF lock = c THEN NoOne ELSE lock)
  BY DEF Leave
<1>5. TypeOK'
  <2>1. /\ pc' \in [Caller -> {"idle", "lock", "wait"}] /\ op' \in [Caller -> AllOps]
        /\ mine' \in [Caller -> Task \cup {NoTask}]
        /\ told' \in [Task -> {"nothing", "ok", "error", "timeout"}]
    BY <1>1 DEF Leave, IInv, TypeOK, AllOps
  <2>2. lock' # NoOne => pc'[lock'] = "wait" /\ op'[lock'] \in ConnOps
    BY <1>3, <1>4 DEF IInv, TypeOK
  <2>3. lock' \in Caller \cup {NoOne}
    BY <1>4 DEF IInv, TypeOK
  <2> QED
    BY <1>2, <2>1, <2>2, <2>3 DEF IInv, TypeOK
<1>6. RoomKept'
  <2>1. Locking' = Locking
    BY <1>3 DEF Locking
  <2> QED
    BY <1>2, <2>1 DEF IInv, RoomKept
<1>7. ASSUME NEW d \in Caller
      PROVE  CallerOK(d)'
  <2>1. CASE d = c
    BY <1>3, <2>1 DEF CallerOK
  <2>2. CASE d # c
    <3>1. CallerOK(d) /\ CallerOK(c)
      BY DEF IInv
    <3>2. pc[d] = "wait" => mine[d] \in Task \ {k}
      BY <2>2, <3>1, BrokerAssumption DEF CallerOK, IInv, TypeOK, Task
    <3> QED
      BY <1>2, <1>3, <2>2, <3>1, <3>2 DEF CallerOK
  <2> QED
    BY <2>1, <2>2
<1>8. ASSUME NEW j \in Task
      PROVE  Outcome(j)'
  <2>1. Outcome(j)
    BY DEF IInv
  <2>2. CASE j = k
    <3>1. step[j] # "none"
      BY <1>1, <2>1, <2>2 DEF Outcome
    <3> QED
      BY <1>2, <1>3, <2>1, <2>2, <3>1 DEF Outcome
  <2>3. CASE j # k
    BY <1>2, <1>3, <2>1, <2>3 DEF Outcome
  <2> QED
    BY <2>2, <2>3
<1>9. ASSUME NEW j \in Task
      PROVE  Owned(j)'
  <2> SUFFICES ASSUME Live(j), what[j] \in ConnOps, told'[j] # "timeout"
               PROVE  lock' # NoOne /\ mine'[lock'] = j
    BY <1>2 DEF Owned, Live
  <2>1. j # k
    BY <1>3 DEF Live
  <2>2. lock # NoOne /\ mine[lock] = j
    BY <1>3, <2>1 DEF IInv, Owned
  <2>3. lock # c /\ lock \in Caller
    BY <2>1, <2>2 DEF IInv, TypeOK
  <2> QED
    BY <1>3, <1>4, <2>2, <2>3
<1> QED
  BY <1>5, <1>6, <1>7, <1>8, <1>9 DEF IInv

LEMMA AnswerKeeps ==
  ASSUME IInv, NEW c \in Caller, Return(c) \/ TimeOut(c)
  PROVE  IInv'
<1>1. CASE Return(c)
  BY <1>1, LeaveKeeps DEF Return, Finished
<1>2. CASE TimeOut(c)
  BY <1>2, LeaveKeeps DEF TimeOut
<1> QED
  BY <1>1, <1>2

-----------------------------------------------------------------------------
LEMMA NextKeeps ==
  ASSUME IInv, [Next]_vars
  PROVE  IInv'
<1>1. ASSUME NEW c \in Caller, Call(c) \/ CallConn(c) \/ CallerStep(c)
      PROVE  IInv'
  BY <1>1, CallKeeps, CallConnKeeps, AcquireKeeps, AnswerKeeps DEF CallerStep
<1>2. ASSUME NEW k \in Task, LoopStep(k)
      PROVE  IInv'
  BY <1>2, BeginKeeps, ConnectingKeeps, AwaitKeeps, SendKeeps, SizePercentKeeps,
     UnblockKeeps, AckKeeps DEF LoopStep
<1>3. CASE UNCHANGED vars
  <2>1. UNCHANGED <<ib, lock, pc, op, mine, last, what, step, told, blocker, sent>>
    BY <1>3 DEF vars, caller, task
  <2>2. TypeOK' /\ RoomKept'
    BY <2>1, LockingFinite DEF IInv, TypeOK, RoomKept
  <2>3. \A c \in Caller : CallerOK(c)'
    BY <2>1 DEF IInv, CallerOK
  <2>4. \A k \in Task : Outcome(k)' /\ Owned(k)'
    BY <2>1 DEF IInv, Outcome, Owned, Live
  <2> QED
    BY <2>2, <2>3, <2>4 DEF IInv
<1> QED
  BY <1>1, <1>2, <1>3, DropKeeps DEF Next

LEMMA Always == Spec => []IInv
<1>1. Init => IInv
  BY InitInv
<1>2. IInv /\ [Next]_vars => IInv'
  BY NextKeeps
<1> QED
  BY <1>1, <1>2, PTL DEF Spec

\* Every reachable state of the broker is well typed, and _conn_lock is held only by a
\* thread that waits for a connection call.
THEOREM BrokerTypes == Spec => []TypeOK
<1>1. IInv => TypeOK
  BY DEF IInv
<1> QED
  BY <1>1, Always, PTL

\* _conn_lock: of two connection coroutines on the loop, one was given up by its caller.
THEOREM ConnectionsAreSerialised == Spec => []ConnectionsSerialised
<1>1. IInv => ConnectionsSerialised
  BY DEF IInv, Owned, ConnectionsSerialised
<1> QED
  BY <1>1, Always, PTL

\* A call that ended with the error of its coroutine has sent no order.
THEOREM ErrorsMeanNoOrder == Spec => []ErrorMeansNoOrder
<1>1. IInv => ErrorMeansNoOrder
  BY DEF IInv, TypeOK, Outcome, ErrorMeansNoOrder
<1> QED
  BY <1>1, Always, PTL

\* An order that was reported as placed was sent.
THEOREM OksMeanOrder == Spec => []OkMeansOrder
<1>1. IInv => OkMeansOrder
  BY DEF IInv, Outcome, OkMeansOrder
<1> QED
  BY <1>1, Always, PTL
=============================================================================
