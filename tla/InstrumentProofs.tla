--------------------------- MODULE InstrumentProofs ---------------------------
(***************************************************************************)
(* That a manual mapping is lost only to a race of two processes, for any  *)
(* number of threads.  OverridesStand speaks of one write; OverrideInv is  *)
(* what the threads about to write have in common before it.               *)
(***************************************************************************)
EXTENDS Instruments, FiniteSetTheorems, TLAPS

Entry == {NoRow} \cup Mapping

\* TypeOK without its count, and what a thread about to write holds.
Types ==
  /\ row \in Entry /\ inst \in [Thread -> Entry]
  /\ pc \in [Thread -> {"idle", "existing", "lookup", "select", "insert"}]
  /\ job \in [Thread -> {"resolve", "enrich", "merge", "manual"}]
  /\ overtaken \subseteq Thread
  /\ \A t \in Thread : pc[t] \in {"select", "insert"} => inst[t] \in Mapping

\* db._lock: in one process, one thread at most is between the test and the write.
Locked == shared => \A t, u \in Thread : pc[t] = "insert" /\ pc[u] = "insert" => t = u

\* A thread about to overwrite a manual mapping was overtaken by another process.
Raced(t) == t \in overtaken /\ Home(t) # writer
OverrideInv ==
  \A t \in Thread : pc[t] = "insert" /\ Refused(inst[t]) => Raced(t)

IInv == Types /\ Locked /\ OverrideInv

-----------------------------------------------------------------------------
\* What parse() and the metadata give is a mapping.
LEMMA ParsedIsMapping ==
  ASSUME ticker \in {"us", "intl", "odd"}
  PROVE  Parsed \in Mapping
BY DEF Parsed, Automatic, Mapping

LEMMA EnrichedIsMapping ==
  ASSUME NEW x \in Mapping, NEW e \in Enriched(x)
  PROVE  e \in Mapping
BY DEF Enriched, Mapping

LEMMA ManualIsMapping ==
  ASSUME NEW s \in {"none", "custom"}
  PROVE  ByHand(s) \in Mapping
BY DEF ByHand, Mapping

-----------------------------------------------------------------------------
\* What a step of thread t leaves of the others' control and of its own types.
Moves(t) ==
  /\ \E s \in {"idle", "existing", "lookup", "select", "insert"}, x \in Entry,
        j \in {"resolve", "enrich", "merge", "manual"} :
       /\ pc' = [pc EXCEPT ![t] = s] /\ inst' = [inst EXCEPT ![t] = x]
       /\ job' = [job EXCEPT ![t] = j]
       /\ s \in {"select", "insert"} => x \in Mapping

\* resolve() returns, or hands its answer to enrich_from_t212: no write begins.
LEMMA ResolvedMoves ==
  ASSUME Types, NEW t \in Thread, NEW x \in Mapping, Resolved(t, x)
  PROVE  Moves(t) /\ pc'[t] # "insert"
<1>1. CASE job[t] = "enrich"
  <2>1. PICK e \in Enriched(x) : Hold(t, e)
    BY <1>1 DEF Resolved
  <2>2. e \in Mapping
    BY <2>1, EnrichedIsMapping
  <2>3. /\ pc' = [pc EXCEPT ![t] = "select"] /\ inst' = [inst EXCEPT ![t] = e]
        /\ job' = [job EXCEPT ![t] = "merge"]
    BY <1>1, <2>1 DEF Resolved, Hold, Goto
  <2> QED
    BY <2>2, <2>3 DEF Moves, Types, Entry
<1>2. CASE job[t] # "enrich"
  <2>1. /\ pc' = [pc EXCEPT ![t] = "idle"] /\ inst' = [inst EXCEPT ![t] = NoRow]
        /\ job' = [job EXCEPT ![t] = job[t]]
    BY <1>2 DEF Resolved, Return, Hold, Goto, Types
  <2> QED
    BY <2>1 DEF Moves, Types, Entry
<1> QED
  BY <1>1, <1>2

LEMMA LeaveMoves ==
  ASSUME Types, NEW t \in Thread, pc[t] \in {"select", "insert"}, Leave(t)
  PROVE  Moves(t) /\ pc'[t] # "insert"
<1>1. inst[t] \in Mapping
  BY DEF Types
<1>2. CASE job[t] = "enrich"
  BY <1>1, <1>2, ResolvedMoves DEF Leave
<1>3. CASE job[t] # "enrich"
  <2>1. Resolved(t, inst[t])
    BY <1>3 DEF Leave, Resolved
  <2> QED
    BY <1>1, <2>1, ResolvedMoves
<1> QED
  BY <1>2, <1>3

\* The steps of t that only read: no row is written and no write begins.
Reads(t) ==
  /\ Moves(t) /\ pc'[t] # "insert"
  /\ UNCHANGED <<shared, ticker, row, writer, overtaken>>

LEMMA BeginReads ==
  ASSUME Types, NEW t \in Thread, NEW j \in {"resolve", "enrich", "manual"}, Begin(t, j)
  PROVE  Reads(t)
<1>1. CASE j = "resolve"
  <2>1. /\ pc' = [pc EXCEPT ![t] = "lookup"] /\ inst' = [inst EXCEPT ![t] = inst[t]]
        /\ job' = [job EXCEPT ![t] = j]
    BY <1>1 DEF Begin, Goto, Types
  <2> QED
    BY <1>1, <2>1 DEF Begin, Reads, Moves, Quiet, Types, Entry
<1>2. CASE j = "enrich"
  <2>1. /\ pc' = [pc EXCEPT ![t] = "existing"] /\ inst' = [inst EXCEPT ![t] = inst[t]]
        /\ job' = [job EXCEPT ![t] = j]
    BY <1>2 DEF Begin, Goto, Types
  <2> QED
    BY <1>2, <2>1 DEF Begin, Reads, Moves, Quiet, Types, Entry
<1>3. CASE j = "manual"
  <2>1. PICK s \in {"none", "custom"} : Hold(t, ByHand(s))
    BY <1>3 DEF Begin
  <2>2. ByHand(s) \in Mapping
    BY ManualIsMapping
  <2>3. /\ pc' = [pc EXCEPT ![t] = "select"] /\ inst' = [inst EXCEPT ![t] = ByHand(s)]
        /\ job' = [job EXCEPT ![t] = j]
    BY <1>3, <2>1 DEF Begin, Goto, Hold
  <2> QED
    BY <1>3, <2>2, <2>3 DEF Begin, Reads, Moves, Quiet, Types, Entry
<1> QED
  BY <1>1, <1>2, <1>3

LEMMA ExistingReads ==
  ASSUME Types, NEW t \in Thread, Existing(t)
  PROVE  Reads(t)
<1>1. PICK s \in {"idle", "lookup"} : pc' = [pc EXCEPT ![t] = s]
  BY DEF Existing, Goto
<1>2. inst' = [inst EXCEPT ![t] = inst[t]] /\ job' = [job EXCEPT ![t] = job[t]]
  BY DEF Existing, Types
<1> QED
  BY <1>1, <1>2 DEF Existing, Reads, Moves, Quiet, Types, Entry

LEMMA LookupReads ==
  ASSUME Types, ticker \in {"us", "intl", "odd"}, NEW t \in Thread, Lookup(t)
  PROVE  Reads(t)
<1>1. CASE Hold(t, Parsed) /\ Goto(t, "select") /\ UNCHANGED job
  <2>1. /\ pc' = [pc EXCEPT ![t] = "select"] /\ inst' = [inst EXCEPT ![t] = Parsed]
        /\ job' = [job EXCEPT ![t] = job[t]]
    BY <1>1 DEF Goto, Hold, Types
  <2> QED
    BY <2>1, ParsedIsMapping DEF Lookup, Reads, Moves, Quiet, Types, Entry
<1>2. CASE row # NoRow /\ Resolved(t, row)
  BY <1>2, ResolvedMoves DEF Lookup, Reads, Quiet, Types, Entry
<1> QED
  BY <1>1, <1>2 DEF Lookup

-----------------------------------------------------------------------------
LEMMA MovesTypes ==
  ASSUME Types, NEW t \in Thread, Moves(t), row' \in Entry, overtaken' \subseteq Thread
  PROVE  Types'
BY DEF Types, Moves

\* A thread other than the one that moves is where it was.
LEMMA OthersStay ==
  ASSUME Types, NEW t \in Thread, Moves(t), NEW u \in Thread \ {t}
  PROVE  pc'[u] = pc[u] /\ inst'[u] = inst[u]
BY DEF Types, Moves

\* A step of t that leaves row and writer alone keeps what is said of the others.
LEMMA OthersKept ==
  ASSUME IInv, NEW t \in Thread, Moves(t), UNCHANGED <<shared, row, writer>>,
         overtaken \ {t} \subseteq overtaken', NEW u \in Thread \ {t},
         pc'[u] = "insert", Refused(inst[u])'
  PROVE  Raced(u)'
<1>1. pc[u] = "insert" /\ Refused(inst[u])
  BY OthersStay DEF IInv, Refused
<1>2. Raced(u)
  BY <1>1 DEF IInv, OverrideInv
<1> QED
  BY <1>2 DEF Raced, Home

LEMMA ReadsKeep ==
  ASSUME IInv, NEW t \in Thread, Reads(t)
  PROVE  IInv'
<1>1. Types'
  BY MovesTypes DEF IInv, Reads, Types
<1>2. Locked'
  BY OthersStay DEF IInv, Locked, Reads
<1>3. OverrideInv'
  <2> SUFFICES ASSUME NEW u \in Thread, pc'[u] = "insert", Refused(inst[u])'
               PROVE  Raced(u)'
    BY DEF OverrideInv
  <2>1. u # t
    BY DEF Reads
  <2> QED
    BY <2>1, OthersKept DEF Reads
<1> QED
  BY <1>1, <1>2, <1>3 DEF IInv

LEMMA SelectKeeps ==
  ASSUME IInv, NEW t \in Thread, Select(t)
  PROVE  IInv'
<1>1. CASE Refused(inst[t])
  <2>1. Moves(t) /\ pc'[t] # "insert"
    BY <1>1, LeaveMoves DEF Select, IInv
  <2>2. Types'
    BY <2>1, MovesTypes DEF IInv, Types, Select
  <2>3. Locked'
    BY <2>1, OthersStay DEF IInv, Locked, Select
  <2>4. OverrideInv'
    <3> SUFFICES ASSUME NEW u \in Thread, pc'[u] = "insert", Refused(inst[u])'
                 PROVE  Raced(u)'
      BY DEF OverrideInv
    <3>1. u # t
      BY <2>1
    <3> QED
      BY <2>1, <3>1, OthersKept DEF Select
  <2> QED
    BY <2>2, <2>3, <2>4 DEF IInv
<1>2. CASE ~Refused(inst[t])
  <2>1. /\ pc' = [pc EXCEPT ![t] = "insert"] /\ inst' = [inst EXCEPT ![t] = inst[t]]
        /\ job' = [job EXCEPT ![t] = job[t]] /\ inst[t] \in Mapping
    BY <1>2 DEF Select, Goto, IInv, Types
  <2>2. Moves(t)
    BY <2>1 DEF Moves, IInv, Types, Entry
  <2>3. Types'
    BY <2>2, MovesTypes DEF IInv, Types, Select
  <2>4. Locked'
    BY <2>1 DEF IInv, Types, Locked, Select, Unlocked, Home
  <2>5. OverrideInv'
    <3> SUFFICES ASSUME NEW u \in Thread, pc'[u] = "insert", Refused(inst[u])'
                 PROVE  Raced(u)'
      BY DEF OverrideInv
    <3>1. u # t
      BY <1>2, <2>1 DEF Refused, Select, IInv, Types
    <3> QED
      BY <2>2, <3>1, OthersKept DEF Select
  <2> QED
    BY <2>3, <2>4, <2>5 DEF IInv
<1> QED
  BY <1>1, <1>2

\* A write of t: those it overtakes are of other processes.
LEMMA InsertKeeps ==
  ASSUME IInv, NEW t \in Thread, Insert(t)
  PROVE  IInv'
<1>1. Moves(t) /\ pc'[t] # "insert"
  BY LeaveMoves DEF Insert, IInv
<1>2. Types'
  BY <1>1, MovesTypes DEF IInv, Types, Insert
<1>3. Locked'
  BY <1>1, OthersStay DEF IInv, Locked, Insert
<1>4. OverrideInv'
  <2> SUFFICES ASSUME NEW u \in Thread, pc'[u] = "insert"
               PROVE  Raced(u)'
    BY DEF OverrideInv
  <2>1. u # t /\ pc[u] = "insert" /\ pc[t] = "insert"
    BY <1>1, OthersStay DEF Insert, IInv
  <2>2. u \in overtaken'
    BY <2>1 DEF Insert
  <2>3. ~shared /\ writer' = {t} /\ shared' = shared
    BY <2>1 DEF IInv, Locked, Insert, Home
  <2> QED
    BY <2>1, <2>2, <2>3 DEF Raced, Home
<1> QED
  BY <1>2, <1>3, <1>4 DEF IInv

-----------------------------------------------------------------------------
Ticker == ticker \in {"us", "intl", "odd"}

LEMMA InitInv ==
  ASSUME Init
  PROVE  IInv /\ Ticker
<1>1. row \in Entry
  <2>1. Automatic("none", "none", "unknown") \in Mapping
    BY DEF Automatic, Mapping
  <2>2. Automatic("legacy", "parsed", "equity") \in Mapping
    BY DEF Automatic, Mapping
  <2> QED
    BY <2>1, <2>2, ManualIsMapping, Zenon DEF Init, OldRow, Entry
<1> QED
  BY <1>1 DEF Init, Ticker, IInv, Types, Locked, OverrideInv, Entry

LEMMA StepInv ==
  ASSUME IInv, Ticker, [Next]_vars
  PROVE  IInv' /\ Ticker'
<1>1. ASSUME NEW t \in Thread, Step(t)
      PROVE  IInv' /\ Ticker'
  <2>1. CASE Existing(t)
    BY <2>1, ExistingReads, ReadsKeep DEF IInv, Ticker, Reads
  <2>2. CASE Lookup(t)
    BY <2>2, LookupReads, ReadsKeep DEF IInv, Ticker, Reads
  <2>3. CASE Select(t)
    BY <2>3, SelectKeeps DEF Select, Ticker
  <2>4. CASE Insert(t)
    BY <2>4, InsertKeeps DEF Insert, Ticker
  <2> QED
    BY <1>1, <2>1, <2>2, <2>3, <2>4 DEF Step
<1>2. ASSUME NEW t \in Thread, NEW j \in {"resolve", "enrich", "manual"}, Begin(t, j)
      PROVE  IInv' /\ Ticker'
  BY <1>2, BeginReads, ReadsKeep DEF IInv, Ticker, Reads
<1>3. CASE UNCHANGED vars
  BY <1>3 DEF vars, IInv, Ticker, Types, Locked, OverrideInv, Refused, Raced, Home
<1> QED
  BY <1>1, <1>2, <1>3 DEF Next

\* A step that takes a manual flag away is the write of a thread that was raced.
LEMMA StepStands ==
  ASSUME IInv, Ticker, Next, row.manual, ~row'.manual
  PROVE  \E t \in overtaken : row' = inst[t] /\ Home(t) # writer
<1>1. PICK t \in Thread : Step(t) \/ \E j \in {"resolve", "enrich", "manual"} : Begin(t, j)
  BY DEF Next
<1>2. Insert(t)
  BY <1>1 DEF Step, Existing, Lookup, Select, Begin, Quiet
<1>3. row' = inst[t] /\ pc[t] = "insert" /\ Refused(inst[t])
  BY <1>2 DEF Insert, Refused
<1> QED
  BY <1>3 DEF IInv, OverrideInv, Raced

\* One thread at most writes at a time, counted.
LEMMA LockCounts ==
  ASSUME IInv
  PROVE  TypeOK
<1>1. shared => Cardinality({t \in Thread : pc[t] = "insert"}) <= 1
  <2> SUFFICES ASSUME shared
               PROVE  Cardinality({t \in Thread : pc[t] = "insert"}) <= 1
    OBVIOUS
  <2> DEFINE W == {t \in Thread : pc[t] = "insert"}
  <2>1. CASE W = {}
    <3>1. Cardinality(W) = 0
      BY <2>1, FS_EmptySet
    <3> QED
      BY <3>1
  <2>2. ASSUME NEW t \in W
        PROVE  Cardinality(W) <= 1
    <3>1. W = {t}
      BY <2>2 DEF IInv, Locked
    <3>2. Cardinality(W) = 1
      BY <3>1, FS_Singleton
    <3> QED
      BY <3>2
  <2> QED
    BY <2>1, <2>2
<1> QED
  BY <1>1 DEF IInv, Types, TypeOK, Entry

-----------------------------------------------------------------------------
\* Rows, threads and the lock are what they should be, for any number of threads.
THEOREM MappingTypes == Init /\ [][Next]_vars => []TypeOK
<1>1. Init => IInv /\ Ticker
  BY InitInv
<1>2. IInv /\ Ticker /\ [Next]_vars => IInv' /\ Ticker'
  BY StepInv
<1>3. IInv => TypeOK
  BY LockCounts
<1> QED
  BY <1>1, <1>2, <1>3, PTL

\* instruments.py:10: no automatic mapping replaces a manual one, unless its test of
\* the flag came before the write of another process that set it; and this asks for
\* no fairness.
THEOREM OverridesAreKept == Init /\ [][Next]_vars => OverridesStand
<1>1. Init => IInv /\ Ticker
  BY InitInv
<1>2. IInv /\ Ticker /\ [Next]_vars => IInv' /\ Ticker'
  BY StepInv
<1>3. IInv /\ Ticker /\ [Next]_vars =>
        [row.manual /\ ~row'.manual =>
           \E t \in overtaken : row' = inst[t] /\ Home(t) # writer]_row
  BY StepStands DEF vars
<1> QED
  BY <1>1, <1>2, <1>3, PTL DEF OverridesStand
=============================================================================
