------------------------------ MODULE Instruments ------------------------------
(***************************************************************************)
(* The market-data mapping of one Trading 212 ticker:                      *)
(* app/longterm/instruments.py over the row of longterm_instruments.       *)
(* Threads of several processes resolve the ticker, enrich it from         *)
(* Trading 212's metadata and set a manual mapping; each is a read and a   *)
(* later upsert, and the upsert is itself a test of manual_override and a  *)
(* write, under a lock that other processes do not share.                  *)
(*                                                                         *)
(* The pair of provider symbols is one of: "none"; "legacy", a symbol of   *)
(* before TICKER_ALIASES; "live", the one parse() gives; "custom", set by  *)
(* hand.  Currencies are "none", "parsed" or "t212".                       *)
(***************************************************************************)
EXTENDS Naturals, FiniteSets

CONSTANT
  Thread      \* threads that use the mapping

VARIABLES
  shared,     \* the threads are of one process; otherwise each is of its own
  ticker,     \* its pattern: "us", "intl" or "odd" (not recognised)
  row,        \* the row of the ticker, or NoRow
  pc, job,    \* each thread: its next database call, and what it is for
  inst,       \* the mapping a thread is about to write
  writer,     \* history: the process that wrote the row
  overtaken   \* history: threads whose manual_override test one has overtaken

vars == <<shared, ticker, row, pc, job, inst, writer, overtaken>>

Mapping == [sym : {"none", "legacy", "live", "custom"},
            cur : {"none", "parsed", "t212"}, typ : {"unknown", "equity", "etf"},
            manual : BOOLEAN]
Automatic(s, c, t) == [sym |-> s, cur |-> c, typ |-> t, manual |-> FALSE]
ByHand(s) == [sym |-> s, cur |-> "none", typ |-> "equity", manual |-> TRUE]
NoRow == Automatic("absent", "none", "unknown")

\* parse(): by the pattern of the ticker alone.
Parsed ==
  IF ticker = "odd" THEN Automatic("none", "none", "unknown")
  ELSE Automatic("live", IF ticker = "us" THEN "parsed" ELSE "none", "equity")

\* _should_reheal: no type, no symbol, or a successor alias now applies.
Deficient(m) ==
  \/ m.typ = "unknown" \/ m.sym = "none"
  \/ ticker = "us" /\ m.sym # "live"

\* Rows of before: none, one an older parser left, or a mapping set by hand.
OldRow == {NoRow, Automatic("none", "none", "unknown"),
           Automatic("legacy", "parsed", "equity"), ByHand("custom")}

Init ==
  /\ shared \in BOOLEAN
  /\ ticker \in {"us", "intl", "odd"} /\ row \in OldRow
  /\ row.sym = "legacy" => ticker = "us"
  /\ pc = [t \in Thread |-> "idle"] /\ job = [t \in Thread |-> "resolve"]
  /\ inst = [t \in Thread |-> NoRow]
  /\ writer = {} /\ overtaken = {}

Home(t) == IF shared THEN Thread ELSE {t}
\* db._lock of the process is free: no thread of it is inside upsert_instrument.
Unlocked(t) == \A u \in Home(t) : pc[u] # "insert"

Goto(t, s) == pc' = [pc EXCEPT ![t] = s]
Hold(t, m) == inst' = [inst EXCEPT ![t] = m]

\* T212's currency and type, where the metadata has them, over the mapping.
Enriched(m) == [sym : {m.sym}, cur : {"t212", m.cur}, typ : {"etf", "equity", m.typ},
                manual : {FALSE}]

\* The operation returns.
Return(t) == Hold(t, NoRow) /\ Goto(t, "idle") /\ UNCHANGED job

\* resolve() has its answer m.  enrich_from_t212 goes on to merge and upsert it.
Resolved(t, m) ==
  IF job[t] = "enrich"
  THEN /\ \E e \in Enriched(m) : Hold(t, e)
       /\ job' = [job EXCEPT ![t] = "merge"] /\ Goto(t, "select")
  ELSE Return(t)

Quiet == UNCHANGED <<shared, ticker, row, writer, overtaken>>

\* An operation begins: resolve, enrich_from_t212 or set_manual_mapping.
Begin(t, j) ==
  /\ pc[t] = "idle" /\ job' = [job EXCEPT ![t] = j]
  /\ \/ j = "resolve" /\ Goto(t, "lookup") /\ UNCHANGED inst
     \/ j = "enrich" /\ Goto(t, "existing") /\ UNCHANGED inst
     \/ /\ j = "manual" /\ Goto(t, "select")
        /\ \E s \in {"none", "custom"} : Hold(t, ByHand(s))
  /\ Quiet

\* enrich_from_t212 never touches a manual mapping.
Existing(t) ==
  /\ pc[t] = "existing" /\ Unlocked(t)
  /\ Goto(t, IF row.manual THEN "idle" ELSE "lookup")
  /\ UNCHANGED <<inst, job>> /\ Quiet

\* Variation: a cached row is returned as it is.
LookupCached(t) ==
  /\ pc[t] = "lookup" /\ Unlocked(t)
  /\ IF row # NoRow THEN Resolved(t, row)
     ELSE Hold(t, Parsed) /\ Goto(t, "select") /\ UNCHANGED job
  /\ Quiet

\* resolve: read the row; a manual or a sound one is the answer, else parse again.
Lookup(t) ==
  /\ pc[t] = "lookup" /\ Unlocked(t)
  /\ IF \/ row = NoRow
        \/ /\ ~row.manual /\ Deficient(row) /\ Parsed.sym # "none"
           /\ <<Parsed.sym, Parsed.typ>> # <<row.sym, row.typ>>
     THEN Hold(t, Parsed) /\ Goto(t, "select") /\ UNCHANGED job
     ELSE Resolved(t, row)
  /\ Quiet

\* Variation: the caller's flag alone decides.
RefusedNever(m) == FALSE

Refused(m) == row.manual /\ ~m.manual

\* upsert_instrument ends, with or without a write; so does what called it.
Leave(t) ==
  IF job[t] = "enrich" THEN Resolved(t, inst[t]) ELSE Return(t)

\* upsert_instrument: SELECT manual_override, under the lock of the process.
Select(t) ==
  /\ pc[t] = "select" /\ Unlocked(t)
  /\ IF Refused(inst[t]) THEN Leave(t)
     ELSE Goto(t, "insert") /\ UNCHANGED <<job, inst>>
  /\ overtaken' = overtaken \ {t}
  /\ UNCHANGED <<shared, ticker, row, writer>>

\* upsert_instrument: INSERT .. ON CONFLICT DO UPDATE of every column, COMMIT.
Insert(t) ==
  /\ pc[t] = "insert"
  /\ row' = inst[t] /\ writer' = Home(t)
  /\ overtaken' = {u \in Thread \ {t} : pc[u] = "insert"}
  /\ Leave(t)
  /\ UNCHANGED <<shared, ticker>>

Step(t) == Existing(t) \/ Lookup(t) \/ Select(t) \/ Insert(t)
Next == \E t \in Thread : Step(t) \/ \E j \in {"resolve", "enrich", "manual"} : Begin(t, j)

\* Some thread runs on, and the pipeline of every day resolves each holding.
Resolving == \E t \in Thread : Step(t) \/ Begin(t, "resolve")

Spec == Init /\ [][Next]_vars /\ WF_vars(Resolving)

-----------------------------------------------------------------------------
\* Types; a mapping that failed to parse is not taken for one that did.
TypeOK ==
  /\ row \in {NoRow} \cup Mapping /\ inst \in [Thread -> {NoRow} \cup Mapping]
  /\ pc \in [Thread -> {"idle", "existing", "lookup", "select", "insert"}]
  /\ job \in [Thread -> {"resolve", "enrich", "merge", "manual"}]
  /\ overtaken \subseteq Thread
  /\ shared => Cardinality({t \in Thread : pc[t] = "insert"}) <= 1

\* instruments.py:10, "Rows flagged manual_override are never clobbered by
\* auto-mapping": only by an automatic write of a process other than the one that
\* set the override, whose test of the flag came before it and whose write came
\* after.  Within one process an override is never lost.
OverridesStand ==
  [][row.manual /\ ~row'.manual =>
       \E t \in overtaken : row' = inst[t] /\ Home(t) # writer]_row

\* instruments.py:159, "parser/alias improvements reach existing rows without a
\* manual migration": a mapping that is missing or unusable becomes sound, unless it
\* is taken over by hand, whatever else is written meanwhile.
MappingsHeal ==
  ticker # "odd" /\ Deficient(row) ~> row.manual \/ ~Deficient(row)
=============================================================================
