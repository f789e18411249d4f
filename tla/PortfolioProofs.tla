---------------------------- MODULE PortfolioProofs ----------------------------
(***************************************************************************)
(* What the value history keeps, for any number of threads, holdings and   *)
(* days.  RowsKeep speaks of a write that loses a holding; what makes it   *)
(* hold is what a thread with poor rates, or with a date left to backfill, *)
(* knows of the rows it may write: if they are there, they came after it   *)
(* had read.                                                               *)
(***************************************************************************)
EXTENDS Portfolio, TLAPS

Types ==
  /\ TypeOK /\ today \in Date
  /\ todo \in [Thread -> SUBSET Date] /\ after \in [Thread -> SUBSET Date]

\* Before the first table of rates, nothing of it is recorded.
NoTable ==
  cache = "none" =>
    /\ \A d \in Date : "listed" \notin history[d]
    /\ \A t \in Thread : rates[t] = "unavailable"

\* A thread without rates finds them in rows only that came after it.
Poor(t) ==
  pc[t] # "idle" /\ rates[t] = "unavailable" =>
    \A d \in Date : "listed" \in history[d] => d \in after[t]

\* A date that is left to backfill has a row only if that came meanwhile.
Pending(t) == pc[t] = "loop" => \A d \in todo[t] : history[d] # Absent => d \in after[t]

\* A past date that is not left, and has something to convert, has a row.
Filled(t) ==
  pc[t] = "loop" =>
    \A d \in Date : d < day[t] /\ d \notin todo[t] /\ InGBP(t, snapshot[d]) # {}
                    => history[d] # Absent

Known(t) == Poor(t) /\ Pending(t) /\ Filled(t)

IInv == Types /\ NoTable /\ BackfillComplete /\ \A t \in Thread : Known(t)

-----------------------------------------------------------------------------
\* What a step of any other thread or of the environment does for u: rows are only
\* filled, u knows which, and snapshots of the past stay.
Beside(u) ==
  /\ pc'[u] = pc[u] /\ rates'[u] = rates[u] /\ day'[u] = day[u] /\ todo'[u] = todo[u]
  /\ pc[u] # "idle" => after[u] \subseteq after'[u]
  /\ \A d \in Date : \/ history'[d] = history[d]
                     \/ history'[d] # Absent /\ (pc[u] # "idle" => d \in after'[u])
  /\ \A d \in Date : d < today => snapshot'[d] = snapshot[d]

LEMMA BesideKeeps ==
  ASSUME Types, NEW u \in Thread, Known(u), Beside(u)
  PROVE  Known(u)'
<1>1. Poor(u)'
  BY DEF Known, Poor, Beside
<1>2. Pending(u)'
  <2> SUFFICES ASSUME pc[u] = "loop", NEW d \in Date, d \in todo[u], history'[d] # Absent
               PROVE  d \in after'[u]
    BY DEF Pending, Beside, Types
  <2> QED
    BY DEF Known, Pending, Beside
<1>3. Filled(u)'
  <2> SUFFICES ASSUME pc[u] = "loop", NEW d \in Date, d < day[u], d \notin todo[u],
                      InGBP(u, snapshot[d])' # {}
               PROVE  history'[d] # Absent
    BY DEF Filled, Beside, Types
  <2>1. day[u] \in 1..today /\ today \in Nat /\ d \in Nat
    BY DEF Types, TypeOK, Date
  <2>2. snapshot'[d] = snapshot[d]
    BY <2>1 DEF Beside
  <2>3. InGBP(u, snapshot[d]) # {}
    BY <2>2 DEF InGBP, Beside
  <2> QED
    BY <2>3 DEF Known, Filled, Beside
<1> QED
  BY <1>1, <1>2, <1>3 DEF Known

\* Rows that are only filled leave complete what was.
LEMMA FilledStays ==
  ASSUME BackfillComplete, UNCHANGED due, Types,
         due \subseteq Date,
         \A d \in Date : history'[d] = history[d] \/ history'[d] # Absent
  PROVE  BackfillComplete'
BY DEF BackfillComplete

-----------------------------------------------------------------------------
\* Days, the life of the cache and the pipeline.
LEMMA WorldKeeps ==
  ASSUME HeldOK, IInv, due \subseteq Date,
         Midnight \/ Expire \/ \E h \in Held : Snapshot(h)
  PROVE  IInv' /\ due' \subseteq Date
<1>1. UNCHANGED <<pc, rates, day, todo, due, after, history>>
  BY DEF Midnight, Expire, Snapshot, Thinks
<1>2. today \in Nat /\ today' \in Date /\ today' >= today /\ MaxDay \in Nat
  BY DEF Midnight, Expire, Snapshot, IInv, Types, Date, HeldOK
<1>3. snapshot' \in [Date -> SUBSET Held] /\ \A d \in Date : d < today => snapshot'[d] = snapshot[d]
  <2>1. CASE UNCHANGED snapshot
    BY <2>1 DEF IInv, Types, TypeOK
  <2>2. CASE \E h \in Held : Snapshot(h)
    <3>1. PICK h \in Held : snapshot' = [snapshot EXCEPT ![today] = @ \cup {h}]
      BY <2>2 DEF Snapshot
    <3>2. snapshot[today] \cup {h} \in SUBSET Held
      BY DEF IInv, Types, TypeOK
    <3> QED
      BY <1>2, <3>1, <3>2 DEF IInv, Types, TypeOK, Date
  <2> QED
    BY <2>1, <2>2 DEF Midnight, Expire
<1>4. cache' \in {"none", "fresh", "expired"} /\ (cache' = "none" => cache = "none")
  BY DEF Midnight, Expire, Snapshot, IInv, Types, TypeOK
<1>5. day' \in [Thread -> 1..today']
  <2>1. \A t \in Thread : day[t] \in 1..today'
    BY <1>2 DEF IInv, Types, TypeOK
  <2> QED
    BY <1>1, <2>1 DEF IInv, Types, TypeOK
<1>6. Types'
  BY <1>1, <1>2, <1>3, <1>4, <1>5 DEF IInv, Types, TypeOK, Date
<1>7. NoTable'
  BY <1>1, <1>4 DEF IInv, NoTable
<1>8. ASSUME NEW u \in Thread PROVE Known(u)'
  <2>1. Beside(u)
    BY <1>1, <1>3 DEF Beside
  <2> QED
    BY <2>1, BesideKeeps DEF IInv
<1>9. BackfillComplete'
  BY <1>1 DEF IInv, BackfillComplete
<1> QED
  BY <1>1, <1>6, <1>7, <1>8, <1>9 DEF IInv

-----------------------------------------------------------------------------
\* A step of t that writes no row: it moves to s with rates r, day y and dates x.
Thought(t, s, r, y, x) ==
  /\ s \in {"idle", "fetch", "flag", "loop", "panel"} /\ r \in {"table", "unavailable"}
  /\ y \in 1..today /\ x \in SUBSET Date
  /\ pc' = [pc EXCEPT ![t] = s] /\ rates' = [rates EXCEPT ![t] = r]
  /\ day' = [day EXCEPT ![t] = y] /\ todo' = [todo EXCEPT ![t] = x]
  /\ s # "idle" => UNCHANGED after
  /\ after' \in {after, [after EXCEPT ![t] = {}]}
  /\ cache' \in {cache, "fresh"} /\ (r = "table" => rates[t] = "table" \/ cache' # "none")
  /\ s = "loop" => r # "unavailable"
  /\ UNCHANGED <<today, history, snapshot>>

LEMMA ThoughtKeeps ==
  ASSUME IInv, NEW t \in Thread, NEW s, NEW r, NEW y, NEW x, Thought(t, s, r, y, x),
         Known(t)'
  PROVE  Types' /\ NoTable' /\ \A u \in Thread : Known(u)'
<1>1. Types'
  BY DEF IInv, Types, TypeOK, Thought, Date
<1>2. NoTable'
  <2> SUFFICES ASSUME cache' = "none"
               PROVE  /\ \A d \in Date : "listed" \notin history[d]
                      /\ \A u \in Thread : rates'[u] = "unavailable"
    BY DEF NoTable, Thought
  <2>1. cache = "none"
    BY DEF Thought
  <2> QED
    BY <2>1 DEF IInv, NoTable, Thought, Types, TypeOK
<1>3. ASSUME NEW u \in Thread PROVE Known(u)'
  <2>1. CASE u = t
    BY <2>1
  <2>2. CASE u # t
    <3>1. Beside(u)
      BY <2>2 DEF Beside, Thought, IInv, Types, TypeOK
    <3> QED
      BY <3>1, BesideKeeps DEF IInv
  <2> QED
    BY <2>1, <2>2
<1> QED
  BY <1>1, <1>2, <1>3

\* Reading the cache: a thread without rates begins when no row has any.
LEMMA ReadCacheKeeps ==
  ASSUME IInv, NEW t \in Thread, ReadCache(t)
  PROVE  IInv'
<1>1. UNCHANGED <<today, flag, history, snapshot, due, cache, todo, after>> /\ pc[t] = "idle"
  BY DEF ReadCache, Stored
<1>2. PICK s \in {"fetch", "flag", "panel"}, r \in {"table", "unavailable"}, y \in 1..today :
        /\ pc' = [pc EXCEPT ![t] = s] /\ rates' = [rates EXCEPT ![t] = r]
        /\ day' = [day EXCEPT ![t] = y]
        /\ r = "table" <=> cache # "none"
  <2>1. CASE cache = "fresh"
    <3>1. PICK s \in {"flag", "panel"} : Goto(t, s)
      BY <2>1 DEF ReadCache, Rated
    <3>2. today \in 1..today
      BY DEF IInv, Types, Date
    <3> QED
      BY <2>1, <3>1, <3>2 DEF ReadCache, Rated, Goto, Dated
  <2>2. CASE cache # "fresh"
    <3>1. day' = [day EXCEPT ![t] = day[t]] /\ day[t] \in 1..today
      BY <2>2 DEF ReadCache, IInv, Types, TypeOK
    <3> QED
      BY <2>2, <3>1 DEF ReadCache, Goto
  <2> QED
    BY <2>1, <2>2
<1>3. todo' = [todo EXCEPT ![t] = todo[t]] /\ todo[t] \in SUBSET Date
  BY <1>1 DEF IInv, Types
<1>4. Thought(t, s, r, y, todo[t])
  BY <1>1, <1>2, <1>3 DEF Thought
<1>5. pc'[t] = s /\ rates'[t] = r
  BY <1>2 DEF IInv, Types, TypeOK
<1>6. Known(t)'
  BY <1>1, <1>2, <1>5 DEF Known, Poor, Pending, Filled, IInv, NoTable
<1>7. BackfillComplete'
  BY <1>1 DEF IInv, BackfillComplete
<1> QED
  BY <1>4, <1>6, <1>7, ThoughtKeeps DEF IInv

LEMMA FetchRatesKeeps ==
  ASSUME IInv, NEW t \in Thread, FetchRates(t)
  PROVE  IInv'
<1>1. UNCHANGED <<today, flag, history, snapshot, due, todo, after>> /\ pc[t] = "fetch"
  BY DEF FetchRates, Stored
<1>2. PICK s \in {"flag", "panel"}, r \in {"table", rates[t]} :
        /\ pc' = [pc EXCEPT ![t] = s] /\ rates' = [rates EXCEPT ![t] = r]
        /\ day' = [day EXCEPT ![t] = today]
        /\ cache' \in {cache, "fresh"} /\ (r = rates[t] \/ cache' = "fresh")
  BY DEF FetchRates, Rated, Goto, Dated
<1>3. todo' = [todo EXCEPT ![t] = todo[t]] /\ todo[t] \in SUBSET Date /\ today \in 1..today
  BY <1>1 DEF IInv, Types, Date
<1>4. r \in {"table", "unavailable"}
  BY <1>2 DEF IInv, Types, TypeOK
<1>5. Thought(t, s, r, today, todo[t])
  BY <1>1, <1>2, <1>3, <1>4 DEF Thought
<1>6. pc'[t] = s /\ rates'[t] = r
  BY <1>2 DEF IInv, Types, TypeOK
<1>7. Poor(t)
  BY DEF IInv, Known
<1>8. Known(t)'
  BY <1>1, <1>2, <1>6, <1>7 DEF Known, Poor, Pending, Filled
<1>9. BackfillComplete'
  BY <1>1 DEF IInv, BackfillComplete
<1> QED
  BY <1>5, <1>8, <1>9, ThoughtKeeps DEF IInv

\* What is to be done is what has no row at that time.
LEMMA StartBackfillKeeps ==
  ASSUME IInv, NEW t \in Thread, StartBackfill(t)
  PROVE  IInv'
<1> DEFINE s == IF Skipped(t) THEN "panel" ELSE "loop"
           x == IF Skipped(t) THEN {} ELSE {d \in Date : snapshot[d] # {} /\ history[d] = Absent}
<1>1. UNCHANGED <<today, history, snapshot, due, cache, rates, day, after>> /\ pc[t] = "flag"
  BY DEF StartBackfill, Stored
<1>2. pc' = [pc EXCEPT ![t] = s] /\ todo' = [todo EXCEPT ![t] = x]
  BY DEF StartBackfill, Goto
<1>3. /\ rates' = [rates EXCEPT ![t] = rates[t]] /\ rates[t] \in {"table", "unavailable"}
      /\ day' = [day EXCEPT ![t] = day[t]] /\ day[t] \in 1..today
  BY <1>1 DEF IInv, Types, TypeOK
<1>4. s = "loop" => rates[t] # "unavailable"
  BY DEF Skipped
<1>5. s \in {"panel", "loop"} /\ x \in SUBSET Date
  OBVIOUS
<1>6. pc'[t] = s /\ todo'[t] = x
  BY <1>2 DEF IInv, Types, TypeOK
<1>7. s = "loop" => x = {d \in Date : snapshot[d] # {} /\ history[d] = Absent}
  OBVIOUS
<1> HIDE DEF s, x
<1>8. Thought(t, s, rates[t], day[t], x)
  BY <1>1, <1>2, <1>3, <1>4, <1>5 DEF Thought
<1>9. Poor(t)'
  BY <1>1 DEF IInv, Known, Poor
<1>10. Pending(t)'
  BY <1>1, <1>6, <1>7 DEF Pending
<1>11. Filled(t)'
  <2> SUFFICES ASSUME s = "loop", NEW d \in Date, d \notin x, InGBP(t, snapshot[d])' # {}
               PROVE  history[d] # Absent
    BY <1>1, <1>6 DEF Filled
  <2>1. snapshot[d] # {}
    BY <1>1 DEF InGBP
  <2> QED
    BY <1>7, <2>1
<1>12. BackfillComplete'
  BY <1>1 DEF IInv, BackfillComplete
<1> QED
  BY <1>8, <1>9, <1>10, <1>11, <1>12, ThoughtKeeps DEF IInv, Known

\* The flag is set over a history that is complete.
LEMMA SetFlagKeeps ==
  ASSUME IInv, NEW t \in Thread, SetFlag(t)
  PROVE  IInv' /\ due' \subseteq Date
<1>1. /\ UNCHANGED <<today, history, snapshot, cache, rates, day, todo, after>>
      /\ pc[t] = "loop" /\ todo[t] = {} /\ due' = Owed(t) /\ pc' = [pc EXCEPT ![t] = "panel"]
  BY DEF SetFlag, Goto
<1>2. /\ rates' = [rates EXCEPT ![t] = rates[t]] /\ rates[t] \in {"table", "unavailable"}
      /\ day' = [day EXCEPT ![t] = day[t]] /\ day[t] \in 1..today
      /\ todo' = [todo EXCEPT ![t] = todo[t]] /\ todo[t] \in SUBSET Date
  BY <1>1 DEF IInv, Types, TypeOK
<1>3. Thought(t, "panel", rates[t], day[t], todo[t])
  BY <1>1, <1>2 DEF Thought
<1>4. pc'[t] = "panel"
  BY <1>1 DEF IInv, Types, TypeOK
<1>5. Known(t)'
  BY <1>1, <1>4 DEF IInv, Known, Poor, Pending, Filled
<1>6. BackfillComplete'
  BY <1>1 DEF IInv, Known, Filled, Owed, BackfillComplete
<1> QED
  BY <1>1, <1>3, <1>5, <1>6, ThoughtKeeps DEF IInv, Owed

LEMMA FailKeeps ==
  ASSUME IInv, NEW t \in Thread, BackfillFails(t) \/ Quit(t)
  PROVE  IInv'
<1>1. UNCHANGED <<today, history, snapshot, cache, due>>
  BY DEF BackfillFails, Quit, Stored
<1>2. BackfillComplete'
  BY <1>1 DEF IInv, BackfillComplete
<1>3. CASE BackfillFails(t)
  <2>1. /\ UNCHANGED <<rates, day, todo, after>>
        /\ pc[t] = "loop" /\ pc' = [pc EXCEPT ![t] = "panel"]
    BY <1>3 DEF BackfillFails, Goto
  <2>2. /\ rates' = [rates EXCEPT ![t] = rates[t]] /\ rates[t] \in {"table", "unavailable"}
        /\ day' = [day EXCEPT ![t] = day[t]] /\ day[t] \in 1..today
        /\ todo' = [todo EXCEPT ![t] = todo[t]] /\ todo[t] \in SUBSET Date
    BY <2>1 DEF IInv, Types, TypeOK
  <2>3. Thought(t, "panel", rates[t], day[t], todo[t])
    BY <1>1, <2>1, <2>2 DEF Thought
  <2>4. pc'[t] = "panel"
    BY <2>1 DEF IInv, Types, TypeOK
  <2>5. Known(t)'
    BY <1>1, <2>1, <2>4 DEF IInv, Known, Poor, Pending, Filled
  <2> QED
    BY <1>2, <2>3, <2>5, ThoughtKeeps DEF IInv
<1>4. CASE Quit(t)
  <2>1. 1 \in 1..today
    BY DEF IInv, Types, Date
  <2>2. Thought(t, "idle", "unavailable", 1, {})
    BY <1>1, <1>4, <2>1 DEF Quit, Reset, Goto, Thought
  <2>3. pc'[t] = "idle"
    BY <1>4 DEF Quit, Reset, Goto, IInv, Types, TypeOK
  <2>4. Known(t)'
    BY <2>3 DEF Known, Poor, Pending, Filled
  <2> QED
    BY <1>2, <2>2, <2>4, ThoughtKeeps DEF IInv
<1> QED
  BY <1>3, <1>4

-----------------------------------------------------------------------------
\* The row of date d becomes x, of which all other threads at work know.
Writes(t, d, x) ==
  /\ x # Absent /\ x \in SUBSET (Held \ {"odd"})
  /\ history' = [history EXCEPT ![d] = x]
  /\ \A u \in Thread \ {t} : pc[u] # "idle" => after[u] \cup {d} \subseteq after'[u]
  /\ after' \in [Thread -> SUBSET Date]
  /\ \A u \in Thread \ {t} : /\ pc'[u] = pc[u] /\ rates'[u] = rates[u]
                             /\ day'[u] = day[u] /\ todo'[u] = todo[u]
  /\ UNCHANGED <<today, cache, snapshot, due>>

LEMMA WritesKeep ==
  ASSUME IInv, due \subseteq Date, NEW t \in Thread, NEW d \in Date, NEW x, Writes(t, d, x),
         Known(t)'
  PROVE  BackfillComplete' /\ \A u \in Thread : Known(u)'
<1>1. history'[d] = x /\ \A e \in Date \ {d} : history'[e] = history[e]
  BY DEF Writes, IInv, Types, TypeOK
<1>2. BackfillComplete'
  BY <1>1, FilledStays DEF Writes, IInv
<1>3. ASSUME NEW u \in Thread PROVE Known(u)'
  <2>1. CASE u = t
    BY <2>1
  <2>2. CASE u # t
    <3>1. Beside(u)
      BY <1>1, <2>2 DEF Beside, Writes
    <3> QED
      BY <3>1, BesideKeeps DEF IInv
  <2> QED
    BY <2>1, <2>2
<1> QED
  BY <1>2, <1>3

\* What is recorded lacks nothing but what no table lists, and without a table only GBP.
LEMMA Converted ==
  ASSUME HeldOK, NEW t \in Thread, NEW hs \in SUBSET Held
  PROVE  /\ InGBP(t, hs) \in SUBSET (Held \ {"odd"})
         /\ rates[t] = "unavailable" => "listed" \notin InGBP(t, hs)
         /\ rates[t] # "unavailable" => hs \cap (Held \ {"odd"}) \subseteq InGBP(t, hs)
BY DEF InGBP, HeldOK

LEMMA BackfillKeeps ==
  ASSUME HeldOK, IInv, due \subseteq Date, NEW t \in Thread, Backfill(t)
  PROVE  IInv' /\ due' \subseteq Date
<1>1. PICK d \in todo[t] : Record(t, d, snapshot[d]) /\ todo' = [todo EXCEPT ![t] = @ \ {d}]
  BY DEF Backfill
<1>2. UNCHANGED <<today, cache, flag, snapshot, pc, rates, day, due>> /\ pc[t] = "loop"
  BY DEF Backfill
<1>3. d \in Date /\ rates[t] # "unavailable" /\ snapshot[d] \in SUBSET Held
  BY <1>2 DEF IInv, Types, TypeOK
<1>4. todo' \in [Thread -> SUBSET Date] /\ todo'[t] = todo[t] \ {d}
      /\ \A u \in Thread \ {t} : todo'[u] = todo[u]
  BY <1>1 DEF IInv, Types
<1> DEFINE x == InGBP(t, snapshot[d])
<1>5. x \in SUBSET (Held \ {"odd"})
  BY <1>3, Converted
<1>6. CASE x = {}
  <2>1. UNCHANGED <<history, after>>
    BY <1>1, <1>6 DEF Record
  <2>2. Types' /\ NoTable' /\ BackfillComplete'
    BY <1>2, <1>4, <2>1 DEF IInv, Types, TypeOK, NoTable, BackfillComplete, Date
  <2>3. Poor(t)' /\ Pending(t)'
    BY <1>2, <1>4, <2>1 DEF IInv, Known, Poor, Pending
  <2>4. Filled(t)'
    <3> SUFFICES ASSUME NEW e \in Date, e < day[t], e \notin todo'[t], InGBP(t, snapshot[e])' # {}
                 PROVE  history[e] # Absent
      BY <1>2, <2>1 DEF Filled
    <3>1. InGBP(t, snapshot[e]) # {}
      BY <1>2 DEF InGBP
    <3>2. e # d /\ e \notin todo[t]
      BY <1>4, <1>6, <3>1
    <3> QED
      BY <1>2, <3>1, <3>2 DEF IInv, Known, Filled
  <2>5. ASSUME NEW u \in Thread \ {t} PROVE Known(u)'
    <3>1. Beside(u)
      BY <1>2, <1>4, <2>1 DEF Beside
    <3> QED
      BY <3>1, BesideKeeps DEF IInv
  <2> QED
    BY <1>2, <2>2, <2>3, <2>4, <2>5 DEF IInv, Known
<1>7. CASE x # {}
  <2>1. /\ history' = [history EXCEPT ![d] = x]
        /\ after' = [u \in Thread |-> IF u = t \/ pc[u] = "idle" THEN after[u]
                                      ELSE after[u] \cup {d}]
    BY <1>1, <1>7 DEF Record
  <2>2. after' \in [Thread -> SUBSET Date] /\ after'[t] = after[t]
    BY <1>3, <2>1 DEF IInv, Types
  <2>3. history'[d] = x /\ \A e \in Date \ {d} : history'[e] = history[e]
    BY <1>3, <2>1 DEF IInv, Types, TypeOK
  <2>4. Writes(t, d, x)
    BY <1>2, <1>4, <1>5, <1>7, <2>1, <2>2 DEF Writes, Absent
  <2>5. Types'
    <3>1. history' \in [Date -> SUBSET (Held \ {"odd"})]
      BY <1>3, <1>5, <2>1 DEF IInv, Types, TypeOK
    <3> QED
      BY <1>2, <1>4, <2>2, <3>1 DEF IInv, Types, TypeOK, Date
  <2>6. NoTable'
    BY <1>2, <1>3 DEF IInv, NoTable
  <2>7. Poor(t)'
    BY <1>2, <1>3 DEF Poor
  <2>8. Pending(t)'
    BY <1>2, <1>4, <2>2, <2>3 DEF IInv, Types, Known, Pending
  <2>9. Filled(t)'
    <3> SUFFICES ASSUME NEW e \in Date, e < day[t], e \notin todo'[t], InGBP(t, snapshot[e])' # {}
                 PROVE  history'[e] # Absent
      BY <1>2 DEF Filled
    <3>1. InGBP(t, snapshot[e]) # {}
      BY <1>2 DEF InGBP
    <3>2. CASE e = d
      BY <1>7, <2>3, <3>2 DEF Absent
    <3>3. CASE e # d
      <4>1. e \notin todo[t]
        BY <1>4, <3>3
      <4> QED
        BY <1>2, <2>3, <3>1, <3>3, <4>1 DEF IInv, Known, Filled
    <3> QED
      BY <3>2, <3>3
  <2>10. Known(t)'
    BY <2>7, <2>8, <2>9 DEF Known
  <2> HIDE DEF x
  <2> QED
    BY <1>2, <1>3, <2>4, <2>5, <2>6, <2>10, WritesKeep DEF IInv
<1> QED
  BY <1>6, <1>7

LEMMA RecordTodayKeeps ==
  ASSUME HeldOK, IInv, due \subseteq Date, NEW t \in Thread, RecordToday(t)
  PROVE  IInv' /\ due' \subseteq Date
<1>1. UNCHANGED <<today, cache, flag, snapshot, due>> /\ pc[t] = "panel" /\ Reset(t)
  BY DEF RecordToday
<1>2. /\ pc' = [pc EXCEPT ![t] = "idle"] /\ rates' = [rates EXCEPT ![t] = "unavailable"]
      /\ day' = [day EXCEPT ![t] = 1] /\ todo' = [todo EXCEPT ![t] = {}]
  BY <1>1 DEF Reset, Goto
<1>3. pc'[t] = "idle"
  BY <1>2 DEF IInv, Types, TypeOK
<1>4. Known(t)'
  BY <1>3 DEF Known, Poor, Pending, Filled
<1>5. 1 \in 1..today /\ day[t] \in Date
  <2>1. today \in 1..MaxDay /\ MaxDay \in Nat /\ day[t] \in 1..today
    BY DEF HeldOK, IInv, Types, TypeOK, Date
  <2> QED
    BY <2>1 DEF Date
<1> DEFINE x == InGBP(t, Held)
<1>6. CASE x = {}
  <2>1. history' = history /\ after' = [after EXCEPT ![t] = {}]
    BY <1>6 DEF RecordToday
  <2>2. Thought(t, "idle", "unavailable", 1, {})
    BY <1>1, <1>2, <1>5, <2>1 DEF Thought
  <2>3. BackfillComplete'
    BY <1>1, <2>1 DEF IInv, BackfillComplete
  <2> QED
    BY <1>1, <1>4, <2>2, <2>3, ThoughtKeeps DEF IInv
<1>7. CASE x # {}
  <2>1. /\ history' = [history EXCEPT ![day[t]] = x]
        /\ after' = [u \in Thread |-> IF u = t \/ pc[u] = "idle" THEN {}
                                      ELSE after[u] \cup {day[t]}]
    BY <1>7 DEF RecordToday
  <2>2. x \in SUBSET (Held \ {"odd"}) /\ (rates[t] = "unavailable" => "listed" \notin x)
    BY Converted
  <2> HIDE DEF x
  <2>3. after' \in [Thread -> SUBSET Date]
    BY <1>5, <2>1 DEF IInv, Types
  <2>4. Writes(t, day[t], x)
    BY <1>1, <1>2, <1>7, <2>1, <2>2, <2>3 DEF Writes, Absent, IInv, Types, TypeOK
  <2>5. Types'
    <3>1. history' \in [Date -> SUBSET (Held \ {"odd"})]
      BY <1>5, <2>1, <2>2 DEF IInv, Types, TypeOK
    <3>2. /\ pc' \in [Thread -> {"idle", "fetch", "flag", "loop", "panel"}]
          /\ rates' \in [Thread -> {"table", "unavailable"}] /\ day' \in [Thread -> 1..today]
          /\ todo' \in [Thread -> SUBSET Date]
      BY <1>2, <1>5 DEF IInv, Types, TypeOK
    <3>3. \A u \in Thread : pc'[u] = "loop" => rates'[u] # "unavailable"
      BY <1>2 DEF IInv, Types, TypeOK
    <3> QED
      BY <1>1, <2>3, <3>1, <3>2, <3>3 DEF IInv, Types, TypeOK, Date
  <2>6. NoTable'
    <3> SUFFICES ASSUME cache = "none"
                 PROVE  /\ \A d \in Date : "listed" \notin history'[d]
                        /\ \A u \in Thread : rates'[u] = "unavailable"
      BY <1>1 DEF NoTable
    <3>1. /\ \A d \in Date : "listed" \notin history[d]
          /\ \A u \in Thread : rates[u] = "unavailable"
      BY DEF IInv, NoTable
    <3> QED
      BY <1>2, <2>1, <2>2, <3>1 DEF IInv, Types, TypeOK
  <2> QED
    BY <1>1, <1>4, <1>5, <2>4, <2>5, <2>6, WritesKeep DEF IInv
<1> QED
  BY <1>6, <1>7

-----------------------------------------------------------------------------
Inv == IInv /\ due \subseteq Date

LEMMA InitInv ==
  ASSUME HeldOK, Init
  PROVE  Inv
BY DEF HeldOK, Init, Inv, IInv, Types, TypeOK, NoTable, BackfillComplete, Known, Poor, Pending,
       Filled, Date, Absent

LEMMA NextKeeps ==
  ASSUME HeldOK, Inv, [Next]_vars
  PROVE  Inv'
<1>1. ASSUME NEW t \in Thread, Step(t)
      PROVE  Inv'
  <2>1. CASE ReadCache(t) \/ FetchRates(t) \/ StartBackfill(t) \/ BackfillFails(t) \/ Quit(t)
    <3>1. due' = due
      BY <2>1 DEF ReadCache, FetchRates, StartBackfill, BackfillFails, Quit, Stored
    <3> QED
      BY <2>1, <3>1, ReadCacheKeeps, FetchRatesKeeps, StartBackfillKeeps, FailKeeps DEF Inv
  <2>2. CASE Backfill(t) \/ SetFlag(t) \/ RecordToday(t)
    BY <2>2, BackfillKeeps, SetFlagKeeps, RecordTodayKeeps DEF Inv
  <2> QED
    BY <1>1, <2>1, <2>2 DEF Step
<1>2. CASE UNCHANGED vars
  <2>1. \A u \in Thread : Beside(u)
    BY <1>2 DEF vars, Beside
  <2>2. ASSUME NEW u \in Thread PROVE Known(u)'
    BY <2>1, BesideKeeps DEF Inv, IInv
  <2> QED
    BY <1>2, <2>2 DEF vars, Inv, IInv, Types, TypeOK, NoTable, BackfillComplete, Date
<1> QED
  BY <1>1, <1>2, WorldKeeps DEF Next, Inv

\* The write that loses a holding is by a thread that the row came after.
LEMMA LossIsStale ==
  ASSUME HeldOK, Inv, Next, NEW d \in Date, ~(history[d] \subseteq history'[d])
  PROVE  \E t \in Thread : d \in after[t] /\ <<pc[t], todo[t]>> # <<pc'[t], todo'[t]>>
<1>1. PICK t \in Thread : Backfill(t) \/ RecordToday(t)
  BY DEF Next, Midnight, Expire, Snapshot, Step, ReadCache, FetchRates, StartBackfill, SetFlag,
         BackfillFails, Quit, Stored
<1>2. history[d] # {} /\ history[d] \subseteq Held \ {"odd"}
  BY DEF Inv, IInv, Types, TypeOK
<1>3. CASE Backfill(t)
  <2>1. PICK e \in todo[t] : Record(t, e, snapshot[e]) /\ todo' = [todo EXCEPT ![t] = @ \ {e}]
    BY <1>3 DEF Backfill
  <2>2. d = e
    BY <2>1 DEF Record, Inv, IInv, Types, TypeOK
  <2>3. d \in after[t]
    BY <1>2, <1>3, <2>2 DEF Backfill, Inv, IInv, Known, Pending, Absent
  <2>4. todo'[t] # todo[t]
    BY <2>1, <2>2 DEF Inv, IInv, Types
  <2> QED
    BY <2>3, <2>4
<1>4. CASE RecordToday(t)
  <2>1. history' = [history EXCEPT ![day[t]] = InGBP(t, Held)] /\ d = day[t]
    BY <1>4 DEF RecordToday, Inv, IInv, Types, TypeOK
  <2>2. history'[d] = InGBP(t, Held)
    BY <2>1 DEF Inv, IInv, Types, TypeOK
  <2>3. rates[t] = "unavailable"
    BY <1>2, <2>2, Converted
  <2>4. "listed" \in history[d]
    BY <1>2, <2>2, <2>3 DEF InGBP, HeldOK
  <2>5. pc[t] = "panel" /\ pc'[t] = "idle"
    BY <1>4 DEF RecordToday, Reset, Goto, Inv, IInv, Types, TypeOK
  <2>6. d \in after[t]
    BY <2>3, <2>4, <2>5 DEF Inv, IInv, Known, Poor
  <2> QED
    BY <2>5, <2>6
<1> QED
  BY <1>1, <1>3, <1>4

-----------------------------------------------------------------------------
LEMMA Always ==
  ASSUME HeldOK
  PROVE  Spec => []Inv
<1>1. Init => Inv
  BY InitInv
<1>2. Inv /\ [Next]_vars => Inv'
  BY NextKeeps
<1> QED
  BY <1>1, <1>2, PTL DEF Spec

\* Rows, rates and threads are what they should be, and no backfill goes on without
\* rates.
THEOREM PortfolioTypes ==
  ASSUME HeldOK
  PROVE  Spec => []TypeOK
<1>1. Inv => TypeOK
  BY DEF Inv, IInv, Types
<1> QED
  BY <1>1, Always, PTL

\* main.py:566: when the flag says that the backfill is done, every past day that had
\* something to convert has a row, whichever threads did it and failed on the way.
THEOREM BackfillIsComplete ==
  ASSUME HeldOK
  PROVE  Spec => []BackfillComplete
<1>1. Inv => BackfillComplete
  BY DEF Inv, IInv
<1> QED
  BY <1>1, Always, PTL

\* main.py:125: a row loses a holding only to a thread that had read the rates, or the
\* dates it has to fill, before that row was recorded.
THEOREM RowsAreKept ==
  ASSUME HeldOK
  PROVE  Spec => RowsKeep
<1>1. Inv /\ [Next]_vars =>
        [\A d \in Date : ~(history[d] \subseteq history'[d]) =>
           \E t \in Thread : d \in after[t] /\ <<pc[t], todo[t]>> # <<pc'[t], todo'[t]>>]_history
  BY LossIsStale DEF vars
<1> QED
  BY <1>1, Always, PTL DEF Spec, RowsKeep
=============================================================================
