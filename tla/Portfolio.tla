------------------------------- MODULE Portfolio -------------------------------
(***************************************************************************)
(* The value history of the Trading 212 panel: _dashboard_payload,         *)
(* record_portfolio_snapshots and the one-time backfill of app/main.py,    *)
(* with the rates of app/fx.py and the tables of app/db.py.  Requests and  *)
(* jobs of any process interleave at each database call and each fetch.    *)
(*                                                                         *)
(* An amount is the set of holdings it counts.  A holding is "gbp", "listed" *)
(* (in the table of rates) or "odd" (no table lists its currency).         *)
(* The pipeline that fills longterm_holdings_snapshot is the environment.  *)
(***************************************************************************)
EXTENDS Naturals, FiniteSets

CONSTANTS
  Thread,     \* threads that serve the dashboard or run the job
  Held,       \* the holdings of the account
  MaxDay      \* bound: the days

\* The holdings are of the three kinds, and there is a day.
HeldOK == Held \subseteq {"gbp", "listed", "odd"} /\ MaxDay \in Nat \ {0}

Date == 1..MaxDay
Absent == {}          \* no row: a row of value 0 is never recorded

VARIABLES
  today,
  cache,      \* settings["fx_rates_cache"]: "none", "fresh" or "expired"
  flag,       \* settings["pf_hist_backfilled"]
  history,    \* portfolio_history of t212: the holdings that each date's row counts
  snapshot,   \* longterm_holdings_snapshot
  pc,         \* each thread: its next call
  rates,      \* each thread: a "table", be it stale, or "unavailable"
  day,        \* each thread: the date that it takes for today
  todo,       \* each thread: the dates that its backfill has to go
  due,        \* history: the dates that the backfill which set the flag was to do
  after       \* history: dates recorded since the thread read the rates

vars == <<today, cache, flag, history, snapshot, pc, rates, day, todo, due, after>>

Init ==
  /\ today = 1 /\ cache = "none" /\ flag = FALSE
  /\ history = [d \in Date |-> Absent] /\ snapshot = [d \in Date |-> {}]
  /\ pc = [t \in Thread |-> "idle"]
  /\ rates = [t \in Thread |-> "unavailable"] /\ day = [t \in Thread |-> 1]
  /\ todo = [t \in Thread |-> {}]
  /\ due = {} /\ after = [t \in Thread |-> {}]

-----------------------------------------------------------------------------
(* The environment: days, the life of the cache, the daily pipeline, crashes *)

Thinks == UNCHANGED <<pc, rates, day, todo, due, after>>

Midnight == /\ today < MaxDay /\ today' = today + 1
            /\ UNCHANGED <<cache, flag, history, snapshot>> /\ Thinks
Expire == /\ cache = "fresh" /\ cache' = "expired"
          /\ UNCHANGED <<today, flag, history, snapshot>> /\ Thinks
\* Row by row, in the order of the account; bound: not on the last day.
Snapshot(h) == /\ today < MaxDay /\ h = "listed" => "gbp" \in snapshot[today]
               /\ snapshot' = [snapshot EXCEPT ![today] = @ \cup {h}]
               /\ UNCHANGED <<today, cache, flag, history>> /\ Thinks

Goto(t, s) == pc' = [pc EXCEPT ![t] = s]

\* The thread is done, or ends with an exception or its process.
Reset(t) == /\ Goto(t, "idle")
            /\ rates' = [rates EXCEPT ![t] = "unavailable"] /\ day' = [day EXCEPT ![t] = 1]
            /\ todo' = [todo EXCEPT ![t] = {}]
Quit(t) == /\ pc[t] # "idle" /\ Reset(t) /\ after' = [after EXCEPT ![t] = {}]
           /\ UNCHANGED <<today, cache, flag, history, snapshot, due>>

-----------------------------------------------------------------------------
(* get_rates *)

Stored == UNCHANGED <<today, flag, history, snapshot, due>>
Dated(t) == day' = [day EXCEPT ![t] = today]   \* date.today(), after the rates

\* The rates are known: the dashboard does the backfill next, which the job does not.
Rated(t, r) ==
  /\ rates' = [rates EXCEPT ![t] = r] /\ Dated(t)
  /\ \E next \in {"flag", "panel"} : Goto(t, next)

\* The cached table, when it is within its life; else remember whether there is one.
ReadCache(t) ==
  /\ pc[t] = "idle"
  /\ \/ cache = "fresh" /\ Rated(t, "table")
     \/ /\ cache # "fresh" /\ Goto(t, "fetch") /\ UNCHANGED day
        /\ rates' = [rates EXCEPT ![t] = IF cache = "none" THEN "unavailable" ELSE "table"]
  /\ UNCHANGED <<cache, todo, after>> /\ Stored

\* Variation: an expired table is not used.
FetchRatesOrNone(t) ==
  /\ pc[t] = "fetch"
  /\ \/ cache' = "fresh" /\ Rated(t, "table")
     \/ cache' = cache /\ Rated(t, "unavailable")
  /\ UNCHANGED <<todo, after>> /\ Stored

\* _fetch_live: a new table, which is stored, or on any failure the one read before.
FetchRates(t) ==
  /\ pc[t] = "fetch"
  /\ \/ cache' = "fresh" /\ Rated(t, "table")
     \/ cache' = cache /\ Rated(t, rates[t])
  /\ UNCHANGED <<todo, after>> /\ Stored

\* convert() to GBP, of each holding: what the table does not list counts as nothing.
InGBP(t, hs) == hs \cap (IF rates[t] = "unavailable" THEN {"gbp"} ELSE {"gbp", "listed"})

\* record_portfolio_snapshot, of a value that is not 0.
Record(t, d, hs) ==
  IF InGBP(t, hs) = {} THEN UNCHANGED <<history, after>>
  ELSE /\ history' = [history EXCEPT ![d] = InGBP(t, hs)]
       /\ after' = [u \in Thread |-> IF u = t \/ pc[u] = "idle" THEN after[u]
                                     ELSE after[u] \cup {d}]

-----------------------------------------------------------------------------
(* _backfill_t212_history *)

\* Nothing to do once the flag is set, and nothing to do it with without rates.
Skipped(t) == flag \/ rates[t] = "unavailable"

\* Variation: the dates that have a row are done again.
StartBackfillAnew(t) ==
  /\ pc[t] = "flag" /\ Goto(t, IF Skipped(t) THEN "panel" ELSE "loop")
  /\ todo' = [todo EXCEPT ![t] = IF Skipped(t) THEN {} ELSE {d \in Date : snapshot[d] # {}}]
  /\ UNCHANGED <<cache, rates, day, after>> /\ Stored

\* The flag, portfolio_history_dates and snapshot_dates.  The three reads are one
\* step: what is written between two of them might as well be after the last.
StartBackfill(t) ==
  /\ pc[t] = "flag" /\ Goto(t, IF Skipped(t) THEN "panel" ELSE "loop")
  /\ todo' = [todo EXCEPT ![t] =
       IF Skipped(t) THEN {} ELSE {d \in Date : snapshot[d] # {} /\ history[d] = Absent}]
  /\ UNCHANGED <<cache, rates, day, after>> /\ Stored

\* The oldest date to go: its snapshot, read just before, in GBP.
Backfill(t) ==
  /\ pc[t] = "loop"
  /\ \E d \in todo[t] : /\ \A e \in todo[t] : d <= e
                        /\ Record(t, d, snapshot[d])
                        /\ todo' = [todo EXCEPT ![t] = @ \ {d}]
  /\ UNCHANGED <<today, cache, flag, snapshot, pc, rates, day, due>>

\* The days before the thread's own that have something to convert.
Owed(t) == {d \in Date : d < day[t] /\ InGBP(t, snapshot[d]) # {}}

\* Variation: the flag is set also when the loop ended with an exception.
SetFlagAnyway(t) ==
  /\ pc[t] = "loop" /\ Goto(t, "panel")
  /\ flag' = TRUE /\ due' = Owed(t)
  /\ UNCHANGED <<today, cache, history, snapshot, rates, day, todo, after>>

\* set_setting of the flag, when the loop is through.
SetFlag(t) ==
  /\ pc[t] = "loop" /\ todo[t] = {} /\ Goto(t, "panel")
  /\ flag' = TRUE /\ due' = Owed(t)
  /\ UNCHANGED <<today, cache, history, snapshot, rates, day, todo, after>>

\* An exception in the backfill is logged, and the flag stays as it is.
BackfillFails(t) ==
  /\ pc[t] = "loop" /\ Goto(t, "panel")
  /\ UNCHANGED <<cache, rates, day, todo, after>> /\ Stored

-----------------------------------------------------------------------------
\* _t212_dashboard has the holdings, and their value is recorded for today; when it
\* has an error instead there is none to record, as in Quit.
RecordToday(t) ==
  /\ pc[t] = "panel" /\ Reset(t)
  /\ IF InGBP(t, Held) = {} THEN history' = history /\ after' = [after EXCEPT ![t] = {}]
     ELSE /\ history' = [history EXCEPT ![day[t]] = InGBP(t, Held)]
          /\ after' = [u \in Thread |-> IF u = t \/ pc[u] = "idle" THEN {}
                                        ELSE after[u] \cup {day[t]}]
  /\ UNCHANGED <<today, cache, flag, snapshot, due>>

Step(t) == \/ ReadCache(t)
           \/ FetchRates(t) \/ StartBackfill(t) \/ Backfill(t)
           \/ SetFlag(t) \/ BackfillFails(t) \/ RecordToday(t) \/ Quit(t)
Next == \/ Midnight \/ Expire \/ \E h \in Held : Snapshot(h)
        \/ \E t \in Thread : Step(t)

Spec == Init /\ [][Next]_vars

-----------------------------------------------------------------------------
TypeOK ==
  /\ cache \in {"none", "fresh", "expired"}
  /\ history \in [Date -> SUBSET (Held \ {"odd"})] /\ snapshot \in [Date -> SUBSET Held]
  /\ pc \in [Thread -> {"idle", "fetch", "flag", "loop", "panel"}]
  /\ rates \in [Thread -> {"table", "unavailable"}] /\ day \in [Thread -> 1..today]
  /\ \A t \in Thread : pc[t] = "loop" => rates[t] # "unavailable"

\* main.py:125, "Harmless under multiple workers": the row of a date loses a holding
\* only to a thread that read the rates before that row was last recorded.  One
\* that comes later has a table to convert it with, however many refreshes fail, and
\* its backfill leaves the row alone.
RowsKeep ==
  [][\A d \in Date : ~(history[d] \subseteq history'[d]) =>
       \E t \in Thread : d \in after[t] /\ <<pc[t], todo[t]>> # <<pc'[t], todo'[t]>>]_history

\* main.py:566: once the flag says that the backfill is done, and none will be again,
\* every past date whose snapshot had a value has a row, whatever threads did it at
\* once and whichever of them failed on the way.
BackfillComplete == \A d \in due : history[d] # Absent
=============================================================================
