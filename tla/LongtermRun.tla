----------------------------- MODULE LongtermRun -----------------------------
(***************************************************************************)
(* The daily long-term pipeline (app/longterm/scheduler.py) and what runs  *)
(* it: the cron job of each worker's BackgroundScheduler, and "Run now",   *)
(* which app/main.py starts in a background thread behind the worker's     *)
(* _LT_RUN flag while the browser polls.  All workers share one database;  *)
(* each has its own flag and its own scheduler.                            *)
(***************************************************************************)
EXTENDS Naturals, FiniteSets

CONSTANTS
  Worker,     \* uvicorn workers; a worker also names its cron run
  Click,      \* clicks on "Run now", each from a browser of its own
  Holdings,   \* length of the Trading 212 portfolio
  MaxDay,     \* bound: days of a behaviour, numbered from 1
  Faults      \* a subset of {"crash", "db"}

ASSUME LongtermAssumption ==
  /\ Worker \cap Click = {} /\ IsFiniteSet(Worker \cup Click)
  /\ Holdings \in Nat \ {0} /\ MaxDay \in Nat \ {0}
  /\ Faults \subseteq {"crash", "db"}

Day   == 1..MaxDay
Item  == 1..Holdings
Run   == Worker \cup Click
Never == 0                \* an unset lt_last_..._date
Forced(r) == r \in Click   \* run_daily_pipeline(force=True)

VARIABLES
  today,
  runDate, notifyDate,   \* lt_last_run_date, lt_last_notify_date
  snap, tried, rows,     \* per day: snapshot rows, holdings evaluated, verdict rows
  sent,                  \* per day: WhatsApp messages delivered, cron's and forced
  flag,                  \* _LT_RUN of each worker
  ui,                    \* the status fragment in each browser
  srv,                   \* the worker that serves a click
  pc, date, item, got,   \* each run: control, run_date, loop index, any verdict
  fired                  \* the last day each worker's cron trigger fired

store  == <<runDate, notifyDate, snap, tried, rows>>
web    == <<flag, ui, srv>>
run    == <<pc, date, item, got>>
vars == <<today, store, sent, web, run, fired>>

InRun(r)  == pc[r] \notin {"idle", "over"}
Home(r)   == IF Forced(r) THEN srv[r] ELSE r
Goto(r, l) == pc' = [pc EXCEPT ![r] = l]

Init ==
  /\ today = 1 /\ runDate = Never /\ notifyDate = Never
  /\ snap = [d \in Day |-> {}] /\ tried = [d \in Day |-> {}] /\ rows = [d \in Day |-> {}]
  /\ sent = [d \in Day |-> [cron |-> 0, forced |-> 0]]
  /\ flag = [w \in Worker |-> "none"]
  /\ ui = [c \in Click |-> "page"]
  /\ srv \in [Click -> Worker]
  /\ pc = [r \in Run |-> "idle"]
  /\ date = [r \in Run |-> 1] /\ item = [r \in Run |-> 1] /\ got = [r \in Run |-> FALSE]
  /\ fired = [w \in Worker |-> Never]

\* The runs of R are over: their threads and locals are gone.
Gone(R) ==
  /\ pc' = [r \in Run |-> IF r \in R THEN IF Forced(r) THEN "over" ELSE "idle" ELSE pc[r]]
  /\ date' = [r \in Run |-> IF r \in R THEN 1 ELSE date[r]]
  /\ item' = [r \in Run |-> IF r \in R THEN 1 ELSE item[r]]
  /\ got' = [r \in Run |-> r \notin R /\ got[r]]

\* Variation: no finally; a run that fails leaves the flag set.
EndsNoFinally(r, res) ==
  /\ Gone({r})
  /\ flag' = IF Forced(r) /\ res = "complete" THEN [flag EXCEPT ![srv[r]] = res] ELSE flag
  /\ UNCHANGED <<ui, srv>>

\* The end of a run; the finally of _bg() publishes how a manual one ended.
Ends(r, res) ==
  /\ Gone({r})
  /\ flag' = IF Forced(r) THEN [flag EXCEPT ![srv[r]] = res] ELSE flag
  /\ UNCHANGED <<ui, srv>>

-----------------------------------------------------------------------------
\* CronTrigger: once a day in every worker; APScheduler runs one instance of a
\* job at a time.
Fire(w) ==
  /\ pc[w] = "idle" /\ fired[w] < today
  /\ fired' = [fired EXCEPT ![w] = today]
  /\ Goto(w, "begin")
  /\ UNCHANGED <<today, store, sent, web, date, item, got>>

\* Variation: the flag is set without a look at it.
RunNowUnchecked(c) ==
  /\ pc[c] = "idle"
  /\ flag' = [flag EXCEPT ![srv[c]] = "running"]
  /\ ui' = [ui EXCEPT ![c] = "polling"]
  /\ Goto(c, "begin")
  /\ UNCHANGED <<today, store, sent, srv, date, item, got, fired>>

\* POST /longterm/run: check-and-set of the flag under _LT_RUN_LOCK, then the
\* thread.  A click that finds the flag set only answers with the status
\* fragment, which is Poll.
RunNow(c) ==
  /\ pc[c] = "idle" /\ flag[srv[c]] # "running"
  /\ flag' = [flag EXCEPT ![srv[c]] = "running"]
  /\ ui' = [ui EXCEPT ![c] = "polling"]
  /\ Goto(c, "begin")
  /\ UNCHANGED <<today, store, sent, srv, date, item, got, fired>>

\* Any worker answers GET /longterm/run-status, from its own flag.
Poll(c) ==
  /\ \E w \in Worker :
       ui' = [ui EXCEPT ![c] = IF flag[w] = "running" THEN "polling" ELSE "page"]
  /\ UNCHANGED <<today, store, sent, flag, srv, run, fired>>

-----------------------------------------------------------------------------
\* run_daily_pipeline

Begin(r) ==
  /\ pc[r] = "begin" /\ Goto(r, "check")
  /\ date' = [date EXCEPT ![r] = today]
  /\ item' = [item EXCEPT ![r] = 1] /\ got' = [got EXCEPT ![r] = FALSE]
  /\ UNCHANGED <<today, store, sent, web, fired>>

Check(r) ==
  /\ pc[r] = "check"
  /\ \/ ~Forced(r) /\ runDate = date[r] /\ Ends(r, "complete")
     \/ (Forced(r) \/ runDate # date[r]) /\ Goto(r, "fetch")
        /\ UNCHANGED <<web, date, item, got>>
  /\ UNCHANGED <<today, store, sent, fired>>

\* Variation: an error of the T212 call is read as an empty portfolio.
FetchEmpty(r) ==
  /\ pc[r] = "fetch"
  /\ Goto(r, "snapshot") \/ Goto(r, "mark")
  /\ UNCHANGED <<today, store, sent, web, date, item, got, fired>>

\* The one T212 call; an error ends the run and marks nothing.
Fetch(r) ==
  /\ pc[r] = "fetch"
  /\ \/ Goto(r, "snapshot") /\ UNCHANGED <<web, date, item, got>>
     \/ Ends(r, "failed")
  /\ UNCHANGED <<today, store, sent, fired>>

\* Variations: a loop index one past the end, a loop that stops one early, and
\* an index that is reset before it is compared.
AdvancePast(r, here, next) ==
  /\ Goto(r, IF item[r] > Holdings THEN next ELSE here)
  /\ item' = [item EXCEPT ![r] = IF @ > Holdings THEN 1 ELSE @ + 1]
AdvanceShort(r, here, next) ==
  /\ Goto(r, IF item[r] >= Holdings - 1 THEN next ELSE here)
  /\ item' = [item EXCEPT ![r] = IF @ >= Holdings - 1 THEN 1 ELSE @ + 1]
AdvanceReset(r, here, next) ==
  /\ item' = [item EXCEPT ![r] = IF @ = Holdings THEN 1 ELSE @ + 1]
  /\ Goto(r, IF item'[r] > Holdings THEN next ELSE here)

\* The loops over the holdings: the next item, or the next stage.
Advance(r, here, next) ==
  /\ Goto(r, IF item[r] = Holdings THEN next ELSE here)
  /\ item' = [item EXCEPT ![r] = IF @ = Holdings THEN 1 ELSE @ + 1]

Snapshot(r) ==
  /\ pc[r] = "snapshot"
  /\ snap' = [snap EXCEPT ![date[r]] = @ \cup {item[r]}]
  /\ Advance(r, "snapshot", "score")
  /\ UNCHANGED <<today, runDate, notifyDate, tried, rows, sent, web, date, got, fired>>

\* _process_holding in its own try: a verdict row, or a logged error.
Score(r) ==
  /\ pc[r] = "score"
  /\ tried' = [tried EXCEPT ![date[r]] = @ \cup {item[r]}]
  /\ \/ /\ rows' = [rows EXCEPT ![date[r]] = @ \cup {item[r]}]
        /\ got' = [got EXCEPT ![r] = TRUE]
     \/ UNCHANGED <<rows, got>>
  /\ Advance(r, "score", "mark")
  /\ UNCHANGED <<today, runDate, notifyDate, snap, sent, web, date, fired>>

Mark(r) ==
  /\ pc[r] = "mark" /\ Goto(r, "notify")
  /\ runDate' = date[r]
  /\ UNCHANGED <<today, notifyDate, snap, tried, rows, sent, web, date, item, got, fired>>

\* already_notified, and whether to send.
Notify(r) ==
  /\ pc[r] = "notify"
  /\ LET wanted == got[r] /\ (Forced(r) \/ notifyDate # date[r]) IN
     \/ wanted /\ Goto(r, "send") /\ UNCHANGED <<web, date, item, got>>
     \/ ~wanted /\ Ends(r, "complete")
  /\ UNCHANGED <<today, store, sent, fired>>

Counter(r) == IF Forced(r) THEN "forced" ELSE "cron"

\* Variation: the answer of send_whatsapp is not looked at.
SendUnchecked(r) ==
  /\ pc[r] = "send" /\ Goto(r, "record")
  /\ \/ sent' = [sent EXCEPT ![date[r]][Counter(r)] = @ + 1]
     \/ UNCHANGED sent
  /\ UNCHANGED <<today, store, web, date, item, got, fired>>

\* send_whatsapp: delivered, or False (unset, transport error, not 200).
Send(r) ==
  /\ pc[r] = "send"
  /\ \/ /\ sent' = [sent EXCEPT ![date[r]][Counter(r)] = @ + 1]
        /\ Goto(r, "record") /\ UNCHANGED <<web, date, item, got>>
     \/ Ends(r, "complete") /\ UNCHANGED sent
  /\ UNCHANGED <<today, store, fired>>

Record(r) ==
  /\ pc[r] = "record" /\ Ends(r, "complete")
  /\ notifyDate' = date[r]
  /\ UNCHANGED <<today, runDate, snap, tried, rows, sent, fired>>

\* A database call outside the two try blocks, or a log_event in one of their
\* handlers, raises: the run ends where it is.
Raise(r) ==
  /\ "db" \in Faults /\ InRun(r) /\ pc[r] # "begin"
  /\ Ends(r, "failed")
  /\ UNCHANGED <<today, store, sent, fired>>

Pipeline(r) ==
  \/ Begin(r) \/ Check(r) \/ Fetch(r) \/ Snapshot(r) \/ Score(r) \/ Mark(r)
  \/ Notify(r) \/ Send(r) \/ Record(r)

-----------------------------------------------------------------------------
Midnight ==
  /\ today < MaxDay /\ today' = today + 1
  /\ UNCHANGED <<store, sent, web, run, fired>>

\* The worker's process dies and is started again: its threads and flag are gone.
Restart(w) ==
  /\ "crash" \in Faults
  /\ Gone({r \in Run : Home(r) = w /\ InRun(r)})
  /\ flag' = [flag EXCEPT ![w] = "none"]
  /\ UNCHANGED <<today, store, sent, ui, srv, fired>>

Next ==
  \/ \E w \in Worker : Fire(w) \/ Restart(w)
  \/ \E c \in Click : RunNow(c) \/ Poll(c)
  \/ \E r \in Run : Pipeline(r) \/ Raise(r)
  \/ Midnight

\* Every network call of a run has a timeout, so a run goes on; a polling
\* browser polls every two seconds.
Fairness ==
  /\ \A r \in Run : WF_vars(Pipeline(r))
  /\ \A c \in Click : WF_vars(ui[c] = "polling" /\ Poll(c))

Spec == Init /\ [][Next]_vars /\ Fairness

-----------------------------------------------------------------------------
Stages == {"idle", "begin", "check", "fetch", "snapshot", "score", "mark",
           "notify", "send", "record", "over"}

\* Types; a loop index never leaves the portfolio.
TypeOK ==
  /\ today \in Day /\ runDate \in Day \cup {Never} /\ notifyDate \in Day \cup {Never}
  /\ snap \in [Day -> SUBSET Item] /\ tried \in [Day -> SUBSET Item]
  /\ rows \in [Day -> SUBSET Item]
  /\ sent \in [Day -> [cron : Nat, forced : Nat]]
  /\ flag \in [Worker -> {"none", "running", "complete", "failed"}]
  /\ ui \in [Click -> {"page", "polling"}] /\ srv \in [Click -> Worker]
  /\ pc \in [Run -> Stages] /\ date \in [Run -> Day]
  /\ item \in [Run -> Item] /\ got \in [Run -> BOOLEAN]
  /\ fired \in [Worker -> Day \cup {Never}]

\* main.py:1111, "Guarded by a lock so concurrent clicks can't launch
\* overlapping pipelines": in one worker at most one manual run is in flight,
\* and _LT_RUN says so exactly while it is, whatever raises or is restarted.
FlagIsTheRun ==
  /\ \A c, d \in Click : InRun(c) /\ InRun(d) /\ srv[c] = srv[d] => c = d
  /\ \A w \in Worker : flag[w] = "running" <=> \E c \in Click : srv[c] = w /\ InRun(c)

\* scheduler.py:11, a failed fetch "aborts the run cleanly", and :16: the date
\* that makes the cron skip a day is set only once every holding of that day was
\* snapshotted and evaluated, whichever run did it and whoever crashed meanwhile.
MarkedDayIsDone ==
  runDate # Never => snap[runDate] = Item /\ tried[runDate] = Item

Delivered(d) == sent[d].cron + sent[d].forced > 0

\* What the order of the stages guarantees of every run in flight, whatever the
\* other runs do: the holdings before the loop index are done, a finished loop has
\* done them all, `got` means a verdict row of the run's date, a message is sent
\* only of such a row, and the notify date is written only after a message.
AfterSnapshot == {"score", "mark", "notify", "send", "record"}
AfterScore    == {"mark", "notify", "send", "record"}
StageInv(r) ==
  /\ pc[r] \in {"check", "fetch"} => item[r] = 1
  /\ pc[r] \in {"check", "fetch", "snapshot"} => ~got[r]
  /\ pc[r] = "snapshot" => \A i \in Item : i < item[r] => i \in snap[date[r]]
  /\ pc[r] \in AfterSnapshot => snap[date[r]] = Item
  /\ pc[r] = "score" => \A i \in Item : i < item[r] => i \in tried[date[r]]
  /\ pc[r] \in AfterScore => tried[date[r]] = Item
  /\ got[r] => rows[date[r]] # {}
  /\ pc[r] = "send" => got[r]
  /\ pc[r] = "record" => Delivered(date[r])
StagesKept == \A r \in Run : InRun(r) /\ pc[r] # "begin" => StageInv(r)

\* lt_last_notify_date names a day only if a message of that day, about
\* verdicts that are in the table, was delivered.
NotifiedDayWasSent ==
  /\ notifyDate # Never => Delivered(notifyDate)
  /\ \A d \in Day : Delivered(d) => rows[d] # {} /\ tried[d] = Item

\* The table the tracker page joins by symbol: no verdict of a run without the
\* snapshot of the whole portfolio of that day.
VerdictsHaveSnapshot == \A d \in Day : rows[d] # {} => snap[d] = Item

\* main.py:1132, "While a run is in flight the fragment
\* keeps polling": a browser whose fragment has stopped polling has no run of
\* its own in flight.  (In one worker: a poll that another worker answers reads
\* the flag of a process that does not run it.)
PollingUntilDone == \A c \in Click : InRun(c) => ui[c] = "polling"

\* scheduler.py:16, "lt_last_notify_date guards duplicate notifications": the
\* unforced runs of a day send at most one message.  (See ClaimCron.)
OneCronMessage == \A d \in Day : sent[d].cron <= 1

\* Every run comes to its end, and every browser that polls is told.
RunsEnd == \A r \in Run : InRun(r) ~> ~InRun(r)
PollingEnds == \A c \in Click : ui[c] = "polling" ~> ui[c] = "page"
=============================================================================
