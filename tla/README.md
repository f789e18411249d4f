# AlgoFoundry in TLA+

A TLA+ model of AlgoFoundry: what it models, what TLC checks on small
instances, and what TLAPS proves for instances of any size. `src/` below is the
repository; all line numbers are of the commit this directory sits beside.

1. [The system](#1-the-system)
2. [Modules](#2-modules)
3. [How the state and the actions correspond to the code](#3-how-the-state-and-the-actions-correspond-to-the-code)
4. [The runs](#4-the-runs)
5. [Fairness](#5-fairness)
6. [Proofs](#6-proofs)
7. [Where the documents and the code disagree](#7-where-the-documents-and-the-code-disagree)
8. [What is not modelled](#8-what-is-not-modelled)
9. [Plan](#9-plan)

## 1. The system

AlgoFoundry is one FastAPI application with two halves that share a database
and a dashboard.

* The **trading bridge** takes TradingView alerts (`POST /webhook`), gates them,
  and sends orders to Interactive Brokers.
* The **long-term tracker** fetches a Trading 212 portfolio once a day, scores
  every holding (technicals, fundamentals, AI research), writes a verdict
  BUY / HOLD / SELL for each, and sends a summary over WhatsApp.

It is deployed as `uvicorn --workers 2` (`src/Procfile:1`,
`src/deploy/algofoundry.service:12`). A **worker** is a process: the broker
singleton, every `threading.Lock`, `_LT_RUN` and the APScheduler instance exist
once per worker, and nothing but the database is shared. In a worker, `async
def` handlers run on the event loop one after the other, `def` handlers run in a
thread pool, and the broker has an event loop and a thread of its own.

### Components

| Component | State | Operations | Hard behaviour |
|---|---|---|---|
| Webhook and gates (`main.py:281-310`, `trading.py`) | none of its own: reads settings, connection and account in separate steps | gate a BUY (flat? below the cap?), gate a SELL (long?), place | what was read is stale when the order is sent; two signals of one symbol; a working order counts as no position; a 45 s timeout that does not cancel |
| Dashboard controls (`main.py:810-904`) | none of its own | kill switch, settings form, connect, disconnect, manual BUY/SELL/flatten | run in the thread pool, so beside the webhook; the form is written one key and one commit at a time |
| Broker bridge (`broker.py`) | `_ib` session, private loop and thread, `_conn_lock` | connect, disconnect, positions, account summary, open orders, place order | coroutines outlive the calls that wait for them; a coroutine that waits on its own loop |
| Long-term pipeline (`longterm/scheduler.py`, `main.py:1112-1224`) | `lt_last_run_date`, `lt_last_notify_date`, `_LT_RUN`, snapshot and verdict tables, each run's locals | daily cron, "Run now", status poll | two workers fire the same cron; a crash between two writes; the flag is per process; a forced run races the cron |
| Verdict engine (`longterm/scoring.py`) | the verdict rows of a symbol | band, hysteresis, trend guard, earnings freeze, upsert | rules over several days read rows that a rerun of the day has replaced |
| Settings and database (`db.py`) | all tables | locked single-statement reads and writes | each call commits; no transaction spans two |
| Ad-hoc analysis (`main.py:1244-1312`, `scheduler.py`) | verdict rows | analyse one symbol, optionally save | writes a row that the daily run reads as history |
| Notifier (`longterm/notifier.py`) | none | build and cut the summary, send | message length limit; a send that fails |
| Trading 212 client (`longterm/t212.py`) | throttle, instrument cache | portfolio, cash, instruments | rate limit shared by threads, retry after 429 |
| Instrument mapping (`longterm/instruments.py`) | `longterm_instruments` | resolve a T212 ticker, manual override | an override made while a run resolves the same ticker |
| Market-data sources (`longterm/data_sources.py`) | Finnhub throttle, fundamentals cache | prices, fundamentals, fallback chain | an unlocked stamp shared by threads; partial answers |
| AI research (`longterm/ai_research.py`) | none | ask a ladder of models, each twice at most | settings read again half way; replies of an unforeseen shape |
| Analysis of a symbol (`scheduler.py:67-134`, `compute_composite`) | none | collect the legs, ask the models, weigh | any source may fail; the models change while they are read |
| Technical, fundamental and analyst scores | none | score figures some of which are missing | numeric edges, bands |
| Accounts (`auth.py`, `db.py:965-1174`) | users, sessions | seed, login, signup, logout, expiry | first-user seeding in two workers; last admin |
| FX (`fx.py`) | rate cache | rate with expiry and a stale fallback | two threads refresh one entry |
| Portfolio history (`main.py:549-794`) | `portfolio_history` | snapshot, backfill, growth chart | a backfill that fails half way |
| Pine strategies (`pine/`) | bar-by-bar state on TradingView | entries and exits | external runtime |

Interactions: the webhook and the dashboard call the broker, which calls IBKR on
its own loop; the dashboard and the cron call the pipeline, which calls the T212
client, the instrument mapping, the data sources, the AI research, the verdict
engine, the database and the notifier, in this order for each holding; the
tracker page joins the snapshot and the verdict tables by symbol.

### What makes each component correct

* *Gates.* An order answers to settings, a flat account and a cap that were true
  at some instant since the request arrived; an exit is for a position the
  account had; nothing goes short as long as no order was sent on outdated
  knowledge; every request is answered.
* *Broker.* Two connection attempts never share the loop unless a caller gave
  up; an error means no order was sent; "ok" means one was; every call returns.
* *Pipeline.* A day is marked done only when every holding was snapshotted and
  evaluated; a day is marked notified only when its message went out; the flag
  is set exactly while a manual run is in flight; every run ends and every
  browser learns of it.
* *Verdicts.* A label changes only when the change is earned by margin or
  duration; a SELL needs a deep or a falling composite; a frozen day keeps its
  label; no label is delayed for ever.
* *Instrument mapping.* A mapping made by hand is not replaced by an automatic
  one; an unusable automatic one becomes sound.
* *Accounts.* Seeding leaves an admin and promotes no visitor; a page is served or
  refused as its session was worth while the request was there.
* *Portfolio history.* A row that is known is not replaced by a poorer one, except out of
  a stale read; the backfill's flag is true.
* *HTTP clients.* Two requests of a thread are an interval apart; a call makes a
  bounded number of tries.
* *Analysis and scores.* A failed source is never taken for a neutral score; every
  configured model is asked before the news leg is given up; a better figure never scores
  lower.
* *Message.* It fits its limit, and a holding it leaves out is counted in it.

`PROJECT.json` lists under `hazards` each place where this can go wrong, with
the property that covers it or the reason none does yet.

## 2. Modules

| Module | What it is |
|---|---|
| `Trading` | the bridge: webhook handlers, manual orders, kill switch, settings form, order coroutines, IBKR's fills, sessions, restarts, for any number of requests, workers and symbols |
| `MCTrading` | its TLC instance (symmetry) |
| `TradingProofs` | TLAPS proofs about `Trading`, the refinement of `SerialTrader` among them |
| `SerialTrader` | the abstract specification: gate and trade in one atomic step |
| `TradingSerial` | `Trading` with the refinement mapping to `SerialTrader` |
| `Broker` | `IBKRBroker`: callers, `_conn_lock`, futures with timeouts, coroutines on the private loop |
| `BrokerProofs` | TLAPS proofs about `Broker` |
| `LongtermRun` | `run_daily_pipeline` with its triggers: cron in every worker, "Run now", status poll, crash, restart |
| `MCLongtermRun` | its TLC instance (symmetry) |
| `LongtermProofs` | TLAPS proofs about `LongtermRun` |
| `Verdicts` | `decide`, the earnings freeze and `upsert_verdict` over the days of one holding |
| `MCVerdicts` | its TLC instance: sample composites |
| `VerdictProofs` | TLAPS proofs about `Verdicts` |
| `Instruments` | the mapping of one ticker, resolved, enriched and overridden by threads of one process or of several |
| `Accounts` | seeding at startup; pages, logins, signups and logouts at each database call; expiry and purge |
| `Portfolio` | the value history of the Trading 212 account: rates, dashboard, daily job, backfill |
| `Clients` | the throttles and retries of the Trading 212 and Finnhub clients |
| `Analysis` | `analyze_symbol` of one symbol, the ladder of models, `compute_composite` |
| `Scores` | the rubrics of the three scored legs |
| `Summary` | `compose_summary`'s truncation, on lengths |
| `Services` | the composition of these seven |
| `MCServices`, `MCScores` | the TLC instances of `Services` and of `Scores` |
| `InstrumentProofs`, `AccountProofs`, `PortfolioProofs` | TLAPS proofs about the module each is named after |
| `ServicesProofs` | TLAPS proofs about `Clients`, `Analysis`, `Scores` and `Summary`, and that `Services` keeps what all these prove |

`Trading` composes the gates with an abstraction of `Broker`: it keeps the
outcomes of a broker call that `Broker` shows possible (placed; failed; placed
after the caller gave up) and leaves out `_conn_lock` and the loop's queue.
`LongtermRun` keeps of a verdict only that its row exists; `Verdicts` is about
what it says, `Analysis` about the composite it is made of, and `Scores` about the
legs of the composite.

`Services` puts the seven smaller components in one specification. They run in the
same processes but share no variable that their properties are about, so a free
interleaving would multiply their graphs and say nothing new. `focus`, chosen in the
initial state, names the one component that takes steps; the others rest in one of
their initial states, and the graphs add up. `Accounts` comes twice: `Seeding` has two
workers that start and one browser tab, `Sessions` one worker and two tabs that share a
cookie. `Services` restates each component's properties under its own names, because
those are what the configuration file can name.

Definitions whose comment begins with "Variation:" are not part of the
specifications. They are plausible wrong versions of the definition that
follows, kept to show that each property distinguishes the two.

## 3. How the state and the actions correspond to the code

### Trading

One element of `Req` is one HTTP request. `pc[r]` is where its handler is; each
value names the next read of shared state, so that everything may happen
between two reads that may happen in the program:

| `pc` | code | action |
|---|---|---|
| `new` | request not dispatched yet | `Arrive` |
| `settings` | `s = db.get_all_settings()` and the tests on `s` (`trading.py:23-35`) | `ReadSettings` |
| `conn` | `broker.connected` | `CheckConnected` |
| `held` | `broker.position_qty`, the flat/long gate | `ReadHeld` (or `ReadFails`) |
| `open` | `broker.positions()`, the cap | `ReadOpen` (or `ReadFails`) |
| `submit` | `place_order`: refuse, or submit the coroutine | `Submit` |
| `wait` | `future.result(timeout=45)` | `Answer`, `GiveUp` |
| `done` | answered | |

`task[r]` is the coroutine that `place_order` submitted. It is not cancelled by
`GiveUp`, so `PlaceOrder(r)` may follow when `pc[r] = "done"`. `left[r]` is the
part of the order that works at IBKR: `Fill` and `CancelOrder` are IBKR's, and go
on when the worker is dead. `connected[w]` is the worker's session; at most one
worker has one, because all connect with the same client id. A disconnected
worker sees an empty account (`View`), as `positions()` answers `[]`.

`webhook` is `async def` and calls `handle_signal` without `await`: it holds its
worker's event loop to the end. `LoopFree` is that fact; manual orders are `def`
handlers, which `Arrive` also dispatches from the loop and then run in the
thread pool. `BeginSave`/`WriteKey` write the settings form key by key in the
order of the handler; `Kill` writes one key. `Restart(w)` is a crash of a worker:
handlers, coroutines, session and half-saved form disappear.

Quantities are in units of `1/Lot` shares: IBKR reports fractional positions and
`int(qty)` orders whole shares. Sizing (fixed, USD, percent of equity) is
abstracted to a choice in `BuyQty`.

Four variables are history: `seen`, `armed` and `fewest` record, from the
arrival of a request to its order, the positions, permissions and open-symbol
counts that were true; `stale[s]` records that some order of `s` was sent on
knowledge that was not true any more (`Outdated`). No guard reads them.

### Broker

A `Caller` is a thread in a broker method; a `Task` is a coroutine on the private
loop, numbered in the order of submission. `Begin` starts coroutines in that order,
as asyncio does; the other loop steps are the stretches between two awaits.
`TimeOut` leaves the coroutine alone. `blocker` is the coroutine that
occupies the loop's thread: `SizePercent` is `compute_qty` calling
`account_summary`, hence `_run`, on that thread, and while `blocker` is set no
other loop step is enabled.

### LongtermRun

A run is named by the worker whose cron fired or by the click that forced it.
`pc[r]` walks `run_daily_pipeline`: the run-date test, the T212 fetch, the
snapshot loop, the scoring loop (`_process_holding` in its own `try`), the
run-date mark, the notify test, the send, the notify-date record. Each loop
iteration is one step. `flag[w]` is `_LT_RUN` of worker `w`; `Ends` is the
`finally` of `_bg`. `ui[c]` is the fragment in the browser. `Restart(w)` kills
the runs of `w` and clears its flag; `Raise(r)` is a database error outside the
two `try` blocks. `snap`, `tried`, `rows` and `sent` are per day.

### Verdicts

`rows` is the history of one symbol, newest first, as `get_verdicts_for_symbol`
returns it; `Upsert` replaces today's row if there is one. `Held`, `Series`,
`SlopeSign`, `Deep` and `Scored` are `decide`; `Freeze` is the earnings veto.
`SlopeSign` is the numerator of the least-squares slope, whose sign is all
the code looks at. Composites are integers.

### Instruments

`row` is the row of one ticker in `longterm_instruments`; `pc[t]` is the next database
call of thread `t`, `job[t]` the operation it is part of (`resolve`,
`enrich_from_t212` with its later merge, `set_manual_mapping`), `inst[t]` the mapping it
is about to write. `upsert_instrument` is two steps, `Select` (the test of
`manual_override`) and `Insert`, under `db._lock`, which only the threads of one process
share: `shared` chooses between one process and one process per thread (`Home`). The pair
of provider symbols is what matters of it: none, one of before an alias, the one `parse`
gives, one set by hand. `writer` and `overtaken` are history: who wrote the row, and
which threads passed their test before that write.

### Accounts

`up[w]` walks `ensure_seed` and the purge that follows it, one database call a step;
`found[w]` is what the last of them returned. `tab[t]` is a request: its kind, the token
it came with, the worker that serves it, the next call. The middleware's `get_session`
and its comparison with the clock are two steps. `expiry` is the table of sessions,
`Created` is `INSERT .. ON CONFLICT DO NOTHING`. `life` and `seen` are history: how long
each session was to live unless logged out, and what each request's token was worth at
the instants of the request. `Fail` is a database error at any call; `Restart` ends a worker's
requests and starts its seeding again.

### Portfolio

An amount is the set of holdings that it counts: a holding in pounds always
converts, a `listed` one when there is a table of rates, an `odd` one never. `cache` is
the stored table, `rates[t]` what `get_rates` gave thread `t`, an expired table after a
failed fetch included. `todo[t]` are the dates that its backfill has to go, `flag`
`pf_hist_backfilled`. A dashboard request and the daily job are the same thread but for
the backfill. `due` and `after` are history: what the backfill that set the flag was
to do, and which dates were recorded since a thread read its rates.

### Clients

Both throttles compute a sleep from a shared stamp and then sleep. Trading 212
stamps after the answer and tries again after 429, 5xx or `URLError`; Finnhub
stamps before the request and does not. `Send`, `Stamp` and `Retry` are
these orders; `Broken` is a connection reset that leaves `_get` without a stamp.
`sent` and `stamped` are history.

### Analysis, Scores

`pc` walks `analyze_symbol`. Each source answers with a leg of some score or with the
reason it has none; `SetModel` saves one of the two model settings at any time, so
that the test for a model, the two reads of the ladder and the form interleave.
`ladder` are the models left; `Post` is one request. The score of a leg is any of
`Score`: `Scores` is about which. It has one action, a source that reports one more
figure, so that every combination of known and missing figures is a state; all else are
operators in integers (sixtieths of a point, in which every increment of the rubrics is
whole).

### Summary

`fixed` is the length of what is never dropped, `lines` those of the holdings. `Keep` and
`Mark` are the two branches of the loop in `compose_summary`; `Length` is what its last cut is
applied to.

## 4. The runs

Distinct states are those TLC reports with the symmetry of the cfg.

| Run | Instance | Distinct states | Shows |
|---|---|---|---|
| `orders` | 2 workers, 2 requests of any of the five kinds, 1 symbol, half shares; resting orders, timeouts, reconnects, restarts | 1 138 000 | types; a BUY is founded (seen flat, within the cap it read), an exit is founded, no symbol goes short unless an order was sent on outdated knowledge, and the inductive form of that |
| `settings` | 1 signal, cap 0 or 1, the settings form saved meanwhile, kill switch, timeouts, restarts | 386 000 | a signal trades only if the settings allowed it at some instant since it arrived, even when the form is half written; and every dispatched signal is answered |
| `serial` | 1 worker, 2 signals, 2 symbols, orders that fill at once, restarts | 64 000 | the bridge implements `SerialTrader` |
| `broker` | 2 callers, 3 coroutines, all operations | 135 000 | connection attempts are serial unless abandoned; an error means no order, ok means an order; every call returns, whatever the loop and IBKR do |
| `longterm_shared` | 2 workers, 2 clicks, 2 holdings, 1 day, crashes, database errors | 997 000 | across workers: the flag of each worker is its run, a marked day is complete, a notified day was sent, verdicts have their snapshot, and the inductive form of these |
| `longterm_worker` | 1 worker, 2 clicks, 1 holding, 2 days, crashes, database errors | 126 000 | over a midnight: poll and run agree, runs end, browsers are told |
| `verdicts` | 5 composites, two-day hysteresis, reruns, freezes, missing data | 132 000 | changes are earned, SELLs fall, frozen labels stand, a band that persists prevails |
| `services` | 2 threads or workers or tabs for each component | 654 000 | a manual mapping stands and a deficient one heals; seeding leaves an admin; sessions are honoured; rows are kept and the backfill's flag is true; requests are spaced; every model is asked; the composite is a mean of what is known and each rubric monotone; no holding untold |
| `claim_*` | small | | section 7 |

Why the bounds are enough to be interesting:

* Two requests are the least that race on a symbol; with two workers a session
  moves from one to the other. `serial` has two symbols, so that its cap is contended,
  and `TradingProofs` is for any number of both. `Lot = 2` and an initial 3
  units give a position of one and a half shares. `Caps = {0, 1}` lets a save turn
  the cap from open to closed.
* `MaxTask = 3` is a connect, an order that blocks the loop, and the nested
  coroutine; or two connects of which one was abandoned, and an order.
* `Holdings = 2` has a first and a last iteration; `MaxDay = 2` has a date that
  changes under a run in flight. The two do not fit in one run with two workers.
* `Kept = 3` rows cover `Days = 2` and `Window = 2` priors; the code uses 2 days and
  9 priors: the slope is over three points here and over ten there. The composites
  are one for each zone below and above that `decide` tells apart (`MCVerdicts`);
  those between the SELL band's edge and its margin, and the mirror images of the rest,
  are left out to keep the run short.

* `services`: a lost override takes two threads, a double seeding two workers, a
  logout in the middle of a page two tabs. `MaxNow = 3` with `TTL = 1` is a session
  before, at and after its end; `MaxToken = 1` because the tabs share a cookie. `Held`
  has a holding that needs no rate and one that does (`odd`, which no table lists, is in
  the proofs, not in this run); two days are a past one and today. `MaxTime = 7` with
  `Interval = 3` has two whole intervals and a wait of 4 that is longer than one.
  A score below and one above zero tell a missing leg from a neutral one, and each of
  the four weights is 0 or 1 whatever the others are: `Weight = {0, 1}` is the cfg's
  bound, `Analysis` takes any four of `Weight` and the theorem any four natural
  numbers. Each model setting may be empty.
  `MCFigures` has every figure on both sides of each bound it is read by. `Summary` has `Ten = 3`: the marker's number grows by a digit
  between two and three holdings, as it does between nine and ten; the lengths of `Fixed` are
  far from the limit, near it, at the first line's limit and beyond it.

`CHECK_DEADLOCK FALSE` stands in the cfgs of `Broker`, whose behaviours stop
when the coroutine ids are used up, of `ClaimCron`, where without clicks and
crashes nothing is left to do after both runs, and of `Services` and `ClaimLeverage`,
where an analysis, a message and a set of figures come to an end.

Symmetry is used in runs of invariants only.

`PollingUntilDone` is checked for one worker: with two, a poll answered by the
worker that does not run reads an idle flag (`main.py:1137`) and the browser stops
polling; the comment at `main.py:1132` ("While a run is in flight the fragment keeps
polling") is true of one worker only.

`ChangesAreEarned`, `SellsFall` and `FrozenLabelStands` speak of days that were
evaluated once (`~replaced`), in a table whose other days may have been evaluated
again; `claim_rerun` shows why.

## 5. Fairness

* `Trading`: weak fairness of each handler's next step. The event loop and the
  thread pool run their handlers, and the timer of `future.result` fires. IBKR,
  the operator and the coroutine are not fair: an order may stay unplaced for ever,
  and the handler is answered all the same by `GiveUp`. `Arrive` is one of the
  fair steps, but `EveryRequestAnswered` starts at a request that has arrived.
* `Broker`: weak fairness of each caller's step, which the timers of `future.result`
  justify. What IBKR answers is not fair and no step of the loop is, `Unblock` included: no
  property rests on a coroutine finishing or on a blocked loop running again. Calls are
  bounded by `MaxTask`; this also bounds how often `_conn_lock` can be taken by
  others, so `EveryCallReturns` says nothing of starvation on `threading.Lock`,
  which is not a fair lock.
* `LongtermRun`: weak fairness of a run's next step (every network call of a run
  has a timeout, and every step has an error exit) and of the poll while the
  fragment polls (htmx polls every two seconds). `Raise`, `Restart`, `Fire` and
  `RunNow` are not fair.
* `Verdicts`: the scheduler evaluates the holding each day, and days pass.
* `Instruments` and `Services`: some thread that resolves runs on, and the pipeline of
  every day resolves each holding. It is one weak fairness condition on `Resolving`, of
  no thread in particular: a thread that holds `_lock` makes a step of `Resolving` possible
  by its own next step. `MappingsHeal` is the only property that needs it. What is set by
  hand, and what Trading 212 sends, is not fair.

## 6. Proofs

`TradingProofs` proves, for every `Req`, `Worker`, `Symbol`, every set of kinds,
quantities and caps, and every combination of faults, from `TradingAssumption`
alone (finite set of symbols, natural numbers, `Lot > 0`):

| Theorem | Statement |
|---|---|
| `TypeCorrect` | `Spec => []TypeOK` |
| `KillSwitchHolds` | `Spec => []SignalsArmed` |
| `BuysAreFounded` | `Spec => []BuysFounded` |
| `ExitsAreFounded` | `Spec => []ExitsFounded` |
| `SellsAreCovered` | `Spec => []CoveredSells` |
| `LongUnlessStale` | `Spec => []ShortOnlyIfStale` |
| `SerialTraderImplemented` | `SerialOK` implies `Spec => ImplementsSerialTrader` |
| `ReadsStayCurrent` | its inductive invariant: `SerialOK /\ Spec => []SerialInv` |

**The gates** (`SignalsArmed`, `BuysFounded`, `ExitsFounded`). None is inductive:
each speaks of placed orders, and placing reads only `held` and `kind`, so what
was read must be remembered along the handler. `GateInv` says, for each control
state and for a pending coroutine, which of the gates has been passed and that the
history variables hold the witness: after `ReadSettings`, `armed`; after
`ReadHeld`, `held[r] \in seen[r]`; after `ReadOpen`, `fewest[r] < snap[r].cap`.
Each fact stays true because `Observe` only adds to the history while the request
is watched, and the coroutine of a request that has ended is still watched.
`GatesHold` proves `[]GateInv`; the three properties are its consequences at
`task[r] = "placed"`.

**No short position on true knowledge** (`ShortOnlyIfStale`). It is not
inductive either: a position of 1 with two working SELLs of 1 satisfies it, and
two fills break it. `CoveredSells` strengthens it: a symbol that is not stale has
at most one working order, and a working SELL is for no more than what is held. A
partial fill lowers both sides by the same amount; a new order makes the symbol
stale if another works, or if it is an exit for something else than the position
held. The proof has one step for each action that touches `position`, `left` or
`stale` (`PlaceOrder`, `Fill`, `CancelOrder`), and all others leave them alone.

**The refinement** (`SerialTraderImplemented`). `orders` shows that the handlers are not
atomic in general. `SerialOK` says when they are: one worker, requests that are signals,
whole shares, and of the faults only crashes and the operator's changes of the settings; so
no order rests, no wait times out and no session returns under a handler. It is the
condition of the run `serial`, which has one of its instances; the theorem is for any
requests, symbols, quantities and caps. `SerialInv` is why it works: the event loop runs one
handler at a time (`Alone`), an order leaves nothing working (`Settled`), so what the
handler has read (`Current`: flat, room under the cap, the whole position) is still what
the account holds when its order goes out. Each step then maps to a stutter, or to one of
`Abstract!Next`: the read of the settings to its admission, the order to its trade, the
gate that fails to its refusal. With two workers, or a manual order in the thread pool,
`Alone` fails; with a resting order `Settled` does.

TLC checks all these properties first, in `orders`, `settings` and `serial`.

`LongtermProofs` proves, for every set of workers and of clicks, every portfolio
length, number of days and combination of faults, from `LongtermAssumption`
alone (workers and clicks are disjoint finite sets, at least one holding and one day):

| Theorem | Statement |
|---|---|
| `TypeCorrect` | `Spec => []TypeOK` (a loop index never leaves the portfolio) |
| `FlagHolds` | `Spec => []FlagIsTheRun` |
| `StagesAreKept` | `Spec => []StagesKept` |
| `MarkedDaysAreDone` | `Spec => []MarkedDayIsDone` |
| `NotifiedDaysWereSent` | `Spec => []NotifiedDayWasSent` |
| `VerdictsAreJoined` | `Spec => []VerdictsHaveSnapshot` |
| `PollingIsKept` | `OneWorker` implies `Spec => []PollingUntilDone` |
| `OneMessageOfOneWorker` | `Worker = {w}` and `Click = {}` imply `Spec => []OneCronMessage` |

**The flag.** `FlagIsTheRun` is inductive given the types: a click starts only under
a clear flag, only the manual run of a worker clears it, in the same step that ends
the run, and a restart ends every run of the worker and clears it.

**The dates and the tables.** What they say is not inductive: a run at `mark`
that has not done its loops satisfies all three properties, and its next step breaks
them. `StagesKept` adds, for each run in flight, what the order of the stages
guarantees (`StageInv`): the holdings before the loop index are done, a finished loop has
done them all, `got` means a verdict row of the run's own date, a message is sent
only of such a row, and the notify date is recorded only after a message. The runs
share the tables, so the proof has to show that no run spoils what another has
established. `Grow` is why: tables and messages are only ever added to, so
`StageFrame` carries the invariant of each run that does not move, and one lemma for
each stage (`StepSnapshot`, `StepScore`, ...) looks only at the run that moves. A crash or
a failing call ends a run and asks for nothing but `Grow`.

**Polling.** `PollingIsKept` is about one process (`OneWorker`), the condition under which it
holds (section 4). What a browser shows changes with its own click or with its own poll
(`ShownBy`), and `FlagIsTheRun` makes the poll of a run in flight read a flag that is set.

**One message.** `OneMessageOfOneWorker` is what remains true of the sentence that
`claim_cron` refutes. `CronInv` says that the run date only moves on: a run that passed
its check is ahead of it until it marks its day, and a day that is not marked has no
message. So a crash between the message and the notify date does no harm, although that date
is then not written: it is the run date that keeps the next run out. Both hypotheses are
needed: a manual run that began the day before and marks its day late sets the run date back.

TLC checks all of these first, in `longterm_shared` and `longterm_worker`.

`VerdictProofs` proves, for any composites, thresholds and margin, any number of days and
windows, with reruns, freezes and missing data, from `VerdictAssumption`:

| Theorem | Statement |
|---|---|
| `VerdictTypes` | `Spec => []TypeOK` |
| `ChangesEarned` | `Spec => []ChangesAreEarned` |
| `FreezeHolds` | `Spec => []FrozenLabelStands` |
| `SellsAreFalling` | `Spec => []SellsFall` |
| `EarnedWithoutReruns` | `"rerun" \notin Faults` implies `Spec => [](EarnedByDays /\ NewBandLasts)` |

All these properties speak of the newest rows, so a step that writes a row is what matters:
`Sound` says how the row was made from those that were read, `UpsertTable` where the table
has it and them afterwards, and `PriorRows` that the bound `Kept` cuts off none that the
rules look at. How many rows the slope is taken over (`Priors`) is a greatest element
(`Greatest`).

**The slope.** `SellsGuarded` is `SellsFall` with the slope as `decide` computes it, and is what
the steps preserve. That this slope is negative exactly when the rows fall (`GuardIsFalling`)
is about two sums over a window of any length:
`n * sum(i * v[i]) - sum(i) * sum(v)`, the numerator of the least-squares slope, and the
sum over all pairs `i < j` of `(j - i) * (v[j] - v[i])`. The first says how the code
computes a trend, the second what a trend is. `SlopeOfPairs` proves them equal: the
pairs with a new row are added one at a time, and each partial sum has a closed form.
`FoldIsSum` is the bridge to the folds of the model: the library's fold chooses its next
element, and whatever it chooses, the sum over a finite set is an element's value and the sum
over the rest. The library's induction theorems cannot be cited here, so these lemmas
use `Climb`, an induction over a set of numbers in place of a predicate, which follows
from a set of naturals having a least element (`Least`).

`EarnedWithoutReruns` is what remains true of the sentence that `claim_rerun` refutes:
`NewBandLasts` is the half of `EarnedByDays` about the days of the hysteresis.

TLC checks these first, in `verdicts`.

`BrokerProofs` proves, for any number of threads and of coroutines and any set of
operations, from `BrokerAssumption` (finitely many callers, none of which is the value
for nobody; operations of the class; a natural number of coroutines):

| Theorem | Statement |
|---|---|
| `BrokerTypes` | `Spec => []TypeOK` (`_conn_lock` is held by a thread in a connection call) |
| `ConnectionsAreSerialised` | `Spec => []ConnectionsSerialised` |
| `ErrorsMeanNoOrder` | `Spec => []ErrorMeansNoOrder` |
| `OksMeanOrder` | `Spec => []OkMeansOrder` |

What a caller was told is a fact about its coroutine, which may have ended long
before. So the invariant speaks of coroutines: each has one owner while it is waited
for (`Owned`), what its state says of the order is kept to its end (`Outcome`), and a
connection coroutine that is not the lock holder's was given up. `RoomKept` counts: there
is a coroutine id left for every thread that waits for the lock, so the bound `MaxTask`
never stops a thread half way.

The other four modules are about the components of `Services`. Each component's
theorem is proved of the component alone, for any number of threads, workers or tabs, and
`ServicesProofs` carries it over to `Services`: a step of the composition is a step of
the component or leaves its variables alone. The theorems listed are those of the
composition, for every value of its constants that satisfies `ServicesAssumption`:

| Theorem | Statement | Rests on |
|---|---|---|
| `ServicesTypes` | `Spec => []TypeOK` | the types of each component |
| `OverridesKept` | `Spec => OverridesStand` | `InstrumentProofs` |
| `SeedingLeavesAdmin` | `Spec => []AdminSeeded` | `AccountProofs` |
| `SessionsKeptHonoured` | `Spec => []SessionsHonoured` | `AccountProofs` |
| `BackfillDone` | `Spec => []BackfillComplete` | `PortfolioProofs` |
| `RowsKept` | `Spec => RowsKeep` | `PortfolioProofs` |
| `RequestsKeptApart` | `Spec => RequestsSpaced` | `ServicesProofs` |
| `LadderStaysExhausted` | `Spec => []LadderExhausted` | `ServicesProofs` |
| `CompositeStaysFaithful` | `A!WeightsOK` implies `Spec => []CompositeFaithful` | `ServicesProofs` |
| `ScoresStayMonotone` | `Spec => []ScoresMonotone` | `ServicesProofs` |
| `NoHoldingUntold` | `Spec => []NothingUntold` | `ServicesProofs` |

`MappingTypes`, `AccountTypes`, `PortfolioTypes` and `ClientTypes` are the type invariants of
the components that have state worth naming: in one process only one thread is between the
test of an override and the write; no two accounts have one name; no backfill runs without
rates; no call makes more tries than it may.

* **Overrides.** A thread about to write an automatic mapping over a manual one was raced
  (`Raced`): it passed its test before the row was written, and by another process. That
  it stays true needs `Locked`: within a process nobody else is at `insert`.
* **Seeding.** `AdminSeeded` speaks of workers that are through. `SeedInv` says what
  those on their way have established: past the count there are accounts if an admin is
  owed, and a worker that promotes has found the configured or the earliest account. The
  table only grows and its first row stays (`Kept`), so no other worker and no visitor
  undoes it (`Beside`).
* **Sessions.** A page reads the row of its session and compares it with the clock later,
  while other tabs log out, a purge deletes and the clock goes on. `SessionInv` relates
  what a request has read to what its session was worth (`Honest`): the session it found
  has the end it read, or was logged out since, and a refusal comes after an instant
  without a live session. `RowsTrue` is about the rows that are missing: their sessions
  had ended, whoever deleted them. A token that is drawn and not inserted yet is nobody
  else's, or its insertion would bring a refused page to life. Hypothesis `TimesOK`:
  a life and a clock in natural numbers and at least one worker.
* **Ladder.** `LadderExhausted` counts requests, and models may be repeated in the
  ladder. `Laddered` says that the models left are the last of those chosen and the others
  were asked; `Counted` that each model had at most two requests for each time it was passed,
  and the nudged one its first. The settings that change meanwhile do not matter, since the
  ladder is read once.
* **Composite.** `Gathered` says which legs have been tried. That a weighted mean
  lies between its least and greatest score is arithmetic of four products (`Means`), for
  any four weights.
  Hypothesis `WeightsOK`: integer scores and weights that are not negative. The settings form
  sets no such bound (`main.py:1315`), and with weights of 2 and -1 a composite leaves the
  scores it is made of; the theorem says nothing of such settings, nor does the run.
* **Scores.** The state is one set of figures, and the property compares any two: the
  proof is of the rubrics. Each is a clamped sum of bands; each band is monotone in its figure
  and the clamp keeps the order. Where a figure enters two terms (the forward PE is
  compared with bounds and with the trailing PE; RSI with bounds and with its
  predecessor) the cases are gone through together. Hypothesis `FiguresOK`: each leg has
  its figures, counts are natural numbers, signs are signs, the rest integers.
* **History.** A row that could lose a holding is newer than what the thread read
  (`Poor`: a thread without rates found no table, and any listed holding in a row was
  converted with one that came later), and a date in `todo` that has a row got it
  since (`Pending`). `Filled` says that a thread in the loop leaves behind it only
  dates with a row or with nothing to convert. Hypothesis `HeldOK`: holdings are of the
  three kinds.
* **Spacing.** The shared stamp is never older than a thread's own last stamped
  request, whatever others stamp: so whatever stamp it reads, it sleeps long enough for
  itself. Hypothesis `TimesOK`: lengths of time are natural numbers and there is a first
  try.
* **Message.** `RoomKept`: while lines are left, there is room for the marker that
  would count them, since a smaller count is no longer than the one reserved for; unless
  the first line itself did not fit. Hypothesis `LengthsOK`: lengths are natural numbers.

TLC checks all of these first, in `broker` and `services`.

**Assumptions.** Each component module names what it needs of its constants, and TLC
evaluates it in the runs: `TradingAssumption`, `LongtermAssumption`, `BrokerAssumption`,
`VerdictAssumption`, and `ServicesAssumption`, the conjunction of `HeldOK`, both `TimesOK`,
`LengthsOK` and `FiguresOK`. Beyond these, some theorems have a hypothesis of their own, because the
property is not true without it: `SerialOK`, `OneWorker`, `WeightsOK`, one worker without
clicks, no reruns.

**Only model-checked.** All liveness (`EveryRequestAnswered`, `EveryCallReturns`,
`RunsEnd`, `PollingEnds`, `BandPrevails`, `MappingsHeal`): fairness and
`ENABLED` are outside the proof system. Every safety property of the passing runs is
proved, under the hypotheses named.

## 7. Where the documents and the code disagree

Each is a run that TLC refutes, with the shortest behaviour:

* **`claim_percent`.** `README.md:195`, sizing by percent of equity. `compute_qty`
  runs on the broker's loop and waits for a coroutine of the same loop: with the
  session up it can only time out, whatever IBKR answers.
  `EveryCallReturns` holds meanwhile: the threads outside the loop time out.
* **`claim_cron`.** `scheduler.py:16`, the notify date "guards duplicate
  notifications". Both workers' cron runs pass both tests before either writes: two
  messages. `scheduler.py:24` asks for exactly one worker; the `Procfile` starts two.
* **`claim_rerun`.** `scoring.py:186`, "consecutive days (today included)". A
  rerun reads the row that the first run of the day wrote as a day of its own: two
  evaluations of one day satisfy a two-day hysteresis. BUY at composite 14 yesterday; 8 today is
  held at BUY; the rerun with 8 says HOLD, on one day in the neutral band, out of BUY by less than
  the margin. TLC's trace is this one, the shortest that violates `NewBandLasts`.
* **`claim_leverage`.** `fundamentals.py:289`, "yfinance reports D/E as a percentage".
  The next line divides by 100 only what is above 5, so a percentage of 5 or less is taken for
  a ratio of as much: a debt of 3 percent scores -0.5, of 6 percent +0.5.
  `ScoresMonotone` is what holds: less debt is better above 5 percent.

Two sentences of the documents are weaker than they read, and have no run of their own,
because `orders` says what holds instead. "Long-only swing design" (`trading.py:3`): two
SELLs of one position that both read it before either fills go short;
`ShortOnlyIfStale`. "Additionally capped by Max positions" (`README.md:197`): the cap counts
filled positions, so two BUYs pass a cap of 1 while the first rests; `BuysFounded`.

## 8. What is not modelled

* The sizing arithmetic, limit prices and indicators: quotients and series of floats.
  `Trading` takes any quantity of a set, `Verdicts` any integer composite, `Scores` any
  sampled figures. So an explicit quantity that bypasses `max_position_value`
  (`broker.py:265`) and the sign of a slope of equal composites (`scoring.py:250`)
  are hazards without a property.
* `apply_divergence`, the review flags and the rationale: annotations of a verdict that
  no later step reads.
* A portfolio that changes or is empty: `LongtermRun` has the same `Holdings` items
  for a whole behaviour, at least one.
* The AI provider, its prompts and the wording of messages; templates, log entries,
  chart layout, the growth chart and the display currency: text and rendering.
* The fundamentals cache and the order of the fallback sources: they change where a figure comes
  from, and `Analysis` takes any.
* The forms, the registration code and its panel, password hashing.
* IBKR, Trading 212, Twilio/CallMeBot, yfinance and the AI provider are
  environments: they answer, fail or stay silent.
* A thread that cannot be started (`main.py:1218`).
* Pine scripts: they run on TradingView; what they send is any signal at any time.
* Schema creation and migration, deployment, scripts, tests.

## 9. Plan

In this order, each with its properties, variations and, where marked, proofs:

1. Proof: `Trading`'s coroutines answer as `Broker`'s do, that is, a projection of `Broker`
   to one order implements the `task` of `Trading`.
2. `Sizing`: `compute_qty` over bounded inputs against a reference definition: the
   cap in dollars, and the explicit quantity that skips it.
3. `Composite` in `Verdicts`: composites that come from `Analysis` day by day, so
   that a failed source meets hysteresis and the trend guard.
4. `PineV2`: the position state machine of the Pine v2 strategy, composed with
   `Trading` as the source of its signals.
