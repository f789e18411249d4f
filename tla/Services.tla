-------------------------------- MODULE Services --------------------------------
(***************************************************************************)
(* The components around the trading core and the daily pipeline, in one   *)
(* specification.  They share no state that their properties are about, so *)
(* that a behaviour is one of a single component, the focus, while the     *)
(* others rest: their state graphs add up and do not multiply.  Accounts   *)
(* comes twice: workers that seed while a visitor signs up, and tabs of a  *)
(* browser that share a session.                                           *)
(***************************************************************************)
EXTENDS Integers, Sequences

CONSTANTS
  Thread, Worker, Tab, Env, Name, TTL, MaxNow, MaxToken,      \* Instruments, Accounts
  Held, MaxDay,                                               \* Portfolio
  Interval, MaxTries, RetryAfter, MaxTime,                    \* Clients
  Score, Weight, Models, Figures,                             \* Analysis, Scores
  MaxChars, MarkLen, Ten, Fixed, LineLen, MaxHoldings         \* Summary

VARIABLES
  focus,                                                      \* the component that runs
  shared, ticker, row, ipc, job, inst, writer, overtaken,
  envPw, users, admins, expiry, issued, now, up, found, cookie, tab, life, seen,
  today, cache, flag, history, snapshot, ppc, rates, day, todo, due, after,
  client, time, last, cpc, until, attempt, sent, stamped,
  mapped, weights, models, apc, legs, headlines, ladder, nudged, chosen, asked, raised,
  leg, m,
  fixed, lines, kept, used, marked

I == INSTANCE Instruments WITH pc <- ipc
Seeding  == INSTANCE Accounts WITH Tab <- {CHOOSE t \in Tab : TRUE}
Sessions == INSTANCE Accounts WITH Worker <- {CHOOSE w \in Worker : TRUE}, Name <- Name \ {Env}
P == INSTANCE Portfolio WITH pc <- ppc
C == INSTANCE Clients WITH pc <- cpc, now <- time, MaxNow <- MaxTime
A == INSTANCE Analysis WITH pc <- apc, inst <- mapped
S == INSTANCE Scores
Y == INSTANCE Summary

ASSUME ServicesAssumption == P!HeldOK /\ C!TimesOK /\ Y!LengthsOK /\ Seeding!TimesOK /\ S!FiguresOK

instruments == <<shared, ticker, row, ipc, job, inst, writer, overtaken>>
accounts == <<envPw, users, admins, expiry, issued, now, up, found, cookie, tab, life, seen>>
portfolio == <<today, cache, flag, history, snapshot, ppc, rates, day, todo, due, after>>
clients == <<client, time, last, cpc, until, attempt, sent, stamped>>
analysis == <<mapped, weights, models, apc, legs, headlines, ladder, nudged, chosen, asked, raised>>
scores == <<leg, m>>
summary == <<fixed, lines, kept, used, marked>>
vars == <<focus, instruments, accounts, portfolio, clients, analysis, scores, summary>>

Focus == {"instruments", "seeding", "sessions", "portfolio", "clients", "analysis",
          "scores", "summary"}

\* A component that is not in focus begins in one of its initial states and stays.
Init ==
  /\ focus \in Focus
  /\ I!Init /\ (focus = "instruments" \/ (shared /\ ticker = "odd" /\ row = I!NoRow))
  /\ IF focus = "seeding" THEN Seeding!Init ELSE Sessions!Init
  /\ focus \in {"seeding", "sessions"} \/ (~envPw /\ users = <<>>)
  /\ P!Init
  /\ C!Init /\ (focus = "clients" \/ client = "t212")
  /\ A!Init
  /\ focus = "analysis" \/ (/\ mapped = [yf |-> FALSE, finnhub |-> FALSE, typ |-> "etf"]
                            /\ weights = [k \in A!LegKeys |-> CHOOSE w \in Weight : TRUE]
                            /\ models = <<CHOOSE x \in Models[1] : TRUE, CHOOSE x \in Models[2] : TRUE>>)
  /\ S!Init /\ (focus = "scores" \/ leg = CHOOSE x \in DOMAIN Figures : TRUE)
  /\ Y!Init
  /\ focus = "summary" \/ (/\ fixed = CHOOSE x \in Fixed : TRUE
                           /\ lines = <<CHOOSE x \in LineLen : TRUE>>)

\* Only the component in focus takes steps.
Alone(f) ==
  /\ focus = f /\ UNCHANGED focus
  /\ IF f = "instruments" THEN TRUE ELSE UNCHANGED instruments
  /\ IF f \in {"seeding", "sessions"} THEN TRUE ELSE UNCHANGED accounts
  /\ IF f = "portfolio" THEN TRUE ELSE UNCHANGED portfolio
  /\ IF f = "clients" THEN TRUE ELSE UNCHANGED clients
  /\ IF f = "analysis" THEN TRUE ELSE UNCHANGED analysis
  /\ IF f = "scores" THEN TRUE ELSE UNCHANGED scores
  /\ IF f = "summary" THEN TRUE ELSE UNCHANGED summary

Next ==
  \/ Alone("instruments") /\ I!Next
  \/ Alone("seeding") /\ Seeding!Next
  \/ Alone("sessions") /\ Sessions!Next
  \/ Alone("portfolio") /\ P!Next
  \/ Alone("clients") /\ C!Next
  \/ Alone("analysis") /\ A!Next
  \/ Alone("scores") /\ S!Next
  \/ Alone("summary") /\ Y!Next

\* Threads that resolve run on, and the pipeline of every day resolves each holding.
Fairness == WF_vars(Alone("instruments") /\ I!Resolving)

Spec == Init /\ [][Next]_vars /\ Fairness

-----------------------------------------------------------------------------
\* Types of the component that runs; the others rest as they began.
TypeOK ==
  /\ focus \in Focus
  /\ focus = "instruments" => I!TypeOK
  /\ focus = "seeding" => Seeding!TypeOK
  /\ focus = "sessions" => Sessions!TypeOK
  /\ focus = "portfolio" => P!TypeOK
  /\ focus = "clients" => C!TypeOK
  /\ focus = "analysis" => A!TypeOK
  /\ focus = "scores" => S!TypeOK
  /\ focus = "summary" => Y!TypeOK

\* The properties of the components, whose modules state and comment them.

\* instruments.py:10: a manual mapping is lost only to another process's race.
OverridesStand == I!OverridesStand
\* instruments.py:159: an automatic mapping that is deficient becomes sound.
MappingsHeal == I!MappingsHeal
\* auth.py:176: seeding leaves an admin, and promotes no visitor.
AdminSeeded == focus = "seeding" => Seeding!AdminSeeded
\* auth.py:120: a page is served or refused as its session was worth while it was.
SessionsHonoured ==
  IF focus = "seeding" THEN Seeding!SessionsHonoured ELSE Sessions!SessionsHonoured
\* main.py:125: a recorded day is replaced by a poorer one only out of a stale read.
RowsKeep == P!RowsKeep
\* main.py:566: the backfill's flag is true of the history.
BackfillComplete == P!BackfillComplete
\* t212.py:123: the throttle keeps a thread's own requests apart.
RequestsSpaced == C!RequestsSpaced
\* ai_research.py:463: a failed news leg asked every model that was configured.
LadderExhausted == A!LadderExhausted
\* scoring.py:92: the composite is a mean of the legs that have data.
CompositeFaithful == A!CompositeFaithful
\* fundamentals.py:182, technicals.py:248: a better figure never scores lower.
ScoresMonotone == S!ScoresMonotone
\* notifier.py:83: a holding left out of the message is counted in it.
NothingUntold == Y!NothingUntold
=============================================================================
