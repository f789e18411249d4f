----------------------------- MODULE ServicesProofs -----------------------------
(***************************************************************************)
(* That the components keep in Services what their own modules promise.    *)
(* A step of Services is a step of the component or leaves its variables   *)
(* alone, so that its theorems carry over.  Instruments, Accounts and      *)
(* Portfolio have proof modules of their own; what is proved of the others *)
(* is in the sections of this one: Summary (the daily message tells of     *)
(* every holding), Clients (requests of a thread keep their distance),     *)
(* Analysis (no source that failed counts, no model is passed over) and    *)
(* Scores (a better figure never scores lower).                            *)
(***************************************************************************)
EXTENDS Services, FiniteSetTheorems, TLAPS

IP == INSTANCE InstrumentProofs WITH pc <- ipc
SP == INSTANCE AccountProofs WITH Tab <- {CHOOSE t \in Tab : TRUE}
TP == INSTANCE AccountProofs WITH Worker <- {CHOOSE w \in Worker : TRUE}, Name <- Name \ {Env}
PP == INSTANCE PortfolioProofs WITH pc <- ppc

\* The alerts leave no room for the first holding and what must follow it.
FirstUnfit ==
  fixed + lines[1] + 1 + (IF Len(lines) > 1 THEN 1 + Y!Marker(Len(lines)) ELSE 0) > MaxChars

\* What is kept leaves room for a marker as long as any that was reserved.
Roomy ==
  IF Y!Remaining > 0 THEN used + 1 + Y!Marker(Y!Remaining + 1) <= Y!Budget ELSE used <= Y!Budget

RoomKept ==
  /\ kept = 0 => used = 0
  /\ marked > 0 => marked = Y!Remaining /\ kept > 0
  /\ kept > 0 => FirstUnfit \/ Roomy

SummaryInv == Y!TypeOK /\ RoomKept

-----------------------------------------------------------------------------
\* A marker with a smaller number is no longer.
LEMMA MarkerGrows ==
  ASSUME Y!LengthsOK, NEW n \in Nat
  PROVE  /\ Y!Marker(n) \in Nat /\ Y!Marker(n + 1) \in Nat
         /\ Y!Marker(n) <= Y!Marker(n + 1)
BY DEF Y!LengthsOK, Y!Marker, Y!Digits

\* A holding's line has a length.
LEMMA LineHasLength ==
  ASSUME Y!TypeOK, NEW i \in 1..Len(lines)
  PROVE  lines[i] \in Nat
BY DEF Y!TypeOK

\* Remaining, and the room reserved while a line is left, are lengths.
LEMMA Lengths ==
  ASSUME Y!LengthsOK, Y!TypeOK
  PROVE  /\ Len(lines) \in Nat \ {0} /\ Y!Remaining \in Nat
         /\ Y!Marker(Y!Remaining) \in Nat /\ Y!Budget \in Int
<1>1. Len(lines) \in Nat \ {0}
  BY DEF Y!TypeOK
<1>2. Y!Remaining \in Nat
  BY <1>1 DEF Y!TypeOK, Y!Remaining
<1>3. Y!Budget \in Int
  BY DEF Y!TypeOK, Y!LengthsOK, Y!Budget
<1> QED
  BY <1>1, <1>2, <1>3, MarkerGrows

LEMMA InitTypes ==
  ASSUME Y!LengthsOK, Y!Init
  PROVE  Y!TypeOK
<1>1. PICK n \in 1..MaxHoldings : lines \in [1..n -> LineLen]
  BY DEF Y!Init
<1>2. n \in Nat \ {0} /\ lines \in [1..n -> Nat]
  <2>1. MaxHoldings \in Nat /\ LineLen \subseteq Nat
    BY DEF Y!LengthsOK
  <2>2. n \in Nat \ {0}
    BY <2>1
  <2>3. \A i \in 1..n : lines[i] \in Nat
    BY <1>1, <2>1
  <2> QED
    BY <1>1, <2>2, <2>3, Zenon
<1>3. lines \in Seq(Nat) /\ Len(lines) = n
  BY <1>2
<1> QED
  BY <1>2, <1>3 DEF Y!Init, Y!TypeOK, Y!LengthsOK

LEMMA StepTypes ==
  ASSUME Y!LengthsOK, Y!TypeOK, [Y!Next]_(Y!vars)
  PROVE  Y!TypeOK'
<1>1. CASE Y!Keep
  <2>1. lines[kept + 1] \in Nat /\ kept + 1 \in 0..Len(lines)
    BY <1>1, Lengths, LineHasLength DEF Y!Keep, Y!Remaining, Y!TypeOK
  <2> QED
    BY <1>1, <2>1 DEF Y!Keep, Y!TypeOK
<1>2. CASE Y!Mark
  <2>1. Y!Remaining \in 0..Len(lines)
    BY Lengths DEF Y!Remaining, Y!TypeOK
  <2> QED
    BY <1>2, <2>1 DEF Y!Mark, Y!TypeOK
<1>3. CASE UNCHANGED Y!vars
  BY <1>3 DEF Y!vars, Y!TypeOK
<1> QED
  BY <1>1, <1>2, <1>3 DEF Y!Next

\* A line that fits leaves room for the marker of the lines after it.
LEMMA FitLeavesRoom ==
  ASSUME Y!LengthsOK, Y!TypeOK, Y!Keep, Y!Fits
  PROVE  Roomy'
<1> DEFINE R == Y!Remaining
<1>1. R \in Nat \ {0} /\ Y!Remaining' = R - 1 /\ Y!Budget' = Y!Budget /\ Y!Budget \in Int
  BY Lengths DEF Y!Keep, Y!Remaining, Y!Budget, Y!TypeOK
<1>2. lines[kept + 1] \in Nat /\ used' = used + lines[kept + 1] + 1 /\ used \in Nat
  BY Lengths, LineHasLength DEF Y!Keep, Y!Remaining, Y!TypeOK
<1>3. CASE R = 1
  <2>1. used' <= Y!Budget
    BY <1>1, <1>2, <1>3 DEF Y!Fits, Y!Reserve
  <2> QED
    BY <1>1, <1>3, <2>1 DEF Roomy
<1>4. CASE R > 1
  <2>1. used' + 1 + Y!Marker(R) <= Y!Budget
    BY <1>1, <1>2, <1>4, Lengths DEF Y!Fits, Y!Reserve
  <2>2. Y!Remaining' > 0 /\ Y!Remaining' + 1 = R
    BY <1>1, <1>4
  <2> QED
    BY <1>1, <2>1, <2>2 DEF Roomy, Y!Marker, Y!Digits
<1> QED
  BY <1>1, <1>3, <1>4

\* A first line that does not fit is one that no message could have held whole.
LEMMA FirstMisfit ==
  ASSUME Y!LengthsOK, Y!TypeOK, RoomKept, kept = 0, ~Y!Fits
  PROVE  FirstUnfit
<1>1. used = 0 /\ Y!Remaining = Len(lines)
  BY Lengths DEF RoomKept, Y!Remaining
<1>2. lines[1] \in Nat /\ fixed \in Nat /\ MaxChars \in Nat
  BY Lengths, LineHasLength DEF Y!TypeOK, Y!LengthsOK
<1> QED
  BY <1>1, <1>2, Lengths DEF Y!Fits, Y!Reserve, FirstUnfit, Y!Budget

LEMMA StepRoom ==
  ASSUME Y!LengthsOK, SummaryInv, [Y!Next]_(Y!vars)
  PROVE  RoomKept'
<1> USE DEF SummaryInv
<1>1. CASE Y!Keep
  <2>1. kept' = kept + 1 /\ kept \in Nat /\ kept' > 0 /\ marked' = 0
    BY <1>1 DEF Y!Keep, Y!TypeOK
  <2>2. CASE Y!Fits
    BY <1>1, <2>1, <2>2, FitLeavesRoom DEF RoomKept
  <2>3. CASE kept = 0 /\ ~Y!Fits
    <3>1. FirstUnfit'
      BY <1>1, <2>3, FirstMisfit DEF FirstUnfit, Y!Keep, Y!Marker, Y!Digits
    <3> QED
      BY <2>1, <3>1 DEF RoomKept
  <2>4. CASE kept > 0 /\ ~Y!Fits
    BY <1>1, <2>4 DEF Y!Keep, Y!TypeOK
  <2> QED
    BY <2>1, <2>2, <2>3, <2>4
<1>2. CASE Y!Mark
  <2>1. /\ kept' = kept /\ used' = used /\ lines' = lines /\ fixed' = fixed
        /\ marked' = Y!Remaining /\ kept > 0
    BY <1>2 DEF Y!Mark
  <2>2. Y!Remaining' = Y!Remaining /\ (FirstUnfit' <=> FirstUnfit) /\ (Roomy' <=> Roomy)
    BY <2>1 DEF Y!Remaining, FirstUnfit, Roomy, Y!Budget, Y!Marker, Y!Digits
  <2> QED
    BY <2>1, <2>2 DEF RoomKept
<1>3. CASE UNCHANGED Y!vars
  BY <1>3 DEF Y!vars, RoomKept, Y!Remaining, FirstUnfit, Roomy, Y!Budget, Y!Marker, Y!Digits
<1> QED
  BY <1>1, <1>2, <1>3 DEF Y!Next

\* What is kept while composing says what a finished message is.
LEMMA RoomTells ==
  ASSUME Y!LengthsOK, SummaryInv
  PROVE  Y!NothingUntold
<1> SUFFICES ASSUME Y!Composed, ~FirstUnfit
             PROVE  kept + marked = Len(lines) /\ Y!Length <= MaxChars
  BY DEF Y!NothingUntold, FirstUnfit
<1>0. /\ kept \in Nat /\ marked \in Nat /\ used \in Nat /\ fixed \in Nat
      /\ MaxChars \in Nat /\ Len(lines) \in Nat \ {0}
  BY Lengths DEF SummaryInv, Y!TypeOK, Y!LengthsOK
<1>1. CASE marked > 0
  <2>1. marked = Y!Remaining /\ Roomy
    BY <1>1 DEF SummaryInv, RoomKept
  <2>2. used + 1 + Y!Marker(Y!Remaining + 1) <= Y!Budget
    BY <1>1, <2>1 DEF Roomy
  <2>3. Y!Marker(Y!Remaining) \in Nat /\ Y!Marker(Y!Remaining) <= Y!Marker(Y!Remaining + 1)
        /\ Y!Marker(Y!Remaining + 1) \in Nat
    BY <1>0, <2>1, MarkerGrows
  <2>4. Y!Length = fixed + used + Y!Marker(Y!Remaining)
    BY <1>0, <1>1, <2>1, <2>3 DEF Y!Length
  <2> QED
    BY <1>0, <2>1, <2>2, <2>3, <2>4 DEF Y!Budget, Y!Remaining
<1>2. CASE marked = 0
  <2>1. Y!Remaining = 0 /\ kept = Len(lines)
    BY <1>0, <1>2 DEF Y!Composed, Y!Remaining
  <2>2. used <= Y!Budget
    BY <1>0, <2>1 DEF SummaryInv, RoomKept, Roomy
  <2> QED
    BY <1>0, <1>2, <2>1, <2>2 DEF Y!Length, Y!Budget
<1> QED
  BY <1>0, <1>1, <1>2

-----------------------------------------------------------------------------
(* Clients: what a thread sleeps to is an interval after its own last request. *)

\* The stamp is of this thread's last request or of a later one.
Stamped(t) == stamped[t] => sent[t] <= last

\* What a thread sleeps to is an interval after its own last request.
Spaced(t) ==
  cpc[t] = "sleep" => until[t] \in Nat /\ (stamped[t] => sent[t] = 0 \/ sent[t] + Interval <= until[t])

ClientInv == C!TypeOK /\ DOMAIN until = Thread /\ \A t \in Thread : Stamped(t) /\ Spaced(t)

\* The fields of thread t, and the stamp, after its step; all others' are as they were.
Changes(t) ==
  /\ \A u \in Thread \ {t} : /\ cpc'[u] = cpc[u] /\ until'[u] = until[u]
                             /\ sent'[u] = sent[u] /\ stamped'[u] = stamped[u]
  /\ last' \in last..time /\ time' = time
  /\ DOMAIN until' = Thread

-----------------------------------------------------------------------------
LEMMA ClientInit ==
  ASSUME C!TimesOK, C!Init
  PROVE  ClientInv
BY DEF C!TimesOK, C!Init, ClientInv, C!TypeOK, Stamped, Spaced

\* Time passes, and nobody's request comes closer to another.
LEMMA TickKeeps ==
  ASSUME C!TimesOK, ClientInv, C!Tick
  PROVE  ClientInv'
BY DEF C!TimesOK, C!Tick, ClientInv, C!TypeOK, Stamped, Spaced

\* A thread is not disturbed by another, which can only renew the stamp.
LEMMA OthersKept ==
  ASSUME C!TimesOK, ClientInv, NEW t \in Thread, Changes(t), NEW u \in Thread \ {t}
  PROVE  Stamped(u)' /\ Spaced(u)'
<1>1. sent[u] \in Nat /\ last \in Nat /\ time \in Nat /\ last' \in last..time
  BY DEF C!TimesOK, ClientInv, C!TypeOK, Changes
<1>2. /\ cpc'[u] = cpc[u] /\ until'[u] = until[u] /\ sent'[u] = sent[u]
      /\ stamped'[u] = stamped[u]
  BY DEF Changes
<1>3. Stamped(u) /\ Spaced(u)
  BY DEF ClientInv
<1>4. Stamped(u)'
  BY <1>1, <1>2, <1>3 DEF Stamped
<1>5. Spaced(u)'
  BY <1>1, <1>2, <1>3 DEF Spaced
<1> QED
  BY <1>4, <1>5

\* One lemma for each action of a thread: its types, the others, and itself.
LEMMA CallKeeps ==
  ASSUME C!TimesOK, ClientInv, NEW t \in Thread, C!Call(t)
  PROVE  C!TypeOK' /\ Changes(t) /\ Stamped(t)' /\ Spaced(t)'
BY DEF C!TimesOK, C!Call, C!Goto, ClientInv, C!TypeOK, Changes, Stamped, Spaced

LEMMA ThrottleKeeps ==
  ASSUME C!TimesOK, ClientInv, NEW t \in Thread, C!Throttle(t)
  PROVE  C!TypeOK' /\ Changes(t) /\ Stamped(t)' /\ Spaced(t)'
<1>1. C!TypeOK' /\ Changes(t) /\ Stamped(t)'
  BY DEF C!TimesOK, C!Throttle, C!Goto, C!Sleep, ClientInv, C!TypeOK, Changes, Stamped
<1>2. /\ sent[t] \in Nat /\ last \in Nat /\ time \in Nat /\ Interval \in Nat
      /\ stamped[t] => sent[t] <= last
  BY DEF C!TimesOK, ClientInv, C!TypeOK, Stamped
<1>3. until'[t] = time + (IF last + Interval > time THEN last + Interval - time ELSE 0)
  BY DEF C!Throttle, C!Sleep, ClientInv
<1>4. until'[t] \in Nat /\ last + Interval <= until'[t]
  BY <1>2, <1>3
<1>5. sent'[t] = sent[t] /\ stamped'[t] = stamped[t]
  BY DEF C!Throttle
<1>6. Spaced(t)'
  BY <1>2, <1>4, <1>5 DEF Spaced
<1> QED
  BY <1>1, <1>6

LEMMA SendKeeps ==
  ASSUME C!TimesOK, ClientInv, NEW t \in Thread, C!Send(t)
  PROVE  C!TypeOK' /\ Changes(t) /\ Stamped(t)' /\ Spaced(t)'
<1> DEFINE f == client = "finnhub"
<1>1. stamped' = [stamped EXCEPT ![t] = f] /\ f \in BOOLEAN
  BY DEF C!Send
<1>2. stamped' \in [Thread -> BOOLEAN]
  BY <1>1, Zenon DEF ClientInv, C!TypeOK
<1>3. time \in Nat /\ last \in 0..time /\ time' = time /\ last' \in last..time /\ last' \in 0..time
  BY DEF C!TimesOK, C!Send, ClientInv, C!TypeOK
<1>4. C!TypeOK'
  BY <1>2, <1>3 DEF C!TimesOK, C!Send, C!Goto, ClientInv, C!TypeOK
<1>5. /\ \A u \in Thread \ {t} : cpc'[u] = cpc[u] /\ until'[u] = until[u] /\ sent'[u] = sent[u]
      /\ DOMAIN until' = Thread
  BY DEF C!Send, C!Goto, ClientInv, C!TypeOK
<1>6. \A u \in Thread \ {t} : stamped'[u] = stamped[u]
  BY <1>1, Zenon DEF ClientInv, C!TypeOK
<1>7. Changes(t)
  BY <1>3, <1>5, <1>6 DEF Changes
<1>8. stamped'[t] => client = "finnhub"
  BY <1>1, Zenon DEF ClientInv, C!TypeOK
<1>9. sent'[t] = time /\ (client = "finnhub" => last' = time)
  BY DEF C!Send, ClientInv, C!TypeOK
<1>10. Stamped(t)'
  BY <1>3, <1>8, <1>9 DEF Stamped
<1>11. Spaced(t)'
  BY DEF C!Send, C!Goto, ClientInv, C!TypeOK, Spaced
<1> QED
  BY <1>4, <1>7, <1>10, <1>11

\* An answer, or its failure, leaves the thread idle or backing off, and the stamp new
\* or as it was.
LEMMA LandingKeeps ==
  ASSUME C!TimesOK, ClientInv, NEW t \in Thread,
         NEW s \in {"idle", "backoff"}, NEW a \in 0..(MaxTries - 1), NEW d,
         cpc' = [cpc EXCEPT ![t] = s], attempt' = [attempt EXCEPT ![t] = a],
         until' = [until EXCEPT ![t] = d], UNCHANGED <<time, sent>>,
         \/ last' = time /\ stamped' = [stamped EXCEPT ![t] = TRUE]
         \/ UNCHANGED <<last, stamped>>
  PROVE  C!TypeOK' /\ Changes(t) /\ Stamped(t)' /\ Spaced(t)'
<1>1. last' \in last..time /\ last' \in 0..time /\ time \in Nat /\ stamped' \in [Thread -> BOOLEAN]
  <2>1. time \in Nat /\ last \in 0..time /\ (last' = time \/ last' = last)
    BY DEF C!TimesOK, ClientInv, C!TypeOK
  <2>2. last' \in last..time /\ last' \in 0..time
    BY <2>1
  <2>3. stamped' \in [Thread -> BOOLEAN]
    BY Zenon DEF ClientInv, C!TypeOK
  <2> QED
    BY <2>1, <2>2, <2>3
<1>2. cpc' \in [Thread -> {"idle", "throttle", "sleep", "flight", "backoff"}]
  BY DEF ClientInv, C!TypeOK
<1>3. attempt' \in [Thread -> 0..(MaxTries - 1)]
  BY DEF ClientInv, C!TypeOK
<1>4. C!TypeOK'
  BY <1>1, <1>2, <1>3 DEF ClientInv, C!TypeOK
<1>5. Changes(t)
  BY <1>1 DEF ClientInv, C!TypeOK, Changes
<1>6. Stamped(t)'
  <2>1. sent[t] \in 0..time /\ sent'[t] = sent[t] /\ Stamped(t)
    BY DEF ClientInv, C!TypeOK
  <2>2. CASE last' = time
    BY <1>1, <2>1, <2>2 DEF Stamped
  <2>3. CASE UNCHANGED <<last, stamped>>
    BY <2>1, <2>3 DEF Stamped
  <2> QED
    BY <2>2, <2>3
<1>7. Spaced(t)'
  BY DEF ClientInv, C!TypeOK, Spaced
<1> QED
  BY <1>4, <1>5, <1>6, <1>7

LEMMA SettledKeeps ==
  ASSUME C!TimesOK, ClientInv, NEW t \in Thread, C!Settled(t)
  PROVE  C!TypeOK' /\ Changes(t) /\ Stamped(t)' /\ Spaced(t)'
<1>1. 0 \in 0..(MaxTries - 1)
  BY DEF C!TimesOK
<1> QED
  BY <1>1, LandingKeeps DEF C!Settled, C!Stamp, C!Return, C!Goto

LEMMA BrokenKeeps ==
  ASSUME C!TimesOK, ClientInv, NEW t \in Thread, C!Broken(t)
  PROVE  C!TypeOK' /\ Changes(t) /\ Stamped(t)' /\ Spaced(t)'
BY DEF C!TimesOK, C!Broken, C!Return, C!Goto, ClientInv, C!TypeOK, Changes, Stamped, Spaced

LEMMA TransientKeeps ==
  ASSUME C!TimesOK, ClientInv, NEW t \in Thread, C!Transient(t)
  PROVE  C!TypeOK' /\ Changes(t) /\ Stamped(t)' /\ Spaced(t)'
<1>1. last' = time /\ stamped' = [stamped EXCEPT ![t] = TRUE] /\ UNCHANGED <<time, sent>>
  BY DEF C!Transient, C!Stamp
<1>2. attempt[t] \in 0..(MaxTries - 1) /\ MaxTries \in Nat \ {0}
  BY DEF C!TimesOK, ClientInv, C!TypeOK
<1>3. CASE attempt[t] + 1 = MaxTries
  <2>1. 0 \in 0..(MaxTries - 1)
    BY <1>2
  <2> QED
    BY <1>1, <1>3, <2>1, LandingKeeps DEF C!Transient, C!Return, C!Goto
<1>4. CASE attempt[t] + 1 # MaxTries
  <2>1. PICK d : C!Sleep(t, d)
    BY <1>4 DEF C!Transient
  <2>2. attempt[t] + 1 \in 0..(MaxTries - 1)
    BY <1>2, <1>4
  <2>3. /\ cpc' = [cpc EXCEPT ![t] = "backoff"] /\ until' = [until EXCEPT ![t] = time + d]
        /\ attempt' = [attempt EXCEPT ![t] = attempt[t] + 1]
    BY <1>4, <2>1 DEF C!Transient, C!Sleep, C!Goto
  <2> QED
    BY <1>1, <2>2, <2>3, LandingKeeps
<1> QED
  BY <1>3, <1>4

LEMMA RetryKeeps ==
  ASSUME C!TimesOK, ClientInv, NEW t \in Thread, C!Retry(t)
  PROVE  C!TypeOK' /\ Changes(t) /\ Stamped(t)' /\ Spaced(t)'
BY DEF C!TimesOK, C!Retry, C!Goto, ClientInv, C!TypeOK, Changes, Stamped, Spaced

LEMMA ThreadKeeps ==
  ASSUME C!TimesOK, ClientInv, NEW t \in Thread, C!Step(t)
  PROVE  ClientInv'
<1>1. C!TypeOK' /\ Changes(t) /\ Stamped(t)' /\ Spaced(t)'
  BY CallKeeps, ThrottleKeeps, SendKeeps, SettledKeeps, BrokenKeeps, TransientKeeps,
     RetryKeeps DEF C!Step
<1>2. \A u \in Thread \ {t} : Stamped(u)' /\ Spaced(u)'
  BY <1>1, OthersKept
<1>3. \A u \in Thread : Stamped(u)' /\ Spaced(u)'
  BY <1>1, <1>2
<1> QED
  BY <1>1, <1>3 DEF ClientInv, Changes

LEMMA ClientStep ==
  ASSUME C!TimesOK, ClientInv, [C!Next]_(C!vars)
  PROVE  ClientInv'
<1>1. CASE UNCHANGED C!vars
  BY <1>1 DEF C!vars, ClientInv, C!TypeOK, Stamped, Spaced
<1> QED
  BY <1>1, TickKeeps, ThreadKeeps DEF C!Next

\* A request is sent by C!Send alone, after the sleep that Spaced speaks of.
LEMMA SendIsSpaced ==
  ASSUME C!TimesOK, ClientInv, C!Next, NEW t \in Thread, sent'[t] # sent[t], stamped[t]
  PROVE  sent[t] = 0 \/ sent'[t] - sent[t] >= Interval
<1>1. PICK u \in Thread : C!Step(u)
  BY DEF C!Next, C!Tick
<1>2. C!Send(u)
  BY <1>1 DEF C!Step, C!Call, C!Throttle, C!Settled, C!Broken, C!Transient, C!Retry
<1>3. u = t
  BY <1>2 DEF C!Send, ClientInv, C!TypeOK
<1>4. cpc[t] = "sleep" /\ time >= until[t] /\ sent'[t] = time
  BY <1>2, <1>3 DEF C!Send, ClientInv, C!TypeOK
<1>5. until[t] \in Nat /\ (sent[t] = 0 \/ sent[t] + Interval <= until[t])
  BY <1>4 DEF ClientInv, Spaced
<1>6. sent[t] \in Nat /\ time \in Nat /\ Interval \in Nat
  BY DEF C!TimesOK, ClientInv, C!TypeOK
<1> QED
  BY <1>4, <1>5, <1>6

-----------------------------------------------------------------------------
\* The clock, the stamp and the tries stay within their bounds: no call of _get makes
\* more tries than _MAX_TRIES.
THEOREM ClientTypes ==
  ASSUME C!TimesOK
  PROVE  C!Spec => []C!TypeOK
<1>1. C!Init => ClientInv
  BY ClientInit
<1>2. ClientInv /\ [C!Next]_(C!vars) => ClientInv'
  BY ClientStep
<1>3. ClientInv => C!TypeOK
  BY DEF ClientInv
<1> QED
  BY <1>1, <1>2, <1>3, PTL DEF C!Spec

\* t212.py:123: two requests of one thread are an interval apart unless the first broke
\* off, for any number of threads that share the stamp.
THEOREM RequestsAreSpaced ==
  ASSUME C!TimesOK
  PROVE  C!Spec => C!RequestsSpaced
<1>1. C!Init => ClientInv
  BY ClientInit
<1>2. ClientInv /\ [C!Next]_(C!vars) => ClientInv'
  BY ClientStep
<1>3. ClientInv /\ [C!Next]_(C!vars) =>
        [\A t \in Thread : sent'[t] # sent[t] /\ stamped[t] =>
           sent[t] = 0 \/ sent'[t] - sent[t] >= Interval]_sent
  BY SendIsSpaced DEF C!vars
<1> QED
  BY <1>1, <1>2, <1>3, PTL DEF C!Spec, C!RequestsSpaced

-----------------------------------------------------------------------------
(* Analysis *)

Model == {"default1", "default2"} \cup Models[1] \cup Models[2]
WithData == A!Ok \cup {A!NoData}

\* How many models were given up: they come first among those the ladder began with.
Passed == Len(chosen) - Len(ladder)

\* Requests to model x, and how often it is among the first n of the ladder.
Requests(x) == Cardinality({j \in DOMAIN asked : asked[j] = x})
Among(n, x) == Cardinality({i \in 1..n : chosen[i] = x})

\* Each leg has been tried once the analysis is past it.
Gathered ==
  /\ apc # "prices" => legs["technical"] \in WithData
  /\ apc \notin {"prices", "fundamentals"} /\ mapped.typ = "equity" => legs["fundamental"] \in WithData
  /\ apc \notin {"prices", "fundamentals", "analyst"} /\ mapped.typ = "equity" /\ mapped.finnhub =>
       legs["analyst"] \in WithData

\* The models that are left are the last of those chosen; the others were asked.
Laddered ==
  /\ \A i \in 1..Len(ladder) : ladder[i] = chosen[Passed + i]
  /\ \A i \in 1..Passed : \E j \in DOMAIN asked : asked[j] = chosen[i]
  /\ apc = "post" => ladder # <<>>
  /\ apc \notin {"post", "done"} => chosen = <<>> /\ asked = <<>> /\ ~nudged
  /\ apc = "done" /\ legs["news"] = A!Missing /\ ~raised => ladder = <<>>

\* A model that was given up was asked at most twice, the one that is nudged once.
Counted ==
  /\ apc = "post" => \A x : Requests(x) <= 2 * Among(Passed, x) + (IF nudged /\ x = ladder[1] THEN 1 ELSE 0)
  /\ apc = "done" => \A x : Requests(x) <= 2 * Among(Len(chosen), x)

AnalysisType ==
  /\ A!TypeOK /\ mapped \in A!Instruments /\ weights \in [A!LegKeys -> Weight]
  /\ ladder \in Seq(Model) /\ chosen \in Seq(Model) /\ asked \in Seq(Model)
  /\ Len(ladder) <= Len(chosen) /\ Len(chosen) <= 2
  /\ nudged \in BOOLEAN /\ raised \in BOOLEAN

AnalysisInv == AnalysisType /\ Gathered /\ Laddered /\ Counted

-----------------------------------------------------------------------------
LEMMA GivenModel ==
  ASSUME NEW x \in Model
  PROVE  A!Given(x) \in Seq(Model) /\ Len(A!Given(x)) \in 0..1
<1>1. CASE x = ""
  <2>1. A!Given(x) = <<>>
    BY <1>1 DEF A!Given
  <2> QED
    BY <2>1
<1>2. CASE x # ""
  <2>1. A!Given(x) = <<x>>
    BY <1>2 DEF A!Given
  <2> QED
    BY <2>1
<1> QED
  BY <1>1, <1>2

LEMMA ConfiguredModels ==
  ASSUME models \in Models[1] \X Models[2]
  PROVE  A!Configured(models) \in Seq(Model) /\ Len(A!Configured(models)) <= 2
<1>1. models[1] \in Model /\ models[2] \in Model
  BY DEF Model
<1> DEFINE a == A!Given(models[1])
           b == A!Given(models[2])
<1>2. a \in Seq(Model) /\ Len(a) \in 0..1 /\ b \in Seq(Model) /\ Len(b) \in 0..1
  BY <1>1, GivenModel
<1>3. A!Configured(models) = a \o b
  BY DEF A!Configured
<1> HIDE DEF a, b
<1> QED
  BY <1>2, <1>3

LEMMA DefaultModels ==
  ASSUME TRUE
  PROVE  <<"default1", "default2">> \in Seq(Model) /\ Len(<<"default1", "default2">>) = 2
BY DEF Model

\* One place more is one more at most, and no fewer.
LEMMA AmongNext ==
  ASSUME NEW n \in Nat, NEW x
  PROVE  /\ IsFiniteSet({i \in 1..n : chosen[i] = x}) /\ Among(n, x) \in Nat
         /\ Among(n + 1, x) = Among(n, x) + (IF chosen[n + 1] = x THEN 1 ELSE 0)
<1> DEFINE Seen(k) == {i \in 1..k : chosen[i] = x}
<1>1. IsFiniteSet(1..n)
  BY FS_Interval
<1>2. IsFiniteSet(Seen(n)) /\ Cardinality(Seen(n)) \in Nat
  BY <1>1, FS_Subset, FS_CardinalityType
<1>3. CASE chosen[n + 1] = x
  <2>1. Seen(n + 1) = Seen(n) \cup {n + 1} /\ n + 1 \notin Seen(n)
    BY <1>3
  <2>2. Cardinality(Seen(n + 1)) = Cardinality(Seen(n)) + 1
    BY <1>2, <2>1, FS_AddElement
  <2> QED
    BY <1>2, <1>3, <2>2 DEF Among
<1>4. CASE chosen[n + 1] # x
  <2>1. Seen(n + 1) = Seen(n)
    BY <1>4
  <2> QED
    BY <1>2, <1>4, <2>1 DEF Among
<1> QED
  BY <1>3, <1>4

LEMMA RequestsFinite ==
  ASSUME asked \in Seq(Model), NEW x
  PROVE  Requests(x) \in Nat
<1> DEFINE Seen == {j \in DOMAIN asked : asked[j] = x}
<1>1. IsFiniteSet(1..Len(asked))
  BY FS_Interval
<1>2. Seen \in SUBSET (1..Len(asked))
  OBVIOUS
<1>3. Requests(x) = Cardinality(Seen)
  BY DEF Requests
<1> HIDE DEF Seen
<1> QED
  BY <1>1, <1>2, <1>3, FS_Subset, FS_CardinalityType

LEMMA RequestsNext ==
  ASSUME asked \in Seq(Model), NEW y \in Model, asked' = Append(asked, y), NEW x
  PROVE  /\ Requests(x) \in Nat
         /\ Requests(x)' = Requests(x) + (IF y = x THEN 1 ELSE 0)
<1> DEFINE Seen == {j \in DOMAIN asked : asked[j] = x}
           SeenNext == {j \in DOMAIN asked' : asked'[j] = x}
           n == Len(asked)
<1>1. n \in Nat /\ DOMAIN asked = 1..n /\ DOMAIN asked' = 1..(n + 1)
      /\ asked'[n + 1] = y /\ \A j \in 1..n : asked'[j] = asked[j]
  OBVIOUS
<1> HIDE DEF n
<1>2. IsFiniteSet(Seen) /\ Cardinality(Seen) \in Nat
  <2>1. IsFiniteSet(1..n)
    BY <1>1, FS_Interval
  <2>2. Seen \in SUBSET (1..n)
    BY <1>1
  <2> HIDE DEF Seen
  <2> QED
    BY <2>1, <2>2, FS_Subset, FS_CardinalityType
<1>3. CASE y = x
  <2>1. SeenNext = Seen \cup {n + 1} /\ n + 1 \notin Seen
    BY <1>1, <1>3
  <2>2. Cardinality(SeenNext) = Cardinality(Seen) + 1
    BY <1>2, <2>1, FS_AddElement
  <2> QED
    BY <1>2, <1>3, <2>2 DEF Requests
<1>4. CASE y # x
  <2>1. SeenNext = Seen
    BY <1>1, <1>4
  <2>2. Requests(x)' = Cardinality(SeenNext) /\ Requests(x) = Cardinality(Seen)
    BY DEF Requests
  <2> HIDE DEF Seen, SeenNext
  <2> QED
    BY <1>2, <1>4, <2>1, <2>2
<1> QED
  BY <1>3, <1>4

LEMMA AmongSame ==
  ASSUME UNCHANGED chosen, NEW x
  PROVE  /\ Among(Len(chosen), x)' = Among(Len(chosen), x)
         /\ \A n : Passed' = n => Among(Passed, x)' = Among(n, x)
BY DEF Among

\* What was counted among the first models counts among all: there are two at most.
LEMMA AmongAll ==
  ASSUME NEW n \in 0..2, NEW k \in n..2, NEW x
  PROVE  Among(n, x) <= Among(k, x) /\ Among(n, x) \in Nat /\ Among(k, x) \in Nat
<1>1. /\ Among(0 + 1, x) = Among(0, x) + (IF chosen[0 + 1] = x THEN 1 ELSE 0) /\ Among(0, x) \in Nat
      /\ Among(1 + 1, x) = Among(1, x) + (IF chosen[1 + 1] = x THEN 1 ELSE 0) /\ Among(1, x) \in Nat
      /\ Among(2, x) \in Nat
  BY AmongNext
<1>2. Among(0, x) <= Among(1, x) /\ Among(1, x) <= Among(2, x)
  BY <1>1
<1> QED
  BY <1>1, <1>2

-----------------------------------------------------------------------------
Data == A!Ok \cup {A!NoData, A!NotApplicable, A!Missing}

\* Legs of different status differ.
LEMMA Statuses ==
  ASSUME TRUE
  PROVE  /\ \A got \in A!Ok : got.status = "ok" /\ got \notin {A!NoData, A!NotApplicable, A!Missing}
         /\ A!Missing \notin {A!NoData, A!NotApplicable}
         /\ A!NoData.status = "no_data" /\ A!NotApplicable.status = "not_applicable"
         /\ A!Missing.status = "missing"
BY DEF A!Ok, A!NoData, A!NotApplicable, A!Missing, A!Leg

\* A leg that is filled in leaves the others.
LEMMA Filled ==
  ASSUME AnalysisType, NEW k \in A!LegKeys, NEW got \in Data, A!Fill(k, got),
         k = "news" => got \notin {A!NoData, A!NotApplicable}
  PROVE  /\ legs' \in [A!LegKeys -> Data] /\ legs'[k] = got
         /\ \A j \in A!LegKeys \ {k} : legs'[j] = legs[j]
         /\ legs'["news"] \notin {A!NoData, A!NotApplicable}
<1>1. legs \in [A!LegKeys -> Data] /\ legs["news"] \notin {A!NoData, A!NotApplicable}
  BY DEF AnalysisType, A!TypeOK, Data
<1>2. "news" \in A!LegKeys
  BY DEF A!LegKeys
<1> QED
  BY <1>1, <1>2 DEF A!Fill

\* Until the ladder starts, its state is as it was.
LEMMA LadderRests ==
  ASSUME AnalysisInv, apc \notin {"post", "done"}, apc' \notin {"post", "done"},
         UNCHANGED <<ladder, nudged, chosen, asked, raised>>
  PROVE  Laddered' /\ Counted'
BY DEF AnalysisInv, Laddered, Counted, Passed

LEMMA PricesKeeps ==
  ASSUME AnalysisInv, A!Prices
  PROVE  AnalysisInv'
<1>1. PICK got \in WithData : A!Fill("technical", got)
  BY Zenon DEF A!Prices, WithData
<1>2. apc = "prices" /\ apc' = "fundamentals"
      /\ UNCHANGED <<mapped, weights, models, ladder, nudged, chosen, asked, raised>>
  BY DEF A!Prices, A!Collects
<1>3. got \in Data /\ "technical" \in A!LegKeys /\ AnalysisType
  BY DEF WithData, Data, A!LegKeys, AnalysisInv
<1>4. legs' \in [A!LegKeys -> Data] /\ legs'["technical"] = got /\ legs'["news"] \notin {A!NoData, A!NotApplicable}
  BY <1>1, <1>3, Filled
<1>5. AnalysisType'
  BY <1>2, <1>3, <1>4 DEF AnalysisType, A!TypeOK, Data
<1>6. Gathered'
  BY <1>2, <1>4 DEF Gathered
<1> QED
  BY <1>2, <1>5, <1>6, LadderRests DEF AnalysisInv

LEMMA FundamentalsKeeps ==
  ASSUME AnalysisInv, A!Fundamentals
  PROVE  AnalysisInv'
<1>1. PICK got \in WithData \cup {A!NotApplicable} :
        A!Fill("fundamental", got) /\ (mapped.typ = "equity" => got \in WithData)
  <2>1. CASE mapped.typ = "etf"
    BY <2>1 DEF A!Fundamentals
  <2>2. CASE mapped.typ # "etf"
    BY <2>2, Zenon DEF A!Fundamentals, WithData
  <2> QED
    BY <2>1, <2>2
<1>2. apc = "fundamentals" /\ apc' = "analyst"
      /\ UNCHANGED <<mapped, weights, models, ladder, nudged, chosen, asked, raised>>
  BY DEF A!Fundamentals, A!Collects
<1>3. got \in Data /\ "fundamental" \in A!LegKeys /\ AnalysisType
  BY DEF WithData, Data, A!LegKeys, AnalysisInv
<1>4. /\ legs' \in [A!LegKeys -> Data] /\ legs'["fundamental"] = got
      /\ legs'["technical"] = legs["technical"] /\ legs'["news"] \notin {A!NoData, A!NotApplicable}
  BY <1>1, <1>3, Filled DEF A!LegKeys
<1>5. AnalysisType'
  BY <1>2, <1>3, <1>4 DEF AnalysisType, A!TypeOK, Data
<1>6. Gathered'
  BY <1>1, <1>2, <1>4 DEF AnalysisInv, Gathered
<1> QED
  BY <1>2, <1>5, <1>6, LadderRests DEF AnalysisInv

LEMMA AnalystKeeps ==
  ASSUME AnalysisInv, A!Analyst
  PROVE  AnalysisInv'
<1>1. PICK got \in WithData \cup {A!NotApplicable} :
        A!Fill("analyst", got) /\ (mapped.typ = "equity" /\ mapped.finnhub => got \in WithData)
  <2>1. CASE mapped.finnhub /\ mapped.typ = "equity"
    BY <2>1, Zenon DEF A!Analyst, WithData
  <2>2. CASE ~(mapped.finnhub /\ mapped.typ = "equity")
    BY <2>2, Zenon DEF A!Analyst
  <2> QED
    BY <2>1, <2>2
<1>2. apc = "analyst" /\ apc' = "model"
      /\ UNCHANGED <<mapped, weights, models, ladder, nudged, chosen, asked, raised>>
  BY DEF A!Analyst, A!Collects
<1>3. got \in Data /\ "analyst" \in A!LegKeys /\ AnalysisType
  BY DEF WithData, Data, A!LegKeys, AnalysisInv
<1>4. /\ legs' \in [A!LegKeys -> Data] /\ legs'["analyst"] = got
      /\ legs'["technical"] = legs["technical"] /\ legs'["fundamental"] = legs["fundamental"]
      /\ legs'["news"] \notin {A!NoData, A!NotApplicable}
  BY <1>1, <1>3, Filled DEF A!LegKeys
<1>5. AnalysisType'
  BY <1>2, <1>3, <1>4 DEF AnalysisType, A!TypeOK, Data
<1>6. Gathered'
  BY <1>1, <1>2, <1>4 DEF AnalysisInv, Gathered
<1> QED
  BY <1>2, <1>5, <1>6, LadderRests DEF AnalysisInv

\* Nothing was asked, and nothing counts.
LEMMA NothingAsked ==
  ASSUME asked = <<>>, NEW x
  PROVE  Requests(x) = 0
<1>1. {j \in DOMAIN asked : asked[j] = x} = {}
  OBVIOUS
<1> QED
  BY <1>1, FS_EmptySet DEF Requests

LEMMA HaveModelKeeps ==
  ASSUME AnalysisInv, A!HaveModel
  PROVE  AnalysisInv'
<1>1. apc = "model" /\ apc' \in {"ladder", "done"}
      /\ UNCHANGED <<mapped, weights, models, legs, ladder, nudged, chosen, asked, raised>>
  BY DEF A!HaveModel, A!Researching
<1>2. AnalysisType' /\ Gathered'
  BY <1>1 DEF AnalysisInv, AnalysisType, A!TypeOK, Gathered
<1>3. CASE apc' = "ladder"
  BY <1>1, <1>2, <1>3, LadderRests DEF AnalysisInv
<1>4. CASE apc' = "done"
  <2>1. chosen = <<>> /\ asked = <<>> /\ Len(ladder) <= Len(chosen) /\ ladder \in Seq(Model)
    BY <1>1 DEF AnalysisInv, Laddered, AnalysisType
  <2>2. ladder = <<>> /\ Len(chosen) = 0
    BY <2>1
  <2>3. Laddered'
    BY <1>1, <1>4, <2>1, <2>2 DEF Laddered, Passed
  <2>4. \A x : Requests(x)' = 0 /\ Among(0, x)' \in Nat
    <3>1. \A x : Requests(x) = 0
      BY <2>1, NothingAsked
    <3>2. \A x : Among(0, x) \in Nat
      BY AmongNext
    <3> QED
      BY <1>1, <3>1, <3>2 DEF Requests, Among
  <2>5. Counted'
    BY <1>1, <1>4, <2>2, <2>4 DEF Counted
  <2> QED
    BY <1>2, <2>3, <2>5 DEF AnalysisInv
<1> QED
  BY <1>1, <1>3, <1>4

LEMMA StartLadderKeeps ==
  ASSUME AnalysisInv, A!StartLadder
  PROVE  AnalysisInv'
<1>1. apc = "ladder" /\ apc' = "post" /\ chosen' = ladder'
      /\ UNCHANGED <<mapped, weights, models, legs, nudged, asked, raised>>
  BY DEF A!StartLadder, A!Researching
<1>2. ladder' \in Seq(Model) /\ Len(ladder') <= 2 /\ ladder' # <<>>
  <2>1. A!Configured(models) \in Seq(Model) /\ Len(A!Configured(models)) <= 2
    BY ConfiguredModels DEF AnalysisInv, AnalysisType, A!TypeOK
  <2>2. CASE A!Configured(models) = <<>>
    <3>1. ladder' = <<"default1", "default2">>
      BY <2>2 DEF A!StartLadder
    <3> QED
      BY <3>1, DefaultModels
  <2>3. CASE A!Configured(models) # <<>>
    <3>1. ladder' = A!Configured(models)
      BY <2>3 DEF A!StartLadder
    <3> QED
      BY <2>1, <2>3, <3>1
  <2> QED
    BY <2>2, <2>3
<1>3. Len(ladder') \in Nat /\ Passed' = 0
  BY <1>1, <1>2 DEF Passed
<1>4. AnalysisType' /\ Gathered'
  BY <1>1, <1>2, <1>3 DEF AnalysisInv, AnalysisType, A!TypeOK, Gathered
<1>5. Laddered'
  BY <1>1, <1>2, <1>3 DEF AnalysisInv, Laddered
<1>6. asked = <<>> /\ ~nudged
  BY <1>1 DEF AnalysisInv, Laddered
<1>7. Counted'
  <2>1. \A x : Requests(x)' = 0 /\ Among(0, x)' \in Nat
    <3>1. \A x : Requests(x) = 0
      BY <1>6, NothingAsked
    <3>2. \A x : Among(0, x)' = 0
      <4>1. \A x : {i \in 1..0 : chosen'[i] = x} = {}
        OBVIOUS
      <4> QED
        BY <4>1, FS_EmptySet DEF Among
    <3> QED
      BY <1>1, <3>1, <3>2 DEF Requests
  <2> QED
    BY <1>1, <1>3, <1>6, <2>1 DEF Counted
<1> QED
  BY <1>4, <1>5, <1>7 DEF AnalysisInv

LEMMA SetModelKeeps ==
  ASSUME AnalysisInv, NEW i \in 1..2, NEW x \in Models[i], A!SetModel(i, x)
  PROVE  AnalysisInv'
<1>1. models' = [models EXCEPT ![i] = x]
      /\ UNCHANGED <<mapped, weights, apc, legs, ladder, nudged, chosen, asked, raised>>
  BY DEF A!SetModel
<1>2. models' \in Models[1] \X Models[2]
  <2>1. models \in Models[1] \X Models[2]
    BY DEF AnalysisInv, AnalysisType, A!TypeOK
  <2>2. models' = [models EXCEPT ![i] = x]
    BY <1>1
  <2>3. CASE i = 1
    <3>1. models' = <<x, models[2]>>
      BY <2>1, <2>2, <2>3
    <3> QED
      BY <2>1, <2>3, <3>1
  <2>4. CASE i = 2
    <3>1. models' = <<models[1], x>>
      BY <2>1, <2>2, <2>4
    <3> QED
      BY <2>1, <2>4, <3>1
  <2> QED
    BY <2>3, <2>4
<1>3. AnalysisType'
  BY <1>1, <1>2 DEF AnalysisInv, AnalysisType, A!TypeOK
<1>4. \A y : Requests(y)' = Requests(y)
  BY <1>1 DEF Requests
<1>5. Passed' = Passed /\ Len(chosen)' = Len(chosen)
  BY <1>1 DEF Passed
<1>6. \A n, y : Among(n, y)' = Among(n, y)
  BY <1>1 DEF Among
<1>7. Gathered' /\ Laddered'
  BY <1>1, <1>5 DEF AnalysisInv, Gathered, Laddered
<1>8. Counted'
  BY <1>1, <1>4, <1>5, <1>6 DEF AnalysisInv, Counted, Among
<1> QED
  BY <1>3, <1>7, <1>8 DEF AnalysisInv

\* What a request adds, whatever comes of it.
LEMMA PostAsks ==
  ASSUME AnalysisInv, A!Post
  PROVE  /\ apc = "post" /\ Len(ladder) \in 1..2 /\ Passed \in 0..1 /\ Len(chosen) \in 0..2
         /\ Passed + Len(ladder) = Len(chosen)
         /\ UNCHANGED <<mapped, weights, models, headlines, chosen>>
         /\ asked' \in Seq(Model)
         /\ \A i \in 1..(Passed + 1) : \E j \in DOMAIN asked' : asked'[j] = chosen[i]
         /\ \A x : Requests(x)' <= 2 * Among(Passed, x)
                     + (IF nudged /\ x = ladder[1] THEN 1 ELSE 0) + (IF x = ladder[1] THEN 1 ELSE 0)
         /\ \A x : /\ Requests(x)' <= 2 * Among(Passed + 1, x)
                   /\ Requests(x)' <= 2 * Among(Len(chosen), x)
<1> DEFINE y == ladder[1]
<1>1. apc = "post" /\ asked' = Append(asked, y) /\ UNCHANGED <<mapped, weights, models, headlines, chosen>>
  BY DEF A!Post, A!Researching
<1>2. /\ ladder \in Seq(Model) /\ ladder # <<>> /\ Len(ladder) <= 2 /\ chosen \in Seq(Model)
      /\ Len(ladder) <= Len(chosen) /\ Len(chosen) <= 2 /\ asked \in Seq(Model)
  BY <1>1 DEF AnalysisInv, AnalysisType, A!TypeOK, Laddered
<1>3. Len(ladder) \in 1..2 /\ Len(chosen) \in 0..2 /\ Passed \in 0..1
      /\ Passed + Len(ladder) = Len(chosen) /\ y \in Model
  <2>1. Len(ladder) \in Nat /\ Len(ladder) # 0 /\ Len(chosen) \in Nat
    BY <1>2
  <2>2. 1 \in DOMAIN ladder
    BY <1>2, <2>1
  <2>3. ladder[1] \in Model
    BY <1>2, <2>2
  <2> DEFINE left == Len(ladder)
             n == Len(chosen)
  <2>4. left \in Nat /\ left # 0 /\ left <= 2 /\ left <= n /\ n <= 2 /\ n \in Nat
    BY <1>2, <2>1
  <2> HIDE DEF left, n
  <2>5. left \in 1..2 /\ n \in 0..2 /\ n - left \in 0..1 /\ n - left + left = n
    BY <2>4
  <2> QED
    BY <2>3, <2>5 DEF left, n, Passed
<1>4. chosen[Passed + 1] = y
  BY <1>3 DEF AnalysisInv, Laddered
<1>5. asked' \in Seq(Model) /\ DOMAIN asked' = 1..(Len(asked) + 1) /\ DOMAIN asked = 1..Len(asked)
      /\ Len(asked) \in Nat
      /\ asked'[Len(asked) + 1] = y /\ \A j \in DOMAIN asked : asked'[j] = asked[j]
  <2> HIDE DEF y
  <2> QED
    BY <1>1, <1>2, <1>3
<1>6. \A i \in 1..(Passed + 1) : \E j \in DOMAIN asked' : asked'[j] = chosen[i]
  <2> SUFFICES ASSUME NEW i \in 1..(Passed + 1)
               PROVE  \E j \in DOMAIN asked' : asked'[j] = chosen[i]
    OBVIOUS
  <2>1. CASE i = Passed + 1
    <3>1. Len(asked) + 1 \in DOMAIN asked'
      BY <1>5
    <3> QED
      BY <1>4, <1>5, <2>1, <3>1
  <2>2. CASE i # Passed + 1
    <3>1. i \in 1..Passed
      BY <1>3, <2>2
    <3>2. PICK j \in DOMAIN asked : asked[j] = chosen[i]
      BY <3>1 DEF AnalysisInv, Laddered
    <3>3. j \in DOMAIN asked'
      BY <1>5
    <3> QED
      BY <1>5, <3>2, <3>3
  <2> QED
    BY <2>1, <2>2
<1>7. ASSUME NEW x
      PROVE  /\ Requests(x)' <= 2 * Among(Passed, x)
                  + (IF nudged /\ x = y THEN 1 ELSE 0) + (IF x = y THEN 1 ELSE 0)
             /\ Requests(x)' <= 2 * Among(Passed + 1, x)
             /\ Requests(x)' <= 2 * Among(Len(chosen), x)
  <2>1. Requests(x) \in Nat /\ Requests(x)' = Requests(x) + (IF y = x THEN 1 ELSE 0)
    BY <1>1, <1>2, <1>3, RequestsNext
  <2>2. Requests(x) <= 2 * Among(Passed, x) + (IF nudged /\ x = y THEN 1 ELSE 0)
    BY <1>1 DEF AnalysisInv, Counted
  <2>3. Among(Passed, x) \in Nat /\ Among(Passed + 1, x) = Among(Passed, x) + (IF y = x THEN 1 ELSE 0)
    <3>1. Passed \in Nat
      BY <1>3
    <3> QED
      BY <1>4, <3>1, AmongNext
  <2>4. Among(Passed + 1, x) <= Among(Len(chosen), x) /\ Among(Len(chosen), x) \in Nat
    <3>1. Passed + 1 \in 0..2 /\ Len(chosen) \in (Passed + 1)..2
      <4> DEFINE left == Len(ladder)
                 n == Len(chosen)
      <4>1. left \in 1..2 /\ n \in 0..2 /\ Passed \in 0..1 /\ Passed + left = n
        BY <1>3
      <4> HIDE DEF left, n
      <4>2. Passed + 1 \in 0..2 /\ n \in (Passed + 1)..2
        BY <4>1
      <4> QED
        BY <4>2 DEF n
    <3> QED
      BY <3>1, AmongAll
  <2>5. nudged \in BOOLEAN
    BY DEF AnalysisInv, AnalysisType
  <2> DEFINE r == Requests(x)
             s == Requests(x)'
             a == Among(Passed, x)
             b == Among(Passed + 1, x)
             c == Among(Len(chosen), x)
  <2>6. /\ r \in Nat /\ s = r + (IF y = x THEN 1 ELSE 0)
        /\ r <= 2 * a + (IF nudged /\ x = y THEN 1 ELSE 0)
        /\ a \in Nat /\ b = a + (IF y = x THEN 1 ELSE 0) /\ b <= c /\ c \in Nat
    BY <2>1, <2>2, <2>3, <2>4
  <2> HIDE DEF r, s, a, b, c, y
  <2>7. /\ s <= 2 * a + (IF nudged /\ x = y THEN 1 ELSE 0) + (IF x = y THEN 1 ELSE 0)
        /\ s <= 2 * b /\ s <= 2 * c
    <3>1. CASE x = y
      BY <2>5, <2>6, <3>1
    <3>2. CASE x # y
      BY <2>5, <2>6, <3>2
    <3> QED
      BY <3>1, <3>2
  <2> QED
    BY <2>7 DEF r, s, a, b, c
<1> QED
  BY <1>1, <1>3, <1>5, <1>6, <1>7

LEMMA PostKeeps ==
  ASSUME AnalysisInv, A!Post
  PROVE  AnalysisInv'
<1>1. AnalysisType /\ Gathered /\ Laddered
  BY DEF AnalysisInv
<1>a. /\ apc = "post" /\ Len(ladder) \in 1..2 /\ Passed \in 0..1 /\ Len(chosen) \in 0..2
      /\ UNCHANGED <<mapped, weights, models, headlines, chosen>> /\ asked' \in Seq(Model)
  BY PostAsks
<1>b. \A i \in 1..(Passed + 1) : \E j \in DOMAIN asked' : asked'[j] = chosen[i]
  BY PostAsks
<1>c. \A x : Requests(x)' <= 2 * Among(Passed, x)
                + (IF nudged /\ x = ladder[1] THEN 1 ELSE 0) + (IF x = ladder[1] THEN 1 ELSE 0)
  BY PostAsks
<1>d. \A x : Requests(x)' <= 2 * Among(Passed + 1, x) /\ Requests(x)' <= 2 * Among(Len(chosen), x)
  BY PostAsks
<1>e. /\ \A n, x : Passed' = n => Among(Passed, x)' = Among(n, x)
      /\ \A x : Among(Len(chosen), x)' = Among(Len(chosen), x)
  BY <1>a, AmongSame
<1>2. CASE A!GiveUp
  <2>1. ladder' = Tail(ladder) /\ nudged' = FALSE /\ UNCHANGED <<legs, raised>>
        /\ apc' = (IF Len(ladder) = 1 THEN "done" ELSE "post")
    BY <1>2 DEF A!GiveUp
  <2>2. ladder \in Seq(Model) /\ Len(ladder) \in 1..2
    BY <1>1, <1>a DEF AnalysisType
  <2>3. /\ ladder' \in Seq(Model) /\ Len(ladder') = Len(ladder) - 1
        /\ \A i \in 1..Len(ladder') : ladder'[i] = ladder[i + 1]
        /\ (ladder' = <<>> <=> Len(ladder) = 1)
    <3>1. ladder' = Tail(ladder) /\ ladder # <<>>
      BY <2>1, <2>2
    <3>2. ladder' \in Seq(Model) /\ Len(ladder') = Len(ladder) - 1
      BY <2>2, <3>1
    <3>3. \A i \in 1..Len(ladder') : ladder'[i] = ladder[i + 1]
      BY <2>2, <3>1
    <3> QED
      BY <2>2, <3>2, <3>3
  <2>4. Passed' = Passed + 1 /\ Len(chosen') = Len(chosen)
    <3>1. Len(chosen') = Len(chosen) /\ Len(chosen) \in 0..2
      BY <1>a
    <3> QED
      BY <2>2, <2>3, <3>1 DEF Passed
  <2>5. AnalysisType' /\ Gathered'
    <3>1. Len(ladder') <= 2 /\ Len(ladder') <= Len(chosen')
      <4>1. Len(ladder) <= Len(chosen)
        BY <1>1 DEF AnalysisType
      <4> QED
        BY <1>a, <2>2, <2>3, <4>1
    <3>2. apc' \in {"post", "done"}
      BY <2>1
    <3>3. ladder' \in Seq(Model) /\ nudged' \in BOOLEAN
      BY <2>1, <2>3
    <3>4. AnalysisType'
      BY <1>1, <1>a, <2>1, <3>1, <3>2, <3>3 DEF AnalysisType, A!TypeOK
    <3> QED
      BY <1>1, <1>a, <2>1, <3>4 DEF Gathered
  <2>6. Laddered'
    <3>1. \A i \in 1..Len(ladder') : ladder'[i] = chosen'[Passed' + i]
      <4>1. \A i \in 1..Len(ladder') : i + 1 \in 1..Len(ladder) /\ Passed + (i + 1) = Passed' + i
        <5> DEFINE left == Len(ladder)
        <5>1. left \in 1..2 /\ Len(ladder') = left - 1 /\ Passed' = Passed + 1 /\ Passed \in 0..1
          BY <1>a, <2>3, <2>4
        <5> HIDE DEF left
        <5>2. \A i \in 1..(left - 1) : i + 1 \in 1..left /\ Passed + (i + 1) = Passed' + i
          BY <5>1
        <5> QED
          BY <5>1, <5>2 DEF left
      <4> QED
        BY <1>1, <1>a, <2>3, <4>1 DEF Laddered
    <3> QED
      BY <1>1, <1>a, <1>b, <2>1, <2>2, <2>3, <2>4, <3>1 DEF Laddered
  <2>7. Counted'
    <3>1. ASSUME NEW x
          PROVE  /\ Requests(x)' <= 2 * Among(Passed, x)' + 0
                 /\ Requests(x)' <= 2 * Among(Len(chosen), x)'
      <4>1. Among(Passed, x)' = Among(Passed + 1, x) /\ Among(Len(chosen), x)' = Among(Len(chosen), x)
        BY <1>e, <2>4
      <4>2. Passed + 1 \in Nat
        BY <1>a
      <4>3. Among(Passed + 1, x) \in Nat
        BY <4>2, AmongNext
      <4> QED
        BY <1>d, <4>1, <4>3
    <3> QED
      BY <2>1, <3>1 DEF Counted
  <2> QED
    BY <2>5, <2>6, <2>7 DEF AnalysisInv
<1>3. CASE ~nudged /\ nudged' = TRUE /\ UNCHANGED <<apc, legs, ladder, raised>>
  <2>1. Passed' = Passed /\ Len(chosen') = Len(chosen)
    BY <1>a, <1>3 DEF Passed
  <2>2. AnalysisType' /\ Gathered'
    BY <1>1, <1>a, <1>3, <2>1 DEF AnalysisType, A!TypeOK, Gathered
  <2>3. Laddered'
    <3>1. \A i \in 1..Passed : \E j \in DOMAIN asked' : asked'[j] = chosen[i]
      BY <1>a, <1>b
    <3> QED
      BY <1>1, <1>a, <1>3, <2>1, <3>1 DEF Laddered
  <2>4. Counted'
    <3>1. ASSUME NEW x
          PROVE  Requests(x)' <= 2 * Among(Passed, x)' + (IF nudged' /\ x = ladder'[1] THEN 1 ELSE 0)
      <4>1. Among(Passed, x)' = Among(Passed, x) /\ Passed \in Nat
        BY <1>a, <1>e, <2>1
      <4>2. Among(Passed, x) \in Nat
        BY <4>1, AmongNext
      <4>3. Requests(x)' <= 2 * Among(Passed, x) + 0 + (IF x = ladder[1] THEN 1 ELSE 0)
        BY <1>c, <1>3
      <4> QED
        BY <1>3, <4>1, <4>2, <4>3
    <3> QED
      BY <1>a, <1>3, <3>1 DEF Counted
  <2> QED
    BY <2>2, <2>3, <2>4 DEF AnalysisInv
<1>4. ASSUME apc' = "done", UNCHANGED <<ladder, nudged>>, raised' \in BOOLEAN,
             legs' \in [A!LegKeys -> Data], legs'["news"] \notin {A!NoData, A!NotApplicable},
             \A k \in A!LegKeys \ {"news"} : legs'[k] = legs[k],
             legs'["news"] # A!Missing \/ raised'
      PROVE  AnalysisInv'
  <2>1. Passed' = Passed /\ Len(chosen') = Len(chosen)
    BY <1>a, <1>4 DEF Passed
  <2>2. AnalysisType'
    BY <1>1, <1>a, <1>4, <2>1 DEF AnalysisType, A!TypeOK, Data
  <2>3. legs'["technical"] = legs["technical"] /\ legs'["fundamental"] = legs["fundamental"]
        /\ legs'["analyst"] = legs["analyst"]
    BY <1>4 DEF A!LegKeys
  <2>4. Gathered'
    BY <1>1, <1>a, <1>4, <2>3 DEF Gathered
  <2>5. Laddered'
    <3>1. \A i \in 1..Passed : \E j \in DOMAIN asked' : asked'[j] = chosen[i]
      BY <1>a, <1>b
    <3> QED
      BY <1>1, <1>a, <1>4, <2>1, <3>1 DEF Laddered
  <2>6. Counted'
    BY <1>4, <1>d, <1>e, <2>1 DEF Counted
  <2> QED
    BY <2>2, <2>4, <2>5, <2>6 DEF AnalysisInv
<1>5. CASE A!Answered
  <2>1. PICK got \in A!Ok : A!Fill("news", got) /\ apc' = "done" /\ UNCHANGED <<ladder, nudged, raised>>
    BY <1>5 DEF A!Answered
  <2>2. got \in Data /\ got \notin {A!NoData, A!NotApplicable, A!Missing} /\ "news" \in A!LegKeys
    BY Statuses DEF Data, A!LegKeys
  <2>3. /\ legs' \in [A!LegKeys -> Data] /\ legs'["news"] = got
        /\ \A k \in A!LegKeys \ {"news"} : legs'[k] = legs[k]
    BY <1>1, <2>1, <2>2, Filled
  <2> QED
    BY <1>1, <1>4, <2>1, <2>2, <2>3 DEF AnalysisType
<1>6. CASE A!Raised
  <2>1. raised' = TRUE /\ apc' = "done" /\ UNCHANGED <<legs, ladder, nudged>>
    BY <1>6 DEF A!Raised
  <2>2. legs \in [A!LegKeys -> Data] /\ legs["news"] \notin {A!NoData, A!NotApplicable}
    BY <1>1 DEF AnalysisType, A!TypeOK, Data
  <2> QED
    BY <1>4, <2>1, <2>2
<1> QED
  BY <1>2, <1>3, <1>5, <1>6 DEF A!Post

LEMMA AnalysisBegins ==
  ASSUME A!Init
  PROVE  AnalysisInv
<1>1. /\ mapped \in A!Instruments /\ weights \in [A!LegKeys -> Weight] /\ models \in Models[1] \X Models[2]
      /\ apc = "prices" /\ legs = [k \in A!LegKeys |-> A!Missing] /\ headlines = FALSE
      /\ ladder = <<>> /\ nudged = FALSE /\ chosen = <<>> /\ asked = <<>> /\ raised = FALSE
  BY DEF A!Init
<1>2. legs \in [A!LegKeys -> Data] /\ legs["news"] = A!Missing
  BY <1>1 DEF Data, A!LegKeys
<1>3. Len(ladder) = 0 /\ Len(chosen) = 0 /\ ladder \in Seq(Model) /\ chosen \in Seq(Model)
      /\ asked \in Seq(Model)
  BY <1>1
<1>4. A!TypeOK
  <2>1. legs \in [A!LegKeys -> A!Ok \cup {A!NoData, A!NotApplicable, A!Missing}]
    BY <1>2 DEF Data
  <2>2. legs["news"] \notin {A!NoData, A!NotApplicable}
    BY <1>2, Statuses
  <2>3. apc \in {"prices", "fundamentals", "analyst", "model", "ladder", "post", "done"} /\ Len(ladder) <= 2
      /\ models \in Models[1] \X Models[2]
    BY <1>1, <1>3
  <2> QED
    BY <2>1, <2>2, <2>3 DEF A!TypeOK
<1>7. AnalysisType
  <2>1. Len(ladder) <= Len(chosen) /\ Len(chosen) <= 2
    BY <1>3
  <2>2. mapped \in A!Instruments /\ weights \in [A!LegKeys -> Weight] /\ nudged \in BOOLEAN /\ raised \in BOOLEAN
    BY <1>1
  <2> QED
    BY <1>3, <1>4, <2>1, <2>2, Zenon DEF AnalysisType
<1>5. Passed = 0
  BY <1>3 DEF Passed
<1>6. Gathered /\ Laddered /\ Counted
  BY <1>1, <1>3, <1>5 DEF Gathered, Laddered, Counted
<1> QED
  BY <1>7, <1>6 DEF AnalysisInv

LEMMA AnalysisGoesOn ==
  ASSUME AnalysisInv, [A!Next]_(A!vars)
  PROVE  AnalysisInv'
<1>1. CASE UNCHANGED A!vars
  <2>1. UNCHANGED <<mapped, weights, models, apc, legs, headlines, ladder, nudged, chosen, asked, raised>>
    BY <1>1 DEF A!vars
  <2>2. \A x : Requests(x)' = Requests(x)
    BY <2>1 DEF Requests
  <2>3. Passed' = Passed /\ Len(chosen)' = Len(chosen)
    BY <2>1 DEF Passed
  <2>4. \A n, x : Among(n, x)' = Among(n, x)
    BY <2>1 DEF Among
  <2>5. AnalysisType' /\ Gathered' /\ Laddered'
    BY <2>1, <2>3 DEF AnalysisInv, AnalysisType, A!TypeOK, Gathered, Laddered
  <2>6. Counted'
    BY <2>1, <2>2, <2>3, <2>4 DEF AnalysisInv, Counted, Among
  <2> QED
    BY <2>5, <2>6 DEF AnalysisInv
<1>2. CASE A!Next
  <2>1. CASE A!Prices
    BY <2>1, PricesKeeps
  <2>2. CASE A!Fundamentals
    BY <2>2, FundamentalsKeeps
  <2>3. CASE A!Analyst
    BY <2>3, AnalystKeeps
  <2>4. CASE A!HaveModel
    BY <2>4, HaveModelKeeps
  <2>5. CASE A!StartLadder
    BY <2>5, StartLadderKeeps
  <2>6. CASE A!Post
    BY <2>6, PostKeeps
  <2>7. ASSUME NEW i \in 1..2, NEW x \in Models[i], A!SetModel(i, x)
        PROVE  AnalysisInv'
    BY <2>7, SetModelKeeps
  <2> QED
    BY <1>2, <2>1, <2>2, <2>3, <2>4, <2>5, <2>6, <2>7 DEF A!Next
<1> QED
  BY <1>1, <1>2

\* The counts of Analysis are the library's.
LEMMA SameCount ==
  ASSUME NEW X
  PROVE  A!Cardinality(X) = Cardinality(X)
BY DEF A!Cardinality, Cardinality

LEMMA LadderFollows ==
  ASSUME AnalysisInv
  PROVE  A!LadderExhausted
<1>1. apc = "done" /\ legs["news"] = A!Missing /\ ~raised =>
        \A i \in DOMAIN chosen : \E j \in DOMAIN asked : asked[j] = chosen[i]
  <2> SUFFICES ASSUME apc = "done", legs["news"] = A!Missing, ~raised
               PROVE  \A i \in DOMAIN chosen : \E j \in DOMAIN asked : asked[j] = chosen[i]
    OBVIOUS
  <2>1. ladder = <<>> /\ chosen \in Seq(Model)
    BY DEF AnalysisInv, Laddered, AnalysisType
  <2>2. DOMAIN chosen = 1..Passed
    BY <2>1 DEF Passed
  <2> QED
    BY <2>2 DEF AnalysisInv, Laddered
<1>2. ASSUME NEW x
      PROVE  Requests(x) <= 2 * Among(Len(chosen), x)
  <2>0. Len(chosen) \in 0..2 /\ nudged \in BOOLEAN /\ chosen \in Seq(Model)
    <3>1. chosen \in Seq(Model) /\ Len(chosen) <= 2 /\ nudged \in BOOLEAN
      BY DEF AnalysisInv, AnalysisType
    <3>2. Len(chosen) \in Nat
      BY <3>1
    <3> DEFINE n == Len(chosen)
    <3>3. n \in Nat /\ n <= 2
      BY <3>1, <3>2
    <3> HIDE DEF n
    <3>4. n \in 0..2
      BY <3>3
    <3> QED
      BY <3>1, <3>4 DEF n
  <2>1. CASE apc \notin {"post", "done"}
    <3>1. Requests(x) = 0
      BY <2>1, NothingAsked DEF AnalysisInv, Laddered
    <3>2. Among(Len(chosen), x) \in Nat
      <4>1. Len(chosen) \in Nat
        BY <2>0
      <4> QED
        BY <4>1, AmongNext
    <3> QED
      BY <3>1, <3>2
  <2>2. CASE apc = "post"
    <3>1. /\ ladder \in Seq(Model) /\ ladder # <<>> /\ Len(ladder) <= Len(chosen)
          /\ ladder[1] = chosen[Passed + 1]
      <4>1. ladder \in Seq(Model) /\ ladder # <<>> /\ Len(ladder) <= Len(chosen)
        BY <2>2 DEF AnalysisInv, AnalysisType, Laddered
      <4>2. 1 \in 1..Len(ladder)
        BY <4>1
      <4> QED
        BY <4>1, <4>2 DEF AnalysisInv, Laddered
    <3>2. Passed \in 0..1 /\ Passed + 1 \in 0..2 /\ Len(chosen) \in (Passed + 1)..2
      <4> DEFINE left == Len(ladder)
                 n == Len(chosen)
      <4>1. left \in Nat /\ left # 0 /\ left <= n /\ n \in 0..2
        BY <2>0, <3>1
      <4>2. Passed = n - left
        BY DEF Passed
      <4> HIDE DEF left, n
      <4>3. Passed \in 0..1 /\ Passed + 1 \in 0..2 /\ n \in (Passed + 1)..2
        BY <4>1, <4>2
      <4> QED
        BY <4>3 DEF n
    <3>3. /\ Among(Passed + 1, x) = Among(Passed, x) + (IF chosen[Passed + 1] = x THEN 1 ELSE 0)
          /\ Among(Passed, x) \in Nat
      <4>1. Passed \in Nat
        BY <3>2
      <4> QED
        BY <4>1, AmongNext
    <3>4. Among(Passed + 1, x) <= Among(Len(chosen), x) /\ Among(Len(chosen), x) \in Nat
      BY <3>2, AmongAll
    <3>5. Requests(x) <= 2 * Among(Passed, x) + (IF nudged /\ x = ladder[1] THEN 1 ELSE 0)
      BY <2>2 DEF AnalysisInv, Counted
    <3>6. Requests(x) \in Nat
      BY RequestsFinite DEF AnalysisInv, AnalysisType
    <3> DEFINE r == Requests(x)
               a == Among(Passed, x)
               b == Among(Passed + 1, x)
               c == Among(Len(chosen), x)
    <3>7. r \in Nat /\ a \in Nat /\ c \in Nat /\ b <= c
          /\ b = a + (IF ladder[1] = x THEN 1 ELSE 0)
          /\ r <= 2 * a + (IF nudged /\ x = ladder[1] THEN 1 ELSE 0)
      BY <3>1, <3>3, <3>4, <3>5, <3>6
    <3> HIDE DEF r, a, b, c
    <3>8. r <= 2 * c
      <4>1. CASE ladder[1] = x
        BY <2>0, <3>7, <4>1
      <4>2. CASE ladder[1] # x
        BY <2>0, <3>7, <4>2
      <4> QED
        BY <4>1, <4>2
    <3> QED
      BY <3>8 DEF r, c
  <2>3. CASE apc = "done"
    BY <2>3 DEF AnalysisInv, Counted
  <2> QED
    BY <2>1, <2>2, <2>3
<1>3. chosen \in Seq(Model) /\ DOMAIN chosen = 1..Len(chosen)
  BY DEF AnalysisInv, AnalysisType
<1>4. \A left : Cardinality({j \in DOMAIN asked : asked[j] = left})
               <= 2 * Cardinality({i \in DOMAIN chosen : chosen[i] = left})
  BY <1>2, <1>3 DEF Requests, Among
<1>5. \A x : A!Cardinality({j \in DOMAIN asked : asked[j] = x})
              <= 2 * A!Cardinality({i \in DOMAIN chosen : chosen[i] = x})
  BY <1>4, SameCount
<1> QED
  BY <1>1, <1>5 DEF A!LadderExhausted

\* ai_research.py:463: a failed news leg asked every model it began with, none more than
\* twice, whatever the user saves meanwhile.
THEOREM LadderIsExhausted == A!Spec => []A!LadderExhausted
<1>1. AnalysisInv => A!LadderExhausted
  BY LadderFollows
<1>2. A!Init => AnalysisInv
  BY AnalysisBegins
<1>3. AnalysisInv /\ [A!Next]_(A!vars) => AnalysisInv'
  BY AnalysisGoesOn
<1> QED
  BY <1>1, <1>2, <1>3, PTL DEF A!Spec

\* Each leg has a score, no data or no bearing on the instrument; the ladder has two
\* models at most.
THEOREM AnalysisTypes == A!Spec => []A!TypeOK
<1>1. AnalysisInv => A!TypeOK
  BY DEF AnalysisInv, AnalysisType
<1>2. A!Init => AnalysisInv
  BY AnalysisBegins
<1>3. AnalysisInv /\ [A!Next]_(A!vars) => AnalysisInv'
  BY AnalysisGoesOn
<1> QED
  BY <1>1, <1>2, <1>3, PTL DEF A!Spec

-----------------------------------------------------------------------------


\* More weighs no less.
LEMMA MoreWeighs ==
  ASSUME NEW w \in Nat, NEW x \in Int, NEW y \in Int, x <= y
  PROVE  w * x <= w * y /\ w * x \in Int /\ w * y \in Int
<1>1. y - x \in Nat
  OBVIOUS
<1>2. w * (y - x) \in Nat
  BY <1>1
<1>3. w * (y - x) = w * y - w * x /\ w * x \in Int /\ w * y \in Int
  OBVIOUS
<1> QED
  BY <1>2, <1>3

\* A mean of four is no less than x if all that weigh are no less, no more if none is more.
LEMMA MeanBetween ==
  ASSUME NEW w1 \in Nat, NEW w2 \in Nat, NEW w3 \in Nat, NEW w4 \in Nat,
         NEW s1 \in Int, NEW s2 \in Int, NEW s3 \in Int, NEW s4 \in Int, NEW x \in Int
  PROVE  /\ (w1 # 0 => x <= s1) /\ (w2 # 0 => x <= s2) /\ (w3 # 0 => x <= s3) /\ (w4 # 0 => x <= s4) =>
              x * (w1 + w2 + w3 + w4) <= w1 * s1 + w2 * s2 + w3 * s3 + w4 * s4
         /\ (w1 # 0 => s1 <= x) /\ (w2 # 0 => s2 <= x) /\ (w3 # 0 => s3 <= x) /\ (w4 # 0 => s4 <= x) =>
              x * (w1 + w2 + w3 + w4) >= w1 * s1 + w2 * s2 + w3 * s3 + w4 * s4
<1>1. ASSUME NEW w \in Nat, NEW s \in Int
      PROVE  /\ (w # 0 => x <= s) => w * x <= w * s
             /\ (w # 0 => s <= x) => w * s <= w * x
             /\ w * s \in Int /\ w * x \in Int
  <2>1. CASE w = 0
    BY <2>1
  <2>2. CASE w # 0
    BY <2>2, MoreWeighs
  <2> QED
    BY <2>1, <2>2
<1>2. x * (w1 + w2 + w3 + w4) = w1 * x + w2 * x + w3 * x + w4 * x
  OBVIOUS
<1> DEFINE a1 == w1 * s1
           a2 == w2 * s2
           a3 == w3 * s3
           a4 == w4 * s4
           b1 == w1 * x
           b2 == w2 * x
           b3 == w3 * x
           b4 == w4 * x
<1>3. /\ a1 \in Int /\ a2 \in Int /\ a3 \in Int /\ a4 \in Int
      /\ b1 \in Int /\ b2 \in Int /\ b3 \in Int /\ b4 \in Int
  BY <1>1
<1>4. /\ (w1 # 0 => x <= s1) => b1 <= a1
      /\ (w2 # 0 => x <= s2) => b2 <= a2
      /\ (w3 # 0 => x <= s3) => b3 <= a3
      /\ (w4 # 0 => x <= s4) => b4 <= a4
      /\ (w1 # 0 => s1 <= x) => a1 <= b1
      /\ (w2 # 0 => s2 <= x) => a2 <= b2
      /\ (w3 # 0 => s3 <= x) => a3 <= b3
      /\ (w4 # 0 => s4 <= x) => a4 <= b4
  BY <1>1
<1>5. x * (w1 + w2 + w3 + w4) = b1 + b2 + b3 + b4
  BY <1>2
<1> HIDE DEF a1, a2, a3, a4, b1, b2, b3, b4
<1>6. /\ (w1 # 0 => x <= s1) /\ (w2 # 0 => x <= s2) /\ (w3 # 0 => x <= s3) /\ (w4 # 0 => x <= s4) =>
           b1 + b2 + b3 + b4 <= a1 + a2 + a3 + a4
      /\ (w1 # 0 => s1 <= x) /\ (w2 # 0 => s2 <= x) /\ (w3 # 0 => s3 <= x) /\ (w4 # 0 => s4 <= x) =>
           b1 + b2 + b3 + b4 >= a1 + a2 + a3 + a4
  BY <1>3, <1>4
<1> QED
  BY <1>5, <1>6 DEF a1, a2, a3, a4

\* One of those that weigh is the least, one the greatest.
LEMMA Extremes ==
  ASSUME NEW w1 \in Nat, NEW w2 \in Nat, NEW w3 \in Nat, NEW w4 \in Nat,
         NEW s1 \in Int, NEW s2 \in Int, NEW s3 \in Int, NEW s4 \in Int,
         w1 # 0 \/ w2 # 0 \/ w3 # 0 \/ w4 # 0
  PROVE  /\ \E x \in Int : /\ (w1 # 0 /\ x = s1) \/ (w2 # 0 /\ x = s2) \/ (w3 # 0 /\ x = s3) \/ (w4 # 0 /\ x = s4)
                           /\ (w1 # 0 => x <= s1) /\ (w2 # 0 => x <= s2) /\ (w3 # 0 => x <= s3) /\ (w4 # 0 => x <= s4)
         /\ \E x \in Int : /\ (w1 # 0 /\ x = s1) \/ (w2 # 0 /\ x = s2) \/ (w3 # 0 /\ x = s3) \/ (w4 # 0 /\ x = s4)
                           /\ (w1 # 0 => s1 <= x) /\ (w2 # 0 => s2 <= x) /\ (w3 # 0 => s3 <= x) /\ (w4 # 0 => s4 <= x)
<1> DEFINE Low(x) == (w1 # 0 => x <= s1) /\ (w2 # 0 => x <= s2) /\ (w3 # 0 => x <= s3) /\ (w4 # 0 => x <= s4)
           High(x) == (w1 # 0 => s1 <= x) /\ (w2 # 0 => s2 <= x) /\ (w3 # 0 => s3 <= x) /\ (w4 # 0 => s4 <= x)
<1>1. (w1 # 0 /\ Low(s1)) \/ (w2 # 0 /\ Low(s2)) \/ (w3 # 0 /\ Low(s3)) \/ (w4 # 0 /\ Low(s4))
  OBVIOUS
<1>2. (w1 # 0 /\ High(s1)) \/ (w2 # 0 /\ High(s2)) \/ (w3 # 0 /\ High(s3)) \/ (w4 # 0 /\ High(s4))
  OBVIOUS
<1> QED
  BY <1>1, <1>2

\* What a leg weighs and scores, once the analysis has gathered it.
LEMMA Shares ==
  ASSUME AnalysisInv, A!WeightsOK, NEW k \in A!LegKeys
  PROVE  /\ A!Share(k) \in Nat /\ legs[k].score \in Int
         /\ k \in A!Used <=> A!Share(k) # 0
<1>1. legs[k] \in A!Ok \cup {A!NoData, A!NotApplicable, A!Missing} /\ weights[k] \in Weight
  BY DEF AnalysisInv, AnalysisType, A!TypeOK
<1>2. legs[k].score \in Int
  <2>1. CASE legs[k] \in A!Ok
    BY <2>1 DEF A!Ok, A!Leg, A!WeightsOK
  <2>2. CASE legs[k] \in {A!NoData, A!NotApplicable, A!Missing}
    BY <2>2 DEF A!NoData, A!NotApplicable, A!Missing, A!Leg
  <2> QED
    BY <1>1, <2>1, <2>2
<1>3. weights[k] \in Nat
  BY <1>1 DEF A!WeightsOK
<1>4. k \in A!Used => weights[k] # 0
  BY DEF A!Used
<1> HIDE DEF A!Used
<1>5. A!Share(k) = IF k \in A!Used THEN weights[k] ELSE 0
  BY DEF A!Share, A!Weighed
<1> QED
  BY <1>2, <1>3, <1>4, <1>5

LEMMA Means ==
  ASSUME AnalysisInv, A!WeightsOK
  PROVE  /\ A!Denom = 0 <=> A!Used = {}
         /\ A!Used # {} => /\ \E k \in A!Used : legs[k].score * A!Denom <= A!Num
                         /\ \E k \in A!Used : legs[k].score * A!Denom >= A!Num
<1> DEFINE w1 == A!Share("technical")
           w2 == A!Share("fundamental")
           w3 == A!Share("analyst")
           w4 == A!Share("news")
           s1 == legs["technical"].score
           s2 == legs["fundamental"].score
           s3 == legs["analyst"].score
           s4 == legs["news"].score
<1>1. /\ "technical" \in A!LegKeys /\ "fundamental" \in A!LegKeys /\ "analyst" \in A!LegKeys /\ "news" \in A!LegKeys
      /\ \A k \in A!LegKeys : k = "technical" \/ k = "fundamental" \/ k = "analyst" \/ k = "news"
  BY DEF A!LegKeys
<1>2. /\ w1 \in Nat /\ w2 \in Nat /\ w3 \in Nat /\ w4 \in Nat
      /\ s1 \in Int /\ s2 \in Int /\ s3 \in Int /\ s4 \in Int
      /\ "technical" \in A!Used <=> w1 # 0
      /\ "fundamental" \in A!Used <=> w2 # 0
      /\ "analyst" \in A!Used <=> w3 # 0
      /\ "news" \in A!Used <=> w4 # 0
  BY <1>1, Shares
<1>3. A!Denom = w1 + w2 + w3 + w4 /\ A!Num = w1 * s1 + w2 * s2 + w3 * s3 + w4 * s4
  BY <1>1 DEF A!Denom, A!Num, A!Total
<1>4. A!Used \subseteq A!LegKeys
  BY DEF A!Used
<1> HIDE DEF w1, w2, w3, w4
<1>5. A!Used = {} <=> w1 = 0 /\ w2 = 0 /\ w3 = 0 /\ w4 = 0
  BY <1>1, <1>2, <1>4
<1>6. ASSUME NEW x, (w1 # 0 /\ x = s1) \/ (w2 # 0 /\ x = s2) \/ (w3 # 0 /\ x = s3) \/ (w4 # 0 /\ x = s4)
      PROVE  \E k \in A!Used : legs[k].score = x
  BY <1>2, <1>6
<1> HIDE DEF s1, s2, s3, s4
<1>7. ASSUME A!Used # {}
      PROVE  \E k \in A!Used : legs[k].score * A!Denom <= A!Num
  <2>1. PICK x \in Int : /\ (w1 # 0 /\ x = s1) \/ (w2 # 0 /\ x = s2) \/ (w3 # 0 /\ x = s3) \/ (w4 # 0 /\ x = s4)
                         /\ (w1 # 0 => x <= s1) /\ (w2 # 0 => x <= s2) /\ (w3 # 0 => x <= s3) /\ (w4 # 0 => x <= s4)
    BY <1>2, <1>5, <1>7, Extremes
  <2>2. x * (w1 + w2 + w3 + w4) <= w1 * s1 + w2 * s2 + w3 * s3 + w4 * s4
    BY <1>2, <2>1, MeanBetween
  <2>3. PICK k \in A!Used : legs[k].score = x
    BY <1>6, <2>1
  <2> QED
    BY <1>3, <2>2, <2>3
<1>8. ASSUME A!Used # {}
      PROVE  \E k \in A!Used : legs[k].score * A!Denom >= A!Num
  <2>1. PICK x \in Int : /\ (w1 # 0 /\ x = s1) \/ (w2 # 0 /\ x = s2) \/ (w3 # 0 /\ x = s3) \/ (w4 # 0 /\ x = s4)
                         /\ (w1 # 0 => s1 <= x) /\ (w2 # 0 => s2 <= x) /\ (w3 # 0 => s3 <= x) /\ (w4 # 0 => s4 <= x)
    BY <1>2, <1>5, <1>8, Extremes
  <2>2. x * (w1 + w2 + w3 + w4) >= w1 * s1 + w2 * s2 + w3 * s3 + w4 * s4
    BY <1>2, <2>1, MeanBetween
  <2>3. PICK k \in A!Used : legs[k].score = x
    BY <1>6, <2>1
  <2> QED
    BY <1>3, <2>2, <2>3
<1>9. A!Denom = 0 <=> A!Used = {}
  BY <1>2, <1>3, <1>5
<1> QED
  BY <1>7, <1>8, <1>9

LEMMA CompositeFollows ==
  ASSUME AnalysisInv, A!WeightsOK
  PROVE  A!CompositeFaithful
<1>1. ASSUME apc = "done", A!Quality = "full"
      PROVE  /\ "technical" \in A!Used
             /\ mapped.typ = "equity" => "fundamental" \in A!Used
             /\ mapped.typ = "equity" /\ mapped.finnhub => "analyst" \in A!Used
  <2>1. A!Used = A!Applicable
    BY <1>1 DEF A!Quality
  <2>2. ASSUME NEW k \in A!LegKeys, legs[k] \in WithData
        PROVE  k \in A!Applicable
    BY <2>2, Statuses DEF WithData, A!Applicable
  <2>3. /\ legs["technical"] \in WithData
        /\ mapped.typ = "equity" => legs["fundamental"] \in WithData
        /\ mapped.typ = "equity" /\ mapped.finnhub => legs["analyst"] \in WithData
    BY <1>1 DEF AnalysisInv, Gathered
  <2>4. "technical" \in A!LegKeys /\ "fundamental" \in A!LegKeys /\ "analyst" \in A!LegKeys
    BY DEF A!LegKeys
  <2> QED
    BY <2>1, <2>2, <2>3, <2>4
<1> QED
  BY <1>1, Means DEF A!CompositeFaithful

\* scoring.py:92: the composite lies between the scores of the legs that have data, and
\* full data quality means every leg that applies, for weights that are not negative.
THEOREM CompositeIsFaithful == ASSUME A!WeightsOK PROVE A!Spec => []A!CompositeFaithful
<1>1. AnalysisInv => A!CompositeFaithful
  BY CompositeFollows
<1>2. A!Init => AnalysisInv
  BY AnalysisBegins
<1>3. AnalysisInv /\ [A!Next]_(A!vars) => AnalysisInv'
  BY AnalysisGoesOn
<1> QED
  BY <1>1, <1>2, <1>3, PTL DEF A!Spec

-----------------------------------------------------------------------------
(* Scores *)

Numbers(g, l) == \A f \in S!Fields[l] : g[f] \in Int

\* Figures h are figures g with another one for f.
Differs(g, h, l, f) ==
  /\ Numbers(g, l) /\ Numbers(h, l) /\ f \in S!Fields[l]
  /\ \A x \in S!Fields[l] \ {f} : h[x] = g[x]
  /\ S!Known(g[f]) /\ S!Known(h[f])

Improved(g, h, f) ==
  \/ f \in S!MoreIsBetter /\ h[f] >= g[f]
  \/ f \in S!LessIsBetter /\ h[f] <= g[f] /\ (f = "fpe" => h[f] > 0)
  \/ f = "tpe" /\ h[f] > 0 /\ g[f] > 0 /\ (IF S!Known(g["fpe"]) THEN h[f] >= g[f] ELSE h[f] <= g[f])

-----------------------------------------------------------------------------
\* A clamp keeps the order, and what is clamped is within its bounds.
LEMMA ClampKeeps ==
  ASSUME NEW x \in Int, NEW y \in Int, NEW lo \in Int, NEW hi \in Int, lo <= hi
  PROVE  /\ S!Clamp(x, lo, hi) \in lo..hi
         /\ x <= y => S!Clamp(x, lo, hi) <= S!Clamp(y, lo, hi)
BY DEF S!Clamp

LEMMA ValuationRises ==
  ASSUME NEW g, NEW h, NEW f, Differs(g, h, "fundamental", f), Improved(g, h, f)
  PROVE  S!Valuation(g) \in Int /\ S!Valuation(h) \in Int /\ S!Valuation(g) <= S!Valuation(h)
<1>1. /\ g["fpe"] \in Int /\ g["tpe"] \in Int /\ h["fpe"] \in Int /\ h["tpe"] \in Int
      /\ f # "fpe" => h["fpe"] = g["fpe"]
      /\ f # "tpe" => h["tpe"] = g["tpe"]
      /\ f = "fpe" => S!Known(g["fpe"]) /\ S!Known(h["fpe"]) /\ h["fpe"] <= g["fpe"] /\ h["fpe"] > 0
      /\ f = "tpe" => /\ S!Known(g["tpe"]) /\ S!Known(h["tpe"]) /\ h["tpe"] > 0 /\ g["tpe"] > 0
                      /\ IF S!Known(g["fpe"]) THEN h["tpe"] >= g["tpe"] ELSE h["tpe"] <= g["tpe"]
  BY DEF Differs, Numbers, S!Fields, Improved, S!MoreIsBetter, S!LessIsBetter
<1> QED
  BY <1>1, ClampKeeps DEF S!Valuation, S!Known, S!None, S!Clamp

LEMMA GrowthRises ==
  ASSUME NEW g, NEW h, NEW f, Differs(g, h, "fundamental", f), Improved(g, h, f), S!Known(g["rev"])
  PROVE  S!Growth(g) \in Int /\ S!Growth(h) \in Int /\ S!Growth(g) <= S!Growth(h)
<1>1. /\ g["rev"] \in Int /\ g["earn"] \in Int /\ h["rev"] \in Int /\ h["earn"] \in Int
      /\ h["rev"] >= g["rev"] /\ (f # "rev" => h["rev"] = g["rev"])
      /\ f # "earn" => h["earn"] = g["earn"]
      /\ f = "earn" => S!Known(g["earn"]) /\ S!Known(h["earn"]) /\ h["earn"] >= g["earn"]
  BY DEF Differs, Numbers, S!Fields, Improved, S!MoreIsBetter, S!LessIsBetter
<1> QED
  BY <1>1 DEF S!Growth, S!Known, S!None, S!Clamp, S!Sign

LEMMA QualityRises ==
  ASSUME NEW g, NEW h, NEW f, Differs(g, h, "fundamental", f), Improved(g, h, f),
         ~S!Misread(f, g[f]), ~S!Misread(f, h[f])
  PROVE  S!Quality(g) \in Int /\ S!Quality(h) \in Int /\ S!Quality(g) <= S!Quality(h)
<1>1. /\ g["margin"] \in Int /\ g["de"] \in Int /\ h["margin"] \in Int /\ h["de"] \in Int
      /\ f # "margin" => h["margin"] = g["margin"]
      /\ f # "de" => h["de"] = g["de"]
      /\ f = "margin" => S!Known(g["margin"]) /\ S!Known(h["margin"]) /\ h["margin"] >= g["margin"]
      /\ f = "de" => /\ S!Known(g["de"]) /\ S!Known(h["de"]) /\ h["de"] <= g["de"]
                     /\ g["de"] > 50 /\ h["de"] > 50
  BY DEF Differs, Numbers, S!Fields, Improved, S!MoreIsBetter, S!LessIsBetter, S!Misread
<1> QED
  BY <1>1 DEF S!Quality, S!Known, S!None, S!Clamp, S!Leverage, S!Ratio

LEMMA FundamentalRises ==
  ASSUME NEW g, NEW h, NEW f, Differs(g, h, "fundamental", f), Improved(g, h, f),
         ~S!Misread(f, g[f]), ~S!Misread(f, h[f])
  PROVE  S!FundamentalScore(g) <= S!FundamentalScore(h)
<1> DEFINE V(x) == IF "valuation" \in S!Components(g) THEN S!Valuation(x) ELSE 0
           W(x) == IF "growth" \in S!Components(g) THEN S!Growth(x) ELSE 0
           Q(x) == IF "quality" \in S!Components(g) THEN S!Quality(x) ELSE 0
<1>1. \A x \in S!Fields["fundamental"] : S!Known(g[x]) <=> S!Known(h[x])
  BY DEF Differs
<1>2. S!Components(h) = S!Components(g)
  <2>1. \A c \in DOMAIN S!Inputs : S!Inputs[c] \subseteq S!Fields["fundamental"]
    BY DEF S!Inputs, S!Fields
  <2> QED
    BY <1>1, <2>1 DEF S!Components
<1>3. V(g) \in Int /\ V(h) \in Int /\ V(g) <= V(h)
  <2>1. S!Valuation(g) \in Int /\ S!Valuation(h) \in Int /\ S!Valuation(g) <= S!Valuation(h)
    BY ValuationRises
  <2> QED
    BY <2>1
<1>4. W(g) \in Int /\ W(h) \in Int /\ W(g) <= W(h)
  <2>1. CASE "growth" \in S!Components(g)
    <3>1. S!Known(g["rev"])
      BY <2>1 DEF S!Components, S!Inputs
    <3>2. S!Growth(g) \in Int /\ S!Growth(h) \in Int /\ S!Growth(g) <= S!Growth(h)
      BY <3>1, GrowthRises
    <3> QED
      BY <2>1, <3>2
  <2>2. CASE "growth" \notin S!Components(g)
    BY <2>2
  <2> QED
    BY <2>1, <2>2
<1>5. Q(g) \in Int /\ Q(h) \in Int /\ Q(g) <= Q(h)
  <2>1. S!Quality(g) \in Int /\ S!Quality(h) \in Int /\ S!Quality(g) <= S!Quality(h)
    BY QualityRises
  <2> QED
    BY <2>1
<1> DEFINE a == V(g) + W(g) + Q(g)
           b == V(h) + W(h) + Q(h)
<1>6. a \in Int /\ b \in Int /\ a <= b
  BY <1>3, <1>4, <1>5
<1>7. /\ S!FundamentalScore(g) = (IF S!Cardinality(S!Components(g)) < 2 THEN S!NoScore ELSE S!Clamp(a, -120, 120))
      /\ S!FundamentalScore(h) = (IF S!Cardinality(S!Components(g)) < 2 THEN S!NoScore ELSE S!Clamp(b, -120, 120))
  BY <1>2 DEF S!FundamentalScore
<1> HIDE DEF a, b
<1>8. S!Clamp(a, -120, 120) <= S!Clamp(b, -120, 120)
  BY <1>6, ClampKeeps
<1> QED
  BY <1>7, <1>8 DEF S!NoScore, S!None

LEMMA TechnicalRises ==
  ASSUME NEW g, NEW h, NEW f, Differs(g, h, "technical", f), Improved(g, h, f),
         \A x \in {"slope50", "slope200", "cross"} :
           (g[x] \in -1..1 \/ g[x] = S!None) /\ (h[x] \in -1..1 \/ h[x] = S!None)
  PROVE  S!TechnicalScore(g) <= S!TechnicalScore(h)
<1>1. /\ \A x \in S!Fields["technical"] : g[x] \in Int /\ h[x] \in Int
      /\ \A x \in S!Fields["technical"] \ {f} : h[x] = g[x]
      /\ f \in S!Fields["technical"] /\ S!Known(g[f]) /\ S!Known(h[f])
  BY DEF Differs, Numbers
<1>2. \/ f \in {"price", "slope50", "slope200", "cross", "drawdown"} /\ h[f] >= g[f]
      \/ f = "atr" /\ h[f] <= g[f]
  <2>1. f \in {"price", "sma50", "sma200", "slope50", "slope200", "rsi", "rsiPrev", "cross",
               "drawdown", "atr"}
    BY <1>1 DEF S!Fields
  <2>2. f \in S!MoreIsBetter => f \in {"price", "slope50", "slope200", "cross", "drawdown"}
    BY <2>1 DEF S!MoreIsBetter
  <2>3. (f \in S!LessIsBetter => f = "atr") /\ f # "tpe"
    BY <2>1 DEF S!LessIsBetter
  <2> QED
    BY <2>2, <2>3, Zenon DEF Improved
<1>3. \A x \in {"price", "sma50", "sma200", "slope50", "slope200", "rsi", "rsiPrev", "cross",
                 "drawdown", "atr"} :
        /\ g[x] \in Int /\ h[x] \in Int
        /\ x # f => h[x] = g[x]
  BY <1>1 DEF S!Fields
<1>4. S!Trend(g) \in Int /\ S!Trend(h) \in Int /\ S!Trend(g) <= S!Trend(h)
  BY <1>1, <1>2, <1>3 DEF S!Trend, S!Known, S!None
<1>5. S!Momentum(g) \in Int /\ S!Momentum(h) \in Int /\ S!Momentum(g) <= S!Momentum(h)
  BY <1>1, <1>2, <1>3 DEF S!Momentum, S!Known, S!None
<1>6. S!Risk(g) \in Int /\ S!Risk(h) \in Int /\ S!Risk(g) <= S!Risk(h)
  BY <1>1, <1>2, <1>3 DEF S!Risk, S!Known, S!None
<1>7. S!Known(g["price"]) <=> S!Known(h["price"])
  BY <1>1, <1>3
<1> DEFINE a == S!Trend(g) + S!Momentum(g) + S!Risk(g)
           b == S!Trend(h) + S!Momentum(h) + S!Risk(h)
<1>8. a \in Int /\ b \in Int /\ a <= b
  BY <1>4, <1>5, <1>6
<1>9. /\ S!TechnicalScore(g) = (IF ~S!Known(g["price"]) THEN S!NoScore ELSE S!Clamp(a, -120, 120))
      /\ S!TechnicalScore(h) = (IF ~S!Known(g["price"]) THEN S!NoScore ELSE S!Clamp(b, -120, 120))
  BY <1>7 DEF S!TechnicalScore
<1> HIDE DEF a, b
<1>10. S!Clamp(a, -120, 120) <= S!Clamp(b, -120, 120)
  BY <1>8, ClampKeeps
<1> QED
  BY <1>9, <1>10 DEF S!NoScore, S!None

\* Division rounds down, and keeps the order of quotients of positive divisors.
LEMMA Quotient ==
  ASSUME NEW n \in Int, NEW d \in Nat \ {0}
  PROVE  (n \div d) \in Int /\ (n \div d) * d <= n /\ n < ((n \div d) + 1) * d
OBVIOUS

LEMMA QuotientsOrdered ==
  ASSUME NEW n \in Int, NEW d \in Nat \ {0}, NEW k \in Int, NEW e \in Nat \ {0},
         n * e <= k * d
  PROVE  n \div d <= k \div e
<1> DEFINE p == n \div d
           q == k \div e
<1>1. p \in Int /\ p * d <= n /\ q \in Int /\ k < (q + 1) * e
  BY Quotient
<1> HIDE DEF p, q
<1>2. ASSUME q + 1 <= p
      PROVE  FALSE
  <2>1. (q + 1) * e <= p * e
    <3>1. p - (q + 1) \in Nat
      BY <1>1, <1>2
    <3>2. (p - (q + 1)) * e \in Nat
      BY <3>1
    <3>3. (p - (q + 1)) * e = p * e - (q + 1) * e
      BY <1>1
    <3> QED
      BY <1>1, <3>2, <3>3
  <2>2. k < p * e
    BY <1>1, <2>1
  <2>3. k * d < (p * e) * d
    <3>1. (p * e - k) \in Nat \ {0}
      BY <1>1, <2>2
    <3>2. (p * e - k) * d \in Nat \ {0}
      BY <3>1
    <3>3. (p * e - k) * d = (p * e) * d - k * d
      BY <1>1
    <3> QED
      BY <1>1, <3>2, <3>3
  <2>4. (p * d) * e <= n * e
    <3>1. n - p * d \in Nat
      BY <1>1
    <3>2. (n - p * d) * e \in Nat
      BY <3>1
    <3>3. (n - p * d) * e = n * e - (p * d) * e
      BY <1>1
    <3> QED
      BY <1>1, <3>2, <3>3
  <2>5. (p * d) * e = (p * e) * d
    BY <1>1
  <2> QED
    BY <1>1, <2>3, <2>4, <2>5
<1>3. p <= q
  BY <1>1, <1>2
<1> QED
  BY <1>3 DEF p, q

\* More of those who say buy, or fewer of those who say sell.
LEMMA RatioRises ==
  ASSUME NEW b \in Nat, NEW c \in Nat, NEW d \in Nat, NEW e \in Nat, NEW k \in Nat,
         b <= c, e <= d, b = c \/ e = d, b + k + d # 0, c + k + e # 0
  PROVE  (90 * (b - d)) \div (b + k + d) <= (90 * (c - e)) \div (c + k + e)
<1>1. (90 * (b - d)) * (c + k + e) <= (90 * (c - e)) * (b + k + d)
  <2>1. CASE e = d
    <3>1. (c - b) * (k + 2 * d) \in Nat
      <4>1. c - b \in Nat /\ k + 2 * d \in Nat
        OBVIOUS
      <4> QED
        BY <4>1
    <3>2. (90 * (c - d)) * (b + k + d) - (90 * (b - d)) * (c + k + d) = 90 * ((c - b) * (k + 2 * d))
      OBVIOUS
    <3> QED
      BY <2>1, <3>1, <3>2
  <2>2. CASE b = c
    <3>1. (d - e) * (k + 2 * b) \in Nat
      <4>1. d - e \in Nat /\ k + 2 * b \in Nat
        OBVIOUS
      <4> QED
        BY <4>1
    <3>2. (90 * (b - e)) * (b + k + d) - (90 * (b - d)) * (b + k + e) = 90 * ((d - e) * (k + 2 * b))
      OBVIOUS
    <3> QED
      BY <2>2, <3>1, <3>2
  <2> QED
    BY <2>1, <2>2
<1> DEFINE n == 90 * (b - d)
           t == b + k + d
           v == 90 * (c - e)
           u == c + k + e
<1>2. n \in Int /\ t \in Nat \ {0} /\ v \in Int /\ u \in Nat \ {0} /\ n * u <= v * t
  BY <1>1
<1> HIDE DEF n, t, v, u
<1>3. n \div t <= v \div u
  BY <1>2, QuotientsOrdered
<1> QED
  BY <1>3 DEF n, t, v, u

Consensus(b, k, d) == IF b + k + d = 0 THEN 0 ELSE S!Clamp((90 * (b - d)) \div (b + k + d), -60, 60)

LEMMA ConsensusRises ==
  ASSUME NEW b \in Nat, NEW c \in Nat, NEW d \in Nat, NEW e \in Nat, NEW k \in Nat,
         b <= c, e <= d, b = c \/ e = d
  PROVE  /\ Consensus(b, k, d) \in Int /\ Consensus(c, k, e) \in Int
         /\ Consensus(b, k, d) <= Consensus(c, k, e)
<1> DEFINE n == 90 * (b - d)
           t == b + k + d
           v == 90 * (c - e)
           u == c + k + e
<1>1. n \in Int /\ t \in Nat /\ v \in Int /\ u \in Nat
  OBVIOUS
<1>2. t # 0 => n \div t \in Int
  BY <1>1, Quotient
<1>3. u # 0 => v \div u \in Int
  BY <1>1, Quotient
<1>4. t # 0 /\ u # 0 => n \div t <= v \div u
  BY RatioRises
<1>5. t = 0 /\ u # 0 => 0 <= v \div u
  <2>1. t = 0 => v >= 0
    OBVIOUS
  <2> HIDE DEF n, t, v, u
  <2> SUFFICES ASSUME t = 0, u # 0
               PROVE  0 <= v \div u
    OBVIOUS
  <2>2. 0 * u <= v * 1 /\ 0 \div 1 = 0 /\ u \in Nat \ {0}
    BY <1>1, <2>1
  <2>3. 0 \div 1 <= v \div u
    BY <1>1, <2>2, QuotientsOrdered
  <2> QED
    BY <2>2, <2>3
<1>6. t # 0 /\ u = 0 => n \div t <= 0
  <2>1. u = 0 => n <= 0
    OBVIOUS
  <2> HIDE DEF n, t, v, u
  <2> SUFFICES ASSUME t # 0, u = 0
               PROVE  n \div t <= 0
    OBVIOUS
  <2>2. n * 1 <= 0 * t /\ 0 \div 1 = 0 /\ t \in Nat \ {0}
    BY <1>1, <2>1
  <2>3. n \div t <= 0 \div 1
    BY <1>1, <2>2, QuotientsOrdered
  <2> QED
    BY <2>2, <2>3
<1>7. /\ Consensus(b, k, d) = (IF t = 0 THEN 0 ELSE S!Clamp(n \div t, -60, 60))
      /\ Consensus(c, k, e) = (IF u = 0 THEN 0 ELSE S!Clamp(v \div u, -60, 60))
  BY DEF Consensus
<1> HIDE DEF n, t, v, u
<1> DEFINE p == n \div t
           q == v \div u
<1>8. /\ t # 0 => p \in Int
      /\ u # 0 => q \in Int
      /\ t # 0 /\ u # 0 => p <= q
      /\ t = 0 /\ u # 0 => 0 <= q
      /\ t # 0 /\ u = 0 => p <= 0
  BY <1>2, <1>3, <1>4, <1>5, <1>6
<1> HIDE DEF p, q
<1>9. /\ Consensus(b, k, d) = (IF t = 0 THEN 0 ELSE S!Clamp(p, -60, 60))
      /\ Consensus(c, k, e) = (IF u = 0 THEN 0 ELSE S!Clamp(q, -60, 60))
  BY <1>7 DEF p, q
<1> DEFINE x == IF t = 0 THEN 0 ELSE p
           y == IF u = 0 THEN 0 ELSE q
<1>10. x \in Int /\ y \in Int /\ x <= y
  <2>1. CASE t = 0 /\ u = 0
    BY <2>1
  <2>2. CASE t = 0 /\ u # 0
    BY <1>8, <2>2
  <2>3. CASE t # 0 /\ u = 0
    BY <1>8, <2>3
  <2>4. CASE t # 0 /\ u # 0
    BY <1>8, <2>4
  <2> QED
    BY <2>1, <2>2, <2>3, <2>4
<1>11. Consensus(b, k, d) = S!Clamp(x, -60, 60) /\ Consensus(c, k, e) = S!Clamp(y, -60, 60)
  <2>1. S!Clamp(0, -60, 60) = 0
    BY DEF S!Clamp
  <2> QED
    BY <1>9, <2>1
<1> HIDE DEF x, y
<1> QED
  BY <1>10, <1>11, ClampKeeps

LEMMA AnalystRises ==
  ASSUME NEW g, NEW h, NEW f, Differs(g, h, "analyst", f), Improved(g, h, f),
         \A x \in {"bull", "hold", "bear"} :
           (g[x] \in Nat \/ g[x] = S!None) /\ (h[x] \in Nat \/ h[x] = S!None)
  PROVE  S!AnalystScore(g) <= S!AnalystScore(h)
<1>1. \A x \in {"bull", "hold", "bear", "prevNet", "upside"} :
        g[x] \in Int /\ h[x] \in Int /\ (x # f => h[x] = g[x])
  BY DEF Differs, Numbers, S!Fields
<1>2. f \in {"bull", "hold", "bear", "prevNet", "upside"} /\ S!Known(g[f]) /\ S!Known(h[f])
  BY DEF Differs, S!Fields
<1>3. \/ f \in {"bull", "upside"} /\ h[f] >= g[f]
      \/ f \in {"bear", "prevNet"} /\ h[f] <= g[f]
  BY <1>2 DEF Improved, S!MoreIsBetter, S!LessIsBetter
<1> DEFINE recs(x) == S!Known(x["bull"]) /\ S!Known(x["hold"]) /\ S!Known(x["bear"])
           ratio(x) == Consensus(x["bull"], x["hold"], x["bear"])
           trend(x) == IF S!Known(x["prevNet"]) THEN 30 * S!Sign(x["bull"] - x["bear"] - x["prevNet"]) ELSE 0
           target(x) == IF ~S!Known(x["upside"]) THEN 0
                        ELSE IF x["upside"] >= 20 THEN 60 ELSE IF x["upside"] >= 5 THEN 30
                        ELSE IF x["upside"] <= -10 THEN -60 ELSE IF x["upside"] < 0 THEN -30 ELSE 0
           total(x) == (IF recs(x) THEN ratio(x) + trend(x) ELSE 0) + target(x)
<1>4. \A x : S!AnalystScore(x) = IF ~recs(x) /\ ~S!Known(x["upside"]) THEN S!NoScore
                               ELSE S!Clamp(total(x), -120, 120)
  BY DEF S!AnalystScore, Consensus
<1>5. (recs(g) <=> recs(h)) /\ (S!Known(g["upside"]) <=> S!Known(h["upside"]))
  BY <1>1, <1>2
<1>6. target(g) \in Int /\ target(h) \in Int /\ target(g) <= target(h)
  BY <1>1, <1>2, <1>3
<1>7. ASSUME recs(g)
      PROVE  ratio(g) + trend(g) \in Int /\ ratio(h) + trend(h) \in Int
             /\ ratio(g) + trend(g) <= ratio(h) + trend(h)
  <2>1. /\ g["bull"] \in Nat /\ g["hold"] \in Nat /\ g["bear"] \in Nat
        /\ h["bull"] \in Nat /\ h["hold"] \in Nat /\ h["bear"] \in Nat
    BY <1>5, <1>7 DEF S!Known
  <2>2. g["bull"] <= h["bull"] /\ h["bear"] <= g["bear"] /\ h["hold"] = g["hold"]
        /\ (g["bull"] = h["bull"] \/ h["bear"] = g["bear"])
    <3>1. CASE f = "bull"
      BY <1>1, <1>3, <2>1, <3>1
    <3>2. CASE f = "bear"
      BY <1>1, <1>3, <2>1, <3>2
    <3>3. CASE f \notin {"bull", "bear"}
      BY <1>1, <1>2, <1>3, <3>3
    <3> QED
      BY <3>1, <3>2, <3>3
  <2>3. ratio(g) \in Int /\ ratio(h) \in Int /\ ratio(g) <= ratio(h)
    <3>1. /\ Consensus(g["bull"], g["hold"], g["bear"]) \in Int
          /\ Consensus(h["bull"], g["hold"], h["bear"]) \in Int
          /\ Consensus(g["bull"], g["hold"], g["bear"]) <= Consensus(h["bull"], g["hold"], h["bear"])
      <4> DEFINE b == g["bull"]
                 c == h["bull"]
                 d == g["bear"]
                 e == h["bear"]
                 k == g["hold"]
      <4>1. /\ b \in Nat /\ c \in Nat /\ d \in Nat /\ e \in Nat /\ k \in Nat
            /\ b <= c /\ e <= d /\ (b = c \/ e = d)
        BY <2>1, <2>2
      <4> HIDE DEF b, c, d, e, k
      <4>2. /\ Consensus(b, k, d) \in Int /\ Consensus(c, k, e) \in Int
            /\ Consensus(b, k, d) <= Consensus(c, k, e)
        BY <4>1, ConsensusRises
      <4> QED
        BY <4>2 DEF b, c, d, e, k
    <3> QED
      BY <2>2, <3>1
  <2>4. trend(g) \in Int /\ trend(h) \in Int /\ trend(g) <= trend(h)
    BY <1>1, <1>2, <1>3, <2>1, <2>2 DEF S!Sign
  <2> QED
    BY <2>3, <2>4
<1> HIDE DEF ratio, trend, target, recs
<1>8. total(g) \in Int /\ total(h) \in Int /\ total(g) <= total(h)
  BY <1>5, <1>6, <1>7
<1> HIDE DEF total
<1>9. S!Clamp(total(g), -120, 120) <= S!Clamp(total(h), -120, 120)
  BY <1>8, ClampKeeps
<1> QED
  BY <1>4, <1>5, <1>9 DEF S!NoScore, S!None

-----------------------------------------------------------------------------
\* The figures are numbers or unknown, of the leg's fields.
FiguresTyped ==
  /\ leg \in DOMAIN Figures
  /\ m \in [S!Fields[leg] -> Int]
  /\ \A f \in S!Fields[leg] : m[f] \in Figures[leg][f] \cup {S!None}

LEMMA FiguresBegin ==
  ASSUME S!FiguresOK, S!Init
  PROVE  FiguresTyped
BY DEF S!FiguresOK, S!Init, FiguresTyped, S!None

LEMMA FigureSets ==
  ASSUME S!FiguresOK, NEW l \in DOMAIN Figures, NEW f \in S!Fields[l], NEW x \in Figures[l][f]
  PROVE  /\ x \in Int /\ S!Known(x)
         /\ f \in {"slope50", "slope200", "cross"} => x \in -1..1
         /\ f \in {"bull", "hold", "bear"} => x \in Nat
<1>1. x \in (IF f \in {"slope50", "slope200", "cross"} THEN -1..1
              ELSE IF f \in {"bull", "hold", "bear"} THEN Nat ELSE Int \ {S!None})
  BY DEF S!FiguresOK
<1> QED
  BY <1>1 DEF S!Known, S!None

LEMMA FiguresGrow ==
  ASSUME S!FiguresOK, FiguresTyped, [S!Next]_<<leg, m>>
  PROVE  FiguresTyped'
<1>1. CASE UNCHANGED <<leg, m>>
  BY <1>1 DEF FiguresTyped
<1>2. ASSUME NEW f \in DOMAIN m, S!Report(f)
      PROVE  FiguresTyped'
  <2>1. PICK v \in Figures[leg][f] : m' = [m EXCEPT ![f] = v]
    BY <1>2 DEF S!Report
  <2>2. leg' = leg /\ f \in S!Fields[leg] /\ leg \in DOMAIN Figures /\ m \in [S!Fields[leg] -> Int]
    BY <1>2 DEF S!Report, FiguresTyped
  <2>3. v \in Int
    BY <2>2, FigureSets
  <2> QED
    BY <2>1, <2>2, <2>3 DEF FiguresTyped
<1> QED
  BY <1>1, <1>2 DEF S!Next

\* The parts of a score are numbers.
LEMMA FundamentalParts ==
  ASSUME NEW g, Numbers(g, "fundamental")
  PROVE  S!FundamentalScore(g) \in {S!NoScore} \cup -120..120
<1>1. /\ g["fpe"] \in Int /\ g["tpe"] \in Int /\ g["rev"] \in Int /\ g["earn"] \in Int
      /\ g["margin"] \in Int /\ g["de"] \in Int
  BY DEF Numbers, S!Fields
<1>2. S!Valuation(g) \in Int
  BY <1>1 DEF S!Valuation, S!Clamp
<1>3. S!Growth(g) \in Int
  BY <1>1 DEF S!Growth, S!Clamp, S!Sign
<1>4. S!Quality(g) \in Int
  BY <1>1 DEF S!Quality, S!Clamp, S!Leverage
<1> DEFINE a == (IF "valuation" \in S!Components(g) THEN S!Valuation(g) ELSE 0)
                + (IF "growth" \in S!Components(g) THEN S!Growth(g) ELSE 0)
                + (IF "quality" \in S!Components(g) THEN S!Quality(g) ELSE 0)
<1>5. a \in Int
  BY <1>2, <1>3, <1>4
<1>6. S!FundamentalScore(g) = (IF S!Cardinality(S!Components(g)) < 2 THEN S!NoScore ELSE S!Clamp(a, -120, 120))
  BY DEF S!FundamentalScore
<1> HIDE DEF a
<1>7. S!Clamp(a, -120, 120) \in -120..120
  BY <1>5 DEF S!Clamp
<1> QED
  BY <1>6, <1>7

LEMMA TechnicalParts ==
  ASSUME NEW g, Numbers(g, "technical")
  PROVE  S!TechnicalScore(g) \in {S!NoScore} \cup -120..120
<1>1. S!Trend(g) \in Int /\ S!Momentum(g) \in Int /\ S!Risk(g) \in Int
  BY DEF S!Trend, S!Momentum, S!Risk
<1> DEFINE a == S!Trend(g) + S!Momentum(g) + S!Risk(g)
<1>2. a \in Int
  BY <1>1
<1>3. S!TechnicalScore(g) = (IF ~S!Known(g["price"]) THEN S!NoScore ELSE S!Clamp(a, -120, 120))
  BY DEF S!TechnicalScore
<1> HIDE DEF a
<1>7. S!Clamp(a, -120, 120) \in -120..120
  BY <1>2 DEF S!Clamp
<1> QED
  BY <1>3, <1>7

LEMMA AnalystParts ==
  ASSUME NEW g, Numbers(g, "analyst"),
         \A x \in {"bull", "hold", "bear"} : g[x] \in Nat \/ g[x] = S!None
  PROVE  S!AnalystScore(g) \in {S!NoScore} \cup -120..120
<1> DEFINE recs == S!Known(g["bull"]) /\ S!Known(g["hold"]) /\ S!Known(g["bear"])
           ratio == Consensus(g["bull"], g["hold"], g["bear"])
           trend == IF S!Known(g["prevNet"]) THEN 30 * S!Sign(g["bull"] - g["bear"] - g["prevNet"]) ELSE 0
           target == IF ~S!Known(g["upside"]) THEN 0
                     ELSE IF g["upside"] >= 20 THEN 60 ELSE IF g["upside"] >= 5 THEN 30
                     ELSE IF g["upside"] <= -10 THEN -60 ELSE IF g["upside"] < 0 THEN -30 ELSE 0
           a == (IF recs THEN ratio + trend ELSE 0) + target
<1>1. S!AnalystScore(g) = IF ~recs /\ ~S!Known(g["upside"]) THEN S!NoScore ELSE S!Clamp(a, -120, 120)
  BY DEF S!AnalystScore, Consensus
<1>2. trend \in Int /\ target \in Int
  BY DEF S!Sign
<1>3. recs => ratio \in Int
  <2> SUFFICES ASSUME recs
               PROVE  ratio \in Int
    OBVIOUS
  <2>1. g["bull"] \in Nat /\ g["hold"] \in Nat /\ g["bear"] \in Nat
    BY DEF S!Known
  <2> QED
    BY <2>1, ConsensusRises
<1> HIDE DEF recs, ratio, trend, target
<1>4. a \in Int
  BY <1>2, <1>3
<1> HIDE DEF a
<1>7. S!Clamp(a, -120, 120) \in -120..120
  BY <1>4 DEF S!Clamp
<1> QED
  BY <1>1, <1>7

LEMMA ScoreInBounds ==
  ASSUME S!FiguresOK, FiguresTyped
  PROVE  S!TypeOK
<1>1. leg \in DOMAIN S!Fields /\ leg \in DOMAIN Figures /\ DOMAIN m = S!Fields[leg] /\ Numbers(m, leg)
  BY DEF S!FiguresOK, FiguresTyped, Numbers
<1>2. leg = "fundamental" \/ leg = "technical" \/ leg = "analyst"
  BY <1>1 DEF S!Fields
<1>3. ASSUME leg = "analyst", NEW x \in {"bull", "hold", "bear"}
      PROVE  m[x] \in Nat \/ m[x] = S!None
  <2>1. x \in S!Fields[leg]
    BY <1>3 DEF S!Fields
  <2>2. m[x] \in Figures[leg][x] \cup {S!None}
    BY <2>1 DEF FiguresTyped
  <2> QED
    BY <1>1, <2>1, <2>2, FigureSets
<1>4. S!LegScore(m) \in {S!NoScore} \cup -120..120
  BY <1>1, <1>2, <1>3, FundamentalParts, TechnicalParts, AnalystParts DEF S!LegScore
<1> QED
  BY <1>1, <1>4 DEF S!TypeOK, FiguresTyped

LEMMA BetterScores ==
  ASSUME S!FiguresOK, FiguresTyped
  PROVE  S!ScoresMonotone
<1> SUFFICES ASSUME NEW f \in DOMAIN m, S!Known(m[f]), NEW v \in Figures[leg][f],
                    S!Better(f, v, m[f]), ~S!Misread(f, v), ~S!Misread(f, m[f])
             PROVE  S!LegScore([m EXCEPT ![f] = v]) >= S!LegScore(m)
  BY DEF S!ScoresMonotone
<1> DEFINE h == [m EXCEPT ![f] = v]
<1>1. leg \in DOMAIN Figures /\ leg \in DOMAIN S!Fields /\ m \in [S!Fields[leg] -> Int] /\ f \in S!Fields[leg]
  BY DEF S!FiguresOK, FiguresTyped
<1>2. leg = "fundamental" \/ leg = "technical" \/ leg = "analyst"
  BY <1>1 DEF S!Fields
<1>3. v \in Int /\ S!Known(v)
  BY <1>1, FigureSets
<1>4. h \in [S!Fields[leg] -> Int] /\ h[f] = v /\ \A x \in S!Fields[leg] \ {f} : h[x] = m[x]
  BY <1>1, <1>3
<1> HIDE DEF h
<1>5. Differs(m, h, leg, f)
  BY <1>1, <1>3, <1>4 DEF Differs, Numbers
<1>6. Improved(m, h, f)
  BY <1>4 DEF S!Better, Improved
<1>7. ASSUME NEW x \in S!Fields[leg]
      PROVE  /\ x \in {"slope50", "slope200", "cross"} =>
                  (m[x] \in -1..1 \/ m[x] = S!None) /\ (h[x] \in -1..1 \/ h[x] = S!None)
             /\ x \in {"bull", "hold", "bear"} =>
                  (m[x] \in Nat \/ m[x] = S!None) /\ (h[x] \in Nat \/ h[x] = S!None)
  <2>1. m[x] \in Figures[leg][x] \cup {S!None} /\ h[x] \in Figures[leg][x] \cup {S!None}
    BY <1>4 DEF FiguresTyped
  <2> QED
    BY <1>1, <2>1, FigureSets
<1>8. CASE leg = "fundamental"
  BY <1>4, <1>5, <1>6, <1>8, FundamentalRises, FundamentalParts DEF S!LegScore, Differs, S!NoScore, S!None, h
<1>9. CASE leg = "technical"
  <2>1. {"slope50", "slope200", "cross"} \subseteq S!Fields[leg]
    BY <1>9 DEF S!Fields
  <2>2. S!TechnicalScore(m) <= S!TechnicalScore(h)
    BY <1>5, <1>6, <1>7, <1>9, <2>1, TechnicalRises
  <2> QED
    BY <1>9, <2>2 DEF S!LegScore, h
<1>10. CASE leg = "analyst"
  <2>1. {"bull", "hold", "bear"} \subseteq S!Fields[leg]
    BY <1>10 DEF S!Fields
  <2>2. S!AnalystScore(m) <= S!AnalystScore(h)
    BY <1>5, <1>6, <1>7, <1>10, <2>1, AnalystRises
  <2> QED
    BY <1>10, <2>2 DEF S!LegScore, h
<1> QED
  BY <1>2, <1>8, <1>9, <1>10

\* fundamentals.py:182, technicals.py:248: a better figure never scores lower, but for a debt
\* of at most 5 percent, whatever the figures; and a score is none or within the rubric's
\* bounds.
THEOREM ScoresAreMonotone ==
  ASSUME S!FiguresOK
  PROVE  S!Spec => []S!ScoresMonotone /\ []S!TypeOK
<1>1. S!Init => FiguresTyped
  BY FiguresBegin
<1>2. FiguresTyped /\ [S!Next]_<<leg, m>> => FiguresTyped'
  BY FiguresGrow
<1>3. FiguresTyped => S!TypeOK /\ S!ScoresMonotone
  BY ScoreInBounds, BetterScores
<1> QED
  BY <1>1, <1>2, <1>3, PTL DEF S!Spec

-----------------------------------------------------------------------------
(* The components in Services *)

\* Summary: a step of Services is one of its own, or leaves it alone.
LEMMA SummarySteps ==
  ASSUME [Next]_vars
  PROVE  [Y!Next]_(Y!vars)
<1>1. UNCHANGED summary \/ (Alone("summary") /\ Y!Next)
  BY Zenon DEF Next, Alone, vars
<1> QED
  BY <1>1 DEF summary, Y!vars

\* notifier.py:83: a finished message names or counts every holding and fits the limit,
\* or its alerts left no room for the first holding: for every limit and portfolio.
THEOREM NoHoldingUntold == Spec => []NothingUntold
<1>1. Y!LengthsOK
  BY ServicesAssumption
<1>2. Init => SummaryInv
  BY <1>1, InitTypes DEF Init, SummaryInv, RoomKept, Y!Init
<1>3. [Next]_vars => [Y!Next]_(Y!vars)
  BY SummarySteps
<1>4. SummaryInv /\ [Next]_vars => SummaryInv'
  BY <1>1, <1>3, StepTypes, StepRoom DEF SummaryInv
<1>5. SummaryInv => NothingUntold
  BY <1>1, RoomTells DEF NothingUntold
<1> QED
  BY <1>2, <1>4, <1>5, PTL DEF Spec

\* Instruments: a step of Services is one of theirs, or leaves them alone.
LEMMA MappingSteps ==
  ASSUME [Next]_vars
  PROVE  [IP!Next]_(IP!vars)
<1>1. UNCHANGED instruments \/ (Alone("instruments") /\ I!Next)
  BY Zenon DEF Next, Alone, vars
<1>2. UNCHANGED instruments => UNCHANGED IP!vars
  BY DEF instruments, IP!vars
<1>3. I!Next => IP!Next
  BY DEF I!Automatic, IP!Automatic, I!ByHand, IP!ByHand, I!NoRow, IP!NoRow, I!Parsed,
         IP!Parsed, I!Deficient, IP!Deficient, I!Home, IP!Home, I!Unlocked,
         IP!Unlocked, I!Goto, IP!Goto, I!Hold, IP!Hold, I!Enriched, IP!Enriched,
         I!Return, IP!Return, I!Resolved, IP!Resolved, I!Quiet, IP!Quiet, I!Begin,
         IP!Begin, I!Existing, IP!Existing, I!Lookup, IP!Lookup, I!Refused,
         IP!Refused, I!Leave, IP!Leave, I!Select, IP!Select, I!Insert, IP!Insert,
         I!Step, IP!Step, I!Next, IP!Next
<1> QED
  BY <1>1, <1>2, <1>3

\* instruments.py:10: an automatic mapping replaces a manual one only in the race of
\* two processes.
THEOREM OverridesKept == Spec => OverridesStand
<1>1. Init => IP!Init
  BY DEF Init, I!Init, IP!Init, I!OldRow, IP!OldRow, I!NoRow, IP!NoRow, I!Automatic,
         IP!Automatic, I!ByHand, IP!ByHand
<1>2. [Next]_vars => [IP!Next]_(IP!vars)
  BY MappingSteps
<1>3. IP!Init /\ [][IP!Next]_(IP!vars) => IP!OverridesStand
  BY IP!OverridesAreKept
<1> QED
  BY <1>1, <1>2, <1>3, PTL DEF Spec, OverridesStand, I!OverridesStand, IP!OverridesStand,
         I!Home, IP!Home

\* Portfolio: a step of Services is one of theirs, or leaves them alone.
LEMMA PortfolioSteps ==
  ASSUME [Next]_vars
  PROVE  [PP!Next]_(PP!vars)
<1>1. UNCHANGED portfolio \/ (Alone("portfolio") /\ P!Next)
  BY Zenon DEF Next, Alone, vars
<1>2. UNCHANGED portfolio => UNCHANGED PP!vars
  BY DEF portfolio, PP!vars
<1>3. P!Next => PP!Next
  BY DEF P!Date, PP!Date, P!Absent, PP!Absent, P!Thinks, PP!Thinks, P!Midnight, PP!Midnight,
         P!Expire, PP!Expire, P!Snapshot, PP!Snapshot, P!Goto, PP!Goto, P!Reset,
         PP!Reset, P!Quit, PP!Quit, P!Stored, PP!Stored, P!Dated, PP!Dated, P!Rated,
         PP!Rated, P!ReadCache, PP!ReadCache, P!FetchRates, PP!FetchRates, P!InGBP,
         PP!InGBP, P!Record, PP!Record, P!Skipped, PP!Skipped, P!StartBackfill,
         PP!StartBackfill, P!Backfill, PP!Backfill, P!Owed, PP!Owed, P!SetFlag,
         PP!SetFlag, P!BackfillFails, PP!BackfillFails, P!RecordToday, PP!RecordToday,
         P!Step, PP!Step, P!Next, PP!Next
<1> QED
  BY <1>1, <1>2, <1>3

\* main.py:566: when the flag says that the backfill is done, every past day that had
\* something to convert has a row.
THEOREM BackfillDone == Spec => []BackfillComplete
<1>1. Init => PP!Init
  BY DEF Init, P!Init, PP!Init, P!Date, PP!Date, P!Absent, PP!Absent
<1>2. [Next]_vars => [PP!Next]_(PP!vars)
  BY PortfolioSteps
<1>3. PP!HeldOK
  BY ServicesAssumption DEF P!HeldOK, PP!HeldOK
<1>4. PP!Spec => []PP!BackfillComplete
  BY <1>3, PP!BackfillIsComplete
<1>5. PP!BackfillComplete => BackfillComplete
  BY DEF BackfillComplete, P!BackfillComplete, PP!BackfillComplete, P!Absent, PP!Absent
<1> QED
  BY <1>1, <1>2, <1>4, <1>5, PTL DEF Spec, PP!Spec

\* main.py:125: a row loses a holding only to a thread that had read the rates, or the
\* dates it has to fill, before that row was recorded.
THEOREM RowsKept == Spec => RowsKeep
<1>1. Init => PP!Init
  BY DEF Init, P!Init, PP!Init, P!Date, PP!Date, P!Absent, PP!Absent
<1>2. [Next]_vars => [PP!Next]_(PP!vars)
  BY PortfolioSteps
<1>3. PP!HeldOK
  BY ServicesAssumption DEF P!HeldOK, PP!HeldOK
<1>4. PP!Spec => PP!RowsKeep
  BY <1>3, PP!RowsAreKept
<1> QED
  BY <1>1, <1>2, <1>4, PTL DEF Spec, PP!Spec, RowsKeep, P!RowsKeep, PP!RowsKeep, P!Date, PP!Date

\* Clients: a step of Services is one of theirs, or leaves them alone.
LEMMA ClientSteps ==
  ASSUME [Next]_vars
  PROVE  [C!Next]_(C!vars)
<1>1. UNCHANGED clients \/ (Alone("clients") /\ C!Next)
  BY Zenon DEF Next, Alone, vars
<1> QED
  BY <1>1 DEF clients, C!vars

\* t212.py:123: two requests of one thread are an interval apart unless the first broke
\* off.
THEOREM RequestsKeptApart == Spec => RequestsSpaced
<1>1. Init => C!Init
  BY DEF Init
<1>2. [Next]_vars => [C!Next]_(C!vars)
  BY ClientSteps
<1>3. C!Spec => C!RequestsSpaced
  BY ServicesAssumption, RequestsAreSpaced
<1> QED
  BY <1>1, <1>2, <1>3, PTL DEF Spec, C!Spec, RequestsSpaced

\* Seeding: while it is in focus, a step of Services is one of its own.
LEMMA SeedingSteps ==
  ASSUME [Next]_vars, focus = "seeding"
  PROVE  [SP!Next]_(SP!vars) /\ focus' = "seeding"
<1>1. UNCHANGED vars \/ (Alone("seeding") /\ Seeding!Next)
  BY DEF Next, Alone
<1>2. UNCHANGED vars => UNCHANGED SP!vars
  BY DEF vars, accounts, SP!vars
<1>3. Seeding!Next => SP!Next
  BY DEF Seeding!Names, SP!Names, Seeding!NoName, SP!NoName, Seeding!Idle, SP!Idle,
         Seeding!Startup, SP!Startup, Seeding!Served, SP!Served, Seeding!Created,
         SP!Created, Seeding!CountUsers, SP!CountUsers, Seeding!CreateAdmin,
         SP!CreateAdmin, Seeding!CountAdmins, SP!CountAdmins, Seeding!Choose,
         SP!Choose, Seeding!Earliest, SP!Earliest, Seeding!Promote, SP!Promote,
         Seeding!Purge, SP!Purge, Seeding!Restart, SP!Restart, Seeding!Started,
         SP!Started, Seeding!To, SP!To, Seeding!Begin, SP!Begin, Seeding!GetSession,
         SP!GetSession, Seeding!CheckExpiry, SP!CheckExpiry, Seeding!Delete,
         SP!Delete, Seeding!Draw, SP!Draw, Seeding!Authenticate, SP!Authenticate,
         Seeding!Register, SP!Register, Seeding!InsertSession, SP!InsertSession,
         Seeding!Fail, SP!Fail, Seeding!Answers, SP!Answers, Seeding!Receive,
         SP!Receive, Seeding!Tick, SP!Tick, Seeding!Begun, SP!Begun,
         Seeding!LoggedOut, SP!LoggedOut, Seeding!Lives, SP!Lives, Seeding!Watch,
         SP!Watch, Seeding!Seed, SP!Seed, Seeding!Handle, SP!Handle, Seeding!Next,
         SP!Next
<1> QED
  BY <1>1, <1>2, <1>3 DEF Alone, vars

LEMMA FocusStays ==
  ASSUME [Next]_vars
  PROVE  focus' = focus
BY DEF Next, Alone, vars

\* auth.py:176: a worker that is through ensure_seed leaves an admin if there was an
\* account or a configured one, and promotes no visitor.
THEOREM SeedingLeavesAdmin == Spec => []AdminSeeded
<1> DEFINE F == focus = "seeding"
<1>1. Init /\ F => SP!Init
  BY DEF Init, Seeding!Init, SP!Init, Seeding!NoName, SP!NoName, Seeding!Idle, SP!Idle
<1>2. F /\ [Next]_vars => [SP!Next]_(SP!vars) /\ F'
  BY SeedingSteps
<1>3. ~F /\ [Next]_vars => ~F'
  BY FocusStays
<1>4. SP!Spec => []SP!AdminSeeded
  BY SP!AdminIsSeeded
<1>5. SP!AdminSeeded \/ ~F => AdminSeeded
  BY DEF AdminSeeded, Seeding!AdminSeeded, SP!AdminSeeded
<1> QED
  BY <1>1, <1>2, <1>3, <1>4, <1>5, PTL DEF Spec, SP!Spec

\* Sessions: unless the other workers seed, a step of Services is one of theirs, or leaves
\* them alone.
LEMMA SessionsSteps ==
  ASSUME [Next]_vars, focus # "seeding"
  PROVE  [TP!Next]_(TP!vars) /\ focus' # "seeding"
<1>1. UNCHANGED accounts \/ Sessions!Next
  BY Zenon DEF Next, Alone, vars
<1>2. UNCHANGED accounts => UNCHANGED TP!vars
  BY DEF accounts, TP!vars
<1>3. Sessions!Next => TP!Next
  BY DEF Sessions!Names, TP!Names, Sessions!NoName, TP!NoName, Sessions!Idle, TP!Idle,
         Sessions!Startup, TP!Startup, Sessions!Served, TP!Served, Sessions!Created,
         TP!Created, Sessions!CountUsers, TP!CountUsers, Sessions!CreateAdmin,
         TP!CreateAdmin, Sessions!CountAdmins, TP!CountAdmins, Sessions!Choose, TP!Choose,
         Sessions!Earliest, TP!Earliest, Sessions!Promote, TP!Promote, Sessions!Purge,
         TP!Purge, Sessions!Restart, TP!Restart, Sessions!Started, TP!Started, Sessions!To,
         TP!To, Sessions!Begin, TP!Begin, Sessions!GetSession, TP!GetSession,
         Sessions!CheckExpiry, TP!CheckExpiry, Sessions!Delete, TP!Delete, Sessions!Draw,
         TP!Draw, Sessions!Authenticate, TP!Authenticate, Sessions!Register, TP!Register,
         Sessions!InsertSession, TP!InsertSession, Sessions!Fail, TP!Fail, Sessions!Answers,
         TP!Answers, Sessions!Receive, TP!Receive, Sessions!Tick, TP!Tick, Sessions!Begun,
         TP!Begun, Sessions!LoggedOut, TP!LoggedOut, Sessions!Lives, TP!Lives,
         Sessions!Watch, TP!Watch, Sessions!Seed, TP!Seed, Sessions!Handle, TP!Handle,
         Sessions!Next, TP!Next
<1> QED
  BY <1>1, <1>2, <1>3, FocusStays

\* A state predicate of the accounts holds whichever workers are in focus.
LEMMA BothAccounts ==
  ASSUME TRUE
  PROVE  /\ Init /\ focus = "seeding" => SP!Init
         /\ Init /\ focus # "seeding" => TP!Init
         /\ SP!TimesOK /\ TP!TimesOK
<1>1. Init /\ focus = "seeding" => SP!Init
  BY DEF Init, Seeding!Init, SP!Init, Seeding!NoName, SP!NoName, Seeding!Idle, SP!Idle
<1>2. Init /\ focus # "seeding" => TP!Init
  BY DEF Init, Sessions!Init, TP!Init, Sessions!NoName, TP!NoName, Sessions!Idle, TP!Idle
<1>3. SP!TimesOK /\ TP!TimesOK
  BY ServicesAssumption DEF Seeding!TimesOK, SP!TimesOK, TP!TimesOK
<1> QED
  BY <1>1, <1>2, <1>3

\* auth.py:120: a page is served or refused as its session was worth while it was asked,
\* for the workers that seed and for the tabs that share a session.
THEOREM SessionsKeptHonoured == Spec => []SessionsHonoured
<1> DEFINE F == focus = "seeding"
<1>1. (Init /\ F => SP!Init) /\ (Init /\ ~F => TP!Init)
  BY BothAccounts
<1>2. F /\ [Next]_vars => [SP!Next]_(SP!vars) /\ F'
  BY SeedingSteps
<1>3. ~F /\ [Next]_vars => [TP!Next]_(TP!vars) /\ ~F'
  BY SessionsSteps
<1>4. SP!Spec => []SP!SessionsHonoured
  BY BothAccounts, SP!SessionsAreHonoured
<1>5. TP!Spec => []TP!SessionsHonoured
  BY BothAccounts, TP!SessionsAreHonoured
<1>6. /\ SP!SessionsHonoured /\ F => SessionsHonoured
      /\ TP!SessionsHonoured /\ ~F => SessionsHonoured
  BY DEF SessionsHonoured, Seeding!SessionsHonoured, SP!SessionsHonoured,
         Sessions!SessionsHonoured, TP!SessionsHonoured
<1> QED
  BY <1>1, <1>2, <1>3, <1>4, <1>5, <1>6, PTL DEF Spec, SP!Spec, TP!Spec

\* Analysis: a step of Services is one of its own, or leaves it alone.
LEMMA AnalysisSteps ==
  ASSUME [Next]_vars
  PROVE  [A!Next]_(A!vars)
<1>1. UNCHANGED analysis \/ (Alone("analysis") /\ A!Next)
  BY Zenon DEF Next, Alone, vars
<1> QED
  BY <1>1 DEF analysis, A!vars

\* ai_research.py:463: as LadderIsExhausted, for the composition.
THEOREM LadderStaysExhausted == Spec => []LadderExhausted
<1>1. Init => A!Init
  BY DEF Init
<1>2. [Next]_vars => [A!Next]_(A!vars)
  BY AnalysisSteps
<1> QED
  BY <1>1, <1>2, LadderIsExhausted, PTL DEF Spec, A!Spec, LadderExhausted

\* scoring.py:92: as CompositeIsFaithful, for the composition.
THEOREM CompositeStaysFaithful ==
  ASSUME A!WeightsOK
  PROVE  Spec => []CompositeFaithful
<1>1. Init => A!Init
  BY DEF Init
<1>2. [Next]_vars => [A!Next]_(A!vars)
  BY AnalysisSteps
<1>3. A!Spec => []A!CompositeFaithful
  BY CompositeIsFaithful
<1> QED
  BY <1>1, <1>2, <1>3, PTL DEF Spec, A!Spec, CompositeFaithful

\* Scores: a step of Services is one of theirs, or leaves them alone.
LEMMA ScoresSteps ==
  ASSUME [Next]_vars
  PROVE  [S!Next]_<<leg, m>>
<1>1. UNCHANGED scores \/ (Alone("scores") /\ S!Next)
  BY Zenon DEF Next, Alone, vars
<1> QED
  BY <1>1 DEF scores

\* fundamentals.py:182, technicals.py:248: as ScoresAreMonotone, for the composition.
THEOREM ScoresStayMonotone == Spec => []ScoresMonotone
<1>1. Init => S!Init
  BY DEF Init
<1>2. [Next]_vars => [S!Next]_<<leg, m>>
  BY ScoresSteps
<1>3. S!Spec => []S!ScoresMonotone /\ []S!TypeOK
  BY ServicesAssumption, ScoresAreMonotone
<1> QED
  BY <1>1, <1>2, <1>3, PTL DEF Spec, S!Spec, ScoresMonotone

\* The types of the composition, component by component.
LEMMA InstrumentsTyped == Spec => []I!TypeOK
<1>1. Init => IP!Init
  BY DEF Init, I!Init, IP!Init, I!OldRow, IP!OldRow, I!NoRow, IP!NoRow, I!Automatic,
         IP!Automatic, I!ByHand, IP!ByHand
<1>2. [Next]_vars => [IP!Next]_(IP!vars)
  BY MappingSteps
<1>3. IP!Init /\ [][IP!Next]_(IP!vars) => []IP!TypeOK
  BY IP!MappingTypes
<1>4. ASSUME NEW X
      PROVE  IP!Cardinality(X) = I!Cardinality(X)
  BY DEF IP!Cardinality, I!Cardinality
<1>5. IP!TypeOK => I!TypeOK
  BY <1>4 DEF IP!TypeOK, I!TypeOK, I!NoRow, IP!NoRow, I!Mapping, IP!Mapping,
         I!Automatic, IP!Automatic
<1> QED
  BY <1>1, <1>2, <1>3, <1>5, PTL DEF Spec

LEMMA AccountsTyped ==
  Spec => [](/\ focus = "seeding" => Seeding!TypeOK
             /\ focus = "sessions" => Sessions!TypeOK)
<1> DEFINE F == focus = "seeding"
           G == /\ focus = "seeding" => Seeding!TypeOK
                /\ focus = "sessions" => Sessions!TypeOK
<1>1. (Init /\ F => SP!Init) /\ (Init /\ ~F => TP!Init)
  BY BothAccounts
<1>2. F /\ [Next]_vars => [SP!Next]_(SP!vars) /\ F'
  BY SeedingSteps
<1>3. ~F /\ [Next]_vars => [TP!Next]_(TP!vars) /\ ~F'
  BY SessionsSteps
<1>4. SP!Spec => []SP!TypeOK
  BY BothAccounts, SP!AccountTypes
<1>5. TP!Spec => []TP!TypeOK
  BY BothAccounts, TP!AccountTypes
<1>6. (SP!TypeOK /\ F => G) /\ (TP!TypeOK /\ ~F => G)
  <2>1. SP!TypeOK => Seeding!TypeOK
    <3>1. ASSUME NEW X
          PROVE  SP!Cardinality(X) = Seeding!Cardinality(X)
      BY DEF SP!Cardinality, Seeding!Cardinality
    <3> QED
      BY <3>1 DEF SP!TypeOK, Seeding!TypeOK, SP!Names, Seeding!Names, SP!Answers, Seeding!Answers
  <2>2. TP!TypeOK => Sessions!TypeOK
    <3>1. ASSUME NEW X
          PROVE  TP!Cardinality(X) = Sessions!Cardinality(X)
      BY DEF TP!Cardinality, Sessions!Cardinality
    <3> QED
      BY <3>1 DEF TP!TypeOK, Sessions!TypeOK, TP!Names, Sessions!Names, TP!Answers, Sessions!Answers
  <2> QED
    BY <2>1, <2>2
<1> QED
  BY <1>1, <1>2, <1>3, <1>4, <1>5, <1>6, PTL DEF Spec, SP!Spec, TP!Spec

LEMMA PortfolioTyped == Spec => []P!TypeOK
<1>1. Init => PP!Init
  BY DEF Init, P!Init, PP!Init, P!Date, PP!Date, P!Absent, PP!Absent
<1>2. [Next]_vars => [PP!Next]_(PP!vars)
  BY PortfolioSteps
<1>3. PP!HeldOK
  BY ServicesAssumption DEF P!HeldOK, PP!HeldOK
<1>4. PP!Spec => []PP!TypeOK
  BY <1>3, PP!PortfolioTypes
<1>5. PP!TypeOK => P!TypeOK
  BY DEF PP!TypeOK, P!TypeOK, PP!Date, P!Date
<1> QED
  BY <1>1, <1>2, <1>4, <1>5, PTL DEF Spec, PP!Spec

LEMMA ClientsTyped == Spec => []C!TypeOK
<1>1. Init => C!Init
  BY DEF Init
<1>2. [Next]_vars => [C!Next]_(C!vars)
  BY ClientSteps
<1>3. C!Spec => []C!TypeOK
  BY ServicesAssumption, ClientTypes
<1> QED
  BY <1>1, <1>2, <1>3, PTL DEF Spec, C!Spec

LEMMA AnalysisTyped == Spec => []A!TypeOK
<1>1. Init => A!Init
  BY DEF Init
<1>2. [Next]_vars => [A!Next]_(A!vars)
  BY AnalysisSteps
<1> QED
  BY <1>1, <1>2, AnalysisTypes, PTL DEF Spec, A!Spec

LEMMA ScoresTyped == Spec => []S!TypeOK
<1>1. Init => S!Init
  BY DEF Init
<1>2. [Next]_vars => [S!Next]_<<leg, m>>
  BY ScoresSteps
<1>3. S!Spec => []S!ScoresMonotone /\ []S!TypeOK
  BY ServicesAssumption, ScoresAreMonotone
<1> QED
  BY <1>1, <1>2, <1>3, PTL DEF Spec, S!Spec

LEMMA SummaryTyped == Spec => []Y!TypeOK
<1>1. Y!LengthsOK
  BY ServicesAssumption
<1>2. Init => Y!TypeOK
  BY <1>1, InitTypes DEF Init
<1>3. [Next]_vars => [Y!Next]_(Y!vars)
  BY SummarySteps
<1>4. Y!TypeOK /\ [Next]_vars => Y!TypeOK'
  BY <1>1, <1>3, StepTypes
<1> QED
  BY <1>2, <1>4, PTL DEF Spec

LEMMA FocusTyped == Spec => [](focus \in Focus)
<1>1. Init => focus \in Focus
  BY DEF Init
<1>2. focus \in Focus /\ [Next]_vars => (focus \in Focus)'
  BY FocusStays
<1> QED
  BY <1>1, <1>2, PTL DEF Spec

\* Each component keeps its types while it runs: among others one thread at most is between
\* the test of manual_override and its write, no call makes more tries than it may, no two
\* accounts have one name, and each score is within the rubric's bounds.
THEOREM ServicesTypes == Spec => []TypeOK
<1> DEFINE Both == /\ focus = "seeding" => Seeding!TypeOK
                   /\ focus = "sessions" => Sessions!TypeOK
           OK == focus \in Focus
<1>1. /\ OK /\ I!TypeOK /\ Both /\ P!TypeOK /\ C!TypeOK /\ A!TypeOK /\ S!TypeOK /\ Y!TypeOK
      => TypeOK
  BY DEF TypeOK
<1> QED
  BY <1>1, InstrumentsTyped, AccountsTyped, PortfolioTyped, ClientsTyped, AnalysisTyped,
     ScoresTyped, SummaryTyped, FocusTyped, PTL
=============================================================================
