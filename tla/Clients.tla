-------------------------------- MODULE Clients --------------------------------
(***************************************************************************)
(* The HTTP seams of two market clients, and their throttles, as threads   *)
(* of one process share them: _throttle and _get of app/longterm/t212.py,  *)
(* and those of app/longterm/data_sources.py for Finnhub.  Both read a     *)
(* module global, sleep and send without a lock.                           *)
(*                                                                         *)
(* Trading 212 stamps the global when an answer comes, and tries again;    *)
(* Finnhub stamps it before it sends, and tries once.                      *)
(***************************************************************************)
EXTENDS Naturals

CONSTANTS
  Thread,
  Interval,     \* the least time between two requests: _MIN_INTERVAL
  MaxTries,     \* _MAX_TRIES
  RetryAfter,   \* the delays that a Retry-After header asks for
  MaxNow        \* bound: the clock

\* There is a first try, and the clock starts an interval after its zero.
TimesOK == Interval \in Nat /\ MaxNow \in Nat /\ Interval <= MaxNow /\ MaxTries \in Nat \ {0}

VARIABLES
  client,       \* "t212" or "finnhub": the seam that the threads call
  now, last,    \* the monotonic clock, and _LAST_CALL[path] or _last_call_ts
  pc,           \* each thread: "idle", "throttle", "sleep", "flight" or "backoff"
  until,        \* each thread: the time that it sleeps to
  attempt,      \* each thread: the try it is at, from 0
  sent,         \* history: when each thread last sent a request
  stamped       \* history: the answer to it was stamped

vars == <<client, now, last, pc, until, attempt, sent, stamped>>

Init ==
  /\ client \in {"t212", "finnhub"}
  /\ now = Interval /\ last = 0
  /\ pc = [t \in Thread |-> "idle"] /\ until = [t \in Thread |-> 0]
  /\ attempt = [t \in Thread |-> 0]
  /\ sent = [t \in Thread |-> 0] /\ stamped = [t \in Thread |-> TRUE]

Tick == /\ now < MaxNow /\ now' = now + 1
        /\ UNCHANGED <<client, last, pc, until, attempt, sent, stamped>>

Goto(t, s) == pc' = [pc EXCEPT ![t] = s]
Sleep(t, d) == until' = [until EXCEPT ![t] = now + d]

Call(t) ==
  /\ pc[t] = "idle" /\ Goto(t, "throttle")
  /\ UNCHANGED <<client, now, last, until, attempt, sent, stamped>>

\* _throttle: how long to sleep, by the last call there was when it looked.
Throttle(t) ==
  /\ pc[t] = "throttle" /\ Goto(t, "sleep")
  /\ Sleep(t, IF last + Interval > now THEN last + Interval - now ELSE 0)
  /\ UNCHANGED <<client, now, last, attempt, sent, stamped>>

\* The request goes out; Finnhub's throttle has stamped the time of it.
Send(t) ==
  /\ pc[t] = "sleep" /\ now >= until[t] /\ Goto(t, "flight")
  /\ last' = IF client = "finnhub" THEN now ELSE last
  /\ sent' = [sent EXCEPT ![t] = now]
  /\ stamped' = [stamped EXCEPT ![t] = client = "finnhub"]
  /\ UNCHANGED <<client, now, until, attempt>>

\* The call ends: with data, with T212Error, or for Finnhub with None.
Return(t) ==
  /\ Goto(t, "idle") /\ attempt' = [attempt EXCEPT ![t] = 0]
  /\ until' = [until EXCEPT ![t] = 0]

Stamp(t) == IF client = "t212" THEN last' = now /\ stamped' = [stamped EXCEPT ![t] = TRUE]
            ELSE UNCHANGED <<last, stamped>>

\* An answer that settles the call: 200, 401, 403 or another 4xx, and any of Finnhub.
Settled(t) ==
  /\ pc[t] = "flight" /\ Stamp(t) /\ Return(t)
  /\ UNCHANGED <<client, now, sent>>

\* A connection reset while the answer is awaited is no URLError: it leaves _get
\* as it is, and the time of the call is not noted.
Broken(t) ==
  /\ pc[t] = "flight" /\ client = "t212" /\ Return(t)
  /\ UNCHANGED <<client, now, last, sent, stamped>>

\* 429, 5xx or URLError: sleep as the header asks, or 2^attempt, then try again.
Transient(t) ==
  /\ pc[t] = "flight" /\ client = "t212" /\ Stamp(t)
  /\ IF attempt[t] + 1 = MaxTries THEN Return(t)
     ELSE /\ \E d \in RetryAfter \cup {2 ^ attempt[t]} : Sleep(t, d)
          /\ attempt' = [attempt EXCEPT ![t] = @ + 1] /\ Goto(t, "backoff")
  /\ UNCHANGED <<client, now, sent>>

\* Variation: the throttle comes before the first try only.
RetryNow(t) ==
  /\ pc[t] = "backoff" /\ now >= until[t] /\ Goto(t, "sleep")
  /\ UNCHANGED <<client, now, last, until, attempt, sent, stamped>>

\* The next try begins with the throttle too.
Retry(t) ==
  /\ pc[t] = "backoff" /\ now >= until[t] /\ Goto(t, "throttle")
  /\ UNCHANGED <<client, now, last, until, attempt, sent, stamped>>

Step(t) == \/ Call(t) \/ Throttle(t) \/ Send(t) \/ Settled(t) \/ Broken(t)
           \/ Transient(t) \/ Retry(t)
Next == Tick \/ \E t \in Thread : Step(t)

Spec == Init /\ [][Next]_vars

-----------------------------------------------------------------------------
TypeOK ==
  /\ now \in Interval..MaxNow /\ last \in 0..now /\ attempt \in [Thread -> 0..(MaxTries - 1)]
  /\ pc \in [Thread -> {"idle", "throttle", "sleep", "flight", "backoff"}]
  /\ sent \in [Thread -> 0..now] /\ stamped \in [Thread -> BOOLEAN]

\* t212.py:123, "honor the per-endpoint min interval": unless a request of its own
\* broke off, two requests of one thread, tries of one call or of two, are apart by
\* the interval, whatever other threads stamp meanwhile.  So within an interval a
\* process sends at most one request per thread; no lock makes it one in all.
RequestsSpaced ==
  [][\A t \in Thread :
       sent'[t] # sent[t] /\ stamped[t] => sent[t] = 0 \/ sent'[t] - sent[t] >= Interval]_sent
=============================================================================
