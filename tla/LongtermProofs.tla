--------------------------- MODULE LongtermProofs ---------------------------
(***************************************************************************)
(* Proofs about LongtermRun, for any number of workers, clicks, holdings   *)
(* and days, with crashes and failing database calls anywhere.             *)
(***************************************************************************)
EXTENDS LongtermRun, TLAPS

USE LongtermAssumption DEF Forced, Home

-----------------------------------------------------------------------------
(* Types *)

\* Runs that end leave the others as they are.
LEMMA GoneEffect ==
  ASSUME TypeOK, NEW R \in SUBSET Run, Gone(R)
  PROVE  /\ pc' \in [Run -> Stages] /\ date' \in [Run -> Day]
         /\ item' \in [Run -> Item] /\ got' \in [Run -> BOOLEAN]
         /\ \A r \in R : ~InRun(r)'
         /\ \A r \in Run \ R : /\ pc'[r] = pc[r] /\ date'[r] = date[r]
                               /\ item'[r] = item[r] /\ got'[r] = got[r]
<1>1. 1 \in Day /\ 1 \in Item
  BY DEF LongtermAssumption, Day, Item
<1> QED
  BY <1>1 DEF Gone, TypeOK, Stages, InRun

LEMMA EndsEffect ==
  ASSUME TypeOK, NEW r \in Run, NEW res \in {"complete", "failed"}, Ends(r, res)
  PROVE  /\ pc' \in [Run -> Stages] /\ date' \in [Run -> Day]
         /\ item' \in [Run -> Item] /\ got' \in [Run -> BOOLEAN]
         /\ flag' \in [Worker -> {"none", "running", "complete", "failed"}]
         /\ ui' = ui /\ srv' = srv
         /\ ~InRun(r)'
         /\ \A q \in Run \ {r} : /\ pc'[q] = pc[q] /\ date'[q] = date[q]
                                 /\ item'[q] = item[q] /\ got'[q] = got[q]
<1>1. Gone({r}) /\ ui' = ui /\ srv' = srv
  BY DEF Ends
<1>2. flag' \in [Worker -> {"none", "running", "complete", "failed"}]
  BY DEF Ends, TypeOK
<1> QED
  BY <1>1, <1>2, GoneEffect

\* The two loops stay in the portfolio, and go on to the next stage at its end.
LEMMA AdvanceEffect ==
  ASSUME TypeOK, NEW r \in Run, NEW here \in Stages, NEW next \in Stages,
         Advance(r, here, next)
  PROVE  /\ pc' \in [Run -> Stages] /\ item' \in [Run -> Item]
         /\ item[r] = Holdings => pc'[r] = next /\ item'[r] = 1
         /\ item[r] # Holdings => pc'[r] = here /\ item'[r] = item[r] + 1
         /\ \A q \in Run \ {r} : pc'[q] = pc[q] /\ item'[q] = item[q]
<1>1. pc' = [pc EXCEPT ![r] = IF item[r] = Holdings THEN next ELSE here]
  BY DEF Advance, Goto
<1>2. item' = [item EXCEPT ![r] = IF @ = Holdings THEN 1 ELSE @ + 1]
  BY DEF Advance
<1>3. item[r] \in 1..Holdings /\ Holdings \in Nat \ {0}
  BY DEF TypeOK, Item, LongtermAssumption
<1>4. IF item[r] = Holdings THEN 1 \in 1..Holdings ELSE item[r] + 1 \in 1..Holdings
  BY <1>3
<1>5. item' \in [Run -> Item]
  BY <1>2, <1>4 DEF TypeOK, Item
<1> QED
  BY <1>1, <1>2, <1>5 DEF TypeOK

LEMMA StepType == TypeOK /\ [Next]_vars => TypeOK'
<1> SUFFICES ASSUME TypeOK, [Next]_vars PROVE TypeOK'
  OBVIOUS
<1> USE DEF store, web, run
<1>1. ASSUME NEW w \in Worker, Fire(w) PROVE TypeOK'
  BY <1>1 DEF Fire, Goto, TypeOK, Stages, Run
<1>2. ASSUME NEW w \in Worker, Restart(w) PROVE TypeOK'
  <2>1. /\ pc' \in [Run -> Stages] /\ date' \in [Run -> Day]
        /\ item' \in [Run -> Item] /\ got' \in [Run -> BOOLEAN]
    BY <1>2, GoneEffect DEF Restart
  <2> QED
    BY <1>2, <2>1 DEF Restart, TypeOK
<1>3. ASSUME NEW c \in Click, RunNow(c) PROVE TypeOK'
  BY <1>3 DEF RunNow, Goto, TypeOK, Stages, Run
<1>4. ASSUME NEW c \in Click, Poll(c) PROVE TypeOK'
  BY <1>4 DEF Poll, TypeOK
<1>5. ASSUME NEW r \in Run, Begin(r) PROVE TypeOK'
  BY <1>5 DEF Begin, Goto, TypeOK, Stages, Item, LongtermAssumption
<1>6. ASSUME NEW r \in Run, Check(r) PROVE TypeOK'
  <2>1. CASE Ends(r, "complete")
    BY <1>6, <2>1, EndsEffect DEF Check, TypeOK
  <2>2. CASE Goto(r, "fetch") /\ UNCHANGED <<web, date, item, got>>
    BY <1>6, <2>2 DEF Check, Goto, TypeOK, Stages
  <2> QED
    BY <1>6, <2>1, <2>2 DEF Check
<1>7. ASSUME NEW r \in Run, Fetch(r) PROVE TypeOK'
  <2>1. CASE Ends(r, "failed")
    BY <1>7, <2>1, EndsEffect DEF Fetch, TypeOK
  <2>2. CASE Goto(r, "snapshot") /\ UNCHANGED <<web, date, item, got>>
    BY <1>7, <2>2 DEF Fetch, Goto, TypeOK, Stages
  <2> QED
    BY <1>7, <2>1, <2>2 DEF Fetch
<1>8. ASSUME NEW r \in Run, Snapshot(r) PROVE TypeOK'
  <2>1. pc' \in [Run -> Stages] /\ item' \in [Run -> Item]
    BY <1>8, AdvanceEffect DEF Snapshot, Stages
  <2>2. snap' \in [Day -> SUBSET Item]
    BY <1>8 DEF Snapshot, TypeOK
  <2> QED
    BY <1>8, <2>1, <2>2 DEF Snapshot, TypeOK
<1>9. ASSUME NEW r \in Run, Score(r) PROVE TypeOK'
  <2>1. pc' \in [Run -> Stages] /\ item' \in [Run -> Item]
    BY <1>9, AdvanceEffect DEF Score, Stages
  <2>2. /\ tried' \in [Day -> SUBSET Item] /\ rows' \in [Day -> SUBSET Item]
        /\ got' \in [Run -> BOOLEAN]
    <3>1. tried' \in [Day -> SUBSET Item]
      BY <1>9 DEF Score, TypeOK
    <3>2. rows' \in [Day -> SUBSET Item] /\ got' \in [Run -> BOOLEAN]
      <4>1. CASE UNCHANGED <<rows, got>>
        BY <4>1 DEF TypeOK
      <4>2. CASE /\ rows' = [rows EXCEPT ![date[r]] = @ \cup {item[r]}]
                 /\ got' = [got EXCEPT ![r] = TRUE]
        BY <4>2 DEF TypeOK
      <4> QED
        BY <1>9, <4>1, <4>2 DEF Score
    <3> QED
      BY <3>1, <3>2
  <2> QED
    BY <1>9, <2>1, <2>2 DEF Score, TypeOK
<1>10. ASSUME NEW r \in Run, Mark(r) PROVE TypeOK'
  BY <1>10 DEF Mark, Goto, TypeOK, Stages
<1>11. ASSUME NEW r \in Run, Notify(r) PROVE TypeOK'
  <2>1. CASE Ends(r, "complete")
    BY <1>11, <2>1, EndsEffect DEF Notify, TypeOK
  <2>2. CASE Goto(r, "send") /\ UNCHANGED <<web, date, item, got>>
    BY <1>11, <2>2 DEF Notify, Goto, TypeOK, Stages
  <2> QED
    BY <1>11, <2>1, <2>2 DEF Notify
<1>12. ASSUME NEW r \in Run, Send(r) PROVE TypeOK'
  <2>1. CASE Ends(r, "complete") /\ UNCHANGED sent
    BY <1>12, <2>1, EndsEffect DEF Send, TypeOK
  <2>2. CASE /\ sent' = [sent EXCEPT ![date[r]][Counter(r)] = @ + 1]
             /\ Goto(r, "record") /\ UNCHANGED <<web, date, item, got>>
    <3>1. Counter(r) \in {"cron", "forced"} /\ date[r] \in Day
      BY DEF Counter, TypeOK
    <3>2. sent' \in [Day -> [cron : Nat, forced : Nat]]
      BY <2>2, <3>1 DEF TypeOK
    <3> QED
      BY <1>12, <2>2, <3>2 DEF Send, Goto, TypeOK, Stages
  <2> QED
    BY <1>12, <2>1, <2>2 DEF Send
<1>13. ASSUME NEW r \in Run, Record(r) PROVE TypeOK'
  <2>1. Ends(r, "complete")
    BY <1>13 DEF Record
  <2>2. notifyDate' \in Day
    BY <1>13 DEF Record, TypeOK
  <2> QED
    BY <1>13, <2>1, <2>2, EndsEffect DEF Record, TypeOK
<1>14. ASSUME NEW r \in Run, Raise(r) PROVE TypeOK'
  BY <1>14, EndsEffect DEF Raise, TypeOK
<1>15. CASE Midnight
  BY <1>15 DEF Midnight, TypeOK, Day, LongtermAssumption
<1>16. CASE UNCHANGED vars
  BY <1>16 DEF vars, TypeOK
<1> QED
  BY <1>1, <1>2, <1>3, <1>4, <1>5, <1>6, <1>7, <1>8, <1>9, <1>10, <1>11, <1>12,
     <1>13, <1>14, <1>15, <1>16 DEF Next, Pipeline

LEMMA InitType == Init => TypeOK
<1>1. 1 \in Day /\ 1 \in Item
  BY DEF LongtermAssumption, Day, Item
<1> QED
  BY <1>1 DEF Init, TypeOK, Stages, Never

\* Every reachable state is well typed: no run indexes beyond the portfolio.
THEOREM TypeCorrect == Spec => []TypeOK
BY InitType, StepType, PTL DEF Spec

-----------------------------------------------------------------------------
(* The run flag *)

LEMMA FlagInit == Init => FlagIsTheRun
BY DEF Init, FlagIsTheRun, InRun, Run

\* A step that moves no manual run into or out of flight keeps the flags true.
LEMMA FlagFrame ==
  ASSUME FlagIsTheRun, flag' = flag, srv' = srv,
         \A c \in Click : InRun(c)' <=> InRun(c)
  PROVE  FlagIsTheRun'
BY DEF FlagIsTheRun

\* A run moved on by Goto from one stage in flight to another is such a step.
LEMMA FlagGoto ==
  ASSUME TypeOK, FlagIsTheRun, flag' = flag, srv' = srv,
         NEW r \in Run, NEW l \in Stages \ {"idle", "over"}, InRun(r),
         Goto(r, l)
  PROVE  FlagIsTheRun'
<1>1. \A q \in Run : InRun(q)' <=> InRun(q)
  BY DEF Goto, InRun, TypeOK, Stages
<1> QED
  BY <1>1, FlagFrame DEF Run

\* The finally of _bg: the run that ends is the one its worker's flag is about.
LEMMA FlagEnds ==
  ASSUME TypeOK, FlagIsTheRun, NEW r \in Run, InRun(r),
         NEW res \in {"complete", "failed"}, Ends(r, res)
  PROVE  FlagIsTheRun'
<1>1. /\ srv' = srv /\ ~InRun(r)'
      /\ \A q \in Run \ {r} : pc'[q] = pc[q]
  BY EndsEffect
<1>2. \A q \in Run \ {r} : InRun(q)' <=> InRun(q)
  BY <1>1 DEF InRun
<1>3. CASE r \in Click
  <2>1. flag' = [flag EXCEPT ![srv[r]] = res] /\ srv[r] \in Worker
    BY <1>3 DEF Ends, TypeOK
  <2>2. \A c \in Click : srv[c] = srv[r] => ~InRun(c)'
    BY <1>1, <1>2, <1>3 DEF FlagIsTheRun, Run
  <2>3. \A w \in Worker \ {srv[r]} : flag'[w] = flag[w]
    BY <2>1 DEF TypeOK
  <2>4. flag'[srv[r]] # "running"
    BY <2>1 DEF TypeOK
  <2> QED
    BY <1>1, <1>2, <2>2, <2>3, <2>4 DEF FlagIsTheRun, Run
<1>4. CASE r \notin Click
  <2>1. flag' = flag
    BY <1>4 DEF Ends
  <2>2. \A c \in Click : InRun(c)' <=> InRun(c)
    BY <1>2, <1>4 DEF Run
  <2> QED
    BY <1>1, <2>1, <2>2, FlagFrame
<1> QED
  BY <1>3, <1>4

LEMMA FlagStep == TypeOK /\ FlagIsTheRun /\ [Next]_vars => FlagIsTheRun'
<1> SUFFICES ASSUME TypeOK, FlagIsTheRun, [Next]_vars PROVE FlagIsTheRun'
  OBVIOUS
<1> USE DEF store, web, run
<1>1. ASSUME NEW w \in Worker, Fire(w) PROVE FlagIsTheRun'
  <2>1. \A c \in Click : InRun(c)' <=> InRun(c)
    BY <1>1 DEF Fire, Goto, InRun, TypeOK, Run, LongtermAssumption
  <2> QED
    BY <1>1, <2>1, FlagFrame DEF Fire
<1>2. ASSUME NEW w \in Worker, Restart(w) PROVE FlagIsTheRun'
  <2> DEFINE R == {r \in Run : Home(r) = w /\ InRun(r)}
  <2>1. Gone(R) /\ flag' = [flag EXCEPT ![w] = "none"] /\ srv' = srv
    BY <1>2 DEF Restart
  <2>2. /\ \A r \in R : ~InRun(r)'
        /\ \A r \in Run \ R : pc'[r] = pc[r]
    BY <2>1, GoneEffect
  <2>3. \A c \in Click : srv[c] = w => ~InRun(c)'
    BY <2>2 DEF InRun, Run
  <2>4. \A c \in Click : srv[c] # w => (InRun(c)' <=> InRun(c))
    BY <2>2 DEF InRun, Run
  <2>5. \A v \in Worker : flag'[v] = IF v = w THEN "none" ELSE flag[v]
    BY <2>1 DEF TypeOK
  <2> QED
    BY <2>1, <2>3, <2>4, <2>5 DEF FlagIsTheRun
<1>3. ASSUME NEW c \in Click, RunNow(c) PROVE FlagIsTheRun'
  <2>1. /\ srv' = srv /\ flag[srv[c]] # "running"
        /\ flag' = [flag EXCEPT ![srv[c]] = "running"]
        /\ pc' = [pc EXCEPT ![c] = "begin"]
    BY <1>3 DEF RunNow, Goto
  <2>2. InRun(c)' /\ \A d \in Click \ {c} : InRun(d)' <=> InRun(d)
    BY <2>1 DEF InRun, TypeOK, Run
  <2>3. \A d \in Click : srv[d] = srv[c] => ~InRun(d)
    BY <2>1 DEF FlagIsTheRun, TypeOK
  <2>4. \A w \in Worker : flag'[w] = IF w = srv[c] THEN "running" ELSE flag[w]
    BY <2>1 DEF TypeOK
  <2> QED
    BY <2>1, <2>2, <2>3, <2>4 DEF FlagIsTheRun
<1>4. ASSUME NEW c \in Click, Poll(c) PROVE FlagIsTheRun'
  BY <1>4, FlagFrame DEF Poll, InRun
<1>5. ASSUME NEW r \in Run, Begin(r) PROVE FlagIsTheRun'
  BY <1>5, FlagGoto DEF Begin, InRun, Stages
<1>6. ASSUME NEW r \in Run, Check(r) PROVE FlagIsTheRun'
  BY <1>6, FlagGoto, FlagEnds DEF Check, InRun, Stages
<1>7. ASSUME NEW r \in Run, Fetch(r) PROVE FlagIsTheRun'
  BY <1>7, FlagGoto, FlagEnds DEF Fetch, InRun, Stages
<1>8. ASSUME NEW r \in Run, Snapshot(r) PROVE FlagIsTheRun'
  BY <1>8, FlagGoto DEF Snapshot, Advance, InRun, Stages
<1>9. ASSUME NEW r \in Run, Score(r) PROVE FlagIsTheRun'
  BY <1>9, FlagGoto DEF Score, Advance, InRun, Stages
<1>10. ASSUME NEW r \in Run, Mark(r) PROVE FlagIsTheRun'
  BY <1>10, FlagGoto DEF Mark, InRun, Stages
<1>11. ASSUME NEW r \in Run, Notify(r) PROVE FlagIsTheRun'
  BY <1>11, FlagGoto, FlagEnds DEF Notify, InRun, Stages
<1>12. ASSUME NEW r \in Run, Send(r) PROVE FlagIsTheRun'
  BY <1>12, FlagGoto, FlagEnds DEF Send, InRun, Stages
<1>13. ASSUME NEW r \in Run, Record(r) PROVE FlagIsTheRun'
  BY <1>13, FlagEnds DEF Record, InRun
<1>14. ASSUME NEW r \in Run, Raise(r) PROVE FlagIsTheRun'
  BY <1>14, FlagEnds DEF Raise
<1>15. CASE Midnight
  BY <1>15, FlagFrame DEF Midnight, InRun
<1>16. CASE UNCHANGED vars
  BY <1>16, FlagFrame DEF vars, InRun
<1> QED
  BY <1>1, <1>2, <1>3, <1>4, <1>5, <1>6, <1>7, <1>8, <1>9, <1>10, <1>11, <1>12,
     <1>13, <1>14, <1>15, <1>16 DEF Next, Pipeline

\* main.py:1111: in every worker the flag is set exactly while the one manual
\* run it allows is in flight, whatever fails or is restarted.
THEOREM FlagHolds == Spec => []FlagIsTheRun
BY TypeCorrect, FlagInit, FlagStep, PTL DEF Spec

-----------------------------------------------------------------------------
(* The tables and the dates *)

DaysTrue == MarkedDayIsDone /\ NotifiedDayWasSent /\ VerdictsHaveSnapshot
PipelineInv == StagesKept /\ DaysTrue

\* Tables and messages are only ever added to.
GrowTables == \A d \in Day : /\ snap[d] \subseteq snap'[d] /\ snap'[d] \subseteq Item
                            /\ tried[d] \subseteq tried'[d] /\ tried'[d] \subseteq Item
                            /\ rows[d] \subseteq rows'[d]
GrowSent == \A d \in Day : sent[d].cron + sent[d].forced > 0
                             => sent'[d].cron + sent'[d].forced > 0
Grow == GrowTables /\ GrowSent

Same(q) == /\ pc'[q] = pc[q] /\ date'[q] = date[q]
           /\ item'[q] = item[q] /\ got'[q] = got[q]

Busy(r) == InRun(r) /\ pc[r] # "begin"

LEMMA GrowAt ==
  ASSUME Grow, NEW d \in Day
  PROVE  /\ snap[d] \subseteq snap'[d] /\ snap'[d] \subseteq Item
         /\ tried[d] \subseteq tried'[d] /\ tried'[d] \subseteq Item
         /\ rows[d] \subseteq rows'[d]
BY DEF Grow, GrowTables

LEMMA SentAt ==
  ASSUME Grow, NEW d \in Day, sent[d].cron + sent[d].forced > 0
  PROVE  sent'[d].cron + sent'[d].forced > 0
BY DEF Grow, GrowSent

\* What is complete stays complete.
LEMMA Complete ==
  ASSUME Grow, NEW d \in Day
  PROVE  /\ snap[d] = Item => snap'[d] = Item
         /\ tried[d] = Item => tried'[d] = Item
         /\ rows[d] # {} => rows'[d] # {}
BY GrowAt

LEMMA Indices == \A i \in Item : i \in Nat /\ i <= Holdings
BY DEF Item, LongtermAssumption

\* A run that does not move keeps its invariant when the tables grow.
LEMMA StageFrame ==
  ASSUME TypeOK, Grow, NEW q \in Run, Same(q), StageInv(q)
  PROVE  StageInv(q)'
<1>1. date[q] \in Day /\ item[q] \in Item
  BY DEF TypeOK
<1>2. /\ snap[date[q]] = Item => snap'[date[q]] = Item
      /\ tried[date[q]] = Item => tried'[date[q]] = Item
      /\ rows[date[q]] # {} => rows'[date[q]] # {}
  BY <1>1, Complete
<1>3. /\ snap[date[q]] \subseteq snap'[date[q]]
      /\ tried[date[q]] \subseteq tried'[date[q]]
  BY <1>1, GrowAt
<1>4. Delivered(date[q]) => Delivered(date[q])'
  <2>1. sent[date[q]].cron + sent[date[q]].forced > 0
          => sent'[date[q]].cron + sent'[date[q]].forced > 0
    BY <1>1, SentAt
  <2>2. date'[q] = date[q]
    BY DEF Same
  <2> QED
    BY <2>1, <2>2 DEF Delivered
<1>5. pc'[q] = pc[q] /\ date'[q] = date[q] /\ item'[q] = item[q] /\ got'[q] = got[q]
  BY DEF Same
<1> QED
  BY <1>2, <1>3, <1>4, <1>5 DEF StageInv

\* So only the run that moves has to be looked at.
LEMMA StagesFrame ==
  ASSUME TypeOK, Grow, StagesKept, NEW R \in SUBSET Run,
         \A q \in Run \ R : Same(q) \/ ~Busy(q)',
         \A r \in R : Busy(r)' => StageInv(r)'
  PROVE  StagesKept'
<1> SUFFICES ASSUME NEW q \in Run, Busy(q)' PROVE StageInv(q)'
  BY DEF StagesKept, Busy
<1>1. CASE q \in R
  BY <1>1
<1>2. CASE q \notin R
  <2>1. Same(q)
    BY <1>2
  <2>2. StageInv(q)
    BY <2>1 DEF StagesKept, Busy, Same, InRun
  <2> QED
    BY <2>1, <2>2, StageFrame
<1> QED
  BY <1>1, <1>2

LEMMA OneMoves ==
  ASSUME TypeOK, Grow, StagesKept, NEW r \in Run,
         \A q \in Run \ {r} : Same(q),
         Busy(r)' => StageInv(r)'
  PROVE  StagesKept'
<1>1. {r} \in SUBSET Run /\ \A q \in {r} : Busy(q)' => StageInv(q)'
  OBVIOUS
<1> QED
  BY <1>1, StagesFrame

\* Dates and messages that stay keep what the days say, when the tables grow.
LEMMA DaysFrame ==
  ASSUME TypeOK, Grow, DaysTrue, runDate' = runDate, notifyDate' = notifyDate,
         rows' = rows, sent' = sent
  PROVE  DaysTrue'
<1>0. runDate # Never => runDate \in Day
  BY DEF TypeOK
<1>1. MarkedDayIsDone'
  BY <1>0, Complete DEF DaysTrue, MarkedDayIsDone
<1>2. NotifiedDayWasSent'
  BY Complete DEF DaysTrue, NotifiedDayWasSent, Delivered
<1>3. VerdictsHaveSnapshot'
  BY Complete DEF DaysTrue, VerdictsHaveSnapshot
<1> QED
  BY <1>1, <1>2, <1>3 DEF DaysTrue

LEMMA GrowSame ==
  ASSUME TypeOK, snap' = snap, tried' = tried, rows' = rows, sent' = sent
  PROVE  Grow
BY DEF TypeOK, Grow, GrowTables, GrowSent, Delivered

\* A run that ends touches no table.
LEMMA StepEnds ==
  ASSUME TypeOK, PipelineInv, NEW r \in Run, NEW res \in {"complete", "failed"},
         Ends(r, res), UNCHANGED <<snap, tried, rows, sent, runDate, notifyDate>>
  PROVE  PipelineInv'
<1>1. Grow
  BY GrowSame
<1>2. ~Busy(r)' /\ \A q \in Run \ {r} : Same(q)
  BY EndsEffect DEF Busy, Same
<1> QED
  BY <1>1, <1>2, OneMoves, DaysFrame DEF PipelineInv

\* A run that only goes on to the stage l touches no table either.
LEMMA StepGoto ==
  ASSUME TypeOK, PipelineInv, NEW r \in Run, NEW l \in Stages, Goto(r, l),
         UNCHANGED <<snap, tried, rows, sent, runDate, notifyDate, date, item, got>>,
         Busy(r)' => StageInv(r)'
  PROVE  PipelineInv'
<1>1. Grow
  BY GrowSame
<1>2. \A q \in Run \ {r} : Same(q)
  BY DEF Goto, Same, TypeOK
<1> QED
  BY <1>1, <1>2, OneMoves, DaysFrame DEF PipelineInv

\* A step that leaves the runs and the tables alone.
LEMMA StepAside ==
  ASSUME TypeOK, PipelineInv,
         UNCHANGED <<snap, tried, rows, sent, runDate, notifyDate, pc, date, item, got>>
  PROVE  PipelineInv'
<1>1. Grow /\ \A q \in Run : Same(q)
  BY GrowSame DEF Same
<1> QED
  BY <1>1, StagesFrame, DaysFrame DEF PipelineInv

-----------------------------------------------------------------------------
LEMMA StepBegin ==
  ASSUME TypeOK, PipelineInv, NEW r \in Run, Begin(r)
  PROVE  PipelineInv'
<1>1. /\ pc' = [pc EXCEPT ![r] = "check"]
      /\ date' = [date EXCEPT ![r] = today]
      /\ item' = [item EXCEPT ![r] = 1] /\ got' = [got EXCEPT ![r] = FALSE]
      /\ UNCHANGED <<snap, tried, rows, sent, runDate, notifyDate>>
  BY DEF Begin, Goto, store
<1>2. Grow
  BY <1>1, GrowSame
<1>3. \A q \in Run \ {r} : Same(q)
  BY <1>1 DEF Same, TypeOK
<1>4. StageInv(r)'
  <2>1. pc'[r] = "check" /\ item'[r] = 1 /\ got'[r] = FALSE
    BY <1>1 DEF TypeOK
  <2> QED
    BY <2>1 DEF StageInv, AfterSnapshot, AfterScore
<1> QED
  BY <1>1, <1>2, <1>3, <1>4, OneMoves, DaysFrame DEF PipelineInv

LEMMA StepSnapshot ==
  ASSUME TypeOK, PipelineInv, NEW r \in Run, Snapshot(r)
  PROVE  PipelineInv'
<1>1. /\ pc[r] = "snapshot" /\ StageInv(r)
      /\ date[r] \in Day /\ item[r] \in Item
  BY DEF Snapshot, PipelineInv, StagesKept, InRun, TypeOK
<1>2. /\ snap' = [snap EXCEPT ![date[r]] = @ \cup {item[r]}]
      /\ Advance(r, "snapshot", "score")
      /\ UNCHANGED <<runDate, notifyDate, tried, rows, sent, date, got>>
  BY DEF Snapshot
<1>3. \A d \in Day : snap'[d] = snap[d] \cup {i \in {item[r]} : d = date[r]}
  BY <1>2 DEF TypeOK
<1>4. Grow
  BY <1>1, <1>2, <1>3 DEF Grow, GrowTables, GrowSent, TypeOK, Delivered
<1>5. /\ item[r] = Holdings => pc'[r] = "score" /\ item'[r] = 1
      /\ item[r] # Holdings => pc'[r] = "snapshot" /\ item'[r] = item[r] + 1
      /\ \A q \in Run \ {r} : Same(q)
  BY <1>2, AdvanceEffect DEF Stages, Same
<1>6. /\ \A i \in Item : i <= item[r] => i \in snap'[date[r]]
      /\ ~got[r]
  BY <1>1, <1>3 DEF StageInv, Item
<1>7. CASE item[r] = Holdings
  <2>1. snap'[date[r]] = Item
    <3>1. \A i \in Item : i \in snap'[date[r]]
      BY <1>6, <1>7, Indices
    <3>2. snap'[date[r]] \subseteq Item
      BY <1>1, <1>4, GrowAt
    <3> QED
      BY <3>1, <3>2
  <2> QED
    <3>1. StageInv(r)'
      BY <1>2, <1>5, <1>6, <1>7, <2>1 DEF StageInv, AfterScore, Item
    <3> QED
      BY <1>2, <1>4, <1>5, <3>1, OneMoves, DaysFrame DEF PipelineInv
<1>8. CASE item[r] # Holdings
  <2>1. StageInv(r)'
    BY <1>1, <1>2, <1>5, <1>6, <1>8 DEF StageInv, AfterSnapshot, AfterScore, Item
  <2> QED
    BY <1>2, <1>4, <1>5, <2>1, OneMoves, DaysFrame DEF PipelineInv
<1> QED
  BY <1>7, <1>8

LEMMA StepScore ==
  ASSUME TypeOK, PipelineInv, NEW r \in Run, Score(r)
  PROVE  PipelineInv'
<1>1. /\ pc[r] = "score" /\ StageInv(r)
      /\ date[r] \in Day /\ item[r] \in Item
  BY DEF Score, PipelineInv, StagesKept, InRun, TypeOK
<1>2. /\ tried' = [tried EXCEPT ![date[r]] = @ \cup {item[r]}]
      /\ Advance(r, "score", "mark")
      /\ UNCHANGED <<runDate, notifyDate, snap, sent, date>>
  BY DEF Score
<1>3. \/ rows' = rows /\ got' = got
      \/ /\ rows' = [rows EXCEPT ![date[r]] = @ \cup {item[r]}]
         /\ got' = [got EXCEPT ![r] = TRUE]
  BY DEF Score
<1>4. \A d \in Day : /\ tried'[d] = tried[d] \cup {i \in {item[r]} : d = date[r]}
                     /\ rows[d] \subseteq rows'[d]
                     /\ d # date[r] => rows'[d] = rows[d]
  BY <1>2, <1>3 DEF TypeOK
<1>5. Grow
  BY <1>1, <1>2, <1>4 DEF Grow, GrowTables, GrowSent, TypeOK, Delivered
<1>6. /\ item[r] = Holdings => pc'[r] = "mark" /\ item'[r] = 1
      /\ item[r] # Holdings => pc'[r] = "score" /\ item'[r] = item[r] + 1
      /\ \A q \in Run \ {r} : pc'[q] = pc[q] /\ item'[q] = item[q]
  BY <1>2, AdvanceEffect DEF Stages
<1>7. \A q \in Run \ {r} : Same(q)
  BY <1>2, <1>3, <1>6 DEF Same, TypeOK
<1>8. /\ \A i \in Item : i <= item[r] => i \in tried'[date[r]]
      /\ snap'[date[r]] = Item
  BY <1>1, <1>2, <1>4 DEF StageInv, Item, AfterSnapshot
<1>9. got'[r] => rows'[date[r]] # {}
  <2>1. CASE rows' = rows /\ got' = got
    BY <1>1, <2>1 DEF StageInv
  <2>2. CASE /\ rows' = [rows EXCEPT ![date[r]] = @ \cup {item[r]}]
             /\ got' = [got EXCEPT ![r] = TRUE]
    BY <1>1, <2>2 DEF TypeOK
  <2> QED
    BY <1>3, <2>1, <2>2
<1>10. StageInv(r)'
  <2>1. CASE item[r] = Holdings
    <3>1. tried'[date[r]] = Item
      <4>1. \A i \in Item : i \in tried'[date[r]]
        BY <1>8, <2>1, Indices
      <4>2. tried'[date[r]] \subseteq Item
        BY <1>1, <1>5, GrowAt
      <4> QED
        BY <4>1, <4>2
    <3> QED
      BY <1>2, <1>6, <1>8, <1>9, <2>1, <3>1 DEF StageInv
  <2>2. CASE item[r] # Holdings
    BY <1>1, <1>2, <1>6, <1>8, <1>9, <2>2 DEF StageInv, AfterScore, Item
  <2> QED
    BY <2>1, <2>2
<1>11. StagesKept'
  BY <1>5, <1>7, <1>10, OneMoves DEF PipelineInv
<1>12. MarkedDayIsDone'
  <2>1. runDate # Never => runDate \in Day
    BY DEF TypeOK
  <2> QED
    BY <1>2, <1>5, <2>1, Complete DEF PipelineInv, DaysTrue, MarkedDayIsDone
<1>13. NotifiedDayWasSent'
  BY <1>2, <1>5, Complete DEF PipelineInv, DaysTrue, NotifiedDayWasSent, Delivered
<1>14. VerdictsHaveSnapshot'
  BY <1>1, <1>2, <1>4, <1>8 DEF PipelineInv, DaysTrue, VerdictsHaveSnapshot
<1> QED
  BY <1>11, <1>12, <1>13, <1>14 DEF PipelineInv, DaysTrue

LEMMA StepMark ==
  ASSUME TypeOK, PipelineInv, NEW r \in Run, Mark(r)
  PROVE  PipelineInv'
<1>1. pc[r] = "mark" /\ StageInv(r) /\ date[r] \in Day
  BY DEF Mark, PipelineInv, StagesKept, InRun, TypeOK
<1>2. /\ pc' = [pc EXCEPT ![r] = "notify"] /\ runDate' = date[r]
      /\ UNCHANGED <<notifyDate, snap, tried, rows, sent, date, item, got>>
  BY DEF Mark, Goto
<1>3. Grow /\ \A q \in Run \ {r} : Same(q)
  BY <1>2, GrowSame DEF Same, TypeOK
<1>4. StageInv(r)'
  <2>1. pc'[r] = "notify"
    BY <1>2 DEF TypeOK
  <2> QED
    BY <1>1, <1>2, <2>1 DEF StageInv, AfterSnapshot, AfterScore
<1>5. StagesKept'
  BY <1>3, <1>4, OneMoves DEF PipelineInv
<1>6. MarkedDayIsDone'
  BY <1>1, <1>2 DEF StageInv, MarkedDayIsDone, AfterSnapshot, AfterScore
<1>7. NotifiedDayWasSent' /\ VerdictsHaveSnapshot'
  BY <1>2 DEF PipelineInv, DaysTrue, NotifiedDayWasSent, VerdictsHaveSnapshot, Delivered
<1> QED
  BY <1>5, <1>6, <1>7 DEF PipelineInv, DaysTrue

\* The first disjunct of Send: the message is delivered.
LEMMA StepDelivers ==
  ASSUME TypeOK, PipelineInv, NEW r \in Run, Send(r), Goto(r, "record"),
         sent' = [sent EXCEPT ![date[r]][Counter(r)] = @ + 1],
         UNCHANGED <<date, item, got>>
  PROVE  PipelineInv'
<1>1. pc[r] = "send" /\ StageInv(r) /\ date[r] \in Day
  BY DEF Send, PipelineInv, StagesKept, InRun, TypeOK
<1>2. /\ pc' = [pc EXCEPT ![r] = "record"]
      /\ UNCHANGED <<runDate, notifyDate, snap, tried, rows>>
  BY DEF Send, Goto, store
<1>3. /\ Delivered(date[r])'
      /\ \A d \in Day : Delivered(d) => Delivered(d)'
      /\ \A d \in Day \ {date[r]} : Delivered(d)' => Delivered(d)
  <2>1. \A d \in Day \ {date[r]} : sent'[d] = sent[d]
    BY <1>1 DEF TypeOK
  <2>2. /\ sent[date[r]].cron \in Nat /\ sent[date[r]].forced \in Nat
        /\ Counter(r) \in {"cron", "forced"}
    BY <1>1 DEF TypeOK, Counter
  <2>3. sent'[date[r]] = [sent[date[r]] EXCEPT ![Counter(r)] = @ + 1]
    BY <1>1 DEF TypeOK
  <2>4. sent[date[r]] \in [cron : Nat, forced : Nat]
    BY <1>1 DEF TypeOK
  <2>5. sent'[date[r]].cron + sent'[date[r]].forced > 0
    <3>1. CASE Counter(r) = "cron"
      BY <2>3, <2>4, <3>1
    <3>2. CASE Counter(r) = "forced"
      BY <2>3, <2>4, <3>2
    <3> QED
      BY <2>2, <3>1, <3>2
  <2> QED
    BY <1>2, <2>1, <2>5 DEF Delivered
<1>4. Grow
  BY <1>2, <1>3 DEF Grow, GrowTables, GrowSent, TypeOK
<1>5. \A q \in Run \ {r} : Same(q)
  BY <1>2 DEF Same, TypeOK
<1>6. StageInv(r)'
  <2>1. pc'[r] = "record"
    BY <1>2 DEF TypeOK
  <2> QED
    BY <1>1, <1>2, <1>3, <2>1 DEF StageInv, AfterSnapshot, AfterScore
<1>7. StagesKept'
  BY <1>4, <1>5, <1>6, OneMoves DEF PipelineInv
<1>8. MarkedDayIsDone' /\ VerdictsHaveSnapshot'
  BY <1>2 DEF PipelineInv, DaysTrue, MarkedDayIsDone, VerdictsHaveSnapshot
<1>9. NotifiedDayWasSent'
  <2>1. rows[date[r]] # {} /\ tried[date[r]] = Item
    BY <1>1 DEF StageInv, AfterScore
  <2>2. notifyDate # Never => notifyDate \in Day
    BY DEF TypeOK
  <2> QED
    BY <1>2, <1>3, <2>1, <2>2 DEF PipelineInv, DaysTrue, NotifiedDayWasSent
<1> QED
  BY <1>7, <1>8, <1>9 DEF PipelineInv, DaysTrue

LEMMA StepRecord ==
  ASSUME TypeOK, PipelineInv, NEW r \in Run, Record(r)
  PROVE  PipelineInv'
<1>1. pc[r] = "record" /\ StageInv(r) /\ date[r] \in Day
  BY DEF Record, PipelineInv, StagesKept, InRun, TypeOK
<1>2. /\ Ends(r, "complete") /\ notifyDate' = date[r]
      /\ UNCHANGED <<runDate, snap, tried, rows, sent>>
  BY DEF Record
<1>3. Grow /\ ~Busy(r)' /\ \A q \in Run \ {r} : Same(q)
  BY <1>2, GrowSame, EndsEffect DEF Busy, Same
<1>4. StagesKept'
  BY <1>3, OneMoves DEF PipelineInv
<1>5. MarkedDayIsDone' /\ VerdictsHaveSnapshot'
  BY <1>2 DEF PipelineInv, DaysTrue, MarkedDayIsDone, VerdictsHaveSnapshot
<1>6. NotifiedDayWasSent'
  BY <1>1, <1>2 DEF PipelineInv, DaysTrue, NotifiedDayWasSent, StageInv, Delivered
<1> QED
  BY <1>4, <1>5, <1>6 DEF PipelineInv, DaysTrue

LEMMA PipelineStep == TypeOK /\ PipelineInv /\ [Next]_vars => PipelineInv'
<1> SUFFICES ASSUME TypeOK, PipelineInv, [Next]_vars PROVE PipelineInv'
  OBVIOUS
<1> USE DEF store, web, run
<1>0. \A r \in Run : Busy(r) => StageInv(r)
  BY DEF PipelineInv, StagesKept, Busy
<1>1. ASSUME NEW w \in Worker, Fire(w) PROVE PipelineInv'
  <2>1. w \in Run /\ ~Busy(w)'
    BY <1>1 DEF Fire, Goto, Busy, TypeOK, Run
  <2> QED
    BY <1>1, <2>1, StepGoto DEF Fire, Stages
<1>2. ASSUME NEW w \in Worker, Restart(w) PROVE PipelineInv'
  <2> DEFINE R == {r \in Run : Home(r) = w /\ InRun(r)}
  <2>1. Gone(R) /\ UNCHANGED <<snap, tried, rows, sent, runDate, notifyDate>>
    BY <1>2 DEF Restart
  <2>2. Grow
    BY <2>1, GrowSame
  <2>3. (\A r \in R : ~Busy(r)') /\ (\A q \in Run \ R : Same(q))
    BY <2>1, GoneEffect DEF Busy, Same
  <2> HIDE DEF R
  <2>4. R \in SUBSET Run
    BY DEF R
  <2> QED
    BY <2>1, <2>2, <2>3, <2>4, StagesFrame, DaysFrame DEF PipelineInv
<1>3. ASSUME NEW c \in Click, RunNow(c) PROVE PipelineInv'
  <2>1. c \in Run /\ ~Busy(c)'
    BY <1>3 DEF RunNow, Goto, Busy, TypeOK, Run
  <2> QED
    BY <1>3, <2>1, StepGoto DEF RunNow, Stages
<1>4. ASSUME NEW c \in Click, Poll(c) PROVE PipelineInv'
  BY <1>4, StepAside DEF Poll
<1>5. ASSUME NEW r \in Run, Begin(r) PROVE PipelineInv'
  BY <1>5, StepBegin
<1>6. ASSUME NEW r \in Run, Check(r) PROVE PipelineInv'
  <2>1. CASE Ends(r, "complete")
    BY <1>6, <2>1, StepEnds DEF Check
  <2>2. CASE Goto(r, "fetch") /\ UNCHANGED <<web, date, item, got>>
    <3>1. StageInv(r)'
      BY <1>0, <1>6, <2>2 DEF Check, Goto, StageInv, Busy, InRun, TypeOK,
        AfterSnapshot, AfterScore
    <3> QED
      BY <1>6, <2>2, <3>1, StepGoto DEF Check, Stages
  <2> QED
    BY <1>6, <2>1, <2>2 DEF Check
<1>7. ASSUME NEW r \in Run, Fetch(r) PROVE PipelineInv'
  <2>1. CASE Ends(r, "failed")
    BY <1>7, <2>1, StepEnds DEF Fetch
  <2>2. CASE Goto(r, "snapshot") /\ UNCHANGED <<web, date, item, got>>
    <3>1. pc'[r] = "snapshot" /\ item'[r] = 1 /\ ~got'[r]
      BY <1>0, <1>7, <2>2 DEF Fetch, Goto, StageInv, Busy, InRun, TypeOK
    <3>2. StageInv(r)'
      BY <3>1 DEF StageInv, AfterSnapshot, AfterScore, Item
    <3> QED
      BY <1>7, <2>2, <3>2, StepGoto DEF Fetch, Stages
  <2> QED
    BY <1>7, <2>1, <2>2 DEF Fetch
<1>8. ASSUME NEW r \in Run, Snapshot(r) PROVE PipelineInv'
  BY <1>8, StepSnapshot
<1>9. ASSUME NEW r \in Run, Score(r) PROVE PipelineInv'
  BY <1>9, StepScore
<1>10. ASSUME NEW r \in Run, Mark(r) PROVE PipelineInv'
  BY <1>10, StepMark
<1>11. ASSUME NEW r \in Run, Notify(r) PROVE PipelineInv'
  <2>1. CASE Ends(r, "complete")
    BY <1>11, <2>1, StepEnds DEF Notify
  <2>2. CASE got[r] /\ Goto(r, "send") /\ UNCHANGED <<web, date, item, got>>
    <3>1. StageInv(r)'
      BY <1>0, <1>11, <2>2 DEF Notify, Goto, StageInv, Busy, InRun, TypeOK,
        AfterSnapshot, AfterScore
    <3> QED
      BY <1>11, <2>2, <3>1, StepGoto DEF Notify, Stages
  <2> QED
    BY <1>11, <2>1, <2>2 DEF Notify
<1>12. ASSUME NEW r \in Run, Send(r) PROVE PipelineInv'
  <2>1. CASE Ends(r, "complete") /\ UNCHANGED sent
    BY <1>12, <2>1, StepEnds DEF Send
  <2>2. CASE /\ sent' = [sent EXCEPT ![date[r]][Counter(r)] = @ + 1]
             /\ Goto(r, "record") /\ UNCHANGED <<web, date, item, got>>
    BY <1>12, <2>2, StepDelivers
  <2> QED
    BY <1>12, <2>1, <2>2 DEF Send
<1>13. ASSUME NEW r \in Run, Record(r) PROVE PipelineInv'
  BY <1>13, StepRecord
<1>14. ASSUME NEW r \in Run, Raise(r) PROVE PipelineInv'
  BY <1>14, StepEnds DEF Raise
<1>15. CASE Midnight
  BY <1>15, StepAside DEF Midnight
<1>16. CASE UNCHANGED vars
  BY <1>16, StepAside DEF vars
<1> QED
  BY <1>1, <1>2, <1>3, <1>4, <1>5, <1>6, <1>7, <1>8, <1>9, <1>10, <1>11, <1>12,
     <1>13, <1>14, <1>15, <1>16 DEF Next, Pipeline

LEMMA PipelineInit == Init => PipelineInv
<1> SUFFICES ASSUME Init PROVE PipelineInv
  OBVIOUS
<1>1. StagesKept
  BY DEF Init, StagesKept, InRun
<1>2. \A d \in Day : rows[d] = {} /\ ~Delivered(d)
  BY DEF Init, Delivered
<1>3. DaysTrue
  BY <1>2 DEF Init, DaysTrue, MarkedDayIsDone, NotifiedDayWasSent, VerdictsHaveSnapshot
<1> QED
  BY <1>1, <1>3 DEF PipelineInv

\* Every run in flight has done what the stages before its own are for.
THEOREM PipelineHolds == Spec => []PipelineInv
BY TypeCorrect, PipelineInit, PipelineStep, PTL DEF Spec

\* A run that is past its snapshot loop has the whole snapshot, past its scoring
\* loop every evaluation, and past its send a message, whatever other runs do.
THEOREM StagesAreKept == Spec => []StagesKept
<1>1. PipelineInv => StagesKept
  BY DEF PipelineInv
<1> QED
  BY PipelineHolds, <1>1, PTL

\* scheduler.py:16: the run date that makes the cron skip a day names a day of
\* which every holding was snapshotted and evaluated, for any number of workers.
THEOREM MarkedDaysAreDone == Spec => []MarkedDayIsDone
<1>1. PipelineInv => MarkedDayIsDone
  BY DEF PipelineInv, DaysTrue
<1> QED
  BY PipelineHolds, <1>1, PTL

\* The notify date names a day of which a message was delivered, and a message
\* is about verdicts that are in the table.
THEOREM NotifiedDaysWereSent == Spec => []NotifiedDayWasSent
<1>1. PipelineInv => NotifiedDayWasSent
  BY DEF PipelineInv, DaysTrue
<1> QED
  BY PipelineHolds, <1>1, PTL

\* No verdict of a run is in the table without the day's whole snapshot.
THEOREM VerdictsAreJoined == Spec => []VerdictsHaveSnapshot
<1>1. PipelineInv => VerdictsHaveSnapshot
  BY DEF PipelineInv, DaysTrue
<1> QED
  BY PipelineHolds, <1>1, PTL

-----------------------------------------------------------------------------
(* The fragment that polls *)

\* One process: every request is answered from the same flag.
OneWorker == \A v, w \in Worker : v = w

\* What a browser shows changes with its own click or poll; a run that is in flight was
\* there before, or is one that this click starts.
LEMMA ShownBy ==
  ASSUME TypeOK, [Next]_vars, NEW c \in Click
  PROVE  \/ RunNow(c)
         \/ (ui'[c] = ui[c] \/ Poll(c)) /\ (InRun(c)' => InRun(c))
<1> USE DEF store, web, run
<1>1. ASSUME NEW w \in Worker, Fire(w) PROVE ui'[c] = ui[c] /\ (InRun(c)' => InRun(c))
  BY <1>1 DEF Fire, Goto, InRun, TypeOK, Run, LongtermAssumption
<1>2. ASSUME NEW w \in Worker, Restart(w) PROVE ui'[c] = ui[c] /\ (InRun(c)' => InRun(c))
  <2> DEFINE R == {r \in Run : Home(r) = w /\ InRun(r)}
  <2>1. Gone(R) /\ ui' = ui
    BY <1>2 DEF Restart
  <2>2. (\A r \in R : ~InRun(r)') /\ (\A r \in Run \ R : pc'[r] = pc[r])
    BY <2>1, GoneEffect
  <2> QED
    BY <2>1, <2>2 DEF InRun, Run
<1>3. ASSUME NEW d \in Click, RunNow(d), d # c PROVE ui'[c] = ui[c] /\ (InRun(c)' => InRun(c))
  BY <1>3 DEF RunNow, Goto, InRun, TypeOK, Run
<1>4. ASSUME NEW d \in Click, Poll(d)
      PROVE  (ui'[c] = ui[c] \/ Poll(c)) /\ (InRun(c)' => InRun(c))
  <2>1. pc' = pc
    BY <1>4 DEF Poll
  <2>2. d # c => ui'[c] = ui[c]
    BY <1>4 DEF Poll, TypeOK
  <2> QED
    BY <1>4, <2>1, <2>2 DEF InRun
<1>5. ASSUME NEW r \in Run, Pipeline(r) \/ Raise(r)
      PROVE  ui'[c] = ui[c] /\ (InRun(c)' => InRun(c))
  <2>1. InRun(r)
    BY <1>5 DEF Pipeline, Begin, Check, Fetch, Snapshot, Score, Mark, Notify, Send, Record,
                Raise, InRun
  <2>2. (\E res \in {"complete", "failed"} : Ends(r, res)) \/ (UNCHANGED web /\ \E l : Goto(r, l))
    BY <1>5, Zenon DEF Pipeline, Begin, Check, Fetch, Snapshot, Score, Mark, Notify, Send, Record,
                Raise, Advance
  <2>3. ASSUME NEW res \in {"complete", "failed"}, Ends(r, res)
        PROVE  ui'[c] = ui[c] /\ (InRun(c)' => InRun(c))
    BY <2>3, EndsEffect DEF InRun, Run
  <2>4. ASSUME UNCHANGED web, NEW l, Goto(r, l)
        PROVE  ui'[c] = ui[c] /\ (InRun(c)' => InRun(c))
    BY <2>1, <2>4 DEF Goto, InRun, TypeOK, Run
  <2> QED
    BY <2>2, <2>3, <2>4
<1>6. CASE Midnight \/ UNCHANGED vars
  BY <1>6 DEF Midnight, vars, InRun
<1> QED
  BY <1>1, <1>2, <1>3, <1>4, <1>5, <1>6 DEF Next

\* main.py:1132: in one process, a browser whose run is in flight keeps polling, whatever
\* other clicks, crashes and restarts do.  (Another process would answer its poll from a flag
\* of its own.)
THEOREM PollingIsKept ==
  ASSUME OneWorker
  PROVE  Spec => []PollingUntilDone
<1>1. Init => PollingUntilDone
  BY DEF Init, PollingUntilDone, InRun, Run
<1>2. TypeOK /\ FlagIsTheRun /\ PollingUntilDone /\ [Next]_vars => PollingUntilDone'
  <2> SUFFICES ASSUME TypeOK, FlagIsTheRun, PollingUntilDone, [Next]_vars,
                      NEW c \in Click, InRun(c)'
               PROVE  ui'[c] = "polling"
    BY DEF PollingUntilDone
  <2>1. CASE RunNow(c)
    BY <2>1 DEF RunNow, TypeOK
  <2>2. CASE ui'[c] = ui[c] /\ InRun(c)
    BY <2>2 DEF PollingUntilDone
  <2>3. CASE Poll(c) /\ InRun(c)
    <3>1. PICK w \in Worker : ui' = [ui EXCEPT ![c] = IF flag[w] = "running" THEN "polling" ELSE "page"]
      BY <2>3 DEF Poll
    <3>2. flag[srv[c]] = "running" /\ srv[c] \in Worker
      BY <2>3 DEF FlagIsTheRun, TypeOK
    <3>3. w = srv[c]
      BY <3>2 DEF OneWorker
    <3> QED
      BY <3>1, <3>2, <3>3 DEF TypeOK
  <2> QED
    BY <2>1, <2>2, <2>3, ShownBy
<1> QED
  BY <1>1, <1>2, TypeCorrect, FlagHolds, PTL DEF Spec

-----------------------------------------------------------------------------
(* One worker *)

\* lt_last_run_date only moves on, and is behind the date of the cron run until it marks
\* its day: a day that is not marked yet has no message of the cron.
CronInv(w) ==
  /\ \A d \in Day : sent[d].cron <= 1 /\ (runDate < d => sent[d].cron = 0)
  /\ runDate <= today
  /\ InRun(w) /\ pc[w] # "begin" => runDate <= date[w] /\ date[w] <= today
  /\ pc[w] \in {"fetch", "snapshot", "score", "mark"} => runDate < date[w]
  /\ pc[w] \in {"notify", "send"} => runDate = date[w] /\ sent[date[w]].cron = 0
  /\ pc[w] = "record" => runDate = date[w]

LEMMA CronInit ==
  ASSUME NEW w, Worker = {w}, Click = {}
  PROVE  Init => CronInv(w)
BY DEF Init, CronInv, InRun, Run, Never, Day

\* A run that is over leaves nothing to say of it.
LEMMA CronOver ==
  ASSUME TypeOK, NEW w, Worker = {w}, CronInv(w), ~InRun(w)', today <= today',
         today' \in Day, UNCHANGED <<runDate, sent>>
  PROVE  CronInv(w)'
<1>1. runDate \in Nat /\ today \in Nat /\ today' \in Nat
  BY DEF TypeOK, Day, Never, LongtermAssumption
<1>2. runDate' <= today'
  BY <1>1 DEF CronInv
<1>3. pc'[w] \in {"idle", "over"}
  BY DEF InRun
<1> QED
  BY <1>2, <1>3 DEF CronInv, InRun

LEMMA CronMoves ==
  ASSUME TypeOK, NEW w, Worker = {w}, Click = {}, CronInv(w), Pipeline(w)
  PROVE  CronInv(w)'
<1> USE DEF store, web, run
<1>0. /\ w \in Run /\ w \notin Click /\ pc \in [Run -> Stages] /\ Counter(w) = "cron"
      /\ date[w] \in Day /\ today \in Day /\ today \in Nat /\ date[w] \in Nat
      /\ runDate \in Nat /\ \A d \in Day : d \in Nat /\ sent[d].cron \in Nat
  BY DEF Run, TypeOK, Day, Never, LongtermAssumption, Counter
<1>a. ASSUME NEW res \in {"complete", "failed"}, Ends(w, res),
             UNCHANGED <<today, runDate, sent>>
      PROVE  CronInv(w)'
  BY <1>0, <1>a, EndsEffect, CronOver
<1>b. \A l : Goto(w, l) => pc'[w] = l
  BY <1>0 DEF Goto
<1>1. CASE Begin(w)
  <2>1. pc'[w] = "check" /\ date'[w] = today /\ UNCHANGED <<today, runDate, sent>>
    BY <1>0, <1>1, <1>b DEF Begin, TypeOK
  <2> QED
    BY <1>0, <2>1 DEF CronInv, InRun
<1>2. CASE Check(w)
  <2>1. CASE Ends(w, "complete")
    BY <1>2, <1>a, <2>1 DEF Check
  <2>2. CASE runDate # date[w] /\ Goto(w, "fetch") /\ UNCHANGED <<web, date, item, got>>
    BY <1>0, <1>2, <1>b, <2>2 DEF Check, CronInv, InRun
  <2> QED
    BY <1>0, <1>2, <2>1, <2>2 DEF Check
<1>3. CASE Fetch(w)
  <2>1. CASE Ends(w, "failed")
    BY <1>3, <1>a, <2>1 DEF Fetch
  <2>2. CASE Goto(w, "snapshot") /\ UNCHANGED <<web, date, item, got>>
    BY <1>0, <1>3, <1>b, <2>2 DEF Fetch, CronInv, InRun
  <2> QED
    BY <1>3, <2>1, <2>2 DEF Fetch
<1>4. CASE Snapshot(w)
  <2>1. pc[w] = "snapshot" /\ pc'[w] \in {"snapshot", "score"}
        /\ UNCHANGED <<today, runDate, sent, date>>
    BY <1>0, <1>4, <1>b DEF Snapshot, Advance
  <2> QED
    BY <1>0, <2>1 DEF CronInv, InRun
<1>5. CASE Score(w)
  <2>1. pc[w] = "score" /\ pc'[w] \in {"score", "mark"}
        /\ UNCHANGED <<today, runDate, sent, date>>
    BY <1>0, <1>5, <1>b DEF Score, Advance
  <2> QED
    BY <1>0, <2>1 DEF CronInv, InRun
<1>6. CASE Mark(w)
  <2>1. pc[w] = "mark" /\ pc'[w] = "notify" /\ runDate' = date[w]
        /\ UNCHANGED <<today, sent, date>>
    BY <1>0, <1>6, <1>b DEF Mark
  <2>2. runDate < date[w] /\ date[w] <= today
    BY <1>0, <2>1 DEF CronInv, InRun
  <2>3. \A d \in Day : date[w] <= d => sent[d].cron = 0
    BY <1>0, <2>2 DEF CronInv
  <2> QED
    BY <1>0, <2>1, <2>2, <2>3 DEF CronInv, InRun
<1>7. CASE Notify(w)
  <2>1. CASE Ends(w, "complete")
    BY <1>7, <1>a, <2>1 DEF Notify
  <2>2. CASE Goto(w, "send") /\ UNCHANGED <<web, date, item, got>>
    BY <1>0, <1>7, <1>b, <2>2 DEF Notify, CronInv, InRun
  <2> QED
    BY <1>7, <2>1, <2>2 DEF Notify
<1>8. CASE Send(w)
  <2>1. CASE Ends(w, "complete") /\ UNCHANGED sent
    BY <1>8, <1>a, <2>1 DEF Send
  <2>2. CASE /\ sent' = [sent EXCEPT ![date[w]][Counter(w)] = @ + 1]
             /\ Goto(w, "record") /\ UNCHANGED <<web, date, item, got>>
    <3>1. pc[w] = "send" /\ pc'[w] = "record" /\ UNCHANGED <<today, runDate, date>>
      BY <1>0, <1>8, <1>b, <2>2 DEF Send
    <3>2. runDate = date[w] /\ sent[date[w]].cron = 0 /\ date[w] <= today
      BY <3>1 DEF CronInv, InRun
    <3>3. \A d \in Day \ {date[w]} : sent'[d] = sent[d]
      BY <2>2 DEF TypeOK
    <3>4. sent'[date[w]].cron = 1
      <4>1. sent'[date[w]] = [sent[date[w]] EXCEPT !["cron"] = @ + 1]
        BY <1>0, <2>2 DEF TypeOK
      <4>2. sent[date[w]] \in [cron : Nat, forced : Nat]
        BY <1>0 DEF TypeOK
      <4> QED
        BY <3>2, <4>1, <4>2
    <3>5. \A d \in Day : sent'[d].cron <= 1 /\ (runDate < d => sent'[d].cron = 0)
      <4> TAKE d \in Day
      <4>1. CASE d = date[w]
        BY <1>0, <3>2, <3>4, <4>1
      <4>2. CASE d # date[w]
        BY <3>3, <4>2 DEF CronInv
      <4> QED
        BY <4>1, <4>2
    <3> QED
      BY <1>0, <3>1, <3>2, <3>5 DEF CronInv, InRun
  <2> QED
    BY <1>8, <2>1, <2>2 DEF Send
<1>9. CASE Record(w)
  BY <1>9, <1>a DEF Record
<1> QED
  BY <1>1, <1>2, <1>3, <1>4, <1>5, <1>6, <1>7, <1>8, <1>9 DEF Pipeline

LEMMA CronStep ==
  ASSUME NEW w, Worker = {w}, Click = {}
  PROVE  TypeOK /\ CronInv(w) /\ [Next]_vars => CronInv(w)'
<1> SUFFICES ASSUME TypeOK, CronInv(w), [Next]_vars PROVE CronInv(w)'
  OBVIOUS
<1> USE DEF store, web, run
<1>0. w \in Run /\ pc \in [Run -> Stages] /\ today \in Day /\ \A r \in Run : r = w
  BY DEF Run, TypeOK
<1>1. CASE Fire(w)
  <2>1. pc'[w] = "begin" /\ UNCHANGED <<today, runDate, sent>>
    BY <1>0, <1>1 DEF Fire, Goto
  <2> QED
    BY <2>1 DEF CronInv
<1>2. CASE Restart(w)
  <2> DEFINE R == {r \in Run : Home(r) = w /\ InRun(r)}
  <2>1. Gone(R) /\ UNCHANGED <<today, runDate, sent>>
    BY <1>2 DEF Restart
  <2>2. (\A r \in R : ~InRun(r)') /\ \A r \in Run \ R : pc'[r] = pc[r]
    BY <2>1, GoneEffect
  <2>3. ~InRun(w)'
    <3>1. w \in R \/ (w \in Run \ R /\ ~InRun(w))
      BY <1>0
    <3> QED
      BY <2>2, <3>1 DEF InRun
  <2> QED
    BY <1>0, <2>1, <2>3, CronOver DEF Day, LongtermAssumption
<1>3. CASE Pipeline(w)
  BY <1>3, CronMoves
<1>4. CASE Raise(w)
  BY <1>0, <1>4, EndsEffect, CronOver DEF Raise, Day, LongtermAssumption
<1>5. CASE Midnight
  BY <1>0, <1>5 DEF Midnight, CronInv, InRun, TypeOK, Day, Never, LongtermAssumption
<1>6. CASE UNCHANGED vars
  BY <1>6 DEF vars, CronInv, InRun
<1> QED
  BY <1>0, <1>1, <1>2, <1>3, <1>4, <1>5, <1>6 DEF Next

\* scheduler.py:16, "lt_last_notify_date guards duplicate notifications": with one worker
\* and no manual run, the cron sends at most one message for a day, whatever crashes and
\* whichever call of the database fails, the one that writes the notify date included.
THEOREM OneMessageOfOneWorker ==
  ASSUME NEW w, Worker = {w}, Click = {}
  PROVE  Spec => []OneCronMessage
<1>1. CronInv(w) => OneCronMessage
  BY DEF CronInv, OneCronMessage
<1> QED
  BY <1>1, CronInit, CronStep, TypeCorrect, PTL DEF Spec
=============================================================================
