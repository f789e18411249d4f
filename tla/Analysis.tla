-------------------------------- MODULE Analysis --------------------------------
(***************************************************************************)
(* The analysis of one symbol: analyze_symbol of app/longterm/scheduler.py *)
(* with the ladder of app/longterm/ai_research.py and compute_composite of *)
(* app/longterm/scoring.py.  Every source may fail; the models are read    *)
(* again when the ladder starts, and the user may change them meanwhile.   *)
(* A leg's score is computed in module Scores; here it is one of Score.    *)
(* Left out: the provider, the caches of prices and fundamentals, the      *)
(* texts, and what evaluate_holding does with the composite (Verdicts).    *)
(***************************************************************************)
EXTENDS Integers, Sequences, FiniteSets

CONSTANTS
  Score,        \* the scores that a leg may have
  Weight,       \* the weights that a leg may have
  Models        \* <<primary models, fallback models>> that the user sets; "" is none

\* What the composite is a mean for: the form sets no bound, and reads any number.
WeightsOK == Score \subseteq Int /\ Weight \subseteq Nat

LegKeys == {"technical", "fundamental", "analyst", "news"}
Leg(s, v) == [status |-> s, score |-> v]
Ok == {Leg("ok", v) : v \in Score}
NoData == Leg("no_data", 0)
NotApplicable == Leg("not_applicable", 0)
Missing == Leg("missing", 0)      \* the key is not in legs

VARIABLES
  inst,         \* the symbols and type that the mapping gave
  weights,      \* of the run's ScoringConfig
  models,       \* settings: <<primary, fallback>>
  pc, legs,
  headlines,    \* fetch_news returned some
  ladder,       \* the models still to try, the first of them now
  nudged,       \* its first reply was no valid JSON
  chosen,       \* history: the models that the ladder began with
  asked,        \* history: the models of the requests, in order
  raised        \* history: the ladder ended with another exception

vars == <<inst, weights, models, pc, legs, headlines, ladder, nudged, chosen, asked, raised>>

Instruments == [yf : BOOLEAN, finnhub : BOOLEAN, typ : {"equity", "etf"}]

Init ==
  /\ inst \in {i \in Instruments : i.finnhub => i.yf}
  /\ weights \in [LegKeys -> Weight]
  /\ models \in Models[1] \X Models[2]
  /\ pc = "prices" /\ legs = [k \in LegKeys |-> Missing] /\ headlines = FALSE
  /\ ladder = <<>> /\ nudged = FALSE /\ chosen = <<>> /\ asked = <<>>
  /\ raised = FALSE

\* The user saves other models, at any time.  The form is written key by key, so
\* that the two settings, read one after the other, may be of two saves.
SetModel(i, x) ==
  /\ pc # "done" /\ models' = [models EXCEPT ![i] = x]
  /\ UNCHANGED <<inst, weights, pc, legs, headlines, ladder, nudged, chosen, asked, raised>>

Collects == UNCHANGED <<inst, weights, models, ladder, nudged, chosen, asked, raised>>
Fill(k, leg) == legs' = [legs EXCEPT ![k] = leg]

\* fetch_ohlcv and technical_score.
Prices ==
  /\ pc = "prices" /\ pc' = "fundamentals"
  /\ \E leg \in {NoData} \cup (IF inst.yf THEN Ok ELSE {}) : Fill("technical", leg)
  /\ UNCHANGED headlines /\ Collects

\* fetch_fundamentals and fundamental_score.
Fundamentals ==
  /\ pc = "fundamentals" /\ pc' = "analyst"
  /\ \E leg \in IF inst.typ = "etf" THEN {NotApplicable}
                ELSE {NoData} \cup (IF inst.yf THEN Ok ELSE {}) : Fill("fundamental", leg)
  /\ UNCHANGED headlines /\ Collects

\* fetch_analyst, fetch_news and analyst_score: for a Finnhub symbol of an equity.
Analyst ==
  /\ pc = "analyst" /\ pc' = "model"
  /\ IF inst.finnhub /\ inst.typ = "equity"
     THEN /\ \E leg \in {NoData} \cup Ok : Fill("analyst", leg)
          /\ headlines' \in BOOLEAN
     ELSE Fill("analyst", NotApplicable) /\ UNCHANGED headlines
  /\ Collects

Researching == UNCHANGED <<inst, weights, models, headlines>>
Given(x) == IF x = "" THEN <<>> ELSE <<x>>
Configured(m) == Given(m[1]) \o Given(m[2])

\* The AI leg needs headlines and a model.
HaveModel ==
  /\ pc = "model" /\ pc' = IF headlines /\ Configured(models) # <<>> THEN "ladder" ELSE "done"
  /\ UNCHANGED <<legs, ladder, nudged, chosen, asked, raised>> /\ Researching

\* analyze_holding reads the models again; when none is left, the provider's own.
StartLadder ==
  /\ pc = "ladder" /\ pc' = "post"
  /\ ladder' = IF Configured(models) = <<>> THEN <<"default1", "default2">>
               ELSE Configured(models)
  /\ chosen' = ladder'
  /\ UNCHANGED <<legs, nudged, asked, raised>> /\ Researching

\* The model is given up: on to the next, or the leg has failed.
GiveUp ==
  /\ ladder' = Tail(ladder) /\ nudged' = FALSE /\ UNCHANGED <<legs, raised>>
  /\ pc' = IF Len(ladder) = 1 THEN "done" ELSE "post"

\* The leg has ended, well or not.
Answered == \E leg \in Ok : Fill("news", leg) /\ pc' = "done" /\ UNCHANGED <<ladder, nudged, raised>>
Raised == raised' = TRUE /\ pc' = "done" /\ UNCHANGED <<legs, ladder, nudged>>

\* Variation: a request that fails ends the ladder.
PostOrStop ==
  /\ pc = "post" /\ asked' = Append(asked, ladder[1])
  /\ \/ pc' = "done" /\ UNCHANGED <<legs, ladder, nudged, raised>>
     \/ ~nudged /\ nudged' = TRUE /\ UNCHANGED <<pc, legs, ladder, raised>>
     \/ Answered
     \/ Raised
  /\ UNCHANGED chosen /\ Researching

\* One request to the model: a failed one, an envelope without content, or a second
\* reply that does not parse gives the model up; a first such reply is asked for
\* again; a valid one is the news leg.  An envelope of another shape raises what
\* only analyze_symbol catches.
Post ==
  /\ pc = "post" /\ asked' = Append(asked, ladder[1])
  /\ \/ GiveUp
     \/ ~nudged /\ nudged' = TRUE /\ UNCHANGED <<pc, legs, ladder, raised>>
     \/ Answered
     \/ Raised
  /\ UNCHANGED chosen /\ Researching

Next == \/ Prices \/ Fundamentals \/ Analyst \/ HaveModel \/ StartLadder \/ Post
        \/ \E i \in 1..2 : \E x \in Models[i] : SetModel(i, x)

Spec == Init /\ [][Next]_vars

-----------------------------------------------------------------------------
(* compute_composite *)

Used == {k \in LegKeys : legs[k].status = "ok" /\ weights[k] # 0}
Applicable == {k \in LegKeys : legs[k].status \notin {"missing", "not_applicable"}}

\* Variation: a leg without data counts with its score of 0.
WeighedAll == {k \in Applicable : weights[k] # 0}

\* The legs that the weighted mean is over.
Weighed == Used

\* The composite is Num / Denom; there is none when Denom is 0.
Share(k) == IF k \in Weighed THEN weights[k] ELSE 0
Total(f) == f["technical"] + f["fundamental"] + f["analyst"] + f["news"]
Num == Total([k \in LegKeys |-> Share(k) * legs[k].score])
Denom == Total([k \in LegKeys |-> Share(k)])

Quality == IF Used = {} THEN "no_data" ELSE IF Used = Applicable THEN "full" ELSE "partial_data"

-----------------------------------------------------------------------------
TypeOK ==
  /\ pc \in {"prices", "fundamentals", "analyst", "model", "ladder", "post", "done"}
  /\ legs \in [LegKeys -> Ok \cup {NoData, NotApplicable, Missing}]
  /\ models \in Models[1] \X Models[2] /\ Len(ladder) <= 2 /\ legs["news"] \notin {NoData, NotApplicable}

\* ai_research.py:463: a news leg that failed means that every model it began with
\* was asked, none more than twice, whatever the user saves meanwhile; unless an
\* answer of an unforeseen shape ended it.
LadderExhausted ==
  /\ pc = "done" /\ legs["news"] = Missing /\ ~raised =>
       \A i \in DOMAIN chosen : \E j \in DOMAIN asked : asked[j] = chosen[i]
  /\ \A m \in {"default1", "default2"} \cup Models[1] \cup Models[2] :
       Cardinality({j \in DOMAIN asked : asked[j] = m}) <= 2 * Cardinality({i \in DOMAIN chosen : chosen[i] = m})

\* scoring.py:92: the composite lies between the scores of the legs that have data,
\* whichever sources failed, so a failed one is never taken for a neutral one; and
\* data quality is "full" only if every leg that applies to the instrument, but for
\* the news, has its score in the composite.
CompositeFaithful ==
  pc = "done" =>
    /\ Denom = 0 <=> Used = {}
    /\ Used # {} => /\ \E k \in Used : legs[k].score * Denom <= Num
                    /\ \E k \in Used : legs[k].score * Denom >= Num
    /\ Quality = "full" =>
         /\ "technical" \in Used
         /\ inst.typ = "equity" => "fundamental" \in Used
         /\ inst.typ = "equity" /\ inst.finnhub => "analyst" \in Used
=============================================================================
