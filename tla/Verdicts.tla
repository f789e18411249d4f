------------------------------- MODULE Verdicts -------------------------------
(***************************************************************************)
(* The verdict of one holding, day after day: scoring.decide and           *)
(* apply_vetoes (app/longterm/scoring.py) on the rows that upsert_verdict  *)
(* left in longterm_verdicts.  The table has one row per date: a second    *)
(* evaluation of a day reads the row of the first as its newest history,   *)
(* and replaces it.                                                        *)
(*                                                                         *)
(* Composites and thresholds are integers in one unit (the instances take  *)
(* 1/20 of a point, so that threshold_buy 0.5 is 10).                      *)
(***************************************************************************)
EXTENDS Integers, Sequences, Functions

CONSTANTS
  Composites,      \* composites that compute_composite may return
  Buy, Sell,       \* threshold_buy, threshold_sell
  Margin,          \* hysteresis_margin
  Days,            \* hysteresis_days
  Window,          \* prior composites in the slope: history[:9] in the code
  Kept,            \* bound: rows of the table that are kept
  Faults           \* a subset of {"rerun", "earnings", "nodata"}

NoData == 999      \* composite None: no leg is ok

ASSUME VerdictAssumption ==
  /\ Composites \subseteq Int \ {NoData}
  /\ Buy \in Nat /\ Sell \in Nat /\ Margin \in Nat
  /\ Days \in Nat /\ Window \in Nat /\ Kept \in Nat
  /\ Kept > Window /\ Kept > Days
  /\ Faults \subseteq {"rerun", "earnings", "nodata"}

VARIABLES
  rows,      \* rows of the holding, newest first: label, composite, flags
  ranToday,  \* the newest row is of today
  replaced   \* history: the newest row replaced an earlier one of its day

vars == <<rows, ranToday, replaced>>

Labels == {"BUY", "HOLD", "SELL"}
Flags  == {"no_data", "hysteresis_hold", "sell_suppressed_trend", "earnings_freeze"}
Row    == [label : Labels, comp : Composites \cup {NoData}, flags : SUBSET Flags]

-----------------------------------------------------------------------------
\* scoring.py

Band(c) == IF c <= -Sell THEN "SELL" ELSE IF c >= Buy THEN "BUY" ELSE "HOLD"

\* Sign of the least-squares slope of v over its index; 0 for a single point.
SlopeSign(v) ==
  LET n  == Len(v)
      Sum(f) == FoldFunction(+, 0, f)
  IN n * Sum([i \in 1..n |-> i * v[i]]) - Sum([i \in 1..n |-> i]) * Sum(v)

\* The composite has crossed the threshold into band b, left from prev, by the margin.
Crossed(c, b, prev) ==
  \/ b = "BUY"  /\ c >= Buy + Margin
  \/ b = "SELL" /\ c <= -(Sell + Margin)
  \/ b = "HOLD" /\ prev = "BUY"  /\ c <= Buy - Margin
  \/ b = "HOLD" /\ prev = "SELL" /\ c >= -(Sell - Margin)

\* The newest n rows of h all have a composite of band b.
InBand(h, n, b) ==
  Len(h) >= n /\ \A i \in 1..n : h[i].comp # NoData /\ Band(h[i].comp) = b

Label(h) == h[1].label

\* Variations: hysteresis by the margin alone; and one day short.
HeldByMargin(c, h) ==
  h # <<>> /\ Band(c) # Label(h) /\ ~Crossed(c, Band(c), Label(h))
HeldOneDayLess(c, h) ==
  HeldByMargin(c, h) /\ Days > 2 /\ ~InBand(h, Days - 2, Band(c))

\* Layer 2 of decide: a new band is taken on a margin crossing or on Days
\* evaluations in a row, today's included.
Held(c, h) ==
  /\ h # <<>> /\ Band(c) # Label(h)
  /\ ~Crossed(c, Band(c), Label(h))
  /\ Days > 1 /\ ~InBand(h, Days - 1, Band(c))

\* How many priors the slope is taken over: up to the first without a composite.
Priors(h) ==
  LET known == {k \in 0..(IF Len(h) < Window THEN Len(h) ELSE Window) :
                  \A i \in 1..k : h[i].comp # NoData}
  IN CHOOSE k \in known : \A j \in known : j <= k

\* Variation: the series is not reversed.
NewestFirst(c, h) == <<c>> \o [i \in 1..Priors(h) |-> h[i].comp]

\* Those composites and today's, oldest first.
Series(c, h) == [i \in 1..Priors(h) |-> h[Priors(h) + 1 - i].comp] \o <<c>>

Deep(c) == c <= -(Sell + 2 * Margin)

\* decide: band, hysteresis, then the trend guard on SELL.
Scored(c, h) ==
  LET held == Held(c, h)
      next == IF held THEN Label(h) ELSE Band(c)
      curb == next = "SELL" /\ ~Deep(c) /\ SlopeSign(Series(c, h)) >= 0
  IN [label |-> IF curb THEN "HOLD" ELSE next, comp |-> c,
      flags |-> {f \in {"hysteresis_hold"} : held}
                  \cup {f \in {"sell_suppressed_trend"} : curb}]

\* Variation: no data passes for a neutral score.
DecideNeutral(c, h) ==
  IF c = NoData THEN [Scored(0, h) EXCEPT !.comp = NoData] ELSE Scored(c, h)

\* decide(composite, history); with no data, HOLD whatever the history.
Decide(c, h) ==
  IF c = NoData THEN [label |-> "HOLD", comp |-> c, flags |-> {"no_data"}]
  ELSE Scored(c, h)

\* Variation: only the flag of the freeze is set.
FreezeFlag(v, h) == [v EXCEPT !.flags = @ \cup {"earnings_freeze"}]

\* apply_vetoes (1): close to earnings, the label falls back to the newest row's.
Freeze(v, h) ==
  [v EXCEPT !.label = IF h # <<>> THEN Label(h) ELSE @,
            !.flags = @ \cup {"earnings_freeze"}]

-----------------------------------------------------------------------------
Init == rows = <<>> /\ ranToday = FALSE /\ replaced = FALSE

\* upsert_verdict: insert, or replace today's row.
Upsert(v) ==
  LET older == IF ranToday THEN Tail(rows) ELSE rows
      table == <<v>> \o older
  IN /\ rows' = SubSeq(table, 1, IF Len(table) < Kept THEN Len(table) ELSE Kept)
     /\ ranToday' = TRUE /\ replaced' = ranToday

\* evaluate_holding on the stored history, by the daily run, by a forced rerun
\* of the day, or by an ad-hoc analysis that is saved.
Evaluate(c, frozen) ==
  /\ ranToday => "rerun" \in Faults
  /\ c = NoData => "nodata" \in Faults
  /\ frozen => "earnings" \in Faults
  /\ LET v == Decide(c, rows) IN Upsert(IF frozen THEN Freeze(v, rows) ELSE v)

\* analyze_adhoc(save=True) without price history: the row is written as it is.
AdhocNoData ==
  /\ {"rerun", "nodata"} \subseteq Faults
  /\ Upsert([label |-> "HOLD", comp |-> NoData, flags |-> {"no_data"}])

\* The next day on which the market data is fetched.
NextDay ==
  /\ ranToday /\ ranToday' = FALSE
  /\ UNCHANGED <<rows, replaced>>

Runs == \E c \in Composites \cup {NoData}, frozen \in BOOLEAN : Evaluate(c, frozen)
Next == Runs \/ AdhocNoData \/ NextDay

\* The scheduler evaluates the holding on every day.
Fairness == WF_vars(~ranToday /\ Runs) /\ WF_vars(NextDay)

Spec == Init /\ [][Next]_vars /\ Fairness

-----------------------------------------------------------------------------
\* Types; exactly the rows without a composite say no_data.
TypeOK ==
  /\ rows \in Seq(Row) /\ Len(rows) <= Kept
  /\ ranToday \in BOOLEAN /\ replaced \in BOOLEAN /\ (ranToday => rows # <<>>)
  /\ \A i \in 1..Len(rows) :
       "no_data" \in rows[i].flags <=> rows[i].comp = NoData

Pure(v) == v.flags \subseteq {"hysteresis_hold"}

\* Between the two newest days the label has changed, and neither the trend guard
\* nor an absence of data nor a freeze is the reason.
Changed == Len(rows) >= 2 /\ Pure(rows[1]) /\ rows[1].label # rows[2].label

\* scoring.py:186, "``hysteresis_days`` consecutive days (today included)": a label
\* that is the band of today's composite, and new since yesterday without a
\* crossing by the margin, has had its band for Days days of the table.
NewBandLasts ==
  /\ Changed
  /\ rows[1].label = Band(rows[1].comp)
  /\ ~Crossed(rows[1].comp, rows[1].label, rows[2].label)
  => InBand(rows, Days, rows[1].label)

\* scoring.py:183, Plan Docs/LONGTERM_PLAN_REVIEW.md:121, "labels only change when
\* the composite crosses a band by a margin or holds the new zone": a change between
\* two consecutive days of the table is into the band of today's composite, and
\* either that crossed by the margin or the last Days days were all in it.
EarnedByDays ==
  /\ Changed => rows[1].label = Band(rows[1].comp)
  /\ NewBandLasts

\* EarnedByDays on every day that was evaluated once, also when earlier days
\* were evaluated again.  (On a day that was evaluated again: see ClaimRerun.)
ChangesAreEarned == ~replaced => EarnedByDays

\* The composites of the newest rows fall: over every pair of the days in the
\* window, weighted by their distance, the later one is lower.
Falling ==
  LET Known(n) == n <= Len(rows) /\ n <= Window + 1
                    /\ \A i \in 1..n : rows[i].comp # NoData
      Pairs == {p \in (1..Kept) \X (1..Kept) : p[1] < p[2] /\ Known(p[2])}
  IN FoldFunction(+, 0, [p \in Pairs |->
       (p[2] - p[1]) * (rows[p[1]].comp - rows[p[2]].comp)]) < 0

\* scoring.py:188, the trend guard: outside an earnings freeze, a day that was
\* evaluated once says SELL only on a composite deep below the band or on composites that
\* fall over the days of the table, and in the SELL band or after a SELL.
SellsFall ==
  /\ ~replaced /\ rows # <<>>
  /\ rows[1].label = "SELL" /\ "earnings_freeze" \notin rows[1].flags
  =>
    /\ Deep(rows[1].comp) \/ Falling
    /\ Band(rows[1].comp) = "SELL" \/ (Len(rows) >= 2 /\ rows[2].label = "SELL")

\* scoring.py:295, vetoes "freeze a label change back to the prior label": on a
\* day that is frozen, and was evaluated once, the label of the day before stands.
FrozenLabelStands ==
  ~replaced /\ Len(rows) >= 2 /\ "earnings_freeze" \in rows[1].flags =>
    rows[1].label = rows[2].label

\* Hysteresis delays a verdict and does not lose it: composites that stay in
\* the BUY band, in the neutral band, or deep below the SELL band, with no freeze,
\* end in that label for good, whatever is rerun.
Newest(P(_)) == rows # <<>> /\ P(rows[1])
Settles(b) ==
  LET In(v) == /\ v.comp # NoData /\ "earnings_freeze" \notin v.flags
               /\ Band(v.comp) = b /\ (b = "SELL" => Deep(v.comp))
      Says(v) == v.label = b
  IN <>[]Newest(In) => <>[]Newest(Says)
BandPrevails == \A b \in Labels : Settles(b)
=============================================================================
