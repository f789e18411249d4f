--------------------------------- MODULE Scores ---------------------------------
(***************************************************************************)
(* The rubrics of three legs: fundamental_score, technical_score and       *)
(* analyst_score, over figures that change from day to day.                *)
(*                                                                         *)
(* Scores are in units of 1/60, in which the increments of the rubrics are *)
(* whole (the consensus ratio is rounded down); growth, margins, drawdown  *)
(* and upside in percent; debt to equity in tenths of the percentage that  *)
(* yfinance reports; the rest by the order of the values, which is all     *)
(* that the rubrics read of them.                                          *)
(***************************************************************************)
EXTENDS Integers, FiniteSets

CONSTANT
  Figures     \* of each leg: the values of each of its figures

VARIABLES leg, m      \* the leg, and its figures

None == -1000
Known(x) == x # None

Fields == [fundamental |-> {"tpe", "fpe", "rev", "earn", "margin", "de"},
           technical |-> {"price", "sma50", "sma200", "slope50", "slope200", "rsi", "rsiPrev",
                          "cross", "drawdown", "atr"},
           analyst |-> {"bull", "hold", "bear", "prevNet", "upside"}]

FiguresOK ==
  /\ DOMAIN Figures \subseteq DOMAIN Fields
  /\ \A l \in DOMAIN Figures :
       /\ DOMAIN Figures[l] = Fields[l]
       /\ \A f \in Fields[l] : Figures[l][f] \subseteq
            IF f \in {"slope50", "slope200", "cross"} THEN -1..1
            ELSE IF f \in {"bull", "hold", "bear"} THEN Nat ELSE Int \ {None}

Clamp(x, lo, hi) == IF x < lo THEN lo ELSE IF x > hi THEN hi ELSE x

Init == leg \in DOMAIN Figures /\ m = [f \in DOMAIN Figures[leg] |-> None]

\* A source has one more figure; those it never has stay unknown.
Report(f) == /\ m[f] = None /\ \E v \in Figures[leg][f] : m' = [m EXCEPT ![f] = v]
             /\ UNCHANGED leg
Next == \E f \in DOMAIN m : Report(f)

Spec == Init /\ [][Next]_<<leg, m>>

-----------------------------------------------------------------------------
(* fundamental_score *)

\* The band of the forward PE, or else of the trailing one, and which is lower.
Valuation(g) ==
  LET ref == IF Known(g["fpe"]) THEN g["fpe"] ELSE g["tpe"]
      band == IF ref <= 0 \/ ref > 40 THEN -30
              ELSE IF ref < 15 THEN 30 ELSE IF ref < 25 THEN 15 ELSE 0
      trend == IF g["fpe"] <= 0 \/ g["tpe"] <= 0 THEN 0
               ELSE IF g["fpe"] < g["tpe"] THEN 30
               ELSE IF g["fpe"] > g["tpe"] THEN -15 ELSE 0
  IN Clamp(band + trend, -60, 60)

Sign(x) == IF x = 0 THEN 0 ELSE IF x > 0 THEN 1 ELSE -1

Growth(g) ==
  LET r == g["rev"]
      band == IF r >= 20 THEN 45 ELSE IF r >= 8 THEN 30 ELSE IF r >= 0 THEN 6
              ELSE IF r < -5 THEN -45 ELSE -15
      tie == IF Known(g["earn"]) THEN 15 * Sign(g["earn"]) ELSE 0
  IN Clamp(band + tie, -60, 60)

\* Debt to equity as 1000 times the ratio: what is above 5 is a percentage, and
\* what is not is taken for a ratio.
Ratio(d) == IF d > 50 THEN d ELSE 100 * d

\* Variation: the bands of leverage with their bounds in the wrong order.
LeverageSwapped(d) ==
  IF ~Known(d) THEN 0
  ELSE IF Ratio(d) <= 500 THEN 30 ELSE IF Ratio(d) <= 2500 THEN -30 ELSE 6

Leverage(d) ==
  IF ~Known(d) THEN 0
  ELSE IF Ratio(d) <= 500 THEN 30 ELSE IF Ratio(d) <= 1500 THEN 6
  ELSE IF Ratio(d) > 2500 THEN -30 ELSE 0

Quality(g) ==
  LET p == g["margin"]
      band == IF ~Known(p) THEN 0
              ELSE IF p >= 20 THEN 30 ELSE IF p >= 5 THEN 15 ELSE IF p < 0 THEN -30 ELSE 0
  IN Clamp(band + Leverage(g["de"]), -60, 60)

\* A component counts when one of its inputs is known.
Inputs == [valuation |-> {"fpe", "tpe"}, growth |-> {"rev"}, quality |-> {"margin", "de"}]
Components(g) == {c \in DOMAIN Inputs : \E f \in Inputs[c] : Known(g[f])}

NoScore == None
FundamentalScore(g) ==
  IF Cardinality(Components(g)) < 2 THEN NoScore
  ELSE Clamp((IF "valuation" \in Components(g) THEN Valuation(g) ELSE 0)
             + (IF "growth" \in Components(g) THEN Growth(g) ELSE 0)
             + (IF "quality" \in Components(g) THEN Quality(g) ELSE 0), -120, 120)

-----------------------------------------------------------------------------
(* technical_score.  An unknown slope, drawdown or volatility counts as none. *)

Trend(g) ==
  LET p == g["price"]  s == g["sma50"]  l == g["sma200"]
      up == g["slope50"] > 0 /\ g["slope200"] > 0
      down == g["slope50"] = -1 /\ g["slope200"] = -1
  IN IF ~Known(s) THEN 0
     ELSE IF Known(l)
     THEN IF p > s /\ s > l THEN (IF up THEN 60 ELSE 30)
          ELSE IF p < s /\ s < l THEN (IF down THEN -60 ELSE -30) ELSE 0
     ELSE IF p > s /\ g["slope50"] = 1 THEN 30
          ELSE IF p < s /\ g["slope50"] = -1 THEN -30 ELSE 0

\* MACD's cross: 1 for bullish, held or new; -1 for bearish; 0 for none.
Momentum(g) ==
  LET r == g["rsi"]
      rising == Known(g["rsiPrev"]) /\ g["rsiPrev"] < 50 /\ r >= 50
  IN IF ~Known(r) THEN 0
     ELSE IF r < 30 /\ g["cross"] = -1 THEN -60
     ELSE IF r < 40 THEN -30
     ELSE IF rising /\ g["cross"] = 1 THEN 60
     ELSE IF r \in 50..70 THEN 30 ELSE 0

\* Deep under the 52-week high; an ATR of more than 1.5 times its median.
Risk(g) == (IF Known(g["drawdown"]) /\ g["drawdown"] < -25 THEN -30 ELSE 0)
           + (IF g["atr"] > 15 THEN -30 ELSE 0)

TechnicalScore(g) ==
  IF ~Known(g["price"]) THEN NoScore
  ELSE Clamp(Trend(g) + Momentum(g) + Risk(g), -120, 120)

-----------------------------------------------------------------------------
(* analyst_score *)

AnalystScore(g) ==
  LET bull == g["bull"]  bear == g["bear"]  total == bull + g["hold"] + bear
      recs == \A f \in {"bull", "hold", "bear"} : Known(g[f])
      ratio == IF total = 0 THEN 0 ELSE Clamp((90 * (bull - bear)) \div total, -60, 60)
      trend == IF Known(g["prevNet"]) THEN 30 * Sign(bull - bear - g["prevNet"]) ELSE 0
      u == g["upside"]
      target == IF ~Known(u) THEN 0
                ELSE IF u >= 20 THEN 60 ELSE IF u >= 5 THEN 30
                ELSE IF u <= -10 THEN -60 ELSE IF u < 0 THEN -30 ELSE 0
  IN IF ~recs /\ ~Known(u) THEN NoScore
     ELSE Clamp((IF recs THEN ratio + trend ELSE 0) + target, -120, 120)

LegScore(g) == IF leg = "fundamental" THEN FundamentalScore(g)
               ELSE IF leg = "technical" THEN TechnicalScore(g) ELSE AnalystScore(g)

-----------------------------------------------------------------------------
TypeOK ==
  /\ leg \in DOMAIN Figures /\ \A f \in DOMAIN m : m[f] \in Figures[leg][f] \cup {None}
  /\ LegScore(m) \in {NoScore} \cup -120..120

\* Figures of which more is better, and of which less is.  A forward PE says
\* nothing good when it is not positive; the RSI is not read in one direction.
MoreIsBetter == {"rev", "earn", "margin", "price", "slope50", "slope200", "cross",
                 "drawdown", "bull", "upside"}
LessIsBetter == {"fpe", "de", "atr", "bear", "prevNet"}
Better(f, v, w) ==
  \/ f \in MoreIsBetter /\ v >= w
  \/ f \in LessIsBetter /\ v <= w /\ (f = "fpe" => v > 0)
  \/ f = "tpe" /\ v > 0 /\ w > 0 /\ (IF Known(m["fpe"]) THEN v >= w ELSE v <= w)

\* A percentage of 5 or less is outside what the D/E rubric reads as one.
Misread(f, v) == f = "de" /\ v <= 50

\* The rubrics' bands and clamps: a figure that gets better, all others equal, never
\* lowers the score nor loses it; but for a debt of at most 5 percent.
ScoresMonotone ==
  \A f \in {x \in DOMAIN m : Known(m[x])} : \A v \in Figures[leg][f] :
    Better(f, v, m[f]) /\ ~Misread(f, v) /\ ~Misread(f, m[f]) =>
      LegScore([m EXCEPT ![f] = v]) >= LegScore(m)

\* fundamentals.py:289, "yfinance reports D/E as a percentage (e.g. 150 == 1.5x)":
\* a company with less debt never scores lower for it.
LessDebtIsBetter ==
  leg = "fundamental" /\ Known(m["de"]) =>
    \A v \in Figures[leg]["de"] :
      v <= m["de"] => LegScore([m EXCEPT !["de"] = v]) >= LegScore(m)
=============================================================================
