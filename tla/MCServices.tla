------------------------------- MODULE MCServices -------------------------------
(* TLC instance of Services: the bounds of each component, in its own graph. *)
EXTENDS Services

MCScore == {-2, 1}
MCModels == <<{"", "a"}, {"", "b"}>>

\* Each figure on both sides of each bound it is read by.
MCFigures ==
  [fundamental |->
     [tpe |-> {10, 30}, fpe |-> {-5, 10, 20, 30, 50},
      rev |-> {-10, -5, 0, 8, 20}, earn |-> {-1, 1},
      margin |-> {-1, 0, 5, 20}, de |-> {30, 60, 500, 1500, 2000, 2600}],
   technical |->
     [price |-> 1..3, sma50 |-> {2}, sma200 |-> {1, 3},
      slope50 |-> {-1, 1}, slope200 |-> {-1, 1},
      rsi |-> {20, 35, 45, 60, 75}, rsiPrev |-> {45}, cross |-> {-1, 1},
      drawdown |-> {-30, 0}, atr |-> {10, 20}],
   analyst |->
     [bull |-> {0, 1, 2}, hold |-> {0, 1}, bear |-> {0, 1}, prevNet |-> {-1, 0, 1},
      upside |-> {-10, -1, 0, 5, 20}]]
=============================================================================
