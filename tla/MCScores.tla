-------------------------------- MODULE MCScores --------------------------------
(* TLC instance of Scores: the leg of fundamentals, with debts of 3 and 6 percent *)
(* and others on both sides of each bound of the leverage bands.                  *)
EXTENDS Scores

MCFigures ==
  [fundamental |->
     [tpe |-> {10, 30}, fpe |-> {10, 50}, rev |-> {-10, 8}, earn |-> {-1, 1},
      margin |-> {-1, 5, 20}, de |-> {30, 60, 500, 1500, 2000, 2600}]]
=============================================================================
