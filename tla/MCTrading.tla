----------------------------- MODULE MCTrading -----------------------------
(* TLC instance of Trading: requests, symbols and workers are interchangeable. *)
EXTENDS Trading, TLC

Symmetry == Permutations(Req) \cup Permutations(Symbol) \cup Permutations(Worker)
=============================================================================
