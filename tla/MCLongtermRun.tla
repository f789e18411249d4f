---------------------------- MODULE MCLongtermRun ----------------------------
(* TLC instance of LongtermRun: workers, and clicks, are interchangeable. *)
EXTENDS LongtermRun, TLC

Symmetry == Permutations(Worker) \cup Permutations(Click)
=============================================================================
