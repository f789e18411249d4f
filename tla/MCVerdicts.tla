------------------------------ MODULE MCVerdicts ------------------------------
(* TLC instance of Verdicts, in units of 1/20: thresholds 0.5 and 0.75, margin *)
(* 0.15.  The composites lie in the zones that decide() tells apart: deep below *)
(* the SELL band, in the SELL band and not beyond the margin, neutral, out of   *)
(* the BUY band by less than the margin, and in it by less than the margin.     *)
EXTENDS Verdicts

SampleComposites == {-22, -16, 0, 8, 11}
\* In the BUY band beyond the margin, and below the band by less than the margin.
MildComposites   == {8, 14}
=============================================================================
