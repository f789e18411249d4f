-------------------------------- MODULE Summary --------------------------------
(***************************************************************************)
(* The truncation of the daily message: compose_summary of                 *)
(* app/longterm/notifier.py, on the lengths of its parts.  The header and  *)
(* the alerts come first and are never dropped; holding lines are, with a  *)
(* marker that counts them; the whole is cut at the limit in the end.      *)
(***************************************************************************)
EXTENDS Integers, Sequences

CONSTANTS
  MaxChars,     \* _MAX_CHARS
  MarkLen,      \* the length of the marker's text, without its number
  Ten,          \* the least number of two digits; a smaller one in small instances
  Fixed,        \* lengths of header, alerts and the headline of the holdings
  LineLen,      \* lengths of a holding's line
  MaxHoldings   \* bound

\* The constants are lengths and bounds.
LengthsOK ==
  /\ MaxChars \in Nat /\ MarkLen \in Nat /\ Ten \in Nat /\ MaxHoldings \in Nat
  /\ Fixed \subseteq Nat /\ LineLen \subseteq Nat

VARIABLES
  fixed, lines,     \* the lengths of what is to be said
  kept, used,       \* the lines kept, and their lengths with a newline each
  marked            \* the number that the marker gives; 0: no marker

vars == <<fixed, lines, kept, used, marked>>

Init ==
  /\ fixed \in Fixed /\ lines \in UNION {[1..n -> LineLen] : n \in 1..MaxHoldings}
  /\ kept = 0 /\ used = 0 /\ marked = 0

Digits(n) == IF n < Ten THEN 1 ELSE 2
Marker(n) == MarkLen + Digits(n)
Budget == MaxChars - fixed
Remaining == Len(lines) - kept

\* Variation: no room is kept for the marker.
ReserveNone == 0

\* Room for a marker after this line, and the newline before it.
Reserve == IF Remaining > 1 THEN 1 + Marker(Remaining) ELSE 0

Fits == used + lines[kept + 1] + 1 + Reserve <= Budget

\* The next line is kept: the first one always.
Keep ==
  /\ marked = 0 /\ Remaining > 0 /\ (Fits \/ kept = 0)
  /\ kept' = kept + 1 /\ used' = used + lines[kept + 1] + 1
  /\ UNCHANGED <<fixed, lines, marked>>

\* It does not fit: a marker counts it and all that follow.
Mark ==
  /\ marked = 0 /\ Remaining > 0 /\ ~Fits /\ kept > 0
  /\ marked' = Remaining
  /\ UNCHANGED <<fixed, lines, kept, used>>

Next == Keep \/ Mark
Spec == Init /\ [][Next]_vars

Composed == Remaining = 0 \/ marked > 0
\* The message before its last cut: the lines joined, the marker after them.
Length == fixed + (IF marked > 0 THEN used + Marker(marked) ELSE used - 1)

-----------------------------------------------------------------------------
TypeOK ==
  /\ kept \in 0..Len(lines) /\ marked \in 0..Len(lines) /\ used \in Nat
  /\ fixed \in Nat /\ lines \in Seq(Nat) /\ lines # <<>>

\* notifier.py:83: every holding that the message leaves out is counted by a marker
\* that is in it, and every alert is whole.  Only when the alerts leave no room for
\* the first holding and its marker does the last cut take of them.
NothingUntold ==
  Composed =>
    \/ kept + marked = Len(lines) /\ Length <= MaxChars
    \/ fixed + lines[1] + 1 + (IF Len(lines) > 1 THEN 1 + Marker(Len(lines)) ELSE 0) > MaxChars
=============================================================================
