-------------------------- MODULE MCTimelineWriter --------------------------
(* Small instances of TimelineWriter.                                      *)
EXTENDS TimelineWriter, TLC

CONSTANTS c1, c2, c3, r1, r2

(* The run that restarts treats its callers alike, and its WHIP runs too.  *)
Symmetry == Permutations(Clients) \cup Permutations(Runs)
=============================================================================
