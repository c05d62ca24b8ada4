---------------------------- MODULE MCEventTails ----------------------------
(* A small instance of EventTails: one run more than stays warm, and       *)
(* rings shorter than a run's history.                                     *)
EXTENDS EventTails, TLC

CONSTANTS r1, r2, r3, p1

MCRuns == {r1, r2, r3}
Symmetry == Permutations(MCRuns)
=============================================================================
