--------------------------- MODULE MCStreamSlots ----------------------------
(* Small instances of StreamSlots: three requests of one principal for its *)
(* one slot.                                                               *)
EXTENDS StreamSlots, TLC

CONSTANTS p1, r1, r2, r3, c1, c2, c3

MCRuns == {r1, r2, r3}
MCCreators == {c1, c2, c3}
=============================================================================
