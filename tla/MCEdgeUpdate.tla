---------------------------- MODULE MCEdgeUpdate ----------------------------
(* Two release ids and three signed manifests, one of which binds the first *)
(* id again.                                                                *)
EXTENDS EdgeUpdate
CONSTANTS r1, r2

Manifest(release, sequence) == [release |-> release, sequence |-> sequence]
MCManifests == {Manifest(r1, 1), Manifest(r2, 2), Manifest(r1, 3)}
MCFaults == [crashes |-> 2, hooks |-> 2, writes |-> 1]
MCOneCrash == [crashes |-> 1, hooks |-> 1, writes |-> 0]
=============================================================================
