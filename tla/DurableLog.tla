----------------------------- MODULE DurableLog -----------------------------
(***************************************************************************)
(* What the local write-ahead log promises to the code above it, with no   *)
(* file, no byte offset and no cache in sight.  `log' is the history that  *)
(* callers have been acknowledged or readers may be shown; it only ever    *)
(* grows.  `maybe' holds the records that were written but not             *)
(* acknowledged: a commit keeps all of them, a restart any prefix.         *)
(***************************************************************************)
EXTENDS Integers, Sequences

CONSTANT Events

VARIABLES log, maybe, up

vars == <<log, maybe, up>>

Init ==
  /\ log = <<>>
  /\ maybe = <<>>
  /\ up = FALSE

Write ==
  \E e \in Events :
    /\ up
    /\ maybe' = Append(maybe, e)
    /\ UNCHANGED <<log, up>>

Commit ==
  /\ up
  /\ log' = log \o maybe
  /\ maybe' = <<>>
  /\ UNCHANGED up

(* The process dies, or the machine does.  A power failure may take the   *)
(* newest unacknowledged records with it, and never an acknowledged one.  *)
Stop ==
  \E k \in 0..Len(maybe) :
    /\ up' = FALSE
    /\ maybe' = SubSeq(maybe, 1, k)
    /\ UNCHANGED log

(* Recovery adopts whatever survived, acknowledged or not. *)
Recover ==
  /\ ~up
  /\ up' = TRUE
  /\ log' = log \o maybe
  /\ maybe' = <<>>

Next == Write \/ Commit \/ Stop \/ Recover

Spec == Init /\ [][Next]_vars
=============================================================================
