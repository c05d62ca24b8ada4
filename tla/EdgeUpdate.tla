----------------------------- MODULE EdgeUpdate -----------------------------
(***************************************************************************)
(* vidarax edge: the update controller of an edge device.  Operations take  *)
(* an exclusive lock that fails at once when it is held, so one runs at a   *)
(* time; each is a process that a crash may end between any two steps, and  *)
(* what it leaves are three writes that cannot be made together: the        *)
(* transition hook of the serving process, the current-model pointer and    *)
(* device.json.                                                             *)
(*                                                                         *)
(* Manifests are those that pass validate_manifest and verify_manifest for  *)
(* this device; the others are refused before they change anything.         *)
(*                                                                         *)
(* X_<mistake> is X with that mistake in it, used by no behaviour.          *)
(***************************************************************************)
EXTENDS Integers

CONSTANTS
  Releases,     \* release ids
  Manifests,    \* signed manifests: [release, sequence]
  None,         \* no release
  Faults        \* bound: [crashes, hooks, writes] that may still fail

ManifestRecords == [release: Releases, sequence: Nat \ {0}]
FaultRecords == [crashes: Nat, hooks: Nat, writes: Nat]

ASSUME EdgeAssumption ==
  /\ None \notin Releases
  /\ Manifests \subseteq ManifestRecords
  /\ Faults \in FaultRecords

VARIABLES
  disk,      \* device.json
  pointer,   \* current-model, as the release it names
  stored,    \* releases/: the manifest published for each release
  lanes,     \* what the serving process has loaded at the hook's request
  pc, op,    \* the operation that holds the lock, and where it is
  mem,       \* its DeviceState
  then,      \* where it goes once the pending transition is complete
  faults,
  undone     \* history: releases whose activation wrote the pointer and was rolled back

vars == <<disk, pointer, stored, lanes, pc, op, mem, then, faults, undone>>

Stages == {"shadow", "canary", "active"}
Actions == {"stage_shadow", "stage_canary", "activate", "rollback"}

NoCandidate == [release |-> None, stage |-> "none"]
NoPending == [action |-> "none", candidate |-> NoCandidate]
NoOp == [kind |-> "none"]
NoManifest == [release |-> None, sequence |-> 0]

Candidate(r, stage) == [release |-> r, stage |-> stage]
Transition(action, c) == [action |-> action, candidate |-> c]

Ops == [kind: {"apply"}, manifest: Manifests]
         \cup [kind: {"report"}, release: Releases, stage: {"shadow", "canary"}, accepted: BOOLEAN]

\* enroll
Enrolled == [current |-> None, previous |-> None, candidate |-> NoCandidate,
             rejected |-> None, highest |-> 0, pending |-> NoPending]

Init ==
  /\ disk = Enrolled /\ mem = Enrolled
  /\ pointer = None
  /\ stored = [r \in Releases |-> NoManifest]
  /\ lanes = [candidate |-> NoCandidate, live |-> None]
  /\ pc = "idle" /\ op = NoOp /\ then = "begin"
  /\ faults = Faults
  /\ undone = {}

\* The operation returns, with or without an error, and the lock is released.
End == pc' = "idle" /\ op' = NoOp /\ mem' = disk' /\ then' = "begin"

WriteFails == faults.writes > 0 /\ faults' = [faults EXCEPT !.writes = @ - 1]

\* write_state: a temporary file, a rename and a sync of the directory, whose
\* failure is an error although the rename was done.
WriteState(state, next, after) ==
  \/ /\ disk' = state /\ mem' = state
     /\ pc' = next /\ then' = after
     /\ UNCHANGED <<op, faults>>
  \/ /\ WriteFails
     /\ disk' \in {disk, state}
     /\ End

-----------------------------------------------------------------------------
(* complete_or_rollback_pending_transition                                  *)

\* What the hook does (docs/edge-deployment.md): load the candidate into its
\* lane, move it to the live lane, or drop it and restore the current release.
HookEffect ==
  LET p == mem.pending
  IN IF p.action = "activate" THEN [candidate |-> NoCandidate, live |-> p.candidate.release]
     ELSE IF p.action = "rollback" THEN [candidate |-> NoCandidate, live |-> mem.current]
     ELSE [lanes EXCEPT !.candidate = p.candidate]

HookSucceeds ==
  /\ pc = "hook"
  /\ lanes' = HookEffect
  /\ pc' = IF mem.pending.action = "activate" THEN "pointer" ELSE "commit"
  /\ UNCHANGED <<disk, pointer, stored, op, mem, then, faults, undone>>

\* The hook exits with an error or runs out of its thirty seconds, having done
\* its work or not.  A rollback that fails stays pending for the next operation.
HookFails ==
  /\ pc = "hook"
  /\ faults.hooks > 0 /\ faults' = [faults EXCEPT !.hooks = @ - 1]
  /\ lanes' \in {lanes, HookEffect}
  /\ UNCHANGED <<disk, pointer, stored, undone>>
  /\ IF mem.pending.action = "rollback" THEN End
     ELSE pc' = "fallback" /\ UNCHANGED <<op, mem, then>>

WritePointer ==
  /\ pc = "pointer"
  /\ LET r == mem.pending.candidate.release
     IN \/ pointer' = r /\ pc' = "commit" /\ UNCHANGED faults
        \/ WriteFails /\ pointer' \in {pointer, r} /\ pc' = "fallback"
  /\ UNCHANGED <<disk, stored, lanes, op, mem, then, undone>>

Fallback_inMemory ==
  /\ pc = "fallback"
  /\ mem' = [mem EXCEPT !.pending.action = "rollback"]
  /\ then' = "fail" /\ pc' = "hook"
  /\ undone' = IF pointer = mem.pending.candidate.release THEN undone \cup {pointer} ELSE undone
  /\ UNCHANGED <<disk, pointer, stored, lanes, op, faults>>

\* The rollback is made durable before the hook is asked for it.
Fallback ==
  /\ pc = "fallback"
  /\ WriteState([mem EXCEPT !.pending.action = "rollback"], "hook", "fail")
  /\ undone' = IF pointer = mem.pending.candidate.release THEN undone \cup {pointer} ELSE undone
  /\ UNCHANGED <<pointer, stored, lanes>>

Completed(state) ==
  LET p == state.pending
      cleared == [state EXCEPT !.pending = NoPending]
  IN IF p.action = "activate"
     THEN [cleared EXCEPT !.previous = state.current, !.current = p.candidate.release,
                          !.candidate = NoCandidate]
     ELSE IF p.action = "rollback"
     THEN [cleared EXCEPT !.candidate = NoCandidate, !.rejected = p.candidate.release]
     ELSE [cleared EXCEPT !.candidate = p.candidate]

Commit ==
  /\ pc = "commit"
  /\ WriteState(Completed(mem), then, then)
  /\ UNCHANGED <<pointer, stored, lanes, undone>>

-----------------------------------------------------------------------------
(* apply and report                                                         *)

Begin_noRecovery(o) ==
  /\ pc = "idle"
  /\ op' = o /\ mem' = disk
  /\ then' = "begin" /\ pc' = "begin"
  /\ UNCHANGED <<disk, pointer, stored, lanes, faults, undone>>

\* try_lock_exclusive, read_state, recover_pending_transition
Begin(o) ==
  /\ pc = "idle"
  /\ op' = o /\ mem' = disk
  /\ then' = "begin"
  /\ pc' = IF disk.pending = NoPending THEN "begin" ELSE "hook"
  /\ UNCHANGED <<disk, pointer, stored, lanes, faults, undone>>

InUse(state) ==
  {state.current, state.previous, state.candidate.release, state.pending.candidate.release}

Kept_onlyCurrent(state) == [r \in Releases |-> IF r = state.current THEN stored[r] ELSE NoManifest]

\* prune_releases
Kept(state) == [r \in Releases |-> IF r \in InUse(state) THEN stored[r] ELSE NoManifest]

\* What stands against staging the manifest of an apply, on releases pruned
\* already: an id bound to another manifest, a release that is there or was
\* the last to be rejected, a sequence that is not newer.
Refused_replay(m) ==
  \/ Kept(mem)[m.release] \notin {NoManifest, m}
  \/ m.release \in {mem.current, mem.candidate.release, mem.rejected}

Refused(m) ==
  \/ Kept(mem)[m.release] \notin {NoManifest, m}
  \/ m.release \in {mem.current, mem.candidate.release, mem.rejected}
  \/ m.sequence <= mem.highest

BeginApply ==
  /\ pc = "begin" /\ op.kind = "apply"
  /\ stored' = Kept(mem)
  /\ IF Refused(op.manifest) THEN UNCHANGED disk /\ End
     ELSE /\ pc' = IF stored'[op.manifest.release] = NoManifest THEN "download" ELSE "replace"
          /\ UNCHANGED <<disk, op, mem, then>>
  /\ UNCHANGED <<pointer, lanes, faults, undone>>

\* Download into a staging directory that the next prune removes, verify, and
\* publish with one rename; a failure of any step ends the operation.
Download ==
  /\ pc = "download"
  /\ UNCHANGED <<disk, pointer, lanes, undone>>
  /\ LET published == [stored EXCEPT ![op.manifest.release] = op.manifest]
     IN \/ stored' = published /\ pc' = "replace" /\ UNCHANGED <<op, mem, then, faults>>
        \/ WriteFails /\ stored' \in {stored, published} /\ End

Perform_inMemory(action, c, after) ==
  /\ mem' = [mem EXCEPT !.pending = Transition(action, c)]
  /\ pc' = "hook" /\ then' = after
  /\ UNCHANGED <<disk, op, faults>>

\* perform_transition: the transition is durable before the hook is asked
Perform(action, c, after) ==
  WriteState([mem EXCEPT !.pending = Transition(action, c)], "hook", after)

\* an earlier candidate is rolled back first
Replace ==
  /\ pc = "replace"
  /\ IF mem.candidate = NoCandidate
     THEN pc' = "stage" /\ UNCHANGED <<disk, op, mem, then, faults>>
     ELSE Perform("rollback", mem.candidate, "stage")
  /\ UNCHANGED <<pointer, stored, lanes, undone>>

\* The high-water mark and the transition are one write.
Stage ==
  /\ pc = "stage"
  /\ WriteState([mem EXCEPT !.highest = op.manifest.sequence,
                           !.pending = Transition("stage_shadow",
                                                  Candidate(op.manifest.release, "shadow"))],
                "hook", "prune")
  /\ UNCHANGED <<pointer, stored, lanes, undone>>

\* A report that does not name the candidate and its stage is refused; the
\* others roll the candidate back or move it one stage on.
BeginReport ==
  /\ pc = "begin" /\ op.kind = "report"
  /\ LET r == op.release
     IN IF mem.candidate # Candidate(r, op.stage) THEN UNCHANGED <<disk, faults>> /\ End
        ELSE IF ~op.accepted THEN Perform("rollback", mem.candidate, "prune")
        ELSE IF op.stage = "shadow" THEN Perform("stage_canary", Candidate(r, "canary"), "prune")
        ELSE Perform("activate", Candidate(r, "active"), "prune")
  /\ UNCHANGED <<pointer, stored, lanes, undone>>

\* The last step of an operation.  One whose transition was rolled back returns
\* its error without pruning.
Finish ==
  /\ pc \in {"prune", "fail"}
  /\ stored' = IF pc = "prune" THEN Kept(mem) ELSE stored
  /\ UNCHANGED disk /\ End
  /\ UNCHANGED <<pointer, lanes, faults, undone>>

\* pruning stops at an error, some of the releases removed
PruneFails ==
  /\ pc = "prune" \/ (pc = "begin" /\ op.kind = "apply")
  /\ WriteFails
  /\ \E removed \in SUBSET (Releases \ InUse(mem)) :
       stored' = [r \in Releases |-> IF r \in removed THEN NoManifest ELSE stored[r]]
  /\ UNCHANGED disk /\ End
  /\ UNCHANGED <<pointer, lanes, undone>>

-----------------------------------------------------------------------------
(* The process dies: the lock goes with it, the disk stays.                 *)

Crash ==
  /\ pc # "idle"
  /\ faults.crashes > 0 /\ faults' = [faults EXCEPT !.crashes = @ - 1]
  /\ UNCHANGED disk /\ End
  /\ UNCHANGED <<pointer, stored, lanes, undone>>

Step == HookSucceeds \/ HookFails \/ WritePointer \/ Fallback \/ Commit \/ BeginApply
          \/ Download \/ Replace \/ Stage \/ BeginReport \/ Finish \/ PruneFails

Polls == [kind: {"apply"}, manifest: Manifests]

Next == Step \/ Crash \/ \E o \in Ops : Begin(o)

\* An operation goes on until it returns or crashes, and the watch, which
\* systemd restarts when it fails, polls again whatever is published.
Fairness == WF_vars(Step) /\ WF_vars(\E o \in Polls : Begin(o))

Spec == Init /\ [][Next]_vars
FairSpec == Spec /\ Fairness

-----------------------------------------------------------------------------
(* Properties                                                               *)

Candidates == [release: Releases, stage: Stages] \cup {NoCandidate}
States ==
  [current: Releases \cup {None}, previous: Releases \cup {None}, candidate: Candidates,
   rejected: Releases \cup {None}, highest: Nat,
   pending: [action: Actions, candidate: Candidates \ {NoCandidate}] \cup {NoPending}]

TypeOK ==
  /\ disk \in States /\ mem \in States
  /\ pointer \in Releases \cup {None}
  /\ stored \in [Releases -> Manifests \cup {NoManifest}]
  /\ lanes \in [candidate: Candidates, live: Releases \cup {None}]
  /\ pc \in {"idle", "begin", "hook", "pointer", "fallback", "commit", "download", "replace",
             "stage", "prune", "fail"}
  /\ op \in Ops \cup {NoOp}
  /\ then \in {"begin", "stage", "prune", "fail"}
  /\ faults \in FaultRecords
  /\ undone \subseteq Releases
  /\ mem = disk

\* Whatever crashed or failed on the way: while device.json records no pending
\* transition, the serving process has loaded the candidate at its stage and
\* serves the current release.
ServingAgreesWithDevice ==
  disk.pending = NoPending => lanes = [candidate |-> disk.candidate, live |-> disk.current]

\* Pruning never takes a release that device.json names, that is served, or
\* that may be restored; and the pointer names another release than the
\* current one only while its activation is pending or after it was undone.
ReleasesInUseAreStored ==
  /\ \A r \in (InUse(disk) \cup {lanes.live, lanes.candidate.release}) \ {None} :
       stored[r] # NoManifest
  /\ pointer # disk.current =>
       pointer \in undone \cup {disk.pending.candidate.release}

\* The claim that a failed stage leaves the last active release untouched:
\* between operations with nothing pending, the pointer names the release that
\* was activated last.
PointerNamesCurrent ==
  pc = "idle" /\ disk.pending = NoPending /\ disk.current # None => pointer = disk.current

\* Releases move one way: a release enters the shadow stage only with a
\* sequence above every earlier one, under the manifest its id is bound to, and
\* becomes current only as the canary that device.json held.
RolloutMovesForward ==
  [][/\ disk'.highest >= disk.highest
     /\ disk'.pending # disk.pending /\ disk'.pending.action = "stage_shadow" =>
          disk'.highest > disk.highest
            /\ stored[disk'.pending.candidate.release].sequence = disk'.highest
     /\ disk'.current # disk.current =>
          disk.candidate = Candidate(disk'.current, "canary") /\ pointer = disk'.current]_vars

\* A transition that was begun is completed or rolled back once the crashes
\* and failures stop, by the next poll at the latest.
PendingIsResolved == disk.pending # NoPending ~> disk.pending = NoPending
=============================================================================
