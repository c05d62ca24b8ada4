-------------------------- MODULE EdgeUpdate_proofs --------------------------
(***************************************************************************)
(* What a device holds and serves, for every number of releases, manifests, *)
(* crashes and failures.                                                    *)
(***************************************************************************)
EXTENDS EdgeUpdate, TLAPS

USE EdgeAssumption

PCs == {"idle", "begin", "hook", "pointer", "fallback", "commit", "download", "replace",
        "stage", "prune", "fail"}
Thens == {"begin", "stage", "prune", "fail"}
Completing == {"hook", "pointer", "fallback", "commit"}
PendingRecords == [action: Actions, candidate: Candidates \ {NoCandidate}]

\* How far the serving process may be ahead of device.json.
LanesInv ==
  LET p == disk.pending
  IN /\ p = NoPending => lanes = [candidate |-> disk.candidate, live |-> disk.current]
     /\ lanes.live \in {disk.current, p.candidate.release}
     /\ lanes.candidate.release \in {None, disk.candidate.release, p.candidate.release}
     /\ p.action \in {"stage_shadow", "stage_canary"} => lanes.live = disk.current
     /\ p.action = "activate" => disk.candidate = Candidate(p.candidate.release, "canary")

StoredInv == \A r \in InUse(disk) \ {None} : stored[r] # NoManifest

PointerInv ==
  \/ pointer = disk.current
  \/ pointer \in undone
  \/ disk.pending.action = "activate" /\ pointer = disk.pending.candidate.release

\* What the operation at each step knows about the state it works on.
PhaseInv ==
  LET p == disk.pending
  IN /\ pc \in Completing => p # NoPending
     /\ pc \notin Completing \cup {"idle"} => p = NoPending
     /\ pc = "pointer" =>
          p.action = "activate" /\ lanes = [candidate |-> NoCandidate, live |-> p.candidate.release]
     /\ pc = "fallback" => p.action # "rollback"
     /\ pc = "commit" =>
          /\ lanes = [candidate |-> Completed(disk).candidate, live |-> Completed(disk).current]
          /\ p.action = "activate" => pointer = p.candidate.release
     /\ pc # "idle" => op \in Ops
     /\ pc \in {"idle", "begin", "download", "replace"} => then = "begin"
     /\ pc \in {"download", "replace", "stage"} \/ then = "stage" =>
          op.kind = "apply" /\ op.manifest.sequence > disk.highest
     /\ pc \in {"replace", "stage"} \/ then = "stage" =>
          stored[op.manifest.release] = op.manifest

IInv == TypeOK /\ LanesInv /\ StoredInv /\ PointerInv /\ PhaseInv

-----------------------------------------------------------------------------
(* The operators of the model *)

LEMMA CompletedResult ==
  ASSUME NEW d \in States, d.pending # NoPending
  PROVE  /\ Completed(d) \in States
         /\ Completed(d).pending = NoPending /\ Completed(d).highest = d.highest
         /\ d.pending.action = "activate" =>
              /\ Completed(d).current = d.pending.candidate.release
              /\ Completed(d).previous = d.current
              /\ Completed(d).candidate = NoCandidate
         /\ d.pending.action # "activate" =>
              Completed(d).current = d.current /\ Completed(d).previous = d.previous
         /\ d.pending.action = "rollback" => Completed(d).candidate = NoCandidate
         /\ d.pending.action \in {"stage_shadow", "stage_canary"} =>
              Completed(d).candidate = d.pending.candidate
<1> DEFINE p == d.pending
<1>1. p \in PendingRecords  BY DEF States, PendingRecords
<1>2. NoPending \in {NoPending} /\ p.action \in Actions /\ p.candidate \in Candidates
  BY <1>1 DEF PendingRecords
<1>3. NoCandidate \in Candidates  BY DEF Candidates
<1>4. p.candidate.release \in Releases
  BY <1>1 DEF PendingRecords, Candidates
<1>5. CASE p.action = "activate"
  BY <1>1, <1>3, <1>4, <1>5 DEF Completed, States
<1>6. CASE p.action = "rollback"
  BY <1>1, <1>3, <1>4, <1>6 DEF Completed, States
<1>7. CASE p.action \in {"stage_shadow", "stage_canary"}
  BY <1>1, <1>2, <1>3, <1>4, <1>7 DEF Completed, States
<1> QED  BY <1>2, <1>5, <1>6, <1>7 DEF Actions

LEMMA HookEffectResult ==
  ASSUME TypeOK, disk.pending # NoPending
  PROVE  /\ HookEffect \in [candidate: Candidates, live: Releases \cup {None}]
         /\ disk.pending.action = "activate" =>
              HookEffect = [candidate |-> NoCandidate, live |-> disk.pending.candidate.release]
         /\ disk.pending.action = "rollback" =>
              HookEffect = [candidate |-> NoCandidate, live |-> disk.current]
         /\ disk.pending.action \in {"stage_shadow", "stage_canary"} =>
              HookEffect = [candidate |-> disk.pending.candidate, live |-> lanes.live]
<1> DEFINE p == disk.pending
<1>1. p \in PendingRecords /\ mem = disk /\ disk.current \in Releases \cup {None}
      /\ lanes \in [candidate: Candidates, live: Releases \cup {None}]
  BY DEF TypeOK, States, PendingRecords
<1>2. NoCandidate \in Candidates /\ p.candidate \in Candidates /\ p.candidate.release \in Releases
      /\ p.action \in Actions
  BY <1>1 DEF PendingRecords, Candidates
<1>3. CASE p.action = "activate"  BY <1>1, <1>2, <1>3 DEF HookEffect
<1>4. CASE p.action = "rollback"  BY <1>1, <1>2, <1>4 DEF HookEffect
<1>5. CASE p.action \in {"stage_shadow", "stage_canary"}  BY <1>1, <1>2, <1>5 DEF HookEffect
<1> QED  BY <1>2, <1>3, <1>4, <1>5 DEF Actions

LEMMA WriteStateResult ==
  ASSUME TypeOK, NEW s \in States, NEW next \in PCs, NEW after \in Thens,
         WriteState(s, next, after)
  PROVE  /\ disk' \in States /\ mem' = disk' /\ faults' \in FaultRecords
         /\ pc' \in PCs /\ then' \in Thens /\ op' \in Ops \cup {NoOp}
         /\ \/ disk' = s /\ pc' = next /\ then' = after /\ op' = op
            \/ disk' \in {disk, s} /\ pc' = "idle" /\ then' = "begin" /\ op' = NoOp
<1>1. CASE disk' = s /\ mem' = s /\ pc' = next /\ then' = after /\ UNCHANGED <<op, faults>>
  BY <1>1 DEF TypeOK
<1>2. CASE WriteFails /\ disk' \in {disk, s} /\ End
  <2>1. faults' \in FaultRecords  BY <1>2 DEF TypeOK, WriteFails, FaultRecords
  <2> QED  BY <1>2, <2>1 DEF TypeOK, End, PCs, Thens
<1> QED  BY <1>1, <1>2 DEF WriteState

LEMMA KeptResult ==
  ASSUME TypeOK
  PROVE  /\ Kept(mem) \in [Releases -> Manifests \cup {NoManifest}]
         /\ \A r \in Releases \cap InUse(disk) : Kept(mem)[r] = stored[r]
BY DEF TypeOK, Kept

\* End as a step that leaves device.json alone, whatever step it ends
LEMMA EndResult ==
  ASSUME TypeOK, UNCHANGED disk, End
  PROVE  /\ disk' \in States /\ mem' = disk'
         /\ pc' = "idle" /\ then' = "begin" /\ op' = NoOp
         /\ pc' \in PCs /\ then' \in Thens /\ op' \in Ops \cup {NoOp}
BY DEF TypeOK, End, PCs, Thens

-----------------------------------------------------------------------------
(* Every step keeps the invariant *)

\* A step that ends the operation leaves nothing to PhaseInv.
LEMMA Idle ==
  ASSUME pc' = "idle", then' = "begin"
  PROVE  PhaseInv'
BY DEF PhaseInv, Completing

LEMMA InitIInv == Init => IInv
<1> SUFFICES ASSUME Init PROVE IInv  OBVIOUS
<1>1. Enrolled \in States  BY DEF Enrolled, States, Candidates, NoPending
<1>2. TypeOK
  BY <1>1 DEF Init, TypeOK, Candidates, FaultRecords
<1>3. LanesInv /\ StoredInv /\ PointerInv
  BY DEF Init, Enrolled, LanesInv, StoredInv, PointerInv, InUse, NoPending, NoCandidate
<1>4. PhaseInv  BY DEF Init, PhaseInv, Completing
<1> QED  BY <1>2, <1>3, <1>4 DEF IInv

LEMMA HookSucceedsStep == ASSUME IInv, HookSucceeds PROVE IInv'
<1> DEFINE p == disk.pending
<1>0. TypeOK /\ mem = disk /\ p # NoPending /\ pc = "hook" /\ lanes' = HookEffect
      /\ UNCHANGED <<disk, pointer, stored, op, mem, then, faults, undone>>
  BY DEF IInv, TypeOK, PhaseInv, Completing, HookSucceeds
<1>1. p \in PendingRecords /\ disk \in States
  BY <1>0 DEF TypeOK, States, PendingRecords
<1>2. TypeOK'
  BY <1>0, HookEffectResult DEF TypeOK, HookSucceeds
<1>3. LanesInv'
  BY <1>0, <1>1, HookEffectResult
  DEF IInv, LanesInv, PendingRecords, Actions, Candidates, NoCandidate, Candidate
<1>4. StoredInv' /\ PointerInv'
  BY <1>0 DEF IInv, StoredInv, PointerInv, InUse
<1>5. PhaseInv'
  <2>1. CASE p.action = "activate"
    BY <1>0, <2>1, HookEffectResult DEF IInv, PhaseInv, Completing, HookSucceeds
  <2>2. CASE p.action = "rollback"
    BY <1>0, <1>1, <2>2, HookEffectResult, CompletedResult DEF IInv, PhaseInv, Completing, HookSucceeds
  <2>3. CASE p.action \in {"stage_shadow", "stage_canary"}
    BY <1>0, <1>1, <2>3, HookEffectResult, CompletedResult
    DEF IInv, LanesInv, PhaseInv, Completing, HookSucceeds
  <2> QED  BY <1>1, <2>1, <2>2, <2>3 DEF PendingRecords, Actions
<1> QED  BY <1>2, <1>3, <1>4, <1>5 DEF IInv

LEMMA HookFailsStep == ASSUME IInv, HookFails PROVE IInv'
<1> DEFINE p == disk.pending
<1>0. TypeOK /\ mem = disk /\ p # NoPending /\ pc = "hook" /\ lanes' \in {lanes, HookEffect}
      /\ UNCHANGED <<disk, pointer, stored, undone>>
  BY DEF IInv, TypeOK, PhaseInv, Completing, HookFails
<1>1. p \in PendingRecords
  BY <1>0 DEF TypeOK, States, PendingRecords
<1>2. TypeOK'
  <2>1. faults' \in FaultRecords  BY <1>0 DEF TypeOK, HookFails, FaultRecords
  <2>2. CASE End  BY <1>0, <2>1, <2>2, HookEffectResult, EndResult DEF TypeOK
  <2>3. CASE pc' = "fallback" /\ UNCHANGED <<op, mem, then>>
    BY <1>0, <2>1, <2>3, HookEffectResult DEF TypeOK
  <2> QED  BY <2>2, <2>3 DEF HookFails
<1>3. LanesInv'
  BY <1>0, <1>1, HookEffectResult
  DEF IInv, LanesInv, PendingRecords, Actions, Candidates, NoCandidate, Candidate
<1>4. StoredInv' /\ PointerInv'
  BY <1>0 DEF IInv, StoredInv, PointerInv, InUse
<1>5. PhaseInv'
  <2>1. CASE p.action = "rollback"
    BY <1>0, <2>1, Idle DEF HookFails, End
  <2>2. CASE p.action # "rollback"
    BY <1>0, <2>2 DEF HookFails, IInv, PhaseInv, Completing
  <2> QED  BY <2>1, <2>2
<1> QED  BY <1>2, <1>3, <1>4, <1>5 DEF IInv

LEMMA WritePointerStep == ASSUME IInv, WritePointer PROVE IInv'
<1> DEFINE p == disk.pending
<1>0. TypeOK /\ mem = disk /\ p # NoPending /\ p.action = "activate" /\ pc = "pointer"
      /\ lanes = [candidate |-> NoCandidate, live |-> p.candidate.release]
      /\ pointer' \in {pointer, p.candidate.release}
      /\ UNCHANGED <<disk, stored, lanes, op, mem, then, undone>>
  BY DEF IInv, TypeOK, PhaseInv, Completing, WritePointer
<1>1. p \in PendingRecords /\ disk \in States
  BY <1>0 DEF TypeOK, States, PendingRecords
<1>2. TypeOK'
  <2>1. faults' \in FaultRecords  BY <1>0 DEF TypeOK, WritePointer, WriteFails, FaultRecords
  <2>2. pointer' \in Releases \cup {None}
    BY <1>0, <1>1 DEF TypeOK, PendingRecords, Candidates
  <2> QED  BY <1>0, <2>1, <2>2 DEF TypeOK, WritePointer
<1>3. LanesInv' /\ StoredInv' /\ PointerInv'
  BY <1>0 DEF IInv, LanesInv, StoredInv, PointerInv, InUse
<1>4. PhaseInv'
  <2>1. CASE pointer' = p.candidate.release /\ pc' = "commit"
    BY <1>0, <1>1, <2>1, CompletedResult DEF IInv, PhaseInv, Completing
  <2>2. CASE pc' = "fallback"
    BY <1>0, <2>2 DEF IInv, PhaseInv, Completing
  <2> QED  BY <1>0, <2>1, <2>2 DEF WritePointer
<1> QED  BY <1>2, <1>3, <1>4 DEF IInv

LEMMA FallbackStep == ASSUME IInv, Fallback PROVE IInv'
<1> DEFINE p == disk.pending
           s == [disk EXCEPT !.pending.action = "rollback"]
<1>0. TypeOK /\ mem = disk /\ p # NoPending /\ p.action # "rollback" /\ pc = "fallback"
      /\ WriteState(s, "hook", "fail")
      /\ UNCHANGED <<pointer, stored, lanes>>
  BY DEF IInv, TypeOK, PhaseInv, Completing, Fallback
<1>1. p \in PendingRecords /\ disk \in States
  BY <1>0 DEF TypeOK, States, PendingRecords
<1>2. s \in States /\ s.pending # NoPending /\ s.pending.action = "rollback"
      /\ s.pending.candidate = p.candidate
      /\ s.current = disk.current /\ s.previous = disk.previous /\ s.candidate = disk.candidate
      /\ s.highest = disk.highest
  <2>1. [p EXCEPT !.action = "rollback"] \in PendingRecords
    BY <1>1 DEF PendingRecords, Actions
  <2> QED  BY <1>1, <2>1 DEF States, PendingRecords, NoPending, Candidates
<1>3. /\ disk' \in States /\ mem' = disk' /\ faults' \in FaultRecords
      /\ pc' \in PCs /\ then' \in Thens /\ op' \in Ops \cup {NoOp}
      /\ \/ disk' = s /\ pc' = "hook" /\ then' = "fail" /\ op' = op
         \/ disk' \in {disk, s} /\ pc' = "idle" /\ then' = "begin" /\ op' = NoOp
  BY <1>0, <1>2, WriteStateResult DEF PCs, Thens
<1>4. undone \subseteq undone' /\ undone' \subseteq Releases
      /\ (pointer = p.candidate.release => pointer \in undone')
  BY <1>0, <1>1 DEF TypeOK, Fallback, PendingRecords, Candidates
<1>5. TypeOK'
  BY <1>0, <1>3, <1>4 DEF TypeOK, PCs, Thens
<1>6. LanesInv' /\ StoredInv' /\ PointerInv'
  <2>1. CASE disk' = disk
    BY <1>0, <1>4, <2>1 DEF IInv, LanesInv, StoredInv, PointerInv, InUse
  <2>2. CASE disk' = s
    <3>1. LanesInv'  BY <1>0, <1>2, <2>2 DEF IInv, LanesInv
    <3>2. StoredInv'  BY <1>0, <1>2, <2>2 DEF IInv, StoredInv, InUse
    <3>3. PointerInv'  BY <1>0, <1>2, <1>4, <2>2 DEF IInv, PointerInv
    <3> QED  BY <3>1, <3>2, <3>3
  <2> QED  BY <1>3, <2>1, <2>2
<1>7. PhaseInv'
  <2>1. CASE pc' = "idle"  BY <1>3, <2>1, Idle
  <2>2. CASE pc' = "hook"
    BY <1>0, <1>2, <1>3, <2>2 DEF IInv, PhaseInv, Completing
  <2> QED  BY <1>3, <2>1, <2>2
<1> QED  BY <1>5, <1>6, <1>7 DEF IInv

\* Commit goes on only from a state without a pending transition.
LEMMA CommitStep == ASSUME IInv, Commit PROVE IInv'
<1> DEFINE p == disk.pending
           s == Completed(disk)
<1>0. TypeOK /\ mem = disk /\ p # NoPending /\ pc = "commit"
      /\ WriteState(s, then, then) /\ then \in Thens
      /\ UNCHANGED <<pointer, stored, lanes, undone>>
      /\ lanes = [candidate |-> s.candidate, live |-> s.current]
  BY DEF IInv, TypeOK, PhaseInv, Completing, Commit, Thens
<1>1. p \in PendingRecords /\ disk \in States
  BY <1>0 DEF TypeOK, States, PendingRecords
<1>2. s \in States /\ s.pending = NoPending /\ s.highest = disk.highest
  BY <1>0, <1>1, CompletedResult
<1>3. /\ disk' \in States /\ mem' = disk' /\ faults' \in FaultRecords
      /\ pc' \in PCs /\ then' \in Thens /\ op' \in Ops \cup {NoOp}
      /\ \/ disk' = s /\ pc' = then /\ then' = then /\ op' = op
         \/ disk' \in {disk, s} /\ pc' = "idle" /\ then' = "begin" /\ op' = NoOp
  <2>1. then \in PCs  BY <1>0 DEF PCs, Thens
  <2> QED  BY <1>0, <1>2, <2>1, WriteStateResult
<1>4. TypeOK'
  BY <1>0, <1>3 DEF TypeOK, PCs, Thens
<1>5. LanesInv' /\ StoredInv' /\ PointerInv'
  <2>1. CASE disk' = disk
    BY <1>0, <2>1 DEF IInv, LanesInv, StoredInv, PointerInv, InUse
  <2>2. CASE disk' = s
    <3>1. LanesInv'
      BY <1>0, <1>2, <2>2 DEF LanesInv, NoPending
    <3>2. InUse(s) \subseteq InUse(disk) \cup {None}
      BY <1>0, <1>1, <1>2, CompletedResult
      DEF InUse, PendingRecords, Actions, NoPending, NoCandidate
    <3>3. StoredInv'  BY <1>0, <2>2, <3>2 DEF IInv, StoredInv
    <3>4. PointerInv'
      BY <1>0, <1>1, <2>2, CompletedResult DEF IInv, PointerInv, PhaseInv
    <3> QED  BY <3>1, <3>3, <3>4
  <2> QED  BY <1>3, <2>1, <2>2
<1>6. PhaseInv'
  <2>1. CASE pc' = "idle" /\ then' = "begin"  BY <2>1, Idle
  <2>2. CASE disk' = s /\ pc' = then /\ then' = then /\ op' = op
    BY <1>0, <1>2, <2>2 DEF IInv, PhaseInv, Completing, Thens
  <2> QED  BY <1>3, <2>1, <2>2
<1> QED  BY <1>4, <1>5, <1>6 DEF IInv

LEMMA BeginStep == ASSUME IInv, NEW o \in Ops, Begin(o) PROVE IInv'
<1>1. TypeOK'  BY DEF IInv, TypeOK, Begin
<1>2. LanesInv' /\ StoredInv' /\ PointerInv'
  BY DEF IInv, LanesInv, StoredInv, PointerInv, InUse, Begin
<1>3. PhaseInv'  BY DEF IInv, PhaseInv, Completing, Begin
<1> QED  BY <1>1, <1>2, <1>3 DEF IInv

LEMMA BeginApplyStep == ASSUME IInv, BeginApply PROVE IInv'
<1> DEFINE m == op.manifest
<1>0. TypeOK /\ mem = disk /\ disk \in States /\ pc = "begin" /\ op \in Ops /\ op.kind = "apply"
      /\ stored' = Kept(mem)
      /\ UNCHANGED <<disk, pointer, lanes, faults, undone>>
  BY DEF IInv, TypeOK, PhaseInv, BeginApply
<1>1. m \in ManifestRecords /\ m \in Manifests
  BY <1>0 DEF Ops
<1>2. TypeOK'
  <2>1. CASE End  BY <1>0, <2>1, KeptResult, EndResult DEF TypeOK
  <2>2. CASE pc' \in {"download", "replace"} /\ UNCHANGED <<op, mem, then>>
    BY <1>0, <2>2, KeptResult DEF TypeOK
  <2> QED  BY <1>0, <2>1, <2>2 DEF BeginApply
<1>3. LanesInv' /\ PointerInv'
  BY <1>0 DEF IInv, LanesInv, PointerInv
<1>4. StoredInv'
  <2>1. InUse(disk) \subseteq Releases \cup {None}
    BY <1>0 DEF InUse, States, Candidates, NoCandidate, NoPending
  <2> QED  BY <1>0, <2>1, KeptResult DEF IInv, StoredInv, InUse
<1>5. PhaseInv'
  <2>1. CASE Refused(m)  BY <2>1, Idle DEF BeginApply, End
  <2>2. CASE ~Refused(m)
    <3>1. stored'[m.release] \in {NoManifest, m} /\ m.sequence > disk.highest
      BY <1>0, <1>1, <2>2 DEF Refused, States, ManifestRecords
    <3>2. pc' = IF stored'[m.release] = NoManifest THEN "download" ELSE "replace"
      BY <2>2 DEF BeginApply
    <3>3. UNCHANGED <<op, then>>  BY <2>2 DEF BeginApply
    <3> QED  BY <1>0, <3>1, <3>2, <3>3 DEF IInv, PhaseInv, Completing
  <2> QED  BY <2>1, <2>2
<1> QED  BY <1>2, <1>3, <1>4, <1>5 DEF IInv

LEMMA DownloadStep == ASSUME IInv, Download PROVE IInv'
<1> DEFINE m == op.manifest
           published == [stored EXCEPT ![m.release] = m]
<1>0. TypeOK /\ mem = disk /\ pc = "download" /\ op \in Ops /\ op.kind = "apply"
      /\ m.sequence > disk.highest /\ disk.pending = NoPending
      /\ stored' \in {stored, published}
      /\ UNCHANGED <<disk, pointer, lanes, undone>>
  BY DEF IInv, TypeOK, PhaseInv, Completing, Download
<1>1. m \in ManifestRecords /\ m \in Manifests /\ m # NoManifest
  BY <1>0 DEF Ops, ManifestRecords, NoManifest
<1>2. published \in [Releases -> Manifests \cup {NoManifest}]
      /\ published[m.release] = m
      /\ \A r \in Releases : stored[r] # NoManifest => published[r] # NoManifest
  BY <1>0, <1>1 DEF TypeOK, ManifestRecords
<1>3. TypeOK'
  <2>1. CASE WriteFails /\ End
    <3>1. faults' \in FaultRecords  BY <1>0, <2>1 DEF TypeOK, WriteFails, FaultRecords
    <3> QED  BY <1>0, <1>2, <2>1, <3>1, EndResult DEF TypeOK
  <2>2. CASE pc' = "replace" /\ UNCHANGED <<op, mem, then, faults>>
    BY <1>0, <1>2, <2>2 DEF TypeOK
  <2> QED  BY <2>1, <2>2 DEF Download
<1>4. LanesInv' /\ PointerInv'
  BY <1>0 DEF IInv, LanesInv, PointerInv
<1>5. StoredInv'
  <2>1. InUse(disk) \subseteq Releases \cup {None}
    BY <1>0 DEF TypeOK, InUse, States, Candidates, NoCandidate, NoPending
  <2> QED  BY <1>0, <1>2, <2>1 DEF IInv, StoredInv, InUse
<1>6. PhaseInv'
  <2>1. CASE WriteFails /\ End  BY <2>1, Idle DEF End
  <2>2. CASE stored' = published /\ pc' = "replace" /\ UNCHANGED <<op, mem, then, faults>>
    BY <1>0, <1>2, <2>2 DEF IInv, PhaseInv, Completing
  <2> QED  BY <2>1, <2>2 DEF Download
<1> QED  BY <1>3, <1>4, <1>5, <1>6 DEF IInv

LEMMA ReplaceStep == ASSUME IInv, Replace PROVE IInv'
<1> DEFINE c == disk.candidate
           s == [disk EXCEPT !.pending = Transition("rollback", c)]
<1>0. TypeOK /\ mem = disk /\ disk \in States /\ disk.pending = NoPending /\ pc = "replace"
      /\ UNCHANGED <<pointer, stored, lanes, undone>>
  BY DEF IInv, TypeOK, PhaseInv, Completing, Replace
<1>1. CASE c = NoCandidate
  <2>1. pc' = "stage" /\ UNCHANGED <<disk, op, mem, then, faults>>
    BY <1>0, <1>1 DEF Replace
  <2>2. TypeOK'  BY <1>0, <2>1 DEF TypeOK
  <2>3. LanesInv' /\ StoredInv' /\ PointerInv'
    BY <1>0, <2>1 DEF IInv, LanesInv, StoredInv, PointerInv, InUse
  <2>4. PhaseInv'  BY <1>0, <2>1 DEF IInv, PhaseInv, Completing
  <2> QED  BY <2>2, <2>3, <2>4 DEF IInv
<1>2. CASE c # NoCandidate
  <2>1. WriteState(s, "hook", "stage")
    BY <1>0, <1>2 DEF Replace, Perform
  <2>2. s \in States /\ s.pending = Transition("rollback", c) /\ s.pending # NoPending
        /\ s.current = disk.current /\ s.previous = disk.previous /\ s.candidate = c
        /\ s.highest = disk.highest /\ s.pending.action = "rollback"
        /\ s.pending.candidate = c
    BY <1>0, <1>2 DEF States, Transition, NoPending, Actions
  <2>3. /\ disk' \in States /\ mem' = disk' /\ faults' \in FaultRecords
        /\ pc' \in PCs /\ then' \in Thens /\ op' \in Ops \cup {NoOp}
        /\ \/ disk' = s /\ pc' = "hook" /\ then' = "stage" /\ op' = op
           \/ disk' \in {disk, s} /\ pc' = "idle" /\ then' = "begin" /\ op' = NoOp
    BY <1>0, <2>1, <2>2, WriteStateResult DEF PCs, Thens
  <2>4. TypeOK'  BY <1>0, <2>3 DEF TypeOK, PCs, Thens
  <2>5. LanesInv' /\ StoredInv' /\ PointerInv'
    <3>1. CASE disk' = disk
      BY <1>0, <3>1 DEF IInv, LanesInv, StoredInv, PointerInv, InUse
    <3>2. CASE disk' = s
      BY <1>0, <2>2, <3>2 DEF IInv, LanesInv, StoredInv, PointerInv, InUse, NoPending
    <3> QED  BY <2>3, <3>1, <3>2
  <2>6. PhaseInv'
    <3>1. CASE pc' = "idle"  BY <2>3, <3>1, Idle
    <3>2. CASE pc' = "hook"
      BY <1>0, <2>2, <2>3, <3>2 DEF IInv, PhaseInv, Completing
    <3> QED  BY <2>3, <3>1, <3>2
  <2> QED  BY <2>4, <2>5, <2>6 DEF IInv
<1> QED  BY <1>1, <1>2

LEMMA StageStep == ASSUME IInv, Stage PROVE IInv'
<1> DEFINE m == op.manifest
           c == Candidate(m.release, "shadow")
           s == [disk EXCEPT !.highest = m.sequence, !.pending = Transition("stage_shadow", c)]
<1>0. TypeOK /\ mem = disk /\ disk \in States /\ disk.pending = NoPending /\ pc = "stage"
      /\ op \in Ops /\ op.kind = "apply" /\ m.sequence > disk.highest
      /\ stored[m.release] = m
      /\ WriteState(s, "hook", "prune")
      /\ UNCHANGED <<pointer, stored, lanes, undone>>
  BY DEF IInv, TypeOK, PhaseInv, Completing, Stage
<1>1. m \in ManifestRecords /\ m \in Manifests /\ m # NoManifest
  BY <1>0 DEF Ops, ManifestRecords, NoManifest
<1>2. c \in Candidates \ {NoCandidate} /\ c.release = m.release
  BY <1>1 DEF Candidate, Candidates, Stages, ManifestRecords, NoCandidate
<1>3. s \in States /\ s.pending = Transition("stage_shadow", c) /\ s.pending # NoPending
      /\ s.current = disk.current /\ s.previous = disk.previous /\ s.candidate = disk.candidate
      /\ s.pending.action = "stage_shadow" /\ s.pending.candidate = c
  <2>1. Transition("stage_shadow", c) \in PendingRecords
    BY <1>2 DEF Transition, PendingRecords, Actions
  <2>2. m.sequence \in Nat  BY <1>1 DEF ManifestRecords
  <2>3. Transition("stage_shadow", c) # NoPending
    BY DEF Transition, NoPending
  <2> QED  BY <1>0, <2>1, <2>2, <2>3 DEF States, PendingRecords, Transition
<1>4. /\ disk' \in States /\ mem' = disk' /\ faults' \in FaultRecords
      /\ pc' \in PCs /\ then' \in Thens /\ op' \in Ops \cup {NoOp}
      /\ \/ disk' = s /\ pc' = "hook" /\ then' = "prune" /\ op' = op
         \/ disk' \in {disk, s} /\ pc' = "idle" /\ then' = "begin" /\ op' = NoOp
  BY <1>0, <1>3, WriteStateResult DEF PCs, Thens
<1>5. TypeOK'  BY <1>0, <1>4 DEF TypeOK, PCs, Thens
<1>6. LanesInv' /\ StoredInv' /\ PointerInv'
  <2>1. CASE disk' = disk
    BY <1>0, <2>1 DEF IInv, LanesInv, StoredInv, PointerInv, InUse
  <2>2. CASE disk' = s
    BY <1>0, <1>1, <1>2, <1>3, <2>2 DEF IInv, LanesInv, StoredInv, PointerInv, InUse, NoPending
  <2> QED  BY <1>4, <2>1, <2>2
<1>7. PhaseInv'
  <2>1. CASE pc' = "idle"  BY <1>4, <2>1, Idle
  <2>2. CASE pc' = "hook"
    BY <1>0, <1>3, <1>4, <2>2 DEF PhaseInv, Completing
  <2> QED  BY <1>4, <2>1, <2>2
<1> QED  BY <1>5, <1>6, <1>7 DEF IInv

\* The transitions a report asks for: each about the candidate that is there.
LEMMA PerformForCandidate ==
  ASSUME IInv, pc = "begin", disk.candidate # NoCandidate,
         NEW action \in {"stage_canary", "activate", "rollback"},
         NEW c \in Candidates, c.release = disk.candidate.release, c # NoCandidate,
         action = "activate" => disk.candidate = Candidate(c.release, "canary"),
         Perform(action, c, "prune"),
         UNCHANGED <<pointer, stored, lanes, undone>>
  PROVE  IInv'
<1> DEFINE s == [disk EXCEPT !.pending = Transition(action, c)]
<1>0. TypeOK /\ mem = disk /\ disk \in States /\ disk.pending = NoPending /\ op \in Ops
      /\ WriteState(s, "hook", "prune")
  BY DEF IInv, TypeOK, PhaseInv, Completing, Perform
<1>1. s \in States /\ s.pending = Transition(action, c) /\ s.pending # NoPending
      /\ s.current = disk.current /\ s.previous = disk.previous /\ s.candidate = disk.candidate
      /\ s.pending.action = action /\ s.pending.candidate = c
  <2>1. Transition(action, c) \in PendingRecords
    BY DEF Transition, PendingRecords, Actions
  <2>2. Transition(action, c) # NoPending
    BY DEF Transition, NoPending
  <2> QED  BY <1>0, <2>1, <2>2 DEF States, PendingRecords, Transition
<1>2. /\ disk' \in States /\ mem' = disk' /\ faults' \in FaultRecords
      /\ pc' \in PCs /\ then' \in Thens /\ op' \in Ops \cup {NoOp}
      /\ \/ disk' = s /\ pc' = "hook" /\ then' = "prune" /\ op' = op
         \/ disk' \in {disk, s} /\ pc' = "idle" /\ then' = "begin" /\ op' = NoOp
  BY <1>0, <1>1, WriteStateResult DEF PCs, Thens
<1>3. TypeOK'  BY <1>0, <1>2 DEF TypeOK, PCs, Thens
<1>4. LanesInv' /\ StoredInv' /\ PointerInv'
  <2>1. CASE disk' = disk
    BY <1>0, <2>1 DEF IInv, LanesInv, StoredInv, PointerInv, InUse
  <2>2. CASE disk' = s
    BY <1>0, <1>1, <2>2 DEF IInv, LanesInv, StoredInv, PointerInv, InUse, NoPending
  <2> QED  BY <1>2, <2>1, <2>2
<1>5. PhaseInv'
  <2>1. CASE pc' = "idle"  BY <1>2, <2>1, Idle
  <2>2. CASE pc' = "hook"
    BY <1>0, <1>1, <1>2, <2>2 DEF IInv, PhaseInv, Completing
  <2> QED  BY <1>2, <2>1, <2>2
<1> QED  BY <1>3, <1>4, <1>5 DEF IInv

LEMMA BeginReportStep == ASSUME IInv, BeginReport PROVE IInv'
<1> DEFINE r == op.release
<1>0. TypeOK /\ mem = disk /\ disk \in States /\ pc = "begin" /\ op \in Ops /\ op.kind = "report"
      /\ UNCHANGED <<pointer, stored, lanes, undone>>
  BY DEF IInv, TypeOK, PhaseInv, BeginReport
<1>1. r \in Releases /\ op.stage \in {"shadow", "canary"} /\ op.accepted \in BOOLEAN
  BY <1>0 DEF Ops
<1>2. CASE mem.candidate # Candidate(r, op.stage)
  <2>1. UNCHANGED <<disk, faults>> /\ End  BY <1>2 DEF BeginReport
  <2>2. TypeOK'  BY <1>0, <2>1, EndResult DEF TypeOK
  <2>3. LanesInv' /\ StoredInv' /\ PointerInv'
    BY <1>0, <2>1 DEF IInv, LanesInv, StoredInv, PointerInv, InUse
  <2> QED  BY <2>1, <2>2, <2>3, Idle DEF IInv, End
<1>3. CASE mem.candidate = Candidate(r, op.stage)
  <2>1. disk.candidate # NoCandidate /\ disk.candidate.release = r /\ disk.candidate \in Candidates
    BY <1>0, <1>1, <1>3 DEF States, Candidate, NoCandidate
  <2>2. \A stage \in Stages : Candidate(r, stage) \in Candidates
                               /\ Candidate(r, stage).release = r /\ Candidate(r, stage) # NoCandidate
    BY <1>1 DEF Candidate, Candidates, NoCandidate
  <2>3. CASE ~op.accepted
    <3>1. Perform("rollback", mem.candidate, "prune")  BY <1>3, <2>3 DEF BeginReport
    <3> QED  BY <1>0, <2>1, <3>1, PerformForCandidate
  <2>4. CASE op.accepted /\ op.stage = "shadow"
    <3>1. Perform("stage_canary", Candidate(r, "canary"), "prune")  BY <1>3, <2>4 DEF BeginReport
    <3> QED  BY <1>0, <2>1, <2>2, <3>1, PerformForCandidate DEF Stages
  <2>5. CASE op.accepted /\ op.stage = "canary"
    <3>1. Perform("activate", Candidate(r, "active"), "prune")  BY <1>3, <2>5 DEF BeginReport
    <3> QED  BY <1>0, <1>3, <2>1, <2>2, <2>5, <3>1, PerformForCandidate DEF Stages
  <2> QED  BY <1>1, <2>3, <2>4, <2>5
<1> QED  BY <1>2, <1>3

\* Steps that end the operation and touch at most the releases not in use
LEMMA LeaveStep ==
  ASSUME IInv, UNCHANGED <<disk, pointer, lanes, undone>>, End,
         faults' \in FaultRecords,
         stored' \in [Releases -> Manifests \cup {NoManifest}],
         \A r \in Releases \cap InUse(disk) : stored'[r] = stored[r]
  PROVE  IInv'
<1>0. TypeOK /\ disk \in States  BY DEF IInv, TypeOK
<1>1. TypeOK'  BY <1>0, EndResult DEF TypeOK
<1>2. LanesInv' /\ PointerInv'  BY DEF IInv, LanesInv, PointerInv
<1>3. StoredInv'
  <2>1. InUse(disk) \subseteq Releases \cup {None}
    BY <1>0 DEF InUse, States, Candidates, NoCandidate, NoPending
  <2> QED  BY <2>1 DEF IInv, StoredInv, InUse
<1> QED  BY <1>1, <1>2, <1>3, Idle DEF IInv, End

LEMMA FinishStep == ASSUME IInv, Finish PROVE IInv'
<1>1. stored' \in [Releases -> Manifests \cup {NoManifest}]
      /\ \A r \in Releases \cap InUse(disk) : stored'[r] = stored[r]
  BY KeptResult DEF IInv, TypeOK, Finish
<1>2. faults' \in FaultRecords  BY DEF IInv, TypeOK, Finish
<1> QED  BY <1>1, <1>2, LeaveStep DEF Finish

LEMMA PruneFailsStep == ASSUME IInv, PruneFails PROVE IInv'
<1>1. stored' \in [Releases -> Manifests \cup {NoManifest}]
      /\ \A r \in Releases \cap InUse(disk) : stored'[r] = stored[r]
  BY DEF IInv, TypeOK, PruneFails
<1>2. faults' \in FaultRecords  BY DEF IInv, TypeOK, PruneFails, WriteFails, FaultRecords
<1> QED  BY <1>1, <1>2, LeaveStep DEF PruneFails

LEMMA CrashStep == ASSUME IInv, Crash PROVE IInv'
<1>1. faults' \in FaultRecords  BY DEF IInv, TypeOK, Crash, FaultRecords
<1>2. stored' \in [Releases -> Manifests \cup {NoManifest}]  BY DEF IInv, TypeOK, Crash
<1> QED  BY <1>1, <1>2, LeaveStep DEF Crash

LEMMA StutterStep == ASSUME IInv, UNCHANGED vars PROVE IInv'
BY DEF IInv, TypeOK, LanesInv, StoredInv, PointerInv, PhaseInv, InUse, vars

LEMMA InductiveStep == IInv /\ [Next]_vars => IInv'
<1> SUFFICES ASSUME IInv, [Next]_vars PROVE IInv'  OBVIOUS
<1>1. CASE Step
  BY <1>1, HookSucceedsStep, HookFailsStep, WritePointerStep, FallbackStep, CommitStep,
     BeginApplyStep, DownloadStep, ReplaceStep, StageStep, BeginReportStep, FinishStep,
     PruneFailsStep DEF Step
<1>2. CASE Crash  BY <1>2, CrashStep
<1>3. CASE \E o \in Ops : Begin(o)  BY <1>3, BeginStep
<1>4. CASE UNCHANGED vars  BY <1>4, StutterStep
<1> QED  BY <1>1, <1>2, <1>3, <1>4 DEF Next

-----------------------------------------------------------------------------
(* The theorems *)

\* The invariant of every reachable state.
THEOREM EdgeInvariant == Spec => []IInv
BY InitIInv, InductiveStep, PTL DEF Spec

\* What the operations hold in memory is what device.json holds, at every step
\* and after every crash; and the types.
THEOREM EdgeTypes == Spec => []TypeOK
<1>1. IInv => TypeOK  BY DEF IInv
<1> QED  BY EdgeInvariant, <1>1, PTL

\* A device without a pending transition serves the release device.json calls
\* current, and has its candidate loaded at its stage.
THEOREM DeviceServesItsState == Spec => []ServingAgreesWithDevice
<1>1. IInv => ServingAgreesWithDevice
  BY DEF IInv, LanesInv, ServingAgreesWithDevice
<1> QED  BY EdgeInvariant, <1>1, PTL

\* No release that is recorded or served is ever pruned, and the pointer goes
\* astray only through an activation that was undone after it wrote it.
THEOREM UsedReleasesStay == Spec => []ReleasesInUseAreStored
<1>1. IInv => ReleasesInUseAreStored
  BY DEF IInv, LanesInv, StoredInv, PointerInv, ReleasesInUseAreStored, InUse
<1> QED  BY EdgeInvariant, <1>1, PTL

MovesForward ==
  /\ disk'.highest >= disk.highest
  /\ disk'.pending # disk.pending /\ disk'.pending.action = "stage_shadow" =>
       disk'.highest > disk.highest
         /\ stored[disk'.pending.candidate.release].sequence = disk'.highest
  /\ disk'.current # disk.current =>
       disk.candidate = Candidate(disk'.current, "canary") /\ pointer = disk'.current

LEMMA SameDisk ==
  ASSUME IInv, UNCHANGED disk
  PROVE  MovesForward
BY DEF IInv, TypeOK, States, MovesForward

\* Writes that leave the high-water mark and the current release alone and put
\* no new release into the shadow stage.
LEMMA QuietWrite ==
  ASSUME IInv, NEW s, disk' \in {disk, s},
         s.highest = disk.highest, s.current = disk.current, s.pending.action # "stage_shadow"
  PROVE  MovesForward
BY DEF IInv, TypeOK, States, MovesForward

LEMMA StepMovesForward == IInv /\ [Next]_vars => MovesForward
<1> SUFFICES ASSUME IInv, [Next]_vars PROVE MovesForward  OBVIOUS
<1>0. TypeOK /\ mem = disk /\ disk \in States  BY DEF IInv, TypeOK
<1>1. CASE Fallback
  <2> DEFINE s == [disk EXCEPT !.pending.action = "rollback"]
  <2>1. disk' \in {disk, s}  BY <1>0, <1>1 DEF Fallback, WriteState
  <2>2. disk.pending # NoPending  BY <1>1 DEF IInv, PhaseInv, Completing, Fallback
  <2>3. s.highest = disk.highest /\ s.current = disk.current /\ s.pending.action = "rollback"
    BY <1>0, <2>2 DEF States
  <2> HIDE DEF s
  <2> QED  BY <2>1, <2>3, QuietWrite
<1>2. CASE Commit
  <2> DEFINE s == Completed(disk)
             p == disk.pending
  <2>1. disk' \in {disk, s}  BY <1>0, <1>2 DEF Commit, WriteState
  <2>2. p # NoPending /\ pc = "commit"  BY <1>2 DEF IInv, PhaseInv, Completing, Commit
  <2>3. s.highest = disk.highest /\ s.pending = NoPending
    BY <1>0, <2>2, CompletedResult
  <2>4. CASE p.action # "activate"
    <3>1. s.current = disk.current  BY <1>0, <2>2, <2>4, CompletedResult
    <3> QED  BY <2>1, <2>3, <3>1, QuietWrite DEF NoPending
  <2>5. CASE p.action = "activate"
    <3>1. s.current = p.candidate.release  BY <1>0, <2>2, <2>5, CompletedResult
    <3>2. disk.candidate = Candidate(p.candidate.release, "canary") /\ pointer = p.candidate.release
      BY <2>2, <2>5 DEF IInv, LanesInv, PhaseInv
    <3> QED  BY <1>0, <2>1, <2>3, <3>1, <3>2 DEF MovesForward, NoPending, States
  <2> QED  BY <2>4, <2>5
<1>3. CASE Replace
  <2> DEFINE s == [disk EXCEPT !.pending = Transition("rollback", disk.candidate)]
  <2>1. disk' \in {disk, s}  BY <1>0, <1>3 DEF Replace, Perform, WriteState
  <2>2. s.highest = disk.highest /\ s.current = disk.current /\ s.pending.action = "rollback"
    BY <1>0 DEF States, Transition
  <2> HIDE DEF s
  <2> QED  BY <2>1, <2>2, QuietWrite
<1>4. CASE Stage
  <2> DEFINE m == op.manifest
             c == Candidate(m.release, "shadow")
             s == [disk EXCEPT !.highest = m.sequence, !.pending = Transition("stage_shadow", c)]
  <2>1. disk' \in {disk, s}  BY <1>0, <1>4 DEF Stage, WriteState
  <2>2. m.sequence > disk.highest /\ stored[m.release] = m
    BY <1>4 DEF IInv, PhaseInv, Stage
  <2>3. m.sequence \in Nat
    BY <1>4 DEF IInv, PhaseInv, Stage, Ops, ManifestRecords
  <2>4. s.highest = m.sequence /\ s.current = disk.current
        /\ s.pending.candidate.release = m.release
    BY <1>0 DEF States, Transition, Candidate
  <2>5. disk.highest \in Nat  BY <1>0 DEF States
  <2>6. CASE disk' = s
    BY <2>2, <2>3, <2>4, <2>5, <2>6 DEF MovesForward
  <2> QED  BY <2>1, <2>6, SameDisk
<1>5. CASE BeginReport
  <2>1. \/ disk' = disk
        \/ \E a \in {"rollback", "stage_canary", "activate"} : \E c :
             disk' = [disk EXCEPT !.pending = Transition(a, c)]
    BY <1>0, <1>5 DEF BeginReport, Perform, WriteState
  <2>2. ASSUME NEW a \in {"rollback", "stage_canary", "activate"}, NEW c,
               disk' = [disk EXCEPT !.pending = Transition(a, c)]
        PROVE  MovesForward
    <3> DEFINE s == [disk EXCEPT !.pending = Transition(a, c)]
    <3>1. disk' = s  BY <2>2
    <3>2. s.highest = disk.highest /\ s.current = disk.current
          /\ s.pending.action = a
      BY <1>0 DEF States, Transition
    <3> HIDE DEF s
    <3> QED  BY <3>1, <3>2, QuietWrite
  <2> QED  BY <2>1, <2>2, SameDisk
<1>6. CASE UNCHANGED disk  BY <1>6, SameDisk
<1>7. Step => \/ Fallback \/ Commit \/ Replace \/ Stage \/ BeginReport
              \/ UNCHANGED disk
  BY DEF Step, HookSucceeds, HookFails, WritePointer, BeginApply, Download, Finish, PruneFails
<1>8. Crash \/ (\E o \in Ops : Begin(o)) \/ UNCHANGED vars => UNCHANGED disk
  BY DEF Crash, Begin, vars
<1> QED  BY <1>1, <1>2, <1>3, <1>4, <1>5, <1>6, <1>7, <1>8 DEF Next

\* A release enters the shadow stage only above the high-water mark, which
\* never falls, and becomes current only from the canary stage.
THEOREM ReleasesOnlyMoveForward == Spec => RolloutMovesForward
<1>1. IInv /\ [Next]_vars => [MovesForward]_vars  BY StepMovesForward
<1> QED  BY EdgeInvariant, <1>1, PTL DEF Spec, RolloutMovesForward, MovesForward
=============================================================================
