--------------------------- MODULE TimelineWriter ---------------------------
(***************************************************************************)
(* The append pipeline of vidarax-api, state.rs: callers of                *)
(* append_run_event / _async / _nonblocking, the bounded command queue,    *)
(* the vidarax-timeline-writer thread (stage a batch, sync it once,        *)
(* publish it), the single-winner run deletion around it, and crash and    *)
(* restart.  The WAL file underneath is WalWriter, step for step.          *)
(*                                                                         *)
(* Warm event tails and their snapshot are modelled in EventTails.         *)
(* X_<mistake> is X with that mistake in it, used by no behaviour.         *)
(***************************************************************************)
EXTENDS RunRegistry

CONSTANTS WhipRuns,    \* the runs started by a WHIP session, which have workers
          None,        \* no caller waits for the reply
          QueueCap,    \* TIMELINE_WRITER_QUEUE_CAP
          BatchMax,    \* TIMELINE_BATCH_MAX_COMMANDS
          MaxFile,     \* bound: records in the log
          MaxOps,      \* bound: calls the clients make
          MaxCrashes   \* bound: crashes and power failures

ASSUME CapsAssumption == QueueCap \in Nat \ {0} /\ BatchMax \in Nat \ {0}
ASSUME BoundsAssumption == MaxFile \in Nat /\ MaxOps \in Nat /\ MaxCrashes \in Nat
ASSUME WhipRunsAssumption == WhipRuns \subseteq Runs
ASSUME NoneAssumption == None \notin Clients /\ None \notin Runs

VARIABLES file, tail, durable, synced, handle, committed_end, pending_end, poisoned

VARIABLES queue,      \* timeline_tx: commands accepted and not yet dequeued
          deferred,   \* the delete that ended the previous batch
          wpc,        \* where the writer thread is
          taken,      \* commands dequeued into this batch
          staged,     \* records written, not yet answered
          drop,       \* the RunState whose delete guard is being dropped, or 0
          scan,       \* tombstones spared in this pass of the eviction loop
          next_seq,   \* sequence of the last applied record
          published,  \* wal_committed_end, the bound of every reader
          reg,        \* RunRegistry
          gen,        \* per run: id unused, used, worker generation live, joined
          pc, call,   \* per client: program counter and call in progress
          ops,        \* calls made so far (bound)
          crashes,    \* crashes so far (bound)
          acked,      \* records whose append returned Ok (history)
          late        \* runs protected when their eviction was decided (history)

Wal == <<file, tail, durable, synced, handle, committed_end, pending_end, poisoned>>
writer == <<deferred, wpc, taken, staged, drop, scan, next_seq, published>>
clients == <<pc, call, ops>>
history == <<acked, crashes, late>>
vars == <<Wal, writer, queue, reg, gen, clients, history>>

TimelineEvent == [seq : Nat, run : Runs, kind : Kinds]
Commands == [run : Runs, kind : Kinds, client : Clients \cup {None}, guard : Nat]
ASSUME CommandAssumption == None \notin Commands
StagedAppends == [event : TimelineEvent, client : Clients \cup {None}, guard : Nat]

W == INSTANCE WalWriter WITH Events <- TimelineEvent

WriterPCs == {"down", "recv", "stage", "sync", "store", "apply", "evict", "remove", "guard",
              "reply", "fail"}
ClientPCs == {"idle", "check", "send", "reply", "lookup", "claim", "arm", "test", "sleep"}
Generations == {"unused", "used", "live", "joined"}

NoCall == [run |-> None, kind |-> "run_deleted", arc |-> 0]

(* Bound: the records written, queued, and about to be sent. *)
Room ==
  Len(file) + Len(queue) + (IF deferred = None THEN 0 ELSE 1)
    + Cardinality({c \in Clients : pc[c] \notin {"idle", "reply"}}) < MaxFile

Init ==
  /\ W!Init
  /\ queue = <<>>
  /\ deferred = None
  /\ wpc = "down"
  /\ taken = 0
  /\ staged = <<>>
  /\ drop = 0
  /\ scan = 0
  /\ next_seq = 0
  /\ published = 0
  /\ reg = EmptyRegistry
  /\ gen = [r \in Runs |-> "unused"]
  /\ pc = [c \in Clients |-> "idle"]
  /\ call = [c \in Clients |-> NoCall]
  /\ ops = 0
  /\ crashes = 0
  /\ acked = {}
  /\ late = {}

---------------------------------------------------------------------------
(* Callers *)

Running == wpc # "down"

Goto(c, l) == pc' = [pc EXCEPT ![c] = l]

(* The call returns, with whatever result. *)
Return(c) == Goto(c, "idle") /\ call' = [call EXCEPT ![c] = NoCall]

Start(c, r, kind, l) ==
  /\ Running /\ Room
  /\ pc[c] = "idle" /\ ops < MaxOps
  /\ ops' = ops + 1
  /\ call' = [call EXCEPT ![c] = [run |-> r, kind |-> kind, arc |-> 0]]
  /\ Goto(c, l)

(* create_run: a fresh id from next_run_id, then a confirmed append. *)
StartCreate(c, r) ==
  /\ gen[r] = "unused"
  /\ gen' = [gen EXCEPT ![r] = "used"]
  /\ Start(c, r, "run_created", "send")
  /\ UNCHANGED <<Wal, writer, queue, reg, history>>

(* A handler that found the run with load_run_snapshot appends to it; the  *)
(* blocking flavour re-checks run_is_deleted first.                        *)
StartAppend(c, r) ==
  /\ Visible(reg, r)
  /\ \E l \in {"check", "send"} : Start(c, r, "marker_emitted", l)
  /\ UNCHANGED <<Wal, writer, queue, reg, gen, history>>

(* delete_run: append_run_deleted_for_stream_idempotent. *)
StartDelete(c, r) ==
  /\ Visible(reg, r)
  /\ Start(c, r, "run_deleted", "lookup")
  /\ UNCHANGED <<Wal, writer, queue, reg, gen, history>>

CheckDeleted(c) ==
  /\ pc[c] = "check"
  /\ IF Deleted(reg, call[c].run)
     THEN Return(c)
     ELSE Goto(c, "send") /\ UNCHANGED call
  /\ UNCHANGED <<Wal, writer, queue, reg, gen, ops, history>>

(* begin_run_deleted_append clones the Arc, then releases the map shard. *)
Lookup(c) ==
  /\ pc[c] = "lookup"
  /\ LET arc == reg.runs[call[c].run]
     IN /\ call' = [call EXCEPT ![c].arc = arc]
        /\ Goto(c, IF arc = 0 THEN "send" ELSE "claim")
  /\ UNCHANGED <<Wal, writer, queue, reg, gen, ops, history>>

Claim_again(c) ==
  /\ pc[c] = "claim"
  /\ LET arc == call[c].arc
     IN IF reg.heap[arc].del = "deleted"
        THEN Return(c) /\ UNCHANGED reg
        ELSE reg' = BeginDeleteAppend(reg, arc) /\ Goto(c, "send") /\ UNCHANGED call
  /\ UNCHANGED <<Wal, writer, queue, gen, ops, history>>

(* The compare_exchange on the cloned RunState. *)
Claim(c) ==
  /\ pc[c] = "claim"
  /\ LET arc == call[c].arc
         state == reg.heap[arc].del
     IN CASE state = "live" ->
               reg' = BeginDeleteAppend(reg, arc) /\ Goto(c, "send") /\ UNCHANGED call
          [] state = "deleted" ->
               Return(c) /\ UNCHANGED reg
          [] state = "in_flight" ->
               Goto(c, "arm") /\ UNCHANGED <<reg, call>>
  /\ UNCHANGED <<Wal, writer, queue, gen, ops, history>>

(* wait_delete_append: the Notified future exists before the state is read. *)
Arm(c) ==
  /\ pc[c] = "arm"
  /\ reg' = [reg EXCEPT !.heap[call[c].arc].waiters = @ \cup {c}]
  /\ Goto(c, "test")
  /\ UNCHANGED <<Wal, writer, queue, gen, call, ops, history>>

Test(c) ==
  /\ pc[c] = "test"
  /\ IF reg.heap[call[c].arc].del = "in_flight"
     THEN Goto(c, "sleep") /\ UNCHANGED reg
     ELSE /\ Goto(c, "lookup")
          /\ reg' = [reg EXCEPT !.heap[call[c].arc].waiters = @ \ {c}]
  /\ UNCHANGED <<Wal, writer, queue, gen, call, ops, history>>

Wake(c) ==
  /\ pc[c] = "sleep"
  /\ c \notin reg.heap[call[c].arc].waiters
  /\ Goto(c, "arm")
  /\ UNCHANGED <<Wal, writer, queue, reg, gen, call, ops, history>>

(* try_send of a request that holds a byte permit. *)
Send(c) ==
  /\ pc[c] = "send"
  /\ Len(queue) < QueueCap
  /\ queue' = Append(queue, [run |-> call[c].run, kind |-> call[c].kind,
                             client |-> c, guard |-> call[c].arc])
  /\ Goto(c, "reply")
  /\ UNCHANGED <<Wal, writer, reg, gen, call, ops, history>>

(* TimelineAppendRequest::try_new refused the bytes, or try_send found the *)
(* queue full: the request, with any delete guard in it, is dropped.       *)
SendRefused(c) ==
  /\ pc[c] = "send"
  /\ reg' = IF call[c].arc = 0 THEN reg ELSE RollbackDeleteAppend(reg, call[c].arc)
  /\ Return(c)
  /\ UNCHANGED <<Wal, writer, queue, gen, ops, history>>

(* A worker of a live generation hands over a detached event; with the     *)
(* queue full it is dropped and nothing changes.                           *)
AppendDetached(r) ==
  /\ Running /\ Room
  /\ gen[r] = "live"
  /\ Len(queue) < QueueCap
  /\ queue' = Append(queue, [run |-> r, kind |-> "loop_detected",
                             client |-> None, guard |-> 0])
  /\ UNCHANGED <<Wal, writer, reg, gen, clients, history>>

(* The writer decided to evict the tombstone of r and has not done it yet, *)
(* or has done it already.                                                 *)
EvictionDecided(r) ==
  r \in reg.forgotten \/ (wpc = "remove" /\ r = Oldest(reg))

(* insert_session_with_media_reservation, after run_created was confirmed; *)
(* the writer may be anywhere in its eviction loop.                        *)
ProtectTombstone(r) ==
  /\ Running
  /\ r \in WhipRuns /\ gen[r] = "used"
  /\ \E e \in acked : e.run = r
  /\ gen' = [gen EXCEPT ![r] = "live"]
  /\ late' = IF EvictionDecided(r) THEN late \cup {r} ELSE late
  /\ UNCHANGED <<Wal, writer, queue, reg, clients, acked, crashes>>

(* release_media_generation, after every worker of the run joined. *)
ReleaseTombstone(r) ==
  /\ Running
  /\ gen[r] = "live"
  /\ gen' = [gen EXCEPT ![r] = "joined"]
  /\ UNCHANGED <<Wal, writer, queue, reg, clients, history>>

Protected == {r \in Runs : gen[r] = "live"}

---------------------------------------------------------------------------
(* The writer thread: TimelineWriter::run and stage_command *)

HasCommand == deferred # None \/ queue # <<>>
Current == IF deferred # None THEN deferred ELSE Head(queue)
Dequeue ==
  IF deferred # None
  THEN deferred' = None /\ UNCHANGED queue
  ELSE queue' = Tail(queue) /\ UNCHANGED deferred

(* A command can be taken: the first one of a batch blocks for it, later   *)
(* ones are taken while the batch has room.                                *)
CanTake ==
  /\ drop = 0
  /\ HasCommand
  /\ \/ wpc = "recv"
     \/ wpc = "stage" /\ taken < BatchMax

IsDelete(cmd) == cmd.kind = "run_deleted"

(* A delete never shares a batch with earlier records. *)
Defer(cmd) == IsDelete(cmd) /\ staged # <<>>

DeferDelete ==
  /\ CanTake
  /\ Defer(Current)
  /\ deferred' = Current
  /\ queue' = Tail(queue)
  /\ wpc' = "sync"
  /\ UNCHANGED <<Wal, taken, staged, drop, scan, next_seq, published, reg, gen, clients, history>>

Advance(cmd) ==
  /\ taken' = IF wpc = "recv" THEN 1 ELSE taken + 1
  /\ wpc' = IF IsDelete(cmd) THEN "sync" ELSE "stage"
  /\ Dequeue

(* The command gets an error reply; its delete guard, if it has one, is    *)
(* dropped after the reply was sent.                                       *)
RejectReply(cmd) ==
  /\ IF cmd.client = None THEN UNCHANGED <<pc, call>> ELSE Return(cmd.client)
  /\ drop' = cmd.guard

RunIsDeleted(cmd) == ~IsDelete(cmd) /\ Deleted(reg, cmd.run)

(* Queued behind the tombstone of its own run, over the record size limit, *)
(* or sent to a poisoned WAL: no byte is written.                          *)
StageReject ==
  /\ CanTake
  /\ ~Defer(Current)
  /\ RejectReply(Current)
  /\ Advance(Current)
  /\ UNCHANGED <<Wal, staged, scan, next_seq, published, reg, gen, ops, history>>

NextEvent_ignoresBatch(cmd) == [seq |-> next_seq + 1, run |-> cmd.run, kind |-> cmd.kind]

NextEvent(cmd) == [seq |-> next_seq + Len(staged) + 1, run |-> cmd.run, kind |-> cmd.kind]

StageCommand ==
  /\ CanTake
  /\ ~Defer(Current)
  /\ ~RunIsDeleted(Current)
  /\ LET e == NextEvent(Current)
     IN /\ W!StageOk(e)
        /\ staged' = Append(staged, [event |-> e, client |-> Current.client,
                                     guard |-> Current.guard])
  /\ Advance(Current)
  /\ UNCHANGED <<drop, scan, next_seq, published, reg, gen, clients, history>>

StageWriteFails ==
  /\ CanTake
  /\ ~Defer(Current)
  /\ ~RunIsDeleted(Current)
  /\ W!StageFail
  /\ RejectReply(Current)
  /\ Advance(Current)
  /\ UNCHANGED <<staged, scan, next_seq, published, reg, gen, ops, history>>

(* The queue is empty, or the batch reached its command or byte limit. *)
EndBatch ==
  /\ wpc = "stage"
  /\ drop = 0
  /\ wpc' = "sync"
  /\ UNCHANGED <<Wal, queue, deferred, taken, staged, drop, scan, next_seq, published,
                 reg, gen, clients, history>>

---------------------------------------------------------------------------
(* The writer thread: sync_and_publish *)

SyncNothing ==
  /\ wpc = "sync" /\ drop = 0
  /\ staged = <<>>
  /\ wpc' = "recv"
  /\ UNCHANGED <<Wal, queue, deferred, taken, staged, drop, scan, next_seq, published,
                 reg, gen, clients, history>>

SyncBatch ==
  /\ wpc = "sync" /\ drop = 0
  /\ staged # <<>>
  /\ \/ W!SyncOk /\ wpc' = "store"
     \/ W!SyncFail /\ wpc' = "fail"
     \/ poisoned /\ wpc' = "fail" /\ UNCHANGED Wal
  /\ UNCHANGED <<queue, deferred, taken, staged, drop, scan, next_seq, published,
                 reg, gen, clients, history>>

StoreCommittedEnd_skipped ==
  /\ wpc = "store"
  /\ wpc' = "apply"
  /\ UNCHANGED <<Wal, queue, deferred, taken, staged, drop, scan, next_seq, published,
                 reg, gen, clients, history>>

(* The readable bound moves before any run state changes. *)
StoreCommittedEnd ==
  /\ wpc = "store"
  /\ published' = committed_end
  /\ wpc' = "apply"
  /\ UNCHANGED <<Wal, queue, deferred, taken, staged, drop, scan, next_seq,
                 reg, gen, clients, history>>

(* The staged record that next_seq has not reached yet. *)
Applying == staged[next_seq + 2 - staged[1].event.seq]
AllApplied == next_seq = staged[Len(staged)].event.seq

(* The delete guard of a, if it has one, is committed next. *)
GuardOrNext(a) == IF a.guard = 0 THEN "apply" ELSE "guard"

ApplyCommittedEvent ==
  /\ wpc = "apply"
  /\ ~AllApplied
  /\ next_seq' = Applying.event.seq
  /\ reg' = ApplyAppendedEvent(reg, Applying.event)
  /\ wpc' = IF FreshlyDeleted(reg, Applying.event) THEN "evict" ELSE GuardOrNext(Applying)
  /\ UNCHANGED <<Wal, queue, deferred, taken, staged, drop, scan, published,
                 gen, clients, history>>

(* One turn of the eviction loop behind a fresh tombstone: the FIFO is over *)
(* its cap and this pass has not spared every tombstone in it.              *)
Evicting == wpc = "evict" /\ OverCap(reg) /\ scan < Len(reg.order)

CheckTombstone_unprotected ==
  /\ Evicting
  /\ wpc' = "remove"
  /\ UNCHANGED <<Wal, queue, deferred, taken, staged, drop, scan, next_seq, published,
                 reg, gen, clients, history>>

(* protected_tombstones.contains(&oldest): a run whose worker generation    *)
(* may still emit goes to the back.                                         *)
CheckTombstone ==
  /\ Evicting
  /\ \/ /\ Oldest(reg) \in Protected
        /\ reg' = RotateOldest(reg) /\ scan' = scan + 1
        /\ UNCHANGED wpc
     \/ /\ Oldest(reg) \notin Protected
        /\ wpc' = "remove"
        /\ UNCHANGED <<reg, scan>>
  /\ UNCHANGED <<Wal, queue, deferred, taken, staged, drop, next_seq, published,
                 gen, clients, history>>

(* runs.remove_if(&oldest, deleted), under another lock than the check. The *)
(* FIFO is the writer's own, so the entry may be popped here as well.       *)
RemoveTombstone ==
  /\ wpc = "remove"
  /\ reg' = ForgetOldest(reg)
  /\ scan' = 0
  /\ wpc' = "evict"
  /\ UNCHANGED <<Wal, queue, deferred, taken, staged, drop, next_seq, published,
                 gen, clients, history>>

EndEviction ==
  /\ wpc = "evict" /\ ~Evicting
  /\ scan' = 0
  /\ wpc' = GuardOrNext(staged[Len(staged)])
  /\ UNCHANGED <<Wal, queue, deferred, taken, staged, drop, next_seq, published,
                 reg, gen, clients, history>>

(* guard.commit() on the RunState the deleter claimed.  A delete is alone  *)
(* in its batch.                                                           *)
CommitGuard ==
  /\ wpc = "guard"
  /\ reg' = CommitDeleteAppend(reg, staged[Len(staged)].guard)
  /\ wpc' = "apply"
  /\ UNCHANGED <<Wal, queue, deferred, taken, staged, drop, scan, next_seq, published,
                 gen, clients, history>>

Publish ==
  /\ wpc = "apply"
  /\ AllApplied
  /\ wpc' = "reply"
  /\ UNCHANGED <<Wal, queue, deferred, taken, staged, drop, scan, next_seq, published,
                 reg, gen, clients, history>>

ReplyOk ==
  /\ wpc = "reply"
  /\ LET a == Head(staged)
     IN IF a.client = None
        THEN UNCHANGED <<pc, call, acked>>
        ELSE /\ Return(a.client)
             /\ acked' = acked \cup {a.event}
  /\ staged' = Tail(staged)
  /\ wpc' = IF Len(staged) = 1 THEN "recv" ELSE "reply"
  /\ UNCHANGED <<Wal, queue, deferred, taken, drop, scan, next_seq, published,
                 reg, gen, ops, crashes, late>>

(* None of the batch is acknowledged. *)
ReplyErr ==
  /\ wpc = "fail" /\ drop = 0
  /\ RejectReply(Head(staged))
  /\ staged' = Tail(staged)
  /\ wpc' = IF Len(staged) = 1 THEN "recv" ELSE "fail"
  /\ UNCHANGED <<Wal, queue, deferred, taken, scan, next_seq, published,
                 reg, gen, ops, history>>

(* RunDeleteAppendGuard::drop on an uncommitted guard. *)
DropGuard ==
  /\ drop # 0
  /\ reg' = RollbackDeleteAppend(reg, drop)
  /\ drop' = 0
  /\ UNCHANGED <<Wal, queue, deferred, wpc, taken, staged, scan, next_seq, published,
                 gen, clients, history>>

---------------------------------------------------------------------------
(* Crash, power failure, restart *)

Crash ==
  /\ crashes < MaxCrashes
  /\ W!ProcessCrash \/ W!PowerLoss
  /\ crashes' = crashes + 1
  /\ queue' = <<>> /\ deferred' = None
  /\ wpc' = "down" /\ taken' = 0 /\ staged' = <<>> /\ drop' = 0 /\ scan' = 0
  /\ pc' = [c \in Clients |-> "idle"]
  /\ call' = [c \in Clients |-> NoCall]
  /\ reg' = [EmptyRegistry EXCEPT !.forgotten = reg.forgotten]
  /\ next_seq' = 0 /\ published' = 0
  /\ UNCHANGED <<gen, ops, acked, late>>

OpenStep ==
  /\ wpc = "down"
  /\ W!OpenScan \/ W!OpenTruncate \/ W!OpenSync \/ W!OpenFail
  /\ UNCHANGED <<writer, queue, reg, gen, clients, history>>

(* validate_replay_sequence *)
ReplaySequenceValid(events) == \A i \in DOMAIN events : events[i].seq = i

(* from_wal: with the WAL open and its sequence valid, rebuild the         *)
(* registry and start the writer.  next_run_id continues after every run   *)
(* the log mentions, and no run of an earlier process has workers.         *)
Restore ==
  /\ wpc = "down"
  /\ handle = "open"
  /\ ReplaySequenceValid(file)
  /\ wpc' = "recv"
  /\ next_seq' = Len(file)
  /\ published' = committed_end
  /\ reg' = BuildRunRegistry(file, reg.forgotten)
  /\ gen' = [r \in Runs |-> IF \E i \in DOMAIN file : file[i].run = r
                            THEN "joined" ELSE "unused"]
  /\ UNCHANGED <<Wal, queue, deferred, taken, staged, drop, scan, clients, history>>

---------------------------------------------------------------------------
WriterStep ==
  \/ DeferDelete \/ StageReject \/ StageCommand \/ StageWriteFails \/ EndBatch
  \/ SyncNothing \/ SyncBatch \/ StoreCommittedEnd
  \/ ApplyCommittedEvent \/ CheckTombstone \/ RemoveTombstone \/ EndEviction
  \/ CommitGuard \/ Publish
  \/ ReplyOk \/ ReplyErr \/ DropGuard

ClientStep(c) ==
  \/ CheckDeleted(c) \/ Lookup(c) \/ Claim(c)
  \/ Arm(c) \/ Test(c) \/ Wake(c) \/ Send(c) \/ SendRefused(c)

Next ==
  \/ WriterStep
  \/ \E c \in Clients :
       \/ ClientStep(c)
       \/ \E r \in Runs : StartCreate(c, r) \/ StartAppend(c, r) \/ StartDelete(c, r)
  \/ \E r \in Runs : AppendDetached(r) \/ ProtectTombstone(r) \/ ReleaseTombstone(r)
  \/ OpenStep \/ Restore
  \/ Crash

Spec == Init /\ [][Next]_vars

(* The writer thread and every call in progress keep running.  Nothing is  *)
(* assumed about new calls, crashes or which outcome an I/O step has.      *)
FairSpec ==
  /\ Spec
  /\ WF_vars(WriterStep)
  /\ \A c \in Clients : WF_vars(ClientStep(c))

---------------------------------------------------------------------------
(* Properties *)

(* The log's own types, a writer and callers at known steps, and commands  *)
(* that carry what their step needs.                                       *)
TypeOK ==
  /\ W!TypeOK
  /\ queue \in Seq(Commands)
  /\ deferred \in Commands \cup {None}
  /\ wpc \in WriterPCs
  /\ taken \in Nat
  /\ staged \in Seq(StagedAppends)
  /\ drop \in Nat
  /\ scan \in Nat
  /\ next_seq \in Nat
  /\ published \in Nat
  /\ reg.runs \in [Runs -> Nat]
  /\ reg.heap \in Seq(RunStates)
  /\ reg.order \in Seq(Runs)
  /\ reg.forgotten \in SUBSET Runs
  /\ gen \in [Runs -> Generations]
  /\ pc \in [Clients -> ClientPCs]
  /\ call \in [Clients -> [run : Runs \cup {None}, kind : Kinds, arc : Nat]]
  /\ ops \in Nat
  /\ crashes \in Nat
  /\ acked \in SUBSET TimelineEvent
  /\ late \in SUBSET Runs

(* validate_replay_sequence never refuses a log this program wrote: the    *)
(* sequence numbers on disk are 1, 2, 3, ... through rejected commands,    *)
(* failed writes, failed syncs, lost tails and restarts.                   *)
SequenceContiguous == \A i \in DOMAIN file : file[i].seq = i

(* A record whose append returned Ok is at its place in the log and on     *)
(* stable storage, through every later crash.                              *)
AckedIsDurable ==
  \A e \in acked : e.seq <= durable /\ e.seq <= Len(file) /\ file[e.seq] = e

(* "After a reader sees the updated run state, its WAL read must also      *)
(* include the record that produced that state" (sync_and_publish), and    *)
(* it never includes a record that is not on stable storage.               *)
StateImpliesReadable ==
  Running => next_seq <= published /\ published <= durable

(* What callers and readers were told is so, and stays so.                 *)
AnswersAreTrue == AckedIsDurable /\ StateImpliesReadable

Tombstone(i) == file[i].kind = "run_deleted"

(* No event of a run follows its run_deleted in the log while the registry *)
(* still remembers the deletion: the dequeue-time check in stage_command   *)
(* sees every tombstone because a delete ends its batch.                   *)
NothingAfterTombstone ==
  \A i, j \in DOMAIN file :
    i < j /\ Tombstone(i) /\ file[j].run = file[i].run /\ ~Tombstone(j)
      => file[i].run \in reg.forgotten

(* Concurrent deletes append run_deleted exactly once per retained run,    *)
(* through failed appends, rollbacks and restarts.                         *)
DeletedOnce ==
  \A i, j \in DOMAIN file :
    i < j /\ Tombstone(i) /\ Tombstone(j) /\ file[i].run = file[j].run
      => file[i].run \in reg.forgotten

(* A run that is deleted while its worker generation is live stays deleted *)
(* in the registry, however many other runs are deleted meanwhile, so that *)
(* the dequeue-time check refuses what its workers still hand over.  The   *)
(* protection must have been in place when the eviction loop looked: one   *)
(* inserted between contains and remove_if comes too late.                 *)
LiveTombstoneRetained ==
  Running =>
    \A r \in Protected \ late :
      (\E i \in 1..next_seq : file[i].run = r /\ Tombstone(i)) => Deleted(reg, r)

(* The registry is what replaying the applied log would rebuild, so a      *)
(* restart changes no answer (apart from evicted tombstones).              *)
RegistryMatchesReplay ==
  Running =>
    \A r \in Runs \ reg.forgotten :
      LET Has(k) == \E i \in 1..next_seq : file[i].run = r /\ file[i].kind = k
      IN /\ Summary(reg, r) = [created |-> Has("run_created"),
                               deleted |-> Has("run_deleted")]
         /\ Present(reg, r) <=> \E i \in 1..next_seq : file[i].run = r

(* The log and the registry tell the same story of every run.              *)
LogAgreesWithRegistry == NothingAfterTombstone /\ RegistryMatchesReplay

(* Who holds the delete guard of RunState o: a client about to send it, a  *)
(* queued, deferred or staged command, or the writer about to drop it.     *)
GuardHolders(o) ==
  {<<"client", c>> : c \in {d \in Clients : pc[d] = "send" /\ call[d].arc = o}}
    \cup {<<"queue", i>> : i \in {j \in DOMAIN queue : queue[j].guard = o}}
    \cup {<<"staged", i>> : i \in {j \in DOMAIN staged : staged[j].guard = o}}
    \cup (IF deferred # None /\ deferred.guard = o THEN {<<"deferred", 0>>} ELSE {})
    \cup (IF drop = o THEN {<<"drop", 0>>} ELSE {})

(* A claimed RunState has exactly one guard on its way to commit or roll   *)
(* back: no path (queue full, oversize, failed write, failed sync) leaks   *)
(* the claim and leaves the run undeletable, and none hands it out twice.  *)
ClaimHasOneGuard ==
  \A o \in DOMAIN reg.heap :
    reg.heap[o].del = "in_flight" => Cardinality(GuardHolders(o)) = 1

(* Of concurrent deleters one appends, and its claim ends with its append. *)
DeletionHasOneWinner == DeletedOnce /\ ClaimHasOneGuard

(* Every call returns: a waiting deleter is woken by commit or rollback,   *)
(* and no reply is lost.                                                   *)
CallsReturn == \A c \in Clients : pc[c] # "idle" ~> pc[c] = "idle"

(* "Never append ordinary events after the tombstone" (append_timeline_    *)
(* sync), for a run protected in time whose generation shut down cleanly   *)
(* after handing its last detached events to the queue.                    *)
NoWorkerEventAfterTombstone ==
  \A i, j \in DOMAIN file :
    i < j /\ Tombstone(i) /\ file[j].run = file[i].run
      => ~(/\ file[j].kind = "loop_detected"
           /\ gen[file[j].run] = "joined" /\ file[j].run \notin late)
=============================================================================
