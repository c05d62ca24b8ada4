# Verification of Vidarax

TLA+ models of the parts of Vidarax whose correctness depends on interleaving,
failure and recovery, the TLC runs that check them on small instances, and
TLAPS proofs for every value of the constants. Every definition is translated
from the Rust code; `PROJECT.json` ("map") names the lines each one stands for.

```
tlc -workers 2 -config MCWalWriter.cfg MCWalWriter.tla      # one run
tlapm WalWriter_proofs.tla                                  # the proofs
```

## 1. The system

Vidarax runs video streams through a vision pipeline and publishes what it saw
as events. One server process owns a data directory. Everything that must
survive a restart is one append-only log, `events.wal`; everything else is
memory that is rebuilt from the log.

```
 REST handlers ──┐                                  ┌─> run registry (DashMap of Arc<RunState>)
 WHIP sessions ──┼─ try_send ─> queue ─> writer ────┼─> warm event tails ─> RingSnapshot (ArcSwap)
 media workers ──┘   (bounded)   thread │ stage     ├─> wal_committed_end (atomic)
      ▲                                 │ sync      └─> broadcast, webhook wakes ─> DeliveryHub
      │ supervision, admission,         ▼
      │ media budget                events.wal <── cold reads (spawn_blocking), restart, archive
```

A caller queues a command; the writer thread stages a batch of records, syncs
them once, stores the new committed end, applies the records to the registry
and to the rings, publishes a snapshot, wakes the deliveries, and answers.
Readers use the snapshot when it reaches back far enough and the log otherwise.

### Inventory

For each part: the state it keeps, its operations, whom it talks to, what is
hard about it, and what makes it correct.

| Part (source) | State | Operations | Interacts with | Hard | Correct when |
|---|---|---|---|---|---|
| **Write-ahead log** `vidarax-core/src/timeline.rs` | file, `committed_end`, `pending_end`, `poisoned`, path and file locks | `open`, `stage`, `sync_pending`, bounded reads | owned by the writer thread, read by cold polls and by restart | torn writes, failed syncs, power loss, recovery that fails half way | an acknowledged or readable record is never lost or rewritten; a reader never ends inside a record |
| **Append pipeline** `vidarax-api/src/state.rs` | command queue, byte budget, batch, `next_seq`, `wal_committed_end` | `append_run_event`, `_async`, `_nonblocking`, `append_run_deleted_for_stream_idempotent`, the writer loop, `from_wal` | WAL, registry, tails, delivery | checks made before queueing and stale at dequeue, batch failures, delete claims across replaced objects, crashes | sequence numbers are 1, 2, 3, …; an `Ok` is durable; a state change is readable; one tombstone per run and nothing behind it |
| **Run registry** `vidarax-api/src/state.rs` | `runs`, per run `delete_state`, waiters, `deleted_run_order`, protected generations | `apply_structural_event`, `apply_appended_event`, eviction, rebuild | writer (writes), handlers (read) | bounded retention, replay through another path than live updates | answers as a replay of the log would; a live generation keeps its tombstone when it was protected in time |
| **Warm event tails** `vidarax-api/src/state.rs` | per-run rings, recency, ticks, published snapshot | insert, evict, publish, `read_run_events_from` | writer, pollers | trimmed rings, eviction and re-warming, separately loaded bounds | a warm answer is the log's answer; a poller misses nothing |
| **Stream slots** `vidarax-api/src/state.rs`, `handlers.rs` | `stream_reservations`, `by_principal`, run states | `try_reserve_stream_slot`, count, guard drop | create_run, WHIP start, writer | count spans several locks while the writer moves runs; request cancellation | limit respected; no slot leaked; no deadlock |
| **Delivery** `vidarax-api/src/delivery.rs` | webhook registry, delivery log, broadcast, coordinator and workers | SSE stream, create/delete webhook, replay, checkpoint | writer (wakes), WAL (replay), HTTP receivers | subscribe against replay, lagging, coalesced wakes, retries, crash between delivery and its record | every matching event is delivered or recorded dead; order per hook; no event skipped |
| **WHIP sessions** `vidarax-api/src/whip.rs`, `vidarax-core/src/webrtc/session.rs` | session map, reclaim claims, close dispositions, resource and tombstone history | start transaction, terminate, watcher, REST stop/delete | append pipeline, slots, media budget, pipeline | three parties race to close; handlers append to the run behind their check of it; expiry; partial start; retries against a full queue | one reclaim, one final event, every resource returned |
| **Media budget** `vidarax-api/src/state.rs`, `webrtc/resources.rs` | two atomic counters | admit, release | WHIP start, workers | release once, late detached workers | never above either cap |
| **Pipeline supervision** `vidarax-core/src/webrtc/runtime.rs` | worker handles, fault slot, stop latch | spawn, supervise, abort startup, join | workers, session | fault and stop race, panics, deadline | one fault reported; no worker unobserved |
| **Inference admission** `vidarax-core/src/admission.rs` | waiters, tickets, token and byte budgets | acquire, select, notify, release | providers | per-waiter condition variables, timeouts, fair selection | budget never exceeded; no lost wake-up |
| **Edge updates** `vidarax-cli/src/edge.rs` | device state, current pointer, pending transition | apply, hook, roll back, recover, prune | file system, signed feed | crash between any two writes | a device ends on a complete release; sequence never goes back |
| **Policies** `vidarax-api/src/policies.rs` | revisions, active revision (both from events) | create, activate | append pipeline, live session | read-check-append | revisions form one chain |
| **Blob sink** `vidarax-api/src/wal_sink.rs` | content files | put, then append an event that names it | media workers, append pipeline | crash between the two | a named blob exists |
| **Archive, restore** `vidarax-archive/src/lib.rs` | objects, manifest, staging directory | upload, verify, restore | data directory | crash before the rename | no half-restored directory |
| **Decision algorithms** `vidarax-core/src/{gate,trigger,zone,dedup,novelty,tiered_vlm}.rs` | per-stream counters and windows | `decide`, `observe` | media workers | thresholds and boundaries | agree with their definition |
| **Media workers**, **providers**, **file ingest**, **audio sidecar**, **SpacetimeDB**, **security and configuration**, **CLI, SDK, UI** | codec state, HTTP clients, child processes, external mirror, settings | | | external processes and I/O | not modelled: sequential, or I/O whose outcome the models treat as a nondeterministic success or failure |

`PROJECT.json` holds the same list as "components" with the reason for every
part left out, and "hazards": what can go wrong at which line, and which
property watches it.

## 2. The project

Modules in the order in which one rests on another:

1. `DurableLog`, `WalWriter`: the log everything rests on, and the abstract log
   it implements.
2. `RunRegistry`, `TimelineWriter`: the append pipeline over it (`TimelineWriter`
   uses `WalWriter`'s actions as its file, so both models fail the same ways).
3. `EventTails`: what readers see. Uses that a record's sequence number is its
   place in the log, which `TimelineWriter` checks as `SequenceContiguous`.
4. `StreamSlots`: the active stream limit.
5. `Delivery`: SSE subscribe/replay/lag and the webhook workers with their
   own log.
6. `WhipSession`: sessions from the media reservation to the last joined thread.
   Sees a run as the registry shows it; that appends are durable and that a
   deleted run takes nothing more is `TimelineWriter`'s subject, the stream slot
   that of `StreamSlots`.
7. `InferenceAdmission`: the scheduler in front of the providers.
8. `EdgeUpdate`: the update controller of an edge device, a program of its own.

`WalWriter`, `TimelineWriter`, `EventTails`, `StreamSlots`, `Delivery`, `WhipSession`,
`InferenceAdmission` and `EdgeUpdate` have a module `<name>_proofs`. An `MC` module gives the
constants values for TLC; where several configurations share it, each is named
after its question.

## 3. The modules

A definition `X_<mistake>` beside a definition `X` is `X` with one plausible
bug in it. No behaviour uses it; it shows that some property catches the bug.
Constants whose comment says "bound" exist to keep an instance finite and have
no counterpart in the code.

### DurableLog (abstract)

What the log promises: a history that grows, and records written but not
acknowledged, of which a stop keeps a prefix and recovery adopts what is left.

### WalWriter

`timeline.rs`, `WalWriter` and the recovery in `open`. A file is a sequence of
records followed by at most one damaged tail. Offsets are counted in records,
because `committed_end` and `pending_end` only move by whole encoded records.

| Model | Code |
|---|---|
| `handle` | how far `open` got: scanned and in need of truncation, in need of the sync, open; "refused" when a complete line does not decode |
| `OpenScan`, `OpenTruncate`, `OpenSync`, `OpenFail` | the scan, `set_len`, `sync_file_durable` of `open`, and its error returns |
| `StageOk`, `StageFail` | `stage`: `write_all`, and its failure after any part of the record |
| `SyncOk`, `SyncFail` | `sync_pending` |
| `ProcessCrash` | the page cache stays, the writer goes |
| `PowerLoss` | `durable` records stay; of the rest any prefix, with any tail |

Assumed of the operating system: a sync that returns `Ok` makes every byte and
the length of the file stable; a power failure keeps stable bytes, and of the
others a prefix of the records with arbitrary bytes behind it. A complete line
of arbitrary bytes that decodes as a record is not modelled. The record codec
is abstracted to "decodes" or "does not".

### RunRegistry and TimelineWriter

`state.rs`. The registry is a set of operators on a record, the writer thread a
program counter (`wpc`) that walks through the batch exactly as
`spawn_timeline_writer` does:

    recv -> stage* -> sync -> store -> apply* [-> evict* <-> remove] [-> guard] -> reply*
                  \-> fail* (drop the guard, answer the error)

One step of the model is one access to state another thread can change: a channel
operation, a file operation, an atomic store, one locked update of a map. Accesses
are merged only where nobody else writes in between: `apply_structural_event` reads
a run and inserts its successor, both by the one thread that changes entries of
the map, and the tombstone FIFO is that thread's own, so `RemoveTombstone` pops
it together with `remove_if`. The eviction loop is in steps: `CheckTombstone` is
`protected_tombstones.contains`, `RemoveTombstone` is `runs.remove_if`, and an
`insert_session_reserved` (`ProtectTombstone`) may come between them. `scan` counts
the tombstones one pass has spared, which ends the loop when all are protected.
`late` is history: the runs whose protection was inserted when their eviction
was decided or over. A replay evicts in one step, because nothing is protected
and nobody else runs yet. A
`RunState` is an index into `reg.heap`, so a deleter can hold an object that the
map has since replaced, as with a cloned `Arc`. Callers follow
`append_run_deleted_idempotent_async` through lookup, claim, arming the notification,
the second test and the sleep. Detached appends of media workers
(`append_run_event_nonblocking`) have no caller. The byte budget of the queue
and the byte target of a batch are outcomes chosen nondeterministically
(`SendRefused`, `EndBatch`), so every byte value is covered. A crash drops
everything except the file; `Restore` is `from_wal`.

### EventTails

The rings, their recency and the published snapshot, from the sync of a batch
to its replies, and clients that poll with an advancing cursor through
`read_run_events_from`: the snapshot, else the committed end loaded first and
the scan done later. A ring is the set of sequence numbers it holds. The record
is in `log` once synced; failures before that are `TimelineWriter`'s.

### StreamSlots

`try_reserve_stream_slot` holds the principal's entry while it counts the runs
of the index bucket one by one; the writer takes the bucket, releases it, then
takes the run. `Creators` run `create_run` (cancellable at its await) or, when
in `Detached`, the WHIP start. Handlers check a run and append later.

### Delivery

`delivery.rs`. The timeline is `TimelineWriter`'s, seen from below its sync:
`log` is the file, `published` is `wal_committed_end`, `sent` counts the
notifications. A record's sequence number is its place in the log, which
`TimelineWriter` checks as `SequenceContiguous`; that a sync failure poisons
the log and that a power failure keeps published records is checked in
`WalWriter`.

| Model | Code |
|---|---|
| `create`, `delete` | the futures of `create_webhook` and `delete_webhook`; `Disconnect` drops either at an await |
| `commands`, `cpos`, `hooks`, `regseq` | the coordinator's command channel, its place in the broadcast, its map; "pending" is an entry without a wake channel |
| `worker[h]` | the task of `spawn_hook_worker`: `last` is `last_terminal_seq`, `offset` is `wal_offset`, `todo` the matching events left in the batch, `wake` its channel of one |
| `saved`, `torn` | what `load_delivery_state` would read of the delivery log: sequences per hook, and whether the file ends in half a line |
| `stream[s]` | the producer of one SSE connection: `cursor`, `pos` in the broadcast, the batch, the output channel `out` |
| `received`, `settled` | history: what a client got over all its connections, and what a hook was delivered or given up on |

The broadcast is a ring of `RingCap` notifications: a receiver further behind
gets `Lagged` and continues at the oldest. The delivery log is flushed and never
synced, so of each hook's lines any prefix survives a crash, and possibly half
a line, which spoils the line written behind it. The POST itself succeeds,
fails, or is not made because the body is too large. Kind filters are reduced
to the one distinction that all hooks share, that `webhook_` events are not
sent. A client that reconnects sends its last event id.

### WhipSession

`whip.rs`, the session and reclaim parts of `session.rs` and `state.rs`,
`runtime.rs`, and the REST side in `handlers.rs`. A session is one offer with an
id and a run of its own. Its run is the registry's: besides the tasks that end the
session, the handlers of the run append to it, and the snapshot calls a run that
had no event for `stream_ttl_secs` expired (`Lapse`), until the next event.

| Model | Code |
|---|---|
| `start` | `start_whip_session_transaction`, from the media reservation to `spawn_pipeline`, each early return with what it cleans up |
| `used`, `permit` | the counters of `MediaResourceBudget` and the owner of the `MediaResourcePermit`: two counters are two steps, so one can be admitted and the other not |
| `slots`, `session` | `session_slots`; the session, its close disposition (`mark`, raised with `fetch_max`), its reclaim claim, its latch, and whether the map holds it (`live`) |
| `pipe` | a generation: threads that run, threads that have exited and are not joined, the stop flag, and its supervisor |
| `act` | the watcher, WHIP DELETE, REST stop and REST delete, each where its task is between two accesses to shared state; `process`, a handler that looks at the run and then appends an event that makes it Processing (`keepalive_run`, `ingest_run`, `analyze_run`, `infer`); and `reason` (`reason_realtime_run`), which appends two of those and `run_completed` |
| `run` | the state of the run: "active", one of `Ended`, or "expired", which `whip_run_is_terminal` takes for an end and the next event undoes. `transition_state` has no regard for the old state, so an event of a handler takes a stopped, completed or failed run back to "active" |
| `stopInFlight` | history: a stop was appended while a reclaimer or a handler had passed its check of the run |
| `revived` | history: an event made the run active again after it had ended, or after its session was reclaimed on the ground of its expiry |

Workers are interchangeable, so a generation is a count; their events do not
change the state of the run, but keep it from expiring (`Refresh`). Some steps merge
accesses where the properties cannot tell the difference: the permit's drop
(`DropPermit`) subtracts from both counters at once (an offer that comes between the
two subtractions is refused, as one that comes just before them is); `Insert` puts the session, its permit, the protection and
the watcher in place together, and `Remove` takes the session out of the map, gives
the slot back and closes it. The collision of two session ids in
`insert_session_reserved` is not modelled: an offer has an id of its own. The peer connection is
rustrtc's, modelled from what `session.rs` says of its watch: it keeps the last
value only, and a handshake under way may publish `Connected` over `Closed`. The
supervisor's join deadline may pass whenever a stopped generation has a thread
left. `Loads` bounds what clients ask and how often appends and workers fail.

### InferenceAdmission

`admission.rs`. A caller is a thread with a fixed kind of request; `adm` is
`AdmissionState` under its mutex, and a step of the model is what a caller does
between taking the mutex and giving it up. A waiter's condition variable is its
membership in `notified`. Time is a tick, and `age[c]` counts ticks since the
call read its clock, so a deadline is a bound on an age and no clock grows. The
order of two waiters' tickets is `ahead`. The direct path uses, as the code
does, the instant at which the caller read the clock before it had the mutex
(`AgesAtStart`). `MaxEnterDelay` bounds how long a caller can wait for the mutex.

### EdgeUpdate

`edge.rs`. An operation is a process that holds the device lock; `pc` walks from
one write, rename or hook call to the next, and `Crash` may end it in front of
any of them. `disk` is `device.json`, `pointer` the `current-model` file, `stored`
the releases directory, `lanes` what the serving process has loaded at the
hook's request. A write can fail before or behind its rename (`WriteState`), a
hook can fail having done its work or not (`HookFails`). The transition hook is a
program outside the repository: what it does to the lanes is taken from the
contract in `docs/edge-deployment.md`. Manifests are those
that pass the signature, cohort and stage checks; the others are refused before
anything changes. Measurements are reduced to accepted or not.

## 4. The runs

| Run | Question | Instance, and why it is enough |
|---|---|---|
| `wal` | Does the log keep its promise through failed and torn writes, failed syncs, crashes, power failures and failed recoveries? | 2 record values, files of 4 records, unboundedly many crashes and reopenings. Two values tell a rewritten record from a kept one; 4 records allow committed, unacknowledged, staged and lost ones together. |
| `restart` | Sequence numbers, acknowledgements, readers' bounds, tombstones and the registry | 2 callers, a detached worker, 2 runs, 1 retained tombstone, batches of 2, 4 calls, 4 records, 1 crash. Both runs may have workers, so the one tombstone that is retained can be protected or not, both can be, and the protection can come between the check and the removal. A batch of 2 with a queue of 2 makes commands wait behind a delete. Callers and runs are interchangeable (symmetry). |
| `deletes` | Single-winner deletion and its liveness | 3 callers on 1 run with a queue of 1: one holds the claim, one sleeps, one arrives, and a send can be refused. No crash (a crash ends every call). |
| `late_worker` | Can an event of a finished generation follow the tombstone? | violated, see below |
| `tails` | Do rings, log reads and restarts agree? | 3 runs for 2 warm rings of 2 events, 5 records, 1 crash: a ring must be trimmed, evicted, deleted and warmed again. Runs are interchangeable (symmetry). |
| `slots` | Limit accounting, the index, deadlock freedom | 3 creators of one principal for one slot (two that can be cancelled, one detached), 3 runs, 2 handler events or expiries, 1 cancellation |
| `webhooks` | Is every event of a hook's run delivered or given up, in order, and do the log and the coordinator agree on the hooks? | 1 hook, 2 runs, 3 records, a ring of 1, batches of 2, 2 attempts, 1 crash, 1 failed write to the delivery log. A ring of 1 is lapped by two notifications; the two records behind a registration fill a batch and one does not; three records are a registration, an event and a foreign event or a deletion. Hooks share only the coordinator, which treats them alike, and the limit `MaxHooks`; for several hooks the invariants are proved. |
| `streams` | Does an SSE client that reconnects see every event once, in order? | 1 client, 2 runs, 4 records, a ring of 1, batches of 2, an output channel of 1, 1 crash. Connections do not interact. With four records a batch is full, a further one is not, and the ring still overtakes the producer. |
| `admission` | Are the counts exact and bounded, is the policy's order kept, can a wake-up be lost, does every call return? | 3 callers (urgent, live, offline) of 2 principals and 3 streams, 2 permits, 1 per principal, a queue of 2, a token budget that the offline call exceeds together with either of the others, deadlines of 3 to 5 ticks, aging after 1, 1 tick of delay at the mutex. Every limit is hit by some behaviour, a waiter is passed over, promoted by age, and times out while another is notified. |
| `whip` | One reclaimer, one outcome, every resource back? | 1 place in the session map, generations of 2 threads, and five loads: one session with WHIP DELETE, REST stop and REST delete and one failing append; one whose run is stopped among the events of both kinds of handlers and may expire; one whose run is deleted among the events of a handler, with one failing append; two offers where the second is short of bytes, and two where it is short of threads or of the slot, with one failing append and one dying worker. Sessions share only the two counters and the slots. |
| `edge` | Is what is served what `device.json` says, and is every transition resolved? | 2 release ids, 3 manifests (one binds an id again), 2 crashes, 2 failing hooks, 1 failing write: enough for a crash during the recovery of a crash. |
| `edge_pointer` | The documentation's claim about the last active release | 1 crash and 1 failing hook; violated, see below |

Deadlock is checked in `admission`, `edge` and `edge_pointer`. The other
configurations say `CHECK_DEADLOCK FALSE`: a bounded instance stops when its
bounds are used up, and a log that does not decode refuses to open. That no call
hangs is checked as liveness instead.

**Fairness.** `FairSpec` gives weak fairness to the steps of the writer thread
and of each call or creator in progress: the thread loops until the process
ends, and a blocking call, a spawned future or a lock holder is scheduled.
In `Delivery` the same holds of the announcements of published records, the
coordinator, each worker and each producer, which are tasks of runtimes that
live as long as the process, and of reading by a client while it is connected
(one that does not is disconnected, `ClientLeaves`). Of the coordinator only
that it takes steps is assumed, because `select!` picks among its channels.
Nothing is assumed about new calls, crashes, cancellations, or which outcome an
I/O step has. Lock acquisition needs no stronger fairness because each
contender takes the lock finitely often.

In `WhipSession` every task the server spawned goes on (the transaction, the
watcher, WHIP DELETE, the REST transitions, the ingest task, the supervisor's
thread); clients, peers, the handlers (whose futures go with their connection) and the worker
threads owe nothing, which is why
`EndedSessionIsReclaimed` promises the media share back only once the threads
have ended or were detached. In `InferenceAdmission` time passes, threads that
wait for the mutex or were woken run, and provider calls end. In `EdgeUpdate`
an operation goes on until it returns or crashes, and some poll follows: `watch`
polls at an interval, and systemd starts it again when it fails
(`deploy/edge/vidarax-update.service`, `Restart=on-failure`). Failures are bounded by
the instance, so liveness is what holds once they stop.

## 5. What is proved

`WalWriter_proofs`, for every set of events and every file bound:

| Theorem | Says |
|---|---|
| `TypeCorrect` | `Spec => []TypeOK` |
| `DurableReads` | `Spec => []ReadersSeeDurableRecords` (`CommittedIsDurable` and `ReadsEndAtARecord`) |
| `History` | `Spec => HistoryIsAppendOnly` |
| `Refinement` | `Spec => ImplementsDurableLog` |
| `Invariance` | `Spec => []IInv`, on which the others rest |

The inductive invariant is

    IInv == TypeOK /\ CommittedIsDurable /\ ReadsEndAtARecord
            /\ (handle = "resync" => tail = "none")

No conjunct is inductive alone. `CommittedIsDurable` across `SyncOk` needs
`pending_end = Len(file)`, which is `ReadsEndAtARecord`; that one, when `open`
finishes, needs that the file has no tail any more, which is the last conjunct:
`open` reaches its sync only after the scan found no tail or the truncation
removed it. `HistoryIsAppendOnly` follows because the only step that shortens
the file, a power failure, keeps `durable >= committed_end` records. The
refinement maps `log` to the records below `committed_end` and `maybe` to the
rest: a sync is a commit, a crash is a stop, the sync of `open` is a recovery,
everything else stutters. The proofs use only `MaxFile \in Nat`.

`TimelineWriter_proofs`, for every number of callers, detached workers and runs,
every queue and batch capacity, and any number of failures and crashes:

| Theorem | Says |
|---|---|
| `SequenceIsContiguous` | `Spec => []SequenceContiguous` |
| `WhatIsAnsweredIsTrue` | `Spec => []AnswersAreTrue` (`AckedIsDurable` and `StateImpliesReadable`) |
| `Invariance` | `Spec => []IInv` |

`IInv` has three parts. `FileInv` is what the writer needs of its file: the
parts of the log's invariant above. `WriterInv` ties the thread to it, at each
value of `wpc`: between batches `next_seq`, the published end and the committed
end agree; while a batch is staged it is exactly the part of the file behind the
committed end; after the sync it ends the file; after a failure the writer is
poisoned and stages nothing more. `AckedInv` says that acknowledged records stay
where they are in the committed part. None of the three properties is inductive:
that a staged record gets the next number needs the agreement of the counters
at the start of the batch, and that an acknowledgement is durable needs that
replies are sent only by a batch whose sync succeeded. The registry and
the queue play no part in this argument.

The deletion protocol rests on it, for the same constants and every retention
capacity:

| Theorem | Says |
|---|---|
| `LogAndRegistryAgree` | `Spec => []LogAgreesWithRegistry` |
| `DeletionIsWonOnce` | `Spec => []DeletionHasOneWinner` |
| `LiveTombstoneIsRetained` | `Spec => []LiveTombstoneRetained` |
| `TimelineTypes` | `Spec => []TypeOK` |
| `ProtocolInvariance` | `Spec => []RInv` |

    RInv == IInv /\ TypeInv /\ BatchInv /\ ProtocolInv /\ StoryInv /\ EvictInv

The commands that left their callers form one pipeline, `Pipe`: the batch, the
deferred delete, the queue. A step that stages, defers, syncs or publishes moves
the border inside it and changes nothing else (`SteadyKeepsProtocol`), a send
adds an entry, a reject or a reply takes one away. `ProtocolInv` says what an
entry and a caller may rely on. `GuardInv`: a delete guard is in one place, in the
pipeline, with its sender or about to be dropped, and exactly the claimed
`RunState`s have one. `DeleteInv`: a delete that is still to be applied holds the
claim of its run's current `RunState`, which is why no second tombstone can be
behind the first; a deleter that lost the race knows that object or a deleted
one. `BirthInv`: before the first record of a run its `run_created` is alone on the
way. `OwnerInv` is the reason why the deleter's cloned `Arc`
does no harm: a `RunState` the map has replaced is never another run's. `StoryInv`
says that the log has nothing of a run behind its tombstone while the registry
remembers it, and that the registry tells of each remembered run what the
applied records say; with `DeleteInv` a record behind a tombstone is a
contradiction. `EvictInv` says that a run which was protected before the loop
looked at its tombstone is not the one the writer is about to evict, nor was evicted
before; with `StoryInv` its tombstone, once applied, is in the registry as long as
its workers live. A protection that is inserted later promises nothing, and its run
is in `late`. A restart rebuilds the registry with a fold over the log.
`ReplayTells` proves what that fold leaves, for a log of any length, by
induction on the records. All of this needs only that `None` is no command
(`CommandAssumption`) besides the assumptions of the first part.

`TypeInv` is the type invariant less its sizes, and needs two things that are not
said of a single step. `RotateFacts` and `ForgetFacts`: a turn of the eviction loop
leaves a sequence of runs. `DemandInv`: records in the file, commands queued or deferred and calls
that are still to send one are together at most `MaxFile`, so that no offset
outgrows the log's room whatever order the commands are taken in.

`EventTails_proofs`, for every number of runs, pollers, records and crashes, every
size of a batch and both caps of the cache:

| Theorem | Says |
|---|---|
| `TailsTypeOK` | `Spec => []TypeOK`, with the caps on the rings and on their number |
| `ReadsLoseNothing` | `Spec => []ReadsAreComplete` (`WarmReadIsColdRead` and `PollerMissesNothing`) |
| `TailsFollowTheLog` | `Spec => []CacheFollowsLog` (`AnswerIsWarm`, `RecencyMatchesTails` and `RestartKeepsTails`) |
| `TailsInvariance` | `Spec => []IInv` |

`RingInv` says of a ring that it holds, up to the records it covers, all of its
run from its oldest on. That is all a warm answer needs, and an
evicted, trimmed or rebuilt ring keeps it. A poller has been sent the records
of its run below its cursor in increasing order (`PollInv`). A reply
that is complete up to some bound adds a block behind them, whether the bound is the
snapshot's `max_seq` or the committed end loaded earlier, so polls may
alternate between ring and log.

`RestartKeepsTails` is the hard one: the live cache orders its runs by ticks,
`build_event_tails` by sequence numbers, and a cache that was rebuilt and then
lived on has both. `CacheInv` says that recencies order the runs as
their newest records do. Then the run that is evicted, and with it all that a record does
to the rings (`TailsAfter`), depends on the rings alone, and the live step and the
replay's step are the same function of them. `BuiltTails` proves for a log of any
length, by induction on its records, that the fold takes that step for
each record. The proofs use only that the caps and the largest batch are positive
numbers and that the bounds are numbers.

`StreamSlots_proofs`, for every finite set of creators and of runs, every limit
and any number of events and cancellations:

| Theorem | Says |
|---|---|
| `SlotsTypeOK` | `Spec => []TypeOK` |
| `SlotCountsAreExact` | `Spec => []CountsAreExact` |
| `SlotLimitIsAccountedFor` | `Spec => []OverLimitIsAccountedFor` |
| `SlotsInvariant` | `Spec => []IInv` |

A creator that counts is not stopped by what happens around it, so the limit is
not inductive. `CountInv` says how far a count in progress can be off: what is
active and not yet visited, and what may still start counting, is covered by
what it has seen, but for the cancellations and revivals so far. `LimitInv`
counts for each principal the creators whose run may still become active
(`Due`): those with a live guard, and those that were cancelled while their append
was queued. The second kind (`Orphans`) is paid for by `cancelled`, so that a release of a
guard keeps the sum. The counts
of `TypeOK` need that an event in the queue, a handler on its way and a
revival are each one of the bounded events (`BoundsInv`). `IndexInv` gives the
exact contents of a bucket between the writer's two writes.

`Delivery_proofs`, for every number of runs, clients and hooks, every capacity of
the ring, the batches, the output channel and the table of hooks, any number of
attempts and any number of crashes and failed writes:

| Theorem | Says |
|---|---|
| `NoEventMissed` | `Spec => []StreamMissesNothing` |
| `HooksFaithful` | `Spec => []DeliveriesAreFaithful` (`DeliveredIsStable` and `NothingSkipped`) |
| `RestartKeepsHooks` | `Spec => []RestartChangesNoHook` |
| `DeliveryTypeOK` | `Spec => []TypeOK` |
| `Invariance`, `WebhooksInvariance`, `RestartInvariance` | `Spec => [](IInv /\ WebhookInv /\ RestartInv)`, one after the other |

`IInv` says for each client that what it has received is every record of its run
up to the last one (`ReceivedInv`), and, while it is connected, that what lies
in its output channel is every record between that one and its producer's
cursor, but for the one in the producer's hand (`OnItsWay`). For a producer that
lives off the broadcast this needs `pos <= cursor`: a notification
then is either one it has replayed or the very next record of the file. That
holds when it stops replaying because the replay ended at a published end at
or behind the position it subscribed at, or lagged to, which is the reason why
`stream_events` subscribes before it replays. A restart changes nothing that was
published, so steps of the writer leave every client's past alone
(`OthersKeepStreams`). This part uses only `HookRunAssumption` and
`CapsAssumption`; the webhooks also need that the bounds are numbers
(`BoundsAssumption`) and that an event's record, which has `"none"` in the place
of a hook, is not about a hook (`HooksAssumption`).

`WebhookInv` says what a worker may believe. The places it goes by are five:
`last`, `offset`, the registered sequence, every line of the delivery log that
a restart could read, and every settled event (`Reached`). `Covered` says of each
that every event due up to there is settled. That makes the property inductive:
whichever of them a replay starts from, and whichever lines of an unsynced log a
crash leaves, nothing in front of it is missing, so the maximum of several
(`Cursor`, `Progress`) needs no argument of its own. `BatchInv` ties the batch to
it: what is due up to its end and not yet settled is still in `todo`, hence
a checkpoint may cover all of it. `RegistrationInv` gives the place where a hook
starts: it has one registration at most, and a queued activation carries the
sequence of that record, published.

`RestartInv` is about the two requests, the commands and the log.
`EntryInv` is the heart of it: an active entry has a published registration; a
deletion that is published and not yet carried out has somebody on the way to
carry it out (a request that waits or was dropped, or a queued remove), and a
registration that was answered, published and not deleted is active.
`ChannelInv` says which command may be queued in which state of its request; that
a failed append can only be followed by a remove of a hook that will never be in
the log needs that its sync failed for good (`UnpublishedInv`: a record that is
not published is waited for, or belongs to a dropped request, or the writer is
poisoned). `RoomInv` is what `MAX_WEBHOOKS` asks for, and the only part about several
hooks: at every length to which a crash could cut the log, the hooks a restart
would configure fit. While the writer is alive they are a subset of the
coordinator's entries, which are bounded, since a registration is
written only for a hook that has its entry, and the entry goes only behind the
record of its deletion. All of this holds unless some hook was deleted
before it was registered; the restart itself needs it for the hooks it
chooses (`RestartFacts`).

`InferenceAdmission_proofs`, for every set of callers, principals and streams, every
limit, budget and deadline:

| Theorem | Says |
|---|---|
| `AdmissionTypes` | `Spec => []TypeOK` |
| `AdmissionIsExactAndBounded` | `Spec => []AdmissionIsExact` |
| `DemandIsExact` | `Spec => []DemandIsReserved` |
| `PermitsFollowTheOrder` | `Spec => GrantsFollowTheOrder` |
| `TurnsAreLostOnlyByAging` | `Spec => WakeUpsAreLostOnlyByAging` |
| `Invariance`, `OrderInvariance` | `Spec => []IInv`, `Spec => [](OrderInv /\ WakeInv)` |

`IInv` says that the scheduler counts the calls that hold and the calls that wait
(`Counted`) and that it is within its limits (`Bounded`). The lemmas follow the
code's helpers: what `remove_waiter`, `mark_acquired` and `release` do to a state
that counts a given set of callers. That a release never underflows, so that the
code's saturating subtraction is a subtraction, comes from the counts being
exact. The bounds on tokens and bytes need no exactness: a grant checks them,
and a release only lowers them. That what is reserved is the sum over the holders
is a conjunct of `Counted`. The sum is a fold of the library; the proofs write
the function it recurses on out (`SumOn`), prove by induction on the size of a set that the
recursion has a solution (`SumExists`) and that the order in which `CHOOSE` takes
the elements makes no difference (`AnyTerm`), and get what a step needs from that: a
call more or less changes the sum by its own demand (`SumChanges`).

The order needs more than the counts. `PolicyOrder` proves that
`Precedes`, four keys and a ticket, is a strict total order of the waiters, and
`SomebodyIsSelected` that whenever somebody can start exactly one is selected.
`OrderInv` has the tickets. `GrantsFollowTheOrder` then holds of the loop by what it
checks, and of the direct path because nobody who waits could have started at the
ages the caller read, and waiters only drop out by ageing. For the wake-ups, every
step that frees capacity, or takes the selected waiter away, notifies the one
selected then. That is not inductive as it stands: ageing may promote another
waiter past the one that was notified. `WakeInv` says so: the waiter
selected now is notified or promoted by its age, or a waiter whose wait is over will
pass the turn on, or the turn is lost. `OlderIsNoEarlier` is the step that makes it
inductive: a tick changes the order in favour of promoted waiters only, since
the deadlines of all come nearer alike.

`WhipSession_proofs`, for every number of sessions, workers, requests and failures,
every budget and limit:

| Theorem | Says |
|---|---|
| `SessionsEnd` | `Spec => []SessionsEndWithAnOutcome` |
| `StopsAreOverwrittenInFlight` | `Spec => StopIsOverwrittenOnlyInFlight` |
| `WorkersKeepShares` | `Spec => []WorkersKeepTheirShare`, the first conjunct of `WorkersAreAccountedFor` |
| `WorkersAreAccounted` | `Spec => []WorkersAreAccountedFor` |
| `WhipTypes` | `Spec => []TypeOK` |
| `Invariance`, `AccountInvariance` | `Spec => []IInv`, `Spec => []AccountInv` |

A session is touched only by its own steps, so the invariant is one of each
session (`SessionInv`) and the count of the slots. `GenerationInv` says that from
the insert until all threads have joined the permit belongs to the session and
its run is protected; with it a thread without a share is a contradiction.
`ReclaimInv` says that who is past the claim is alone there and that who is about
to remove the session, or marks it as stopped or deleted, does so behind the end
of its run. An end may be undone by an event that comes late, so the conjuncts say
of a run that it has ended or was revived (`Sealed`), or that it has ended, expired
or was revived (`Settled`); only `deleted` is for good. This needs two facts a reader
of the code would not expect: that a mark of stop or delete is only ever set
behind the append that ended the run, and that no reclaimer exists before the
insert. `StopInv` ties every reclaimer and every handler that is past its check of a
stopped run to the recorded race.

`AccountInv` is about the media budget. `ShareInv` says at which steps of a start the
start transaction owns the permit, `ThreadInv` that a generation has at most the threads
that were spawned and none before its supervisor, and `BudgetInv` that each counter is
the sum of the charged shares and within its limit. The sums are reasoned about as in
`InferenceAdmission_proofs`; that the subtraction in `release_media_generation` never
underflows is again a consequence of exactness. `SlotsAreNat` and `BudgetInv` give
the bounds in `TypeOK`.

`EdgeUpdate_proofs`, for every set of releases and manifests and any number of
crashes and failures:

| Theorem | Says |
|---|---|
| `EdgeTypes` | `Spec => []TypeOK` |
| `DeviceServesItsState` | `Spec => []ServingAgreesWithDevice` |
| `UsedReleasesStay` | `Spec => []ReleasesInUseAreStored` |
| `ReleasesOnlyMoveForward` | `Spec => RolloutMovesForward` |
| `EdgeInvariant` | `Spec => []IInv` |

`LanesInv` bounds how far the serving process may be ahead of `device.json`: by the
pending transition and nothing else. That a rollback of a pending activation
finds the lanes right needs that an activation is only ever pending for the
canary that `device.json` holds, which is a conjunct of it. `PhaseInv` says what an
operation at each step knows, for instance that a stage is written only with a
sequence above the stored one, checked several writes earlier.

Every safety invariant and action property that a passing run checks is stated
by a theorem.
Out of the prover's reach, and left to TLC for good: liveness (`CallsReturn`,
`CreatesFinish`, `EventSettles`, `StreamCatchesUp`, `EndedSessionIsReclaimed`,
`PendingIsResolved`). A fold of
the library takes an operator as its argument, so nothing can be proved of folds
in general; of a particular one it can, as `ReplayFacts` does for the registry and
`BuiltTails` for the rings, and of the sums (`SumExists`, `SumChanges`).

## 6. Disagreements with the code's documentation

Two are runs that TLC must find violated:

* **Late detached events** (`late_worker`). Worker generations are protected
  from tombstone eviction until they have joined, but their last detached events
  may still be queued then. If the tombstone is evicted first, the writer
  no longer sees the deletion and appends the event behind it. Needs as many
  later deletions as the retention cap while one command waits.
* **The pointer after an undone activation** (`edge_pointer`).
  `complete_pending_transition` writes the `current-model` pointer before
  `device.json`. When the process dies there and the recovery's hook fails, the
  activation becomes a rollback. The hook restores the live lane, but nothing
  restores the pointer, which keeps naming the removed release until the next
  activation. `edge-deployment.md` says that a failed stage leaves the last active
  release untouched. `ReleasesInUseAreStored` states what does hold: the pointer
  differs from the current release only while its activation is pending or after
  it was undone.

The others are visible in the models and follow from what is checked there:

* `architecture.md:143`, `events.md` and `index.md` say that appends are flushed, not
  fsynced. `sync_pending` syncs every batch before it is acknowledged
  (`ReadersSeeDurableRecords`). The code is safer than its text.
* `create_run` is dropped with its client's connection; its `StreamSlotGuard` goes while
  `run_created` is still queued, and a creator that counts in between is
  admitted past the limit, which `state-and-cancellation.md:57` excludes.
  `OverLimitIsAccountedFor` says that the excess is never more than the cancelled
  creates and the runs revived by a stale event.
* A REST stop or delete between `run_created` and the insert of the session finds no
  session to close (`RestClose`), so the pipeline starts for a run that has ended
  and stays until its peer ends.
* The reclaimer and the handlers check a run and append to it later, so a REST stop
  in between is overwritten: by `run_completed` or `run_failed`, or by an event that
  makes the run Processing again, after which anybody may end it another way.
  `StopIsOverwrittenOnlyInFlight` says that a stop is overwritten only when some
  task was past its check when the stop was appended.
* A session can be gone while its run is Processing: the run had ended, or was taken
  for terminal because it had expired, and an event came after that.
  `SessionsEndWithAnOutcome` says that there is no other reason.
* The eviction loop looks at `protected_tombstones` and removes the tombstone under
  another lock. A WHIP run that is deleted over REST between `run_created` and the
  insert of its session may be protected in between, or even later, and then its
  tombstone is forgotten with workers that still emit.
  `LiveTombstoneRetained` promises it for runs that were protected before the check.
* The watcher can miss the end of a peer when a handshake publishes `Connected` over
  `Closed`; the session then stays in the map, closed, until somebody reclaims it
  (the second disjunct of `EndedSessionIsReclaimed`).
* `deployment.md:281` says that the media reservation is released with the session.
  The code holds it until the threads have joined, and for good when they
  miss the join deadline, which is the safer reading (`WorkersKeepTheirShare`).
* `deployment.md` says that aging keeps offline work from starving. Aging raises an
  offline waiter to the urgent rank, where the tie is broken by the earlier
  deadline, so newer urgent calls can pass it until its own deadline ends the
  call (`GrantsFollowTheOrder`, `CallsReturn`). A notification given to a waiter that
  another overtakes by aging before it wakes is not passed on; capacity then
  idles, at most until a wait ends (`WakeUpsAreLostOnlyByAging`).
* `edge-deployment.md:78` says that release ids are permanently bound to their first
  manifest. A pruned release has lost its manifest, and its id can be bound
  again under a higher sequence (`Refused`).

Three behaviours of webhook management are visible in `Delivery` and contradict
no text of the repository, so they are stated here and not as runs.
A DELETE that finds a hook whose registration is still being appended records
`webhook_deleted` first, is answered, and the hook is configured again by the
next restart (`DeletedTooEarly`, excluded from `RestartChangesNoHook`). There it takes
one of the `MAX_WEBHOOKS` places, so a restart with a full table may leave out
a hook that was served before: with one such hook the property is promised for
none. A create
dropped between its reservation and its activation leaves a pending entry, which
counts against `MAX_WEBHOOKS` until the process ends (`Answered` requires that
no request was dropped). The handlers never look at the delivery log's health
after start-up: a write that fails is retried with the event it belongs to, so
the receiver sees the event again.

## 7. Limits

**Not modelled.** Policies, the blob sink, archive and restore: short sequences of
calls whose one ordering obligation each is listed as a hazard without a
property. The decision algorithms: sequential functions of a frame, partly in
floating point, which unit tests reach. The codec work of the media workers,
the providers, file ingest, the audio sidecar, the SpacetimeDB mirror, security
and configuration, the CLI, SDK and UI: I/O and data transformation, present in
the models as operations that succeed or fail. Of pipeline supervision the
configuration commands and their acknowledgements; of WHIP sessions SDP and ICE,
attach configuration and the map of reclaimed sessions; of edge updates
signatures, downloads byte by byte, and a hook process that outlives a killed
controller. `spawn_vlm_workers` can fail behind the start of its writer thread,
whose handle is then dropped unjoined; in `Launch` every thread that was started
is counted.

The map of modelled lines covers the concurrent and the crash-prone parts, a small
share of the repository's lines: the rest is mostly tests, request validation,
codecs and clients.

Data are abstracted: payloads, principals' names and timestamps are model
values or absent, byte sizes are nondeterministic outcomes or small numbers.
Integer widths are not modelled: the counters of the modelled parts are 64-bit
sequence numbers, offsets and ticks that no execution exhausts, and the admission
and budget counters are bounded by their limits, as checked.
