------------------------------ MODULE Delivery ------------------------------
(***************************************************************************)
(* Event delivery (vidarax-api, delivery.rs): SSE streams that replay the  *)
(* log and follow the broadcast, and webhooks with their registration      *)
(* handlers, the coordinator task, one worker per hook and the delivery    *)
(* log in which a hook's progress survives a restart.                      *)
(*                                                                         *)
(* The timeline is TimelineWriter's, seen from below its sync: records are *)
(* staged, synced and published, then announced one by one, and a record's *)
(* sequence number is its place in `log' (SequenceContiguous).             *)
(* A webhook belongs to the run HookRun.  The kind filter of a hook and of *)
(* a stream is abstracted to the distinction between "event" and the       *)
(* webhook_ bookkeeping events, which no hook is sent.                     *)
(* X_<mistake> is X with that mistake in it, used by no behaviour.         *)
(***************************************************************************)
EXTENDS Integers, Sequences, FiniteSets

CONSTANTS Hooks,       \* webhook ids, each drawn once
          Streams,     \* SSE clients
          Runs,        \* run ids
          HookRun,     \* the run the hooks and the streams are about
          RingCap,     \* TIMELINE_BROADCAST_CAP
          ReplayBatch, \* REPLAY_BATCH
          OutCap,      \* SSE_OUTPUT_CAP
          MaxHooks,    \* MAX_WEBHOOKS
          MaxAttempts, \* MAX_DELIVERY_ATTEMPTS
          MaxLog,      \* bound: records in the log
          MaxCrashes,  \* bound: crashes
          MaxFailures  \* bound: failed writes to the delivery log

ASSUME HookRunAssumption == HookRun \in Runs
ASSUME HooksAssumption == "none" \notin Hooks
ASSUME CapsAssumption ==
  {RingCap, ReplayBatch, OutCap, MaxHooks, MaxAttempts} \subseteq Nat \ {0}
ASSUME BoundsAssumption == {MaxLog, MaxCrashes, MaxFailures} \subseteq Nat

VARIABLES log,        \* the timeline file
          published,  \* wal_committed_end
          sent,       \* notifications sent into the broadcast
          poisoned,   \* a sync failed: the timeline accepts nothing more
          up          \* the process runs

VARIABLES commands,   \* the coordinator's command channel
          cpos,       \* notifications it received
          hooks,      \* its entries: absent, pending (reserved), active
          regseq,     \* the registered_seq of a hook's configuration
          worker,     \* per hook: the worker task
          saved,      \* per hook: sequences its readable log records end at
          torn,       \* the delivery log ends in half a line
          settled     \* per hook: sequences delivered or given up (history)

VARIABLES create, delete,  \* per hook: the two requests about it
          stream,     \* per stream: the producer task of its connection
          received,   \* per stream: sequences the client received, in order
          crashes, failures

timeline == <<log, published, sent, poisoned, up>>
delivery == <<worker, saved, torn, settled>>
coordinator == <<commands, cpos, hooks, regseq>>
requests == <<create, delete>>
streams == <<stream, received>>
bounds == <<crashes, failures>>
vars == <<timeline, delivery, coordinator, requests, streams, bounds>>

Records == [run : Runs, kind : {"event"}, hook : {"none"}]
             \cup [run : {HookRun}, kind : {"webhook_registered", "webhook_deleted"},
                   hook : Hooks]
Event(r) == [run |-> r, kind |-> "event", hook |-> "none"]
Bookkeeping(k, h) == [run |-> HookRun, kind |-> k, hook |-> h]

WorkerPCs == {"none", "load", "post", "record", "checkpoint", "wait", "backoff"}
RequestPCs == {"idle", "reserve", "append", "wait", "activate",
               "done", "failed", "gone"}

Least(S) == CHOOSE x \in S : \A y \in S : x <= y
Greatest(S) == CHOOSE x \in S : \A y \in S : y <= x
Later(a, b) == IF a >= b THEN a ELSE b
Sooner(a, b) == IF a <= b THEN a ELSE b

NoWorker == [pc |-> "none", wake |-> FALSE, last |-> 0, offset |-> 0,
             to |-> 0, full |-> FALSE, todo |-> {}, attempt |-> 0]
NoRequest == [pc |-> "idle", seq |-> 0]
NoStream == [pc |-> "off", cursor |-> 0, pos |-> 0, to |-> 0, full |-> FALSE, out |-> <<>>]

Init ==
  /\ log = <<>> /\ published = 0 /\ sent = 0 /\ poisoned = FALSE /\ up = TRUE
  /\ commands = <<>>
  /\ cpos = 0
  /\ hooks = [h \in Hooks |-> "absent"]
  /\ regseq = [h \in Hooks |-> 0]
  /\ worker = [h \in Hooks |-> NoWorker]
  /\ saved = [h \in Hooks |-> {}]
  /\ torn = FALSE
  /\ settled = [h \in Hooks |-> {}]
  /\ create = [h \in Hooks |-> NoRequest]
  /\ delete = [h \in Hooks |-> NoRequest]
  /\ stream = [s \in Streams |-> NoStream]
  /\ received = [s \in Streams |-> <<>>]
  /\ crashes = 0 /\ failures = 0

---------------------------------------------------------------------------
(* The timeline writer *)

CanStage == up /\ ~poisoned /\ sent = published /\ Len(log) < MaxLog

AppendEvent(r) ==
  /\ CanStage
  /\ log' = Append(log, Event(r))
  /\ UNCHANGED <<published, sent, poisoned, up, delivery, coordinator, requests,
                 streams, bounds>>

(* A synced batch moves the readable end. *)
SyncBatch ==
  /\ up /\ ~poisoned /\ published < Len(log)
  /\ published' = Len(log)
  /\ UNCHANGED <<log, sent, poisoned, up, delivery, coordinator, requests, streams, bounds>>

SyncFails ==
  /\ up /\ ~poisoned /\ published < Len(log)
  /\ poisoned' = TRUE
  /\ UNCHANGED <<log, published, sent, up, delivery, coordinator, requests, streams, bounds>>

(* The batch is announced record by record, each before its reply. *)
Notify ==
  /\ up /\ sent < published
  /\ sent' = sent + 1
  /\ UNCHANGED <<log, published, poisoned, up, delivery, coordinator, requests,
                 streams, bounds>>

---------------------------------------------------------------------------
(* create_webhook and delete_webhook.  Either future may be dropped at any *)
(* of its awaits; a queued append or command stays queued.                 *)

Goto(req, h, l) == [req EXCEPT ![h].pc = l]
Command(op, h, seq) == [op |-> op, hook |-> h, seq |-> seq]

CreateReserve(h) ==
  /\ up /\ create[h].pc = "idle"
  /\ create' = Goto(create, h, "reserve")
  /\ commands' = Append(commands, Command("reserve", h, 0))
  /\ UNCHANGED <<timeline, delivery, cpos, hooks, regseq, delete, streams, bounds>>

(* DELETE finds its hook in the list, pending or active. *)
DeleteList(h) ==
  /\ up /\ delete[h].pc = "idle" /\ hooks[h] # "absent"
  /\ delete' = Goto(delete, h, "append")
  /\ UNCHANGED <<timeline, delivery, coordinator, create, streams, bounds>>

(* The append of either request, staged behind everything before it ... *)
StageBookkeeping(h) ==
  /\ CanStage
  /\ \/ /\ create[h].pc = "append"
        /\ create' = [create EXCEPT ![h] = [pc |-> "wait", seq |-> Len(log) + 1]]
        /\ log' = Append(log, Bookkeeping("webhook_registered", h))
        /\ UNCHANGED delete
     \/ /\ delete[h].pc = "append"
        /\ delete' = [delete EXCEPT ![h] = [pc |-> "wait", seq |-> Len(log) + 1]]
        /\ log' = Append(log, Bookkeeping("webhook_deleted", h))
        /\ UNCHANGED create
  /\ UNCHANGED <<published, sent, poisoned, up, delivery, coordinator, streams, bounds>>

(* ... or refused, or answered with the error of its failed sync. *)
Refused(req) ==
  /\ up
  /\ \/ req.pc = "append"
     \/ req.pc = "wait" /\ poisoned /\ req.seq > published

AppendRefused(h) ==
  /\ \/ /\ Refused(create[h])
        /\ create' = Goto(create, h, "failed")
        /\ commands' = Append(commands, Command("remove", h, 0))
        /\ UNCHANGED delete
     \/ /\ Refused(delete[h])
        /\ delete' = Goto(delete, h, "failed")
        /\ UNCHANGED <<create, commands>>
  /\ UNCHANGED <<timeline, delivery, cpos, hooks, regseq, streams, bounds>>

AppendAnswered(h) ==
  /\ up
  /\ \/ /\ create[h].pc = "wait" /\ create[h].seq <= sent
        /\ create' = Goto(create, h, "activate")
        /\ commands' = Append(commands, Command("activate", h, create[h].seq))
        /\ UNCHANGED delete
     \/ /\ delete[h].pc = "wait" /\ delete[h].seq <= sent
        /\ delete' = Goto(delete, h, "done")
        /\ commands' = Append(commands, Command("remove", h, 0))
        /\ UNCHANGED create
  /\ UNCHANGED <<timeline, delivery, cpos, hooks, regseq, streams, bounds>>

InProgress(req) == req.pc \in {"reserve", "append", "wait", "activate"}

Disconnect(h) ==
  /\ up
  /\ \/ /\ InProgress(create[h])
        /\ create' = Goto(create, h, "gone")
        /\ UNCHANGED delete
     \/ /\ InProgress(delete[h])
        /\ delete' = Goto(delete, h, "gone")
        /\ UNCHANGED create
  /\ UNCHANGED <<timeline, delivery, coordinator, streams, bounds>>

---------------------------------------------------------------------------
(* run_coordinator *)

(* spawn_hook_worker, with the progress it starts from. *)
Spawned(last) == [NoWorker EXCEPT !.pc = "load", !.last = last]

Reply(h, from, to) == IF create[h].pc = from THEN Goto(create, h, to) ELSE create

HandleReserve ==
  LET h == Head(commands).hook
      room == Cardinality({g \in Hooks : hooks[g] # "absent"}) < MaxHooks
  IN /\ Head(commands).op = "reserve"
     /\ hooks' = IF room THEN [hooks EXCEPT ![h] = "pending"] ELSE hooks
     /\ create' = Reply(h, "reserve", IF room THEN "append" ELSE "failed")
     /\ UNCHANGED <<regseq, worker>>

HandleActivate ==
  LET h == Head(commands).hook
      seq == Head(commands).seq
  IN /\ Head(commands).op = "activate"
     /\ hooks' = [hooks EXCEPT ![h] = IF @ = "pending" THEN "active" ELSE @]
     /\ regseq' = IF hooks[h] = "pending" THEN [regseq EXCEPT ![h] = seq] ELSE regseq
     /\ worker' = IF hooks[h] = "pending"
                  THEN [worker EXCEPT ![h] = Spawned(seq)] ELSE worker
     /\ create' = Reply(h, "activate", IF hooks[h] = "pending" THEN "done" ELSE "failed")

(* The worker is told to stop, and notices between two replays. *)
HandleRemove_pendingOnly ==
  LET h == Head(commands).hook
  IN /\ Head(commands).op = "remove"
     /\ hooks' = [hooks EXCEPT ![h] = IF @ = "pending" THEN "absent" ELSE @]
     /\ UNCHANGED <<regseq, worker, create>>

HandleRemove ==
  /\ Head(commands).op = "remove"
  /\ hooks' = [hooks EXCEPT ![Head(commands).hook] = "absent"]
  /\ UNCHANGED <<regseq, worker, create>>

HandleCommand ==
  /\ up /\ commands # <<>>
  /\ HandleReserve \/ HandleActivate \/ HandleRemove
  /\ commands' = Tail(commands)
  /\ UNCHANGED <<timeline, cpos, saved, torn, settled, delete, streams, bounds>>

(* wake_hook: a wake-up is remembered once while the worker is busy. *)
WakeHooks_idleOnly(S) ==
  [h \in Hooks |-> IF h \in S /\ hooks[h] = "active" /\ worker[h].pc = "wait"
                   THEN [worker[h] EXCEPT !.wake = TRUE] ELSE worker[h]]

WakeHooks(S) ==
  [h \in Hooks |-> IF h \in S /\ hooks[h] = "active"
                   THEN [worker[h] EXCEPT !.wake = TRUE] ELSE worker[h]]

(* The oldest notification in the ring, or Lagged when it is no longer the *)
(* next one: the position jumps to the oldest, and every hook is woken.    *)
HandleNotification ==
  /\ up /\ cpos < sent
  /\ IF sent - cpos > RingCap
     THEN /\ cpos' = sent - RingCap
          /\ worker' = WakeHooks(Hooks)
     ELSE /\ cpos' = cpos + 1
          /\ worker' = WakeHooks(IF log[cpos + 1].run = HookRun THEN Hooks ELSE {})
  /\ UNCHANGED <<timeline, commands, hooks, regseq, saved, torn, settled, requests,
                 streams, bounds>>

---------------------------------------------------------------------------
(* The delivery log: flushed, never synced.  A line written behind half a  *)
(* line is lost with it when the log is loaded.                            *)

WriteLine == torn' = FALSE /\ UNCHANGED failures
WriteFails == torn' \in {torn, TRUE} /\ failures < MaxFailures /\ failures' = failures + 1
SavedWith(h, seq) == IF torn THEN saved ELSE [saved EXCEPT ![h] = @ \cup {seq}]

(* load_delivery_state *)
Restored(h, s) == IF s[h] = {} THEN 0 ELSE Greatest(s[h])

---------------------------------------------------------------------------
(* replay_hook *)

Matches(seq) == log[seq].run = HookRun /\ log[seq].kind = "event"

Cursor(h) == Later(worker[h].last, regseq[h])

Load_unfiltered(h) ==
  LET from == Later(Cursor(h), worker[h].offset)
      to == Sooner(published, from + ReplayBatch)
      matching == {s \in from + 1 .. to : Matches(s)}
  IN /\ up /\ worker[h].pc = "load"
     /\ worker' = [worker EXCEPT ![h] =
          IF from >= published THEN [@ EXCEPT !.pc = "wait", !.offset = published]
          ELSE [@ EXCEPT !.pc = "post",
                         !.to = to, !.full = to - from = ReplayBatch,
                         !.todo = matching, !.attempt = 1]]
     /\ UNCHANGED <<timeline, saved, torn, settled, coordinator, requests, streams, bounds>>

(* One batch behind the cursor, up to the published end. *)
Load(h) ==
  LET from == Later(Cursor(h), worker[h].offset)
      to == Sooner(published, from + ReplayBatch)
      matching == {s \in from + 1 .. to : Matches(s)}
  IN /\ up /\ worker[h].pc = "load"
     /\ worker' = [worker EXCEPT ![h] =
          IF from >= published THEN [@ EXCEPT !.pc = "wait", !.offset = published]
          ELSE [@ EXCEPT !.pc = IF matching = {} THEN "checkpoint" ELSE "post",
                         !.to = to, !.full = to - from = ReplayBatch,
                         !.todo = matching, !.attempt = 1]]
     /\ UNCHANGED <<timeline, saved, torn, settled, coordinator, requests, streams, bounds>>

(* An error ends the replay; nothing of the batch in memory is kept. *)
Backoff(h) == [worker EXCEPT ![h] = [@ EXCEPT !.pc = "backoff", !.to = 0, !.full = FALSE,
                                              !.todo = {}, !.attempt = 0]]

PostOk(h) ==
  /\ up /\ worker[h].pc = "post"
  /\ worker' = [worker EXCEPT ![h].pc = "record"]
  /\ settled' = [settled EXCEPT ![h] = @ \cup {Least(worker[h].todo)}]
  /\ UNCHANGED <<timeline, saved, torn, coordinator, requests, streams, bounds>>

(* A failed attempt is recorded and retried. *)
PostRetried(h) ==
  /\ up /\ worker[h].pc = "post"
  /\ worker[h].attempt < MaxAttempts
  /\ \/ WriteLine /\ worker' = [worker EXCEPT ![h].attempt = @ + 1]
     \/ WriteFails /\ worker' = Backoff(h)
  /\ UNCHANGED <<timeline, saved, settled, coordinator, requests, streams, crashes>>

(* The last attempt failed, or the body is too large to be posted at all. *)
PostGivenUp(h) ==
  /\ up /\ worker[h].pc = "post"
  /\ worker[h].attempt \in {1, MaxAttempts}
  /\ worker' = [worker EXCEPT ![h].pc = "record"]
  /\ UNCHANGED <<timeline, saved, torn, settled, coordinator, requests, streams, bounds>>

(* The outcome is in the delivery log before the cursor passes the event. *)
RecordOutcome(h) ==
  LET seq == Least(worker[h].todo)
      rest == worker[h].todo \ {seq}
  IN /\ up /\ worker[h].pc = "record"
     /\ \/ /\ WriteLine
           /\ saved' = SavedWith(h, seq)
           /\ settled' = [settled EXCEPT ![h] = @ \cup {seq}]
           /\ worker' = [worker EXCEPT ![h] =
                [@ EXCEPT !.pc = IF rest = {} THEN "checkpoint" ELSE "post",
                          !.last = seq, !.todo = rest, !.attempt = 1]]
        \/ WriteFails /\ worker' = Backoff(h) /\ UNCHANGED <<saved, settled>>
     /\ UNCHANGED <<timeline, coordinator, requests, streams, crashes>>

(* A full batch is followed by another at once. *)
Checkpoint_early(h) ==
  LET w == worker[h]
  IN /\ up /\ w.pc \in {"post", "checkpoint"}
     /\ \/ /\ WriteLine
           /\ saved' = SavedWith(h, w.to)
           /\ worker' = [worker EXCEPT ![h] =
                [@ EXCEPT !.pc = IF w.full THEN "load" ELSE "wait", !.last = w.to,
                          !.offset = w.to, !.to = 0, !.full = FALSE,
                          !.todo = {}, !.attempt = 0]]
        \/ WriteFails /\ worker' = Backoff(h) /\ UNCHANGED saved
     /\ UNCHANGED <<timeline, settled, coordinator, requests, streams, crashes>>

Checkpoint(h) ==
  LET w == worker[h]
  IN /\ up /\ w.pc = "checkpoint"
     /\ \/ /\ WriteLine
           /\ saved' = SavedWith(h, w.to)
           /\ worker' = [worker EXCEPT ![h] =
                [@ EXCEPT !.pc = IF w.full THEN "load" ELSE "wait", !.last = w.to,
                          !.offset = w.to, !.to = 0, !.full = FALSE,
                          !.todo = {}, !.attempt = 0]]
        \/ WriteFails /\ worker' = Backoff(h) /\ UNCHANGED saved
     /\ UNCHANGED <<timeline, settled, coordinator, requests, streams, crashes>>

(* Woken, or two seconds after an error. *)
Resume(h) ==
  /\ up
  /\ \/ worker[h].pc = "wait" /\ worker[h].wake
     \/ worker[h].pc = "backoff"
  /\ worker' = [worker EXCEPT ![h].pc = "load", ![h].wake = FALSE]
  /\ UNCHANGED <<timeline, saved, torn, settled, coordinator, requests, streams, bounds>>

Exit(h) ==
  /\ up
  /\ worker[h].pc \in {"wait", "backoff"} /\ hooks[h] = "absent"
  /\ worker' = [worker EXCEPT ![h] = NoWorker]
  /\ UNCHANGED <<timeline, saved, torn, settled, coordinator, requests, streams, bounds>>

---------------------------------------------------------------------------
(* stream_events.  The producer's cursor passes every record; those of the *)
(* run go through the bounded output channel to the client.                *)

Goes(s, l) == [stream EXCEPT ![s].pc = l]
Shown(seq) == log[seq].run = HookRun
HasRoom(s) == Len(stream[s].out) < OutCap
StreamStep == <<timeline, delivery, coordinator, requests, bounds>>

LastReceived(s) == IF received[s] = <<>> THEN 0 ELSE received[s][Len(received[s])]

(* Subscribe first, then replay behind the client's Last-Event-ID. *)
Connect(s) ==
  /\ up /\ stream[s].pc = "off"
  /\ stream' = [stream EXCEPT ![s] =
       [NoStream EXCEPT !.pc = "replay", !.cursor = LastReceived(s), !.pos = sent]]
  /\ UNCHANGED <<received, StreamStep>>

(* replay_to_sse reads one batch. *)
Replay(s) ==
  LET from == stream[s].cursor
      to == Sooner(published, from + ReplayBatch)
  IN /\ up /\ stream[s].pc = "replay"
     /\ stream' = IF from >= published THEN Goes(s, "recv")
                  ELSE [stream EXCEPT ![s].pc = "batch", ![s].to = to,
                                      ![s].full = to - from = ReplayBatch]
     /\ UNCHANGED <<received, StreamStep>>

(* The next record of the batch.  After a full batch another is read. *)
BatchRecord_once(s) ==
  LET st == stream[s]
      seq == st.cursor + 1
  IN /\ up /\ st.pc = "batch"
     /\ IF st.cursor = st.to
        THEN stream' = Goes(s, "recv")
        ELSE stream' = [stream EXCEPT ![s].cursor = seq,
                                      ![s].pc = IF Shown(seq) THEN "push" ELSE "batch"]
     /\ UNCHANGED <<received, StreamStep>>

BatchRecord(s) ==
  LET st == stream[s]
      seq == st.cursor + 1
  IN /\ up /\ st.pc = "batch"
     /\ IF st.cursor = st.to
        THEN stream' = Goes(s, IF st.full THEN "replay" ELSE "recv")
        ELSE stream' = [stream EXCEPT ![s].cursor = seq,
                                      ![s].pc = IF Shown(seq) THEN "push" ELSE "batch"]
     /\ UNCHANGED <<received, StreamStep>>

(* send_sse_event: wait for room in the output channel. *)
Push(s) ==
  /\ up /\ stream[s].pc \in {"push", "pushLive"} /\ HasRoom(s)
  /\ stream' = [stream EXCEPT ![s].out = Append(@, stream[s].cursor),
                              ![s].pc = IF @ = "push" THEN "batch" ELSE "recv"]
  /\ UNCHANGED <<received, StreamStep>>

(* The next notification: behind the cursor it was replayed already. *)
Receive_noLag(s) ==
  LET st == stream[s]
      seq == IF sent - st.pos > RingCap THEN sent - RingCap + 1 ELSE st.pos + 1
  IN /\ up /\ st.pc = "recv" /\ st.pos < sent
     /\ stream' = [stream EXCEPT ![s] =
          IF seq <= st.cursor THEN [@ EXCEPT !.pos = seq]
          ELSE [@ EXCEPT !.pos = seq, !.cursor = seq,
                         !.pc = IF Shown(seq) THEN "pushLive" ELSE "recv"]]
     /\ UNCHANGED <<received, StreamStep>>

Receive(s) ==
  LET st == stream[s]
      seq == st.pos + 1
  IN /\ up /\ st.pc = "recv" /\ st.pos < sent
     /\ stream' = [stream EXCEPT ![s] =
          IF sent - st.pos > RingCap
          THEN [@ EXCEPT !.pos = sent - RingCap, !.pc = "replay"]
          ELSE IF seq <= st.cursor THEN [@ EXCEPT !.pos = seq]
          ELSE [@ EXCEPT !.pos = seq, !.cursor = seq,
                         !.pc = IF Shown(seq) THEN "pushLive" ELSE "recv"]]
     /\ UNCHANGED <<received, StreamStep>>

ClientReads(s) ==
  /\ stream[s].out # <<>>
  /\ received' = [received EXCEPT ![s] = Append(@, Head(stream[s].out))]
  /\ stream' = [stream EXCEPT ![s].out = Tail(@)]
  /\ UNCHANGED StreamStep

(* The connection breaks with what was on its way. *)
ClientLeaves(s) ==
  /\ stream[s].pc # "off"
  /\ stream' = [stream EXCEPT ![s] = NoStream]
  /\ UNCHANGED <<received, StreamStep>>

---------------------------------------------------------------------------
(* Crash and restart.  Published records are on stable storage; any prefix *)
(* of the others, and of each hook's delivery records, survives.           *)

Crash ==
  /\ up /\ crashes < MaxCrashes
  /\ crashes' = crashes + 1
  /\ up' = FALSE
  /\ \E k \in published..Len(log) : log' = SubSeq(log, 1, k)
  /\ \E keep \in [Hooks -> 0..MaxLog] :
       saved' = [h \in Hooks |-> {v \in saved[h] : v <= keep[h]}]
  /\ torn' \in {torn, TRUE}
  /\ commands' = <<>>
  /\ hooks' = [h \in Hooks |-> "absent"]
  /\ worker' = [h \in Hooks |-> NoWorker]
  /\ create' = [h \in Hooks |-> IF InProgress(create[h])
                                THEN [create[h] EXCEPT !.pc = "failed"] ELSE create[h]]
  /\ delete' = [h \in Hooks |-> IF InProgress(delete[h])
                                THEN [delete[h] EXCEPT !.pc = "failed"] ELSE delete[h]]
  /\ stream' = [s \in Streams |-> NoStream]
  /\ UNCHANGED <<published, sent, poisoned, cpos, regseq, settled, received, failures>>

(* restore_webhook_configs: the last registration or deletion decides. *)
Configured(n) ==
  {h \in Hooks : \E i \in 1..n :
     /\ log[i] = Bookkeeping("webhook_registered", h)
     /\ \A j \in i + 1 .. n : log[j].hook # h}

RegisteredSeq(h) ==
  Greatest({i \in DOMAIN log : log[i] = Bookkeeping("webhook_registered", h)})

(* At most MAX_WEBHOOKS of them, in no particular order. *)
Restart ==
  /\ ~up
  /\ up' = TRUE
  /\ published' = Len(log) /\ sent' = Len(log) /\ cpos' = Len(log)
  /\ poisoned' = FALSE
  /\ \E chosen \in SUBSET Configured(Len(log)) :
       /\ Cardinality(chosen) = Sooner(MaxHooks, Cardinality(Configured(Len(log))))
       /\ hooks' = [h \in Hooks |-> IF h \in chosen THEN "active" ELSE "absent"]
       /\ regseq' = [h \in Hooks |-> IF h \in chosen THEN RegisteredSeq(h) ELSE regseq[h]]
       /\ worker' = [h \in Hooks |-> IF h \in chosen
                                     THEN Spawned(Restored(h, saved)) ELSE NoWorker]
  /\ UNCHANGED <<log, commands, saved, torn, settled, requests, streams, bounds>>

---------------------------------------------------------------------------
CoordinatorStep == HandleCommand \/ HandleNotification

WorkerStep(h) ==
  \/ Load(h) \/ PostOk(h) \/ PostRetried(h) \/ PostGivenUp(h)
  \/ RecordOutcome(h) \/ Checkpoint(h) \/ Resume(h) \/ Exit(h)

ProducerStep(s) == Replay(s) \/ BatchRecord(s) \/ Push(s) \/ Receive(s)

Next ==
  \/ \E r \in Runs : AppendEvent(r)
  \/ SyncBatch \/ SyncFails \/ Notify
  \/ CoordinatorStep
  \/ \E h \in Hooks :
       \/ CreateReserve(h) \/ DeleteList(h)
       \/ StageBookkeeping(h) \/ AppendRefused(h) \/ AppendAnswered(h) \/ Disconnect(h)
       \/ WorkerStep(h)
  \/ \E s \in Streams : Connect(s) \/ ProducerStep(s) \/ ClientReads(s) \/ ClientLeaves(s)
  \/ Crash \/ Restart

Spec == Init /\ [][Next]_vars

(* The writer announces what it published, and the tasks of the delivery   *)
(* runtime are scheduled; a connected client reads.  Nothing is assumed of *)
(* new requests and connections, or of the receivers' answers.             *)
FairSpec ==
  /\ Spec
  /\ WF_vars(Notify)
  /\ WF_vars(CoordinatorStep)
  /\ \A h \in Hooks : WF_vars(WorkerStep(h))
  /\ \A s \in Streams : WF_vars(ProducerStep(s)) /\ WF_vars(ClientReads(s))

---------------------------------------------------------------------------
(* Properties *)

Workers == [pc : WorkerPCs, wake : BOOLEAN, last : 0..MaxLog, offset : 0..MaxLog,
            to : 0..MaxLog, full : BOOLEAN, todo : SUBSET (1..MaxLog), attempt : 0..MaxAttempts]
Requests == [pc : RequestPCs, seq : 0..MaxLog]

(* A worker that posts has something to post, within its batch; the        *)
(* notification counters stay in order; the output channel in its bound.   *)
TypeOK ==
  /\ log \in Seq(Records)
  /\ cpos <= sent /\ sent <= published /\ published <= MaxLog
  /\ poisoned \in BOOLEAN /\ up \in BOOLEAN /\ torn \in BOOLEAN
  /\ commands \in Seq([op : {"reserve", "activate", "remove"}, hook : Hooks, seq : 0..MaxLog])
  /\ hooks \in [Hooks -> {"absent", "pending", "active"}]
  /\ Cardinality({h \in Hooks : hooks[h] # "absent"}) <= MaxHooks
  /\ regseq \in [Hooks -> 0..MaxLog]
  /\ worker \in [Hooks -> Workers]
  /\ \A h \in Hooks : worker[h].pc \in {"post", "record"} => worker[h].todo # {}
  /\ saved \in [Hooks -> SUBSET (1..MaxLog)]
  /\ settled \in [Hooks -> SUBSET (1..MaxLog)]
  /\ create \in [Hooks -> Requests] /\ delete \in [Hooks -> Requests]
  /\ \A s \in Streams : Len(stream[s].out) <= OutCap

(* "The event ID is stable" (events.md): an event that a receiver has seen *)
(* is on stable storage and keeps its sequence number for good, so no      *)
(* later event gets the same ID.                                           *)
DeliveredIsStable ==
  \A h \in Hooks : \A seq \in settled[h] : seq <= published /\ Matches(seq)

(* How far hook h has got, in memory or in what a restart would load. *)
Progress(h) == Greatest({regseq[h], worker[h].last, Restored(h, saved)})

(* Behind its registration, a hook is never past a matching event that was *)
(* neither delivered nor recorded as a dead letter, and events settle in   *)
(* order: through failed attempts, a delivery log that loses lines, and    *)
(* restarts.                                                               *)
NothingSkipped ==
  \A h \in Hooks : \A i, seq \in 1..published :
    i < seq /\ log[i] = Bookkeeping("webhook_registered", h)
      /\ Matches(seq) /\ seq \notin settled[h]
      => Progress(h) < seq /\ \A t \in settled[h] : t < seq

(* What a hook gets is stable, complete and in order.                      *)
DeliveriesAreFaithful == DeliveredIsStable /\ NothingSkipped

(* A client that reconnects with its last event id receives every event of *)
(* the run once and in order, and only events on stable storage, however   *)
(* often the ring laps its producer or the process restarts.               *)
StreamMissesNothing ==
  \A s \in Streams :
    LET got == received[s]
        InLog == {seq \in 1..LastReceived(s) : seq <= published /\ Shown(seq)}
    IN /\ \A i, j \in DOMAIN got : i < j => got[i] < got[j]
       /\ {got[i] : i \in DOMAIN got} = InLog

(* A connected client that reads gets every event of the run: neither a    *)
(* lapped producer nor one that replayed to the end waits for a record it  *)
(* will not be told of again.                                              *)
StreamCatchesUp ==
  \A s \in Streams, seq \in 1..MaxLog :
    (stream[s].pc # "off" /\ seq <= published /\ Shown(seq))
      ~> (stream[s].pc = "off" \/ \E i \in DOMAIN received[s] : received[s][i] = seq)

(* Both requests about the hook were answered, or died with a process. *)
Answered(h) ==
  /\ ~InProgress(create[h]) /\ create[h].pc # "gone"
  /\ ~InProgress(delete[h]) /\ delete[h].pc # "gone"
  /\ \A i \in DOMAIN commands : commands[i].hook # h

(* DELETE was given a hook whose registration was still on its way, and    *)
(* its own record came first: the hook is gone and still configured.  It   *)
(* takes a place among the MAX_WEBHOOKS of the next restart, which may     *)
(* then leave out another.                                                 *)
DeletedTooEarly(h) ==
  \E i, j \in DOMAIN log : i < j /\ log[i] = Bookkeeping("webhook_deleted", h)
                              /\ log[j] = Bookkeeping("webhook_registered", h)

(* Answered requests leave the coordinator with the hooks that a restart   *)
(* would configure: a hook that was answered as registered is served, one  *)
(* answered as deleted is not, now and after every restart.                *)
RestartChangesNoHook ==
  up /\ (\A h \in Hooks : ~DeletedTooEarly(h)) =>
    \A h \in Hooks : Answered(h) => (hooks[h] = "active" <=> h \in Configured(published))

(* Every matching event reaches a hook or is given up: no wake-up is lost  *)
(* to a busy worker, an overrun ring, or a failed write.                   *)
EventSettles ==
  \A h \in Hooks, seq \in 1..MaxLog :
    (/\ hooks[h] = "active" /\ seq \in regseq[h] + 1 .. published /\ Matches(seq))
      ~> (seq \in settled[h] \/ hooks[h] # "active")
=============================================================================
