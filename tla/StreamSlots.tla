---------------------------- MODULE StreamSlots -----------------------------
(***************************************************************************)
(* The per-principal limit on active runs (vidarax-api, state.rs):         *)
(* try_reserve_stream_slot and its StreamSlotGuard, the by_principal index *)
(* and the run states that count_active_runs_for_principal reads, and the  *)
(* timeline writer that changes them one lock at a time.                   *)
(* `creators' run create_run (their request may be cancelled while the     *)
(* run_created append is awaited) or the detached WHIP start transaction.  *)
(* The run's own handlers check its state first and append later.  What    *)
(* happens to an append between try_send and its application is the        *)
(* subject of TimelineWriter; here the command queue is a sequence.        *)
(* X_<mistake> is X with that mistake in it, used by no behaviour.         *)
(***************************************************************************)
EXTENDS Integers, Sequences, FiniteSets

CONSTANTS Runs,          \* run ids
          Principals,    \* owners of runs
          Creators,      \* requests that create a run
          Detached,      \* those in a detached transaction (WHIP start)
          None,          \* no run, no creator
          Limit,         \* active_stream_limit
          MaxEvents,     \* bound: appends by handlers of existing runs, and expiries
          MaxCancels     \* bound: create requests cancelled mid-append

ASSUME LimitAssumption == Limit \in Nat \ {0}
ASSUME DetachedAssumption == Detached \subseteq Creators
ASSUME RunsAssumption ==
  IsFiniteSet(Runs) /\ IsFiniteSet(Creators) /\ Cardinality(Creators) <= Cardinality(Runs)
ASSUME NoneAssumption == None \notin Runs /\ None \notin Creators
ASSUME BoundsAssumption == MaxEvents \in Nat /\ MaxCancels \in Nat

VARIABLES run,        \* per run: the RunState the registry holds, see NoRun
          index,      \* by_principal
          reserved,   \* stream_reservations
          entry,      \* per principal: the creator that holds its map entry
          queue,      \* commands accepted by the timeline writer
          wpc,        \* the writer's place in apply_structural_event
          handlers    \* checks passed whose append was not sent yet

VARIABLES pc,         \* per creator: program counter
          owner,      \* per creator: its principal
          id,         \* per creator: the run id it took
          seen,       \* per creator: active and reserved slots counted so far
          todo        \* per creator: indexed runs it has still to look at

VARIABLES events,     \* appends and expiries so far (bound)
          cancelled,  \* per principal: creates cancelled mid-append (history)
          revived     \* per principal: runs that became active again (history)

registry == <<run, index>>
creators == <<pc, owner, id, seen, todo>>
history == <<cancelled, revived>>
vars == <<registry, reserved, entry, queue, wpc, handlers, creators, events, history>>

(* state is folded to what counting tells apart: "open" for Pending and    *)
(* Processing, "terminal" for the rest; fresh says that last_activity_ms   *)
(* is within the ttl.                                                      *)
NoRun == [created |-> FALSE, deleted |-> FALSE, by |-> None, state |-> "open", fresh |-> TRUE]

CreatorPCs == {"idle", "count", "send", "wait", "drop", "done"}
EventKinds == {"touch", "process", "finish", "run_deleted"}

Init ==
  /\ run = [r \in Runs |-> NoRun]
  /\ index = [p \in Principals |-> {}]
  /\ reserved = [p \in Principals |-> 0]
  /\ entry = [p \in Principals |-> None]
  /\ queue = <<>>
  /\ wpc = "recv"
  /\ handlers = {}
  /\ pc = [c \in Creators |-> "idle"]
  /\ owner \in [Creators -> Principals]
  /\ id = [c \in Creators |-> None]
  /\ seen = [c \in Creators |-> 0]
  /\ todo = [c \in Creators |-> {}]
  /\ events = 0
  /\ cancelled = [p \in Principals |-> 0]
  /\ revived = [p \in Principals |-> 0]

---------------------------------------------------------------------------
(* What a snapshot of a RunState says *)

(* apply_expiry: a stale run reads as Expired until its next event. *)
Terminal(s) == s.state = "terminal" \/ ~s.fresh

Visible(s) == s.created /\ ~s.deleted

(* The filter of count_active_runs_for_principal. *)
Active(s, p) == Visible(s) /\ s.by = p /\ ~Terminal(s)

---------------------------------------------------------------------------
(* Creating a run *)

Goto(c, l) == pc' = [pc EXCEPT ![c] = l]

(* The map entry of the principal is held from here to the decision.       *)
BeginReserve_committedOnly(c) ==
  /\ pc[c] = "idle"
  /\ entry[owner[c]] = None
  /\ entry' = [entry EXCEPT ![owner[c]] = c]
  /\ seen' = [seen EXCEPT ![c] = 0]
  /\ todo' = [todo EXCEPT ![c] = index[owner[c]]]
  /\ Goto(c, "count")
  /\ UNCHANGED <<registry, reserved, queue, wpc, handlers, owner, id, events, history>>

(* The reservations are read first.  The index bucket stays locked while   *)
(* its runs are looked at one by one.                                      *)
BeginReserve(c) ==
  /\ pc[c] = "idle"
  /\ entry[owner[c]] = None
  /\ entry' = [entry EXCEPT ![owner[c]] = c]
  /\ seen' = [seen EXCEPT ![c] = reserved[owner[c]]]
  /\ todo' = [todo EXCEPT ![c] = index[owner[c]]]
  /\ Goto(c, "count")
  /\ UNCHANGED <<registry, reserved, queue, wpc, handlers, owner, id, events, history>>

CountRun_repeats(c) ==
  /\ pc[c] = "count"
  /\ \E r \in todo[c] :
       seen' = [seen EXCEPT ![c] = IF Active(run[r], owner[c]) THEN @ + 1 ELSE @]
  /\ UNCHANGED <<registry, reserved, entry, queue, wpc, handlers, pc, owner, id, todo,
                 events, history>>

CountRun(c) ==
  /\ pc[c] = "count"
  /\ \E r \in todo[c] :
       /\ todo' = [todo EXCEPT ![c] = @ \ {r}]
       /\ seen' = [seen EXCEPT ![c] = IF Active(run[r], owner[c]) THEN @ + 1 ELSE @]
  /\ UNCHANGED <<registry, reserved, entry, queue, wpc, handlers, pc, owner, id,
                 events, history>>

Refuse_keepsEntry(c) ==
  /\ pc[c] = "count" /\ todo[c] = {}
  /\ seen[c] >= Limit
  /\ Goto(c, "done")
  /\ UNCHANGED <<registry, reserved, entry, queue, wpc, handlers, owner, id, seen, todo,
                 events, history>>

Refuse(c) ==
  /\ pc[c] = "count" /\ todo[c] = {}
  /\ seen[c] >= Limit
  /\ entry' = [entry EXCEPT ![owner[c]] = None]
  /\ Goto(c, "done")
  /\ UNCHANGED <<registry, reserved, queue, wpc, handlers, owner, id, seen, todo,
                 events, history>>

Reserve(c) ==
  /\ pc[c] = "count" /\ todo[c] = {}
  /\ seen[c] < Limit
  /\ entry' = [entry EXCEPT ![owner[c]] = None]
  /\ reserved' = [reserved EXCEPT ![owner[c]] = @ + 1]
  /\ Goto(c, "send")
  /\ UNCHANGED <<registry, queue, wpc, handlers, owner, id, seen, todo,
                 events, history>>

(* next_run_id (an id never taken before), then the run_created append.    *)
SendCreate(c) ==
  /\ pc[c] = "send"
  /\ LET r == CHOOSE x \in Runs : x \notin {id[d] : d \in Creators}
     IN /\ id' = [id EXCEPT ![c] = r]
        /\ queue' = Append(queue, [run |-> r, kind |-> "run_created", creator |-> c])
  /\ Goto(c, "wait")
  /\ UNCHANGED <<registry, reserved, entry, wpc, handlers, owner, seen, todo,
                 events, history>>

(* Queue full or record too large: the guard is dropped on return. *)
SendRefused(c) ==
  /\ pc[c] = "send"
  /\ Goto(c, "drop")
  /\ UNCHANGED <<registry, reserved, entry, queue, wpc, handlers, owner, id, seen, todo,
                 events, history>>

(* The client disconnects and the handler's future is dropped at its await *)
(* point, the guard with it; the command stays queued.                     *)
Cancel(c) ==
  /\ c \notin Detached
  /\ pc[c] = "wait"
  /\ cancelled[owner[c]] < MaxCancels
  /\ cancelled' = [cancelled EXCEPT ![owner[c]] = @ + 1]
  /\ Goto(c, "drop")
  /\ UNCHANGED <<registry, reserved, entry, queue, wpc, handlers, owner, id, seen, todo,
                 events, revived>>

(* StreamSlotGuard::drop waits for the entry like everyone else, and       *)
(* removes it with its last reservation.                                   *)
DropGuard(c) ==
  /\ pc[c] = "drop"
  /\ entry[owner[c]] = None
  /\ reserved' = [reserved EXCEPT ![owner[c]] = IF @ <= 1 THEN 0 ELSE @ - 1]
  /\ Goto(c, "done")
  /\ UNCHANGED <<registry, entry, queue, wpc, handlers, owner, id, seen, todo,
                 events, history>>

---------------------------------------------------------------------------
(* Handlers of an existing run, and time *)

(* load_run_snapshot, and the terminal check where the handler has one.    *)
CheckRun(r, kind) ==
  /\ events < MaxEvents
  /\ Visible(run[r])
  /\ kind \in {"process", "finish"} => ~Terminal(run[r])
  /\ events' = events + 1
  /\ handlers' = handlers \cup {[run |-> r, kind |-> kind, nr |-> events]}
  /\ UNCHANGED <<registry, reserved, entry, queue, wpc, creators, history>>

SendEvent(h) ==
  /\ handlers' = handlers \ {h}
  /\ queue' = Append(queue, [run |-> h.run, kind |-> h.kind, creator |-> None])
  /\ UNCHANGED <<registry, reserved, entry, wpc, creators, events, history>>

(* The ttl of an idle run passes. *)
Expire(r) ==
  /\ events < MaxEvents
  /\ Visible(run[r]) /\ run[r].fresh
  /\ events' = events + 1
  /\ run' = [run EXCEPT ![r].fresh = FALSE]
  /\ UNCHANGED <<index, reserved, entry, queue, wpc, handlers, creators, history>>

---------------------------------------------------------------------------
(* The timeline writer applies the command at the head of the queue *)

Cmd == Head(queue)
Bucket == IF Cmd.kind = "run_created" THEN owner[Cmd.creator] ELSE run[Cmd.run].by

(* DashMap: a bucket cannot be written while a counter iterates over it.   *)
BucketFree == \A c \in Creators : ~(pc[c] = "count" /\ owner[c] = Bucket)

(* The command is done; a creator that still waits gets its reply. *)
Answer ==
  /\ queue' = Tail(queue)
  /\ wpc' = "recv"
  /\ pc' = IF Cmd.creator # None /\ pc[Cmd.creator] = "wait" /\ id[Cmd.creator] = Cmd.run
           THEN [pc EXCEPT ![Cmd.creator] = "drop"] ELSE pc

(* Queued behind the run's own tombstone, or a failed write or sync. *)
RejectCommand ==
  /\ wpc = "recv" /\ queue # <<>>
  /\ Answer
  /\ UNCHANGED <<registry, reserved, entry, handlers, owner, id, seen, todo,
                 events, history>>

(* RunState::apply_event on a run the registry knows. *)
Applied(s, kind) ==
  [s EXCEPT !.state = CASE kind = "process" -> "open"
                        [] kind = "finish"  -> "terminal"
                        [] kind = "touch"   -> @,
            !.fresh = TRUE]

ApplyOrdinary ==
  /\ wpc = "recv" /\ queue # <<>>
  /\ Cmd.kind \in {"touch", "process", "finish"}
  /\ ~run[Cmd.run].deleted
  /\ LET before == run[Cmd.run]
         after == Applied(before, Cmd.kind)
         p == before.by
     IN /\ run' = [run EXCEPT ![Cmd.run] = after]
        /\ revived' = IF Active(after, p) /\ ~Active(before, p)
                      THEN [revived EXCEPT ![p] = @ + 1] ELSE revived
  /\ Answer
  /\ UNCHANGED <<index, reserved, entry, handlers, owner, id, seen, todo,
                 events, cancelled>>

(* apply_structural_event: the index bucket first, then the run entry,     *)
(* with no lock held across the two.                                       *)
UpdateIndex_keepsDeleted ==
  /\ wpc = "recv" /\ queue # <<>>
  /\ Cmd.kind \in {"run_created", "run_deleted"}
  /\ ~run[Cmd.run].deleted
  /\ BucketFree
  /\ index' = [index EXCEPT ![Bucket] = @ \cup {Cmd.run}]
  /\ wpc' = "insert"
  /\ UNCHANGED <<run, reserved, entry, queue, handlers, creators, events, history>>

UpdateIndex ==
  /\ wpc = "recv" /\ queue # <<>>
  /\ Cmd.kind \in {"run_created", "run_deleted"}
  /\ ~run[Cmd.run].deleted
  /\ BucketFree
  /\ index' = [index EXCEPT ![Bucket] = IF Cmd.kind = "run_created"
                                        THEN @ \cup {Cmd.run} ELSE @ \ {Cmd.run}]
  /\ wpc' = "insert"
  /\ UNCHANGED <<run, reserved, entry, queue, handlers, creators, events, history>>

InsertRun ==
  /\ wpc = "insert"
  /\ run' = [run EXCEPT ![Cmd.run] =
               IF Cmd.kind = "run_created"
               THEN [NoRun EXCEPT !.created = TRUE, !.by = owner[Cmd.creator]]
               ELSE [@ EXCEPT !.deleted = TRUE, !.fresh = TRUE]]
  /\ wpc' = "reply"
  /\ UNCHANGED <<index, reserved, entry, queue, handlers, creators, events, history>>

Reply ==
  /\ wpc = "reply"
  /\ Answer
  /\ UNCHANGED <<registry, reserved, entry, handlers, owner, id, seen, todo,
                 events, history>>

---------------------------------------------------------------------------
WriterStep == RejectCommand \/ ApplyOrdinary \/ UpdateIndex \/ InsertRun \/ Reply

CreatorStep(c) ==
  \/ BeginReserve(c) \/ CountRun(c) \/ Refuse(c) \/ Reserve(c)
  \/ SendCreate(c) \/ SendRefused(c) \/ DropGuard(c)

Next ==
  \/ WriterStep
  \/ \E c \in Creators : CreatorStep(c) \/ Cancel(c)
  \/ \E r \in Runs : Expire(r) \/ \E kind \in EventKinds : CheckRun(r, kind)
  \/ \E h \in handlers : SendEvent(h)

Spec == Init /\ [][Next]_vars

(* The writer thread and every creator keep running.  No fairness between  *)
(* the contenders for a lock is needed: each takes it finitely often.      *)
FairSpec ==
  /\ Spec
  /\ WF_vars(WriterStep)
  /\ \A c \in Creators : WF_vars(CreatorStep(c))

---------------------------------------------------------------------------
(* Properties *)

RunStates == [created : BOOLEAN, deleted : BOOLEAN, by : Principals \cup {None},
              state : {"open", "terminal"}, fresh : BOOLEAN]

(* A counter looks at each indexed run once, and reservations are bounded  *)
(* by the requests that can hold one.                                      *)
TypeOK ==
  /\ run \in [Runs -> RunStates]
  /\ index \in [Principals -> SUBSET Runs]
  /\ reserved \in [Principals -> 0..Cardinality(Creators)]
  /\ entry \in [Principals -> Creators \cup {None}]
  /\ queue \in Seq([run : Runs, kind : EventKinds \cup {"run_created"},
                    creator : Creators \cup {None}])
  /\ wpc \in {"recv", "insert", "reply"}
  /\ handlers \subseteq [run : Runs, kind : EventKinds, nr : 0..MaxEvents]
  /\ pc \in [Creators -> CreatorPCs]
  /\ owner \in [Creators -> Principals]
  /\ id \in [Creators -> Runs \cup {None}]
  /\ seen \in [Creators -> 0..Cardinality(Creators) + Cardinality(Runs)]
  /\ todo \in [Creators -> SUBSET Runs]
  /\ events \in 0..MaxEvents
  /\ cancelled \in [Principals -> 0..MaxCancels]
  /\ revived \in [Principals -> 0..MaxEvents]

(* Between Reserve and DropGuard a creator owns a StreamSlotGuard. *)
Guards(p) == {c \in Creators : owner[c] = p /\ pc[c] \in {"send", "wait", "drop"}}

(* Every reservation is some live guard's, and every guard has one: no     *)
(* return path, error or cancellation leaks a slot or releases it twice.   *)
ReservationsAreGuards == \A p \in Principals : reserved[p] = Cardinality(Guards(p))

(* A run whose committed delete is being applied is active no more, though *)
(* its entry still says so for a moment after it left the index.           *)
BeingDeleted(r) == wpc # "recv" /\ Cmd.kind = "run_deleted" /\ Cmd.run = r

ActiveRuns(p) == {r \in Runs : Active(run[r], p) /\ ~BeingDeleted(r)}

(* Guards that stand for a run nobody can count yet. *)
Coming(p) == {c \in Guards(p) : id[c] = None \/ ~run[id[c]].created}

(* The limit is exceeded by exactly two things and by no more than they    *)
(* account for: a create cancelled while its append was queued, and an     *)
(* event that revives a run which had stopped counting.  Concurrent        *)
(* creators, counting while the writer moves runs around, and guards that  *)
(* overlap with their own run add nothing.                                 *)
OverLimitIsAccountedFor ==
  \A p \in Principals :
    Cardinality(ActiveRuns(p)) + Cardinality(Coming(p)) <= Limit + cancelled[p] + revived[p]

(* Between two events the index names exactly the principal's created and  *)
(* undeleted runs, so counting through it misses none.                     *)
IndexMatchesRuns ==
  wpc = "recv" =>
    \A p \in Principals : index[p] = {r \in Runs : Visible(run[r]) /\ run[r].by = p}

(* The two sources a creator counts from are exact.                        *)
CountsAreExact == ReservationsAreGuards /\ IndexMatchesRuns

(* Every create request ends: the lock order of the writer (index, then    *)
(* runs) and of the counters (entry, index, runs) cannot block both.       *)
CreatesFinish == \A c \in Creators : pc[c] = "count" ~> pc[c] = "done"
=============================================================================
