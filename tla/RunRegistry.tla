---------------------------- MODULE RunRegistry -----------------------------
(***************************************************************************)
(* RunRegistry and RunState (vidarax-api, state.rs) as operators on a      *)
(* registry record                                                         *)
(*   runs       run -> index of its current RunState, 0 when absent        *)
(*   heap       the RunState objects; an Arc is an index into it, so a     *)
(*              caller may still hold an object the map no longer names    *)
(*   order      deleted_run_order, the FIFO of retained tombstones         *)
(*   forgotten  the runs whose tombstone was ever evicted (history)        *)
(* A RunState is [created, del, waiters]: delete_state as one of "live",   *)
(* "in_flight", "deleted", and the callers registered with delete_notify.  *)
(* Principal, stream state and last activity belong to StreamSlots.        *)
(* X_<mistake> is X with that mistake in it, used by no behaviour.         *)
(***************************************************************************)
EXTENDS Integers, Sequences, FiniteSets, Folds, Functions

CONSTANTS Runs,          \* run ids
          Clients,       \* callers of the append and delete functions
          RetentionCap   \* DELETED_RUN_RETENTION_CAP

ASSUME RetentionCapAssumption == RetentionCap \in Nat

Kinds == {"run_created", "marker_emitted", "loop_detected", "run_deleted"}
DeleteStates == {"live", "in_flight", "deleted"}
RunStates == [created : BOOLEAN, del : DeleteStates, waiters : SUBSET Clients]

EmptyRegistry ==
  [runs |-> [r \in Runs |-> 0], heap |-> <<>>, order |-> <<>>, forgotten |-> {}]

(* What snapshot() of an absent run falls back to. *)
DefaultSummary == [created |-> FALSE, deleted |-> FALSE]

Present(reg, r) == reg.runs[r] # 0
Deleted(reg, r) == Present(reg, r) /\ reg.heap[reg.runs[r]].del = "deleted"
Summary(reg, r) ==
  IF Present(reg, r)
  THEN [created |-> reg.heap[reg.runs[r]].created, deleted |-> Deleted(reg, r)]
  ELSE DefaultSummary

(* run_runtime_snapshot: the handlers' view, empty unless created and live. *)
Visible(reg, r) == Summary(reg, r) = [created |-> TRUE, deleted |-> FALSE]

---------------------------------------------------------------------------
(* RunState: the single-winner delete protocol *)

(* notify_waiters wakes every registered waiter. *)
Notify(o) == [o EXCEPT !.waiters = {}]

SetDelete_silent(reg, i, d) == [reg EXCEPT !.heap[i].del = d]

SetDelete(reg, i, d) == [reg EXCEPT !.heap[i] = Notify([@ EXCEPT !.del = d])]

BeginDeleteAppend(reg, i) == [reg EXCEPT !.heap[i].del = "in_flight"]
CommitDeleteAppend(reg, i) == SetDelete(reg, i, "deleted")

(* A compare_exchange from in_flight; the waiters are woken either way. *)
RollbackDeleteAppend(reg, i) ==
  SetDelete(reg, i, IF reg.heap[i].del = "in_flight" THEN "live" ELSE reg.heap[i].del)

---------------------------------------------------------------------------
(* RunRegistry: structural events and the bounded tombstone FIFO *)

(* The last one of a set of indices. *)
LastIndex(S) == CHOOSE i \in S : \A j \in S : j <= i

(* More tombstones than are to be kept. *)
OverCap(reg) == Len(reg.order) > RetentionCap
Oldest(reg) == Head(reg.order)

(* push_back of what pop_front gave: a run that is spared for now. *)
RotateOldest(reg) == [reg EXCEPT !.order = Append(Tail(@), Head(@))]

(* remove_if leaves a run that is not deleted: its entry in the FIFO is stale. *)
ForgetOldest(reg) ==
  LET gone == {r \in {Oldest(reg)} : Deleted(reg, r)}
  IN [reg EXCEPT !.order = Tail(@),
                 !.runs = [r \in Runs |-> IF r \in gone THEN 0 ELSE @[r]],
                 !.forgotten = @ \cup gone]

ApplyStructuralEvent_fromDefault(reg, e) ==
  LET fresh == [created |-> e.kind = "run_created",
                del     |-> IF e.kind = "run_deleted" THEN "deleted" ELSE "live",
                waiters |-> {}]
      inserted == [reg EXCEPT !.heap = Append(@, fresh),
                              !.runs[e.run] = Len(reg.heap) + 1]
  IN IF e.kind = "run_deleted" THEN [inserted EXCEPT !.order = Append(@, e.run)]
                               ELSE inserted

FreshlyDeleted(reg, e) == e.kind = "run_deleted" /\ ~Summary(reg, e.run).deleted

(* The run's entry is replaced by a fresh RunState built from its summary.  *)
(* A fresh tombstone is followed by the eviction loop.                      *)
ApplyStructuralEvent(reg, e) ==
  LET before == Summary(reg, e.run)
      fresh == [created |-> before.created \/ e.kind = "run_created",
                del     |-> IF before.deleted \/ e.kind = "run_deleted"
                            THEN "deleted" ELSE "live",
                waiters |-> {}]
      inserted == [reg EXCEPT !.heap = Append(@, fresh),
                              !.runs[e.run] = Len(reg.heap) + 1]
  IN IF FreshlyDeleted(reg, e) THEN [inserted EXCEPT !.order = Append(@, e.run)]
                               ELSE inserted

(* Ordinary events of a known run only touch its state and activity. *)
ApplyAppendedEvent(reg, e) ==
  IF e.kind \in {"run_created", "run_deleted"} \/ ~Present(reg, e.run)
  THEN ApplyStructuralEvent(reg, e)
  ELSE reg

(* An event replayed at startup: nothing is protected yet, so the one       *)
(* tombstone over the cap that a fresh deletion leaves is the oldest.       *)
ReplayEvent(reg, e) ==
  LET applied == ApplyStructuralEvent(reg, e)
  IN IF FreshlyDeleted(reg, e) /\ OverCap(applied) THEN ForgetOldest(applied) ELSE applied

(* build_run_registry: every event of the log takes the structural path. *)
BuildRunRegistry(events, forgotten) ==
  LET Apply(e, reg) == ReplayEvent(reg, e)
  IN MapThenFoldSet(Apply, [EmptyRegistry EXCEPT !.forgotten = forgotten],
                    LAMBDA i : events[i], LastIndex, DOMAIN events)
=============================================================================
