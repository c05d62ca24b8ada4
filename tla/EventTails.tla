----------------------------- MODULE EventTails -----------------------------
(***************************************************************************)
(* The warm event tails of vidarax-api, state.rs: per-run rings of the     *)
(* newest events that the timeline writer maintains and publishes in a     *)
(* RingSnapshot, and read_run_events_from, which answers a cursor from the *)
(* snapshot when it can and from the WAL when it cannot.                   *)
(*                                                                         *)
(* A record's sequence number is its place in `log' (SequenceContiguous    *)
(* in TimelineWriter), so a ring is the set of the sequence numbers it     *)
(* holds and an answer is a set read in increasing order.  `log' holds     *)
(* what is on stable storage; queueing, staging and failed syncs belong to *)
(* TimelineWriter.                                                         *)
(* X_<mistake> is X with that mistake in it, used by no behaviour.         *)
(***************************************************************************)
EXTENDS Integers, Sequences, FiniteSets, SequencesExt

CONSTANTS Runs,       \* run ids
          Pollers,    \* clients that poll a run with an advancing cursor
          TailCap,    \* RUN_EVENT_TAIL_CAP
          WarmCap,    \* WARM_RUN_TAIL_CAP
          BatchMax,   \* TIMELINE_BATCH_MAX_COMMANDS
          MaxLog,     \* bound: records in the log
          MaxCrashes  \* bound: crashes

ASSUME CapsAssumption == TailCap \in Nat \ {0} /\ WarmCap \in Nat \ {0}
ASSUME BatchAssumption == BatchMax \in Nat \ {0}
ASSUME BoundsAssumption == MaxLog \in Nat /\ MaxCrashes \in Nat

VARIABLES log,        \* records on stable storage
          published,  \* wal_committed_end
          wpc,        \* where the writer thread is
          next_seq,   \* sequence of the last applied record
          cache,      \* the writer's tails, tail_recency and tail_touch_tick
          snapshot,   \* the published RingSnapshot
          acked,      \* highest sequence whose append was answered (history)
          crashes     \* crashes so far (bound)

VARIABLES ppc,        \* per poller: program counter of its current request
          target,     \* the run it polls
          cursor,     \* its from_seq
          bound,      \* wal_committed_end as its cold read loaded it, else 0
          got         \* the sequences its replies contained, in order

writer == <<log, published, wpc, next_seq, cache, snapshot, acked>>
pollers == <<ppc, target, cursor, bound, got>>
vars == <<writer, crashes, pollers>>

Records == [run : Runs, kind : {"event", "run_deleted"}]
WriterPCs == {"down", "recv", "store", "apply", "publish", "reply"}

NoTails == [r \in {} |-> {}]
ColdCache == [tails |-> NoTails, recency |-> [r \in {} |-> 0], tick |-> 0]
Without(f, r) == [x \in DOMAIN f \ {r} |-> f[x]]
With(f, r, v) == [x \in DOMAIN f \cup {r} |-> IF x = r THEN v ELSE f[x]]
Least(S) == CHOOSE x \in S : \A y \in S : x <= y

Init ==
  /\ log = <<>>
  /\ published = 0
  /\ wpc = "down"
  /\ next_seq = 0
  /\ cache = ColdCache
  /\ snapshot = [tails |-> NoTails, max_seq |-> 0]
  /\ acked = 0
  /\ crashes = 0
  /\ ppc = [p \in Pollers |-> "idle"]
  /\ target \in [Pollers -> Runs]
  /\ cursor = [p \in Pollers |-> 0]
  /\ bound = [p \in Pollers |-> 0]
  /\ got = [p \in Pollers |-> <<>>]

---------------------------------------------------------------------------
(* The rings *)

(* evict_least_recent_tail *)
EvictLeastRecentTail_tailOnly(c) ==
  IF DOMAIN c.recency = {} THEN c
  ELSE LET coldest == CHOOSE r \in DOMAIN c.recency :
                        \A s \in DOMAIN c.recency : c.recency[r] <= c.recency[s]
       IN [c EXCEPT !.tails = Without(@, coldest)]

EvictLeastRecentTail(c) ==
  IF DOMAIN c.recency = {} THEN c
  ELSE LET coldest == CHOOSE r \in DOMAIN c.recency :
                        \A s \in DOMAIN c.recency : c.recency[r] <= c.recency[s]
       IN [c EXCEPT !.tails = Without(@, coldest), !.recency = Without(@, coldest)]

(* insert_event_by_seq: a duplicate changes nothing, and trimming drops    *)
(* the smallest sequences.                                                 *)
InsertEventBySeq(tail, seq) ==
  LET held == tail \cup {seq}
  IN {s \in held : Cardinality({t \in held : t > s}) < TailCap}

NeedsRoom_late(c, r) == r \notin DOMAIN c.tails /\ Cardinality(DOMAIN c.tails) > WarmCap

NeedsRoom(c, r) == r \notin DOMAIN c.tails /\ Cardinality(DOMAIN c.tails) >= WarmCap

(* One record of run r enters its ring; touch is the new recency. *)
TouchTail(c, r, seq, touch) ==
  LET roomy == IF NeedsRoom(c, r) THEN EvictLeastRecentTail(c) ELSE c
      tail == IF r \in DOMAIN roomy.tails THEN roomy.tails[r] ELSE {}
  IN [roomy EXCEPT !.tails = With(@, r, InsertEventBySeq(tail, seq)),
                   !.recency = With(@, r, touch)]

DropTail(c, r) == [c EXCEPT !.tails = Without(@, r), !.recency = Without(@, r)]

(* apply_committed_event, the part about tails *)
ApplyToTails(c, seq) ==
  LET e == log[seq]
  IN IF e.kind = "run_deleted"
     THEN DropTail(c, e.run)
     ELSE [TouchTail(c, e.run, seq, c.tick + 1) EXCEPT !.tick = c.tick + 1]

(* build_event_tails: the first n of the given records replayed in order,  *)
(* with their sequence numbers as recency.                                 *)
BuildEventTails(events, n) ==
  LET Replay(c, seq) ==
        LET e == events[seq]
        IN IF e.kind = "run_deleted"
           THEN DropTail(c, e.run) ELSE TouchTail(c, e.run, seq, seq)
  IN FoldLeft(Replay, ColdCache, [i \in 1..n |-> i]).tails

(* spawn_timeline_writer: recency restarts from the newest record of each  *)
(* ring, and the ticks continue after every sequence number.               *)
InitialCache(tails, max_seq) ==
  [tails |-> tails,
   recency |-> [r \in DOMAIN tails |-> CHOOSE s \in tails[r] : \A t \in tails[r] : t <= s],
   tick |-> max_seq]

(* RingSnapshot::events_since: {} as a value stands for None, a set inside *)
(* a singleton for Some.                                                   *)
EventsSince_exclusive(snap, r, from_seq) ==
  IF r \notin DOMAIN snap.tails \/ from_seq + 1 < Least(snap.tails[r])
  THEN {} ELSE {{s \in snap.tails[r] : s >= from_seq}}

EventsSince(snap, r, from_seq) ==
  IF r \notin DOMAIN snap.tails \/ from_seq < Least(snap.tails[r])
  THEN {} ELSE {{s \in snap.tails[r] : s >= from_seq}}

---------------------------------------------------------------------------
(* The writer thread, from the sync of a batch to its replies *)

(* A batch of ordinary records, or one delete on its own. *)
Batches ==
  (UNION {[1..n -> [run : Runs, kind : {"event"}]] : n \in 1..BatchMax})
    \cup [1..1 -> [run : Runs, kind : {"run_deleted"}]]

SyncBatch ==
  /\ wpc = "recv"
  /\ \E batch \in Batches :
       /\ Len(log) + Len(batch) <= MaxLog
       /\ log' = log \o batch
  /\ wpc' = "store"
  /\ UNCHANGED <<published, next_seq, cache, snapshot, acked, crashes, pollers>>

StoreCommittedEnd ==
  /\ wpc = "store"
  /\ published' = Len(log)
  /\ wpc' = "apply"
  /\ UNCHANGED <<log, next_seq, cache, snapshot, acked, crashes, pollers>>

ApplyCommittedEvent ==
  /\ wpc = "apply"
  /\ next_seq' = next_seq + 1
  /\ cache' = ApplyToTails(cache, next_seq + 1)
  /\ wpc' = IF next_seq' = Len(log) THEN "publish" ELSE "apply"
  /\ UNCHANGED <<log, published, snapshot, acked, crashes, pollers>>

Publish ==
  /\ wpc = "publish"
  /\ snapshot' = [tails |-> cache.tails, max_seq |-> next_seq]
  /\ wpc' = "reply"
  /\ UNCHANGED <<log, published, next_seq, cache, acked, crashes, pollers>>

Reply ==
  /\ wpc = "reply"
  /\ acked' = next_seq
  /\ wpc' = "recv"
  /\ UNCHANGED <<log, published, next_seq, cache, snapshot, crashes, pollers>>

(* Everything in memory is gone, and every request with it; the clients    *)
(* keep their cursors.  A synced batch is in the log even if nobody was    *)
(* told.                                                                   *)
Crash ==
  /\ wpc # "down"
  /\ crashes < MaxCrashes
  /\ crashes' = crashes + 1
  /\ wpc' = "down"
  /\ ppc' = [p \in Pollers |-> "idle"]
  /\ bound' = [p \in Pollers |-> 0]
  /\ UNCHANGED <<log, published, next_seq, cache, snapshot, acked, target, cursor, got>>

(* from_wal *)
Restore ==
  /\ wpc = "down"
  /\ wpc' = "recv"
  /\ published' = Len(log)
  /\ next_seq' = Len(log)
  /\ cache' = InitialCache(BuildEventTails(log, Len(log)), Len(log))
  /\ snapshot' = [tails |-> BuildEventTails(log, Len(log)), max_seq |-> Len(log)]
  /\ UNCHANGED <<log, acked, crashes, pollers>>

---------------------------------------------------------------------------
(* read_run_events_from.  The visibility check of the handler is an        *)
(* earlier step and may be stale by any amount, so it asks no more of the  *)
(* run than to have been recorded.                                         *)

Increasing(S) ==
  [i \in 1..Cardinality(S) |-> CHOOSE s \in S : Cardinality({t \in S : t <= s}) = i]

(* The client appends the reply and moves its cursor past it. *)
Deliver(p, answer) ==
  /\ got' = [got EXCEPT ![p] = @ \o Increasing(answer)]
  /\ cursor' = [cursor EXCEPT ![p] = IF answer = {} THEN @
                                     ELSE 1 + CHOOSE s \in answer : \A t \in answer : t <= s]
  /\ ppc' = [ppc EXCEPT ![p] = "idle"]

PollWarm(p) ==
  /\ wpc # "down"
  /\ ppc[p] = "idle"
  /\ \E s \in 1..next_seq : log[s].run = target[p]
  /\ IF EventsSince(snapshot, target[p], cursor[p]) = {}
     THEN ppc' = [ppc EXCEPT ![p] = "load"] /\ UNCHANGED <<cursor, got>>
     ELSE \E answer \in EventsSince(snapshot, target[p], cursor[p]) : Deliver(p, answer)
  /\ UNCHANGED <<writer, crashes, target, bound>>

(* read_run_events_async loads the bound, then scans on the blocking pool. *)
PollLoad(p) ==
  /\ ppc[p] = "load"
  /\ bound' = [bound EXCEPT ![p] = published]
  /\ ppc' = [ppc EXCEPT ![p] = "scan"]
  /\ UNCHANGED <<writer, crashes, target, cursor, got>>

ColdRead(r, from_seq, end) == {s \in 1..end : log[s].run = r /\ s >= from_seq}

PollScan(p) ==
  /\ ppc[p] = "scan"
  /\ Deliver(p, ColdRead(target[p], cursor[p], bound[p]))
  /\ bound' = [bound EXCEPT ![p] = 0]
  /\ UNCHANGED <<writer, crashes, target>>

---------------------------------------------------------------------------
Next ==
  \/ SyncBatch \/ StoreCommittedEnd \/ ApplyCommittedEvent \/ Publish \/ Reply
  \/ Crash \/ Restore
  \/ \E p \in Pollers : PollWarm(p) \/ PollLoad(p) \/ PollScan(p)

Spec == Init /\ [][Next]_vars

---------------------------------------------------------------------------
(* Properties *)

Running == wpc # "down"
Rings == {S \in SUBSET (1..MaxLog) : S # {} /\ Cardinality(S) <= TailCap}
PartialRings(f) == DOMAIN f \subseteq Runs /\ \A r \in DOMAIN f : f[r] \in Rings

(* The rings stay within their two caps, in the writer and in every        *)
(* published snapshot.                                                     *)
TypeOK ==
  /\ log \in Seq(Records)
  /\ published \in 0..MaxLog
  /\ wpc \in WriterPCs
  /\ next_seq \in 0..MaxLog
  /\ PartialRings(cache.tails) /\ Cardinality(DOMAIN cache.tails) <= WarmCap
  /\ PartialRings(snapshot.tails) /\ Cardinality(DOMAIN snapshot.tails) <= WarmCap
  /\ snapshot.max_seq \in 0..MaxLog
  /\ acked \in 0..MaxLog
  /\ crashes \in 0..MaxCrashes
  /\ ppc \in [Pollers -> {"idle", "load", "scan"}]
  /\ target \in [Pollers -> Runs]
  /\ cursor \in [Pollers -> 0..MaxLog + 1]
  /\ bound \in [Pollers -> 0..MaxLog]
  /\ got \in [Pollers -> Seq(1..MaxLog)]

(* A warm answer is the WAL's answer as of the snapshot's max_seq: no ring *)
(* has a hole below what it claims to serve, whatever was evicted, trimmed *)
(* or deleted and warmed again.                                            *)
WarmReadIsColdRead ==
  \A r \in Runs, from_seq \in 0..MaxLog + 1 :
    EventsSince(snapshot, r, from_seq) \subseteq {ColdRead(r, from_seq, snapshot.max_seq)}

(* A client that polls with an advancing cursor gets every record of its   *)
(* run once and in order, however its polls alternate between the ring     *)
(* and the WAL and whenever the server restarts.                           *)
PollerMissesNothing ==
  \A p \in Pollers :
    got[p] = Increasing({s \in DOMAIN log : log[s].run = target[p] /\ s < cursor[p]})

(* Reads lose nothing, whichever of the two paths answers them.            *)
ReadsAreComplete == WarmReadIsColdRead /\ PollerMissesNothing

(* A caller whose append was answered finds the record in the next warm    *)
(* read, and a warm read never shows what a WAL read would not.            *)
AnswerIsWarm ==
  Running => acked <= snapshot.max_seq /\ snapshot.max_seq <= published

(* Every ring has one recency and every recency a ring (the two            *)
(* debug_asserts of evict_least_recent_tail), no two rings share a         *)
(* recency, and the next tick is newer than all of them.                   *)
RecencyMatchesTails ==
  /\ DOMAIN cache.recency = DOMAIN cache.tails
  /\ \A r, s \in DOMAIN cache.recency : cache.recency[r] = cache.recency[s] => r = s
  /\ Running => \A r \in DOMAIN cache.recency : cache.recency[r] <= cache.tick

(* A restart rebuilds the rings the writer had: the live recency order and *)
(* the replayed one evict the same runs.                                   *)
RestartKeepsTails == Running => cache.tails = BuildEventTails(log, next_seq)

(* The cache and what it publishes follow the log.                         *)
CacheFollowsLog == AnswerIsWarm /\ RecencyMatchesTails /\ RestartKeepsTails
=============================================================================
