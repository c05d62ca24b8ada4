---------------------------- MODULE WhipSession -----------------------------
(***************************************************************************)
(* The life of WHIP sessions: the start transaction and the media budget    *)
(* it reserves, the worker generation and its supervisor, and the tasks     *)
(* that race to end a session: the peer-state watcher, WHIP DELETE, REST    *)
(* stop and REST delete.                                                    *)
(*                                                                         *)
(* A session s is one offer, with an id and a run of its own.  The run is   *)
(* seen as the registry shows it; how its events reach the log is the       *)
(* subject of TimelineWriter, and the stream slot that of StreamSlots.  The *)
(* handlers of a run check its state before they append to it, and an event *)
(* takes a run out of whatever state it is in but deleted.                  *)
(* Workers are interchangeable, so a generation is a count of threads.      *)
(*                                                                         *)
(* X_<mistake> is X with that mistake in it, used by no behaviour.          *)
(***************************************************************************)
EXTENDS Integers, FiniteSets, FiniteSetsExt

CONSTANTS
  Sessions,
  Limit,          \* [bytes, threads]: the two media budgets
  MaxSessions,    \* MAX_WEBRTC_SESSIONS
  Workers,        \* threads of a worker generation
  Loads           \* bound: what clients and failures may do in a behaviour

Resources == {"bytes", "threads"}

Envelopes == [Resources -> Nat]

Requests == {"terminate", "stop", "delete", "process", "reason"}

\* need: the offers made, with the envelope each asks for; requests: what
\* clients ask of the sessions and of their runs; lapses: a run may go without
\* an event for longer than stream_ttl_secs; failures, faults: how many appends
\* may still fail, and how many workers may still exit or panic on their own
IsLoad(l) ==
  \E offers \in SUBSET Sessions :
    l \in [need: [offers -> Envelopes],
          requests: SUBSET (offers \X Requests),
          lapses: BOOLEAN, failures: Nat, faults: Nat]

ASSUME WhipAssumption ==
  /\ IsFiniteSet(Sessions) /\ Limit \in Envelopes
  /\ MaxSessions \in Nat /\ Workers \in Nat \ {0}
  /\ \A l \in Loads : IsLoad(l)

VARIABLES
  start,      \* where the start transaction is
  used,       \* reserved_bytes and reserved_worker_threads
  permit,     \* who owns the MediaResourcePermit: nobody, the transaction, the map
  slots,      \* session_slots
  session,    \* WebRtcSession, and whether the sessions map holds it
  pipe,       \* the worker generation and its supervisor
  protected,  \* runs exempt from tombstone eviction
  act,        \* where the tasks that end the session are
  run,        \* the state of the run, as run_runtime_snapshot gives it
  stopInFlight,  \* history: the last stop was appended behind another task's check
  revived,    \* history: an event undid the end of the run
  load        \* the member of Loads, less the failures and faults that happened

vars == <<start, used, permit, slots, session, pipe, protected, act, run, stopInFlight, revived,
          load>>

\* SessionCloseDisposition, raised with fetch_max
Fault == 0
Complete == 1
Stop == 2
Delete == 3

Reclaimers == {"watcher", "terminate"}
Rest == {"stop", "delete"}
Handlers == {"process", "reason"}
Tasks == Reclaimers \cup Rest \cup Handlers

\* An expired run is one in the active state whose last event is too old: it is
\* terminal for whoever asks, until its next event.
Ended == {"completed", "failed", "stopped", "deleted"}
Terminal == Ended \cup {"expired"}
PeerEnded == {"down", "closed"}
Outcomes == {"completed", "failed", "deleted"}
HandlerSteps == {"append", "again", "finish"}

MaxOf(a, b) == IF a >= b THEN a ELSE b

NewSession == [live |-> FALSE, mark |-> Fault, claimed |-> FALSE, latch |-> FALSE,
               peer |-> "new", handshaking |-> TRUE]
NewPipe == [sup |-> "off", running |-> 0, exited |-> 0, stopping |-> FALSE]

Init ==
  /\ start = [s \in Sessions |-> "idle"]
  /\ used = [r \in Resources |-> 0]
  /\ permit = [s \in Sessions |-> "none"]
  /\ slots = 0
  /\ session = [s \in Sessions |-> NewSession]
  /\ pipe = [s \in Sessions |-> NewPipe]
  /\ protected = {}
  /\ act = [s \in Sessions |-> [a \in Tasks |-> "off"]]
  /\ run = [s \in Sessions |-> "none"]
  /\ stopInFlight = [s \in Sessions |-> FALSE]
  /\ revived = [s \in Sessions |-> FALSE]
  /\ load \in Loads

\* WebRtcSession::close: the stop flag of the generation, the latch, the peer
CloseEffect(s, sess, p) ==
  /\ session' = [session EXCEPT ![s] = [sess EXCEPT !.latch = TRUE, !.peer = "closed"]]
  /\ pipe' = [pipe EXCEPT ![s] = [p EXCEPT !.stopping = TRUE]]

DropPermit(s) ==
  /\ used' = [r \in Resources |-> used[r] - load.need[s][r]]
  /\ permit' = [permit EXCEPT ![s] = "none"]

AppendFails == load.failures > 0 /\ load' = [load EXCEPT !.failures = @ - 1]

-----------------------------------------------------------------------------
(* The peer connection.  The watch of its state keeps the last value only,  *)
(* and a handshake that was under way may publish connected after closed.   *)

PeerConnects(s) ==
  /\ start[s] # "idle" /\ session[s].handshaking
  /\ session' = [session EXCEPT ![s].handshaking = FALSE, ![s].peer = "connected"]
  /\ UNCHANGED <<start, used, permit, slots, pipe, protected, act, run, stopInFlight, revived,
                   load>>

PeerFails(s) ==
  /\ start[s] # "idle" /\ session[s].peer \in {"new", "connected"} /\ ~session[s].latch
  /\ session' = [session EXCEPT ![s].handshaking = FALSE, ![s].peer = "down"]
  /\ UNCHANGED <<start, used, permit, slots, pipe, protected, act, run, stopInFlight, revived,
                   load>>

-----------------------------------------------------------------------------
(* start_whip_session_transaction, in a task that no client can cancel.     *)

Fits(r, s) == used[r] + load.need[s][r] <= Limit[r]

\* Session negotiated, stream slot taken: the bytes of the envelope.
ReserveBytes(s) ==
  /\ start[s] = "idle" /\ s \in DOMAIN load.need
  /\ IF Fits("bytes", s)
     THEN /\ used' = [used EXCEPT !["bytes"] = @ + load.need[s]["bytes"]]
          /\ start' = [start EXCEPT ![s] = "bytes"]
          /\ UNCHANGED <<session, pipe>>
     ELSE /\ start' = [start EXCEPT ![s] = "rejected"]
          /\ CloseEffect(s, session[s], pipe[s])
          /\ UNCHANGED used
  /\ UNCHANGED <<permit, slots, protected, act, run, stopInFlight, revived, load>>

ReserveThreads(s) ==
  /\ start[s] = "bytes"
  /\ IF Fits("threads", s)
     THEN /\ used' = [used EXCEPT !["threads"] = @ + load.need[s]["threads"]]
          /\ permit' = [permit EXCEPT ![s] = "start"]
          /\ start' = [start EXCEPT ![s] = "reserved"]
     ELSE /\ start' = [start EXCEPT ![s] = "threadsFull"]
          /\ UNCHANGED <<used, permit>>
  /\ UNCHANGED <<slots, session, pipe, protected, act, run, stopInFlight, revived, load>>

GiveBytesBack(s) ==
  /\ start[s] = "threadsFull"
  /\ used' = [used EXCEPT !["bytes"] = @ - load.need[s]["bytes"]]
  /\ start' = [start EXCEPT ![s] = "rejected"]
  /\ CloseEffect(s, session[s], pipe[s])
  /\ UNCHANGED <<permit, slots, protected, act, run, stopInFlight, revived, load>>

AppendCreated(s) ==
  /\ start[s] = "reserved"
  /\ \/ /\ run' = [run EXCEPT ![s] = "active"]
        /\ start' = [start EXCEPT ![s] = "created"]
        /\ UNCHANGED <<used, permit, session, pipe, load>>
     \/ /\ AppendFails
        /\ start' = [start EXCEPT ![s] = "rejected"]
        /\ DropPermit(s)
        /\ CloseEffect(s, session[s], pipe[s])
        /\ UNCHANGED run
  /\ UNCHANGED <<slots, protected, act, stopInFlight, revived>>

TakeSlot_unbounded(s) ==
  /\ start[s] = "created"
  /\ slots' = slots + 1
  /\ start' = [start EXCEPT ![s] = "slotted"]
  /\ UNCHANGED <<used, permit, session, pipe, protected, act, run, stopInFlight, revived, load>>

\* The slot is taken by compare-and-swap before the map is touched.
TakeSlot(s) ==
  /\ start[s] = "created"
  /\ IF slots < MaxSessions
     THEN /\ slots' = slots + 1
          /\ start' = [start EXCEPT ![s] = "slotted"]
          /\ UNCHANGED <<used, permit>>
     ELSE /\ start' = [start EXCEPT ![s] = "tombstoning"]
          /\ DropPermit(s)
          /\ UNCHANGED slots
  /\ UNCHANGED <<session, pipe, protected, act, run, stopInFlight, revived, load>>

\* The session becomes visible with its permit and its watcher.
Insert(s) ==
  /\ start[s] = "slotted"
  /\ session' = [session EXCEPT ![s].live = TRUE]
  /\ permit' = [permit EXCEPT ![s] = "session"]
  /\ protected' = protected \cup {s}
  /\ act' = [act EXCEPT ![s]["watcher"] = "watching"]
  /\ start' = [start EXCEPT ![s] = "inserted"]
  /\ UNCHANGED <<used, slots, pipe, run, stopInFlight, revived, load>>

\* The ingest task starts, and spawn_pipeline creates the threads; when one
\* cannot be created the prefix is stopped and joined.
Launch(s) ==
  /\ start[s] = "inserted"
  /\ \E k \in 0..Workers :
       pipe' = [pipe EXCEPT ![s].running = k,
                            ![s].sup = IF k = Workers THEN "watching" ELSE "aborting",
                            ![s].stopping = @ \/ k < Workers]
  /\ start' = [start EXCEPT ![s] = "started"]
  /\ UNCHANGED <<used, permit, slots, session, protected, act, run, stopInFlight, revived, load>>

\* The run of a session that could not be inserted is deleted: three tries in
\* the request, which then closes the session, and a detached task that goes on
\* trying until it succeeds.
TombstoneCreated(s) ==
  /\ start[s] = "tombstoning"
  /\ \/ /\ run' = [run EXCEPT ![s] = "deleted"]
        /\ start' = [start EXCEPT ![s] = "rejected"]
        /\ CloseEffect(s, session[s], pipe[s])
        /\ UNCHANGED load
     \/ /\ AppendFails
        /\ UNCHANGED <<session, pipe>> \/ CloseEffect(s, session[s], pipe[s])
        /\ UNCHANGED <<run, start>>
  /\ UNCHANGED <<used, permit, slots, protected, act, stopInFlight, revived>>

StartStep(s) ==
  \/ ReserveThreads(s) \/ GiveBytesBack(s) \/ AppendCreated(s) \/ TakeSlot(s)
  \/ Insert(s) \/ Launch(s) \/ TombstoneCreated(s)

-----------------------------------------------------------------------------
(* The generation: ingest task, workers and supervisor.                     *)

\* run_with_audio ends on the latch or on a peer that ended, and stops the
\* generation before the frame channel closes.  The latch comes with the stop
\* flag, so ending on it changes nothing more.
IngestEnds(s) ==
  /\ start[s] \in {"inserted", "started"} /\ ~pipe[s].stopping
  /\ session[s].peer \in PeerEnded
  /\ pipe' = [pipe EXCEPT ![s].stopping = TRUE]
  /\ UNCHANGED <<start, used, permit, slots, session, protected, act, run, stopInFlight, revived,
                   load>>

\* a thread that the supervisor has not given up on is left for it to join
ThreadGone(p) ==
  [p EXCEPT !.running = @ - 1,
            !.exited = IF p.sup = "detached" THEN @ ELSE @ + 1]

WorkerStops(s) ==
  /\ pipe[s].running > 0 /\ pipe[s].stopping
  /\ pipe' = [pipe EXCEPT ![s] = ThreadGone(@)]
  /\ UNCHANGED <<start, used, permit, slots, session, protected, act, run, stopInFlight, revived,
                   load>>

WorkerFaults(s) ==
  /\ pipe[s].running > 0
  /\ load.faults > 0 /\ load' = [load EXCEPT !.faults = @ - 1]
  /\ pipe' = [pipe EXCEPT ![s] = ThreadGone(@)]
  /\ UNCHANGED <<start, used, permit, slots, session, protected, act, run, stopInFlight, revived>>

\* supervise: the first exit of a generation that nobody stopped is a fault,
\* which stops the siblings and closes the session
JoinWorker(s) ==
  /\ pipe[s].sup \in {"watching", "aborting"} /\ pipe[s].exited > 0
  /\ LET p == [pipe[s] EXCEPT !.exited = @ - 1]
     IN IF p.stopping
        THEN pipe' = [pipe EXCEPT ![s] = p] /\ UNCHANGED session
        ELSE CloseEffect(s, session[s], p)
  /\ UNCHANGED <<start, used, permit, slots, protected, act, run, stopInFlight, revived, load>>

\* release_media_generation
ReleaseGeneration(s) ==
  /\ permit[s] = "session"
  /\ DropPermit(s)
  /\ protected' = protected \ {s}

AllJoined(s) ==
  /\ pipe[s].running = 0 /\ pipe[s].exited = 0
  /\ ReleaseGeneration(s)
  /\ \/ /\ pipe[s].sup = "watching"
        /\ pipe' = [pipe EXCEPT ![s].sup = "returned"]
        /\ UNCHANGED session
     \/ /\ pipe[s].sup = "aborting"
        /\ CloseEffect(s, session[s], [pipe[s] EXCEPT !.sup = "returned"])
  /\ UNCHANGED <<start, slots, act, run, stopInFlight, revived, load>>

JoinDeadline_releases(s) ==
  /\ pipe[s].stopping /\ pipe[s].running > 0 /\ pipe[s].exited = 0
  /\ ReleaseGeneration(s)
  /\ \/ /\ pipe[s].sup = "watching"
        /\ pipe' = [pipe EXCEPT ![s].sup = "detached"]
        /\ UNCHANGED session
     \/ /\ pipe[s].sup = "aborting"
        /\ CloseEffect(s, session[s], [pipe[s] EXCEPT !.sup = "detached"])
  /\ UNCHANGED <<start, slots, act, run, stopInFlight, revived, load>>

\* The deadline passes with threads left: they are detached and keep their
\* share of the budget and the protection of their run.
JoinDeadline(s) ==
  /\ pipe[s].stopping /\ pipe[s].running > 0 /\ pipe[s].exited = 0
  /\ \/ /\ pipe[s].sup = "watching"
        /\ pipe' = [pipe EXCEPT ![s].sup = "detached"]
        /\ UNCHANGED session
     \/ /\ pipe[s].sup = "aborting"
        /\ CloseEffect(s, session[s], [pipe[s] EXCEPT !.sup = "detached"])
  /\ UNCHANGED <<start, used, permit, slots, protected, act, run, stopInFlight, revived, load>>

-----------------------------------------------------------------------------
(* Reclaim: the watcher and WHIP DELETE run the same transaction.           *)

Goto(s, a, to) == act' = [act EXCEPT ![s][a] = to]

\* the watcher looks at the last published peer state
WatcherSees(s) ==
  /\ act[s]["watcher"] = "watching" /\ session[s].peer \in PeerEnded
  /\ Goto(s, "watcher", "look")
  /\ UNCHANGED <<start, used, permit, slots, session, pipe, protected, run, stopInFlight, revived,
                   load>>

\* whip_terminate: mark the session as completed, then reclaim it
Terminate(s) ==
  /\ <<s, "terminate">> \in load.requests /\ start[s] \in {"inserted", "started"}
  /\ act[s]["terminate"] = "off" /\ session[s].live
  /\ session' = [session EXCEPT ![s].mark = MaxOf(@, Complete)]
  /\ Goto(s, "terminate", "look")
  /\ UNCHANGED <<start, used, permit, slots, pipe, protected, run, stopInFlight, revived, load>>

Claim_unchecked(s, a) ==
  /\ act[s][a] \in {"look", "poll"}
  /\ IF ~session[s].live
     THEN Goto(s, a, "done") /\ UNCHANGED session
     ELSE Goto(s, a, "decide") /\ session' = [session EXCEPT ![s].claimed = TRUE]
  /\ UNCHANGED <<start, used, permit, slots, pipe, protected, run, stopInFlight, revived, load>>

\* Nothing to do when the session is gone; otherwise a compare-and-swap of
\* reclaim_claimed, whose loser polls.
Claim(s, a) ==
  /\ act[s][a] \in {"look", "poll"}
  /\ IF ~session[s].live
     THEN Goto(s, a, "done") /\ UNCHANGED session
     ELSE IF session[s].claimed
     THEN act[s][a] = "look" /\ Goto(s, a, "poll") /\ UNCHANGED session
     ELSE Goto(s, a, "decide") /\ session' = [session EXCEPT ![s].claimed = TRUE]
  /\ UNCHANGED <<start, used, permit, slots, pipe, protected, run, stopInFlight, revived, load>>

\* After an error the watcher backs off and looks again, until the session is
\* gone; a failed WHIP DELETE is the client's to repeat.
AfterError(a) == IF a = "watcher" THEN "look" ELSE "off"

\* forty polls
PollEnds(s, a) ==
  /\ act[s][a] = "poll" /\ session[s].live
  /\ Goto(s, a, AfterError(a))
  /\ UNCHANGED <<start, used, permit, slots, session, pipe, protected, run, stopInFlight, revived,
                   load>>

Outcome(mark) ==
  IF mark = Delete THEN "deleted" ELSE IF mark = Complete THEN "completed" ELSE "failed"

Decide_unchecked(s, a) ==
  /\ act[s][a] = "decide"
  /\ Goto(s, a, IF session[s].mark = Stop THEN "remove" ELSE Outcome(session[s].mark))
  /\ UNCHANGED <<start, used, permit, slots, session, pipe, protected, run, stopInFlight, revived,
                   load>>

\* The disposition is read after the claim.  A stopped run keeps its event, a
\* terminal run gets no second one; the others wait for their append.
Decide(s, a) ==
  /\ act[s][a] = "decide"
  /\ LET mark == session[s].mark
     IN Goto(s, a, IF mark = Stop \/ (mark # Delete /\ run[s] \in Terminal)
                   THEN "remove" ELSE Outcome(mark))
  /\ UNCHANGED <<start, used, permit, slots, session, pipe, protected, run, stopInFlight, revived,
                   load>>

ReclaimAppend_keepsClaim(s, a) ==
  LET outcome == act[s][a]
  IN /\ outcome \in Outcomes
     /\ \/ /\ run[s] # "deleted" \/ outcome = "deleted"
           /\ run' = [run EXCEPT ![s] = outcome]
           /\ Goto(s, a, "remove")
           /\ UNCHANGED load
        \/ /\ run[s] = "deleted" /\ outcome # "deleted"
           /\ Goto(s, a, AfterError(a)) /\ UNCHANGED <<run, load>>
        \/ AppendFails /\ Goto(s, a, AfterError(a)) /\ UNCHANGED run
     /\ UNCHANGED <<start, used, permit, slots, session, pipe, protected, stopInFlight, revived>>

\* A deleted run takes run_deleted again and refuses everything else; a
\* refusal or a failure gives the claim back.
ReclaimAppend(s, a) ==
  LET outcome == act[s][a]
      Released == session' = [session EXCEPT ![s].claimed = FALSE] /\ Goto(s, a, AfterError(a))
  IN /\ outcome \in Outcomes
     /\ \/ /\ run[s] # "deleted" \/ outcome = "deleted"
           /\ run' = [run EXCEPT ![s] = outcome]
           /\ Goto(s, a, "remove")
           /\ UNCHANGED <<session, load>>
        \/ /\ run[s] = "deleted" /\ outcome # "deleted"
           /\ Released
           /\ UNCHANGED <<run, load>>
        \/ AppendFails /\ Released /\ UNCHANGED run
     /\ UNCHANGED <<start, used, permit, slots, pipe, protected, stopInFlight, revived>>

\* remove_session_for_run, then close; the permit stays with the supervisor
Remove(s, a) ==
  /\ act[s][a] = "remove"
  /\ CloseEffect(s, [session[s] EXCEPT !.live = FALSE], pipe[s])
  /\ slots' = slots - 1
  /\ Goto(s, a, "done")
  /\ UNCHANGED <<start, used, permit, protected, run, stopInFlight, revived, load>>

ReclaimStep(s, a) ==
  Claim(s, a) \/ PollEnds(s, a) \/ Decide(s, a) \/ ReclaimAppend(s, a) \/ Remove(s, a)

-----------------------------------------------------------------------------
(* REST stop and delete: transition_live_run, in a task of its own.         *)

RestBegin(s, a) ==
  /\ <<s, a>> \in load.requests /\ act[s][a] = "off"
  /\ run[s] \in (IF a = "stop" THEN {"active"} ELSE (Terminal \cup {"active"}) \ {"deleted"})
  /\ Goto(s, a, "append")
  /\ UNCHANGED <<start, used, permit, slots, session, pipe, protected, run, stopInFlight, revived,
                   load>>

\* A reclaimer about to append an end, or a handler about to append an event,
\* has looked at the run and will not look again.
PastCheck(s) ==
  \/ \E a \in Reclaimers : act[s][a] \in {"completed", "failed"}
  \/ \E h \in Handlers : act[s][h] \in HandlerSteps

RestAppend(s, a) ==
  /\ act[s][a] = "append"
  /\ \/ /\ run[s] # "deleted"
        /\ run' = [run EXCEPT ![s] = IF a = "stop" THEN "stopped" ELSE "deleted"]
        /\ stopInFlight' = IF a = "stop" THEN [stopInFlight EXCEPT ![s] = PastCheck(s)]
                           ELSE stopInFlight
        /\ Goto(s, a, "close")
        /\ UNCHANGED load
     \/ /\ AppendFails \/ (run[s] = "deleted" /\ UNCHANGED load)
        /\ Goto(s, a, "done")
        /\ UNCHANGED <<run, stopInFlight>>
  /\ UNCHANGED <<start, used, permit, slots, session, pipe, protected, revived>>

\* close_live_session_for_run: nothing to close before the session is inserted
RestClose(s, a) ==
  /\ act[s][a] = "close"
  /\ IF session[s].live
     THEN CloseEffect(s, [session[s] EXCEPT !.mark = MaxOf(@, IF a = "stop" THEN Stop ELSE Delete)],
                      pipe[s])
     ELSE UNCHANGED <<session, pipe>>
  /\ Goto(s, a, "done")
  /\ UNCHANGED <<start, used, permit, slots, protected, run, stopInFlight, revived, load>>

-----------------------------------------------------------------------------
(* The other events of the run.  keepalive_run, ingest_run, analyze_run and *)
(* infer look at the run once and append one event that makes it Processing;*)
(* reason_realtime_run appends two such events and then run_completed.      *)

\* The run exists and is neither ended nor expired.
CheckRun(s, h) ==
  /\ <<s, h>> \in load.requests /\ act[s][h] = "off"
  /\ run[s] = "active"
  /\ Goto(s, h, "append")
  /\ UNCHANGED <<start, used, permit, slots, session, pipe, protected, run, stopInFlight, revived,
                   load>>

\* A reclaim of the session went by the expiry of the run.
ReclaimedAsExpired(s) ==
  run[s] = "expired" /\ (~session[s].live \/ \E a \in Reclaimers : act[s][a] = "remove")

\* transition_state has no regard for the state the run is in.
Enliven(s) ==
  /\ run' = [run EXCEPT ![s] = "active"]
  /\ revived' = [revived EXCEPT ![s] = @ \/ run[s] \in Ended \/ ReclaimedAsExpired(s)]

\* the handler's next append, when there is one
After(h, step) ==
  IF h # "reason" THEN "done"
  ELSE CASE step = "append" -> "again" [] step = "again" -> "finish" [] OTHER -> "done"

HandlerAppend(s, h) ==
  /\ act[s][h] \in HandlerSteps
  /\ \/ /\ run[s] # "deleted"
        /\ IF act[s][h] = "finish"
           THEN run' = [run EXCEPT ![s] = "completed"] /\ UNCHANGED revived
           ELSE Enliven(s)
        /\ Goto(s, h, After(h, act[s][h]))
        /\ UNCHANGED load
     \/ /\ AppendFails \/ (run[s] = "deleted" /\ UNCHANGED load)
        /\ Goto(s, h, "done")
        /\ UNCHANGED <<run, revived>>
  /\ UNCHANGED <<start, used, permit, slots, session, pipe, protected, stopInFlight>>

\* apply_expiry: stream_ttl_secs since last_activity_ms.
Lapse(s) ==
  /\ load.lapses /\ run[s] = "active"
  /\ run' = [run EXCEPT ![s] = "expired"]
  /\ UNCHANGED <<start, used, permit, slots, session, pipe, protected, act, stopInFlight, revived,
                   load>>

\* Any event moves last_activity_ms: those of the workers, and those of the
\* handlers that only look whether the run is there.
Refresh(s) ==
  /\ run[s] = "expired"
  /\ Enliven(s)
  /\ UNCHANGED <<start, used, permit, slots, session, pipe, protected, act, stopInFlight, load>>

-----------------------------------------------------------------------------
SupervisorStep(s) == JoinWorker(s) \/ AllJoined(s) \/ JoinDeadline(s)

Next ==
  \E s \in Sessions :
    \/ PeerConnects(s) \/ PeerFails(s)
    \/ ReserveBytes(s) \/ StartStep(s)
    \/ IngestEnds(s) \/ WorkerStops(s) \/ WorkerFaults(s) \/ SupervisorStep(s)
    \/ WatcherSees(s) \/ Terminate(s)
    \/ \E a \in Reclaimers : ReclaimStep(s, a)
    \/ \E a \in Rest : RestBegin(s, a) \/ RestAppend(s, a) \/ RestClose(s, a)
    \/ \E h \in Handlers : CheckRun(s, h) \/ HandlerAppend(s, h)
    \/ Lapse(s) \/ Refresh(s)

\* Every task the server spawned goes on: tokio and the supervisor's thread.
\* Clients, peers, the worker threads and the handlers, which end with their
\* connection, owe nothing.
Fairness ==
  \A s \in Sessions :
    /\ WF_vars(StartStep(s)) /\ WF_vars(IngestEnds(s)) /\ WF_vars(SupervisorStep(s))
    /\ WF_vars(WatcherSees(s))
    /\ \A a \in Reclaimers : WF_vars(ReclaimStep(s, a))
    /\ \A a \in Rest : WF_vars(RestAppend(s, a)) /\ WF_vars(RestClose(s, a))

Spec == Init /\ [][Next]_vars
FairSpec == Spec /\ Fairness

-----------------------------------------------------------------------------
(* Properties                                                               *)

StartSteps == {"idle", "bytes", "threadsFull", "reserved", "created", "slotted", "tombstoning",
               "inserted", "started", "rejected"}
ReclaimSteps == {"off", "watching", "look", "poll", "decide", "remove", "done"}
                  \cup Outcomes

TypeOK ==
  /\ start \in [Sessions -> StartSteps]
  /\ used \in [Resources -> Nat]
  /\ permit \in [Sessions -> {"none", "start", "session"}]
  /\ slots \in 0..MaxSessions
  /\ session \in [Sessions -> [live: BOOLEAN, mark: Fault..Delete, claimed: BOOLEAN, latch: BOOLEAN,
                               peer: {"new", "connected"} \cup PeerEnded, handshaking: BOOLEAN]]
  /\ pipe \in [Sessions -> [sup: {"off", "watching", "aborting", "returned", "detached"},
                            running: 0..Workers, exited: 0..Workers, stopping: BOOLEAN]]
  /\ protected \subseteq Sessions
  /\ act \in [Sessions -> [Tasks -> ReclaimSteps \cup HandlerSteps \cup {"close"}]]
  /\ run \in [Sessions -> Terminal \cup {"none", "active"}]
  /\ stopInFlight \in [Sessions -> BOOLEAN] /\ revived \in [Sessions -> BOOLEAN]
  /\ IsLoad(load)

\* The envelopes that are charged at this moment, to each counter.
Charged(r) ==
  {s \in Sessions : permit[s] # "none"
                      \/ (r = "bytes" /\ start[s] \in {"bytes", "threadsFull"})}

\* A worker thread that exists is covered: its session still holds its share of
\* the media budget, and its run cannot be evicted from the registry while the
\* thread may append to it.
WorkersKeepTheirShare ==
  \A s \in Sessions : pipe[s].running > 0 => permit[s] = "session" /\ s \in protected

\* Besides, the two counters are the sums of what is held, and neither passes
\* its limit.
WorkersAreAccountedFor ==
  /\ WorkersKeepTheirShare
  /\ \A r \in Resources : /\ used[r] = MapThenSumSet(LAMBDA s : load.need[s][r], Charged(r))
                          /\ used[r] <= Limit[r]

Deciding == {"decide", "remove"} \cup Outcomes

\* A session leaves the map after its run has ended, or expired: a run found
\* active behind it was revived since, by an event that came too late or after
\* the expiry, and a run that REST delete has deleted stays so.  Exactly one
\* reclaimer ends it: two are never between the claim and the removal, and the
\* slots count the sessions that are there.
SessionsEndWithAnOutcome ==
  /\ \A s \in Sessions :
       /\ start[s] \in {"inserted", "started"} /\ ~session[s].live =>
            run[s] \in Terminal \/ revived[s]
       /\ session[s].mark = Delete => run[s] = "deleted"
       /\ \A a, b \in Reclaimers : act[s][a] \in Deciding /\ act[s][b] \in Deciding => a = b
       /\ (\E a \in Reclaimers : act[s][a] \in Deciding) => session[s].live /\ session[s].claimed
  /\ slots = Cardinality({s \in Sessions : start[s] = "slotted" \/ session[s].live})

\* A stopped run is deleted or stays stopped, unless the stop was appended while
\* a reclaimer or a handler, past its check of the run, had an append under way:
\* that append may complete or fail the run, or revive it for whoever comes next.
StopIsOverwrittenOnlyInFlight ==
  [][\A s \in Sessions :
       run[s] = "stopped" /\ run'[s] \notin {"stopped", "deleted"} => stopInFlight[s]]_vars

Freed(s) == permit[s] = "none" \/ pipe[s].sup = "detached" \/ pipe[s].running > 0

\* A session whose peer is gone is removed, unless a handshake under way
\* overwrites the end before the watcher looks; the share of a session that is
\* gone comes back once its threads have ended; and the run of a session that
\* could not be inserted is deleted.
EndedSessionIsReclaimed ==
  \A s \in Sessions :
    /\ session[s].live /\ session[s].peer \in PeerEnded
         ~> ~session[s].live \/ session[s].peer = "connected"
    /\ start[s] = "started" /\ ~session[s].live ~> Freed(s)
    /\ start[s] = "tombstoning" ~> run[s] = "deleted"
=============================================================================
