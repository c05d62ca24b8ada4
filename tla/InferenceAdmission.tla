------------------------- MODULE InferenceAdmission -------------------------
(***************************************************************************)
(* The process-wide scheduler of blocking inference calls: callers take a   *)
(* permit under one mutex, or queue, each on a condition variable of its    *)
(* own, until they are the waiter the policy selects or their wait ends.    *)
(*                                                                         *)
(* A caller is a thread with a fixed kind of request.  Time is relative:    *)
(* age[c] is the ticks since the call of c read the clock, so every         *)
(* deadline is a bound on an age and nothing grows without limit.           *)
(*                                                                         *)
(* X_<mistake> is X with that mistake in it, used by no behaviour.          *)
(***************************************************************************)
EXTENDS Integers, FiniteSets, FiniteSetsExt

CONSTANTS
  Callers, Principals, Streams,
  PrincipalOf, StreamOf,
  RankOf,          \* LatencyClass::rank: 0 urgent live, 1 live, 2 offline
  DeadlineOf,      \* ticks from the call to its latest start
  DemandOf,        \* [Callers -> [Dims -> Nat]]: tokens and bytes of the call
  GlobalLimit, PrincipalLimit, WaiterLimit, WaitTimeout,
  Budget,          \* [Dims -> Nat]: max_in_flight_tokens, max_in_flight_bytes
  Aging,           \* ticks of waiting that promote a waiter by one class
  MaxEnterDelay    \* bound: ticks a caller may wait for the mutex

Dims == {"tokens", "bytes"}

\* AdmissionLimits::validate
ASSUME LimitsAssumption ==
  /\ GlobalLimit \in Nat \ {0} /\ PrincipalLimit \in 1..GlobalLimit
  /\ WaiterLimit \in Nat \ {0} /\ WaitTimeout \in Nat \ {0}
  /\ Budget \in [Dims -> Nat \ {0}]
  /\ Aging \in Nat \ {0} /\ MaxEnterDelay \in Nat

ASSUME RequestsAssumption ==
  /\ IsFiniteSet(Callers)
  /\ PrincipalOf \in [Callers -> Principals] /\ StreamOf \in [Callers -> Streams]
  /\ RankOf \in [Callers -> 0..2] /\ DeadlineOf \in [Callers -> Nat]
  /\ DemandOf \in [Callers -> [Dims -> Nat]]

VARIABLES
  adm,       \* AdmissionState, guarded by the mutex
  pc,        \* where the call of each caller is
  age,       \* ticks since Instant::now() of the call, or of its grant
  notified   \* the sleeping callers whose condition variable was notified

vars == <<adm, pc, age, notified>>

none == "none"   \* Option::None

LeastOf(a, b) == IF a <= b THEN a ELSE b
Minus(a, b) == IF a >= b THEN a - b ELSE 0

Holders == {c \in Callers : pc[c] = "holding"}
Sleepers == {c \in Callers : pc[c] = "waiting"}

-----------------------------------------------------------------------------
(* The policy, over the state s of the scheduler at the instant when the    *)
(* age of each caller is at.                                                *)

HasCapacity(s, c) ==
  /\ s.active < GlobalLimit
  /\ \A d \in Dims : s.used[d] + DemandOf[c][d] <= Budget[d]
  /\ s.counts[PrincipalOf[c]].active < PrincipalLimit

Eligible(s, at) == {w \in s.waiters : at[w] < DeadlineOf[w] /\ HasCapacity(s, w)}

Key(s, at, w) ==
  << Minus(RankOf[w], at[w] \div Aging),
     IF s.lastPrincipal = PrincipalOf[w] THEN 1 ELSE 0,
     IF s.lastStream = StreamOf[w] THEN 1 ELSE 0,
     DeadlineOf[w] - at[w] >>

\* the key of w is the smaller one; equal keys go by ticket
Precedes(s, at, w, v) ==
  LET kw == Key(s, at, w)  kv == Key(s, at, v)
  IN \/ kw = kv /\ <<w, v>> \in s.ahead
     \/ \E i \in 1..4 : kw[i] < kv[i] /\ \A j \in 1..(i - 1) : kw[j] = kv[j]

\* the selected waiter as a set: empty when nobody can start
Selected(s, at) ==
  {w \in Eligible(s, at) : \A v \in Eligible(s, at) \ {w} : Precedes(s, at, w, v)}

CanAcquire_jumpsQueue(s, c, own, at) ==
  /\ HasCapacity(s, c)
  /\ own = {} \/ Selected(s, at) = own

\* own = {} for a caller that has no ticket, {c} for the waiter c
CanAcquire(s, c, own, at) ==
  /\ HasCapacity(s, c)
  /\ IF s.waiters = {} THEN own = {} ELSE Selected(s, at) = own

-----------------------------------------------------------------------------
(* The updates made under the mutex.                                        *)

\* a caller takes the next ticket: it is behind everyone who waits
Enqueue(s, c) ==
  [s EXCEPT !.waiters = @ \cup {c},
            !.ahead = @ \cup (s.waiters \X {c}),
            !.counts[PrincipalOf[c]].waiting = @ + 1,
            !.entries = @ \cup {PrincipalOf[c]}]

\* the entry of a principal that neither holds nor waits is removed
DropEmpty(s, p) ==
  IF s.counts[p] = [active |-> 0, waiting |-> 0]
  THEN [s EXCEPT !.entries = @ \ {p}] ELSE s

RemoveWaiter_leaks(s, c) ==
  [s EXCEPT !.waiters = @ \ {c},
            !.ahead = {e \in @ : c \notin {e[1], e[2]}},
            !.counts[PrincipalOf[c]].waiting = Minus(@, 1)]

RemoveWaiter(s, c) ==
  DropEmpty([s EXCEPT !.waiters = @ \ {c},
                      !.ahead = {e \in @ : c \notin {e[1], e[2]}},
                      !.counts[PrincipalOf[c]].waiting = Minus(@, 1)],
            PrincipalOf[c])

MarkAcquired_swapped(s, c) ==
  [s EXCEPT !.active = @ + 1,
            !.used = [d \in Dims |-> @[d] + DemandOf[c][d]],
            !.lastPrincipal = StreamOf[c],
            !.lastStream = PrincipalOf[c],
            !.counts[PrincipalOf[c]].active = @ + 1,
            !.entries = @ \cup {PrincipalOf[c]}]

MarkAcquired(s, c) ==
  [s EXCEPT !.active = @ + 1,
            !.used = [d \in Dims |-> @[d] + DemandOf[c][d]],
            !.lastPrincipal = PrincipalOf[c],
            !.lastStream = StreamOf[c],
            !.counts[PrincipalOf[c]].active = @ + 1,
            !.entries = @ \cup {PrincipalOf[c]}]

Released_keepsDemand(s, c) ==
  DropEmpty([s EXCEPT !.active = Minus(@, 1),
                      !.counts[PrincipalOf[c]].active = Minus(@, 1)],
            PrincipalOf[c])

Released(s, c) ==
  DropEmpty([s EXCEPT !.active = Minus(@, 1),
                      !.used = [d \in Dims |-> Minus(@[d], DemandOf[c][d])],
                      !.counts[PrincipalOf[c]].active = Minus(@, 1)],
            PrincipalOf[c])

-----------------------------------------------------------------------------
(* The steps of a call.                                                     *)

Init ==
  /\ adm = [active |-> 0, used |-> [d \in Dims |-> 0],
            counts |-> [p \in Principals |-> [active |-> 0, waiting |-> 0]],
            entries |-> {}, waiters |-> {}, ahead |-> {},
            lastPrincipal |-> none, lastStream |-> none]
  /\ pc = [c \in Callers |-> "idle"]
  /\ age = [c \in Callers |-> 0]
  /\ notified = {}

\* The clock is read and the request checked before the mutex is taken.  A
\* request over a budget or without time left is refused here and changes nothing.
Call(c) ==
  /\ pc[c] = "idle"
  /\ \A d \in Dims : DemandOf[c][d] <= Budget[d]
  /\ DeadlineOf[c] > 0
  /\ pc' = [pc EXCEPT ![c] = "entering"]
  /\ UNCHANGED <<adm, age, notified>>

WaitOver(c) == age[c] >= LeastOf(WaitTimeout, DeadlineOf[c])

\* The state is s, with c queued, and c runs the body of its loop.
Grant(s, c) ==
  /\ CanAcquire(s, c, {c}, age)
  /\ adm' = MarkAcquired(RemoveWaiter(s, c), c)
  /\ pc' = [pc EXCEPT ![c] = "holding"]
  /\ age' = [age EXCEPT ![c] = 0]
  /\ notified' = (notified \ {c}) \cup Selected(adm', age)

GiveUp_silent(s, c) ==
  /\ ~CanAcquire(s, c, {c}, age)
  /\ WaitOver(c)
  /\ adm' = RemoveWaiter(s, c)
  /\ pc' = [pc EXCEPT ![c] = "idle"]
  /\ age' = [age EXCEPT ![c] = 0]
  /\ notified' = notified \ {c}

GiveUp(s, c) ==
  /\ ~CanAcquire(s, c, {c}, age)
  /\ WaitOver(c)
  /\ adm' = RemoveWaiter(s, c)
  /\ pc' = [pc EXCEPT ![c] = "idle"]
  /\ age' = [age EXCEPT ![c] = 0]
  /\ notified' = (notified \ {c}) \cup Selected(adm', age)

Sleep(s, c) ==
  /\ ~CanAcquire(s, c, {c}, age)
  /\ ~WaitOver(c)
  /\ adm' = s
  /\ pc' = [pc EXCEPT ![c] = "waiting"]
  /\ notified' = notified \ {c}
  /\ UNCHANGED age

Loop(s, c) == Grant(s, c) \/ GiveUp(s, c) \/ Sleep(s, c)

\* the ages when c read the clock: the direct path selects with that instant
AgesAtStart(c) == [w \in Callers |-> Minus(age[w], age[c])]

EnterDirect(c) ==
  /\ pc[c] = "entering"
  /\ CanAcquire(adm, c, {}, AgesAtStart(c))
  /\ adm' = MarkAcquired(adm, c)
  /\ pc' = [pc EXCEPT ![c] = "holding"]
  /\ age' = [age EXCEPT ![c] = 0]
  /\ UNCHANGED notified

EnterRefused(c) ==
  /\ pc[c] = "entering"
  /\ ~CanAcquire(adm, c, {}, AgesAtStart(c))
  /\ Cardinality(adm.waiters) >= WaiterLimit
  /\ pc' = [pc EXCEPT ![c] = "idle"]
  /\ age' = [age EXCEPT ![c] = 0]
  /\ UNCHANGED <<adm, notified>>

EnterQueued(c) ==
  /\ pc[c] = "entering"
  /\ ~CanAcquire(adm, c, {}, AgesAtStart(c))
  /\ Cardinality(adm.waiters) < WaiterLimit
  /\ Loop(Enqueue(adm, c), c)

Enter(c) == EnterDirect(c) \/ EnterRefused(c) \/ EnterQueued(c)

Wake_untimed(c) ==
  /\ pc[c] = "waiting"
  /\ c \in notified
  /\ Loop(adm, c)

\* wait_timeout returns: c was notified, or its time is up
Wake(c) ==
  /\ pc[c] = "waiting"
  /\ c \in notified \/ WaitOver(c)
  /\ Loop(adm, c)

\* wait_timeout may also return for no reason; it matters when c can start
SpuriousWake(c) ==
  /\ pc[c] = "waiting"
  /\ c \notin notified /\ ~WaitOver(c)
  /\ Grant(adm, c)

\* Drop of the permit, at the end of the provider call or while it unwinds
Release(c) ==
  /\ pc[c] = "holding"
  /\ adm' = Released(adm, c)
  /\ pc' = [pc EXCEPT ![c] = "idle"]
  /\ age' = [age EXCEPT ![c] = 0]
  /\ notified' = notified \cup Selected(adm', age)

\* Ages stop where no decision depends on them any more.
AgeCap(c) ==
  IF pc[c] \in {"entering", "waiting"} THEN DeadlineOf[c] + MaxEnterDelay ELSE 0

Tick ==
  /\ \A c \in Callers : pc[c] = "entering" => age[c] < MaxEnterDelay
  /\ age' = [c \in Callers |-> LeastOf(age[c] + 1, AgeCap(c))]
  /\ age' # age
  /\ UNCHANGED <<adm, pc, notified>>

Step(c) == Call(c) \/ Enter(c) \/ Wake(c) \/ SpuriousWake(c) \/ Release(c)

Next == Tick \/ \E c \in Callers : Step(c)

Spec == Init /\ [][Next]_vars

\* Threads are scheduled, provider calls end, and time passes.
Fairness ==
  /\ WF_vars(Tick)
  /\ \A c \in Callers : WF_vars(Enter(c)) /\ WF_vars(Wake(c)) /\ WF_vars(Release(c))

FairSpec == Spec /\ Fairness

-----------------------------------------------------------------------------
(* Properties.                                                              *)

\* Types of the scheduler's state and of the calls.
TypeOK ==
  /\ adm \in [active : Nat, used : [Dims -> Nat],
              counts : [Principals -> [active : Nat, waiting : Nat]],
              entries : SUBSET Principals, waiters : SUBSET Callers,
              ahead : SUBSET (Callers \X Callers),
              lastPrincipal : Principals \cup {none},
              lastStream : Streams \cup {none}]
  /\ pc \in [Callers -> {"idle", "entering", "waiting", "holding"}]
  /\ age \in [Callers -> Nat]
  /\ notified \in SUBSET Callers

\* Whatever way a call took (direct, queued, timed out, spurious wake, unwinding),
\* the number of permits and of waiters, in all and per principal, is what the
\* scheduler has counted, and it keeps an entry for exactly the principals that
\* hold or wait: nothing leaks, nothing is given back twice.
CallsAreCounted ==
  /\ adm.active = Cardinality(Holders)
  /\ adm.waiters = Sleepers
  /\ \A p \in Principals :
       /\ adm.counts[p].active = Cardinality({c \in Holders : PrincipalOf[c] = p})
       /\ adm.counts[p].waiting = Cardinality({c \in Sleepers : PrincipalOf[c] = p})
       /\ p \in adm.entries <=> \E c \in Holders \cup Sleepers : PrincipalOf[c] = p

\* The tokens and bytes reserved are those of the calls that hold a permit.
DemandIsReserved ==
  \A d \in Dims : adm.used[d] = MapThenSumSet(LAMBDA c : DemandOf[c][d], Holders)

\* "Exact, bounded admission": calls in flight, in all and per principal, their
\* tokens and bytes, and the queue stay within the limits.
WithinLimits ==
  /\ Cardinality(Holders) <= GlobalLimit
  /\ \A p \in Principals : Cardinality({c \in Holders : PrincipalOf[c] = p}) <= PrincipalLimit
  /\ Cardinality(Sleepers) <= WaiterLimit
  /\ \A d \in Dims : adm.used[d] <= Budget[d]

\* What is counted is what is held, and it is within the limits.
AdmissionIsExact == CallsAreCounted /\ WithinLimits

\* Nobody is granted a permit, on the direct path or from the queue, while a
\* waiter that could start now comes before it in the order of the policy.
GrantsFollowTheOrder ==
  [][\A c \in Callers : pc[c] # "holding" /\ pc'[c] = "holding" =>
       LET s == IF c \in adm.waiters THEN adm ELSE Enqueue(adm, c)
       IN \A w \in Eligible(adm, age) \ {c} : Precedes(s, age, c, w)]_vars

\* A waiter could start, and no waiter is about to look.
AsleepWithCapacity ==
  /\ Eligible(adm, age) # {}
  /\ \A w \in adm.waiters : w \notin notified /\ ~WaitOver(w)

\* Each waiter sleeps on a condition variable of its own, so a notification that
\* goes to one who may not start is lost unless it is passed on.  That happens
\* in one way only: between the notification and the wake another waiter was
\* promoted by its age.  It then sleeps, at most until its own wait ends.
WakeUpsAreLostOnlyByAging ==
  [][AsleepWithCapacity' =>
       \/ AsleepWithCapacity
       \/ \E a \in notified \ notified' :
            /\ pc'[a] = "waiting"
            /\ \E w \in Selected(adm', age) \ {a} : RankOf[w] > 0 /\ age[w] >= Aging]_vars

\* Every call returns or gets its permit, although a wake-up can be lost.
CallsReturn ==
  \A c \in Callers : pc[c] \in {"entering", "waiting"} ~> pc[c] \in {"idle", "holding"}
=============================================================================
