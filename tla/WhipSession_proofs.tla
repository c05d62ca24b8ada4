------------------------- MODULE WhipSession_proofs -------------------------
(***************************************************************************)
(* How sessions end, for every number of sessions, workers, requests and    *)
(* failures, every budget and limit.  A session's state is touched by the   *)
(* steps of that session alone, so the invariant is one of each session,    *)
(* and beside it the count of the slots and the sums of the media budget.   *)
(***************************************************************************)
EXTENDS WhipSession, FiniteSetTheorems, WellFoundedInduction, TLAPS

-----------------------------------------------------------------------------
(* Sums over a set: MapThenSumSet, with the function it recurses on written *)
(* out.  The term of x is m[x][d].                                          *)

AnyOf(s) == CHOOSE x \in s : TRUE

IsSum(it, m, d, D) ==
  it = [s \in SUBSET D |->
          IF s = {} THEN 0 ELSE m[AnyOf(s)][d] + it[s \ {AnyOf(s)}]]
SumOn(m, d, D) == CHOOSE it : IsSum(it, m, d, D)

LEMMA SumDef ==
  ASSUME NEW m, NEW d, NEW D
  PROVE  MapThenSumSet(LAMBDA x : m[x][d], D) = SumOn(m, d, D)[D]
BY Zenon DEF MapThenSumSet, MapThenFoldSet, SumOn, IsSum, AnyOf

LEMMA AnyOfFact ==
  ASSUME NEW s, s # {}
  PROVE  AnyOf(s) \in s
BY DEF AnyOf

\* Induction over a set of numbers.
LEMMA Induction ==
  ASSUME NEW T \in SUBSET Nat, 0 \in T, \A n \in T : n + 1 \in T
  PROVE  T = Nat
<1> SUFFICES ASSUME Nat \ T # {} PROVE FALSE  OBVIOUS
<1>1. PICK n \in Nat \ T : \A m \in Nat \ T : ~(m < n)
  <2>1. IsWellFoundedOn(OpToRel(<, Nat), Nat)  BY NatLessThanWellFounded
  <2>2. PICK n \in Nat \ T : \A m \in Nat \ T : <<m, n>> \notin OpToRel(<, Nat)
    BY <2>1, WFMin
  <2> QED  BY <2>2 DEF OpToRel
<1>2. n - 1 \in Nat /\ n - 1 \notin Nat \ T  BY <1>1
<1> QED  BY <1>1, <1>2

LEMMA Smaller ==
  ASSUME NEW E, IsFiniteSet(E), NEW s \in SUBSET E
  PROVE  /\ IsFiniteSet(s) /\ Cardinality(s) \in Nat
         /\ Cardinality(s) = 0 <=> s = {}
         /\ \A x \in s : Cardinality(s \ {x}) = Cardinality(s) - 1
         /\ Cardinality(s) <= Cardinality(E)
<1>1. IsFiniteSet(s) /\ Cardinality(s) <= Cardinality(E)  BY FS_Subset
<1>2. \A x \in s : Cardinality(s \ {x}) = Cardinality(s) - 1
  BY <1>1, FS_RemoveElement
<1> QED  BY <1>1, <1>2, FS_CardinalityType, FS_EmptySet

Terms(E, m, d) == IsFiniteSet(E) /\ \A x \in E : m[x][d] \in Nat

\* The recursion of MapThenSumSet has a solution over the subsets of a finite set.
LEMMA SumExists ==
  ASSUME NEW E, NEW m, NEW d, Terms(E, m, d)
  PROVE  \E it \in [SUBSET E -> Nat] : IsSum(it, m, d, E)
<1> DEFINE Solves(it, n) ==
             \A s \in SUBSET E : Cardinality(s) <= n =>
               it[s] = IF s = {} THEN 0 ELSE m[AnyOf(s)][d] + it[s \ {AnyOf(s)}]
           T == {n \in Nat : \E it \in [SUBSET E -> Nat] : Solves(it, n)}
<1>1. IsFiniteSet(E) /\ \A x \in E : m[x][d] \in Nat  BY DEF Terms
<1>2. 0 \in T
  <2> DEFINE it == [s \in SUBSET E |-> 0]
  <2>1. it \in [SUBSET E -> Nat]  OBVIOUS
  <2>2. \A s \in SUBSET E : Cardinality(s) <= 0 => s = {}  BY <1>1, Smaller
  <2>3. Solves(it, 0)  BY <2>2
  <2> QED  BY <2>1, <2>3
<1>3. ASSUME NEW n \in T PROVE n + 1 \in T
  <2>1. PICK g \in [SUBSET E -> Nat] : Solves(g, n)  OBVIOUS
  <2> DEFINE h == [s \in SUBSET E |->
                     IF Cardinality(s) = n + 1 THEN m[AnyOf(s)][d] + g[s \ {AnyOf(s)}] ELSE g[s]]
  <2>2. \A s \in SUBSET E : Cardinality(s) = n + 1 => s # {}  BY <1>1, Smaller
  <2>3. \A s \in SUBSET E : s # {} =>
          /\ AnyOf(s) \in s /\ m[AnyOf(s)][d] \in Nat
          /\ s \ {AnyOf(s)} \in SUBSET E
          /\ Cardinality(s \ {AnyOf(s)}) = Cardinality(s) - 1
          /\ Cardinality(s) \in Nat
    BY <1>1, AnyOfFact, Smaller
  <2>4. h \in [SUBSET E -> Nat]
    <3>1. \A s \in SUBSET E :
            (IF Cardinality(s) = n + 1 THEN m[AnyOf(s)][d] + g[s \ {AnyOf(s)}] ELSE g[s]) \in Nat
      <4> TAKE s \in SUBSET E
      <4>1. g[s] \in Nat  OBVIOUS
      <4>2. CASE Cardinality(s) = n + 1
        <5>1. m[AnyOf(s)][d] \in Nat /\ g[s \ {AnyOf(s)}] \in Nat  BY <2>2, <2>3, <4>2
        <5> QED  BY <4>2, <5>1
      <4> QED  BY <4>1, <4>2
    <3> QED  BY <3>1
  <2>5. ASSUME NEW s \in SUBSET E, Cardinality(s) <= n + 1
        PROVE  h[s] = IF s = {} THEN 0 ELSE m[AnyOf(s)][d] + h[s \ {AnyOf(s)}]
    <3>1. Cardinality(s) \in Nat  BY <1>1, Smaller
    <3>2. s # {} => h[s \ {AnyOf(s)}] = g[s \ {AnyOf(s)}]
      <4> SUFFICES ASSUME s # {} PROVE h[s \ {AnyOf(s)}] = g[s \ {AnyOf(s)}]  OBVIOUS
      <4>1. Cardinality(s \ {AnyOf(s)}) # n + 1 /\ s \ {AnyOf(s)} \in SUBSET E
        BY <2>3, <2>5, <3>1
      <4> QED  BY <4>1
    <3>3. CASE Cardinality(s) = n + 1
      <4>1. h[s] = m[AnyOf(s)][d] + g[s \ {AnyOf(s)}]  BY <3>3
      <4>2. s # {}  BY <2>2, <3>3
      <4> HIDE DEF h
      <4> QED  BY <3>2, <4>1, <4>2
    <3>4. CASE Cardinality(s) # n + 1
      <4>1. h[s] = g[s]  BY <3>4
      <4>2. Cardinality(s) <= n  BY <2>5, <3>1, <3>4
      <4> HIDE DEF h
      <4> QED  BY <2>1, <3>2, <4>1, <4>2
    <3> QED  BY <3>3, <3>4
  <2> HIDE DEF h
  <2>6. Solves(h, n + 1)  BY <2>5
  <2> HIDE DEF Solves
  <2>7. \E it \in [SUBSET E -> Nat] : Solves(it, n + 1)  BY <2>4, <2>6
  <2>8. n + 1 \in Nat  OBVIOUS
  <2> QED  BY <2>7, <2>8
<1>4. T = Nat
  <2> HIDE DEF T
  <2>1. T \in SUBSET Nat  BY DEF T
  <2> QED  BY <1>2, <1>3, <2>1, Induction
<1>5. Cardinality(E) \in T  BY <1>1, <1>4, FS_CardinalityType
<1>6. PICK it \in [SUBSET E -> Nat] : Solves(it, Cardinality(E))  BY <1>5
<1>7. \A s \in SUBSET E :
        it[s] = IF s = {} THEN 0 ELSE m[AnyOf(s)][d] + it[s \ {AnyOf(s)}]
  BY <1>1, <1>6, Smaller
<1> HIDE DEF T, Solves
<1>8. it = [s \in SUBSET E |->
              IF s = {} THEN 0 ELSE m[AnyOf(s)][d] + it[s \ {AnyOf(s)}]]
  BY <1>7
<1> QED  BY <1>8 DEF IsSum

\* The sum of the terms of the members of s.
Total(m, d, s) == SumOn(m, d, s)[s]

\* Whatever set the recursion starts from, it gives a subset the same sum.
LEMMA SumsAgree ==
  ASSUME NEW E, NEW m, NEW d, Terms(E, m, d), NEW it, IsSum(it, m, d, E)
  PROVE  \A s \in SUBSET E : it[s] = Total(m, d, s)
<1> SUFFICES ASSUME NEW D \in SUBSET E PROVE it[D] = Total(m, d, D)  OBVIOUS
<1> DEFINE g == SumOn(m, d, D)
           T == {n \in Nat : \A s \in SUBSET D : Cardinality(s) = n => it[s] = g[s]}
<1>1. IsFiniteSet(D) /\ Terms(D, m, d) /\ IsFiniteSet(E)  BY Smaller DEF Terms
<1>2. \A s \in SUBSET D : g[s] = IF s = {} THEN 0 ELSE m[AnyOf(s)][d] + g[s \ {AnyOf(s)}]
  <2>1. \E h : IsSum(h, m, d, D)  BY <1>1, SumExists
  <2>2. IsSum(g, m, d, D)  BY <2>1, Zenon DEF SumOn
  <2> HIDE DEF g
  <2> QED  BY <2>2 DEF IsSum
<1>3. \A s \in SUBSET D : it[s] = IF s = {} THEN 0 ELSE m[AnyOf(s)][d] + it[s \ {AnyOf(s)}]
  BY DEF IsSum
<1> HIDE DEF g
<1>4. 0 \in T
  <2>1. \A s \in SUBSET D : Cardinality(s) = 0 => s = {}  BY <1>1, Smaller
  <2>2. it[{}] = 0 /\ g[{}] = 0  BY <1>2, <1>3
  <2> QED  BY <2>1, <2>2
<1>5. ASSUME NEW n \in T PROVE n + 1 \in T
  <2>1. ASSUME NEW s \in SUBSET D, Cardinality(s) = n + 1 PROVE it[s] = g[s]
    <3>1. s # {}  BY <1>1, <2>1, Smaller
    <3>2. AnyOf(s) \in s  BY <3>1, AnyOfFact
    <3>3. s \ {AnyOf(s)} \in SUBSET D /\ Cardinality(s \ {AnyOf(s)}) = n
      BY <1>1, <2>1, <3>2, Smaller
    <3>4. it[s \ {AnyOf(s)}] = g[s \ {AnyOf(s)}]  BY <3>3
    <3> QED  BY <1>2, <1>3, <3>1, <3>4
  <2> QED  BY <2>1
<1>6. T = Nat
  <2> HIDE DEF T
  <2>1. T \in SUBSET Nat  BY DEF T
  <2> QED  BY <1>4, <1>5, <2>1, Induction
<1>7. Cardinality(D) \in T  BY <1>1, <1>6, FS_CardinalityType
<1>8. it[D] = g[D]  BY <1>7
<1> QED  BY <1>8 DEF g, Total

\* The recursion takes the term of one member, whichever CHOOSE gives.
LEMMA OneTerm ==
  ASSUME NEW E, NEW m, NEW d, Terms(E, m, d)
  PROVE  /\ Total(m, d, {}) = 0
         /\ \A s \in SUBSET E :
              /\ Total(m, d, s) \in Nat
              /\ s # {} => Total(m, d, s) = m[AnyOf(s)][d] + Total(m, d, s \ {AnyOf(s)})
<1>1. PICK it \in [SUBSET E -> Nat] : IsSum(it, m, d, E)  BY SumExists
<1>2. \A s \in SUBSET E : it[s] = Total(m, d, s)  BY <1>1, SumsAgree
<1>3. \A s \in SUBSET E : it[s] = IF s = {} THEN 0 ELSE m[AnyOf(s)][d] + it[s \ {AnyOf(s)}]
  BY <1>1 DEF IsSum
<1>4. Total(m, d, {}) = 0  BY <1>2, <1>3
<1>5. ASSUME NEW s \in SUBSET E
      PROVE  /\ Total(m, d, s) \in Nat
             /\ s # {} => Total(m, d, s) = m[AnyOf(s)][d] + Total(m, d, s \ {AnyOf(s)})
  <2>1. s \ {AnyOf(s)} \in SUBSET E  OBVIOUS
  <2>2. it[s] \in Nat  OBVIOUS
  <2> QED  BY <1>2, <1>3, <2>1, <2>2
<1> QED  BY <1>4, <1>5

\* The order does not matter: any member may be taken first.
LEMMA AnyTerm ==
  ASSUME NEW E, NEW m, NEW d, Terms(E, m, d), NEW S \in SUBSET E, NEW c \in S
  PROVE  Total(m, d, S) = m[c][d] + Total(m, d, S \ {c})
<1> DEFINE Splits(s) == \A x \in s : Total(m, d, s) = m[x][d] + Total(m, d, s \ {x})
           T == {n \in Nat : \A s \in SUBSET E : Cardinality(s) = n => Splits(s)}
<1>1. IsFiniteSet(E) /\ \A x \in E : m[x][d] \in Nat  BY DEF Terms
<1>2. 0 \in T
  <2>1. \A s \in SUBSET E : Cardinality(s) = 0 => s = {}  BY <1>1, Smaller
  <2> QED  BY <2>1
<1>3. ASSUME NEW n \in T PROVE n + 1 \in T
  <2>1. ASSUME NEW s \in SUBSET E, Cardinality(s) = n + 1, NEW x \in s
        PROVE  Total(m, d, s) = m[x][d] + Total(m, d, s \ {x})
    <3> DEFINE y == AnyOf(s)
    <3>1. y \in s /\ y \in E /\ x \in E  BY <2>1, AnyOfFact
    <3>2. Total(m, d, s) = m[y][d] + Total(m, d, s \ {y})  BY <2>1, OneTerm
    <3> HIDE DEF y
    <3>3. CASE x = y  BY <3>2, <3>3
    <3>4. CASE x # y
      <4>1. /\ s \ {x} \in SUBSET E /\ s \ {y} \in SUBSET E
            /\ Cardinality(s \ {x}) = n /\ Cardinality(s \ {y}) = n
        BY <1>1, <2>1, <3>1, Smaller
      <4>2. Splits(s \ {x}) /\ Splits(s \ {y})  BY <4>1
      <4>3. /\ y \in s \ {x} /\ x \in s \ {y}
            /\ (s \ {x}) \ {y} = (s \ {y}) \ {x}
        BY <2>1, <3>1, <3>4
      <4>4. /\ Total(m, d, s \ {x}) = m[y][d] + Total(m, d, (s \ {x}) \ {y})
            /\ Total(m, d, s \ {y}) = m[x][d] + Total(m, d, (s \ {y}) \ {x})
        BY <4>2, <4>3
      <4>5. Total(m, d, (s \ {y}) \ {x}) \in Nat
        <5>1. (s \ {y}) \ {x} \in SUBSET E  OBVIOUS
        <5> QED  BY <5>1, OneTerm
      <4>6. m[x][d] \in Nat /\ m[y][d] \in Nat  BY <1>1, <3>1
      <4> QED  BY <3>2, <4>3, <4>4, <4>5, <4>6
    <3> QED  BY <3>3, <3>4
  <2> QED  BY <2>1
<1>4. T = Nat
  <2> HIDE DEF T
  <2>1. T \in SUBSET Nat  BY DEF T
  <2> QED  BY <1>2, <1>3, <2>1, Induction
<1>5. Cardinality(S) \in T  BY <1>1, <1>4, Smaller
<1> QED  BY <1>5

\* A sum with one term more, and one with one term less.
LEMMA SumChanges ==
  ASSUME NEW E, NEW m, NEW d, Terms(E, m, d), NEW S \in SUBSET E
  PROVE  /\ Total(m, d, S) \in Nat
         /\ \A c \in E \ S : Total(m, d, S \cup {c}) = Total(m, d, S) + m[c][d]
         /\ \A c \in S : /\ m[c][d] <= Total(m, d, S)
                         /\ Total(m, d, S \ {c}) = Total(m, d, S) - m[c][d]
<1>1. \A s \in SUBSET E : Total(m, d, s) \in Nat  BY OneTerm
<1>2. \A x \in E : m[x][d] \in Nat  BY DEF Terms
<1>3. ASSUME NEW c \in E \ S PROVE Total(m, d, S \cup {c}) = Total(m, d, S) + m[c][d]
  <2>1. S \cup {c} \in SUBSET E /\ c \in S \cup {c} /\ (S \cup {c}) \ {c} = S  OBVIOUS
  <2>2. PICK R : R = S \cup {c}  OBVIOUS
  <2>4. Total(m, d, R) = m[c][d] + Total(m, d, R \ {c})
    BY <2>1, <2>2, AnyTerm
  <2>5. R \ {c} = S  BY <2>1, <2>2
  <2>3. Total(m, d, S) \in Nat /\ m[c][d] \in Nat  BY <1>1, <1>2
  <2>6. Total(m, d, R) = m[c][d] + Total(m, d, S)  BY <2>4, <2>5, Zenon
  <2>7. Total(m, d, S \cup {c}) = m[c][d] + Total(m, d, S)  BY <2>2, <2>6, Zenon
  <2> QED  BY <2>3, <2>7
<1>4. ASSUME NEW c \in S
      PROVE  m[c][d] <= Total(m, d, S) /\ Total(m, d, S \ {c}) = Total(m, d, S) - m[c][d]
  <2>1. Total(m, d, S) = m[c][d] + Total(m, d, S \ {c})  BY AnyTerm
  <2>2. S \ {c} \in SUBSET E  OBVIOUS
  <2>3. Total(m, d, S \ {c}) \in Nat /\ m[c][d] \in Nat  BY <1>1, <1>2, <2>2
  <2> QED  BY <2>1, <2>3
<1> QED  BY <1>1, <1>3, <1>4

-----------------------------------------------------------------------------
(* The invariant of a session *)

USE WhipAssumption

SessionRecords ==
  [live: BOOLEAN, mark: {Fault, Complete, Stop, Delete}, claimed: BOOLEAN, latch: BOOLEAN,
   peer: {"new", "connected"} \cup PeerEnded, handshaking: BOOLEAN]
PipeRecords ==
  [sup: {"off", "watching", "aborting", "returned", "detached"},
   running: Nat, exited: Nat, stopping: BOOLEAN]

Types ==
  /\ start \in [Sessions -> StartSteps]
  /\ permit \in [Sessions -> {"none", "start", "session"}]
  /\ session \in [Sessions -> SessionRecords]
  /\ pipe \in [Sessions -> PipeRecords]
  /\ protected \in SUBSET Sessions
  /\ act \in [Sessions -> [Tasks -> ReclaimSteps \cup HandlerSteps \cup {"close"}]]
  /\ run \in [Sessions -> Terminal \cup {"none", "active"}]
  /\ stopInFlight \in [Sessions -> BOOLEAN] /\ revived \in [Sessions -> BOOLEAN]

Early == {"idle", "bytes", "threadsFull", "reserved"}
Up == {"inserted", "started"}

\* Before run_created nothing can have happened to a session, and before the
\* insert nobody reclaims it.
StartInv(s) ==
  /\ start[s] \in Early =>
       /\ run[s] = "none" /\ session[s].mark = Fault
       /\ \A a \in Tasks : act[s][a] = "off"
  /\ start[s] \notin Up => \A a \in Reclaimers : act[s][a] = "off"
  /\ session[s].live => start[s] \in Up

\* The generation holds its share from the insert until all have joined.
GenerationInv(s) ==
  /\ start[s] # "started" => pipe[s].running = 0 /\ pipe[s].sup = "off"
  /\ start[s] \in Up /\ pipe[s].sup # "returned" => permit[s] = "session" /\ s \in protected
  /\ pipe[s].sup = "returned" => pipe[s].running = 0

\* The run has ended, or had ended until a late event revived it; and the same
\* with expiry taken for an end.
Sealed(s) == run[s] \in Ended \/ revived[s]
Settled(s) == run[s] \in Terminal \/ revived[s]

\* Who is past the claim is alone there; who removes the session, or marks it
\* as stopped or deleted, does so behind the end of its run.
ReclaimInv(s) ==
  /\ start[s] \in Up /\ ~session[s].live => Settled(s)
  /\ \A a, b \in Reclaimers : act[s][a] \in Deciding /\ act[s][b] \in Deciding => a = b
  /\ \A a \in Reclaimers : act[s][a] \in Deciding => session[s].live /\ session[s].claimed
  /\ \A a \in Reclaimers : act[s][a] = "remove" => Settled(s)
  /\ session[s].mark \in {Stop, Delete} => Sealed(s)
  /\ session[s].mark = Delete => run[s] = "deleted"
  /\ act[s]["stop"] = "close" => Sealed(s)
  /\ act[s]["delete"] = "close" => run[s] = "deleted"

\* A reclaimer that will append completed or failed to a stopped run, and a
\* handler that will append to it, had passed their check when it was stopped.
StopInv(s) == run[s] = "stopped" /\ PastCheck(s) => stopInFlight[s]

SessionInv(s) == StartInv(s) /\ GenerationInv(s) /\ ReclaimInv(s) /\ StopInv(s)

Seated == {s \in Sessions : start[s] = "slotted" \/ session[s].live}

IInv ==
  /\ Types
  /\ \A s \in Sessions : SessionInv(s)
  /\ slots = Cardinality(Seated)

\* Only session s changes.
Only(s) ==
  \A t \in Sessions \ {s} :
    /\ start'[t] = start[t] /\ permit'[t] = permit[t] /\ session'[t] = session[t]
    /\ pipe'[t] = pipe[t] /\ act'[t] = act[t] /\ run'[t] = run[t]
    /\ stopInFlight'[t] = stopInFlight[t] /\ revived'[t] = revived[t]
    /\ t \in protected' <=> t \in protected

StopKept(s) ==
  run[s] = "stopped" /\ run'[s] \notin {"stopped", "deleted"} => stopInFlight[s]

Steps(s) == Types' /\ Only(s) /\ SessionInv(s)' /\ StopKept(s)

SameSeat(s) ==
  /\ UNCHANGED slots
  /\ start'[s] = "slotted" \/ session'[s].live <=> start[s] = "slotted" \/ session[s].live

\* WebRtcSession::close, and what it leaves alone.
LEMMA CloseChanges ==
  ASSUME Types, NEW s \in Sessions, NEW sess \in SessionRecords, NEW p \in PipeRecords,
         CloseEffect(s, sess, p)
  PROVE  /\ session' \in [Sessions -> SessionRecords] /\ pipe' \in [Sessions -> PipeRecords]
         /\ \A t \in Sessions \ {s} : session'[t] = session[t] /\ pipe'[t] = pipe[t]
         /\ session'[s].live = sess.live /\ session'[s].mark = sess.mark
         /\ session'[s].claimed = sess.claimed
         /\ pipe'[s].sup = p.sup /\ pipe'[s].running = p.running /\ pipe'[s].exited = p.exited
<1>1. [sess EXCEPT !.latch = TRUE, !.peer = "closed"] \in SessionRecords
  BY DEF SessionRecords, PeerEnded
<1>2. [p EXCEPT !.stopping = TRUE] \in PipeRecords  BY DEF PipeRecords
<1> QED  BY <1>1, <1>2 DEF CloseEffect, Types, SessionRecords, PipeRecords

-----------------------------------------------------------------------------
(* The peer connection and the start transaction *)

LEMMA PeerSteps ==
  ASSUME Types, NEW s \in Sessions, SessionInv(s), PeerConnects(s) \/ PeerFails(s)
  PROVE  Steps(s) /\ SameSeat(s)
<1>1. /\ UNCHANGED <<start, permit, slots, pipe, protected, act, run, stopInFlight, revived>>
      /\ \E h \in BOOLEAN : \E q \in {"connected", "down"} :
           session' = [session EXCEPT ![s].handshaking = h, ![s].peer = q]
  BY DEF PeerConnects, PeerFails
<1>2. PICK h \in BOOLEAN, q \in {"connected", "down"} :
        session' = [session EXCEPT ![s].handshaking = h, ![s].peer = q]
  BY <1>1
<1>3. session \in [Sessions -> SessionRecords]  BY DEF Types
<1>4. [session[s] EXCEPT !.handshaking = h, !.peer = q] \in SessionRecords
  BY <1>2, <1>3 DEF SessionRecords, PeerEnded
<1>5. session' = [session EXCEPT ![s] = [session[s] EXCEPT !.handshaking = h, !.peer = q]]
  BY <1>2, <1>3 DEF SessionRecords
<1>6. session' \in [Sessions -> SessionRecords]  BY <1>3, <1>4, <1>5
<1>7. Types'  BY <1>1, <1>6 DEF Types
<1>8. /\ session'[s].live = session[s].live /\ session'[s].mark = session[s].mark
      /\ session'[s].claimed = session[s].claimed
      /\ \A t \in Sessions \ {s} : session'[t] = session[t]
  BY <1>2, <1>3 DEF SessionRecords
<1>9. Only(s)  BY <1>1, <1>8 DEF Only
<1>10. SessionInv(s)'
  BY <1>1, <1>8
     DEF SessionInv, StartInv, GenerationInv, ReclaimInv, Settled, Sealed, StopInv, PastCheck
<1> QED  BY <1>1, <1>7, <1>8, <1>9, <1>10 DEF Steps, StopKept, SameSeat, PeerConnects, PeerFails

LEMMA ReserveSteps ==
  ASSUME Types, NEW s \in Sessions, SessionInv(s),
         ReserveBytes(s) \/ ReserveThreads(s) \/ GiveBytesBack(s) \/ AppendCreated(s)
  PROVE  Steps(s) /\ SameSeat(s)
<1>1. /\ UNCHANGED <<slots, protected, act, stopInFlight, revived>>
      /\ start[s] \in Early
      /\ start' \in [Sessions -> StartSteps] /\ permit' \in [Sessions -> {"none", "start", "session"}]
      /\ run' \in [Sessions -> Terminal \cup {"none", "active"}]
      /\ \A t \in Sessions \ {s} :
           start'[t] = start[t] /\ permit'[t] = permit[t] /\ run'[t] = run[t]
      /\ \/ start'[s] \in Early /\ run'[s] = run[s]
         \/ start'[s] = "rejected" /\ run'[s] = run[s]
         \/ start'[s] = "created" /\ run'[s] = "active"
  BY DEF ReserveBytes, ReserveThreads, GiveBytesBack, AppendCreated, DropPermit, AppendFails,
         Types, Early, StartSteps, Terminal
<1>2. session[s] \in SessionRecords /\ pipe[s] \in PipeRecords  BY DEF Types
<1>3. \/ UNCHANGED <<session, pipe>>
      \/ CloseEffect(s, session[s], pipe[s])
  BY DEF ReserveBytes, ReserveThreads, GiveBytesBack, AppendCreated
<1>4. /\ session' \in [Sessions -> SessionRecords] /\ pipe' \in [Sessions -> PipeRecords]
      /\ \A t \in Sessions \ {s} : session'[t] = session[t] /\ pipe'[t] = pipe[t]
      /\ session'[s].live = session[s].live /\ session'[s].mark = session[s].mark
      /\ session'[s].claimed = session[s].claimed
      /\ pipe'[s].sup = pipe[s].sup /\ pipe'[s].running = pipe[s].running
  BY <1>2, <1>3, CloseChanges DEF Types
<1>5. Types'  BY <1>1, <1>4 DEF Types
<1>6. Only(s)  BY <1>1, <1>4 DEF Only
<1>7. SessionInv(s)'
  <2>1. StartInv(s)'  BY <1>1, <1>4 DEF SessionInv, StartInv, Early, Up
  <2>2. GenerationInv(s)'  BY <1>1, <1>4 DEF SessionInv, GenerationInv, Early, Up
  <2>3. \A a \in Reclaimers \cup Rest \cup Handlers : act'[s][a] = "off"
    BY <1>1 DEF SessionInv, StartInv, Tasks
  <2>4. session'[s].mark = Fault /\ start'[s] \notin Up
    BY <1>1, <1>4 DEF SessionInv, StartInv, Early, Up
  <2>5. ReclaimInv(s)'
    BY <2>3, <2>4 DEF ReclaimInv, Rest, Deciding, Outcomes, Fault, Stop, Delete
  <2>6. StopInv(s)'
    BY <2>3 DEF StopInv, PastCheck, HandlerSteps
  <2> QED  BY <2>1, <2>2, <2>5, <2>6 DEF SessionInv
<1>8. run[s] = "none"  BY <1>1 DEF SessionInv, StartInv
<1> QED  BY <1>1, <1>4, <1>5, <1>6, <1>7, <1>8 DEF Steps, StopKept, SameSeat, Early

LEMMA SlotTaken ==
  ASSUME Types, NEW s \in Sessions, SessionInv(s), TakeSlot(s)
  PROVE  /\ Steps(s) /\ UNCHANGED session
         /\ \/ SameSeat(s)
            \/ slots' = slots + 1 /\ start[s] = "created" /\ ~session[s].live /\ start'[s] = "slotted"
<1>1. /\ UNCHANGED <<session, pipe, protected, act, run, stopInFlight, revived>>
      /\ start[s] = "created"
      /\ start' \in [Sessions -> StartSteps] /\ permit' \in [Sessions -> {"none", "start", "session"}]
      /\ \A t \in Sessions \ {s} : start'[t] = start[t] /\ permit'[t] = permit[t]
      /\ \/ start'[s] = "slotted" /\ slots' = slots + 1
         \/ start'[s] = "tombstoning" /\ UNCHANGED slots
  BY DEF TakeSlot, DropPermit, Types, StartSteps
<1>2. Types' /\ Only(s)  BY <1>1 DEF Types, Only
<1>3. SessionInv(s)'
  BY <1>1
     DEF SessionInv, StartInv, GenerationInv, ReclaimInv, Settled, Sealed, StopInv, PastCheck, Early, Up
<1>4. ~session[s].live  BY <1>1 DEF SessionInv, StartInv, Up
<1> QED  BY <1>1, <1>2, <1>3, <1>4 DEF Steps, StopKept, SameSeat

LEMMA Inserted ==
  ASSUME Types, NEW s \in Sessions, SessionInv(s), Insert(s)
  PROVE  Steps(s) /\ SameSeat(s)
<1>1. /\ UNCHANGED <<slots, pipe, run, stopInFlight, revived>>
      /\ start[s] = "slotted" /\ start'[s] = "inserted" /\ permit'[s] = "session"
      /\ start' \in [Sessions -> StartSteps] /\ permit' \in [Sessions -> {"none", "start", "session"}]
      /\ \A t \in Sessions \ {s} :
           start'[t] = start[t] /\ permit'[t] = permit[t] /\ session'[t] = session[t]
             /\ act'[t] = act[t]
      /\ protected' = protected \cup {s}
  BY DEF Insert, Types, StartSteps
<1>2. /\ session' \in [Sessions -> SessionRecords] /\ session'[s].live
      /\ session'[s].mark = session[s].mark
  <2>1. session[s] \in SessionRecords  BY DEF Types
  <2>2. [session[s] EXCEPT !.live = TRUE] \in SessionRecords  BY <2>1 DEF SessionRecords
  <2> QED  BY <2>1, <2>2 DEF Insert, Types, SessionRecords
<1>3. /\ act' \in [Sessions -> [Tasks -> ReclaimSteps \cup HandlerSteps \cup {"close"}]]
      /\ act'[s]["watcher"] = "watching"
      /\ \A a \in Tasks \ {"watcher"} : act'[s][a] = act[s][a]
  BY DEF Insert, Types, Tasks, Reclaimers, ReclaimSteps
<1>4. Types' /\ Only(s)  BY <1>1, <1>2, <1>3 DEF Types, Only
<1>5. StartInv(s)' /\ GenerationInv(s)'
  BY <1>1, <1>2, <1>3 DEF SessionInv, StartInv, GenerationInv, Early, Up
<1>6. \A a \in Reclaimers : act'[s][a] \in {"off", "watching"}
  BY <1>1, <1>3 DEF SessionInv, StartInv, Tasks, Reclaimers, Up
<1>6a. \A a \in Rest \cup Handlers : act'[s][a] = act[s][a]
  BY <1>3 DEF Tasks, Reclaimers, Rest, Handlers
<1>7. ReclaimInv(s)'
  BY <1>1, <1>2, <1>6, <1>6a
     DEF SessionInv, ReclaimInv, Settled, Sealed, Deciding, Outcomes, Rest
<1>7a. StopInv(s)'
  BY <1>1, <1>6, <1>6a DEF SessionInv, StopInv, PastCheck
<1> QED  BY <1>1, <1>2, <1>4, <1>5, <1>7, <1>7a DEF Steps, StopKept, SameSeat, SessionInv

LEMMA Launched ==
  ASSUME Types, NEW s \in Sessions, SessionInv(s), Launch(s)
  PROVE  Steps(s) /\ SameSeat(s)
<1>1. /\ UNCHANGED <<slots, permit, session, protected, act, run, stopInFlight, revived>>
      /\ start[s] = "inserted" /\ start'[s] = "started"
      /\ start' \in [Sessions -> StartSteps]
      /\ \A t \in Sessions \ {s} : start'[t] = start[t]
  BY DEF Launch, Types, StartSteps
<1>2. PICK k \in 0..Workers :
        pipe' = [pipe EXCEPT ![s].running = k,
                             ![s].sup = IF k = Workers THEN "watching" ELSE "aborting",
                             ![s].stopping = @ \/ k < Workers]
  BY DEF Launch
<1>3. pipe[s] \in PipeRecords  BY DEF Types
<1>4. /\ pipe' \in [Sessions -> PipeRecords] /\ pipe'[s].sup \in {"watching", "aborting"}
      /\ \A t \in Sessions \ {s} : pipe'[t] = pipe[t]
  <2> DEFINE fate == IF k = Workers THEN "watching" ELSE "aborting"
             new == [pipe[s] EXCEPT !.running = k, !.sup = fate,
                                    !.stopping = pipe[s].stopping \/ k < Workers]
  <2>1. pipe' = [pipe EXCEPT ![s] = new]  BY <1>2
  <2>2. k \in Nat /\ fate \in {"watching", "aborting"}  BY <1>2
  <2>3. new \in PipeRecords /\ new.sup = fate
    <3> HIDE DEF fate
    <3> QED  BY <1>3, <2>2 DEF PipeRecords
  <2> QED  BY <2>1, <2>2, <2>3 DEF Types
<1>5. Types' /\ Only(s)  BY <1>1, <1>4 DEF Types, Only
<1>6. SessionInv(s)'
  BY <1>1, <1>4
     DEF SessionInv, StartInv, GenerationInv, ReclaimInv, Settled, Sealed, StopInv, PastCheck, Early, Up
<1> QED  BY <1>1, <1>5, <1>6 DEF Steps, StopKept, SameSeat

LEMMA CreatedTombstoned ==
  ASSUME Types, NEW s \in Sessions, SessionInv(s), TombstoneCreated(s)
  PROVE  Steps(s) /\ SameSeat(s)
<1>1. /\ UNCHANGED <<slots, permit, protected, act, stopInFlight, revived>>
      /\ start[s] = "tombstoning" /\ start'[s] \in {"tombstoning", "rejected"}
      /\ run'[s] = run[s] \/ run'[s] = "deleted"
      /\ start' \in [Sessions -> StartSteps]
      /\ run' \in [Sessions -> Terminal \cup {"none", "active"}]
      /\ \A t \in Sessions \ {s} : start'[t] = start[t] /\ run'[t] = run[t]
  BY DEF TombstoneCreated, AppendFails, Types, StartSteps, Terminal, Ended
<1>2. session[s] \in SessionRecords /\ pipe[s] \in PipeRecords  BY DEF Types
<1>3. UNCHANGED <<session, pipe>> \/ CloseEffect(s, session[s], pipe[s])
  BY DEF TombstoneCreated
<1>4. /\ session' \in [Sessions -> SessionRecords] /\ pipe' \in [Sessions -> PipeRecords]
      /\ \A t \in Sessions \ {s} : session'[t] = session[t] /\ pipe'[t] = pipe[t]
      /\ session'[s].live = session[s].live /\ session'[s].mark = session[s].mark
      /\ session'[s].claimed = session[s].claimed
      /\ pipe'[s].sup = pipe[s].sup /\ pipe'[s].running = pipe[s].running
  BY <1>2, <1>3, CloseChanges DEF Types
<1>5. Types' /\ Only(s)  BY <1>1, <1>4 DEF Types, Only
<1>6. SessionInv(s)'
  BY <1>1, <1>4
     DEF SessionInv, StartInv, GenerationInv, ReclaimInv, Settled, Sealed, StopInv, PastCheck, Early, Up,
                        Terminal, Ended
<1> QED  BY <1>1, <1>4, <1>5, <1>6 DEF Steps, StopKept, SameSeat

-----------------------------------------------------------------------------
(* The generation *)

LEMMA ThreadSteps ==
  ASSUME Types, NEW s \in Sessions, SessionInv(s), IngestEnds(s) \/ WorkerStops(s) \/ WorkerFaults(s)
  PROVE  Steps(s) /\ SameSeat(s)
<1>1. /\ UNCHANGED <<start, slots, permit, session, protected, act, run, stopInFlight, revived>>
      /\ \/ pipe' = [pipe EXCEPT ![s].stopping = TRUE]
         \/ pipe[s].running > 0 /\ pipe' = [pipe EXCEPT ![s] = ThreadGone(pipe[s])]
  BY DEF IngestEnds, WorkerStops, WorkerFaults
<1>2. pipe[s] \in PipeRecords  BY DEF Types
<1>3. /\ pipe' \in [Sessions -> PipeRecords] /\ pipe'[s].sup = pipe[s].sup
      /\ pipe[s].running = 0 => pipe'[s].running = 0
      /\ \A t \in Sessions \ {s} : pipe'[t] = pipe[t]
  <2>1. [pipe[s] EXCEPT !.stopping = TRUE] \in PipeRecords  BY <1>2 DEF PipeRecords
  <2>2. pipe[s].running > 0 => ThreadGone(pipe[s]) \in PipeRecords
    <3>1. ASSUME pipe[s].running > 0 PROVE pipe[s].running - 1 \in Nat /\ pipe[s].exited + 1 \in Nat
      BY <1>2, <3>1 DEF PipeRecords
    <3> QED  BY <1>2, <3>1 DEF ThreadGone, PipeRecords
  <2>3. ThreadGone(pipe[s]).sup = pipe[s].sup  BY <1>2 DEF ThreadGone, PipeRecords
  <2>4. CASE pipe' = [pipe EXCEPT ![s].stopping = TRUE]
    BY <1>2, <2>1, <2>4 DEF Types, PipeRecords
  <2>5. CASE pipe[s].running > 0 /\ pipe' = [pipe EXCEPT ![s] = ThreadGone(pipe[s])]
    BY <2>2, <2>3, <2>5 DEF Types
  <2> QED  BY <1>1, <2>4, <2>5
<1>4. Types' /\ Only(s)  BY <1>1, <1>3 DEF Types, Only
<1>5. StartInv(s)' /\ ReclaimInv(s)' /\ StopInv(s)'
  BY <1>1 DEF SessionInv, StartInv, ReclaimInv, Settled, Sealed, StopInv, PastCheck
<1>6. GenerationInv(s)'  BY <1>1, <1>3 DEF SessionInv, GenerationInv
<1> QED  BY <1>1, <1>4, <1>5, <1>6 DEF Steps, StopKept, SameSeat, SessionInv

LEMMA SupervisorSteps ==
  ASSUME Types, NEW s \in Sessions, SessionInv(s), SupervisorStep(s)
  PROVE  Steps(s) /\ SameSeat(s)
<1>1. UNCHANGED <<start, slots, act, run, stopInFlight, revived>>
  BY DEF SupervisorStep, JoinWorker, AllJoined, JoinDeadline
<1>2. session[s] \in SessionRecords /\ pipe[s] \in PipeRecords  BY DEF Types
<1>3. PICK p \in PipeRecords :
        /\ \/ UNCHANGED session /\ pipe' = [pipe EXCEPT ![s] = p]
           \/ CloseEffect(s, session[s], p)
        /\ p.running = pipe[s].running
        /\ \/ p.sup \in {pipe[s].sup, "detached"} /\ UNCHANGED <<permit, protected>>
           \/ /\ p.sup = "returned" /\ pipe[s].running = 0
              /\ permit' = [permit EXCEPT ![s] = "none"] /\ protected' = protected \ {s}
        /\ pipe[s].sup \in {"watching", "aborting"}
  <2>1. CASE JoinWorker(s)
    <3> DEFINE p == [pipe[s] EXCEPT !.exited = @ - 1]
    <3>1. pipe[s].exited - 1 \in Nat  BY <1>2, <2>1 DEF JoinWorker, PipeRecords
    <3>2. p \in PipeRecords /\ p.running = pipe[s].running /\ p.sup = pipe[s].sup
      BY <1>2, <3>1 DEF PipeRecords
    <3> QED  BY <2>1, <3>2 DEF JoinWorker
  <2>2. CASE AllJoined(s)
    <3> DEFINE p == [pipe[s] EXCEPT !.sup = "returned"]
    <3>1. p \in PipeRecords /\ p.running = pipe[s].running /\ p.sup = "returned"
      BY <1>2 DEF PipeRecords
    <3> QED  BY <2>2, <3>1, <1>2 DEF AllJoined, ReleaseGeneration, DropPermit, Types, PipeRecords
  <2>3. CASE JoinDeadline(s)
    <3> DEFINE p == [pipe[s] EXCEPT !.sup = "detached"]
    <3>1. p \in PipeRecords /\ p.running = pipe[s].running /\ p.sup = "detached"
      BY <1>2 DEF PipeRecords
    <3> QED  BY <2>3, <3>1, <1>2 DEF JoinDeadline, Types, PipeRecords
  <2> QED  BY <2>1, <2>2, <2>3 DEF SupervisorStep
<1>4. /\ session' \in [Sessions -> SessionRecords] /\ pipe' \in [Sessions -> PipeRecords]
      /\ \A t \in Sessions \ {s} : session'[t] = session[t] /\ pipe'[t] = pipe[t]
      /\ session'[s].live = session[s].live /\ session'[s].mark = session[s].mark
      /\ session'[s].claimed = session[s].claimed
      /\ pipe'[s].sup = p.sup /\ pipe'[s].running = pipe[s].running
  <2>1. CASE UNCHANGED session /\ pipe' = [pipe EXCEPT ![s] = p]
    BY <1>3, <2>1 DEF Types
  <2>2. CASE CloseEffect(s, session[s], p)
    BY <1>2, <1>3, <2>2, CloseChanges
  <2> QED  BY <1>3, <2>1, <2>2
<1>5. /\ permit' \in [Sessions -> {"none", "start", "session"}] /\ protected' \in SUBSET Sessions
      /\ \A t \in Sessions \ {s} : permit'[t] = permit[t] /\ (t \in protected' <=> t \in protected)
  BY <1>3 DEF Types
<1>6. Types' /\ Only(s)  BY <1>1, <1>4, <1>5 DEF Types, Only
<1>7. StartInv(s)' /\ ReclaimInv(s)' /\ StopInv(s)'
  BY <1>1, <1>4 DEF SessionInv, StartInv, ReclaimInv, Settled, Sealed, StopInv, PastCheck
<1>8. GenerationInv(s)'
  <2>1. start[s] = "started"  BY <1>3 DEF SessionInv, GenerationInv
  <2> QED  BY <1>1, <1>3, <1>4, <2>1 DEF SessionInv, GenerationInv, Up
<1> QED  BY <1>1, <1>4, <1>6, <1>7, <1>8 DEF Steps, StopKept, SameSeat, SessionInv

-----------------------------------------------------------------------------
(* The tasks that end a session.  Each of them moves one task of one session *)

\* What a step of task a of session s does, as far as the invariant can tell.
Moves(s, a, to) ==
  /\ act' \in [Sessions -> [Tasks -> ReclaimSteps \cup HandlerSteps \cup {"close"}]]
  /\ act'[s][a] = to
  /\ \A t \in Sessions \ {s} : act'[t] = act[t]
  /\ \A b \in Tasks \ {a} : act'[s][b] = act[s][b]

LEMMA GotoMoves ==
  ASSUME Types, NEW s \in Sessions, NEW a \in Tasks, NEW to \in ReclaimSteps \cup HandlerSteps \cup {"close"},
         Goto(s, a, to)
  PROVE  Moves(s, a, to)
BY DEF Goto, Types, Moves

\* Taking a step that neither decides nor appends cannot disturb the invariant.
LEMMA IdleMoves ==
  ASSUME Types, NEW s \in Sessions, SessionInv(s), NEW a \in Tasks,
         NEW to \in (ReclaimSteps \cup HandlerSteps) \ Deciding, Moves(s, a, to),
         UNCHANGED <<start, permit, pipe, protected, run, stopInFlight, revived>>,
         start[s] \notin Early, a \in Reclaimers => start[s] \in Up,
         a \in Handlers /\ to \in HandlerSteps => run[s] # "stopped",
         session' \in [Sessions -> SessionRecords],
         \A t \in Sessions \ {s} : session'[t] = session[t],
         session'[s].live = session[s].live,
         session'[s].mark \in {session[s].mark, MaxOf(session[s].mark, Complete)},
         \/ session'[s].claimed = session[s].claimed
         \/ session'[s].claimed = FALSE /\ act[s][a] \in Deciding /\ a \in Reclaimers
  PROVE  Types' /\ Only(s) /\ SessionInv(s)'
<1>1. Types' /\ Only(s)  BY DEF Types, Only, Moves
<1>2. session'[s].mark \in {Stop, Delete} => session[s].mark = session'[s].mark
  BY DEF Types, SessionRecords, MaxOf, Fault, Complete, Stop, Delete
<1>3. StartInv(s)' /\ GenerationInv(s)'
  <2>1. \A b \in Reclaimers : act'[s][b] # act[s][b] => start[s] \in Up
    BY DEF Moves, Tasks
  <2> QED  BY <2>1 DEF SessionInv, StartInv, GenerationInv, Up
<1>4. \A b \in Reclaimers : act'[s][b] \in Deciding => act[s][b] = act'[s][b] /\ b # a
  BY DEF Moves, Tasks
<1>5. \A b \in Reclaimers : act'[s][b] \in Deciding => session'[s].claimed
  BY <1>4 DEF SessionInv, ReclaimInv
<1>6. \A b \in Rest : act'[s][b] = "close" => act[s][b] = "close"
  BY DEF Moves, Tasks, ReclaimSteps, HandlerSteps, Outcomes
<1>7. ReclaimInv(s)'
  BY <1>2, <1>4, <1>5, <1>6
     DEF SessionInv, ReclaimInv, Settled, Sealed, Deciding, Rest, Stop, Delete
<1>8. StopInv(s)'
  <2>1. \A h \in Handlers : act'[s][h] \in HandlerSteps => act[s][h] \in HandlerSteps \/ run[s] # "stopped"
    BY DEF Moves, Tasks
  <2> QED  BY <1>4, <2>1 DEF SessionInv, StopInv, PastCheck, Deciding, Outcomes
<1> QED  BY <1>1, <1>3, <1>7, <1>8 DEF SessionInv

LEMMA WatchSteps ==
  ASSUME Types, NEW s \in Sessions, SessionInv(s), WatcherSees(s) \/ Terminate(s)
  PROVE  Steps(s) /\ SameSeat(s)
<1>1. UNCHANGED <<start, slots, permit, pipe, protected, run, stopInFlight, revived>>
  BY DEF WatcherSees, Terminate
<1>2. session[s] \in SessionRecords  BY DEF Types
<1>3. PICK a \in Reclaimers :
        /\ Goto(s, a, "look") /\ start[s] \in Up
        /\ \/ UNCHANGED session
           \/ session' = [session EXCEPT ![s].mark = MaxOf(session[s].mark, Complete)]
  <2>1. CASE WatcherSees(s)
    <3>1. start[s] \in Up  BY <2>1 DEF WatcherSees, SessionInv, StartInv, Reclaimers
    <3> QED  BY <2>1, <3>1 DEF WatcherSees, Reclaimers
  <2>2. CASE Terminate(s)  BY <2>2 DEF Terminate, Reclaimers, Up
  <2> QED  BY <2>1, <2>2
<1>4. /\ session' \in [Sessions -> SessionRecords] /\ session'[s].live = session[s].live
      /\ \A t \in Sessions \ {s} : session'[t] = session[t]
      /\ session'[s].mark \in {session[s].mark, MaxOf(session[s].mark, Complete)}
      /\ session'[s].claimed = session[s].claimed
  <2> DEFINE mark == MaxOf(session[s].mark, Complete)
  <2>1. mark \in {Fault, Complete, Stop, Delete}
    BY <1>2 DEF SessionRecords, MaxOf, Fault, Complete, Stop, Delete
  <2>2. [session[s] EXCEPT !.mark = mark] \in SessionRecords
    <3> HIDE DEF mark
    <3> QED  BY <1>2, <2>1 DEF SessionRecords
  <2> DEFINE new == [session[s] EXCEPT !.mark = mark]
  <2>3. new.mark = mark /\ new.live = session[s].live /\ new.claimed = session[s].claimed
    <3> HIDE DEF mark
    <3> QED  BY <1>2 DEF SessionRecords
  <2>4. UNCHANGED session \/ session' = [session EXCEPT ![s] = new]
    BY <1>3
  <2> HIDE DEF new
  <2> QED  BY <2>2, <2>3, <2>4 DEF Types, new
<1>5. Moves(s, a, "look")  BY <1>3, GotoMoves DEF Tasks, ReclaimSteps
<1>6. Types' /\ Only(s) /\ SessionInv(s)'
  <2>1. /\ a \in Tasks /\ "look" \in (ReclaimSteps \cup HandlerSteps) \ Deciding
        /\ start[s] \notin Early /\ "look" \notin HandlerSteps
    BY <1>3 DEF Tasks, ReclaimSteps, HandlerSteps, Deciding, Outcomes, Up, Early
  <2> QED  BY <1>1, <1>3, <1>4, <1>5, <2>1, IdleMoves
<1> QED  BY <1>1, <1>4, <1>6 DEF Steps, StopKept, SameSeat

LEMMA ClaimSteps ==
  ASSUME Types, NEW s \in Sessions, SessionInv(s), NEW a \in Reclaimers, Claim(s, a) \/ PollEnds(s, a)
  PROVE  Steps(s) /\ SameSeat(s)
<1>1. /\ UNCHANGED <<start, slots, permit, pipe, protected, run, stopInFlight, revived>>
      /\ act[s][a] \in {"look", "poll"} /\ a \in Tasks
  BY DEF Claim, PollEnds, Tasks
<1>2. start[s] \in Up /\ start[s] \notin Early  BY <1>1 DEF SessionInv, StartInv, Up, Early
<1>3. PICK to \in {"done", "poll", "look", "off", "decide"} :
        /\ Goto(s, a, to)
        /\ \/ UNCHANGED session /\ to # "decide"
           \/ /\ to = "decide" /\ session[s].live /\ ~session[s].claimed
              /\ session' = [session EXCEPT ![s].claimed = TRUE]
  BY DEF Claim, PollEnds, AfterError
<1>4. Moves(s, a, to)  BY <1>1, <1>3, GotoMoves DEF ReclaimSteps
<1>5. CASE to # "decide"
  <2>1. to \in (ReclaimSteps \cup HandlerSteps) \ Deciding /\ to \notin HandlerSteps
    BY <1>3, <1>5 DEF ReclaimSteps, HandlerSteps, Deciding, Outcomes
  <2>2. Types' /\ Only(s) /\ SessionInv(s)'
    BY <1>1, <1>2, <1>3, <1>4, <1>5, <2>1, IdleMoves DEF Types
  <2> QED  BY <1>1, <1>3, <1>5, <2>2 DEF Steps, StopKept, SameSeat
<1>6. CASE to = "decide"
  <2>1. session[s] \in SessionRecords  BY DEF Types
  <2> DEFINE new == [session[s] EXCEPT !.claimed = TRUE]
  <2>2. new \in SessionRecords /\ new.claimed /\ new.live = session[s].live /\ new.mark = session[s].mark
    BY <2>1 DEF SessionRecords
  <2>2a. session' = [session EXCEPT ![s] = new]  BY <1>3, <1>6
  <2> HIDE DEF new
  <2>3. /\ session' \in [Sessions -> SessionRecords] /\ session'[s].live /\ session[s].live
        /\ \A t \in Sessions \ {s} : session'[t] = session[t]
        /\ session'[s].mark = session[s].mark /\ session'[s].claimed
    BY <1>3, <1>6, <2>2, <2>2a DEF Types
  <2>4. Types' /\ Only(s)  BY <1>1, <1>4, <2>3 DEF Types, Only, Moves
  <2>5. StartInv(s)' /\ GenerationInv(s)'
    BY <1>1, <1>2, <2>3, <1>4 DEF SessionInv, StartInv, GenerationInv, Moves, Tasks
  <2>6. \A b \in Reclaimers \ {a} : act'[s][b] \notin Deciding /\ act'[s][b] = act[s][b]
    BY <1>3, <1>6, <1>4 DEF SessionInv, ReclaimInv, Moves, Tasks
  <2>6a. \A b \in Rest \cup Handlers : act'[s][b] = act[s][b]
    BY <1>4 DEF Moves, Tasks, Rest, Reclaimers, Handlers
  <2>7. ReclaimInv(s)'
    BY <1>1, <1>4, <1>6, <2>3, <2>6, <2>6a
       DEF SessionInv, ReclaimInv, Settled, Sealed, Moves, Rest, Deciding
  <2>8. StopInv(s)'
    BY <1>1, <1>4, <1>6, <2>6, <2>6a DEF SessionInv, StopInv, PastCheck, Moves
  <2> QED  BY <1>1, <2>3, <2>4, <2>5, <2>7, <2>8 DEF Steps, StopKept, SameSeat, SessionInv
<1> QED  BY <1>5, <1>6

LEMMA DecideSteps ==
  ASSUME Types, NEW s \in Sessions, SessionInv(s), NEW a \in Reclaimers, Decide(s, a)
  PROVE  Steps(s) /\ SameSeat(s)
<1>1. /\ UNCHANGED <<start, slots, permit, session, pipe, protected, run, stopInFlight, revived>>
      /\ act[s][a] = "decide" /\ a \in Tasks
  BY DEF Decide, Tasks
<1>2. start[s] \in Up /\ start[s] \notin Early  BY <1>1 DEF SessionInv, StartInv, Up, Early
<1>3. PICK to \in {"remove"} \cup Outcomes :
        /\ Goto(s, a, to)
        /\ to = "remove" => Settled(s)
        /\ to \in {"completed", "failed"} => run[s] \notin Terminal
  <2> DEFINE mark == session[s].mark
             to == IF mark = Stop \/ (mark # Delete /\ run[s] \in Terminal)
                   THEN "remove" ELSE Outcome(mark)
  <2>1. mark = Stop => Settled(s)
    BY DEF SessionInv, ReclaimInv, Sealed, Settled, Terminal
  <2>2. Goto(s, a, to)  BY DEF Decide
  <2>3. to \in {"remove"} \cup Outcomes  BY DEF Outcome, Outcomes
  <2>4. /\ to = "remove" => Settled(s)
        /\ to \in {"completed", "failed"} => run[s] \notin Terminal
    BY <2>1 DEF Outcome, Settled
  <2> QED  BY <2>2, <2>3, <2>4
<1>4. Moves(s, a, to)  BY <1>1, <1>3, GotoMoves DEF ReclaimSteps
<1>5. Types' /\ Only(s)  BY <1>1, <1>4 DEF Types, Only, Moves
<1>6. StartInv(s)' /\ GenerationInv(s)'
  BY <1>1, <1>2, <1>4 DEF SessionInv, StartInv, GenerationInv, Moves, Tasks
<1>7. \A b \in Reclaimers \ {a} : act'[s][b] \notin Deciding /\ act'[s][b] = act[s][b]
  BY <1>1, <1>4 DEF SessionInv, ReclaimInv, Moves, Tasks, Deciding
<1>8. \A b \in Rest \cup Handlers : act'[s][b] = act[s][b]
  BY <1>4 DEF Moves, Tasks, Rest, Reclaimers, Handlers
<1>9. ReclaimInv(s)'
  BY <1>1, <1>3, <1>4, <1>7, <1>8
     DEF SessionInv, ReclaimInv, Settled, Sealed, Moves, Rest, Deciding
<1>10. StopInv(s)'
  BY <1>1, <1>3, <1>4, <1>7, <1>8
     DEF SessionInv, StopInv, PastCheck, Moves, Terminal, Ended, Deciding, Outcomes
<1> QED  BY <1>1, <1>5, <1>6, <1>9, <1>10 DEF Steps, StopKept, SameSeat, SessionInv

LEMMA AppendSteps ==
  ASSUME Types, NEW s \in Sessions, SessionInv(s), NEW a \in Reclaimers, ReclaimAppend(s, a)
  PROVE  Steps(s) /\ SameSeat(s)
<1>1. /\ UNCHANGED <<start, slots, permit, pipe, protected, stopInFlight, revived>>
      /\ act[s][a] \in Outcomes /\ a \in Tasks /\ act[s][a] \in Deciding
  BY DEF ReclaimAppend, Tasks, Deciding
<1>2. start[s] \in Up /\ start[s] \notin Early
  BY <1>1 DEF SessionInv, StartInv, Up, Early, Outcomes
<1>3. \/ /\ run' = [run EXCEPT ![s] = act[s][a]] /\ Goto(s, a, "remove") /\ UNCHANGED session
         /\ run[s] # "deleted" \/ act[s][a] = "deleted"
      \/ /\ session' = [session EXCEPT ![s].claimed = FALSE] /\ Goto(s, a, AfterError(a))
         /\ UNCHANGED run
  BY DEF ReclaimAppend, AppendFails
<1>4. CASE /\ run' = [run EXCEPT ![s] = act[s][a]] /\ Goto(s, a, "remove") /\ UNCHANGED session
           /\ run[s] # "deleted" \/ act[s][a] = "deleted"
  <2>1. /\ run' \in [Sessions -> Terminal \cup {"none", "active"}] /\ run'[s] = act[s][a]
        /\ run'[s] \in Ended /\ run'[s] \in Terminal /\ run'[s] # "stopped"
        /\ run[s] = "deleted" => run'[s] = "deleted"
        /\ \A t \in Sessions \ {s} : run'[t] = run[t]
    BY <1>1, <1>4 DEF Types, Outcomes, Terminal, Ended
  <2>2. Moves(s, a, "remove")  BY <1>1, <1>4, GotoMoves DEF ReclaimSteps
  <2>3. Types' /\ Only(s)  BY <1>1, <1>4, <2>1, <2>2 DEF Types, Only, Moves
  <2>4. StartInv(s)' /\ GenerationInv(s)'
    BY <1>1, <1>2, <1>4, <2>2 DEF SessionInv, StartInv, GenerationInv, Moves, Tasks
  <2>5. \A b \in Reclaimers \ {a} : act'[s][b] \notin Deciding /\ act'[s][b] = act[s][b]
    BY <1>1, <2>2 DEF SessionInv, ReclaimInv, Moves, Tasks
  <2>5a. act'[s]["stop"] = act[s]["stop"] /\ act'[s]["delete"] = act[s]["delete"]
    BY <2>2 DEF Moves, Tasks, Rest, Reclaimers
  <2>6. ReclaimInv(s)'
    BY <1>1, <1>4, <2>1, <2>5, <2>5a DEF SessionInv, ReclaimInv, Settled, Sealed
  <2>7. StopInv(s)' /\ StopKept(s)
    BY <1>1, <2>1 DEF SessionInv, StopInv, PastCheck, StopKept, Outcomes
  <2> QED  BY <1>1, <1>4, <2>3, <2>4, <2>6, <2>7 DEF Steps, SameSeat, SessionInv
<1>5. CASE /\ session' = [session EXCEPT ![s].claimed = FALSE] /\ Goto(s, a, AfterError(a))
           /\ UNCHANGED run
  <2>1. session[s] \in SessionRecords  BY DEF Types
  <2> DEFINE new == [session[s] EXCEPT !.claimed = FALSE]
  <2>2. /\ new \in SessionRecords /\ new.claimed = FALSE /\ new.live = session[s].live
        /\ new.mark = session[s].mark
    BY <2>1 DEF SessionRecords
  <2>3. session' = [session EXCEPT ![s] = new]  BY <1>5
  <2> HIDE DEF new
  <2>4. AfterError(a) \in (ReclaimSteps \cup HandlerSteps) \ Deciding /\ AfterError(a) \notin HandlerSteps
    BY DEF AfterError, ReclaimSteps, HandlerSteps, Deciding, Outcomes
  <2>5. Moves(s, a, AfterError(a))  BY <1>1, <1>5, <2>4, GotoMoves
  <2>6. /\ session' \in [Sessions -> SessionRecords]
        /\ \A t \in Sessions \ {s} : session'[t] = session[t]
        /\ session'[s].live = session[s].live /\ session'[s].mark = session[s].mark
        /\ session'[s].claimed = FALSE
    BY <2>2, <2>3 DEF Types
  <2>7. Types' /\ Only(s) /\ SessionInv(s)'
    <3> DEFINE to == AfterError(a)
    <3>1. to \in (ReclaimSteps \cup HandlerSteps) \ Deciding /\ Moves(s, a, to) /\ to \notin HandlerSteps
      BY <2>4, <2>5
    <3> HIDE DEF to
    <3> QED  BY <1>1, <1>2, <1>5, <2>6, <3>1, IdleMoves
  <2> QED  BY <1>1, <1>5, <2>6, <2>7 DEF Steps, StopKept, SameSeat
<1> QED  BY <1>3, <1>4, <1>5

LEMMA Removed ==
  ASSUME Types, NEW s \in Sessions, SessionInv(s), NEW a \in Reclaimers, Remove(s, a)
  PROVE  /\ Steps(s) /\ slots' = slots - 1 /\ UNCHANGED start
         /\ session[s].live /\ ~session'[s].live /\ start[s] # "slotted"
<1>1. /\ UNCHANGED <<start, permit, protected, run, stopInFlight, revived>> /\ slots' = slots - 1
      /\ act[s][a] = "remove" /\ a \in Tasks /\ act[s][a] \in Deciding
      /\ Goto(s, a, "done") /\ CloseEffect(s, [session[s] EXCEPT !.live = FALSE], pipe[s])
  BY DEF Remove, Tasks, Deciding
<1>2. start[s] \in Up /\ start[s] \notin Early /\ start[s] # "slotted"
  BY <1>1 DEF SessionInv, StartInv, Up, Early
<1>3. session[s] \in SessionRecords /\ pipe[s] \in PipeRecords  BY DEF Types
<1> DEFINE new == [session[s] EXCEPT !.live = FALSE]
<1>4. new \in SessionRecords /\ ~new.live /\ new.mark = session[s].mark
  BY <1>3 DEF SessionRecords
<1>5. CloseEffect(s, new, pipe[s])  BY <1>1
<1> HIDE DEF new
<1>6. /\ session' \in [Sessions -> SessionRecords] /\ pipe' \in [Sessions -> PipeRecords]
      /\ \A t \in Sessions \ {s} : session'[t] = session[t] /\ pipe'[t] = pipe[t]
      /\ ~session'[s].live /\ session'[s].mark = session[s].mark
      /\ pipe'[s].sup = pipe[s].sup /\ pipe'[s].running = pipe[s].running
  BY <1>3, <1>4, <1>5, CloseChanges
<1>7. Moves(s, a, "done")  BY <1>1, GotoMoves DEF ReclaimSteps
<1>8. Types' /\ Only(s)  BY <1>1, <1>6, <1>7 DEF Types, Only, Moves
<1>9. StartInv(s)' /\ GenerationInv(s)'
  BY <1>1, <1>2, <1>6, <1>7 DEF SessionInv, StartInv, GenerationInv, Moves, Tasks
<1>10. \A b \in Reclaimers : act'[s][b] \notin Deciding
  BY <1>1, <1>7 DEF SessionInv, ReclaimInv, Moves, Tasks, Deciding, Outcomes
<1>11. Settled(s)  BY <1>1 DEF SessionInv, ReclaimInv
<1>11a. \A b \in Rest \cup Handlers : act'[s][b] = act[s][b]
  BY <1>7 DEF Moves, Tasks, Rest, Reclaimers, Handlers
<1>12. ReclaimInv(s)'
  BY <1>1, <1>6, <1>10, <1>11, <1>11a DEF SessionInv, ReclaimInv, Settled, Sealed, Deciding, Rest
<1>12a. StopInv(s)'
  BY <1>1, <1>10, <1>11a DEF SessionInv, StopInv, PastCheck, Deciding, Outcomes
<1>13. session[s].live  BY <1>1 DEF SessionInv, ReclaimInv
<1> QED  BY <1>1, <1>2, <1>6, <1>8, <1>9, <1>12, <1>12a, <1>13 DEF Steps, StopKept, SessionInv

LEMMA RestSteps ==
  ASSUME Types, NEW s \in Sessions, SessionInv(s), NEW a \in Rest,
         RestBegin(s, a) \/ RestAppend(s, a) \/ RestClose(s, a)
  PROVE  Steps(s) /\ SameSeat(s)
<1>1. a \in Tasks /\ a \notin Reclaimers /\ a \notin Handlers /\ a \in {"stop", "delete"}
  BY DEF Tasks, Rest, Reclaimers, Handlers
<1>2. CASE RestBegin(s, a)
  <2>1. UNCHANGED <<start, slots, permit, session, pipe, protected, run, stopInFlight, revived>>
    BY <1>2 DEF RestBegin
  <2>2. start[s] \notin Early  BY <1>2 DEF RestBegin, SessionInv, StartInv, Terminal, Ended
  <2>3. "append" \in (ReclaimSteps \cup HandlerSteps) \ Deciding
    BY DEF HandlerSteps, Deciding, Outcomes
  <2>4. Moves(s, a, "append")  BY <1>1, <1>2, <2>3, GotoMoves DEF RestBegin
  <2>5. Types' /\ Only(s) /\ SessionInv(s)'
    BY <1>1, <2>1, <2>2, <2>3, <2>4, IdleMoves DEF Types
  <2> QED  BY <2>1, <2>5 DEF Steps, StopKept, SameSeat
<1>3. CASE RestAppend(s, a)
  <2>1. /\ UNCHANGED <<start, slots, permit, session, pipe, protected, revived>>
        /\ act[s][a] = "append"
    BY <1>3 DEF RestAppend
  <2>2. start[s] \notin Early  BY <1>1, <2>1 DEF SessionInv, StartInv
  <2>3. CASE UNCHANGED <<run, stopInFlight>> /\ Goto(s, a, "done")
    <3>1. "done" \in (ReclaimSteps \cup HandlerSteps) \ Deciding
      BY DEF ReclaimSteps, Deciding, Outcomes
    <3>2. Moves(s, a, "done")  BY <1>1, <2>3, GotoMoves DEF ReclaimSteps
    <3>3. Types' /\ Only(s) /\ SessionInv(s)'
      BY <1>1, <2>1, <2>2, <2>3, <3>1, <3>2, IdleMoves DEF Types
    <3> QED  BY <2>1, <2>3, <3>3 DEF Steps, StopKept, SameSeat
  <2>4. CASE /\ run[s] # "deleted"
             /\ run' = [run EXCEPT ![s] = IF a = "stop" THEN "stopped" ELSE "deleted"]
             /\ stopInFlight' = IF a = "stop" THEN [stopInFlight EXCEPT ![s] = PastCheck(s)]
                                ELSE stopInFlight
             /\ Goto(s, a, "close")
    <3>1. /\ run' \in [Sessions -> Terminal \cup {"none", "active"}]
          /\ run'[s] = IF a = "stop" THEN "stopped" ELSE "deleted"
          /\ \A t \in Sessions \ {s} : run'[t] = run[t] /\ stopInFlight'[t] = stopInFlight[t]
      BY <2>4 DEF Types, Terminal, Ended
    <3>2. stopInFlight' \in [Sessions -> BOOLEAN]
      <4>1. PastCheck(s) \in BOOLEAN  BY DEF PastCheck
      <4> QED  BY <2>4, <4>1 DEF Types
    <3>3. Moves(s, a, "close")  BY <1>1, <2>4, GotoMoves
    <3>4. Types' /\ Only(s)  BY <2>1, <3>1, <3>2, <3>3 DEF Types, Only, Moves
    <3>5. /\ \A b \in Reclaimers \cup Handlers : act'[s][b] = act[s][b]
          /\ \A b \in Rest : act'[s][b] = "close" => b = a \/ act[s][b] = "close"
      BY <1>1, <3>3 DEF Moves, Tasks
    <3>6. StartInv(s)' /\ GenerationInv(s)'
      BY <2>1, <2>2, <3>5 DEF SessionInv, StartInv, GenerationInv
    <3>7. run'[s] \in Ended /\ run'[s] \in Terminal  BY <3>1 DEF Ended, Terminal
    <3>8. ReclaimInv(s)'
      <4>1. session[s].mark # Delete /\ act[s]["delete"] # "close"
        BY <2>4 DEF SessionInv, ReclaimInv
      <4>2. act'[s]["delete"] = "close" => run'[s] = "deleted"
        BY <1>1, <3>1, <3>5, <4>1 DEF Rest
      <4> QED
        BY <2>1, <3>5, <3>7, <4>1, <4>2 DEF SessionInv, ReclaimInv, Settled, Sealed
    <3>9. StopInv(s)'
      <4>1. CASE a = "stop"
        <5>1. stopInFlight'[s] = PastCheck(s)  BY <2>4, <4>1 DEF Types
        <5>2. PastCheck(s)' => PastCheck(s)  BY <3>5 DEF PastCheck
        <5> QED  BY <5>1, <5>2 DEF StopInv
      <4>2. CASE a # "stop"  BY <3>1, <4>2 DEF StopInv
      <4> QED  BY <4>1, <4>2
    <3>10. StopKept(s)  BY <3>1 DEF StopKept
    <3> QED  BY <2>1, <3>4, <3>6, <3>8, <3>9, <3>10 DEF Steps, SameSeat, SessionInv
  <2> QED  BY <1>3, <2>3, <2>4 DEF RestAppend
<1>4. CASE RestClose(s, a)
  <2>1. /\ UNCHANGED <<start, slots, permit, protected, run, stopInFlight, revived>>
        /\ act[s][a] = "close" /\ Goto(s, a, "done")
    BY <1>4 DEF RestClose
  <2>2. /\ start[s] \notin Early /\ Sealed(s) /\ (a = "delete" => run[s] = "deleted")
        /\ session[s].mark = Delete => run[s] = "deleted"
    BY <1>1, <2>1 DEF SessionInv, StartInv, ReclaimInv, Sealed, Ended
  <2>3. session[s] \in SessionRecords /\ pipe[s] \in PipeRecords  BY DEF Types
  <2> DEFINE mark == MaxOf(session[s].mark, IF a = "stop" THEN Stop ELSE Delete)
             new == [session[s] EXCEPT !.mark = mark]
  <2>4. mark \in {Fault, Complete, Stop, Delete}
    BY <2>3 DEF SessionRecords, MaxOf, Fault, Complete, Stop, Delete
  <2>5. /\ new \in SessionRecords /\ new.live = session[s].live
        /\ new.claimed = session[s].claimed
    <3> HIDE DEF mark
    <3> QED  BY <2>3, <2>4 DEF SessionRecords
  <2>6. UNCHANGED <<session, pipe>> \/ CloseEffect(s, new, pipe[s])
    BY <1>4 DEF RestClose
  <2> HIDE DEF new, mark
  <2>7. /\ session' \in [Sessions -> SessionRecords] /\ pipe' \in [Sessions -> PipeRecords]
        /\ \A t \in Sessions \ {s} : session'[t] = session[t] /\ pipe'[t] = pipe[t]
        /\ session'[s].live = session[s].live /\ session'[s].claimed = session[s].claimed
        /\ pipe'[s].sup = pipe[s].sup /\ pipe'[s].running = pipe[s].running
        /\ session'[s].mark = Delete => run[s] = "deleted"
    <3>1. mark = Delete => session[s].mark = Delete \/ a = "delete"
      BY <1>1 DEF mark, MaxOf, Stop, Delete
    <3>2. new.mark = mark  BY <2>3 DEF new, SessionRecords
    <3> QED  BY <2>2, <2>3, <2>5, <2>6, <3>1, <3>2, CloseChanges DEF Types
  <2>8. Moves(s, a, "done")  BY <1>1, <2>1, GotoMoves DEF ReclaimSteps
  <2>9. Types' /\ Only(s)  BY <2>1, <2>7, <2>8 DEF Types, Only, Moves
  <2>10. /\ \A b \in Reclaimers \cup Handlers : act'[s][b] = act[s][b]
         /\ \A b \in Rest : act'[s][b] = "close" => act[s][b] = "close"
    BY <1>1, <2>8 DEF Moves, Tasks
  <2>11. StartInv(s)' /\ GenerationInv(s)'
    BY <2>1, <2>2, <2>7, <2>10 DEF SessionInv, StartInv, GenerationInv
  <2>12. ReclaimInv(s)'
    BY <2>1, <2>2, <2>7, <2>10 DEF SessionInv, ReclaimInv, Settled, Sealed, Rest
  <2>12a. StopInv(s)'
    BY <2>1, <2>10 DEF SessionInv, StopInv, PastCheck
  <2> QED  BY <2>1, <2>7, <2>9, <2>11, <2>12, <2>12a DEF Steps, StopKept, SameSeat, SessionInv
<1> QED  BY <1>2, <1>3, <1>4

\* An event of the run: what was settled stays settled, and what was sealed
\* stays sealed.
LEMMA EventKeeps ==
  ASSUME Types, NEW s \in Sessions, SessionInv(s),
         UNCHANGED <<start, session, stopInFlight>>,
         start[s] \notin Early, run[s] # "deleted",
         \/ run'[s] = "active" /\ revived'[s] = (revived[s] \/ run[s] \in Ended \/ ReclaimedAsExpired(s))
         \/ run'[s] = "completed" /\ revived'[s] = revived[s]
         \/ run'[s] = "expired" /\ run[s] = "active" /\ revived'[s] = revived[s],
         \A a \in Reclaimers \cup Rest : act'[s][a] = act[s][a]
  PROVE  StartInv(s)' /\ ReclaimInv(s)'
<1>1. StartInv(s)'
  BY DEF SessionInv, StartInv, Up
<1>2. revived[s] \in BOOLEAN  BY DEF Types
<1>3. Sealed(s) => Sealed(s)'
  BY <1>2 DEF Sealed, Ended
<1>4. Settled(s) /\ (~session[s].live \/ \E a \in Reclaimers : act[s][a] = "remove") => Settled(s)'
  BY <1>2 DEF Settled, Terminal, Ended, ReclaimedAsExpired
<1>5. session[s].mark # Delete /\ act[s]["delete"] # "close"
  BY DEF SessionInv, ReclaimInv
<1>6. ReclaimInv(s)'
  BY <1>3, <1>4, <1>5 DEF SessionInv, ReclaimInv, Rest
<1> QED  BY <1>1, <1>6

LEMMA EventSteps ==
  ASSUME Types, NEW s \in Sessions, SessionInv(s),
         (\E h \in Handlers : CheckRun(s, h) \/ HandlerAppend(s, h)) \/ Lapse(s) \/ Refresh(s)
  PROVE  Steps(s) /\ SameSeat(s)
<1>1. UNCHANGED <<start, slots, permit, session, pipe, protected, stopInFlight>>
  BY DEF CheckRun, HandlerAppend, Lapse, Refresh
<1>2. ASSUME NEW h \in Handlers PROVE h \in Tasks /\ h \notin Reclaimers /\ h \notin Rest
  BY DEF Handlers, Tasks, Reclaimers, Rest
<1>3. ASSUME NEW h \in Handlers, CheckRun(s, h) PROVE Steps(s)
  <2>1. /\ start[s] \notin Early /\ run[s] # "stopped" /\ Goto(s, h, "append")
        /\ UNCHANGED <<run, revived>>
    BY <1>3 DEF CheckRun, SessionInv, StartInv
  <2>2. "append" \in (ReclaimSteps \cup HandlerSteps) \ Deciding
    BY DEF HandlerSteps, Deciding, Outcomes
  <2>3. Moves(s, h, "append")  BY <1>2, <2>1, <2>2, GotoMoves
  <2>4. Types' /\ Only(s) /\ SessionInv(s)'
    BY <1>1, <1>2, <2>1, <2>2, <2>3, IdleMoves DEF Types
  <2> QED  BY <2>1, <2>4 DEF Steps, StopKept
<1>4. ASSUME NEW h \in Handlers, HandlerAppend(s, h) PROVE Steps(s)
  <2>1. act[s][h] \in HandlerSteps  BY <1>4 DEF HandlerAppend
  <2>2. start[s] \notin Early
    BY <1>2, <2>1 DEF SessionInv, StartInv, HandlerSteps
  <2>3. CASE UNCHANGED <<run, revived>> /\ Goto(s, h, "done")
    <3>1. "done" \in (ReclaimSteps \cup HandlerSteps) \ Deciding /\ "done" \notin HandlerSteps
      BY DEF ReclaimSteps, HandlerSteps, Deciding, Outcomes
    <3>2. Moves(s, h, "done")  BY <1>2, <2>3, <3>1, GotoMoves
    <3>3. Types' /\ Only(s) /\ SessionInv(s)'
      BY <1>1, <1>2, <2>2, <2>3, <3>1, <3>2, IdleMoves DEF Types
    <3> QED  BY <2>3, <3>3 DEF Steps, StopKept
  <2>4. CASE /\ run[s] # "deleted" /\ Goto(s, h, After(h, act[s][h]))
             /\ \/ run' = [run EXCEPT ![s] = "completed"] /\ UNCHANGED revived
                \/ Enliven(s)
    <3> DEFINE to == After(h, act[s][h])
    <3>1. to \in HandlerSteps \cup {"done"}
      BY DEF After, HandlerSteps
    <3>2. to \in (ReclaimSteps \cup HandlerSteps) \ Deciding
      BY <3>1 DEF ReclaimSteps, HandlerSteps, Deciding, Outcomes
    <3>3. Goto(s, h, to)  BY <2>4
    <3> HIDE DEF to
    <3>4. Moves(s, h, to)  BY <1>2, <3>2, <3>3, GotoMoves
    <3>5. /\ run' \in [Sessions -> Terminal \cup {"none", "active"}]
          /\ revived' \in [Sessions -> BOOLEAN]
          /\ \A t \in Sessions \ {s} : run'[t] = run[t] /\ revived'[t] = revived[t]
          /\ \/ run'[s] = "active"
                /\ revived'[s] = (revived[s] \/ run[s] \in Ended \/ ReclaimedAsExpired(s))
             \/ run'[s] = "completed" /\ revived'[s] = revived[s]
      BY <2>4 DEF Types, Enliven, Terminal, Ended
    <3>6. Types' /\ Only(s)  BY <1>1, <3>4, <3>5 DEF Types, Only, Moves
    <3>7. \A a \in Reclaimers \cup Rest : act'[s][a] = act[s][a]
      BY <1>2, <3>4 DEF Moves, Tasks
    <3>8. StartInv(s)' /\ ReclaimInv(s)'
      BY <1>1, <2>2, <2>4, <3>5, <3>7, EventKeeps
    <3>9. GenerationInv(s)'  BY <1>1 DEF SessionInv, GenerationInv
    <3>10. PastCheck(s)  BY <2>1 DEF PastCheck
    <3>11. StopKept(s)  BY <3>10 DEF SessionInv, StopInv, StopKept
    <3>12. StopInv(s)'  BY <3>5 DEF StopInv
    <3> QED  BY <3>6, <3>8, <3>9, <3>11, <3>12 DEF Steps, SessionInv
  <2> QED  BY <1>4, <2>3, <2>4 DEF HandlerAppend
<1>5. ASSUME Lapse(s) \/ Refresh(s) PROVE Steps(s)
  <2>1. UNCHANGED act /\ run[s] \in {"active", "expired"}  BY <1>5 DEF Lapse, Refresh
  <2>2. start[s] \notin Early  BY <2>1 DEF SessionInv, StartInv
  <2>3. /\ run' \in [Sessions -> Terminal \cup {"none", "active"}]
        /\ revived' \in [Sessions -> BOOLEAN]
        /\ \A t \in Sessions \ {s} : run'[t] = run[t] /\ revived'[t] = revived[t]
        /\ \/ run'[s] = "active"
              /\ revived'[s] = (revived[s] \/ run[s] \in Ended \/ ReclaimedAsExpired(s))
           \/ run'[s] = "expired" /\ run[s] = "active" /\ revived'[s] = revived[s]
    BY <1>5 DEF Types, Lapse, Refresh, Enliven, Terminal, Ended
  <2>4. Types' /\ Only(s)  BY <1>1, <2>1, <2>3 DEF Types, Only
  <2>5. StartInv(s)' /\ ReclaimInv(s)'
    BY <1>1, <2>1, <2>2, <2>3, EventKeeps
  <2>6. GenerationInv(s)'  BY <1>1 DEF SessionInv, GenerationInv
  <2>7. StopInv(s)' /\ StopKept(s)  BY <2>1, <2>3 DEF StopInv, StopKept
  <2> QED  BY <2>4, <2>5, <2>6, <2>7 DEF Steps, SessionInv
<1>6. start'[s] = start[s] /\ session'[s].live = session[s].live  BY <1>1
<1> QED  BY <1>1, <1>3, <1>4, <1>5, <1>6 DEF SameSeat

-----------------------------------------------------------------------------
(* All steps *)

\* Every step is one of a single session.
StepOf(s) ==
  \/ PeerConnects(s) \/ PeerFails(s)
  \/ ReserveBytes(s) \/ StartStep(s)
  \/ IngestEnds(s) \/ WorkerStops(s) \/ WorkerFaults(s) \/ SupervisorStep(s)
  \/ WatcherSees(s) \/ Terminate(s)
  \/ \E a \in Reclaimers : ReclaimStep(s, a)
  \/ \E a \in Rest : RestBegin(s, a) \/ RestAppend(s, a) \/ RestClose(s, a)
  \/ \E h \in Handlers : CheckRun(s, h) \/ HandlerAppend(s, h)
  \/ Lapse(s) \/ Refresh(s)

\* It keeps the session's invariant and a stopped run, and takes or gives back
\* at most that session's slot.
LEMMA EveryStep ==
  ASSUME Types, NEW s \in Sessions, SessionInv(s), StepOf(s)
  PROVE  /\ Steps(s)
         /\ \/ SameSeat(s)
            \/ /\ slots' = slots + 1 /\ ~(start[s] = "slotted" \/ session[s].live)
               /\ start'[s] = "slotted" \/ session'[s].live
            \/ /\ slots' = slots - 1 /\ (start[s] = "slotted" \/ session[s].live)
               /\ ~(start'[s] = "slotted" \/ session'[s].live)
<1>1. StepOf(s)  OBVIOUS
<1>2. SessionInv(s)  OBVIOUS
<1>3. CASE PeerConnects(s) \/ PeerFails(s)  BY <1>1, <1>2, <1>3, PeerSteps
<1>4. CASE ReserveBytes(s) \/ ReserveThreads(s) \/ GiveBytesBack(s) \/ AppendCreated(s)
  BY <1>1, <1>2, <1>4, ReserveSteps
<1>5. CASE TakeSlot(s)
  <2>1. /\ Steps(s)
        /\ \/ SameSeat(s)
           \/ slots' = slots + 1 /\ start[s] = "created" /\ ~session[s].live /\ start'[s] = "slotted"
    BY <1>1, <1>2, <1>5, SlotTaken
  <2> QED  BY <1>1, <2>1
<1>6. CASE Insert(s)  BY <1>1, <1>2, <1>6, Inserted
<1>7. CASE Launch(s)  BY <1>1, <1>2, <1>7, Launched
<1>8. CASE TombstoneCreated(s)  BY <1>1, <1>2, <1>8, CreatedTombstoned
<1>9. CASE IngestEnds(s) \/ WorkerStops(s) \/ WorkerFaults(s)
  BY <1>1, <1>2, <1>9, ThreadSteps
<1>10. CASE SupervisorStep(s)  BY <1>1, <1>2, <1>10, SupervisorSteps
<1>11. CASE WatcherSees(s) \/ Terminate(s)  BY <1>1, <1>2, <1>11, WatchSteps
<1>12. CASE \E a \in Reclaimers : ReclaimStep(s, a)
  <2>1. PICK a \in Reclaimers : ReclaimStep(s, a)  BY <1>12
  <2>2. CASE Claim(s, a) \/ PollEnds(s, a)  BY <1>1, <1>2, <2>1, <2>2, ClaimSteps
  <2>3. CASE Decide(s, a)  BY <1>1, <1>2, <2>1, <2>3, DecideSteps
  <2>4. CASE ReclaimAppend(s, a)  BY <1>1, <1>2, <2>1, <2>4, AppendSteps
  <2>5. CASE Remove(s, a)
    <3>1. /\ Steps(s) /\ slots' = slots - 1 /\ UNCHANGED start
          /\ session[s].live /\ ~session'[s].live /\ start[s] # "slotted"
      BY <1>1, <1>2, <2>1, <2>5, Removed
    <3> QED  BY <1>1, <3>1
  <2> QED  BY <2>1, <2>2, <2>3, <2>4, <2>5 DEF ReclaimStep
<1>13. CASE \E a \in Rest : RestBegin(s, a) \/ RestAppend(s, a) \/ RestClose(s, a)
  <2>1. PICK a \in Rest : RestBegin(s, a) \/ RestAppend(s, a) \/ RestClose(s, a)  BY <1>13
  <2> QED  BY <1>1, <1>2, <2>1, RestSteps
<1>14. CASE (\E h \in Handlers : CheckRun(s, h) \/ HandlerAppend(s, h)) \/ Lapse(s) \/ Refresh(s)
  BY <1>1, <1>2, <1>14, EventSteps
<1> QED
  BY <1>1, <1>3, <1>4, <1>5, <1>6, <1>7, <1>8, <1>9, <1>10, <1>11, <1>12, <1>13, <1>14
     DEF StepOf, StartStep

LEMMA OthersKeep ==
  ASSUME NEW s, Only(s), NEW t \in Sessions \ {s}, SessionInv(t)
  PROVE  SessionInv(t)'
<1>1. /\ start'[t] = start[t] /\ permit'[t] = permit[t] /\ session'[t] = session[t]
      /\ pipe'[t] = pipe[t] /\ act'[t] = act[t] /\ run'[t] = run[t]
      /\ stopInFlight'[t] = stopInFlight[t] /\ revived'[t] = revived[t]
      /\ (t \in protected' <=> t \in protected)
  BY DEF Only
<1> QED  BY <1>1
            DEF SessionInv, StartInv, GenerationInv, ReclaimInv, Settled, Sealed, StopInv, PastCheck

LEMMA SeatsAreCounted ==
  ASSUME IInv, NEW s \in Sessions, Only(s),
         \/ SameSeat(s)
         \/ /\ slots' = slots + 1 /\ ~(start[s] = "slotted" \/ session[s].live)
            /\ start'[s] = "slotted" \/ session'[s].live
         \/ /\ slots' = slots - 1 /\ (start[s] = "slotted" \/ session[s].live)
            /\ ~(start'[s] = "slotted" \/ session'[s].live)
  PROVE  slots' = Cardinality(Seated')
<1>1. IsFiniteSet(Seated)
  BY FS_Subset DEF Seated, WhipAssumption
<1>2. \A t \in Sessions \ {s} : t \in Seated' <=> t \in Seated
  BY DEF Only, Seated
<1>3. Seated \subseteq Sessions /\ Seated' \subseteq Sessions  BY DEF Seated
<1>4. CASE SameSeat(s)
  <2>1. s \in Seated' <=> s \in Seated  BY <1>4 DEF SameSeat, Seated
  <2>2. Seated' = Seated  BY <1>2, <1>3, <2>1
  <2> QED  BY <1>4, <2>2 DEF SameSeat, IInv
<1>5. CASE /\ slots' = slots + 1 /\ ~(start[s] = "slotted" \/ session[s].live)
           /\ start'[s] = "slotted" \/ session'[s].live
  <2>1. s \in Seated' /\ s \notin Seated  BY <1>5 DEF Seated
  <2>2. Seated' = Seated \cup {s}  BY <1>2, <1>3, <2>1
  <2>3. Cardinality(Seated \cup {s}) = Cardinality(Seated) + 1  BY <1>1, <2>1, FS_AddElement
  <2> QED  BY <1>5, <2>2, <2>3 DEF IInv
<1>6. CASE /\ slots' = slots - 1 /\ (start[s] = "slotted" \/ session[s].live)
           /\ ~(start'[s] = "slotted" \/ session'[s].live)
  <2>1. s \in Seated /\ s \notin Seated'  BY <1>6 DEF Seated
  <2>2. Seated' = Seated \ {s}  BY <1>2, <1>3, <2>1
  <2>3. Cardinality(Seated \ {s}) = Cardinality(Seated) - 1  BY <1>1, <2>1, FS_RemoveElement
  <2> QED  BY <1>6, <2>2, <2>3 DEF IInv
<1> QED  BY <1>4, <1>5, <1>6

LEMMA NextKeepsIInv ==
  ASSUME IInv, Next
  PROVE  IInv' /\ \A s \in Sessions : StopKept(s)
<1>0. Types /\ \A t \in Sessions : SessionInv(t)  BY DEF IInv
<1>1. PICK s \in Sessions : StepOf(s)  BY DEF Next, StepOf
<1>2. /\ Steps(s)
      /\ \/ SameSeat(s)
         \/ /\ slots' = slots + 1 /\ ~(start[s] = "slotted" \/ session[s].live)
            /\ start'[s] = "slotted" \/ session'[s].live
         \/ /\ slots' = slots - 1 /\ (start[s] = "slotted" \/ session[s].live)
            /\ ~(start'[s] = "slotted" \/ session'[s].live)
  BY <1>0, <1>1, EveryStep
<1>3. Types' /\ Only(s) /\ SessionInv(s)' /\ StopKept(s)  BY <1>2 DEF Steps
<1>4. \A t \in Sessions : SessionInv(t)'
  <2> SUFFICES ASSUME NEW t \in Sessions \ {s} PROVE SessionInv(t)'  BY <1>3
  <2> QED  BY <1>0, <1>3, OthersKeep
<1>5. slots' = Cardinality(Seated')  BY <1>2, <1>3, SeatsAreCounted
<1>6. \A t \in Sessions : StopKept(t)
  <2> SUFFICES ASSUME NEW t \in Sessions \ {s} PROVE StopKept(t)  BY <1>3
  <2> QED  BY <1>3 DEF Only, StopKept
<1> QED  BY <1>3, <1>4, <1>5, <1>6 DEF IInv

LEMMA StutterKeepsIInv ==
  ASSUME IInv, UNCHANGED vars
  PROVE  IInv'
  BY DEF IInv, vars, Types, SessionInv, StartInv, GenerationInv, ReclaimInv, Settled, Sealed,
         StopInv, PastCheck, Seated

LEMMA InitIInv == ASSUME Init PROVE IInv
<1>1. NewSession \in SessionRecords  BY DEF NewSession, SessionRecords, Fault
<1>2. NewPipe \in PipeRecords  BY DEF NewPipe, PipeRecords
<1>3. Types
  BY <1>1, <1>2 DEF Init, Types, StartSteps, Tasks, ReclaimSteps
<1>4. ASSUME NEW s \in Sessions PROVE SessionInv(s)
  <2>1. /\ start[s] = "idle" /\ run[s] = "none" /\ session[s] = NewSession /\ pipe[s] = NewPipe
        /\ \A a \in Tasks : act[s][a] = "off"
    BY DEF Init, Tasks
  <2>2. \A a \in Reclaimers \cup Rest \cup Handlers : act[s][a] = "off"
    BY <2>1 DEF Tasks
  <2>3. ReclaimInv(s)
    BY <2>1, <2>2 DEF ReclaimInv, NewSession, Up, Rest, Deciding, Outcomes, Fault, Stop, Delete
  <2>4. StopInv(s)  BY <2>1 DEF StopInv
  <2> QED
    BY <2>1, <2>3, <2>4 DEF SessionInv, StartInv, GenerationInv, NewSession, NewPipe, Up, Tasks, Fault
<1>5. Seated = {}  BY DEF Init, Seated, NewSession
<1>6. slots = Cardinality(Seated)  BY <1>5, FS_EmptySet DEF Init
<1> QED  BY <1>3, <1>4, <1>6 DEF IInv

\* Sessions, starts, generations, reclaims and stops agree with each other, and a
\* slot is taken for every seated session: what the rest is built on.
THEOREM Invariance == Spec => []IInv
<1>1. IInv /\ [Next]_vars => IInv'  BY NextKeepsIInv, StutterKeepsIInv
<1> QED  BY <1>1, InitIInv, PTL DEF Spec

\* No session leaves the map before its run has ended, one reclaimer at a time
\* is past the claim, and the slots count the sessions: transactional reclaim in
\* whip.rs against insert_session_reserved and remove_session_for_run.
THEOREM SessionsEnd == Spec => []SessionsEndWithAnOutcome
<1>1. IInv => SessionsEndWithAnOutcome
  <2> SUFFICES ASSUME IInv PROVE SessionsEndWithAnOutcome  OBVIOUS
  <2>1. ASSUME NEW s \in Sessions
        PROVE  /\ start[s] \in {"inserted", "started"} /\ ~session[s].live =>
                    run[s] \in Terminal \/ revived[s]
               /\ session[s].mark = Delete => run[s] = "deleted"
               /\ \A a, b \in Reclaimers : act[s][a] \in Deciding /\ act[s][b] \in Deciding => a = b
               /\ (\E a \in Reclaimers : act[s][a] \in Deciding) => session[s].live /\ session[s].claimed
    BY DEF IInv, SessionInv, ReclaimInv, Settled, Up
  <2> QED  BY <2>1 DEF SessionsEndWithAnOutcome, IInv, Seated
<1> QED  BY <1>1, Invariance, PTL

\* Only a reclaim that had passed its check before the stop was appended turns a
\* stopped run into a completed or failed one: append_whip_terminal_once checks
\* the run and appends without holding it.
THEOREM StopsAreOverwrittenInFlight == Spec => StopIsOverwrittenOnlyInFlight
<1>1. IInv /\ [Next]_vars =>
        [\A s \in Sessions :
           run[s] = "stopped" /\ run'[s] \notin {"stopped", "deleted"} => stopInFlight[s]]_vars
  BY NextKeepsIInv DEF StopKept
<1> QED  BY <1>1, Invariance, PTL DEF StopIsOverwrittenOnlyInFlight, Spec

\* A worker thread is never left without its share of the media budget, nor its
\* run without protection from eviction, the detached threads included: supervise
\* and release_media_generation.
THEOREM WorkersKeepShares == Spec => []WorkersKeepTheirShare
<1>1. IInv => WorkersKeepTheirShare
  <2> SUFFICES ASSUME IInv, NEW s \in Sessions, pipe[s].running > 0
               PROVE  permit[s] = "session" /\ s \in protected
    BY DEF WorkersKeepTheirShare
  <2>1. start[s] = "started" /\ pipe[s].sup # "returned"
    BY DEF IInv, SessionInv, GenerationInv
  <2> QED  BY <2>1 DEF IInv, SessionInv, GenerationInv, Up
<1> QED  BY <1>1, Invariance, PTL

-----------------------------------------------------------------------------
(* The media budget, the threads and the slots, beside the invariant of the *)
(* sessions.                                                                *)

\* From the reservation of the threads to the insert the transaction owns the
\* permit; before that the bytes may be charged without one.
ShareInv(s) ==
  /\ start[s] \in {"idle", "bytes", "threadsFull"} => permit[s] = "none"
  /\ start[s] \in {"reserved", "created", "slotted"} => permit[s] = "start"
  /\ start[s] # "idle" => s \in DOMAIN load.need

ThreadInv(s) ==
  /\ pipe[s].running + pipe[s].exited <= Workers
  /\ pipe[s].sup = "off" => pipe[s].running = 0 /\ pipe[s].exited = 0

BudgetInv ==
  /\ used \in [Resources -> Nat]
  /\ \A r \in Resources :
       used[r] = Total(load.need, r, Charged(r)) /\ used[r] <= Limit[r]

AccountInv ==
  /\ IsLoad(load) /\ slots <= MaxSessions
  /\ \A s \in Sessions : ShareInv(s) /\ ThreadInv(s)
  /\ BudgetInv

\* Session s is charged for its envelope, to counter r.
Holds(s, r) == permit[s] # "none" \/ (r = "bytes" /\ start[s] \in {"bytes", "threadsFull"})

\* A step charges session s to a counter, gives its share back, or does neither.
ShareChange(s, r) ==
  \/ used'[r] = used[r] /\ (Holds(s, r)' <=> Holds(s, r))
  \/ /\ used'[r] = used[r] + load.need[s][r] /\ used'[r] <= Limit[r]
     /\ ~Holds(s, r) /\ Holds(s, r)'
  \/ used'[r] = used[r] - load.need[s][r] /\ Holds(s, r) /\ ~Holds(s, r)'

LEMMA LoadTypes ==
  ASSUME IsLoad(load)
  PROVE  /\ load.failures \in Nat /\ load.faults \in Nat
         /\ DOMAIN load.need \in SUBSET Sessions /\ IsFiniteSet(DOMAIN load.need)
         /\ \A s \in DOMAIN load.need : load.need[s] \in Envelopes
         /\ \A r \in Resources : Terms(DOMAIN load.need, load.need, r)
<1>1. PICK offers \in SUBSET Sessions :
        load \in [need: [offers -> Envelopes],
                  requests: SUBSET (offers \X Requests),
                  lapses: BOOLEAN, failures: Nat, faults: Nat]
  BY DEF IsLoad
<1>2. /\ load.failures \in Nat /\ load.faults \in Nat
      /\ DOMAIN load.need = offers /\ \A s \in offers : load.need[s] \in Envelopes
  BY <1>1
<1>3. IsFiniteSet(offers)  BY FS_Subset
<1>4. \A s \in offers : \A r \in Resources : load.need[s][r] \in Nat  BY <1>2 DEF Envelopes
<1> QED  BY <1>2, <1>3, <1>4 DEF Terms

\* Failures and faults happen; what was offered stays.
LEMMA LoadSteps ==
  ASSUME IsLoad(load), NEW s \in Sessions, StepOf(s)
  PROVE  IsLoad(load)' /\ load'.need = load.need
<1>1. \/ load' = load
      \/ load.failures > 0 /\ load' = [load EXCEPT !.failures = load.failures - 1]
      \/ load.faults > 0 /\ load' = [load EXCEPT !.faults = load.faults - 1]
  <2>1. CASE StartStep(s) \/ ReserveBytes(s)
    BY <2>1 DEF StartStep, ReserveBytes, ReserveThreads, GiveBytesBack, AppendCreated, TakeSlot,
                Insert, Launch, TombstoneCreated, AppendFails
  <2>2. CASE \E a \in Reclaimers : ReclaimStep(s, a)
    BY <2>2 DEF ReclaimStep, Claim, PollEnds, Decide, ReclaimAppend, Remove, AppendFails
  <2>3. CASE \E a \in Rest : RestBegin(s, a) \/ RestAppend(s, a) \/ RestClose(s, a)
    BY <2>3 DEF RestBegin, RestAppend, RestClose, AppendFails
  <2>4. CASE \/ PeerConnects(s) \/ PeerFails(s) \/ IngestEnds(s) \/ WorkerStops(s)
             \/ WorkerFaults(s) \/ SupervisorStep(s) \/ WatcherSees(s) \/ Terminate(s)
    BY <2>4 DEF PeerConnects, PeerFails, IngestEnds, WorkerStops, WorkerFaults, SupervisorStep,
                JoinWorker, AllJoined, JoinDeadline, WatcherSees, Terminate
  <2>5. CASE (\E h \in Handlers : CheckRun(s, h) \/ HandlerAppend(s, h)) \/ Lapse(s) \/ Refresh(s)
    BY <2>5 DEF CheckRun, HandlerAppend, Lapse, Refresh, AppendFails
  <2> QED  BY <2>1, <2>2, <2>3, <2>4, <2>5 DEF StepOf
<1>2. PICK offers \in SUBSET Sessions :
        load \in [need: [offers -> Envelopes],
                  requests: SUBSET (offers \X Requests),
                  lapses: BOOLEAN, failures: Nat, faults: Nat]
  BY DEF IsLoad
<1>3. /\ load.failures > 0 => load.failures - 1 \in Nat
      /\ load.faults > 0 => load.faults - 1 \in Nat
  BY <1>2
<1>4. /\ load' \in [need: [offers -> Envelopes],
                    requests: SUBSET (offers \X Requests),
                    lapses: BOOLEAN, failures: Nat, faults: Nat]
      /\ load'.need = load.need
  BY <1>1, <1>2, <1>3
<1> QED  BY <1>4 DEF IsLoad

\* The steps of the start transaction and of the supervisor move the share of
\* their session from nobody to the transaction, to the map, and back; the
\* others leave it where it is.
LEMMA ShareSteps ==
  ASSUME Types, NEW s \in Sessions, SessionInv(s), ShareInv(s), BudgetInv, IsLoad(load),
         load'.need = load.need, StepOf(s)
  PROVE  /\ ShareInv(s)' /\ used' = [r \in Resources |-> used'[r]]
         /\ \/ UNCHANGED <<start, used, permit>>
            \/ s \in DOMAIN load.need /\ \A r \in Resources : ShareChange(s, r)
<1>1. /\ used = [r \in Resources |-> used[r]] /\ \A r \in Resources : used[r] \in Nat
      /\ start \in [Sessions -> StartSteps] /\ permit \in [Sessions -> {"none", "start", "session"}]
      /\ Resources = {"bytes", "threads"}
  BY DEF BudgetInv, Types, Resources
<1>2. CASE UNCHANGED <<start, used, permit>>
  BY <1>1, <1>2 DEF ShareInv
<1>3. CASE ReserveBytes(s)
  BY <1>1, <1>3 DEF ReserveBytes, ShareInv, ShareChange, Holds, Fits
<1>4. CASE ReserveThreads(s)
  BY <1>1, <1>4 DEF ReserveThreads, ShareInv, ShareChange, Holds, Fits
<1>5. CASE GiveBytesBack(s)
  BY <1>1, <1>5 DEF GiveBytesBack, ShareInv, ShareChange, Holds
<1>6. CASE AppendCreated(s)
  BY <1>1, <1>6 DEF AppendCreated, DropPermit, ShareInv, ShareChange, Holds
<1>7. CASE TakeSlot(s)
  BY <1>1, <1>7 DEF TakeSlot, DropPermit, ShareInv, ShareChange, Holds
<1>8. CASE Insert(s)
  BY <1>1, <1>8 DEF Insert, ShareInv, ShareChange, Holds
<1>9. CASE Launch(s)
  BY <1>1, <1>9 DEF Launch, ShareInv, ShareChange, Holds
<1>10. CASE TombstoneCreated(s)
  BY <1>1, <1>10 DEF TombstoneCreated, ShareInv, ShareChange, Holds
<1>11. CASE AllJoined(s)
  <2>1. start[s] \in Up
    BY <1>11 DEF AllJoined, SessionInv, GenerationInv, Up
  <2> QED
    BY <1>1, <1>11, <2>1 DEF AllJoined, ReleaseGeneration, DropPermit, ShareInv, ShareChange, Holds, Up
<1>12. CASE \/ PeerConnects(s) \/ PeerFails(s) \/ IngestEnds(s) \/ WorkerStops(s)
            \/ WorkerFaults(s) \/ JoinWorker(s) \/ JoinDeadline(s) \/ WatcherSees(s) \/ Terminate(s)
  <2>1. UNCHANGED <<start, used, permit>>
    BY <1>12 DEF PeerConnects, PeerFails, IngestEnds, WorkerStops, WorkerFaults, JoinWorker,
                 JoinDeadline, WatcherSees, Terminate
  <2> QED  BY <1>2, <2>1
<1>13. CASE \E a \in Reclaimers : ReclaimStep(s, a)
  <2>1. UNCHANGED <<start, used, permit>>
    BY <1>13 DEF ReclaimStep, Claim, PollEnds, Decide, ReclaimAppend, Remove
  <2> QED  BY <1>2, <2>1
<1>14. CASE \E a \in Rest : RestBegin(s, a) \/ RestAppend(s, a) \/ RestClose(s, a)
  <2>1. UNCHANGED <<start, used, permit>>
    BY <1>14 DEF RestBegin, RestAppend, RestClose
  <2> QED  BY <1>2, <2>1
<1>15. CASE (\E h \in Handlers : CheckRun(s, h) \/ HandlerAppend(s, h)) \/ Lapse(s) \/ Refresh(s)
  <2>1. UNCHANGED <<start, used, permit>>
    BY <1>15 DEF CheckRun, HandlerAppend, Lapse, Refresh
  <2> QED  BY <1>2, <2>1
<1> QED
  BY <1>3, <1>4, <1>5, <1>6, <1>7, <1>8, <1>9, <1>10, <1>11, <1>12, <1>13, <1>14, <1>15
     DEF StepOf, StartStep, SupervisorStep

\* The counters stay the sums of what is charged.
LEMMA BudgetKept ==
  ASSUME AccountInv, NEW s \in Sessions, Only(s), load'.need = load.need,
         \A t \in Sessions : ShareInv(t),
         used' = [r \in Resources |-> used'[r]],
         \/ UNCHANGED <<start, used, permit>>
         \/ s \in DOMAIN load.need /\ \A r \in Resources : ShareChange(s, r)
  PROVE  BudgetInv'
<1>1. /\ used \in [Resources -> Nat] /\ IsLoad(load)
      /\ \A r \in Resources : used[r] = Total(load.need, r, Charged(r)) /\ used[r] <= Limit[r]
      /\ \A r \in Resources : Limit[r] \in Nat
  BY DEF AccountInv, BudgetInv, Envelopes
<1>2. \A r \in Resources : Terms(DOMAIN load.need, load.need, r)  BY <1>1, LoadTypes
<1>3. \A r \in Resources : Charged(r) \in SUBSET (DOMAIN load.need)
  BY DEF Charged, ShareInv
<1>4. ASSUME NEW r \in Resources
      PROVE  /\ used'[r] \in Nat /\ used'[r] <= Limit[r]
             /\ used'[r] = Total(load.need, r, Charged(r)')
  <2>1. /\ used[r] \in Nat /\ used[r] <= Limit[r] /\ used[r] = Total(load.need, r, Charged(r))
    BY <1>1
  <2>2. \A t \in Sessions : (t \in Charged(r) <=> Holds(t, r)) /\ (t \in Charged(r)' <=> Holds(t, r)')
    BY DEF Charged, Holds
  <2>3. Charged(r) \subseteq Sessions /\ Charged(r)' \subseteq Sessions  BY DEF Charged
  <2>4. \A t \in Sessions \ {s} : Holds(t, r)' <=> Holds(t, r)  BY DEF Only, Holds
  <2>5. CASE used'[r] = used[r] /\ (Holds(s, r)' <=> Holds(s, r))
    <3>1. Charged(r)' = Charged(r)  BY <2>2, <2>3, <2>4, <2>5
    <3>2. Total(load.need, r, Charged(r)') = Total(load.need, r, Charged(r))  BY <3>1, Zenon
    <3> QED  BY <2>1, <2>5, <3>2
  <2>6. CASE /\ used'[r] = used[r] + load.need[s][r] /\ used'[r] <= Limit[r]
             /\ ~Holds(s, r) /\ Holds(s, r)' /\ s \in DOMAIN load.need
    <3>1. s \in (DOMAIN load.need) \ Charged(r)  BY <2>2, <2>6
    <3>2. Charged(r)' = Charged(r) \cup {s}  BY <2>2, <2>3, <2>4, <2>6
    <3>3. Total(load.need, r, Charged(r) \cup {s}) = Total(load.need, r, Charged(r)) + load.need[s][r]
      BY <1>2, <1>3, <3>1, SumChanges
    <3>4. Total(load.need, r, Charged(r)') = Total(load.need, r, Charged(r) \cup {s})
      BY <3>2, Zenon
    <3>5. load.need[s][r] \in Nat  BY <1>2, <2>6 DEF Terms
    <3> QED  BY <2>1, <2>6, <3>3, <3>4, <3>5
  <2>7. CASE used'[r] = used[r] - load.need[s][r] /\ Holds(s, r) /\ ~Holds(s, r)' /\ s \in DOMAIN load.need
    <3>1. s \in Charged(r)  BY <2>2, <2>7
    <3>2. Charged(r)' = Charged(r) \ {s}  BY <2>2, <2>3, <2>4, <2>7
    <3>3. /\ load.need[s][r] <= Total(load.need, r, Charged(r))
          /\ Total(load.need, r, Charged(r) \ {s}) = Total(load.need, r, Charged(r)) - load.need[s][r]
      BY <1>2, <1>3, <3>1, SumChanges
    <3>4. Total(load.need, r, Charged(r)') = Total(load.need, r, Charged(r) \ {s})
      BY <3>2, Zenon
    <3>5. load.need[s][r] \in Nat  BY <1>2, <2>7 DEF Terms
    <3> QED  BY <1>1, <2>1, <2>7, <3>3, <3>4, <3>5
  <2>8. CASE UNCHANGED <<start, used, permit>>
    <3>1. Holds(s, r)' <=> Holds(s, r)  BY <2>8 DEF Holds
    <3> QED  BY <2>5, <2>8, <3>1
  <2> QED  BY <2>5, <2>6, <2>7, <2>8 DEF ShareChange
<1>5. used' \in [Resources -> Nat]  BY <1>4
<1>6. \A r \in Resources : Total(load.need, r, Charged(r)') = Total(load'.need, r, Charged(r)')
  BY Zenon
<1>7. \A r \in Resources : used'[r] = Total(load'.need, r, Charged(r)') /\ used'[r] <= Limit[r]
  BY <1>4, <1>6
<1> QED  BY <1>5, <1>7 DEF BudgetInv

\* A generation never has more threads, running or left to join, than it was
\* given at the launch.
LEMMA ThreadsStay ==
  ASSUME Types, NEW s \in Sessions, SessionInv(s), ThreadInv(s), StepOf(s)
  PROVE  ThreadInv(s)'
<1>1. session[s] \in SessionRecords /\ pipe[s] \in PipeRecords /\ pipe \in [Sessions -> PipeRecords]
  BY DEF Types
<1>2. ASSUME \/ UNCHANGED pipe
             \/ \E sess \in SessionRecords : CloseEffect(s, sess, pipe[s])
      PROVE  ThreadInv(s)'
  BY <1>1, <1>2, CloseChanges DEF ThreadInv
<1>3. CASE \/ PeerConnects(s) \/ PeerFails(s) \/ WatcherSees(s) \/ Terminate(s)
           \/ ReserveBytes(s) \/ ReserveThreads(s) \/ GiveBytesBack(s) \/ AppendCreated(s)
           \/ TakeSlot(s) \/ Insert(s) \/ TombstoneCreated(s)
  <2>1. UNCHANGED pipe \/ CloseEffect(s, session[s], pipe[s])
    BY <1>3 DEF PeerConnects, PeerFails, WatcherSees, Terminate, ReserveBytes, ReserveThreads,
                GiveBytesBack, AppendCreated, TakeSlot, Insert, TombstoneCreated
  <2> QED  BY <1>1, <1>2, <2>1
<1>4. CASE Launch(s)
  <2>1. PICK k \in 0..Workers :
          pipe' = [pipe EXCEPT ![s].running = k,
                               ![s].sup = IF k = Workers THEN "watching" ELSE "aborting",
                               ![s].stopping = @ \/ k < Workers]
    BY <1>4 DEF Launch
  <2>2. pipe[s].exited = 0  BY <1>4 DEF Launch, SessionInv, GenerationInv, ThreadInv
  <2>3. pipe'[s].running = k /\ pipe'[s].exited = 0 /\ pipe'[s].sup # "off"
    BY <1>1, <2>1, <2>2 DEF PipeRecords
  <2> QED  BY <2>3 DEF ThreadInv
<1>5. CASE IngestEnds(s) \/ WorkerStops(s) \/ WorkerFaults(s)
  <2>1. CASE pipe' = [pipe EXCEPT ![s].stopping = TRUE]
    BY <1>1, <2>1 DEF ThreadInv, PipeRecords
  <2>2. CASE pipe[s].running > 0 /\ pipe' = [pipe EXCEPT ![s] = ThreadGone(pipe[s])]
    <3>1. /\ ThreadGone(pipe[s]).running = pipe[s].running - 1
          /\ ThreadGone(pipe[s]).exited \in {pipe[s].exited, pipe[s].exited + 1}
          /\ ThreadGone(pipe[s]).sup = pipe[s].sup
      BY <1>1 DEF ThreadGone, PipeRecords
    <3>2. pipe'[s] = ThreadGone(pipe[s])  BY <1>1, <2>2
    <3>3. pipe[s].running \in Nat /\ pipe[s].exited \in Nat  BY <1>1 DEF PipeRecords
    <3> QED  BY <2>2, <3>1, <3>2, <3>3 DEF ThreadInv
  <2> QED  BY <1>5, <2>1, <2>2 DEF IngestEnds, WorkerStops, WorkerFaults
<1>6. CASE SupervisorStep(s)
  <2>1. PICK p \in PipeRecords :
          /\ pipe' = [pipe EXCEPT ![s] = p] \/ CloseEffect(s, session[s], p)
          /\ p.running = pipe[s].running /\ p.exited <= pipe[s].exited
          /\ p.sup # "off"
    <3>1. CASE JoinWorker(s)
      <4> DEFINE p == [pipe[s] EXCEPT !.exited = @ - 1]
      <4>1. pipe[s].exited - 1 \in Nat  BY <1>1, <3>1 DEF JoinWorker, PipeRecords
      <4>2. /\ p \in PipeRecords /\ p.running = pipe[s].running /\ p.sup = pipe[s].sup
            /\ p.exited <= pipe[s].exited
        BY <1>1, <4>1 DEF PipeRecords
      <4> QED  BY <3>1, <4>2 DEF JoinWorker
    <3>2. CASE AllJoined(s)
      <4> DEFINE p == [pipe[s] EXCEPT !.sup = "returned"]
      <4>1. /\ p \in PipeRecords /\ p.running = pipe[s].running /\ p.exited <= pipe[s].exited
            /\ p.sup # "off"
        BY <1>1 DEF PipeRecords
      <4>2. pipe' = [pipe EXCEPT ![s] = p] \/ CloseEffect(s, session[s], p)
        BY <1>1, <3>2 DEF AllJoined, PipeRecords
      <4> QED  BY <4>1, <4>2
    <3>3. CASE JoinDeadline(s)
      <4> DEFINE p == [pipe[s] EXCEPT !.sup = "detached"]
      <4>1. /\ p \in PipeRecords /\ p.running = pipe[s].running /\ p.exited <= pipe[s].exited
            /\ p.sup # "off"
        BY <1>1 DEF PipeRecords
      <4>2. pipe' = [pipe EXCEPT ![s] = p] \/ CloseEffect(s, session[s], p)
        BY <1>1, <3>3 DEF JoinDeadline, PipeRecords
      <4> QED  BY <4>1, <4>2
    <3> QED  BY <1>6, <3>1, <3>2, <3>3 DEF SupervisorStep
  <2>2. pipe'[s].running = p.running /\ pipe'[s].exited = p.exited /\ pipe'[s].sup = p.sup
    BY <1>1, <2>1, CloseChanges
  <2>3. pipe[s].running \in Nat /\ pipe[s].exited \in Nat /\ p.exited \in Nat  BY <1>1 DEF PipeRecords
  <2> QED  BY <2>1, <2>2, <2>3 DEF ThreadInv
<1>7. CASE \E a \in Reclaimers : ReclaimStep(s, a)
  <2>1. [session[s] EXCEPT !.live = FALSE] \in SessionRecords  BY <1>1 DEF SessionRecords
  <2>2. UNCHANGED pipe \/ CloseEffect(s, [session[s] EXCEPT !.live = FALSE], pipe[s])
    BY <1>7 DEF ReclaimStep, Claim, PollEnds, Decide, ReclaimAppend, Remove
  <2> QED  BY <1>2, <2>1, <2>2
<1>8. CASE \E a \in Rest : RestBegin(s, a) \/ RestAppend(s, a) \/ RestClose(s, a)
  <2>1. UNCHANGED pipe \/ pipe' = [pipe EXCEPT ![s] = [pipe[s] EXCEPT !.stopping = TRUE]]
    BY <1>8 DEF RestBegin, RestAppend, RestClose, CloseEffect
  <2> QED  BY <1>1, <2>1 DEF ThreadInv, PipeRecords
<1>9. CASE (\E h \in Handlers : CheckRun(s, h) \/ HandlerAppend(s, h)) \/ Lapse(s) \/ Refresh(s)
  BY <1>2, <1>9 DEF CheckRun, HandlerAppend, Lapse, Refresh
<1> QED
  BY <1>3, <1>4, <1>5, <1>6, <1>7, <1>8, <1>9 DEF StepOf, StartStep

\* The slots are taken below MAX_WEBRTC_SESSIONS only.
LEMMA SlotsBounded ==
  ASSUME slots \in Nat, slots <= MaxSessions, NEW s \in Sessions, StepOf(s)
  PROVE  slots' <= MaxSessions
<1>1. slots' \in {slots, slots - 1} \/ (slots < MaxSessions /\ slots' = slots + 1)
  <2>1. CASE StartStep(s) \/ ReserveBytes(s)
    BY <2>1 DEF StartStep, ReserveBytes, ReserveThreads, GiveBytesBack, AppendCreated, TakeSlot,
                Insert, Launch, TombstoneCreated
  <2>2. CASE \E a \in Reclaimers : ReclaimStep(s, a)
    BY <2>2 DEF ReclaimStep, Claim, PollEnds, Decide, ReclaimAppend, Remove
  <2>3. CASE \E a \in Rest : RestBegin(s, a) \/ RestAppend(s, a) \/ RestClose(s, a)
    BY <2>3 DEF RestBegin, RestAppend, RestClose
  <2>4. CASE \/ PeerConnects(s) \/ PeerFails(s) \/ IngestEnds(s) \/ WorkerStops(s)
             \/ WorkerFaults(s) \/ SupervisorStep(s) \/ WatcherSees(s) \/ Terminate(s)
    BY <2>4 DEF PeerConnects, PeerFails, IngestEnds, WorkerStops, WorkerFaults, SupervisorStep,
                JoinWorker, AllJoined, JoinDeadline, WatcherSees, Terminate
  <2>5. CASE (\E h \in Handlers : CheckRun(s, h) \/ HandlerAppend(s, h)) \/ Lapse(s) \/ Refresh(s)
    BY <2>5 DEF CheckRun, HandlerAppend, Lapse, Refresh
  <2> QED  BY <2>1, <2>2, <2>3, <2>4, <2>5 DEF StepOf
<1> QED  BY <1>1

LEMMA SlotsAreNat ==
  ASSUME IInv
  PROVE  slots \in Nat
<1>1. Seated \subseteq Sessions  BY DEF Seated
<1> QED  BY <1>1, FS_Subset, FS_CardinalityType DEF IInv

LEMMA NextKeepsAccounts ==
  ASSUME IInv, AccountInv, Next
  PROVE  AccountInv'
<1>1. PICK s \in Sessions : StepOf(s)  BY DEF Next, StepOf
<1>2. Types /\ SessionInv(s) /\ IsLoad(load) /\ BudgetInv /\ slots <= MaxSessions
      /\ \A t \in Sessions : ShareInv(t) /\ ThreadInv(t)
  BY DEF IInv, AccountInv
<1>3. Only(s)  BY <1>1, <1>2, EveryStep DEF Steps
<1>4. IsLoad(load)' /\ load'.need = load.need  BY <1>1, <1>2, LoadSteps
<1>5. /\ ShareInv(s)' /\ used' = [r \in Resources |-> used'[r]]
      /\ \/ UNCHANGED <<start, used, permit>>
         \/ s \in DOMAIN load.need /\ \A r \in Resources : ShareChange(s, r)
  BY <1>1, <1>2, <1>4, ShareSteps
<1>6. BudgetInv'  BY <1>2, <1>3, <1>4, <1>5, BudgetKept
<1>7. ThreadInv(s)'  BY <1>1, <1>2, ThreadsStay
<1>8. ASSUME NEW t \in Sessions PROVE ShareInv(t)' /\ ThreadInv(t)'
  <2>1. CASE t = s  BY <1>5, <1>7, <2>1
  <2>2. CASE t # s
    <3>1. start'[t] = start[t] /\ permit'[t] = permit[t] /\ pipe'[t] = pipe[t]
      BY <1>3, <2>2 DEF Only
    <3> QED  BY <1>2, <1>4, <3>1 DEF ShareInv, ThreadInv
  <2> QED  BY <2>1, <2>2
<1>9. slots' <= MaxSessions  BY <1>1, <1>2, SlotsAreNat, SlotsBounded
<1> QED  BY <1>4, <1>6, <1>8, <1>9 DEF AccountInv

LEMMA StutterKeepsAccounts ==
  ASSUME AccountInv, UNCHANGED vars
  PROVE  AccountInv'
<1>1. \A r \in Resources : Charged(r)' = Charged(r)  BY DEF vars, Charged
<1>2. BudgetInv'
  <2>1. BudgetInv /\ used' = used /\ load' = load  BY DEF AccountInv, vars
  <2>2. \A r \in Resources : Total(load'.need, r, Charged(r)') = Total(load.need, r, Charged(r))
    BY <1>1, <2>1, Zenon
  <2> QED  BY <2>1, <2>2 DEF BudgetInv
<1>3. \A s \in Sessions : ShareInv(s)' /\ ThreadInv(s)'
  BY DEF AccountInv, vars, ShareInv, ThreadInv
<1> QED  BY <1>2, <1>3 DEF AccountInv, vars, IsLoad

LEMMA InitAccounts ==
  ASSUME Init
  PROVE  AccountInv
<1>1. IsLoad(load)  BY DEF Init
<1>2. \A s \in Sessions : ShareInv(s) /\ ThreadInv(s)
  BY DEF Init, NewPipe, ShareInv, ThreadInv
<1>3. \A r \in Resources : Charged(r) = {}  BY DEF Init, Charged
<1>4. \A r \in Resources : Total(load.need, r, {}) = 0
  <2>1. \A r \in Resources : Terms(DOMAIN load.need, load.need, r)  BY <1>1, LoadTypes
  <2> QED  BY <2>1, OneTerm
<1>5. \A r \in Resources : Total(load.need, r, Charged(r)) = 0  BY <1>3, <1>4
<1>6. \A r \in Resources : Limit[r] \in Nat  BY DEF Envelopes
<1> QED  BY <1>1, <1>2, <1>5, <1>6 DEF Init, AccountInv, BudgetInv

\* The shares of the media budget add up, thread by thread and resource by
\* resource: the inductive part of the two properties below.
THEOREM AccountInvariance == Spec => []AccountInv
<1>1. IInv /\ AccountInv /\ [Next]_vars => AccountInv'
  BY NextKeepsAccounts, StutterKeepsAccounts
<1> QED  BY <1>1, InitAccounts, Invariance, PTL DEF Spec

\* The state of the sessions, of their threads and of the counters keeps its
\* types: the slots never pass MAX_WEBRTC_SESSIONS, and a generation has never
\* more threads than spawn_pipeline created.
THEOREM WhipTypes == Spec => []TypeOK
<1>1. IInv /\ AccountInv => TypeOK
  <2> SUFFICES ASSUME IInv, AccountInv PROVE TypeOK  OBVIOUS
  <2>1. Types /\ slots \in Nat /\ slots <= MaxSessions /\ used \in [Resources -> Nat] /\ IsLoad(load)
    BY SlotsAreNat DEF IInv, AccountInv, BudgetInv
  <2>2. pipe \in [Sessions -> [sup: {"off", "watching", "aborting", "returned", "detached"},
                               running: 0..Workers, exited: 0..Workers, stopping: BOOLEAN]]
    <3> SUFFICES ASSUME NEW s \in Sessions
                 PROVE  pipe[s] \in [sup: {"off", "watching", "aborting", "returned", "detached"},
                                     running: 0..Workers, exited: 0..Workers, stopping: BOOLEAN]
      BY <2>1 DEF Types
    <3>1. pipe[s] \in PipeRecords  BY <2>1 DEF Types
    <3>2. pipe[s].running + pipe[s].exited <= Workers  BY DEF AccountInv, ThreadInv
    <3>3. pipe[s].running \in 0..Workers /\ pipe[s].exited \in 0..Workers
      BY <3>1, <3>2 DEF PipeRecords
    <3> QED  BY <3>1, <3>3 DEF PipeRecords
  <2>3. {Fault, Complete, Stop, Delete} = Fault..Delete  BY DEF Fault, Complete, Stop, Delete
  <2>4. session \in [Sessions -> [live: BOOLEAN, mark: Fault..Delete, claimed: BOOLEAN, latch: BOOLEAN,
                                  peer: {"new", "connected"} \cup PeerEnded, handshaking: BOOLEAN]]
    BY <2>1, <2>3 DEF Types, SessionRecords
  <2>5. slots \in 0..MaxSessions  BY <2>1
  <2> QED  BY <2>1, <2>2, <2>4, <2>5 DEF TypeOK, Types, Tasks
<1> QED  BY <1>1, Invariance, AccountInvariance, PTL

\* The two media counters are the sums of the envelopes that are held at this
\* moment, within their limits, and no thread works without its share: what
\* try_reserve, the permit's Drop and release_media_generation do, in whatever
\* order the start transaction and the supervisors run.
THEOREM WorkersAreAccounted == Spec => []WorkersAreAccountedFor
<1>1. AccountInv =>
        \A r \in Resources : /\ used[r] = MapThenSumSet(LAMBDA s : load.need[s][r], Charged(r))
                             /\ used[r] <= Limit[r]
  <2> SUFFICES ASSUME AccountInv, NEW r \in Resources
               PROVE  /\ used[r] = MapThenSumSet(LAMBDA s : load.need[s][r], Charged(r))
                      /\ used[r] <= Limit[r]
    OBVIOUS
  <2>1. used[r] = Total(load.need, r, Charged(r)) /\ used[r] <= Limit[r]
    BY DEF AccountInv, BudgetInv
  <2>2. MapThenSumSet(LAMBDA s : load.need[s][r], Charged(r)) = Total(load.need, r, Charged(r))
    BY SumDef DEF Total
  <2> QED  BY <2>1, <2>2
<1>2. WorkersKeepTheirShare /\ AccountInv => WorkersAreAccountedFor
  BY <1>1 DEF WorkersAreAccountedFor
<1> QED  BY <1>2, WorkersKeepShares, AccountInvariance, PTL
=============================================================================
