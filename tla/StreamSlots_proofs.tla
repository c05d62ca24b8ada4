------------------------- MODULE StreamSlots_proofs --------------------------
(***************************************************************************)
(* The active stream limit for every number of runs, principals, requests  *)
(* and events: reservations are exactly the live guards, the index names   *)
(* exactly the visible runs, and what exceeds the limit is accounted for.  *)
(***************************************************************************)
EXTENDS StreamSlots, FiniteSetTheorems, SequenceTheorems, TLAPS

Commands == [run : Runs, kind : EventKinds \cup {"run_created"}, creator : Creators \cup {None}]
Structural == {"run_created", "run_deleted"}
Holding == {"send", "wait", "drop"}

\* The run_created command of creator d has not been answered.
Queued(d) == \E i \in 1..Len(queue) : queue[i].kind = "run_created" /\ queue[i].creator = d

Uncreated(d) == id[d] = None \/ ~run[id[d]].created

\* Creators whose run may still start counting: Coming, and those that
\* dropped their guard while their append was queued.
Due(p) == {d \in Creators : /\ owner[d] = p
                            /\ pc[d] \in Holding \/ (pc[d] = "done" /\ Queued(d))
                            /\ Uncreated(d)}

\* Creators that stopped waiting for their append: only Cancel does that.
Orphans(p) == {d \in Creators : owner[d] = p /\ pc[d] \in {"drop", "done"} /\ Queued(d)}

\* Event commands accepted and not yet applied.
QueuedEvents == {i \in 1..Len(queue) : queue[i].kind # "run_created"}

-----------------------------------------------------------------------------
(* The inductive invariant *)

Shape ==
  /\ run \in [Runs -> RunStates]
  /\ index \in [Principals -> SUBSET Runs]
  /\ reserved \in [Principals -> Nat]
  /\ entry \in [Principals -> Creators \cup {None}]
  /\ queue \in Seq(Commands)
  /\ wpc \in {"recv", "insert", "reply"}
  /\ handlers \subseteq [run : Runs, kind : EventKinds, nr : 0..MaxEvents]
  /\ pc \in [Creators -> CreatorPCs]
  /\ owner \in [Creators -> Principals]
  /\ id \in [Creators -> Runs \cup {None}]
  /\ seen \in [Creators -> Nat]
  /\ todo \in [Creators -> SUBSET Runs]
  /\ events \in 0..MaxEvents
  /\ cancelled \in [Principals -> 0..MaxCancels]
  /\ revived \in [Principals -> Nat]

\* Run ids are taken once, and only a creator's run exists.
IdsInv ==
  /\ \A c \in Creators : pc[c] \in {"idle", "count", "send"} => id[c] = None
  /\ \A c, d \in Creators : id[c] = id[d] /\ id[c] # None => c = d
  /\ \A r \in Runs : IF run[r].created THEN run[r].by \in Principals /\ \E d \in Creators : id[d] = r
                                       ELSE run[r] = NoRun

\* What the queue holds and where the writer is in its head.
QueueInv ==
  /\ \A i \in 1..Len(queue) :
       IF queue[i].kind = "run_created"
       THEN /\ queue[i].creator \in Creators /\ queue[i].run = id[queue[i].creator]
            /\ pc[queue[i].creator] \in {"wait", "drop", "done"}
            /\ run[queue[i].run].created => i = 1 /\ wpc = "reply"
       ELSE queue[i].creator = None /\ run[queue[i].run].created
  /\ \A i, j \in 1..Len(queue) :
       queue[i].kind = "run_created" /\ queue[j].kind = "run_created"
         /\ queue[i].creator = queue[j].creator => i = j
  /\ wpc # "recv" => queue # <<>> /\ Cmd.kind \in Structural
  /\ wpc = "insert" => ~run[Cmd.run].deleted
  /\ wpc = "reply" /\ Cmd.kind = "run_deleted" => run[Cmd.run].deleted
  /\ \A h \in handlers : run[h.run].created /\ h.nr < events

\* Between its two writes the writer is ahead in the index.
IndexInv ==
  \A p \in Principals :
    index[p] = {r \in Runs :
      \/ /\ Visible(run[r]) /\ run[r].by = p
         /\ ~(wpc = "insert" /\ Cmd.kind = "run_deleted" /\ Cmd.run = r)
      \/ wpc = "insert" /\ Cmd.kind = "run_created" /\ Cmd.run = r /\ owner[Cmd.creator] = p}

\* A counter holds its principal's entry, and nobody else does.
EntryInv == \A c \in Creators : pc[c] = "count" <=> entry[owner[c]] = c

\* The bounds of the counters.
BoundsInv ==
  /\ \A c \in Creators :
       seen[c] + Cardinality(todo[c]) <= Cardinality(Creators) + Cardinality(Runs)
  /\ IsFiniteSet(handlers)
  /\ \A p \in Principals :
       revived[p] + Cardinality(handlers) + Cardinality(QueuedEvents) <= events

\* What may start counting is within the limit, but for cancellations and
\* revivals.
LimitInv(p) ==
  /\ Cardinality(Orphans(p)) <= cancelled[p]
  /\ Cardinality(ActiveRuns(p)) + Cardinality(Due(p)) <= Limit + cancelled[p] + revived[p]

\* What a counter has passed over is in its count, or accounted for likewise.
CountInv(c) ==
  pc[c] = "count" =>
    Cardinality(ActiveRuns(owner[c]) \ todo[c]) + Cardinality(Due(owner[c]))
      <= seen[c] + cancelled[owner[c]] + revived[owner[c]]

AccountInv == (\A p \in Principals : LimitInv(p)) /\ (\A c \in Creators : CountInv(c))

IInv ==
  Shape /\ IdsInv /\ QueueInv /\ IndexInv /\ EntryInv /\ ReservationsAreGuards /\ BoundsInv /\ AccountInv

USE LimitAssumption, DetachedAssumption, RunsAssumption, NoneAssumption, BoundsAssumption

-----------------------------------------------------------------------------
(* Counting *)

\* Subsets of a finite set.
LEMMA CountSubset ==
  ASSUME NEW U, IsFiniteSet(U), NEW S \in SUBSET U
  PROVE  /\ IsFiniteSet(S) /\ Cardinality(S) \in Nat /\ Cardinality(S) <= Cardinality(U)
         /\ \A T \in SUBSET S : Cardinality(T) \in Nat /\ Cardinality(T) <= Cardinality(S)
<1>1. IsFiniteSet(S) /\ Cardinality(S) <= Cardinality(U)  BY FS_Subset
<1>2. Cardinality(S) \in Nat  BY <1>1, FS_CardinalityType
<1>3. \A T \in SUBSET S : IsFiniteSet(T) /\ Cardinality(T) <= Cardinality(S)
  BY <1>1, FS_Subset
<1>4. \A T \in SUBSET S : Cardinality(T) \in Nat  BY <1>3, FS_CardinalityType
<1> QED  BY <1>1, <1>2, <1>3, <1>4

\* A finite set with one element more.
LEMMA CountMore ==
  ASSUME NEW S, IsFiniteSet(S), NEW x, x \notin S
  PROVE  /\ Cardinality(S) \in Nat
         /\ Cardinality(S \cup {x}) = Cardinality(S) + 1
<1> QED  BY FS_AddElement, FS_CardinalityType

LEMMA CountOneMore ==
  ASSUME NEW S, IsFiniteSet(S), NEW x
  PROVE  Cardinality(S \cup {x}) <= Cardinality(S) + 1
<1>1. CASE x \in S
  <2>1. S \cup {x} = S  BY <1>1
  <2>2. Cardinality(S) \in Nat  BY FS_CardinalityType
  <2>3. Cardinality(S \cup {x}) = Cardinality(S)  BY <2>1
  <2> QED  BY <2>2, <2>3
<1>2. CASE x \notin S  BY <1>2, CountMore
<1> QED  BY <1>1, <1>2

\* A finite set with one element less.
LEMMA CountLess ==
  ASSUME NEW S, IsFiniteSet(S), NEW x \in S
  PROVE  /\ Cardinality(S) \in Nat /\ Cardinality(S) > 0
         /\ Cardinality(S \ {x}) = Cardinality(S) - 1
<1>1. /\ IsFiniteSet(S \ {x}) /\ Cardinality(S \ {x}) = Cardinality(S) - 1
  BY FS_RemoveElement
<1>2. Cardinality(S) \in Nat /\ Cardinality(S \ {x}) \in Nat  BY <1>1, FS_CardinalityType
<1> QED  BY <1>1, <1>2

\* Moving every element of a set of numbers down by one keeps their number.
LEMMA ShiftCount ==
  ASSUME NEW n \in Nat, NEW S \in SUBSET (2..n+1), NEW T,
         T = {i \in 1..n : i + 1 \in S}
  PROVE  IsFiniteSet(S) /\ Cardinality(T) = Cardinality(S)
<1> DEFINE f == [i \in S |-> i - 1]
<1>1. IsFiniteSet(S)
  <2>1. IsFiniteSet(2..n+1)  BY FS_Interval
  <2> QED  BY <2>1, FS_Subset
<1>2. f \in Bijection(S, T)
  <2>1. f \in [S -> T]  OBVIOUS
  <2>2. \A a, b \in S : f[a] = f[b] => a = b  OBVIOUS
  <2>3. \A t \in T : \E s \in S : f[s] = t  OBVIOUS
  <2> HIDE DEF f
  <2>4. DOMAIN f = S  BY <2>1
  <2>5. IsInjective(f)  BY <2>2, <2>4 DEF IsInjective
  <2> QED  BY <2>1, <2>3, <2>5 DEF Bijection, Injection, Surjection
<1> QED  BY <1>1, <1>2, FS_Bijection DEF ExistsBijection

-----------------------------------------------------------------------------
(* The command queue *)

LEMMA QueuedEventsFinite ==
  ASSUME Shape
  PROVE  IsFiniteSet(QueuedEvents) /\ Cardinality(QueuedEvents) \in Nat
<1>1. Len(queue) \in Nat  BY LenProperties DEF Shape
<1>2. IsFiniteSet(1..Len(queue))  BY <1>1, FS_Interval
<1>3. QueuedEvents \in SUBSET (1..Len(queue))  BY DEF QueuedEvents
<1> QED  BY <1>2, <1>3, CountSubset

\* A command is accepted at the end.
LEMMA Enqueued ==
  ASSUME Shape, NEW c \in Commands, queue' = Append(queue, c)
  PROVE  /\ queue' \in Seq(Commands)
         /\ Len(queue) \in Nat /\ Len(queue') = Len(queue) + 1
         /\ \A i \in 1..Len(queue) : queue'[i] = queue[i] /\ queue[i] \in Commands
         /\ queue'[Len(queue) + 1] = c
         /\ queue # <<>> => Cmd' = Cmd
         /\ Cardinality(QueuedEvents') =
              Cardinality(QueuedEvents) + (IF c.kind = "run_created" THEN 0 ELSE 1)
<1>1. /\ queue' \in Seq(Commands)
      /\ Len(queue) \in Nat /\ Len(queue') = Len(queue) + 1
      /\ \A i \in 1..Len(queue) : queue'[i] = queue[i] /\ queue[i] \in Commands
      /\ queue'[Len(queue) + 1] = c
      /\ queue # <<>> => Cmd' = Cmd
  BY AppendProperties, LenProperties, ElementOfSeq, HeadTailAppend DEF Shape, Cmd
<1>2. Cardinality(QueuedEvents') =
        Cardinality(QueuedEvents) + (IF c.kind = "run_created" THEN 0 ELSE 1)
  <2>1. CASE c.kind = "run_created"
    <3>1. QueuedEvents' = QueuedEvents  BY <1>1, <2>1 DEF QueuedEvents
    <3> QED  BY <2>1, <3>1, QueuedEventsFinite
  <2>2. CASE c.kind # "run_created"
    <3>1. QueuedEvents' = QueuedEvents \cup {Len(queue) + 1} /\ Len(queue) + 1 \notin QueuedEvents
      BY <1>1, <2>2 DEF QueuedEvents
    <3> QED  BY <2>2, <3>1, QueuedEventsFinite, CountMore
  <2> QED  BY <2>1, <2>2
<1> QED  BY <1>1, <1>2

\* The command at the head is removed.
LEMMA Dequeued ==
  ASSUME Shape, queue # <<>>, queue' = Tail(queue)
  PROVE  /\ queue' \in Seq(Commands)
         /\ Len(queue') \in Nat /\ Len(queue) = Len(queue') + 1
         /\ \A i \in 1..Len(queue') : queue'[i] = queue[i + 1] /\ i + 1 \in 1..Len(queue)
         /\ Cmd = queue[1] /\ Cmd \in Commands
         /\ Cardinality(QueuedEvents') =
              Cardinality(QueuedEvents) - (IF Cmd.kind = "run_created" THEN 0 ELSE 1)
<1>1. /\ queue' \in Seq(Commands)
      /\ Len(queue') \in Nat /\ Len(queue) = Len(queue') + 1
      /\ \A i \in 1..Len(queue') : queue'[i] = queue[i + 1] /\ i + 1 \in 1..Len(queue)
      /\ Cmd = queue[1] /\ Cmd \in Commands
  BY HeadTailProperties, LenProperties DEF Shape, Cmd
<1>2. Cardinality(QueuedEvents') =
        Cardinality(QueuedEvents) - (IF Cmd.kind = "run_created" THEN 0 ELSE 1)
  <2> DEFINE S == QueuedEvents \ {1}
  <2>1. S \in SUBSET (2..Len(queue') + 1) /\ QueuedEvents' = {i \in 1..Len(queue') : i + 1 \in S}
    BY <1>1 DEF QueuedEvents
  <2>2. 1 \in QueuedEvents <=> Cmd.kind # "run_created"  BY <1>1 DEF QueuedEvents
  <2> HIDE DEF S
  <2>3. Cardinality(QueuedEvents') = Cardinality(S)  BY <1>1, <2>1, ShiftCount
  <2>4. 1 \in QueuedEvents => Cardinality(S) = Cardinality(QueuedEvents) - 1
    BY QueuedEventsFinite, CountLess DEF S
  <2>5. 1 \notin QueuedEvents => S = QueuedEvents  BY DEF S
  <2> QED  BY <2>2, <2>3, <2>4, <2>5, QueuedEventsFinite
<1> QED  BY <1>1, <1>2

-----------------------------------------------------------------------------
(* Accounting *)

LEMMA FiniteParts ==
  /\ \A S \in SUBSET Creators : IsFiniteSet(S) /\ Cardinality(S) \in Nat
  /\ \A S \in SUBSET Creators : \A T \in SUBSET S : Cardinality(T) <= Cardinality(S)
  /\ \A S \in SUBSET Runs : IsFiniteSet(S) /\ Cardinality(S) \in Nat
  /\ \A S \in SUBSET Runs : \A T \in SUBSET S : Cardinality(T) <= Cardinality(S)
  /\ Cardinality(Creators) \in Nat /\ Cardinality(Runs) \in Nat
<1>1. \A S \in SUBSET Creators : IsFiniteSet(S) /\ Cardinality(S) \in Nat  BY CountSubset
<1>2. \A S \in SUBSET Runs : IsFiniteSet(S) /\ Cardinality(S) \in Nat  BY CountSubset
<1>3. \A S \in SUBSET Creators : \A T \in SUBSET S : Cardinality(T) <= Cardinality(S)
  BY <1>1, FS_Subset
<1>4. \A S \in SUBSET Runs : \A T \in SUBSET S : Cardinality(T) <= Cardinality(S)
  BY <1>2, FS_Subset
<1> QED  BY <1>1, <1>2, <1>3, <1>4

\* Both facts survive whatever only takes runs and creators away.
LEMMA LimitKept ==
  ASSUME Shape, NEW p \in Principals, LimitInv(p),
         ActiveRuns(p)' \subseteq ActiveRuns(p), Due(p)' \subseteq Due(p),
         Orphans(p)' \subseteq Orphans(p),
         cancelled'[p] \in Nat, cancelled'[p] >= cancelled[p],
         revived'[p] \in Nat, revived'[p] >= revived[p]
  PROVE  LimitInv(p)'
<1>1. ActiveRuns(p) \in SUBSET Runs /\ Due(p) \in SUBSET Creators /\ Orphans(p) \in SUBSET Creators
  BY DEF ActiveRuns, Due, Orphans
<1>2. /\ ActiveRuns(p)' \in SUBSET ActiveRuns(p) /\ Due(p)' \in SUBSET Due(p)
      /\ Orphans(p)' \in SUBSET Orphans(p)
  OBVIOUS
<1>3. /\ Cardinality(ActiveRuns(p)) \in Nat /\ Cardinality(Due(p)) \in Nat /\ Cardinality(Orphans(p)) \in Nat
      /\ Cardinality(ActiveRuns(p)') <= Cardinality(ActiveRuns(p))
      /\ Cardinality(Due(p)') <= Cardinality(Due(p))
      /\ Cardinality(Orphans(p)') <= Cardinality(Orphans(p))
      /\ Cardinality(ActiveRuns(p)') \in Nat /\ Cardinality(Due(p)') \in Nat /\ Cardinality(Orphans(p)') \in Nat
  BY <1>1, <1>2, FiniteParts
<1>4. cancelled[p] \in Nat /\ revived[p] \in Nat  BY DEF Shape
<1> QED  BY <1>3, <1>4 DEF LimitInv

LEMMA CountKept ==
  ASSUME Shape, NEW c \in Creators, CountInv(c), pc'[c] = "count" => pc[c] = "count", owner' = owner,
         ActiveRuns(owner[c])' \ todo'[c] \subseteq ActiveRuns(owner[c]) \ todo[c],
         Due(owner[c])' \subseteq Due(owner[c]),
         seen'[c] = seen[c],
         cancelled'[owner[c]] \in Nat, cancelled'[owner[c]] >= cancelled[owner[c]],
         revived'[owner[c]] \in Nat, revived'[owner[c]] >= revived[owner[c]]
  PROVE  CountInv(c)'
<1> SUFFICES ASSUME pc'[c] = "count"
             PROVE  Cardinality(ActiveRuns(owner[c])' \ todo'[c]) + Cardinality(Due(owner[c])')
                      <= seen'[c] + cancelled'[owner[c]] + revived'[owner[c]]
  BY DEF CountInv
<1> DEFINE A == ActiveRuns(owner[c]) \ todo[c]
           B == ActiveRuns(owner[c])' \ todo'[c]
<1>1. A \in SUBSET Runs /\ B \in SUBSET A /\ Due(owner[c]) \in SUBSET Creators
      /\ Due(owner[c])' \in SUBSET Due(owner[c])
  BY DEF ActiveRuns, Due
<1>2. Cardinality(A) + Cardinality(Due(owner[c])) <= seen[c] + cancelled[owner[c]] + revived[owner[c]]
  BY DEF CountInv
<1>3. seen[c] \in Nat /\ cancelled[owner[c]] \in Nat /\ revived[owner[c]] \in Nat  BY DEF Shape
<1> HIDE DEF A, B
<1>4. /\ Cardinality(A) \in Nat /\ Cardinality(B) \in Nat /\ Cardinality(B) <= Cardinality(A)
      /\ Cardinality(Due(owner[c])) \in Nat /\ Cardinality(Due(owner[c])') \in Nat
      /\ Cardinality(Due(owner[c])') <= Cardinality(Due(owner[c]))
  BY <1>1, FiniteParts
<1>5. Cardinality(B) + Cardinality(Due(owner[c])')
        <= seen'[c] + cancelled'[owner[c]] + revived'[owner[c]]
  BY <1>2, <1>3, <1>4
<1> QED  BY <1>5 DEF B

LEMMA AccountKept ==
  ASSUME Shape, AccountInv, owner' = owner, cancelled' = cancelled, revived' = revived,
         \A p \in Principals : /\ ActiveRuns(p)' \subseteq ActiveRuns(p) /\ Due(p)' \subseteq Due(p)
                               /\ Orphans(p)' \subseteq Orphans(p),
         \A c \in Creators : pc'[c] = "count" => pc[c] = "count",
         todo' = todo, seen' = seen
  PROVE  AccountInv'
<1>1. \A p \in Principals : cancelled[p] \in Nat /\ revived[p] \in Nat
                             /\ cancelled[p] >= cancelled[p] /\ revived[p] >= revived[p]
  BY DEF Shape
<1>2. \A p \in Principals : LimitInv(p)'  BY <1>1, LimitKept DEF AccountInv
<1>3. ASSUME NEW c \in Creators  PROVE CountInv(c)'
  <2>1. owner[c] \in Principals /\ CountInv(c)  BY DEF Shape, AccountInv
  <2> QED  BY <1>1, <2>1, CountKept
<1> QED  BY <1>2, <1>3 DEF AccountInv

LEMMA InitInv == Init => IInv
<1> SUFFICES ASSUME Init PROVE IInv  OBVIOUS
<1> USE DEF Init
<1>0. queue = <<>> /\ Len(queue) = 0  OBVIOUS
<1>1. Shape
  <2>1. queue \in Seq(Commands)  BY EmptySeq
  <2>2. NoRun \in RunStates  BY DEF RunStates, NoRun
  <2>3. events \in 0..MaxEvents /\ 0 \in 0..MaxCancels  OBVIOUS
  <2>4. cancelled \in [Principals -> 0..MaxCancels]  BY <2>3
  <2> QED  BY <2>1, <2>2, <2>3, <2>4 DEF Shape, CreatorPCs
<1>2. IdsInv  BY DEF IdsInv, NoRun
<1>3. QueueInv  BY <1>0 DEF QueueInv
<1>4. IndexInv  BY DEF IndexInv, Visible, NoRun
<1>5. EntryInv  BY DEF EntryInv
<1>6. ReservationsAreGuards
  <2>1. \A p \in Principals : Guards(p) = {}  BY DEF Guards
  <2> QED  BY <2>1, FS_EmptySet DEF ReservationsAreGuards
<1>7. BoundsInv
  <2>1. QueuedEvents = {}  BY <1>0 DEF QueuedEvents
  <2> QED  BY <2>1, FS_EmptySet, FiniteParts DEF BoundsInv
<1>8. AccountInv
  <2>1. \A p \in Principals : ActiveRuns(p) = {} /\ Due(p) = {} /\ Orphans(p) = {}
    BY DEF ActiveRuns, Due, Orphans, Active, Visible, NoRun, Holding
  <2>2. \A c \in Creators : pc[c] # "count"  OBVIOUS
  <2>3. \A p \in Principals : cancelled[p] = 0 /\ revived[p] = 0  OBVIOUS
  <2>4. Cardinality({}) = 0  BY FS_EmptySet
  <2>5. \A p \in Principals : /\ Cardinality(ActiveRuns(p)) = 0 /\ Cardinality(Due(p)) = 0
                              /\ Cardinality(Orphans(p)) = 0
    BY <2>1, <2>4
  <2> HIDE DEF Init
  <2> QED  BY <2>2, <2>3, <2>5 DEF AccountInv, LimitInv, CountInv
<1> QED  BY <1>1, <1>2, <1>3, <1>4, <1>5, <1>6, <1>7, <1>8 DEF IInv

-----------------------------------------------------------------------------
(* The steps of a creator *)

\* Steps that touch neither the registry nor the queue.
LEMMA GuardStepParts ==
  ASSUME IInv, NEW c \in Creators,
         UNCHANGED <<run, index, queue, wpc, handlers, id, owner>>, events' = events,
         NEW l \in CreatorPCs, Goto(c, l),
         l \in {"idle", "count", "send"} => id[c] = None,
         pc[c] \in {"wait", "drop", "done"} => l \in {"wait", "drop", "done"}
  PROVE  /\ IdsInv' /\ QueueInv' /\ IndexInv'
         /\ \A p : ActiveRuns(p)' = ActiveRuns(p)
         /\ \A d : (Queued(d)' <=> Queued(d)) /\ (Uncreated(d)' <=> Uncreated(d))
         /\ QueuedEvents' = QueuedEvents
<1> USE DEF IInv, Goto
<1>1. IdsInv'  BY DEF IdsInv, Shape
<1>2. QueueInv'  BY DEF QueueInv, Shape, Cmd
<1>3. IndexInv'  BY DEF IndexInv, Cmd
<1>4. \A p : ActiveRuns(p)' = ActiveRuns(p)  BY DEF ActiveRuns, BeingDeleted, Cmd
<1>5. \A d : (Queued(d)' <=> Queued(d)) /\ (Uncreated(d)' <=> Uncreated(d))
  BY DEF Queued, Uncreated
<1>6. QueuedEvents' = QueuedEvents  BY DEF QueuedEvents
<1> QED  BY <1>1, <1>2, <1>3, <1>4, <1>5, <1>6

\* Where Guards, Due and Orphans do not grow when one creator moves.
LEMMA Places ==
  ASSUME IInv, NEW c \in Creators, owner' = owner, NEW l, Goto(c, l),
         \A d : (Queued(d)' <=> Queued(d)) /\ (Uncreated(d)' <=> Uncreated(d)),
         NEW p
  PROVE  /\ (l \in Holding <=> pc[c] \in Holding) => Guards(p)' = Guards(p)
         /\ l \notin Holding \cup {"done"} => Due(p)' \subseteq Due(p)
         /\ pc[c] \in Holding => Due(p)' \subseteq Due(p)
         /\ l \notin Holding /\ ~Queued(c) => Due(p)' \subseteq Due(p)
         /\ (l \in {"drop", "done"} => pc[c] \in {"drop", "done"}) => Orphans(p)' \subseteq Orphans(p)
         /\ ~Queued(c) => Orphans(p)' \subseteq Orphans(p)
         /\ p # owner[c] => Guards(p)' = Guards(p) /\ Due(p)' = Due(p) /\ Orphans(p)' = Orphans(p)
         /\ pc[c] \notin {"wait", "drop", "done"} => ~Queued(c)
<1> USE DEF IInv, Shape, Goto
<1>1. \A d \in Creators : pc'[d] = IF d = c THEN l ELSE pc[d]  OBVIOUS
<1>2. pc[c] \notin {"wait", "drop", "done"} => ~Queued(c)  BY DEF Queued, QueueInv
<1> HIDE DEF IInv, Shape, Goto
<1> QED  BY <1>1, <1>2 DEF Guards, Due, Orphans, Holding

LEMMA BeginReserveStep ==
  ASSUME IInv, NEW c \in Creators, BeginReserve(c)
  PROVE  IInv'
<1> USE DEF BeginReserve, registry, history
<1> DEFINE q == owner[c]
<1>1. /\ q \in Principals /\ pc[c] = "idle" /\ entry[q] = None /\ Goto(c, "count")
      /\ owner' = owner
      /\ entry' = [entry EXCEPT ![q] = c] /\ seen' = [seen EXCEPT ![c] = reserved[q]]
      /\ todo' = [todo EXCEPT ![c] = index[q]]
  BY DEF IInv, Shape
<1>2. Shape'
  BY <1>1 DEF IInv, Shape, Goto, CreatorPCs
<1>3. id[c] = None  BY <1>1 DEF IInv, IdsInv
<1>4. /\ IdsInv' /\ QueueInv' /\ IndexInv'
      /\ \A p : ActiveRuns(p)' = ActiveRuns(p)
      /\ \A d : (Queued(d)' <=> Queued(d)) /\ (Uncreated(d)' <=> Uncreated(d))
      /\ QueuedEvents' = QueuedEvents
  BY <1>1, <1>3, GuardStepParts DEF CreatorPCs
<1>5. \A p : Guards(p)' = Guards(p) /\ Due(p)' \subseteq Due(p) /\ Orphans(p)' \subseteq Orphans(p)
  BY <1>1, <1>4, Places DEF Holding
<1>6. EntryInv'  BY <1>1, <1>2 DEF IInv, EntryInv, Shape, Goto
<1>7. ReservationsAreGuards'  BY <1>5 DEF IInv, ReservationsAreGuards
<1>8. reserved[q] = Cardinality(Guards(q)) /\ Guards(q) \in SUBSET Creators /\ index[q] \in SUBSET Runs
  BY <1>1 DEF IInv, ReservationsAreGuards, Guards, Shape
<1>9. /\ reserved[q] <= Cardinality(Creators) /\ Cardinality(index[q]) <= Cardinality(Runs)
      /\ reserved[q] \in Nat /\ Cardinality(index[q]) \in Nat
  BY <1>8, FiniteParts
<1>10. BoundsInv'
  <2>1. \A d \in Creators : seen'[d] + Cardinality(todo'[d]) <= Cardinality(Creators) + Cardinality(Runs)
    BY <1>1, <1>9, FiniteParts DEF IInv, BoundsInv, Shape
  <2> QED  BY <2>1, <1>4 DEF IInv, BoundsInv
<1>11. ActiveRuns(q) \subseteq index[q]
  BY <1>1 DEF IInv, IndexInv, ActiveRuns, Active, BeingDeleted
<1>12. Cardinality(Due(q)) <= reserved[q] + cancelled[q]
  <2>1. Due(q) \subseteq Guards(q) \cup Orphans(q)  BY DEF Due, Guards, Orphans, Holding
  <2>2. Guards(q) \in SUBSET Creators /\ Orphans(q) \in SUBSET Creators /\ Due(q) \in SUBSET Creators
    BY DEF Guards, Orphans, Due
  <2>3. Cardinality(Orphans(q)) <= cancelled[q] /\ cancelled[q] \in Nat
    BY <1>1 DEF IInv, AccountInv, LimitInv, Shape
  <2>4. Cardinality(Guards(q) \cup Orphans(q)) <= Cardinality(Guards(q)) + Cardinality(Orphans(q))
    <3>1. IsFiniteSet(Guards(q)) /\ IsFiniteSet(Orphans(q))  BY <2>2, FiniteParts
    <3>2. Cardinality(Guards(q) \cup Orphans(q)) =
            Cardinality(Guards(q)) + Cardinality(Orphans(q)) - Cardinality(Guards(q) \cap Orphans(q))
      BY <3>1, FS_Union
    <3>3. Cardinality(Guards(q) \cap Orphans(q)) \in Nat /\ Cardinality(Guards(q)) \in Nat
          /\ Cardinality(Orphans(q)) \in Nat
      BY <2>2, FiniteParts
    <3> QED  BY <3>2, <3>3
  <2>5. Guards(q) \cup Orphans(q) \in SUBSET Creators  BY <2>2
  <2>6. Cardinality(Due(q)) <= Cardinality(Guards(q) \cup Orphans(q))  BY <2>1, <2>5, FiniteParts
  <2>7. Cardinality(Guards(q) \cup Orphans(q)) \in Nat /\ Cardinality(Due(q)) \in Nat
        /\ Cardinality(Guards(q)) \in Nat /\ Cardinality(Orphans(q)) \in Nat
    BY <2>2, <2>5, FiniteParts
  <2> QED  BY <2>3, <2>4, <2>6, <2>7, <1>8
<1>13. AccountInv'
  <2>0. \A p \in Principals : cancelled[p] \in Nat /\ revived[p] \in Nat
                               /\ cancelled[p] >= cancelled[p] /\ revived[p] >= revived[p]
    BY DEF IInv, Shape
  <2>1. \A p \in Principals : LimitInv(p)'
    BY <1>4, <1>5, <2>0, LimitKept DEF IInv, AccountInv
  <2>2. ASSUME NEW d \in Creators  PROVE CountInv(d)'
    <3>1. owner[d] \in Principals /\ CountInv(d)  BY DEF IInv, Shape, AccountInv
    <3>2. CASE d = c
      <4>1. ActiveRuns(q)' \ todo'[c] = {} /\ seen'[c] = reserved[q]
        BY <1>1, <1>4, <1>11 DEF IInv, Shape
      <4>2. Due(q)' \in SUBSET Due(q) /\ Due(q) \in SUBSET Creators  BY <1>5 DEF Due
      <4>3. Cardinality(Due(q)') <= Cardinality(Due(q)) /\ Cardinality(Due(q)) \in Nat
            /\ Cardinality(Due(q)') \in Nat
        BY <4>2, FiniteParts
      <4>4. cancelled[q] \in Nat /\ revived[q] \in Nat  BY <1>1 DEF IInv, Shape
      <4>5. Cardinality(ActiveRuns(q)' \ todo'[c]) = 0  BY <4>1, FS_EmptySet
      <4> QED  BY <3>2, <4>1, <4>3, <4>4, <4>5, <1>12, <1>9 DEF CountInv
    <3>3. CASE d # c
      <4>1. pc'[d] = pc[d] /\ todo'[d] = todo[d] /\ seen'[d] = seen[d]
        BY <3>3 DEF IInv, Shape, Goto
      <4> QED  BY <3>1, <4>1, <1>4, <1>5, <2>0, CountKept DEF IInv
    <3> QED  BY <3>2, <3>3
  <2> QED  BY <2>1, <2>2 DEF AccountInv
<1> QED  BY <1>2, <1>4, <1>6, <1>7, <1>10, <1>13 DEF IInv

LEMMA CountRunStep ==
  ASSUME IInv, NEW c \in Creators, CountRun(c)
  PROVE  IInv'
<1> USE DEF CountRun, registry, history
<1> DEFINE q == owner[c]
<1>1. PICK r \in todo[c] :
        /\ todo' = [todo EXCEPT ![c] = todo[c] \ {r}]
        /\ seen' = [seen EXCEPT ![c] = IF Active(run[r], q) THEN seen[c] + 1 ELSE seen[c]]
  OBVIOUS
<1>2. /\ q \in Principals /\ pc[c] = "count" /\ r \in Runs /\ owner' = owner /\ pc' = pc
      /\ Goto(c, "count") /\ seen[c] \in Nat /\ todo[c] \in SUBSET Runs
      /\ todo'[c] = todo[c] \ {r}
      /\ seen'[c] = IF Active(run[r], q) THEN seen[c] + 1 ELSE seen[c]
      /\ \A d \in Creators : d # c => todo'[d] = todo[d] /\ seen'[d] = seen[d]
  BY <1>1 DEF IInv, Shape, Goto
<1>3. Shape'
  BY <1>1, <1>2 DEF IInv, Shape
<1>4. id[c] = None  BY <1>2 DEF IInv, IdsInv
<1>5. /\ IdsInv' /\ QueueInv' /\ IndexInv'
      /\ \A p : ActiveRuns(p)' = ActiveRuns(p)
      /\ \A d : (Queued(d)' <=> Queued(d)) /\ (Uncreated(d)' <=> Uncreated(d))
      /\ QueuedEvents' = QueuedEvents
  BY <1>2, <1>4, GuardStepParts DEF CreatorPCs
<1>6. \A p : Guards(p)' = Guards(p) /\ Due(p)' \subseteq Due(p) /\ Orphans(p)' \subseteq Orphans(p)
  BY <1>2, <1>5, Places DEF Holding
<1>7. EntryInv'  BY DEF IInv, EntryInv
<1>8. ReservationsAreGuards'  BY <1>6 DEF IInv, ReservationsAreGuards
<1>9. Cardinality(todo'[c]) = Cardinality(todo[c]) - 1 /\ Cardinality(todo[c]) \in Nat
  BY <1>2, FiniteParts, CountLess
<1>10. BoundsInv'
  <2>1. ASSUME NEW d \in Creators
        PROVE  seen'[d] + Cardinality(todo'[d]) <= Cardinality(Creators) + Cardinality(Runs)
    BY <1>2, <1>9, FiniteParts DEF IInv, BoundsInv
  <2> QED  BY <2>1, <1>5 DEF IInv, BoundsInv
<1>11. AccountInv'
  <2>1. \A p \in Principals : cancelled[p] \in Nat /\ revived[p] \in Nat
                               /\ cancelled[p] >= cancelled[p] /\ revived[p] >= revived[p]
    BY DEF IInv, Shape
  <2>2. \A p \in Principals : LimitInv(p)'
    BY <1>5, <1>6, <2>1, LimitKept DEF IInv, AccountInv
  <2>3. ASSUME NEW d \in Creators  PROVE CountInv(d)'
    <3>1. owner[d] \in Principals /\ CountInv(d)  BY DEF IInv, Shape, AccountInv
    <3>2. CASE d = c
      <4> DEFINE A == ActiveRuns(q) \ todo[c]
                 B == ActiveRuns(q) \ todo'[c]
      <4>1. A \in SUBSET Runs /\ IsFiniteSet(A) /\ Cardinality(A) \in Nat
        <5>1. A \in SUBSET Runs  BY DEF ActiveRuns
        <5> QED  BY <5>1, FiniteParts
      <4>2. r \in ActiveRuns(q) => Cardinality(B) = Cardinality(A) + 1 /\ seen'[c] = seen[c] + 1
        <5> SUFFICES ASSUME r \in ActiveRuns(q)
                     PROVE  Cardinality(B) = Cardinality(A) + 1 /\ seen'[c] = seen[c] + 1
          OBVIOUS
        <5>1. B = A \cup {r} /\ r \notin A  BY <1>2
        <5>2. Active(run[r], q)  BY DEF ActiveRuns
        <5> HIDE DEF A, B
        <5> QED  BY <4>1, <5>1, <5>2, <1>2, CountMore
      <4>3. r \notin ActiveRuns(q) => B = A /\ seen'[c] >= seen[c]  BY <1>2
      <4>4. Cardinality(B) <= Cardinality(A) + (seen'[c] - seen[c]) /\ Cardinality(B) \in Nat
            /\ seen'[c] \in Nat
        <5>1. B \in SUBSET Runs  BY DEF ActiveRuns
        <5>2. Cardinality(B) \in Nat  BY <5>1, FiniteParts
        <5> HIDE DEF A, B
        <5> QED  BY <4>1, <4>2, <4>3, <5>2, <1>2
      <4>5. Due(q)' \in SUBSET Due(q) /\ Due(q) \in SUBSET Creators  BY <1>6 DEF Due
      <4>6. Cardinality(Due(q)') <= Cardinality(Due(q)) /\ Cardinality(Due(q)) \in Nat
            /\ Cardinality(Due(q)') \in Nat
        BY <4>5, FiniteParts
      <4>7. ActiveRuns(q)' \ todo'[c] = B  BY <1>5
      <4>8. Cardinality(A) + Cardinality(Due(q)) <= seen[c] + cancelled[q] + revived[q]
        BY <3>1, <3>2, <1>2 DEF CountInv
      <4> HIDE DEF A, B
      <4>9. Cardinality(B) + Cardinality(Due(q)') <= seen'[c] + cancelled[q] + revived[q]
        BY <4>1, <4>4, <4>6, <4>8, <1>2, <2>1
      <4> QED  BY <3>2, <4>7, <4>9, <1>2 DEF CountInv
    <3>3. CASE d # c
      <4>1. todo'[d] = todo[d] /\ seen'[d] = seen[d]  BY <1>2, <3>3
      <4> QED  BY <3>1, <4>1, <1>2, <1>5, <1>6, <2>1, CountKept DEF IInv
    <3> QED  BY <3>2, <3>3
  <2> QED  BY <2>2, <2>3 DEF AccountInv
<1> QED  BY <1>3, <1>5, <1>7, <1>8, <1>10, <1>11 DEF IInv

LEMMA RefuseStep ==
  ASSUME IInv, NEW c \in Creators, Refuse(c)
  PROVE  IInv'
<1> USE DEF Refuse, registry, history
<1>1. /\ pc[c] = "count" /\ entry[owner[c]] = c /\ owner' = owner
      /\ \A d \in Creators : pc'[d] = IF d = c THEN "done" ELSE pc[d]
  BY DEF IInv, Shape, Goto, EntryInv
<1>2. Shape'
  BY DEF IInv, Shape, Goto, CreatorPCs
<1>3. /\ IdsInv' /\ QueueInv' /\ IndexInv'
      /\ \A p : ActiveRuns(p)' = ActiveRuns(p)
      /\ \A d : (Queued(d)' <=> Queued(d)) /\ (Uncreated(d)' <=> Uncreated(d))
      /\ QueuedEvents' = QueuedEvents
  BY <1>1, GuardStepParts DEF CreatorPCs
<1>4. \A p : Guards(p)' = Guards(p) /\ Due(p)' \subseteq Due(p) /\ Orphans(p)' \subseteq Orphans(p)
  BY <1>1, <1>3, Places DEF Holding
<1>5. EntryInv'
  BY <1>1 DEF IInv, EntryInv, Shape
<1>6. ReservationsAreGuards'  BY <1>4 DEF IInv, ReservationsAreGuards
<1>7. BoundsInv'  BY <1>3 DEF IInv, BoundsInv
<1>8. AccountInv'  BY <1>1, <1>3, <1>4, AccountKept DEF IInv
<1> QED  BY <1>2, <1>3, <1>5, <1>6, <1>7, <1>8 DEF IInv

LEMMA SendRefusedStep ==
  ASSUME IInv, NEW c \in Creators, SendRefused(c)
  PROVE  IInv'
<1> USE DEF SendRefused, registry, history
<1>1. /\ pc[c] = "send" /\ owner' = owner
      /\ \A d \in Creators : pc'[d] = IF d = c THEN "drop" ELSE pc[d]
  BY DEF IInv, Shape, Goto
<1>2. Shape'
  BY DEF IInv, Shape, Goto, CreatorPCs
<1>3. /\ IdsInv' /\ QueueInv' /\ IndexInv'
      /\ \A p : ActiveRuns(p)' = ActiveRuns(p)
      /\ \A d : (Queued(d)' <=> Queued(d)) /\ (Uncreated(d)' <=> Uncreated(d))
      /\ QueuedEvents' = QueuedEvents
  BY <1>1, GuardStepParts DEF CreatorPCs
<1>4. \A p : Guards(p)' = Guards(p) /\ Due(p)' \subseteq Due(p) /\ Orphans(p)' \subseteq Orphans(p)
  BY <1>1, <1>3, Places DEF Holding
<1>5. EntryInv'
  BY <1>1 DEF IInv, EntryInv, Shape
<1>6. ReservationsAreGuards'  BY <1>4 DEF IInv, ReservationsAreGuards
<1>7. BoundsInv'  BY <1>3 DEF IInv, BoundsInv
<1>8. AccountInv'  BY <1>1, <1>3, <1>4, AccountKept DEF IInv
<1> QED  BY <1>2, <1>3, <1>5, <1>6, <1>7, <1>8 DEF IInv

LEMMA ReserveStep ==
  ASSUME IInv, NEW c \in Creators, Reserve(c)
  PROVE  IInv'
<1> USE DEF Reserve, registry, history
<1> DEFINE q == owner[c]
<1>1. /\ pc[c] = "count" /\ entry[q] = c /\ owner' = owner /\ q \in Principals
      /\ todo[c] = {} /\ seen[c] < Limit /\ seen[c] \in Nat
      /\ \A d \in Creators : pc'[d] = IF d = c THEN "send" ELSE pc[d]
      /\ reserved'[q] = reserved[q] + 1
      /\ \A p \in Principals : p # q => reserved'[p] = reserved[p]
  BY DEF IInv, Shape, Goto, EntryInv
<1>2. Shape'
  BY DEF IInv, Shape, Goto, CreatorPCs
<1>3. /\ IdsInv' /\ QueueInv' /\ IndexInv'
      /\ \A p : ActiveRuns(p)' = ActiveRuns(p)
      /\ \A d : (Queued(d)' <=> Queued(d)) /\ (Uncreated(d)' <=> Uncreated(d))
      /\ QueuedEvents' = QueuedEvents
  <2>1. id[c] = None  BY <1>1 DEF IInv, IdsInv
  <2> QED  BY <1>1, <2>1, GuardStepParts DEF CreatorPCs
<1>4. /\ \A p : p # q => Guards(p)' = Guards(p) /\ Due(p)' \subseteq Due(p)
      /\ \A p : Orphans(p)' \subseteq Orphans(p)
  BY <1>1, <1>3, Places DEF Holding
<1>5. EntryInv'
  BY <1>1 DEF IInv, EntryInv, Shape
<1>6. ReservationsAreGuards'
  <2>1. Guards(q)' = Guards(q) \cup {c} /\ c \notin Guards(q) /\ Guards(q) \in SUBSET Creators
    BY <1>1 DEF Guards
  <2>2. Cardinality(Guards(q)') = Cardinality(Guards(q)) + 1  BY <2>1, FiniteParts, CountMore
  <2> QED  BY <1>1, <1>4, <2>2 DEF IInv, ReservationsAreGuards
<1>7. BoundsInv'  BY <1>3 DEF IInv, BoundsInv
<1>8. AccountInv'
  <2>1. \A p \in Principals : cancelled[p] \in Nat /\ revived[p] \in Nat
                               /\ cancelled[p] >= cancelled[p] /\ revived[p] >= revived[p]
    BY DEF IInv, Shape
  <2>2. LimitInv(q)'
    <3>1. Due(q)' \subseteq Due(q) \cup {c} /\ Due(q) \in SUBSET Creators
      BY <1>1, <1>3 DEF Due
    <3>2. Cardinality(Due(q)') <= Cardinality(Due(q)) + 1
      <4>1. Due(q) \cup {c} \in SUBSET Creators /\ IsFiniteSet(Due(q))  BY <3>1, FiniteParts
      <4>2. Cardinality(Due(q)') <= Cardinality(Due(q) \cup {c})  BY <3>1, <4>1, FiniteParts
      <4>3. Cardinality(Due(q) \cup {c}) <= Cardinality(Due(q)) + 1
        BY <3>1, <4>1, FiniteParts, CountOneMore
      <4>4. /\ Cardinality(Due(q)) \in Nat /\ Cardinality(Due(q) \cup {c}) \in Nat
            /\ Cardinality(Due(q)') \in Nat
        BY <3>1, <4>1, FiniteParts
      <4> QED  BY <4>2, <4>3, <4>4
    <3>3. Cardinality(ActiveRuns(q)) + Cardinality(Due(q)) <= seen[c] + cancelled[q] + revived[q]
      <4>1. ActiveRuns(q) \ todo[c] = ActiveRuns(q)  BY <1>1
      <4> QED  BY <1>1, <4>1 DEF IInv, AccountInv, CountInv
    <3>4. Cardinality(Orphans(q)') <= cancelled[q]
      <4>1. Orphans(q) \in SUBSET Creators /\ Orphans(q)' \in SUBSET Orphans(q)  BY <1>4 DEF Orphans
      <4>2. Cardinality(Orphans(q)') <= Cardinality(Orphans(q))  BY <4>1, FiniteParts
      <4>3. Cardinality(Orphans(q)') \in Nat /\ Cardinality(Orphans(q)) \in Nat  BY <4>1, FiniteParts
      <4>4. Cardinality(Orphans(q)) <= cancelled[q]  BY <1>1 DEF IInv, AccountInv, LimitInv
      <4> QED  BY <1>1, <2>1, <4>2, <4>3, <4>4
    <3>5. /\ Cardinality(ActiveRuns(q)) \in Nat /\ Cardinality(Due(q)) \in Nat
          /\ Cardinality(Due(q)') \in Nat
      <4>1. ActiveRuns(q) \in SUBSET Runs /\ Due(q)' \in SUBSET Creators  BY <1>1, <3>1 DEF ActiveRuns
      <4> QED  BY <3>1, <4>1, FiniteParts
    <3>6. Cardinality(ActiveRuns(q)) + Cardinality(Due(q)') <= Limit + cancelled[q] + revived[q]
      BY <1>1, <2>1, <3>2, <3>3, <3>5
    <3> QED  BY <1>3, <3>4, <3>6 DEF LimitInv
  <2>3. \A p \in Principals : p # q => LimitInv(p)'
    BY <1>3, <1>4, <2>1, LimitKept DEF IInv, AccountInv
  <2>4. ASSUME NEW d \in Creators  PROVE CountInv(d)'
    <3>1. CASE pc'[d] = "count"
      <4>1. owner[d] \in Principals /\ owner[d] # q /\ pc[d] = "count"
        BY <1>1, <3>1 DEF IInv, EntryInv, Shape
      <4> QED  BY <4>1, <1>3, <1>4, <2>1, CountKept DEF IInv, AccountInv
    <3>2. CASE pc'[d] # "count"  BY <3>2 DEF CountInv
    <3> QED  BY <3>1, <3>2
  <2> QED  BY <2>2, <2>3, <2>4 DEF AccountInv
<1> QED  BY <1>2, <1>3, <1>5, <1>6, <1>7, <1>8 DEF IInv

LEMMA CancelStep ==
  ASSUME IInv, NEW c \in Creators, Cancel(c)
  PROVE  IInv'
<1> USE DEF Cancel, registry
<1> DEFINE q == owner[c]
<1>1. /\ pc[c] = "wait" /\ owner' = owner /\ q \in Principals /\ Goto(c, "drop")
      /\ \A d \in Creators : pc'[d] = IF d = c THEN "drop" ELSE pc[d]
      /\ cancelled'[q] = cancelled[q] + 1 /\ revived' = revived
      /\ \A p \in Principals : p # q => cancelled'[p] = cancelled[p]
  BY DEF IInv, Shape, Goto
<1>2. Shape'
  BY DEF IInv, Shape, Goto, CreatorPCs
<1>3. /\ IdsInv' /\ QueueInv' /\ IndexInv'
      /\ \A p : ActiveRuns(p)' = ActiveRuns(p)
      /\ \A d : (Queued(d)' <=> Queued(d)) /\ (Uncreated(d)' <=> Uncreated(d))
      /\ QueuedEvents' = QueuedEvents
  BY <1>1, GuardStepParts DEF CreatorPCs
<1>4. /\ \A p : Guards(p)' = Guards(p) /\ Due(p)' \subseteq Due(p)
      /\ \A p : p # q => Orphans(p)' \subseteq Orphans(p)
  BY <1>1, <1>3, Places DEF Holding
<1>5. EntryInv'
  BY <1>1 DEF IInv, EntryInv, Shape
<1>6. ReservationsAreGuards'  BY <1>4 DEF IInv, ReservationsAreGuards
<1>7. BoundsInv'  BY <1>1, <1>3 DEF IInv, BoundsInv
<1>8. AccountInv'
  <2>1. \A p \in Principals : /\ cancelled[p] \in Nat /\ revived[p] \in Nat
                               /\ cancelled'[p] \in Nat /\ cancelled'[p] >= cancelled[p]
                               /\ revived'[p] \in Nat /\ revived'[p] >= revived[p]
    BY <1>1 DEF IInv, Shape
  <2>2. LimitInv(q)'
    <3>1. Orphans(q)' \subseteq Orphans(q) \cup {c} /\ Orphans(q) \in SUBSET Creators
      BY <1>1, <1>3 DEF Orphans
    <3>2. Cardinality(Orphans(q)') <= Cardinality(Orphans(q)) + 1
      <4>1. Orphans(q) \cup {c} \in SUBSET Creators /\ IsFiniteSet(Orphans(q))  BY <3>1, FiniteParts
      <4>2. Cardinality(Orphans(q)') <= Cardinality(Orphans(q) \cup {c})  BY <3>1, <4>1, FiniteParts
      <4>3. Cardinality(Orphans(q) \cup {c}) <= Cardinality(Orphans(q)) + 1
        BY <3>1, <4>1, FiniteParts, CountOneMore
      <4>4. /\ Cardinality(Orphans(q)) \in Nat /\ Cardinality(Orphans(q) \cup {c}) \in Nat
            /\ Cardinality(Orphans(q)') \in Nat
        BY <3>1, <4>1, FiniteParts
      <4> QED  BY <4>2, <4>3, <4>4
    <3>3. Due(q) \in SUBSET Creators /\ Due(q)' \in SUBSET Due(q) /\ ActiveRuns(q) \in SUBSET Runs
      BY <1>4 DEF Due, ActiveRuns
    <3>4. /\ Cardinality(Due(q)') <= Cardinality(Due(q)) /\ Cardinality(Due(q)) \in Nat
          /\ Cardinality(Due(q)') \in Nat /\ Cardinality(ActiveRuns(q)) \in Nat
          /\ Cardinality(Orphans(q)) \in Nat /\ Cardinality(Orphans(q)') \in Nat
      <4>1. Orphans(q)' \in SUBSET Creators  BY <3>1
      <4> QED  BY <3>1, <3>3, <4>1, FiniteParts
    <3>5. /\ Cardinality(Orphans(q)) <= cancelled[q]
          /\ Cardinality(ActiveRuns(q)) + Cardinality(Due(q)) <= Limit + cancelled[q] + revived[q]
      BY <1>1 DEF IInv, AccountInv, LimitInv
    <3>6. /\ Cardinality(Orphans(q)') <= cancelled'[q]
          /\ Cardinality(ActiveRuns(q)) + Cardinality(Due(q)') <= Limit + cancelled'[q] + revived'[q]
      BY <1>1, <2>1, <3>2, <3>4, <3>5
    <3> QED  BY <1>3, <3>6 DEF LimitInv
  <2>3. \A p \in Principals : p # q => LimitInv(p)'
    BY <1>3, <1>4, <2>1, LimitKept DEF IInv, AccountInv
  <2>4. ASSUME NEW d \in Creators  PROVE CountInv(d)'
    <3>1. owner[d] \in Principals /\ CountInv(d) /\ (pc'[d] = "count" => pc[d] = "count")
      BY <1>1 DEF IInv, Shape, AccountInv
    <3> QED  BY <3>1, <1>1, <1>3, <1>4, <2>1, CountKept DEF IInv
  <2> QED  BY <2>2, <2>3, <2>4 DEF AccountInv
<1> QED  BY <1>2, <1>3, <1>5, <1>6, <1>7, <1>8 DEF IInv

LEMMA DropGuardStep ==
  ASSUME IInv, NEW c \in Creators, DropGuard(c)
  PROVE  IInv'
<1> USE DEF DropGuard, registry, history
<1> DEFINE q == owner[c]
<1>1. /\ pc[c] = "drop" /\ owner' = owner /\ q \in Principals
      /\ \A d \in Creators : pc'[d] = IF d = c THEN "done" ELSE pc[d]
      /\ reserved'[q] = IF reserved[q] <= 1 THEN 0 ELSE reserved[q] - 1
      /\ \A p \in Principals : p # q => reserved'[p] = reserved[p]
  BY DEF IInv, Shape, Goto
<1>2. Shape'
  BY DEF IInv, Shape, Goto, CreatorPCs
<1>3. /\ IdsInv' /\ QueueInv' /\ IndexInv'
      /\ \A p : ActiveRuns(p)' = ActiveRuns(p)
      /\ \A d : (Queued(d)' <=> Queued(d)) /\ (Uncreated(d)' <=> Uncreated(d))
      /\ QueuedEvents' = QueuedEvents
  BY <1>1, GuardStepParts DEF CreatorPCs
<1>4. /\ \A p : p # q => Guards(p)' = Guards(p)
      /\ \A p : Due(p)' \subseteq Due(p) /\ Orphans(p)' \subseteq Orphans(p)
  BY <1>1, <1>3, Places DEF Holding
<1>5. EntryInv'
  BY <1>1 DEF IInv, EntryInv, Shape
<1>6. ReservationsAreGuards'
  <2>1. Guards(q)' = Guards(q) \ {c} /\ c \in Guards(q) /\ Guards(q) \in SUBSET Creators
    BY <1>1 DEF Guards
  <2>2. /\ Cardinality(Guards(q)) \in Nat /\ Cardinality(Guards(q)) > 0
        /\ Cardinality(Guards(q)') = Cardinality(Guards(q)) - 1
    BY <2>1, FiniteParts, CountLess
  <2>3. reserved[q] = Cardinality(Guards(q))  BY <1>1 DEF IInv, ReservationsAreGuards
  <2>4. reserved'[q] = Cardinality(Guards(q)')  BY <1>1, <2>2, <2>3
  <2> QED  BY <1>1, <1>4, <2>4 DEF IInv, ReservationsAreGuards
<1>7. BoundsInv'  BY <1>3 DEF IInv, BoundsInv
<1>8. AccountInv'  BY <1>1, <1>3, <1>4, AccountKept DEF IInv
<1> QED  BY <1>2, <1>3, <1>5, <1>6, <1>7, <1>8 DEF IInv

\* Some run id is still untaken: every creator takes at most one.
LEMMA FreshRun ==
  ASSUME IInv, NEW c \in Creators, pc[c] = "send"
  PROVE  \E x \in Runs : x \notin {id[d] : d \in Creators}
<1> SUFFICES ASSUME Runs \subseteq {id[d] : d \in Creators}  PROVE FALSE  OBVIOUS
<1> DEFINE S == Creators \ {c}
           T == {id[d] : d \in S}
           f == [d \in S |-> id[d]]
<1>1. id[c] = None  BY DEF IInv, IdsInv
<1>2. Runs \subseteq T  BY <1>1
<1>3. f \in Surjection(S, T)  BY DEF Surjection
<1>4. IsFiniteSet(S) /\ Cardinality(S) = Cardinality(Creators) - 1  BY FiniteParts, CountLess
<1> HIDE DEF S, T, f
<1>5. IsFiniteSet(T) /\ Cardinality(T) <= Cardinality(S)  BY <1>3, <1>4, FS_Surjection
<1>6. Cardinality(Runs) <= Cardinality(T) /\ Cardinality(T) \in Nat
  BY <1>2, <1>5, FS_Subset, FS_CardinalityType
<1> QED  BY <1>4, <1>5, <1>6, FiniteParts

LEMMA SendCreateStep ==
  ASSUME IInv, NEW c \in Creators, SendCreate(c)
  PROVE  IInv'
<1> USE DEF SendCreate, registry, history
<1> DEFINE r == CHOOSE x \in Runs : x \notin {id[d] : d \in Creators}
           cmd == [run |-> r, kind |-> "run_created", creator |-> c]
<1>1. /\ r \in Runs /\ \A d \in Creators : id[d] # r
  BY FreshRun
<1>2. /\ pc[c] = "send" /\ owner' = owner /\ queue' = Append(queue, cmd) /\ cmd \in Commands
      /\ id[c] = None
      /\ \A d \in Creators : pc'[d] = IF d = c THEN "wait" ELSE pc[d]
      /\ \A d \in Creators : id'[d] = IF d = c THEN r ELSE id[d]
      /\ id' \in [Creators -> Runs \cup {None}]
  BY <1>1 DEF IInv, Shape, Goto, IdsInv, Commands
<1>3. ~run[r].created  BY <1>1 DEF IInv, IdsInv
<1> HIDE DEF r
<1>4. /\ queue' \in Seq(Commands)
      /\ Len(queue) \in Nat /\ Len(queue') = Len(queue) + 1
      /\ \A i \in 1..Len(queue) : queue'[i] = queue[i] /\ queue[i] \in Commands
      /\ queue'[Len(queue) + 1] = cmd
      /\ queue # <<>> => Cmd' = Cmd
      /\ Cardinality(QueuedEvents') = Cardinality(QueuedEvents)
  BY <1>2, Enqueued, QueuedEventsFinite DEF IInv
<1>5. wpc # "recv" => Cmd' = Cmd  BY <1>4 DEF IInv, QueueInv
<1>6. Shape'
  BY <1>2, <1>4 DEF IInv, Shape, Goto, CreatorPCs
<1>7. IdsInv'
  <2>1. \A d \in Creators : pc'[d] \in {"idle", "count", "send"} => id'[d] = None
    BY <1>2 DEF IInv, IdsInv
  <2>2. \A d, e \in Creators : id'[d] = id'[e] /\ id'[d] # None => d = e
    BY <1>1, <1>2 DEF IInv, IdsInv
  <2>3. ASSUME NEW x \in Runs
        PROVE  IF run[x].created THEN run[x].by \in Principals /\ \E d \in Creators : id'[d] = x
                                 ELSE run[x] = NoRun
    BY <1>2 DEF IInv, IdsInv
  <2> QED  BY <2>1, <2>2, <2>3 DEF IdsInv
<1>8. QueueInv'
  <2>1. ASSUME NEW i \in 1..Len(queue')
        PROVE  IF queue'[i].kind = "run_created"
               THEN /\ queue'[i].creator \in Creators /\ queue'[i].run = id'[queue'[i].creator]
                    /\ pc'[queue'[i].creator] \in {"wait", "drop", "done"}
                    /\ run[queue'[i].run].created => i = 1 /\ wpc = "reply"
               ELSE queue'[i].creator = None /\ run[queue'[i].run].created
    <3>1. CASE i = Len(queue) + 1
      <4>1. queue'[i] = cmd  BY <3>1, <1>4
      <4>2. cmd.run = r /\ cmd.creator = c /\ cmd.kind = "run_created"  OBVIOUS
      <4>3. id'[c] = r /\ pc'[c] = "wait"  BY <1>2
      <4> QED  BY <4>1, <4>2, <4>3, <1>3
    <3>2. CASE i \in 1..Len(queue)
      <4>1. queue'[i] = queue[i] /\ queue[i] \in Commands  BY <3>2, <1>4
      <4>2. queue[i].kind = "run_created" => queue[i].creator # c  BY <3>2, <1>2 DEF IInv, QueueInv
      <4> QED  BY <3>2, <4>1, <4>2, <1>2 DEF IInv, QueueInv
    <3> QED  BY <3>1, <3>2, <1>4
  <2>2. ASSUME NEW i \in 1..Len(queue'), NEW j \in 1..Len(queue'),
               queue'[i].kind = "run_created", queue'[j].kind = "run_created",
               queue'[i].creator = queue'[j].creator
        PROVE  i = j
    BY <2>2, <1>2, <1>4 DEF IInv, QueueInv
  <2>3. wpc # "recv" => queue' # <<>>  BY <1>4, EmptySeq
  <2> QED  BY <2>1, <2>2, <2>3, <1>5 DEF IInv, QueueInv
<1>9. IndexInv'  BY <1>5 DEF IInv, IndexInv
<1>10. EntryInv'  BY <1>2 DEF IInv, EntryInv
<1>11. ReservationsAreGuards'
  <2>1. \A p : Guards(p)' = Guards(p)  BY <1>2 DEF Guards
  <2> QED  BY <2>1 DEF IInv, ReservationsAreGuards
<1>12. BoundsInv'  BY <1>4 DEF IInv, BoundsInv
<1>13. AccountInv'
  <2>1. \A p : ActiveRuns(p)' = ActiveRuns(p)
    BY <1>5 DEF ActiveRuns, BeingDeleted
  <2>2. \A d \in Creators : d # c => (Queued(d)' => Queued(d)) /\ (Uncreated(d)' <=> Uncreated(d))
    BY <1>2, <1>4 DEF Queued, Uncreated
  <2>3. \A p \in Principals : Due(p)' \subseteq Due(p) /\ Orphans(p)' \subseteq Orphans(p)
    BY <1>2, <2>2 DEF Due, Orphans, Holding, Uncreated
  <2> QED  BY <1>2, <2>1, <2>3, AccountKept DEF IInv
<1> QED  BY <1>6, <1>7, <1>8, <1>9, <1>10, <1>11, <1>12, <1>13 DEF IInv

-----------------------------------------------------------------------------
(* The steps of a run's handlers, and time *)

LEMMA CheckRunStep ==
  ASSUME IInv, NEW r \in Runs, NEW kind \in EventKinds, CheckRun(r, kind)
  PROVE  IInv'
<1> USE DEF CheckRun, registry, history, creators
<1> DEFINE h == [run |-> r, kind |-> kind, nr |-> events]
<1>1. events \in 0..MaxEvents /\ events' = events + 1 /\ events < MaxEvents /\ run[r].created
  BY DEF IInv, Shape, Visible
<1>2. Shape'
  BY <1>1 DEF IInv, Shape
<1>3. IdsInv'  BY DEF IInv, IdsInv
<1>4. QueueInv'
  <2>1. \A x \in handlers' : run[x.run].created /\ x.nr < events'
    <3>1. \A x \in handlers : x.nr \in Nat  BY DEF IInv, Shape
    <3> QED  BY <1>1, <3>1 DEF IInv, QueueInv
  <2> QED  BY <2>1 DEF IInv, QueueInv, Cmd
<1>5. IndexInv'  BY DEF IInv, IndexInv, Cmd
<1>6. EntryInv'  BY DEF IInv, EntryInv
<1>7. ReservationsAreGuards'  BY DEF IInv, ReservationsAreGuards, Guards
<1>8. BoundsInv'
  <2>1. h \notin handlers  BY <1>1 DEF IInv, QueueInv
  <2>2. IsFiniteSet(handlers')
        /\ Cardinality(handlers') = Cardinality(handlers) + 1 /\ Cardinality(handlers) \in Nat
    BY <2>1, FS_AddElement, FS_CardinalityType DEF IInv, BoundsInv
  <2>3. QueuedEvents' = QueuedEvents /\ Cardinality(QueuedEvents) \in Nat
    BY QueuedEventsFinite DEF QueuedEvents, IInv
  <2>4. \A p \in Principals : revived[p] \in Nat  BY DEF IInv, Shape
  <2>5. \A p \in Principals : revived[p] + Cardinality(handlers') + Cardinality(QueuedEvents') <= events'
    BY <1>1, <2>2, <2>3, <2>4 DEF IInv, BoundsInv
  <2> QED  BY <2>2, <2>5 DEF IInv, BoundsInv
<1>9. AccountInv'
  BY DEF IInv, AccountInv, LimitInv, CountInv, ActiveRuns, BeingDeleted, Cmd, Due, Orphans, Queued,
         Uncreated
<1> QED  BY <1>2, <1>3, <1>4, <1>5, <1>6, <1>7, <1>8, <1>9 DEF IInv

LEMMA SendEventStep ==
  ASSUME IInv, NEW h \in handlers, SendEvent(h)
  PROVE  IInv'
<1> USE DEF SendEvent, registry, history, creators
<1> DEFINE cmd == [run |-> h.run, kind |-> h.kind, creator |-> None]
<1>1. /\ h.run \in Runs /\ h.kind \in EventKinds /\ run[h.run].created
      /\ cmd \in Commands /\ cmd.kind # "run_created"
  BY DEF IInv, Shape, QueueInv, Commands, EventKinds
<1>2. /\ queue' \in Seq(Commands)
      /\ Len(queue) \in Nat /\ Len(queue') = Len(queue) + 1
      /\ \A i \in 1..Len(queue) : queue'[i] = queue[i] /\ queue[i] \in Commands
      /\ queue'[Len(queue) + 1] = cmd
      /\ queue # <<>> => Cmd' = Cmd
      /\ Cardinality(QueuedEvents') = Cardinality(QueuedEvents) + 1
  BY <1>1, Enqueued DEF IInv
<1>3. wpc # "recv" => Cmd' = Cmd  BY <1>2 DEF IInv, QueueInv
<1>4. Shape'
  BY <1>2 DEF IInv, Shape
<1>5. IdsInv'  BY DEF IInv, IdsInv
<1>6. QueueInv'
  <2>1. ASSUME NEW i \in 1..Len(queue')
        PROVE  IF queue'[i].kind = "run_created"
               THEN /\ queue'[i].creator \in Creators /\ queue'[i].run = id[queue'[i].creator]
                    /\ pc[queue'[i].creator] \in {"wait", "drop", "done"}
                    /\ run[queue'[i].run].created => i = 1 /\ wpc = "reply"
               ELSE queue'[i].creator = None /\ run[queue'[i].run].created
    BY <1>1, <1>2 DEF IInv, QueueInv
  <2>2. ASSUME NEW i \in 1..Len(queue'), NEW j \in 1..Len(queue'),
               queue'[i].kind = "run_created", queue'[j].kind = "run_created",
               queue'[i].creator = queue'[j].creator
        PROVE  i = j
    BY <2>2, <1>1, <1>2 DEF IInv, QueueInv
  <2>3. wpc # "recv" => queue' # <<>>  BY <1>2, EmptySeq
  <2> QED  BY <2>1, <2>2, <2>3, <1>3 DEF IInv, QueueInv
<1>7. IndexInv'  BY <1>3 DEF IInv, IndexInv
<1>8. EntryInv'  BY DEF IInv, EntryInv
<1>9. ReservationsAreGuards'  BY DEF IInv, ReservationsAreGuards, Guards
<1>10. BoundsInv'
  <2>1. IsFiniteSet(handlers') /\ Cardinality(handlers') = Cardinality(handlers) - 1
    BY FS_RemoveElement DEF IInv, BoundsInv
  <2>2. Cardinality(handlers) \in Nat /\ Cardinality(QueuedEvents) \in Nat
    BY FS_CardinalityType, QueuedEventsFinite DEF IInv, BoundsInv
  <2>3. \A p \in Principals : revived[p] \in Nat /\ events \in Nat  BY DEF IInv, Shape
  <2>4. \A p \in Principals : revived[p] + Cardinality(handlers') + Cardinality(QueuedEvents') <= events
    BY <1>2, <2>1, <2>2, <2>3 DEF IInv, BoundsInv
  <2> QED  BY <2>1, <2>4 DEF IInv, BoundsInv
<1>11. AccountInv'
  <2>1. \A p : ActiveRuns(p)' = ActiveRuns(p)
    BY <1>3 DEF ActiveRuns, BeingDeleted
  <2>2. \A d \in Creators : (Queued(d)' => Queued(d)) /\ (Uncreated(d)' <=> Uncreated(d))
    BY <1>1, <1>2 DEF Queued, Uncreated
  <2>3. \A p \in Principals : Due(p)' \subseteq Due(p) /\ Orphans(p)' \subseteq Orphans(p)
    BY <2>2 DEF Due, Orphans
  <2> QED  BY <2>1, <2>3, AccountKept DEF IInv
<1> QED  BY <1>4, <1>5, <1>6, <1>7, <1>8, <1>9, <1>10, <1>11 DEF IInv

LEMMA ExpireStep ==
  ASSUME IInv, NEW r \in Runs, Expire(r)
  PROVE  IInv'
<1> USE DEF Expire, history, creators
<1>1. events \in 0..MaxEvents /\ events' = events + 1 /\ events < MaxEvents
  BY DEF IInv, Shape
<1>0. /\ run[r].created /\ run \in [Runs -> RunStates]
      /\ \A x \in Runs : run'[x] = IF x = r THEN [run[r] EXCEPT !.fresh = FALSE] ELSE run[x]
      /\ run' \in [Runs -> RunStates]
  <2>1. run[r].created /\ run \in [Runs -> RunStates]  BY DEF IInv, Shape, Visible
  <2>2. [run[r] EXCEPT !.fresh = FALSE] \in RunStates  BY <2>1 DEF RunStates
  <2> HIDE DEF RunStates
  <2> QED  BY <2>1, <2>2
<1>2. /\ run[r].created
      /\ \A x \in Runs : /\ run'[x].created = run[x].created /\ run'[x].deleted = run[x].deleted
                         /\ run'[x].by = run[x].by /\ run'[x].state = run[x].state
                         /\ x # r => run'[x] = run[x]
      /\ ~run'[r].fresh
      /\ run' \in [Runs -> RunStates]
  BY <1>0 DEF RunStates
<1>3. Shape'
  BY <1>1, <1>2 DEF IInv, Shape
<1>4. IdsInv'  BY <1>2 DEF IInv, IdsInv
<1>5. \A i \in 1..Len(queue) : queue[i] \in Commands  BY ElementOfSeq DEF IInv, Shape
<1>6. queue # <<>> => Cmd.run \in Runs
  <2>1. queue # <<>> => Cmd \in Commands  BY HeadTailProperties DEF IInv, Shape, Cmd
  <2> QED  BY <2>1 DEF Commands
<1>7. QueueInv'
  <2>1. \A h \in handlers : h.run \in Runs /\ h.nr \in Nat  BY DEF IInv, Shape
  <2>2. \A i \in 1..Len(queue) : queue[i].run \in Runs  BY <1>5 DEF Commands
  <2>3. \A h \in handlers : run'[h.run].created /\ h.nr < events'  BY <1>1, <1>2, <2>1 DEF IInv, QueueInv
  <2> QED  BY <1>2, <1>6, <2>2, <2>3 DEF IInv, QueueInv, Cmd
<1>8. IndexInv'  BY <1>2 DEF IInv, IndexInv, Cmd, Visible
<1>9. EntryInv'  BY DEF IInv, EntryInv
<1>10. ReservationsAreGuards'  BY DEF IInv, ReservationsAreGuards, Guards
<1>11. BoundsInv'
  <2>1. QueuedEvents' = QueuedEvents /\ Cardinality(QueuedEvents) \in Nat /\ Cardinality(handlers) \in Nat
    BY QueuedEventsFinite, FS_CardinalityType DEF QueuedEvents, IInv, BoundsInv
  <2>2. \A p \in Principals : revived[p] \in Nat  BY DEF IInv, Shape
  <2>3. \A p \in Principals : revived[p] + Cardinality(handlers) + Cardinality(QueuedEvents') <= events'
    BY <1>1, <2>1, <2>2 DEF IInv, BoundsInv
  <2> QED  BY <2>3 DEF IInv, BoundsInv
<1>12. AccountInv'
  <2>1. \A p : ActiveRuns(p)' \subseteq ActiveRuns(p)
    BY <1>2 DEF ActiveRuns, BeingDeleted, Cmd, Active, Visible, Terminal
  <2>2. \A d \in Creators : (Queued(d)' => Queued(d)) /\ (Uncreated(d)' => Uncreated(d))
    BY <1>2 DEF Queued, Uncreated, IInv, Shape
  <2>3. \A p \in Principals : Due(p)' \subseteq Due(p) /\ Orphans(p)' \subseteq Orphans(p)
    BY <2>2 DEF Due, Orphans
  <2> QED  BY <2>1, <2>3, AccountKept DEF IInv
<1> QED  BY <1>3, <1>4, <1>7, <1>8, <1>9, <1>10, <1>11, <1>12 DEF IInv

-----------------------------------------------------------------------------
(* The steps of the timeline writer *)

LEMMA HeadCommand ==
  ASSUME IInv, queue # <<>>
  PROVE  /\ Cmd \in Commands /\ Cmd = queue[1] /\ 1 \in 1..Len(queue) /\ Cmd.run \in Runs
         /\ IF Cmd.kind = "run_created"
            THEN /\ Cmd.creator \in Creators /\ Cmd.run = id[Cmd.creator]
                 /\ pc[Cmd.creator] \in {"wait", "drop", "done"}
                 /\ run[Cmd.run].created => wpc = "reply"
                 /\ Queued(Cmd.creator)
            ELSE Cmd.creator = None /\ run[Cmd.run].created
<1>1. Cmd \in Commands /\ Cmd = queue[1] /\ 1 \in 1..Len(queue)
  BY HeadTailProperties, EmptySeq DEF IInv, Shape, Cmd
<1>2. Cmd.run \in Runs  BY <1>1 DEF Commands
<1> QED  BY <1>1, <1>2 DEF IInv, QueueInv, Queued

\* Removing the head and answering its creator, whatever a run's state and
\* freshness become.
LEMMA Answered ==
  ASSUME IInv, wpc \in {"recv", "reply"}, queue # <<>>, Answer,
         UNCHANGED <<index, reserved, entry, handlers, owner, id, seen, todo, events, cancelled>>,
         run' \in [Runs -> RunStates], revived' \in [Principals -> Nat],
         \A x \in Runs : /\ run'[x].created = run[x].created /\ run'[x].deleted = run[x].deleted
                         /\ run'[x].by = run[x].by
                         /\ ~run[x].created => run'[x] = run[x]
  PROVE  /\ Shape' /\ IdsInv' /\ QueueInv' /\ IndexInv' /\ EntryInv' /\ ReservationsAreGuards'
         /\ \A p : Due(p)' \subseteq Due(p) /\ Orphans(p)' \subseteq Orphans(p)
         /\ \A d \in Creators : pc'[d] = "count" => pc[d] = "count"
         /\ Cardinality(QueuedEvents') =
              Cardinality(QueuedEvents) - (IF Cmd.kind = "run_created" THEN 0 ELSE 1)
<1>1. /\ queue' \in Seq(Commands)
      /\ Len(queue') \in Nat /\ Len(queue) = Len(queue') + 1
      /\ \A i \in 1..Len(queue') : queue'[i] = queue[i + 1] /\ i + 1 \in 1..Len(queue)
      /\ Cmd = queue[1] /\ Cmd \in Commands
      /\ Cardinality(QueuedEvents') =
           Cardinality(QueuedEvents) - (IF Cmd.kind = "run_created" THEN 0 ELSE 1)
  BY Dequeued DEF IInv, Answer
<1>2. /\ \A d \in Creators : pc'[d] = pc[d] \/ (pc[d] = "wait" /\ pc'[d] = "drop" /\ d = Cmd.creator)
      /\ pc' \in [Creators -> CreatorPCs] /\ wpc' = "recv"
  BY DEF Answer, IInv, Shape, CreatorPCs
<1>3. Shape'
  BY <1>1, <1>2 DEF IInv, Shape
<1>4. \A i \in 1..Len(queue) : queue[i].run \in Runs
  <2>1. \A i \in 1..Len(queue) : queue[i] \in Commands  BY ElementOfSeq DEF IInv, Shape
  <2> QED  BY <2>1 DEF Commands
<1>5. IdsInv'
  <2>1. \A d \in Creators : pc'[d] \in {"idle", "count", "send"} => id[d] = None
    BY <1>2 DEF IInv, IdsInv
  <2>2. ASSUME NEW x \in Runs
        PROVE  IF run'[x].created THEN run'[x].by \in Principals /\ \E d \in Creators : id[d] = x
                                  ELSE run'[x] = NoRun
    BY DEF IInv, IdsInv
  <2> QED  BY <2>1, <2>2 DEF IInv, IdsInv
<1>6. QueueInv'
  <2>1. ASSUME NEW i \in 1..Len(queue')
        PROVE  IF queue'[i].kind = "run_created"
               THEN /\ queue'[i].creator \in Creators /\ queue'[i].run = id[queue'[i].creator]
                    /\ pc'[queue'[i].creator] \in {"wait", "drop", "done"}
                    /\ ~run'[queue'[i].run].created
               ELSE queue'[i].creator = None /\ run'[queue'[i].run].created
    <3> DEFINE j == i + 1
    <3>1. queue'[i] = queue[j] /\ j \in 1..Len(queue) /\ j # 1 /\ queue[j].run \in Runs  BY <1>1, <1>4
    <3> HIDE DEF j
    <3> QED  BY <3>1, <1>2 DEF IInv, QueueInv
  <2>2. ASSUME NEW i \in 1..Len(queue'), NEW j \in 1..Len(queue'),
               queue'[i].kind = "run_created", queue'[j].kind = "run_created",
               queue'[i].creator = queue'[j].creator
        PROVE  i = j
    <3>1. i + 1 = j + 1  BY <2>2, <1>1 DEF IInv, QueueInv
    <3> QED  BY <3>1
  <2>3. \A h \in handlers : run'[h.run].created /\ h.nr < events
    <3>1. \A h \in handlers : h.run \in Runs  BY DEF IInv, Shape
    <3> QED  BY <3>1 DEF IInv, QueueInv
  <2> QED  BY <2>1, <2>2, <2>3, <1>2 DEF QueueInv
<1>7. IndexInv'
  <2>1. \A p \in Principals : index[p] = {x \in Runs : Visible(run[x]) /\ run[x].by = p}
    BY DEF IInv, IndexInv
  <2>2. \A x \in Runs : Visible(run'[x]) = Visible(run[x])  BY DEF Visible
  <2>3. \A p \in Principals : index'[p] = {x \in Runs : Visible(run'[x]) /\ run'[x].by = p}
    BY <2>1, <2>2
  <2> QED  BY <1>2, <2>3 DEF IndexInv
<1>8. EntryInv'
  BY <1>2 DEF IInv, EntryInv
<1>9. ReservationsAreGuards'
  <2>1. \A p : Guards(p)' = Guards(p)  BY <1>2 DEF Guards
  <2> QED  BY <2>1 DEF IInv, ReservationsAreGuards
<1>10. \A d \in Creators : Queued(d)' => Queued(d) /\ d # Cmd.creator
  <2> SUFFICES ASSUME NEW d \in Creators, NEW i \in 1..Len(queue'), queue'[i].kind = "run_created",
                      queue'[i].creator = d
               PROVE  Queued(d) /\ d # Cmd.creator
    BY DEF Queued
  <2> DEFINE j == i + 1
  <2>1. queue'[i] = queue[j] /\ j \in 1..Len(queue) /\ j # 1  BY <1>1
  <2> HIDE DEF j
  <2>2. Queued(d)  BY <2>1 DEF Queued
  <2>3. d # Cmd.creator
    <3>1. CASE Cmd.kind = "run_created"
      BY <2>1, <3>1, HeadCommand DEF IInv, QueueInv
    <3>2. CASE Cmd.kind # "run_created"  BY <3>2, HeadCommand
    <3> QED  BY <3>1, <3>2
  <2> QED  BY <2>2, <2>3
<1>11. \A d \in Creators : Uncreated(d)' <=> Uncreated(d)
  BY DEF Uncreated, IInv, Shape
<1>12. \A p : Due(p)' \subseteq Due(p) /\ Orphans(p)' \subseteq Orphans(p)
  BY <1>2, <1>10, <1>11 DEF Due, Orphans, Holding
<1> QED  BY <1>1, <1>2, <1>3, <1>5, <1>6, <1>7, <1>8, <1>9, <1>12

LEMMA RejectStep ==
  ASSUME IInv, RejectCommand \/ Reply
  PROVE  IInv'
<1> USE DEF RejectCommand, Reply, registry, history
<1>1. /\ wpc \in {"recv", "reply"} /\ queue # <<>> /\ Answer /\ wpc' = "recv"
      /\ UNCHANGED <<run, index, reserved, entry, handlers, owner, id, seen, todo, events, cancelled,
                     revived>>
  BY DEF IInv, QueueInv, Answer
<1>2. run' \in [Runs -> RunStates] /\ revived' \in [Principals -> Nat]
  BY <1>1 DEF IInv, Shape
<1>3. /\ Shape' /\ IdsInv' /\ QueueInv' /\ IndexInv' /\ EntryInv' /\ ReservationsAreGuards'
      /\ \A p : Due(p)' \subseteq Due(p) /\ Orphans(p)' \subseteq Orphans(p)
      /\ \A d \in Creators : pc'[d] = "count" => pc[d] = "count"
      /\ Cardinality(QueuedEvents') =
           Cardinality(QueuedEvents) - (IF Cmd.kind = "run_created" THEN 0 ELSE 1)
  BY <1>1, <1>2, Answered
<1>4. BoundsInv'
  <2>1. Cardinality(QueuedEvents) \in Nat /\ Cardinality(handlers) \in Nat
    BY QueuedEventsFinite, FS_CardinalityType DEF IInv, BoundsInv
  <2>2. \A p \in Principals : revived[p] \in Nat /\ events \in Nat  BY DEF IInv, Shape
  <2>3. \A p \in Principals : revived[p] + Cardinality(handlers) + Cardinality(QueuedEvents') <= events
    BY <1>3, <2>1, <2>2 DEF IInv, BoundsInv
  <2> QED  BY <1>1, <2>3 DEF IInv, BoundsInv
<1>5. \A p : ActiveRuns(p)' \subseteq ActiveRuns(p)
  <2>1. \A x : BeingDeleted(x) => wpc = "reply" /\ run[x].deleted
    BY <1>1 DEF BeingDeleted, IInv, QueueInv
  <2> QED  BY <1>1, <2>1 DEF ActiveRuns, Active, Visible
<1>6. AccountInv'  BY <1>1, <1>3, <1>5, AccountKept DEF IInv
<1> QED  BY <1>3, <1>4, <1>6 DEF IInv

LEMMA ApplyOrdinaryStep ==
  ASSUME IInv, ApplyOrdinary
  PROVE  IInv'
<1>0. PICK r, q, after : r = Cmd.run /\ q = run[r].by /\ after = Applied(run[r], Cmd.kind)
  OBVIOUS
<1>a. PICK again \in BOOLEAN : again <=> Active(after, q) /\ ~Active(run[r], q)
  OBVIOUS
<1> USE DEF ApplyOrdinary
<1>1. /\ wpc = "recv" /\ queue # <<>> /\ Answer /\ wpc' = "recv" /\ Cmd.kind # "run_created"
      /\ r \in Runs /\ run[r].created
      /\ UNCHANGED <<index, reserved, entry, handlers, owner, id, seen, todo, events, cancelled>>
  BY <1>0, HeadCommand DEF Answer
<1>2. /\ after \in RunStates /\ after.created = run[r].created /\ after.deleted = run[r].deleted
      /\ after.by = q
  <2>1. run[r] \in RunStates  BY <1>1 DEF IInv, Shape
  <2> QED  BY <1>0, <2>1 DEF Applied, RunStates
<1>3. q \in Principals  BY <1>0, <1>1 DEF IInv, IdsInv
<1>4. /\ run' = [run EXCEPT ![r] = after]
      /\ revived' = IF again THEN [revived EXCEPT ![q] = revived[q] + 1] ELSE revived
  BY <1>0, <1>a
<1> HIDE DEF ApplyOrdinary
<1>5. /\ run' \in [Runs -> RunStates] /\ revived' \in [Principals -> Nat]
      /\ \A x \in Runs : run'[x] = IF x = r THEN after ELSE run[x]
      /\ \A p \in Principals : revived'[p] = IF again /\ p = q THEN revived[p] + 1 ELSE revived[p]
  BY <1>1, <1>2, <1>3, <1>4 DEF IInv, Shape
<1>6. /\ Shape' /\ IdsInv' /\ QueueInv' /\ IndexInv' /\ EntryInv' /\ ReservationsAreGuards'
      /\ \A p : Due(p)' \subseteq Due(p) /\ Orphans(p)' \subseteq Orphans(p)
      /\ \A d \in Creators : pc'[d] = "count" => pc[d] = "count"
      /\ Cardinality(QueuedEvents') = Cardinality(QueuedEvents) - 1
  <2>1. \A x \in Runs : /\ run'[x].created = run[x].created /\ run'[x].deleted = run[x].deleted
                        /\ run'[x].by = run[x].by
                        /\ ~run[x].created => run'[x] = run[x]
    BY <1>0, <1>1, <1>2, <1>5
  <2> QED  BY <1>1, <1>5, <2>1, Answered
<1>7. BoundsInv'
  <2>1. Cardinality(QueuedEvents) \in Nat /\ Cardinality(handlers) \in Nat
    BY QueuedEventsFinite, FS_CardinalityType DEF IInv, BoundsInv
  <2>2. \A p \in Principals : revived[p] \in Nat /\ events \in Nat  BY DEF IInv, Shape
  <2>3. \A p \in Principals : revived'[p] + Cardinality(handlers) + Cardinality(QueuedEvents') <= events
    BY <1>5, <1>6, <2>1, <2>2 DEF IInv, BoundsInv
  <2> QED  BY <1>1, <2>3 DEF IInv, BoundsInv
<1>8. \A p \in Principals : /\ cancelled[p] \in Nat /\ revived[p] \in Nat /\ revived'[p] \in Nat
                            /\ cancelled[p] >= cancelled[p] /\ revived'[p] >= revived[p]
  <2>1. \A p \in Principals : cancelled[p] \in Nat /\ revived[p] \in Nat  BY DEF IInv, Shape
  <2> QED  BY <1>5, <2>1
<1>9. \A x : ~BeingDeleted(x) /\ ~BeingDeleted(x)'  BY <1>1 DEF BeingDeleted
<1>10. \A p : ActiveRuns(p)' \subseteq ActiveRuns(p) \cup {r}
  BY <1>5, <1>9 DEF ActiveRuns
<1>11. \A p : ~(again /\ p = q) => ActiveRuns(p)' \subseteq ActiveRuns(p)
  <2>1. \A p : Active(after, p) => p = q  BY <1>2 DEF Active
  <2> QED  BY <1>0, <1>a, <1>1, <1>5, <1>9, <2>1 DEF ActiveRuns
<1>12. AccountInv'
  <2>1. ASSUME again
        PROVE  LimitInv(q)' /\ \A c \in Creators : owner[c] = q => CountInv(c)'
    <3>1. ActiveRuns(q) \in SUBSET Runs /\ Due(q)' \in SUBSET Due(q) /\ Due(q) \in SUBSET Creators
          /\ Orphans(q)' \in SUBSET Orphans(q) /\ Orphans(q) \in SUBSET Creators
      BY <1>6 DEF ActiveRuns, Due, Orphans
    <3>2. /\ Cardinality(Due(q)') \in Nat /\ Cardinality(Due(q)) \in Nat
          /\ Cardinality(Due(q)') <= Cardinality(Due(q))
          /\ Cardinality(Orphans(q)') \in Nat /\ Cardinality(Orphans(q)) \in Nat
          /\ Cardinality(Orphans(q)') <= Cardinality(Orphans(q))
      BY <3>1, FiniteParts
    <3>3. ASSUME NEW T
          PROVE  /\ Cardinality(ActiveRuns(q)' \ T) \in Nat /\ Cardinality(ActiveRuns(q) \ T) \in Nat
                 /\ Cardinality(ActiveRuns(q)' \ T) <= Cardinality(ActiveRuns(q) \ T) + 1
      <4> DEFINE A == ActiveRuns(q) \ T
                 B == ActiveRuns(q)' \ T
      <4>1. A \in SUBSET Runs /\ A \cup {r} \in SUBSET Runs /\ B \in SUBSET (A \cup {r})
        BY <1>1, <1>10, <3>1
      <4> HIDE DEF A, B
      <4>2. /\ IsFiniteSet(A) /\ Cardinality(A) \in Nat /\ Cardinality(A \cup {r}) \in Nat
            /\ Cardinality(B) \in Nat /\ Cardinality(B) <= Cardinality(A \cup {r})
        BY <4>1, FiniteParts
      <4>3. Cardinality(A \cup {r}) <= Cardinality(A) + 1  BY <4>2, CountOneMore
      <4>4. Cardinality(B) <= Cardinality(A) + 1  BY <4>2, <4>3
      <4> QED  BY <4>2, <4>4 DEF A, B
    <3>4. revived'[q] = revived[q] + 1 /\ cancelled'[q] = cancelled[q]  BY <1>1, <1>3, <1>5, <2>1
    <3>5. LimitInv(q)'
      <4>1. ActiveRuns(q)' \ {} = ActiveRuns(q)' /\ ActiveRuns(q) \ {} = ActiveRuns(q)  OBVIOUS
      <4>2. /\ Cardinality(ActiveRuns(q)') \in Nat /\ Cardinality(ActiveRuns(q)) \in Nat
            /\ Cardinality(ActiveRuns(q)') <= Cardinality(ActiveRuns(q)) + 1
        BY <3>3, <4>1
      <4>3. LimitInv(q)  BY <1>3 DEF IInv, AccountInv
      <4> QED  BY <1>3, <1>8, <3>2, <3>4, <4>2, <4>3 DEF LimitInv
    <3>6. ASSUME NEW c \in Creators, owner[c] = q, pc'[c] = "count"
          PROVE  Cardinality(ActiveRuns(q)' \ todo[c]) + Cardinality(Due(q)')
                   <= seen[c] + cancelled[q] + revived'[q]
      <4>1. seen[c] \in Nat /\ CountInv(c) /\ pc[c] = "count"
        BY <1>6, <3>6 DEF IInv, Shape, AccountInv
      <4>2. Cardinality(ActiveRuns(q) \ todo[c]) + Cardinality(Due(q)) <= seen[c] + cancelled[q] + revived[q]
        BY <3>6, <4>1 DEF CountInv
      <4>3. /\ Cardinality(ActiveRuns(q)' \ todo[c]) \in Nat /\ Cardinality(ActiveRuns(q) \ todo[c]) \in Nat
            /\ Cardinality(ActiveRuns(q)' \ todo[c]) <= Cardinality(ActiveRuns(q) \ todo[c]) + 1
        BY <3>3
      <4> QED  BY <1>3, <1>8, <3>2, <3>4, <4>1, <4>2, <4>3
    <3>7. \A c \in Creators : owner[c] = q => CountInv(c)'
      BY <1>1, <3>6 DEF CountInv
    <3> QED  BY <3>5, <3>7
  <2>2. \A p \in Principals : LimitInv(p)'
    BY <1>1, <1>6, <1>8, <1>11, <2>1, LimitKept DEF IInv, AccountInv
  <2>3. ASSUME NEW c \in Creators  PROVE CountInv(c)'
    <3>1. CASE again /\ owner[c] = q  BY <2>1, <3>1
    <3>2. CASE ~(again /\ owner[c] = q)
      <4>1. owner[c] \in Principals /\ CountInv(c)  BY DEF IInv, Shape, AccountInv
      <4>2. ActiveRuns(owner[c])' \subseteq ActiveRuns(owner[c])  BY <1>1, <1>11, <3>2
      <4> QED  BY <4>1, <4>2, <1>1, <1>6, <1>8, CountKept DEF IInv
    <3> QED  BY <3>1, <3>2
  <2> QED  BY <2>2, <2>3 DEF AccountInv
<1> QED  BY <1>6, <1>7, <1>12 DEF IInv

LEMMA UpdateIndexStep ==
  ASSUME IInv, UpdateIndex
  PROVE  IInv'
<1> USE DEF UpdateIndex, history, creators
<1>0. /\ wpc = "recv" /\ queue # <<>> /\ wpc' = "insert" /\ Cmd' = Cmd
      /\ Cmd.kind \in Structural /\ ~run[Cmd.run].deleted /\ Cmd.run \in Runs
  BY HeadCommand DEF Cmd, Structural
<1>1. Bucket \in Principals
      /\ (Cmd.kind = "run_created" => Bucket = owner[Cmd.creator] /\ ~run[Cmd.run].created)
      /\ (Cmd.kind = "run_deleted" => Bucket = run[Cmd.run].by /\ run[Cmd.run].created)
  BY <1>0, HeadCommand DEF Bucket, IInv, IdsInv, Shape, Structural
<1>a. PICK r \in Runs, q \in Principals : r = Cmd.run /\ q = Bucket
  BY <1>0, <1>1
<1>2. PICK b : /\ r = Cmd.run /\ q = Bucket
               /\ b = IF Cmd.kind = "run_created" THEN index[q] \cup {r} ELSE index[q] \ {r}
  BY <1>a
<1>3. index \in [Principals -> SUBSET Runs]  BY DEF IInv, Shape
<1>4. index' = [index EXCEPT ![q] = b]  BY <1>2
<1>5. b \in SUBSET Runs
  <2>1. index[q] \in SUBSET Runs  BY <1>3
  <2> QED  BY <1>2, <2>1
<1>6. /\ index'[q] = b /\ (\A p \in Principals : p # q => index'[p] = index[p])
      /\ index' \in [Principals -> SUBSET Runs]
  BY ONLY <1>3, <1>4, <1>5, q \in Principals
<1>7. Shape'
  BY <1>0, <1>6 DEF IInv, Shape
<1>8. IdsInv'  BY DEF IInv, IdsInv
<1>9. QueueInv'
  <2>1. ~run'[Cmd'.run].deleted  BY <1>0
  <2> QED  BY <1>0, <2>1 DEF IInv, QueueInv
<1>10. IndexInv'
  <2>1. \A p \in Principals : index[p] = {x \in Runs : Visible(run[x]) /\ run[x].by = p}
    BY <1>0 DEF IInv, IndexInv
  <2>2. ASSUME NEW p \in Principals
        PROVE  index'[p] = {x \in Runs :
                 \/ Visible(run[x]) /\ run[x].by = p /\ ~(Cmd.kind = "run_deleted" /\ r = x)
                 \/ Cmd.kind = "run_created" /\ r = x /\ owner[Cmd.creator] = p}
    <3> HIDE DEF UpdateIndex
    <3>1. CASE p = q /\ Cmd.kind = "run_created"
      <4>1. index'[p] = index[p] \cup {r} /\ owner[Cmd.creator] = p  BY <3>1, <1>1, <1>2, <1>6
      <4> QED  BY <2>1, <3>1, <4>1 DEF Visible
    <3>2. CASE p = q /\ Cmd.kind = "run_deleted"
      <4>1. index'[p] = index[p] \ {r}  BY <3>2, <1>2, <1>6
      <4> QED  BY <2>1, <3>2, <4>1 DEF Visible
    <3>3. CASE p # q
      <4>1. index'[p] = index[p]  BY <3>3, <1>6
      <4>2. Cmd.kind = "run_created" => owner[Cmd.creator] # p  BY <3>3, <1>1, <1>2
      <4>3. Cmd.kind = "run_deleted" => run[r].by # p  BY <3>3, <1>1, <1>2
      <4> QED  BY <2>1, <4>1, <4>2, <4>3 DEF Visible
    <3> QED  BY <3>1, <3>2, <3>3, <1>0 DEF Structural
  <2> QED  BY <1>0, <1>2, <2>2 DEF IndexInv
<1>11. EntryInv'  BY DEF IInv, EntryInv
<1>12. ReservationsAreGuards'  BY DEF IInv, ReservationsAreGuards, Guards
<1>13. BoundsInv'  BY DEF IInv, BoundsInv, QueuedEvents
<1>14. AccountInv'
  <2>1. \A p : ActiveRuns(p)' \subseteq ActiveRuns(p)
    BY <1>0 DEF ActiveRuns, BeingDeleted
  <2>2. \A p : Due(p)' = Due(p) /\ Orphans(p)' = Orphans(p)
    BY DEF Due, Orphans, Queued, Uncreated
  <2> QED  BY <2>1, <2>2, AccountKept DEF IInv
<1> QED  BY <1>7, <1>8, <1>9, <1>10, <1>11, <1>12, <1>13, <1>14 DEF IInv

\* The new run starts counting and its creator stops being due.
LEMMA CreatedAccount ==
  ASSUME IInv, InsertRun, Cmd.kind = "run_created",
         NEW r \in Runs, r = Cmd.run, NEW d \in Creators, d = Cmd.creator, NEW q \in Principals, q = owner[d],
         \A x \in Runs : x # r => run'[x] = run[x],
         ~run[r].created, run'[r].by = q, run'[r].created, wpc' = "reply"
  PROVE  AccountInv'
<1> USE DEF InsertRun, history, creators
<1>1. /\ id[d] = r /\ pc[d] \in {"wait", "drop", "done"} /\ Queued(d) /\ owner' = owner
      /\ cancelled' = cancelled /\ revived' = revived
      /\ queue # <<>> /\ Cmd' = Cmd
  BY HeadCommand DEF IInv, QueueInv, Cmd
<1>2. \A e \in Creators : (Queued(e)' <=> Queued(e)) /\ (Uncreated(e)' <=> Uncreated(e) /\ e # d)
  <2>1. \A e \in Creators : Queued(e)' <=> Queued(e)  BY DEF Queued
  <2>2. \A e \in Creators : e # d /\ id[e] # None => id[e] # r /\ id[e] \in Runs
    BY <1>1 DEF IInv, IdsInv, Shape
  <2>3. ~Uncreated(d)' /\ \A e \in Creators : e # d => (Uncreated(e)' <=> Uncreated(e))
    BY <1>1, <2>2 DEF Uncreated
  <2> QED  BY <2>1, <2>3
<1>3. /\ \A p : Orphans(p)' = Orphans(p)
      /\ \A p : Due(p)' = Due(p) \ {d}
      /\ d \in Due(q)
  <2>1. Uncreated(d)  BY <1>1 DEF Uncreated
  <2> QED  BY <1>1, <1>2, <2>1 DEF Orphans, Due, Holding
<1>4. /\ \A p : p # q => ActiveRuns(p)' \subseteq ActiveRuns(p)
      /\ ActiveRuns(q)' \subseteq ActiveRuns(q) \cup {r}
  BY <1>1 DEF ActiveRuns, Active, BeingDeleted, IInv, QueueInv
<1>5. \A p \in Principals : /\ cancelled[p] \in Nat /\ revived[p] \in Nat
                            /\ cancelled[p] >= cancelled[p] /\ revived[p] >= revived[p]
  BY DEF IInv, Shape
<1>6. /\ Due(q) \in SUBSET Creators /\ Cardinality(Due(q)) \in Nat
      /\ Cardinality(Due(q)') = Cardinality(Due(q)) - 1 /\ Cardinality(Due(q)') \in Nat
  <2>1. Due(q) \in SUBSET Creators /\ Due(q)' \in SUBSET Creators  BY <1>3 DEF Due
  <2> QED  BY <1>3, <2>1, FiniteParts, CountLess
<1>7. ASSUME NEW T
      PROVE  /\ Cardinality(ActiveRuns(q)' \ T) \in Nat /\ Cardinality(ActiveRuns(q) \ T) \in Nat
             /\ Cardinality(ActiveRuns(q)' \ T) <= Cardinality(ActiveRuns(q) \ T) + 1
  <2> DEFINE A == ActiveRuns(q) \ T
             B == ActiveRuns(q)' \ T
  <2>1. A \in SUBSET Runs /\ A \cup {r} \in SUBSET Runs /\ B \in SUBSET (A \cup {r})
    BY <1>4 DEF ActiveRuns
  <2> HIDE DEF A, B
  <2>2. /\ IsFiniteSet(A) /\ Cardinality(A) \in Nat /\ Cardinality(A \cup {r}) \in Nat
        /\ Cardinality(B) \in Nat /\ Cardinality(B) <= Cardinality(A \cup {r})
    BY <2>1, FiniteParts
  <2>3. Cardinality(A \cup {r}) <= Cardinality(A) + 1  BY <2>2, CountOneMore
  <2>4. Cardinality(B) <= Cardinality(A) + 1  BY <2>2, <2>3
  <2> QED  BY <2>2, <2>4 DEF A, B
<1>8. LimitInv(q)'
  <2>1. ActiveRuns(q)' \ {} = ActiveRuns(q)' /\ ActiveRuns(q) \ {} = ActiveRuns(q)  OBVIOUS
  <2>2. /\ Cardinality(ActiveRuns(q)') \in Nat /\ Cardinality(ActiveRuns(q)) \in Nat
        /\ Cardinality(ActiveRuns(q)') <= Cardinality(ActiveRuns(q)) + 1
    BY <1>7, <2>1
  <2>3. LimitInv(q)  BY DEF IInv, AccountInv
  <2>4. Orphans(q)' = Orphans(q)  BY <1>3
  <2> QED  BY <1>1, <1>5, <1>6, <2>2, <2>3, <2>4 DEF LimitInv
<1>9. ASSUME NEW c \in Creators, owner[c] = q, pc[c] = "count"
      PROVE  Cardinality(ActiveRuns(q)' \ todo[c]) + Cardinality(Due(q)')
               <= seen[c] + cancelled[q] + revived[q]
  <2>1. seen[c] \in Nat /\ CountInv(c)  BY DEF IInv, Shape, AccountInv
  <2>2. Cardinality(ActiveRuns(q) \ todo[c]) + Cardinality(Due(q)) <= seen[c] + cancelled[q] + revived[q]
    BY <1>9, <2>1 DEF CountInv
  <2>3. /\ Cardinality(ActiveRuns(q)' \ todo[c]) \in Nat /\ Cardinality(ActiveRuns(q) \ todo[c]) \in Nat
        /\ Cardinality(ActiveRuns(q)' \ todo[c]) <= Cardinality(ActiveRuns(q) \ todo[c]) + 1
    BY <1>7
  <2> QED  BY <1>5, <1>6, <2>1, <2>2, <2>3
<1>10. \A p \in Principals : p # q => LimitInv(p)'
  BY <1>1, <1>3, <1>4, <1>5, LimitKept DEF IInv, AccountInv
<1>11. ASSUME NEW c \in Creators  PROVE CountInv(c)'
  <2>1. CASE owner[c] = q  BY <1>1, <1>9, <2>1 DEF CountInv
  <2>2. CASE owner[c] # q
    <3>1. owner[c] \in Principals /\ CountInv(c)  BY DEF IInv, Shape, AccountInv
    <3> QED  BY <3>1, <2>2, <1>1, <1>3, <1>4, <1>5, CountKept DEF IInv
  <2> QED  BY <2>1, <2>2
<1> QED  BY <1>8, <1>10, <1>11 DEF AccountInv

LEMMA InsertRunStep ==
  ASSUME IInv, InsertRun
  PROVE  IInv'
<1> USE DEF InsertRun, history, creators
<1>0. PICK r : r = Cmd.run
  OBVIOUS
<1>1. /\ wpc = "insert" /\ queue # <<>> /\ wpc' = "reply" /\ Cmd' = Cmd
      /\ Cmd.kind \in Structural /\ ~run[r].deleted /\ r \in Runs
  BY <1>0, HeadCommand DEF Cmd, IInv, QueueInv
<1>2. Cmd.kind = "run_created" =>
        Cmd.creator \in Creators /\ owner[Cmd.creator] \in Principals /\ id[Cmd.creator] = r /\ run[r] = NoRun
  BY <1>0, <1>1, HeadCommand DEF IInv, IdsInv, Shape
<1>3. Cmd.kind = "run_deleted" => run[r].created /\ Cmd.creator = None
  BY <1>0, <1>1, HeadCommand
<1>4. /\ run' \in [Runs -> RunStates]
      /\ \A x \in Runs : x # r => run'[x] = run[x]
      /\ Cmd.kind = "run_created" =>
           /\ run'[r].created /\ ~run'[r].deleted /\ run'[r].by = owner[Cmd.creator] /\ run'[r].by \in Principals
      /\ Cmd.kind = "run_deleted" =>
           /\ run'[r].created /\ run'[r].deleted /\ run'[r].by = run[r].by
  <2> DEFINE new == IF Cmd.kind = "run_created"
                    THEN [NoRun EXCEPT !.created = TRUE, !.by = owner[Cmd.creator]]
                    ELSE [run[r] EXCEPT !.deleted = TRUE, !.fresh = TRUE]
  <2>1. run \in [Runs -> RunStates] /\ run[r] \in RunStates  BY <1>1 DEF IInv, Shape
  <2>2. new \in RunStates  BY <1>2, <2>1 DEF RunStates, NoRun
  <2>3. run' = [run EXCEPT ![r] = new]  BY <1>0
  <2>4. /\ Cmd.kind = "run_created" =>
             /\ new.created /\ ~new.deleted /\ new.by = owner[Cmd.creator] /\ new.by \in Principals
        /\ Cmd.kind = "run_deleted" => new.created /\ new.deleted /\ new.by = run[r].by
    BY <1>2, <1>3, <2>1 DEF RunStates, NoRun
  <2> HIDE DEF new
  <2> QED  BY <1>1, <2>1, <2>2, <2>3, <2>4
<1>5. UNCHANGED <<index, reserved, entry, queue, handlers, pc, owner, id, seen, todo, events,
                  cancelled, revived>>
  OBVIOUS
<1>6. \A x \in Runs : /\ run[x].created => run'[x].created /\ run'[x].by = run[x].by
                      /\ x # r => run'[x] = run[x]
  BY <1>1, <1>2, <1>3, <1>4 DEF NoRun, Structural
<1> HIDE DEF InsertRun, history, creators
<1>7. Shape'
  BY <1>1, <1>4, <1>5 DEF IInv, Shape
<1>8. IdsInv'
  <2>1. ASSUME NEW x \in Runs
        PROVE  IF run'[x].created THEN run'[x].by \in Principals /\ \E e \in Creators : id[e] = x
                                  ELSE run'[x] = NoRun
    BY <1>1, <1>2, <1>3, <1>4 DEF IInv, IdsInv, Structural
  <2> QED  BY <1>5, <2>1 DEF IInv, IdsInv
<1>9. QueueInv'
  <2>1. \A i \in 1..Len(queue) : queue[i].run \in Runs
    <3>1. \A i \in 1..Len(queue) : queue[i] \in Commands  BY ElementOfSeq DEF IInv, Shape
    <3> QED  BY <3>1 DEF Commands
  <2>2. ASSUME NEW i \in 1..Len(queue)
        PROVE  IF queue[i].kind = "run_created"
               THEN /\ queue[i].creator \in Creators /\ queue[i].run = id[queue[i].creator]
                    /\ pc[queue[i].creator] \in {"wait", "drop", "done"}
                    /\ run'[queue[i].run].created => i = 1
               ELSE queue[i].creator = None /\ run'[queue[i].run].created
    <3>1. CASE queue[i].kind # "run_created"  BY <3>1, <1>6, <2>1 DEF IInv, QueueInv
    <3>2. CASE queue[i].kind = "run_created"
      <4>1. /\ queue[i].creator \in Creators /\ queue[i].run = id[queue[i].creator]
            /\ pc[queue[i].creator] \in {"wait", "drop", "done"}
            /\ ~run[queue[i].run].created
        BY <3>2, <1>1 DEF IInv, QueueInv
      <4>2. queue[i].run = r => i = 1
        <5>1. CASE Cmd.kind = "run_created"
          <6>1. Cmd = queue[1] /\ 1 \in 1..Len(queue)  BY <1>1, HeadCommand
          <6>2. queue[i].run = r => queue[i].creator = Cmd.creator
            BY <4>1, <5>1, <1>1, <1>2, NoneAssumption DEF IInv, IdsInv
          <6> QED  BY <3>2, <5>1, <6>1, <6>2 DEF IInv, QueueInv
        <5>2. CASE Cmd.kind = "run_deleted"  BY <4>1, <5>2, <1>3
        <5> QED  BY <5>1, <5>2, <1>1 DEF Structural
      <4> QED  BY <3>2, <4>1, <4>2, <1>6, <2>1
    <3> QED  BY <3>1, <3>2
  <2>3. \A h \in handlers : run'[h.run].created /\ h.nr < events
    <3>1. \A h \in handlers : h.run \in Runs  BY DEF IInv, Shape
    <3> QED  BY <1>6, <3>1 DEF IInv, QueueInv
  <2>4. Cmd.kind = "run_deleted" => run'[Cmd.run].deleted  BY <1>0, <1>4
  <2> QED  BY <1>1, <1>5, <2>2, <2>3, <2>4 DEF IInv, QueueInv
<1>10. IndexInv'
  <2>1. ASSUME NEW p \in Principals
        PROVE  index[p] = {x \in Runs : Visible(run'[x]) /\ run'[x].by = p}
    <3>1. index[p] = {x \in Runs :
            \/ Visible(run[x]) /\ run[x].by = p /\ ~(Cmd.kind = "run_deleted" /\ r = x)
            \/ Cmd.kind = "run_created" /\ r = x /\ owner[Cmd.creator] = p}
      BY <1>0, <1>1 DEF IInv, IndexInv
    <3>2. CASE Cmd.kind = "run_created"
      BY <3>1, <3>2, <1>2, <1>4 DEF Visible, NoRun
    <3>3. CASE Cmd.kind = "run_deleted"
      BY <3>1, <3>3, <1>4 DEF Visible
    <3> QED  BY <3>2, <3>3, <1>1 DEF Structural
  <2> QED  BY <1>1, <1>5, <2>1 DEF IndexInv
<1>11. EntryInv'  BY <1>5 DEF IInv, EntryInv
<1>12. ReservationsAreGuards'  BY <1>5 DEF IInv, ReservationsAreGuards, Guards
<1>13. BoundsInv'  BY <1>5 DEF IInv, BoundsInv, QueuedEvents
<1>14. AccountInv'
  <2>1. CASE Cmd.kind = "run_created"
    <3>1. PICK d \in Creators, q \in Principals : d = Cmd.creator /\ q = owner[d]  BY <1>2, <2>1
    <3>2. ~run[r].created  BY <1>2, <2>1 DEF NoRun
    <3> QED  BY <1>0, <1>1, <1>4, <2>1, <3>1, <3>2, CreatedAccount
  <2>2. CASE Cmd.kind = "run_deleted"
    <3>1. \A p : ActiveRuns(p)' \subseteq ActiveRuns(p)
      BY <1>1, <1>4, <2>2 DEF ActiveRuns, BeingDeleted, Active, Visible
    <3>2. \A e \in Creators : (Queued(e)' <=> Queued(e)) /\ (Uncreated(e)' => Uncreated(e))
      BY <1>5, <1>6 DEF Queued, Uncreated, IInv, Shape
    <3>3. \A p : Due(p)' \subseteq Due(p) /\ Orphans(p)' \subseteq Orphans(p)
      BY <1>5, <3>2 DEF Due, Orphans
    <3> QED  BY <1>5, <3>1, <3>3, AccountKept DEF IInv
  <2> QED  BY <2>1, <2>2, <1>1 DEF Structural
<1> QED  BY <1>7, <1>8, <1>9, <1>10, <1>11, <1>12, <1>13, <1>14 DEF IInv

-----------------------------------------------------------------------------
(* Theorems *)

LEMMA NextInv == IInv /\ [Next]_vars => IInv'
<1> SUFFICES ASSUME IInv, [Next]_vars  PROVE IInv'  OBVIOUS
<1>1. CASE WriterStep
  BY <1>1, RejectStep, ApplyOrdinaryStep, UpdateIndexStep, InsertRunStep DEF WriterStep
<1>2. ASSUME NEW c \in Creators, CreatorStep(c) \/ Cancel(c)  PROVE IInv'
  BY <1>2, BeginReserveStep, CountRunStep, RefuseStep, ReserveStep, SendCreateStep, SendRefusedStep,
     DropGuardStep, CancelStep DEF CreatorStep
<1>3. ASSUME NEW r \in Runs, Expire(r) \/ \E kind \in EventKinds : CheckRun(r, kind)  PROVE IInv'
  BY <1>3, ExpireStep, CheckRunStep
<1>4. ASSUME NEW h \in handlers, SendEvent(h)  PROVE IInv'
  BY <1>4, SendEventStep
<1>5. CASE UNCHANGED vars
  <2> USE <1>5 DEF vars, registry, creators, history
  <2>1. Shape' /\ IdsInv'  BY DEF IInv, Shape, IdsInv
  <2>2. QueueInv' /\ IndexInv'  BY DEF IInv, QueueInv, IndexInv, Cmd
  <2>3. EntryInv' /\ ReservationsAreGuards' /\ BoundsInv'
    BY DEF IInv, EntryInv, ReservationsAreGuards, Guards, BoundsInv, QueuedEvents
  <2>4. \A p : ActiveRuns(p)' = ActiveRuns(p) /\ Due(p)' = Due(p) /\ Orphans(p)' = Orphans(p)
    BY DEF ActiveRuns, BeingDeleted, Cmd, Due, Orphans, Queued, Uncreated
  <2>5. AccountInv'  BY <2>4, AccountKept DEF IInv
  <2> QED  BY <2>1, <2>2, <2>3, <2>5 DEF IInv
<1> QED  BY <1>1, <1>2, <1>3, <1>4, <1>5 DEF Next

\* The inductive invariant: the counts, the queue and the writer's place in
\* it agree in every reachable state.
THEOREM SlotsInvariant == Spec => []IInv
<1> QED  BY InitInv, NextInv, PTL DEF Spec

LEMMA TypeFollows == IInv => TypeOK
<1> SUFFICES ASSUME IInv PROVE TypeOK  OBVIOUS
<1>1. reserved \in [Principals -> 0..Cardinality(Creators)]
  <2>1. \A p \in Principals : Guards(p) \in SUBSET Creators  BY DEF Guards
  <2>2. \A p \in Principals : Cardinality(Guards(p)) \in Nat
          /\ Cardinality(Guards(p)) <= Cardinality(Creators)
    BY <2>1, FiniteParts
  <2>3. \A p \in Principals : reserved[p] \in 0..Cardinality(Creators)
    BY <2>2, FiniteParts DEF IInv, ReservationsAreGuards
  <2> QED  BY <2>3 DEF IInv, Shape
<1>2. seen \in [Creators -> 0..Cardinality(Creators) + Cardinality(Runs)]
  <2>1. \A c \in Creators : Cardinality(todo[c]) \in Nat /\ seen[c] \in Nat
    BY FiniteParts DEF IInv, Shape
  <2>2. \A c \in Creators : seen[c] \in 0..Cardinality(Creators) + Cardinality(Runs)
    BY <2>1, FiniteParts DEF IInv, BoundsInv
  <2> QED  BY <2>2 DEF IInv, Shape
<1>3. revived \in [Principals -> 0..MaxEvents]
  <2>1. Cardinality(QueuedEvents) \in Nat /\ Cardinality(handlers) \in Nat
    BY QueuedEventsFinite, FS_CardinalityType DEF IInv, BoundsInv
  <2>2. \A p \in Principals : revived[p] \in Nat /\ events \in 0..MaxEvents  BY DEF IInv, Shape
  <2>3. \A p \in Principals : revived[p] \in 0..MaxEvents
    BY <2>1, <2>2 DEF IInv, BoundsInv
  <2> QED  BY <2>3 DEF IInv, Shape
<1> QED  BY <1>1, <1>2, <1>3 DEF IInv, Shape, TypeOK, Commands

LEMMA OverLimitFollows == IInv => OverLimitIsAccountedFor
<1> SUFFICES ASSUME IInv, NEW p \in Principals
             PROVE  Cardinality(ActiveRuns(p)) + Cardinality(Coming(p)) <= Limit + cancelled[p] + revived[p]
  BY DEF OverLimitIsAccountedFor
<1>1. Coming(p) \in SUBSET Due(p) /\ Due(p) \in SUBSET Creators /\ ActiveRuns(p) \in SUBSET Runs
  BY DEF Coming, Guards, Due, Holding, Uncreated, ActiveRuns
<1>2. /\ Cardinality(Coming(p)) <= Cardinality(Due(p)) /\ Cardinality(Due(p)) \in Nat
      /\ Cardinality(ActiveRuns(p)) \in Nat
  BY <1>1, FiniteParts
<1>3. Cardinality(Coming(p)) \in Nat
  <2>1. Coming(p) \in SUBSET Creators  BY <1>1
  <2> QED  BY <2>1, FiniteParts
<1>4. Cardinality(ActiveRuns(p)) + Cardinality(Due(p)) <= Limit + cancelled[p] + revived[p]
  BY DEF IInv, AccountInv, LimitInv
<1>5. cancelled[p] \in Nat /\ revived[p] \in Nat  BY DEF IInv, Shape
<1> QED  BY <1>2, <1>3, <1>4, <1>5

\* Every variable keeps its type; reservations never exceed the requests,
\* and a count never the requests and runs there are.
THEOREM SlotsTypeOK == Spec => []TypeOK
<1> QED  BY SlotsInvariant, TypeFollows, PTL

\* try_reserve_stream_slot counts from exact sources: a reservation for every
\* live StreamSlotGuard and no other, and, between two events of the timeline
\* writer, an index entry for every visible run of the principal and no other.
THEOREM SlotCountsAreExact == Spec => []CountsAreExact
<1>1. IInv => CountsAreExact
  BY DEF IInv, IndexInv, CountsAreExact, IndexMatchesRuns
<1> QED  BY <1>1, SlotsInvariant, PTL

\* The active stream limit is exceeded by no more than the creates cancelled
\* while their append was queued and the runs that an event revived.
THEOREM SlotLimitIsAccountedFor == Spec => []OverLimitIsAccountedFor
<1> QED  BY SlotsInvariant, OverLimitFollows, PTL
=============================================================================
