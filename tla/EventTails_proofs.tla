------------------------- MODULE EventTails_proofs --------------------------
(***************************************************************************)
(* The warm event tails for every number of runs, pollers, records, caps   *)
(* and crashes: a ring answers what the log would, a poller is sent every  *)
(* record of its run once, and a restart builds the rings the writer had.  *)
(***************************************************************************)
EXTENDS EventTails, FiniteSetTheorems, SequenceTheorems, WellFoundedInduction, TLAPS

USE CapsAssumption, BatchAssumption, BoundsAssumption

-----------------------------------------------------------------------------
(* Numbers *)

(* A set of numbers has a least one. *)
LEMMA LeastNatural ==
  ASSUME NEW T \in SUBSET Nat, T # {}
  PROVE  \E n \in T : \A m \in T : n <= m
<1>1. PICK n \in T : \A m \in T : ~ (<<m, n>> \in OpToRel(<, Nat))
  BY NatLessThanWellFounded, WFMin
<1>2. \A m \in T : ~(m < n)
  BY <1>1 DEF OpToRel
<1> QED BY <1>2

(* A set that has 0 and with a number the next one has them all. *)
LEMMA Induction ==
  ASSUME NEW T \in SUBSET Nat, 0 \in T, \A n \in T : n + 1 \in T
  PROVE  T = Nat
<1> SUFFICES ASSUME Nat \ T # {} PROVE FALSE
  OBVIOUS
<1>1. PICK n \in Nat \ T : \A m \in Nat \ T : n <= m
  BY LeastNatural
<1>2. n - 1 \in Nat /\ n - 1 \notin Nat \ T
  BY <1>1
<1> QED BY <1>1, <1>2

(* A set of sequence numbers up to n, its least and its greatest element. *)
LEMMA Extremes ==
  ASSUME NEW n \in Nat, NEW S \in SUBSET (1..n), S # {}
  PROVE  /\ \E m \in S : \A s \in S : m <= s
         /\ \E m \in S : \A s \in S : s <= m
<1>1. \A s \in S : s \in Nat /\ s <= n
  OBVIOUS
<1>2. \E m \in S : \A s \in S : m <= s
  BY <1>1, LeastNatural
<1>3. \E m \in S : \A s \in S : s <= m
  <2> DEFINE T == {n - s : s \in S}
  <2>1. T \in SUBSET Nat /\ T # {}
    <3>1. \A s \in S : n - s \in Nat
      BY <1>1
    <3>2. PICK s \in S : TRUE
      OBVIOUS
    <3>3. n - s \in T
      OBVIOUS
    <3> QED BY <3>1, <3>3
  <2>2. PICK t \in T : \A u \in T : t <= u
    BY <2>1, LeastNatural
  <2>3. PICK m \in S : t = n - m
    BY <2>2
  <2>4. \A s \in S : n - m <= n - s
    BY <2>2, <2>3
  <2> QED BY <1>1, <2>4
<1> QED BY <1>2, <1>3

(* A set of sequence numbers is finite, and so are its subsets. *)
LEMMA Finite ==
  ASSUME NEW n \in Nat, NEW S \in SUBSET (1..n)
  PROVE  /\ IsFiniteSet(S) /\ Cardinality(S) \in Nat
         /\ \A T \in SUBSET S : /\ IsFiniteSet(T) /\ Cardinality(T) \in Nat
                                /\ Cardinality(T) <= Cardinality(S)
<1>1. IsFiniteSet(S)
  <2>1. 1 \in Int /\ n \in Int
    OBVIOUS
  <2>2. IsFiniteSet(1..n)
    BY <2>1, FS_Interval
  <2> QED BY <2>2, FS_Subset
<1>2. \A T \in SUBSET S : IsFiniteSet(T) /\ Cardinality(T) <= Cardinality(S)
  BY <1>1, FS_Subset
<1> QED BY <1>1, <1>2, FS_CardinalityType

-----------------------------------------------------------------------------
(* Rings *)

(* The newest record of a ring. *)
Newest(S) == CHOOSE s \in S : \A t \in S : t <= s

(* Of the first n records a ring of run r holds the newest ones of r: some,  *)
(* no more than fit, and none is missing behind the first one it holds.      *)
RingInv(events, n, r, S) ==
  /\ S \in SUBSET (1..n) /\ S # {} /\ Cardinality(S) <= TailCap
  /\ \A s \in S : events[s].run = r
  /\ \A s \in 1..n : events[s].run = r /\ (\E t \in S : t <= s) => s \in S

(* Newest is the largest member. *)
LEMMA NewestFacts ==
  ASSUME NEW n \in Nat, NEW S \in SUBSET (1..n), S # {}
  PROVE  Newest(S) \in S /\ Newest(S) \in 1..n /\ \A s \in S : s <= Newest(S)
<1>1. \E s : s \in S /\ \A t \in S : t <= s
  BY Extremes
<1>2. Newest(S) = CHOOSE s : s \in S /\ \A t \in S : t <= s
  BY Zenon DEF Newest
<1>3. Newest(S) \in S /\ \A s \in S : s <= Newest(S)
  BY <1>1, <1>2, Zenon
<1> QED BY <1>3

(* Least is the smallest member. *)
LEMMA LeastFacts ==
  ASSUME NEW n \in Nat, NEW S \in SUBSET (1..n), S # {}
  PROVE  Least(S) \in S /\ \A s \in S : Least(S) <= s
<1>1. \E s : s \in S /\ \A t \in S : s <= t
  BY Extremes
<1>2. Least(S) = CHOOSE s : s \in S /\ \A t \in S : s <= t
  BY Zenon DEF Least
<1> QED BY <1>1, <1>2, Zenon

(* Trimming keeps the largest, as many as fit. *)
LEMMA InsertFacts ==
  ASSUME NEW n \in Nat, NEW T \in SUBSET (1..n), NEW R, R = InsertEventBySeq(T, n + 1)
  PROVE  /\ R \in SUBSET (T \cup {n + 1}) /\ n + 1 \in R
         /\ Cardinality(R) <= TailCap
         /\ \A s \in R, u \in T \cup {n + 1} : s <= u => u \in R
<1> DEFINE H == T \cup {n + 1}
           Above(s) == {t \in H : t > s}
<1>1. H \in SUBSET (1..n + 1) /\ n + 1 \in H /\ n + 1 \in Nat
  OBVIOUS
<1>2. \A t \in H : t \in Nat /\ t <= n + 1
  OBVIOUS
<1> HIDE DEF H
<1>3. \A s : Above(s) \in SUBSET H
  OBVIOUS
<1>4. \A s \in H : IsFiniteSet(Above(s)) /\ Cardinality(Above(s)) \in Nat
  <2> HIDE DEF H, Above
  <2> QED BY <1>3, <1>1, Finite
<1>5. R = {s \in H : Cardinality(Above(s)) < TailCap}
  BY DEF InsertEventBySeq, H
<1>6. Above(n + 1) = {} /\ Cardinality(Above(n + 1)) = 0
  <2>1. \A t \in H : ~(t > n + 1)
    BY <1>2
  <2>2. Above(n + 1) = {}
    BY <2>1
  <2> QED BY <2>2, FS_EmptySet
<1>7. n + 1 \in R
  BY <1>1, <1>5, <1>6
<1>8. \A s \in R, u \in H : s <= u => u \in R
  <2> SUFFICES ASSUME NEW s \in R, NEW u \in H, s <= u PROVE u \in R
    OBVIOUS
  <2>1. s \in Nat /\ u \in Nat /\ s \in H
    BY <1>5, <1>2
  <2>2. Above(u) \in SUBSET Above(s)
    <3>1. \A t \in H : t > u => t > s
      BY <1>2, <2>1
    <3> QED BY <3>1
  <2>3. Cardinality(Above(u)) <= Cardinality(Above(s)) /\ Cardinality(Above(u)) \in Nat
        /\ Cardinality(Above(s)) \in Nat
    <3> HIDE DEF Above
    <3> QED BY <1>4, <2>1, <2>2, FS_Subset
  <2>4. Cardinality(Above(s)) < TailCap
    BY <1>5
  <2> QED BY <1>5, <2>3, <2>4
<1>9. Cardinality(R) <= TailCap
  <2>1. R \in SUBSET (1..n + 1) /\ R # {}
    BY <1>1, <1>5, <1>7
  <2>2. PICK m \in R : \A s \in R : m <= s
    BY ONLY <1>1, <2>1, Extremes
  <2>3. R \ {m} \in SUBSET Above(m) /\ m \in H
    <3>1. \A s \in R : s \in H /\ s \in Nat
      BY <1>5, <1>2
    <3>2. \A s \in R : s # m => s > m
      BY <2>2, <3>1
    <3> QED BY <3>1, <3>2
  <2>4. Cardinality(R \ {m}) <= Cardinality(Above(m)) /\ Cardinality(Above(m)) \in Nat
    <3> HIDE DEF Above
    <3> QED BY <1>4, <2>3, FS_Subset
  <2>5. Cardinality(Above(m)) < TailCap
    BY <1>5
  <2>6. IsFiniteSet(R) /\ Cardinality(R) \in Nat
    BY ONLY <1>1, <2>1, Finite
  <2>7. Cardinality(R \ {m}) = Cardinality(R) - 1
    BY <2>6, FS_RemoveElement
  <2> QED BY <2>4, <2>5, <2>6, <2>7
<1> QED BY <1>5, <1>7, <1>8, <1>9 DEF H

(* The next record of r enters its ring, or a new one. *)
LEMMA RingGrows ==
  ASSUME NEW n \in Nat, NEW events, NEW r, events[n + 1].run = r,
         NEW T, T = {} \/ RingInv(events, n, r, T),
         NEW R, R = InsertEventBySeq(T, n + 1)
  PROVE  RingInv(events, n + 1, r, R) /\ Newest(R) = n + 1
<1>1. T \in SUBSET (1..n)
  BY DEF RingInv
<1>2. /\ R \in SUBSET (T \cup {n + 1}) /\ n + 1 \in R
      /\ Cardinality(R) <= TailCap
      /\ \A s \in R, u \in T \cup {n + 1} : s <= u => u \in R
  BY <1>1, InsertFacts
<1>3. R \in SUBSET (1..n + 1) /\ R # {} /\ n + 1 \in Nat
  <2>1. T \cup {n + 1} \in SUBSET (1..n + 1)
    BY <1>1
  <2> QED BY <1>2, <2>1
<1>4. \A s \in R : events[s].run = r
  BY <1>2 DEF RingInv
<1>5. ASSUME NEW s \in 1..n + 1, events[s].run = r, NEW t \in R, t <= s PROVE s \in R
  <2>1. CASE s = n + 1
    BY <2>1, <1>2
  <2>2. CASE s # n + 1
    <3>1. s \in 1..n /\ t # n + 1
      BY <1>5, <2>2
    <3>2. t \in T
      BY <1>2, <3>1
    <3>3. s \in T
      BY <3>1, <3>2, <1>5 DEF RingInv
    <3> QED BY <1>2, <1>5, <3>3
  <2> QED BY <2>1, <2>2
<1>6. RingInv(events, n + 1, r, R)
  BY <1>2, <1>3, <1>4, <1>5 DEF RingInv
<1>7. Newest(R) \in 1..n + 1 /\ n + 1 <= Newest(R)
  BY <1>2, <1>3, NewestFacts
<1> QED BY <1>6, <1>7

(* A record of another run leaves the ring as good as it was. *)
LEMMA RingStays ==
  ASSUME NEW n \in Nat, NEW events, NEW r, NEW S, RingInv(events, n, r, S),
         events[n + 1].run # r
  PROVE  RingInv(events, n + 1, r, S)
<1>1. S \in SUBSET (1..n + 1) /\ \A s \in 1..n + 1 : s # n + 1 => s \in 1..n
  BY DEF RingInv
<1> QED BY <1>1 DEF RingInv

(* What a ring says depends on the records it covers only. *)
LEMMA RingOf ==
  ASSUME NEW n \in Nat, NEW events, NEW more, \A i \in 1..n : more[i] = events[i],
         NEW r, NEW S, RingInv(events, n, r, S)
  PROVE  RingInv(more, n, r, S)
  BY DEF RingInv
-----------------------------------------------------------------------------
(* Caches *)

IsFcn(f) == f = [x \in DOMAIN f |-> f[x]]

(* Every ring has a recency, at most t, and the recencies order the rings as *)
(* their newest records do.                                                  *)
CacheInv(c, events, n, t) ==
  /\ c = [tails |-> c.tails, recency |-> c.recency, tick |-> c.tick]
  /\ IsFcn(c.tails) /\ IsFcn(c.recency)
  /\ DOMAIN c.recency = DOMAIN c.tails
  /\ DOMAIN c.tails \subseteq Runs
  /\ IsFiniteSet(DOMAIN c.tails) /\ Cardinality(DOMAIN c.tails) <= WarmCap
  /\ \A r \in DOMAIN c.tails : /\ RingInv(events, n, r, c.tails[r])
                               /\ c.recency[r] \in Nat /\ c.recency[r] <= t
  /\ \A r, s \in DOMAIN c.tails :
       c.recency[r] <= c.recency[s] <=> Newest(c.tails[r]) <= Newest(c.tails[s])

(* The run whose newest record is the oldest: who is evicted depends on the *)
(* rings only.                                                              *)
Coldest(f) == CHOOSE r \in DOMAIN f : \A s \in DOMAIN f : Newest(f[r]) <= Newest(f[s])

(* What one record does to the rings of a cache. *)
TailsWith(f, r, seq) ==
  LET roomy == IF r \notin DOMAIN f /\ Cardinality(DOMAIN f) >= WarmCap
               THEN Without(f, Coldest(f)) ELSE f
      tail == IF r \in DOMAIN roomy THEN roomy[r] ELSE {}
  IN With(roomy, r, InsertEventBySeq(tail, seq))

TailsAfter(f, e, seq) ==
  IF e.kind = "run_deleted" THEN Without(f, e.run) ELSE TailsWith(f, e.run, seq)

(* What updating the fields of a cache gives. *)
LEMMA CacheUpdate ==
  ASSUME NEW c, c = [tails |-> c.tails, recency |-> c.recency, tick |-> c.tick],
         NEW f, NEW g
  PROVE  /\ [c EXCEPT !.tails = f, !.recency = g] = [tails |-> f, recency |-> g, tick |-> c.tick]
         /\ \A t : [c EXCEPT !.tick = t] = [tails |-> c.tails, recency |-> c.recency, tick |-> t]
<1> DEFINE a == c.tails
           b == c.recency
           d == c.tick
<1>1. c = [tails |-> a, recency |-> b, tick |-> d]
  OBVIOUS
<1> HIDE DEF a, b, d
<1>2. [c EXCEPT !.tails = f, !.recency = g] = [tails |-> f, recency |-> g, tick |-> d]
  <2> DEFINE k == [c EXCEPT !.tails = f]
  <2>1. [c EXCEPT !.tails = f, !.recency = g] = [k EXCEPT !.recency = g]
    OBVIOUS
  <2>2. k = [tails |-> f, recency |-> b, tick |-> d]
    BY <1>1
  <2> HIDE DEF k
  <2>3. [k EXCEPT !.recency = g] = [tails |-> f, recency |-> g, tick |-> d]
    BY <2>2
  <2> QED BY <2>1, <2>3
<1>3. \A t : [c EXCEPT !.tick = t] = [tails |-> a, recency |-> b, tick |-> t]
  BY <1>1
<1> QED BY <1>2, <1>3 DEF a, b, d

(* Without takes one key out and keeps the other values. *)
LEMMA WithoutFacts ==
  ASSUME NEW f, NEW x
  PROVE  /\ DOMAIN Without(f, x) = DOMAIN f \ {x}
         /\ \A s \in DOMAIN f \ {x} : Without(f, x)[s] = f[s]
         /\ IsFcn(Without(f, x))
<1> DEFINE w == Without(f, x)
           D == DOMAIN f \ {x}
<1>1. w = [s \in D |-> f[s]]
  BY DEF Without
<1> HIDE DEF w
<1>2. DOMAIN w = D /\ \A s \in D : w[s] = f[s]
  BY <1>1
<1>3. IsFcn(w)
  BY <1>1 DEF IsFcn
<1> QED BY <1>2, <1>3 DEF w

(* With sets the value of one key and keeps the other values. *)
LEMMA WithFacts ==
  ASSUME NEW f, NEW x, NEW v
  PROVE  /\ DOMAIN With(f, x, v) = DOMAIN f \cup {x}
         /\ With(f, x, v)[x] = v
         /\ \A s \in DOMAIN f : s # x => With(f, x, v)[s] = f[s]
         /\ IsFcn(With(f, x, v))
<1> DEFINE w == With(f, x, v)
           D == DOMAIN f \cup {x}
<1>1. w = [s \in D |-> IF s = x THEN v ELSE f[s]]
  BY DEF With
<1> HIDE DEF w
<1>2. /\ DOMAIN w = D /\ w[x] = v
      /\ \A s \in DOMAIN f : s # x => w[s] = f[s]
  BY <1>1
<1>3. IsFcn(w)
  BY <1>1 DEF IsFcn
<1> QED BY <1>2, <1>3 DEF w

(* What a ring's newest record tells. *)
LEMMA NewestOfRing ==
  ASSUME NEW n \in Nat, NEW events, NEW c, NEW t, CacheInv(c, events, n, t),
         NEW r \in DOMAIN c.tails
  PROVE  /\ Newest(c.tails[r]) \in 1..n /\ events[Newest(c.tails[r])].run = r
<1>1. RingInv(events, n, r, c.tails[r])
  BY DEF CacheInv
<1> QED BY <1>1, NewestFacts DEF RingInv

(* The cache forgets a run. *)
LEMMA WithoutKeeps ==
  ASSUME NEW n \in Nat, NEW events, NEW c, NEW t, CacheInv(c, events, n, t), NEW x
  PROVE  CacheInv([tails |-> Without(c.tails, x), recency |-> Without(c.recency, x), tick |-> c.tick],
                  events, n, t)
<1> DEFINE f == Without(c.tails, x)
           g == Without(c.recency, x)
           d == [tails |-> f, recency |-> g, tick |-> c.tick]
<1>1. /\ DOMAIN f = DOMAIN c.tails \ {x} /\ IsFcn(f)
      /\ \A s \in DOMAIN f : f[s] = c.tails[s]
  <2>1. DOMAIN f = DOMAIN c.tails \ {x} /\ \A s \in DOMAIN c.tails \ {x} : f[s] = c.tails[s]
    BY WithoutFacts
  <2>2. IsFcn(f)
    BY WithoutFacts
  <2> HIDE DEF f
  <2> QED BY <2>1, <2>2
<1>2. DOMAIN c.recency = DOMAIN c.tails
  BY DEF CacheInv
<1>3. /\ DOMAIN g = DOMAIN f /\ IsFcn(g)
      /\ \A s \in DOMAIN f : g[s] = c.recency[s]
  <2>1. DOMAIN g = DOMAIN c.recency \ {x} /\ \A s \in DOMAIN c.recency \ {x} : g[s] = c.recency[s]
    BY WithoutFacts
  <2>2. IsFcn(g)
    BY WithoutFacts
  <2> HIDE DEF f, g
  <2> QED BY <1>1, <1>2, <2>1, <2>2
<1>4. d.tails = f /\ d.recency = g /\ d.tick = c.tick
  OBVIOUS
<1>5. d = [tails |-> d.tails, recency |-> d.recency, tick |-> d.tick]
  BY <1>4
<1> HIDE DEF d, f, g
<1>6. IsFiniteSet(DOMAIN f) /\ Cardinality(DOMAIN f) <= WarmCap
  <2>1. DOMAIN f \in SUBSET DOMAIN c.tails /\ IsFiniteSet(DOMAIN c.tails)
        /\ Cardinality(DOMAIN c.tails) <= WarmCap
    BY <1>1 DEF CacheInv
  <2>2. /\ IsFiniteSet(DOMAIN f) /\ Cardinality(DOMAIN f) <= Cardinality(DOMAIN c.tails)
    BY <2>1, FS_Subset
  <2>3. Cardinality(DOMAIN f) \in Nat /\ Cardinality(DOMAIN c.tails) \in Nat
    BY <2>1, <2>2, FS_CardinalityType
  <2> QED BY <2>1, <2>2, <2>3
<1>7. DOMAIN f \subseteq Runs
  BY <1>1 DEF CacheInv
<1>8. \A r \in DOMAIN f : RingInv(events, n, r, f[r]) /\ g[r] \in Nat /\ g[r] <= t
  BY <1>1, <1>3 DEF CacheInv
<1>9. \A r, s \in DOMAIN f : g[r] <= g[s] <=> Newest(f[r]) <= Newest(f[s])
  BY <1>1, <1>3 DEF CacheInv
<1>10. CacheInv(d, events, n, t)
  BY <1>1, <1>3, <1>4, <1>5, <1>6, <1>7, <1>8, <1>9 DEF CacheInv
<1> QED BY <1>10 DEF d, f, g

(* The least recent run is the one with the oldest newest record.          *)
LEMMA ColdestFacts ==
  ASSUME NEW n \in Nat, NEW events, NEW c, NEW t, CacheInv(c, events, n, t),
         DOMAIN c.tails # {}
  PROVE  /\ Coldest(c.tails) \in DOMAIN c.tails
         /\ EvictLeastRecentTail(c) =
              [tails |-> Without(c.tails, Coldest(c.tails)),
               recency |-> Without(c.recency, Coldest(c.tails)), tick |-> c.tick]
<1> DEFINE D == DOMAIN c.tails
           IsCold(r) == r \in D /\ \A s \in D : c.recency[r] <= c.recency[s]
           IsOld(r) == r \in D /\ \A s \in D : Newest(c.tails[r]) <= Newest(c.tails[s])
<1>1. DOMAIN c.recency = D /\ D # {}
  BY DEF CacheInv
<1>2. \A r \in D : IsCold(r) <=> IsOld(r)
  BY DEF CacheInv
<1>3. \E r : IsCold(r)
  <2> DEFINE T == {c.recency[r] : r \in D}
  <2>1. T \in SUBSET Nat /\ T # {}
    BY <1>1 DEF CacheInv
  <2>2. PICK m \in T : \A k \in T : m <= k
    BY <2>1, LeastNatural
  <2>3. PICK r \in D : m = c.recency[r]
    BY <2>2
  <2>4. IsCold(r)
    BY <2>2, <2>3
  <2> QED BY <2>4
<1>4. \A r, s : IsOld(r) /\ IsOld(s) => r = s
  <2> SUFFICES ASSUME NEW r, NEW s, IsOld(r), IsOld(s) PROVE r = s
    OBVIOUS
  <2>1. /\ Newest(c.tails[r]) \in 1..n /\ events[Newest(c.tails[r])].run = r
        /\ Newest(c.tails[s]) \in 1..n /\ events[Newest(c.tails[s])].run = s
    BY NewestOfRing
  <2>2. Newest(c.tails[r]) <= Newest(c.tails[s]) /\ Newest(c.tails[s]) <= Newest(c.tails[r])
    OBVIOUS
  <2>3. Newest(c.tails[r]) = Newest(c.tails[s])
    BY <2>1, <2>2
  <2> QED BY <2>1, <2>3
<1> DEFINE x == CHOOSE r : IsCold(r)
           y == CHOOSE r : IsOld(r)
<1>5. IsCold(x)
  <2> HIDE DEF IsCold
  <2> QED BY <1>3, Zenon
<1>6. IsOld(x)
  BY <1>2, <1>5
<1>7. IsOld(y)
  <2> HIDE DEF IsOld
  <2> QED BY <1>6, Zenon
<1>8. x = y
  <2> HIDE DEF x, y, IsOld
  <2> QED BY <1>4, <1>6, <1>7
<1>9. Coldest(c.tails) = y
  BY Zenon DEF Coldest
<1>10. EvictLeastRecentTail(c) = [c EXCEPT !.tails = Without(@, x), !.recency = Without(@, x)]
  <2>1. x = CHOOSE r \in DOMAIN c.recency :
                     \A s \in DOMAIN c.recency : c.recency[r] <= c.recency[s]
    BY <1>1, Zenon
  <2>2. DOMAIN c.recency # {}
    BY <1>1
  <2> HIDE DEF x
  <2> QED BY <2>1, <2>2, Zenon DEF EvictLeastRecentTail
<1> HIDE DEF x, y
<1>11. [c EXCEPT !.tails = Without(@, x), !.recency = Without(@, x)] =
         [tails |-> Without(c.tails, x), recency |-> Without(c.recency, x), tick |-> c.tick]
  <2>1. c = [tails |-> c.tails, recency |-> c.recency, tick |-> c.tick]
    BY DEF CacheInv
  <2> DEFINE f == Without(c.tails, x)
             g == Without(c.recency, x)
  <2>2. [c EXCEPT !.tails = Without(@, x), !.recency = Without(@, x)] =
          [c EXCEPT !.tails = f, !.recency = g]
    OBVIOUS
  <2> HIDE DEF f, g
  <2>3. [c EXCEPT !.tails = f, !.recency = g] = [tails |-> f, recency |-> g, tick |-> c.tick]
    BY <2>1, CacheUpdate
  <2> QED BY <2>2, <2>3 DEF f, g
<1> QED BY <1>5, <1>8, <1>9, <1>10, <1>11

(* A record of run r is added where there is room. *)
LEMMA WithKeeps ==
  ASSUME NEW n \in Nat, NEW events, NEW c, NEW t \in Nat, CacheInv(c, events, n, t),
         NEW r \in Runs, events[n + 1].run = r,
         r \in DOMAIN c.tails \/ Cardinality(DOMAIN c.tails) < WarmCap,
         NEW R, RingInv(events, n + 1, r, R), Newest(R) = n + 1,
         NEW touch \in Nat, touch > t, NEW tick
  PROVE  CacheInv([tails |-> With(c.tails, r, R), recency |-> With(c.recency, r, touch),
                   tick |-> tick], events, n + 1, touch)
<1> DEFINE f == With(c.tails, r, R)
           g == With(c.recency, r, touch)
           d == [tails |-> f, recency |-> g, tick |-> tick]
           D == DOMAIN c.tails
<1>1. /\ f = [s \in D \cup {r} |-> IF s = r THEN R ELSE c.tails[s]]
      /\ g = [s \in D \cup {r} |-> IF s = r THEN touch ELSE c.recency[s]]
  <2>1. DOMAIN c.recency = D
    BY DEF CacheInv
  <2>2. g = [s \in DOMAIN c.recency \cup {r} |-> IF s = r THEN touch ELSE c.recency[s]]
    BY Zenon DEF With
  <2>3. f = [s \in D \cup {r} |-> IF s = r THEN R ELSE c.tails[s]]
    BY Zenon DEF With
  <2> QED BY ONLY <2>1, <2>2, <2>3, Zenon
<1> HIDE DEF f, g
<1>2. DOMAIN f = D \cup {r} /\ f[r] = R /\ \A s \in D : s # r => f[s] = c.tails[s]
  BY <1>1
<1>3. DOMAIN g = D \cup {r} /\ g[r] = touch /\ \A s \in D : s # r => g[s] = c.recency[s]
  BY <1>1
<1>4. IsFcn(f) /\ IsFcn(g)
  BY <1>1 DEF IsFcn
<1>5. d.tails = f /\ d.recency = g
      /\ d = [tails |-> d.tails, recency |-> d.recency, tick |-> d.tick]
  OBVIOUS
<1> HIDE DEF d, f, g
<1>6. D \cup {r} \subseteq Runs
  BY DEF CacheInv
<1>7. IsFiniteSet(D \cup {r}) /\ Cardinality(D \cup {r}) <= WarmCap
  <2>1. IsFiniteSet(D) /\ Cardinality(D) <= WarmCap /\ Cardinality(D) \in Nat
    BY FS_CardinalityType DEF CacheInv
  <2>2. IsFiniteSet(D \cup {r})
        /\ Cardinality(D \cup {r}) = IF r \in D THEN Cardinality(D) ELSE Cardinality(D) + 1
    BY <2>1, FS_AddElement
  <2> QED BY <2>1, <2>2
<1>8. ASSUME NEW s \in D, s # r
      PROVE  /\ RingInv(events, n + 1, s, f[s]) /\ g[s] \in Nat /\ g[s] <= t
             /\ Newest(f[s]) \in 1..n
  <2>1. RingInv(events, n, s, c.tails[s]) /\ c.recency[s] \in Nat /\ c.recency[s] <= t
    BY DEF CacheInv
  <2>2. RingInv(events, n + 1, s, c.tails[s])
    BY <1>8, <2>1, RingStays
  <2>3. Newest(c.tails[s]) \in 1..n
    BY NewestOfRing
  <2> QED BY <1>2, <1>3, <1>8, <2>1, <2>2, <2>3
<1>9. \A s \in D \cup {r} : RingInv(events, n + 1, s, f[s]) /\ g[s] \in Nat /\ g[s] <= touch
  <2> SUFFICES ASSUME NEW s \in D \cup {r}
               PROVE  RingInv(events, n + 1, s, f[s]) /\ g[s] \in Nat /\ g[s] <= touch
    OBVIOUS
  <2>1. CASE s = r
    BY <1>2, <1>3, <2>1
  <2>2. CASE s # r
    BY <1>8, <2>2
  <2> QED BY <2>1, <2>2
<1>10. \A s, u \in D \cup {r} : g[s] <= g[u] <=> Newest(f[s]) <= Newest(f[u])
  <2> SUFFICES ASSUME NEW s \in D \cup {r}, NEW u \in D \cup {r}
               PROVE  g[s] <= g[u] <=> Newest(f[s]) <= Newest(f[u])
    OBVIOUS
  <2>1. g[r] = touch /\ Newest(f[r]) = n + 1
    BY <1>2, <1>3
  <2>2. CASE s # r /\ u # r
    BY <1>2, <1>3, <2>2 DEF CacheInv
  <2>3. CASE s = r /\ u # r
    BY <1>8, <2>1, <2>3
  <2>4. CASE s # r /\ u = r
    BY <1>8, <2>1, <2>4
  <2>5. CASE s = r /\ u = r
    BY <2>1, <2>5
  <2> QED BY <2>2, <2>3, <2>4, <2>5
<1>11. CacheInv(d, events, n + 1, touch)
  BY <1>2, <1>3, <1>4, <1>5, <1>6, <1>7, <1>9, <1>10 DEF CacheInv
<1> QED BY <1>11 DEF d, f, g

(* A deleted run leaves the cache. *)
LEMMA DropFacts ==
  ASSUME NEW n \in Nat, NEW events, NEW c, NEW t, CacheInv(c, events, n, t),
         NEW r, events[n + 1].run = r
  PROVE  /\ CacheInv(DropTail(c, r), events, n + 1, t)
         /\ DropTail(c, r).tails = Without(c.tails, r)
         /\ DropTail(c, r).tick = c.tick
<1> DEFINE f == Without(c.tails, r)
           g == Without(c.recency, r)
           d == [tails |-> f, recency |-> g, tick |-> c.tick]
<1>1. CacheInv(d, events, n, t)
  BY WithoutKeeps
<1>2. DropTail(c, r) = d
  <2> HIDE DEF f, g
  <2>1. c = [tails |-> c.tails, recency |-> c.recency, tick |-> c.tick]
    BY DEF CacheInv
  <2>2. [c EXCEPT !.tails = f, !.recency = g] = d
    BY <2>1, CacheUpdate
  <2>3. DropTail(c, r) = [c EXCEPT !.tails = f, !.recency = g]
    BY DEF DropTail, f, g
  <2> QED BY <2>2, <2>3
<1>3. d.tails = f /\ d.tick = c.tick /\ r \notin DOMAIN f
  <2>1. DOMAIN f = DOMAIN c.tails \ {r}
    BY WithoutFacts
  <2> HIDE DEF f
  <2> QED BY <2>1
<1> HIDE DEF d, f, g
<1>4. \A s \in DOMAIN d.tails : RingInv(events, n + 1, s, d.tails[s])
  BY <1>1, <1>3, RingStays DEF CacheInv
<1>5. CacheInv(d, events, n + 1, t)
  BY <1>1, <1>4 DEF CacheInv
<1> QED BY <1>2, <1>3, <1>5 DEF f

(* The next record enters the ring of its run. *)
LEMMA TouchFacts ==
  ASSUME NEW n \in Nat, NEW events, NEW c, NEW t \in Nat, CacheInv(c, events, n, t),
         NEW r \in Runs, events[n + 1].run = r, NEW touch \in Nat, touch > t
  PROVE  LET d == TouchTail(c, r, n + 1, touch)
         IN  /\ d = [tails |-> d.tails, recency |-> d.recency, tick |-> d.tick]
             /\ d.tails = TailsWith(c.tails, r, n + 1) /\ d.tick = c.tick
             /\ \A tick : CacheInv([tails |-> d.tails, recency |-> d.recency, tick |-> tick],
                                   events, n + 1, touch)
<1> DEFINE x == Coldest(c.tails)
           roomy == IF NeedsRoom(c, r) THEN EvictLeastRecentTail(c) ELSE c
           tail == IF r \in DOMAIN roomy.tails THEN roomy.tails[r] ELSE {}
           R == InsertEventBySeq(tail, n + 1)
           f == With(roomy.tails, r, R)
           g == With(roomy.recency, r, touch)
<1>1. /\ CacheInv(roomy, events, n, t) /\ roomy.tick = c.tick
      /\ roomy.tails = IF r \notin DOMAIN c.tails /\ Cardinality(DOMAIN c.tails) >= WarmCap
                       THEN Without(c.tails, x) ELSE c.tails
      /\ r \in DOMAIN roomy.tails \/ Cardinality(DOMAIN roomy.tails) < WarmCap
  <2>1. IsFiniteSet(DOMAIN c.tails) /\ Cardinality(DOMAIN c.tails) \in Nat
        /\ Cardinality(DOMAIN c.tails) <= WarmCap
    BY FS_CardinalityType DEF CacheInv
  <2>2. CASE NeedsRoom(c, r)
    <3>1. r \notin DOMAIN c.tails /\ Cardinality(DOMAIN c.tails) >= WarmCap
      BY <2>2 DEF NeedsRoom
    <3>2. DOMAIN c.tails # {}
      <4>1. Cardinality({}) = 0
        BY FS_EmptySet
      <4>2. Cardinality(DOMAIN c.tails) # 0
        BY <2>1, <3>1, CapsAssumption
      <4> QED BY <4>1, <4>2
    <3>3. x \in DOMAIN c.tails
          /\ EvictLeastRecentTail(c) =
              [tails |-> Without(c.tails, x), recency |-> Without(c.recency, x), tick |-> c.tick]
      BY <3>2, ColdestFacts
    <3>4. roomy = [tails |-> Without(c.tails, x), recency |-> Without(c.recency, x), tick |-> c.tick]
      BY <2>2, <3>3
    <3> HIDE DEF roomy, x
    <3>5. CacheInv(roomy, events, n, t)
      BY <3>4, WithoutKeeps
    <3>6. roomy.tails = Without(c.tails, x) /\ roomy.tick = c.tick
      BY <3>4
    <3>7. DOMAIN roomy.tails = DOMAIN c.tails \ {x}
      BY <3>6, WithoutFacts
    <3>8. Cardinality(DOMAIN roomy.tails) = Cardinality(DOMAIN c.tails) - 1
      <4>1. IsFiniteSet(DOMAIN c.tails) /\ x \in DOMAIN c.tails
        BY <2>1, <3>3
      <4>2. Cardinality(DOMAIN c.tails \ {x}) = Cardinality(DOMAIN c.tails) - 1
        BY <4>1, FS_RemoveElement
      <4> QED BY <3>7, <4>2
    <3> QED BY <2>1, <3>1, <3>5, <3>6, <3>8
  <2>3. CASE ~NeedsRoom(c, r)
    <3>1. roomy = c
      BY <2>3
    <3> HIDE DEF roomy, x
    <3>2. ~(r \notin DOMAIN c.tails /\ Cardinality(DOMAIN c.tails) >= WarmCap)
      BY <2>3 DEF NeedsRoom
    <3> QED BY <2>1, <3>1, <3>2
  <2> QED BY <2>2, <2>3
<1>2. TouchTail(c, r, n + 1, touch) = [roomy EXCEPT !.tails = f, !.recency = g]
  BY DEF TouchTail
<1> HIDE DEF roomy
<1>3. tail = {} \/ RingInv(events, n, r, tail)
  BY <1>1 DEF CacheInv
<1>4. RingInv(events, n + 1, r, R) /\ Newest(R) = n + 1
  <2> HIDE DEF tail
  <2> QED BY <1>3, RingGrows
<1>5. f = TailsWith(c.tails, r, n + 1)
  <2> HIDE DEF x
  <2> QED BY <1>1 DEF TailsWith, x
<1> HIDE DEF R, tail, x
<1>6. \A tick : CacheInv([tails |-> f, recency |-> g, tick |-> tick], events, n + 1, touch)
  BY <1>1, <1>4, WithKeeps
<1> HIDE DEF f, g
<1>7. TouchTail(c, r, n + 1, touch) = [tails |-> f, recency |-> g, tick |-> roomy.tick]
  <2>1. roomy = [tails |-> roomy.tails, recency |-> roomy.recency, tick |-> roomy.tick]
    BY <1>1 DEF CacheInv
  <2> QED BY <1>2, <2>1, CacheUpdate
<1> QED BY <1>1, <1>5, <1>6, <1>7
-----------------------------------------------------------------------------
(* build_event_tails *)

(* What it does with one record. *)
Replay(events, c, seq) ==
  IF events[seq].kind = "run_deleted"
  THEN DropTail(c, events[seq].run) ELSE TouchTail(c, events[seq].run, seq, seq)

(* The fold of BuildEventTails, its function of sets written out. *)
LastOf(S) == CHOOSE i \in S : \A j \in S : i >= j
Index(n) == [i \in 1..n |-> i]
IsFold(it, D, n, events) ==
  it = [s \in SUBSET D |->
          IF s = {} THEN ColdCache
          ELSE Replay(events, it[s \ {LastOf(s)}], Index(n)[LastOf(s)])]
FoldOn(D, n, events) == CHOOSE it : IsFold(it, D, n, events)

(* BuildEventTails is this fold over the indices of the records. *)
LEMMA FoldDef ==
  ASSUME NEW events, NEW n
  PROVE  BuildEventTails(events, n) =
           FoldOn(DOMAIN Index(n), n, events)[DOMAIN Index(n)].tails
  BY Zenon DEF BuildEventTails, FoldLeft, MapThenFoldSet, Max, FoldOn, IsFold, LastOf, Replay, Index

(* LastOf is the largest member. *)
LEMMA LastOfFacts ==
  ASSUME NEW m \in Nat, NEW s \in SUBSET (1..m + 1), m + 1 \in s
  PROVE  LastOf(s) = m + 1
<1>1. \A j \in s : j <= m + 1 /\ j \in Int
  OBVIOUS
<1>2. \E i : i \in s /\ \A j \in s : i >= j
  BY <1>1
<1>3. LastOf(s) = CHOOSE i : i \in s /\ \A j \in s : i >= j
  BY Zenon DEF LastOf
<1>4. LastOf(s) \in s /\ \A j \in s : LastOf(s) >= j
  BY <1>2, <1>3, Zenon
<1>5. LastOf(s) \in Int /\ LastOf(s) <= m + 1 /\ m + 1 <= LastOf(s)
  BY <1>1, <1>4
<1> QED BY <1>5

(* The recursion that the fold asks for has a solution. *)
LEMMA FoldExists ==
  ASSUME NEW n \in Nat, NEW events, NEW k
  PROVE  \E it : IsFold(it, 1..n, k, events)
<1> DEFINE T == {m \in Nat : \E it : IsFold(it, 1..m, k, events)}
<1>1. 0 \in T
  <2> DEFINE it == [s \in SUBSET (1..0) |-> ColdCache]
  <2>1. \A s \in SUBSET (1..0) : s = {}
    OBVIOUS
  <2>2. IsFold(it, 1..0, k, events)
    BY <2>1 DEF IsFold
  <2> QED BY <2>2
<1>2. ASSUME NEW m \in T PROVE m + 1 \in T
  <2>1. PICK g : IsFold(g, 1..m, k, events)
    OBVIOUS
  <2> DEFINE h == [s \in SUBSET (1..m + 1) |->
                     IF m + 1 \in s
                     THEN Replay(events, g[s \ {m + 1}], Index(k)[m + 1])
                     ELSE g[s]]
  <2>2. ASSUME NEW s \in SUBSET (1..m + 1)
        PROVE  h[s] = IF s = {} THEN ColdCache
                      ELSE Replay(events, h[s \ {LastOf(s)}], Index(k)[LastOf(s)])
    <3>1. CASE m + 1 \in s
      <4>1. LastOf(s) = m + 1 /\ s # {}
        BY <3>1, LastOfFacts
      <4>2. s \ {m + 1} \in SUBSET (1..m + 1) /\ m + 1 \notin s \ {m + 1}
        OBVIOUS
      <4>3. h[s \ {m + 1}] = g[s \ {m + 1}]
        BY <4>2
      <4>4. h[s] = Replay(events, g[s \ {m + 1}], Index(k)[m + 1])
        BY <3>1
      <4> HIDE DEF h
      <4> QED BY <4>1, <4>3, <4>4
    <3>2. CASE m + 1 \notin s
      <4>1. \A j \in s : j \in 1..m
        <5>1. \A j \in 1..m + 1 : j # m + 1 => j \in 1..m
          OBVIOUS
        <5> QED BY <3>2, <5>1
      <4>2. s \in SUBSET (1..m) /\ s \ {LastOf(s)} \in SUBSET (1..m)
            /\ m + 1 \notin s \ {LastOf(s)} /\ s \ {LastOf(s)} \in SUBSET (1..m + 1)
        BY <3>2, <4>1
      <4>3. h[s] = g[s] /\ h[s \ {LastOf(s)}] = g[s \ {LastOf(s)}]
        BY <3>2, <4>2
      <4>4. g[s] = IF s = {} THEN ColdCache
                   ELSE Replay(events, g[s \ {LastOf(s)}], Index(k)[LastOf(s)])
        BY <2>1, <4>2 DEF IsFold
      <4> HIDE DEF h
      <4> QED BY <4>3, <4>4
    <3> QED BY <3>1, <3>2
  <2>3. h = [s \in SUBSET (1..m + 1) |-> h[s]]
    OBVIOUS
  <2> HIDE DEF h
  <2>4. IsFold(h, 1..m + 1, k, events)
    BY <2>2, <2>3 DEF IsFold
  <2> QED BY <2>4
<1>3. T = Nat
  <2> HIDE DEF T
  <2>1. T \in SUBSET Nat
    BY DEF T
  <2> QED BY <1>1, <1>2, <2>1, Induction
<1> QED BY <1>3

(* The caches on the way through the first n records. *)
IsReplay(f, events, n) ==
  /\ f[0] = ColdCache
  /\ \A k \in 0..n - 1 : f[k + 1] = Replay(events, f[k], k + 1)

(* build_event_tails takes the records one by one, in the order of the log. *)
LEMMA ReplayExists ==
  ASSUME NEW n \in Nat, NEW events
  PROVE  \E f : IsReplay(f, events, n) /\ f[n].tails = BuildEventTails(events, n)
<1> DEFINE it == FoldOn(1..n, n, events)
           f == [k \in 0..n |-> it[1..k]]
<1>1. it = [s \in SUBSET (1..n) |->
              IF s = {} THEN ColdCache
              ELSE Replay(events, it[s \ {LastOf(s)}], Index(n)[LastOf(s)])]
  <2>1. \E g : IsFold(g, 1..n, n, events)
    BY FoldExists
  <2>2. IsFold(it, 1..n, n, events)
    BY <2>1, Zenon DEF FoldOn
  <2> HIDE DEF it
  <2> QED BY <2>2 DEF IsFold
<1>2. DOMAIN Index(n) = 1..n /\ \A k \in 1..n : Index(n)[k] = k
  BY DEF Index
<1>3. f[n].tails = BuildEventTails(events, n)
  <2>1. BuildEventTails(events, n) = it[1..n].tails
    BY <1>2, FoldDef
  <2> HIDE DEF it
  <2> QED BY <2>1
<1> HIDE DEF it
<1>4. f[0] = ColdCache
  <2>1. 1..0 = {} /\ {} \in SUBSET (1..n)
    OBVIOUS
  <2>2. it[{}] = ColdCache
    BY <1>1, <2>1
  <2> QED BY <2>1, <2>2
<1>5. ASSUME NEW k \in 0..n - 1 PROVE f[k + 1] = Replay(events, f[k], k + 1)
  <2>1. LastOf(1..k + 1) = k + 1
    BY LastOfFacts
  <2>2. (1..k + 1) \ {k + 1} = 1..k /\ 1..k + 1 # {} /\ (1..k + 1) \in SUBSET (1..n)
    OBVIOUS
  <2>3. it[1..k + 1] = Replay(events, it[(1..k + 1) \ {LastOf(1..k + 1)}],
                              Index(n)[LastOf(1..k + 1)])
    BY <1>1, <2>2
  <2>4. k \in 0..n /\ k + 1 \in 0..n /\ k + 1 \in 1..n
    OBVIOUS
  <2> QED BY <1>2, <2>1, <2>2, <2>3, <2>4
<1> HIDE DEF f
<1>6. IsReplay(f, events, n)
  BY <1>4, <1>5 DEF IsReplay
<1> QED BY <1>3, <1>6

(* The caches depend on the records replayed and on nothing else.          *)
LEMMA ReplayUnique ==
  ASSUME NEW n \in Nat, NEW f, NEW g, NEW events, NEW more,
         IsReplay(f, events, n), IsReplay(g, more, n),
         \A i \in 1..n : more[i] = events[i]
  PROVE  g[n] = f[n]
<1> DEFINE T == {k \in Nat : k <= n => g[k] = f[k]}
<1>1. 0 \in T
  BY DEF IsReplay
<1>2. ASSUME NEW k \in T PROVE k + 1 \in T
  <2> SUFFICES ASSUME k + 1 <= n PROVE g[k + 1] = f[k + 1]
    OBVIOUS
  <2>1. k \in 0..n - 1 /\ k + 1 \in 1..n /\ g[k] = f[k]
    OBVIOUS
  <2>2. f[k + 1] = Replay(events, f[k], k + 1) /\ g[k + 1] = Replay(more, g[k], k + 1)
    BY <2>1 DEF IsReplay
  <2> QED BY <2>1, <2>2 DEF Replay
<1>3. T = Nat
  <2> HIDE DEF T
  <2>1. T \in SUBSET Nat
    BY DEF T
  <2> QED BY <1>1, <1>2, <2>1, Induction
<1> QED BY <1>3

(* The first n records have runs.                                          *)
Valid(events, n) == \A i \in 1..n : events[i].run \in Runs

(* Replaying a record keeps the cache, and what it does to the rings depends *)
(* on the rings only.                                                       *)
LEMMA ReplayStep ==
  ASSUME NEW n \in Nat, NEW events, Valid(events, n + 1), NEW c, CacheInv(c, events, n, n)
  PROVE  LET d == Replay(events, c, n + 1)
         IN  /\ CacheInv(d, events, n + 1, n + 1)
             /\ d.tails = TailsAfter(c.tails, events[n + 1], n + 1)
<1> DEFINE d == Replay(events, c, n + 1)
           r == events[n + 1].run
<1> SUFFICES CacheInv(d, events, n + 1, n + 1)
             /\ d.tails = TailsAfter(c.tails, events[n + 1], n + 1)
  OBVIOUS
<1>1. r \in Runs /\ n + 1 \in Nat /\ n + 1 > n
  BY DEF Valid
<1>2. CASE events[n + 1].kind = "run_deleted"
  <2>1. d = DropTail(c, r)
    BY <1>2 DEF Replay
  <2>2. CacheInv(d, events, n + 1, n) /\ d.tails = Without(c.tails, r)
    BY <2>1, DropFacts
  <2> HIDE DEF d
  <2>3. \A s \in DOMAIN d.tails : d.recency[s] \in Nat /\ d.recency[s] <= n + 1
    BY <2>2 DEF CacheInv
  <2>4. CacheInv(d, events, n + 1, n + 1)
    BY <2>2, <2>3 DEF CacheInv
  <2> QED BY <1>2, <2>2, <2>4 DEF TailsAfter
<1>3. CASE events[n + 1].kind # "run_deleted"
  <2>1. d = TouchTail(c, r, n + 1, n + 1)
    BY <1>3 DEF Replay
  <2>2. /\ d = [tails |-> d.tails, recency |-> d.recency, tick |-> d.tick]
        /\ d.tails = TailsWith(c.tails, r, n + 1)
        /\ \A tick : CacheInv([tails |-> d.tails, recency |-> d.recency, tick |-> tick],
                              events, n + 1, n + 1)
    BY <1>1, <2>1, TouchFacts
  <2> HIDE DEF d
  <2>3. CacheInv(d, events, n + 1, n + 1)
    BY <2>2
  <2> QED BY <1>3, <2>2, <2>3 DEF TailsAfter
<1> QED BY <1>2, <1>3

(* The empty cache is a good cache of no records. *)
LEMMA ColdFacts ==
  ASSUME NEW events, NEW n, NEW t
  PROVE  CacheInv(ColdCache, events, n, t) /\ ColdCache.tails = NoTails /\ ColdCache.tick = 0
<1>1. IsFcn([r \in {} |-> {}]) /\ IsFcn([r \in {} |-> 0])
  BY DEF IsFcn
<1>2. IsFiniteSet({}) /\ Cardinality({}) = 0
  BY FS_EmptySet
<1> QED BY <1>1, <1>2 DEF CacheInv, ColdCache, NoTails

(* Every cache of a replay is good. *)
LEMMA ReplayKeeps ==
  ASSUME NEW n \in Nat, NEW events, Valid(events, n), NEW f, IsReplay(f, events, n)
  PROVE  CacheInv(f[n], events, n, n)
<1> DEFINE T == {k \in Nat : k <= n => CacheInv(f[k], events, k, k)}
<1>1. 0 \in T
  BY ColdFacts DEF IsReplay
<1>2. ASSUME NEW k \in T PROVE k + 1 \in T
  <2> SUFFICES ASSUME k + 1 <= n PROVE CacheInv(f[k + 1], events, k + 1, k + 1)
    OBVIOUS
  <2>1. k \in 0..n - 1 /\ k \in Nat /\ CacheInv(f[k], events, k, k)
    OBVIOUS
  <2>2. Valid(events, k + 1)
    BY <2>1 DEF Valid
  <2>3. f[k + 1] = Replay(events, f[k], k + 1)
    BY <2>1 DEF IsReplay
  <2> QED BY <2>1, <2>2, <2>3, ReplayStep
<1>3. T = Nat
  <2> HIDE DEF T
  <2>1. T \in SUBSET Nat
    BY DEF T
  <2> QED BY <1>1, <1>2, <2>1, Induction
<1> QED BY <1>3

(* What a restart rebuilds from n records: good rings, the same from any log *)
(* that has these records, and one record more does to them what it does to  *)
(* the rings of a running writer.                                            *)
LEMMA BuiltTails ==
  ASSUME NEW n \in Nat, NEW events, Valid(events, n)
  PROVE  /\ \E c : CacheInv(c, events, n, n) /\ c.tails = BuildEventTails(events, n)
         /\ \A more : (\A i \in 1..n : more[i] = events[i]) =>
              BuildEventTails(more, n) = BuildEventTails(events, n)
         /\ Valid(events, n + 1) =>
              BuildEventTails(events, n + 1) =
                TailsAfter(BuildEventTails(events, n), events[n + 1], n + 1)
<1>1. PICK f : IsReplay(f, events, n) /\ f[n].tails = BuildEventTails(events, n)
  BY ReplayExists
<1>2. CacheInv(f[n], events, n, n)
  BY <1>1, ReplayKeeps
<1>3. ASSUME NEW more, \A i \in 1..n : more[i] = events[i]
      PROVE  BuildEventTails(more, n) = BuildEventTails(events, n)
  <2>1. PICK g : IsReplay(g, more, n) /\ g[n].tails = BuildEventTails(more, n)
    BY ReplayExists
  <2>2. g[n] = f[n]
    BY <1>1, <1>3, <2>1, ReplayUnique
  <2> QED BY <1>1, <2>1, <2>2
<1>4. ASSUME Valid(events, n + 1)
      PROVE  BuildEventTails(events, n + 1) =
               TailsAfter(BuildEventTails(events, n), events[n + 1], n + 1)
  <2>1. n + 1 \in Nat
    OBVIOUS
  <2>2. PICK g : IsReplay(g, events, n + 1) /\ g[n + 1].tails = BuildEventTails(events, n + 1)
    BY <2>1, ReplayExists
  <2>3. IsReplay(g, events, n) /\ g[n + 1] = Replay(events, g[n], n + 1)
    BY <2>2 DEF IsReplay
  <2>4. g[n] = f[n]
    BY <1>1, <2>3, ReplayUnique
  <2>5. Replay(events, f[n], n + 1).tails = TailsAfter(f[n].tails, events[n + 1], n + 1)
    BY <1>2, <1>4, ReplayStep
  <2> QED BY <1>1, <2>2, <2>3, <2>4, <2>5
<1> QED BY <1>1, <1>2, <1>3, <1>4

(* Before the first record. *)
LEMMA BuiltNothing == ASSUME NEW events PROVE BuildEventTails(events, 0) = NoTails
<1>1. PICK f : IsReplay(f, events, 0) /\ f[0].tails = BuildEventTails(events, 0)
  BY ReplayExists
<1> QED BY <1>1, ColdFacts DEF IsReplay
-----------------------------------------------------------------------------
(* A set read in increasing order *)

(* Functions that agree everywhere are the same. *)
LEMMA SameFcn ==
  ASSUME NEW D, NEW S, NEW f \in [D -> S], NEW g \in [D -> S], \A x \in D : f[x] = g[x]
  PROVE  f = g
  OBVIOUS

(* The place of x among the elements of S. *)
Rank(S, x) == Cardinality({y \in S : y <= x})

(* The places of the elements of S are the numbers 1 to its size. *)
LEMMA RankFacts ==
  ASSUME NEW n \in Nat, NEW S \in SUBSET (1..n)
  PROVE  /\ IsFiniteSet(S) /\ Cardinality(S) \in Nat
         /\ \A x \in S : Rank(S, x) \in 1..Cardinality(S)
         /\ \A x, y \in S : Rank(S, x) = Rank(S, y) => x = y
         /\ \A i \in 1..Cardinality(S) : \E x \in S : Rank(S, x) = i
<1> DEFINE Upto(x) == {y \in S : y <= x}
           N == Cardinality(S)
<1>1. IsFiniteSet(S) /\ N \in Nat
  BY Finite
<1>2. \A x : Upto(x) \in SUBSET S
  OBVIOUS
<1>3. \A x : IsFiniteSet(Upto(x)) /\ Cardinality(Upto(x)) \in Nat /\ Cardinality(Upto(x)) <= N
  <2> HIDE DEF Upto
  <2> QED BY <1>1, <1>2, Finite
<1>4. \A x \in S : x \in Nat /\ x \in Upto(x)
  OBVIOUS
<1>5. ASSUME NEW x \in S, NEW y \in S, x < y
      PROVE  Cardinality(Upto(x)) < Cardinality(Upto(y))
  <2>1. x \in Nat /\ y \in Nat /\ \A z \in S : z \in Nat
    BY <1>4
  <2>2. \A z \in S : z <= x => z <= y
    BY <1>5, <2>1
  <2>3. Upto(x) \in SUBSET Upto(y)
    BY <2>2
  <2>4. ~(y <= x)
    BY <1>5, <2>1
  <2>5. Upto(x) \in SUBSET Upto(y) /\ y \notin Upto(x) /\ y \in Upto(y)
    BY <1>4, <2>3, <2>4
  <2> HIDE DEF Upto
  <2>6. Upto(x) # Upto(y)
    BY <2>5
  <2>7. Cardinality(Upto(x)) <= Cardinality(Upto(y))
        /\ Cardinality(Upto(x)) # Cardinality(Upto(y))
    BY <1>3, <2>5, <2>6, FS_Subset
  <2> QED BY <1>3, <2>7
<1>6. \A x : Rank(S, x) = Cardinality(Upto(x))
  BY DEF Rank
<1>7. \A x \in S : Rank(S, x) \in 1..N
  <2> SUFFICES ASSUME NEW x \in S PROVE Rank(S, x) \in 1..N
    OBVIOUS
  <2> HIDE DEF Upto
  <2>1. Upto(x) # {}
    BY <1>4
  <2>2. Cardinality(Upto(x)) # 0
    BY <1>3, <2>1, FS_EmptySet
  <2> QED BY <1>1, <1>3, <1>6, <2>2
<1>8. \A x, y \in S : Rank(S, x) = Rank(S, y) => x = y
  <2> SUFFICES ASSUME NEW x \in S, NEW y \in S, Rank(S, x) = Rank(S, y), x # y PROVE FALSE
    OBVIOUS
  <2>1. x < y \/ y < x
    BY <1>4
  <2> HIDE DEF Upto
  <2>2. Cardinality(Upto(x)) = Cardinality(Upto(y)) /\ Cardinality(Upto(x)) \in Nat
    BY <1>3, <1>6
  <2> QED BY <1>5, <2>1, <2>2
<1>9. \A i \in 1..N : \E x \in S : Rank(S, x) = i
  <2> DEFINE f == [x \in S |-> Rank(S, x)]
  <2>1. f \in [S -> 1..N]
    BY <1>7
  <2>2. \A x, y \in S : f[x] = f[y] => x = y
    BY <1>8
  <2>3. \A x \in S : f[x] = Rank(S, x)
    OBVIOUS
  <2> HIDE DEF f
  <2>4. f \in Injection(S, 1..N)
    BY <2>1, <2>2 DEF Injection, IsInjective
  <2>5. IsFiniteSet(1..N) /\ Cardinality(1..N) = N
    <3>1. 1 \in Int /\ N \in Int
      BY <1>1
    <3>2. /\ IsFiniteSet(1..N)
          /\ Cardinality(1..N) = IF 1 > N THEN 0 ELSE N - 1 + 1
      BY <3>1, FS_Interval
    <3> HIDE DEF N
    <3> QED BY <1>1, <3>2
  <2>6. f \in Surjection(S, 1..N)
    BY <2>4, <2>5, FS_Injection
  <2> QED BY <2>3, <2>6 DEF Surjection
<1> QED BY <1>1, <1>7, <1>8, <1>9

(* Increasing lists every element of S at its place. *)
LEMMA IncreasingFacts ==
  ASSUME NEW n \in Nat, NEW S \in SUBSET (1..n)
  PROVE  /\ Increasing(S) \in Seq(S) /\ Len(Increasing(S)) = Cardinality(S)
         /\ \A i \in 1..Cardinality(S) :
              Increasing(S)[i] \in S /\ Rank(S, Increasing(S)[i]) = i
<1> DEFINE N == Cardinality(S)
           s == Increasing(S)
<1>1. N \in Nat /\ \A i \in 1..N : \E x : x \in S /\ Rank(S, x) = i
  <2>1. /\ Cardinality(S) \in Nat
        /\ \A i \in 1..Cardinality(S) : \E x \in S : Rank(S, x) = i
    BY RankFacts, Zenon
  <2> QED BY <2>1, Zenon
<1>2. s = [i \in 1..N |-> CHOOSE x \in S : Cardinality({y \in S : y <= x}) = i]
  BY Zenon DEF Increasing
<1> HIDE DEF s
<1>3. ASSUME NEW i \in 1..N PROVE s[i] \in S /\ Rank(S, s[i]) = i
  <2> DEFINE x == CHOOSE x : x \in S /\ Rank(S, x) = i
  <2>1. s[i] = CHOOSE z \in S : Cardinality({y \in S : y <= z}) = i
    BY <1>2
  <2>2. s[i] = x
    BY <2>1, Zenon DEF Rank
  <2>3. x \in S /\ Rank(S, x) = i
    <3>1. \E y : y \in S /\ Rank(S, y) = i
      BY <1>1
    <3> QED BY <3>1, Zenon
  <2> HIDE DEF x
  <2> QED BY <2>2, <2>3
<1>4. s \in Seq(S) /\ Len(s) = N
  <2> DEFINE e(i) == CHOOSE x \in S : Cardinality({y \in S : y <= x}) = i
  <2>1. s = [i \in 1..N |-> e(i)]
    BY <1>2, Zenon
  <2> HIDE DEF e
  <2>2. \A i \in 1..N : e(i) \in S
    BY <1>3, <2>1
  <2>3. s \in [1..N -> S]
    BY <2>1, <2>2
  <2> HIDE DEF N
  <2> QED BY <1>1, <2>3, SeqDef
<1> QED BY <1>3, <1>4 DEF s

(* Reading a set and then one behind it is reading both. *)
LEMMA IncreasingConcat ==
  ASSUME NEW n \in Nat, NEW A \in SUBSET (1..n), NEW B \in SUBSET (1..n),
         \A a \in A, b \in B : a < b
  PROVE  Increasing(A \cup B) = Increasing(A) \o Increasing(B)
<1> DEFINE S == A \cup B
           a == Increasing(A)
           b == Increasing(B)
           s == Increasing(S)
           k == Cardinality(A)
           l == Cardinality(B)
<1>1. S \in SUBSET (1..n) /\ A \cap B = {}
  OBVIOUS
<1>2. IsFiniteSet(A) /\ IsFiniteSet(B) /\ k \in Nat /\ l \in Nat
  BY RankFacts
<1>3. Cardinality(S) = k + l
  <2>1. Cardinality(S) = k + l - Cardinality(A \cap B)
    BY <1>2, FS_Union
  <2>2. Cardinality(A \cap B) = 0
    BY <1>1, FS_EmptySet
  <2> HIDE DEF S, k, l
  <2> QED BY <1>2, <2>1, <2>2
<1>4. \A x \in A : Rank(S, x) = Rank(A, x)
  <2> SUFFICES ASSUME NEW x \in A PROVE Rank(S, x) = Rank(A, x)
    OBVIOUS
  <2>1. \A z \in B : ~(z <= x)
    OBVIOUS
  <2>2. {y \in S : y <= x} = {y \in A : y <= x}
    BY <2>1
  <2> QED BY <2>2 DEF Rank
<1>5. \A x \in B : Rank(S, x) = k + Rank(B, x)
  <2> SUFFICES ASSUME NEW x \in B PROVE Rank(S, x) = k + Rank(B, x)
    OBVIOUS
  <2> DEFINE U == {y \in B : y <= x}
  <2>1. \A z \in A : z <= x
    OBVIOUS
  <2>2. {y \in S : y <= x} = A \cup U
    BY <2>1
  <2>3. A \cap U = {}
    BY <1>1
  <2>4. {y \in S : y <= x} = A \cup U /\ A \cap U = {} /\ U \in SUBSET (1..n)
    BY <2>2, <2>3
  <2>5. Rank(S, x) = Cardinality(A \cup U) /\ Rank(B, x) = Cardinality(U)
    BY <2>4 DEF Rank
  <2> HIDE DEF U
  <2>6. IsFiniteSet(U) /\ Cardinality(U) \in Nat
    BY <2>4, Finite
  <2>7. Cardinality(A \cup U) = Cardinality(A) + Cardinality(U) - Cardinality(A \cap U)
    BY <1>2, <2>6, FS_Union
  <2>8. Cardinality(A \cap U) = 0
    BY <2>4, FS_EmptySet
  <2> QED BY <1>2, <2>5, <2>6, <2>7, <2>8
<1>6. /\ a \in Seq(A) /\ Len(a) = k /\ \A i \in 1..k : a[i] \in A /\ Rank(A, a[i]) = i
      /\ b \in Seq(B) /\ Len(b) = l /\ \A i \in 1..l : b[i] \in B /\ Rank(B, b[i]) = i
  <2>1. a \in Seq(A) /\ Len(a) = k /\ \A i \in 1..k : a[i] \in A /\ Rank(A, a[i]) = i
    BY IncreasingFacts
  <2>2. b \in Seq(B) /\ Len(b) = l /\ \A i \in 1..l : b[i] \in B /\ Rank(B, b[i]) = i
    BY IncreasingFacts
  <2> QED BY <2>1, <2>2
<1>7. /\ s \in Seq(S) /\ Len(s) = k + l
      /\ \A i \in 1..k + l : s[i] \in S /\ Rank(S, s[i]) = i
  <2> HIDE DEF S
  <2> QED BY <1>1, <1>3, IncreasingFacts
<1>8. \A x, y \in S : Rank(S, x) = Rank(S, y) => x = y
  <2> HIDE DEF S
  <2> QED BY <1>1, RankFacts
<1> HIDE DEF s, a, b, k, l
<1>9. ASSUME NEW i \in 1..k + l
      PROVE  s[i] = IF i <= k THEN a[i] ELSE b[i - k]
  <2>1. s[i] \in S /\ Rank(S, s[i]) = i
    BY <1>7
  <2>2. CASE i <= k
    <3>1. i \in 1..k
      BY <1>2, <2>2
    <3>2. a[i] \in A /\ a[i] \in S /\ Rank(S, a[i]) = i
      BY <1>4, <1>6, <3>1
    <3> HIDE DEF S
    <3> QED BY <1>8, <2>1, <2>2, <3>2
  <2>3. CASE ~(i <= k)
    <3>1. i - k \in 1..l /\ k + (i - k) = i
      BY <1>2, <2>3
    <3>2. b[i - k] \in B /\ b[i - k] \in S /\ Rank(B, b[i - k]) = i - k
      BY <1>6, <3>1
    <3>3. Rank(S, b[i - k]) = i
      BY <1>5, <3>1, <3>2
    <3> HIDE DEF S
    <3> QED BY <1>8, <2>1, <2>3, <3>2, <3>3
  <2> QED BY <2>2, <2>3
<1>10. /\ a \o b \in Seq(S) /\ Len(a \o b) = k + l
       /\ \A i \in 1..k + l : (a \o b)[i] = IF i <= k THEN a[i] ELSE b[i - k]
  <2>1. a \in Seq(S) /\ b \in Seq(S)
    <3>1. \A i \in 1..k : a[i] \in S
      BY <1>6
    <3>2. \A i \in 1..l : b[i] \in S
      BY <1>6
    <3>3. a \in [1..k -> A] /\ b \in [1..l -> B]
      BY <1>6, LenProperties
    <3>4. a \in [1..k -> S] /\ b \in [1..l -> S]
      BY <3>1, <3>2, <3>3
    <3> HIDE DEF S
    <3> QED BY <1>2, <3>4, SeqDef
  <2> HIDE DEF S
  <2>2. /\ a \o b \in Seq(S) /\ Len(a \o b) = Len(a) + Len(b)
        /\ \A i \in 1..Len(a) + Len(b) : (a \o b)[i] = IF i <= Len(a) THEN a[i] ELSE b[i - Len(a)]
    BY <2>1, ConcatProperties
  <2> QED BY <1>6, <2>2
<1>11. s = a \o b
  <2>1. s \in [1..k + l -> S]
    <3> HIDE DEF S
    <3> QED BY <1>7, LenProperties
  <2>2. a \o b \in [1..k + l -> S]
    <3> HIDE DEF S
    <3> QED BY <1>10, LenProperties
  <2>3. \A i \in 1..k + l : s[i] = (a \o b)[i]
    BY <1>9, <1>10
  <2> DEFINE c == a \o b
             D == 1..k + l
  <2>4. c \in [1..k + l -> S] /\ \A i \in 1..k + l : s[i] = c[i]
    BY <2>2, <2>3
  <2> HIDE DEF c, S, D
  <2>5. s \in [D -> S] /\ c \in [D -> S] /\ \A i \in D : s[i] = c[i]
    BY <2>1, <2>4 DEF D
  <2>6. s = c
    BY <2>5, SameFcn
  <2> QED BY <2>6 DEF c
<1> QED BY <1>11 DEF s, a, b
-----------------------------------------------------------------------------
(* The inductive invariant *)

(* A counter never runs ahead of the log. *)
LogInv ==
  /\ log \in Seq(Records) /\ Len(log) <= MaxLog
  /\ {published, next_seq, acked, snapshot.max_seq} \subseteq 0..Len(log)
  /\ crashes \in 0..MaxCrashes
  /\ wpc \in WriterPCs

(* How far the counters are at each step of the writer. *)
PhaseInv ==
  /\ wpc \in {"recv", "reply"} =>
       next_seq = Len(log) /\ published = Len(log) /\ snapshot.max_seq = Len(log)
  /\ wpc = "store" => next_seq = published /\ snapshot.max_seq = published /\ published < Len(log)
  /\ wpc = "apply" => published = Len(log) /\ next_seq < Len(log)
  /\ wpc = "publish" => published = Len(log) /\ next_seq = Len(log)
  /\ AnswerIsWarm

(* The writer's rings are good, and what a restart would build. *)
TailsInv ==
  /\ cache.tick \in Nat /\ CacheInv(cache, log, next_seq, cache.tick)
  /\ cache.tails = BuildEventTails(log, next_seq)

(* What was published is good as of its max_seq. *)
SnapshotInv ==
  /\ DOMAIN snapshot.tails \subseteq Runs /\ Cardinality(DOMAIN snapshot.tails) <= WarmCap
  /\ \A r \in DOMAIN snapshot.tails : RingInv(log, snapshot.max_seq, r, snapshot.tails[r])

(* The records of its run that poller p has gone past. *)
Seen(p) == {s \in DOMAIN log : log[s].run = target[p] /\ s < cursor[p]}

PollInv ==
  /\ ppc \in [Pollers -> {"idle", "load", "scan"}]
  /\ target \in [Pollers -> Runs]
  /\ cursor \in [Pollers -> 0..Len(log) + 1]
  /\ bound \in [Pollers -> 0..Len(log)]
  /\ got = [p \in Pollers |-> Increasing(Seen(p))]

IInv == LogInv /\ PhaseInv /\ TailsInv /\ SnapshotInv /\ PollInv

(* The log, as a function. *)
LEMMA LogFacts ==
  ASSUME LogInv
  PROVE  /\ Len(log) \in Nat /\ DOMAIN log = 1..Len(log)
         /\ \A i \in 1..Len(log) : log[i] \in Records
         /\ {published, next_seq, acked, snapshot.max_seq} \subseteq Nat
         /\ \A n \in 0..Len(log) : Valid(log, n)
<1>1. /\ Len(log) \in Nat /\ DOMAIN log = 1..Len(log)
      /\ \A i \in 1..Len(log) : log[i] \in Records
  BY LenProperties, ElementOfSeq DEF LogInv
<1>2. {published, next_seq, acked, snapshot.max_seq} \subseteq Nat
  BY <1>1 DEF LogInv
<1>3. \A n \in 0..Len(log) : Valid(log, n)
  BY <1>1 DEF Valid, Records
<1> QED BY <1>1, <1>2, <1>3

(* A longer log says the same of the records a cache covers. *)
LEMMA CacheOf ==
  ASSUME NEW n \in Nat, NEW events, NEW more, \A i \in 1..n : more[i] = events[i],
         NEW c, NEW t, CacheInv(c, events, n, t)
  PROVE  CacheInv(c, more, n, t)
<1>1. \A r \in DOMAIN c.tails : RingInv(more, n, r, c.tails[r])
  BY RingOf DEF CacheInv
<1> QED BY <1>1 DEF CacheInv

LEMMA InitIInv == Init => IInv
<1> SUFFICES ASSUME Init PROVE IInv
  OBVIOUS
<1> USE DEF Init
<1>1. Len(log) = 0 /\ log \in Seq(Records) /\ DOMAIN log = {}
  OBVIOUS
<1>2. LogInv
  BY <1>1 DEF LogInv, WriterPCs
<1>3. PhaseInv
  BY DEF PhaseInv, AnswerIsWarm, Running
<1>4. TailsInv
  <2>1. CacheInv(ColdCache, log, 0, 0) /\ ColdCache.tails = NoTails /\ ColdCache.tick = 0
    BY ColdFacts
  <2>2. BuildEventTails(log, 0) = NoTails
    BY BuiltNothing
  <2> QED BY <2>1, <2>2 DEF TailsInv
<1>5. SnapshotInv
  <2>1. Cardinality({}) = 0
    BY FS_EmptySet
  <2> QED BY <2>1 DEF SnapshotInv, NoTails
<1>6. PollInv
  <2>1. \A p \in Pollers : Seen(p) = {}
    BY <1>1 DEF Seen
  <2>2. Increasing({}) = <<>>
    <3>1. Cardinality({}) = 0
      BY FS_EmptySet
    <3>2. {} \in SUBSET (1..0)
      OBVIOUS
    <3>3. Len(Increasing({})) = 0 /\ Increasing({}) \in Seq({})
      BY <3>1, <3>2, IncreasingFacts
    <3> QED BY <3>3, EmptySeq
  <2>3. got = [p \in Pollers |-> Increasing(Seen(p))]
    <3> DEFINE e(p) == Increasing(Seen(p))
    <3>1. \A p \in Pollers : e(p) = <<>>
      BY <2>1, <2>2
    <3> HIDE DEF e
    <3>2. got = [p \in Pollers |-> e(p)]
      BY <3>1
    <3> QED BY <3>2 DEF e
  <2>4. 0 \in 0..Len(log) + 1 /\ 0 \in 0..Len(log)
    BY <1>1
  <2> QED BY <2>3, <2>4 DEF PollInv
<1> QED BY <1>2, <1>3, <1>4, <1>5, <1>6 DEF IInv

-----------------------------------------------------------------------------
(* The writer's steps *)

(* A sync appends a batch of records. *)
LEMMA BatchFacts ==
  ASSUME LogInv, SyncBatch
  PROVE  /\ log' \in Seq(Records) /\ Len(log') \in Nat /\ Len(log') > Len(log)
         /\ Len(log') <= MaxLog /\ DOMAIN log' = 1..Len(log')
         /\ \A i \in 1..Len(log) : log'[i] = log[i]
<1>1. PICK batch \in Batches : Len(log) + Len(batch) <= MaxLog /\ log' = log \o batch
  BY DEF SyncBatch
<1>2. batch \in Seq(Records) /\ Len(batch) \in Nat /\ Len(batch) >= 1
  <2>1. PICK n \in Nat : n >= 1 /\ batch \in [1..n -> Records]
    <3>1. CASE batch \in [1..1 -> [run : Runs, kind : {"run_deleted"}]]
      <4>1. batch \in [1..1 -> Records]
        BY <3>1 DEF Records
      <4> QED BY <4>1
    <3>2. CASE \E n \in 1..BatchMax : batch \in [1..n -> [run : Runs, kind : {"event"}]]
      <4>1. PICK n \in 1..BatchMax : batch \in [1..n -> [run : Runs, kind : {"event"}]]
        BY <3>2
      <4>2. n \in Nat /\ n >= 1
        OBVIOUS
      <4>3. batch \in [1..n -> Records]
        BY <4>1 DEF Records
      <4> QED BY <4>2, <4>3
    <3>3. \/ batch \in [1..1 -> [run : Runs, kind : {"run_deleted"}]]
          \/ \E n \in 1..BatchMax : batch \in [1..n -> [run : Runs, kind : {"event"}]]
      <4> DEFINE F(n) == [1..n -> [run : Runs, kind : {"event"}]]
                 G == [1..1 -> [run : Runs, kind : {"run_deleted"}]]
                 Q == {F(n) : n \in 1..BatchMax}
      <4>1. batch \in (UNION Q) \cup G
        BY DEF Batches
      <4> HIDE DEF F, G
      <4>2. \A q \in Q : \E n \in 1..BatchMax : q = F(n)
        OBVIOUS
      <4> HIDE DEF Q
      <4>3. batch \in G \/ \E q \in Q : batch \in q
        BY <4>1
      <4>4. batch \in G \/ \E n \in 1..BatchMax : batch \in F(n)
        BY <4>2, <4>3
      <4> QED BY <4>4 DEF F, G
    <3> QED BY <3>1, <3>2, <3>3
  <2>2. batch \in Seq(Records)
    BY <2>1, SeqDef
  <2>3. Len(batch) = n
    BY <2>1, <2>2, LenProperties
  <2> QED BY <2>1, <2>2, <2>3
<1>3. log \in Seq(Records) /\ Len(log) \in Nat
  BY LogFacts DEF LogInv
<1>4. /\ log' \in Seq(Records) /\ Len(log') = Len(log) + Len(batch)
      /\ \A i \in 1..Len(log) + Len(batch) :
           log'[i] = IF i <= Len(log) THEN log[i] ELSE batch[i - Len(log)]
  BY <1>1, <1>2, <1>3, ConcatProperties
<1>5. DOMAIN log' = 1..Len(log')
  BY <1>4, LenProperties
<1>6. \A i \in 1..Len(log) : i \in 1..Len(log) + Len(batch) /\ i <= Len(log)
  BY <1>2, <1>3
<1> QED BY <1>1, <1>2, <1>3, <1>4, <1>5, <1>6

LEMMA SyncKeeps == ASSUME IInv, SyncBatch PROVE IInv'
<1>1. /\ log' \in Seq(Records) /\ Len(log') \in Nat /\ Len(log') > Len(log)
      /\ Len(log') <= MaxLog /\ DOMAIN log' = 1..Len(log')
      /\ \A i \in 1..Len(log) : log'[i] = log[i]
  BY BatchFacts DEF IInv
<1>2. /\ wpc = "recv" /\ wpc' = "store"
      /\ UNCHANGED <<published, next_seq, cache, snapshot, acked, crashes, ppc, target, cursor,
                     bound, got>>
  BY DEF SyncBatch, pollers
<1>3. /\ Len(log) \in Nat /\ DOMAIN log = 1..Len(log)
      /\ {published, next_seq, acked, snapshot.max_seq} \subseteq Nat
      /\ \A n \in 0..Len(log) : Valid(log, n)
      /\ {published, next_seq, acked, snapshot.max_seq} \subseteq 0..Len(log)
  BY LogFacts DEF IInv, LogInv
<1>4. LogInv'
  <2>1. {published, next_seq, acked, snapshot.max_seq} \subseteq 0..Len(log')
    BY <1>1, <1>3
  <2> QED BY <1>1, <1>2, <2>1 DEF IInv, LogInv, WriterPCs
<1>5. PhaseInv'
  BY <1>1, <1>2, <1>3 DEF IInv, PhaseInv, AnswerIsWarm, Running
<1>6. \A n \in 0..Len(log) : n \in Nat /\ \A i \in 1..n : log'[i] = log[i]
  BY <1>1, <1>3
<1>7. TailsInv'
  <2>1. next_seq \in 0..Len(log) /\ Valid(log, next_seq)
    BY <1>3
  <2>2. CacheInv(cache, log', next_seq, cache.tick)
    BY <1>6, <2>1, CacheOf DEF IInv, TailsInv
  <2>3. BuildEventTails(log', next_seq) = BuildEventTails(log, next_seq)
    BY <1>6, <2>1, BuiltTails
  <2> QED BY <1>2, <2>2, <2>3 DEF IInv, TailsInv
<1>8. SnapshotInv'
  <2>1. \A r \in DOMAIN snapshot.tails : RingInv(log', snapshot.max_seq, r, snapshot.tails[r])
    BY <1>3, <1>6, RingOf DEF IInv, SnapshotInv
  <2> QED BY <1>2, <2>1 DEF IInv, SnapshotInv
<1>9. PollInv'
  <2>1. \A p \in Pollers : Seen(p)' = Seen(p)
    <3> SUFFICES ASSUME NEW p \in Pollers PROVE Seen(p)' = Seen(p)
      OBVIOUS
    <3>1. cursor[p] \in 0..Len(log) + 1
      BY DEF IInv, PollInv
    <3>2. \A s \in 1..Len(log') : s < cursor[p] => s \in 1..Len(log)
      BY <1>1, <1>3, <3>1
    <3>3. \A s \in 1..Len(log) : s \in 1..Len(log')
      BY <1>1, <1>3
    <3> QED BY <1>1, <1>2, <1>3, <3>2, <3>3 DEF Seen
  <2>2. cursor \in [Pollers -> 0..Len(log') + 1] /\ bound \in [Pollers -> 0..Len(log')]
    <3>1. \A p \in Pollers : cursor[p] \in 0..Len(log') + 1 /\ bound[p] \in 0..Len(log')
      <4>1. \A p \in Pollers : cursor[p] \in 0..Len(log) + 1 /\ bound[p] \in 0..Len(log)
        BY DEF IInv, PollInv
      <4> QED BY <1>1, <1>3, <4>1
    <3> QED BY <3>1 DEF IInv, PollInv
  <2> QED BY <1>2, <2>1, <2>2 DEF IInv, PollInv
<1> QED BY <1>4, <1>5, <1>7, <1>8, <1>9 DEF IInv

(* A step that leaves the log and the pollers alone. *)
LEMMA SamePolls ==
  ASSUME PollInv, UNCHANGED <<log, ppc, target, cursor, bound, got>>
  PROVE  PollInv'
<1>1. \A p : Seen(p)' = Seen(p)
  BY DEF Seen
<1> QED BY <1>1 DEF PollInv

LEMMA StoreKeeps == ASSUME IInv, StoreCommittedEnd PROVE IInv'
<1>1. /\ wpc = "store" /\ wpc' = "apply" /\ published' = Len(log)
      /\ UNCHANGED <<log, next_seq, cache, snapshot, acked, crashes, ppc, target, cursor, bound, got>>
  BY DEF StoreCommittedEnd, pollers
<1>2. Len(log) \in Nat /\ {published, next_seq, acked, snapshot.max_seq} \subseteq Nat
  BY LogFacts DEF IInv
<1>3. LogInv'
  BY <1>1, <1>2 DEF IInv, LogInv, WriterPCs
<1>4. PhaseInv'
  BY <1>1, <1>2 DEF IInv, PhaseInv, AnswerIsWarm, Running
<1>5. TailsInv' /\ SnapshotInv' /\ PollInv'
  BY <1>1, SamePolls DEF IInv, TailsInv, SnapshotInv
<1> QED BY <1>3, <1>4, <1>5 DEF IInv

LEMMA ApplyKeeps == ASSUME IInv, ApplyCommittedEvent PROVE IInv'
<1> DEFINE n == next_seq
           t == cache.tick
           e == log[n + 1]
<1>1. /\ wpc = "apply" /\ next_seq' = n + 1 /\ cache' = ApplyToTails(cache, n + 1)
      /\ wpc' = (IF next_seq' = Len(log) THEN "publish" ELSE "apply")
      /\ UNCHANGED <<log, published, snapshot, acked, crashes, ppc, target, cursor, bound, got>>
  BY DEF ApplyCommittedEvent, pollers
<1>2. /\ Len(log) \in Nat /\ {published, next_seq, acked, snapshot.max_seq} \subseteq Nat
      /\ \A k \in 0..Len(log) : Valid(log, k)
  BY LogFacts DEF IInv
<1>3. n \in Nat /\ n < Len(log) /\ published = Len(log)
  BY <1>1, <1>2 DEF IInv, PhaseInv
<1>4. n \in 0..Len(log) /\ n + 1 \in 0..Len(log) /\ Valid(log, n) /\ Valid(log, n + 1)
  BY <1>2, <1>3
<1>5. LogInv'
  BY <1>1, <1>4 DEF IInv, LogInv, WriterPCs
<1>6. PhaseInv'
  BY <1>1, <1>2, <1>3 DEF IInv, PhaseInv, AnswerIsWarm, Running
<1>7. TailsInv'
  <2>1. t \in Nat /\ CacheInv(cache, log, n, t) /\ cache.tails = BuildEventTails(log, n)
    BY DEF IInv, TailsInv
  <2>2. e.run \in Runs
    BY <1>4 DEF Valid
  <2>3. BuildEventTails(log, n + 1) = TailsAfter(cache.tails, e, n + 1)
    BY <1>3, <1>4, <2>1, BuiltTails
  <2>4. /\ cache'.tick \in Nat /\ CacheInv(cache', log, n + 1, cache'.tick)
        /\ cache'.tails = TailsAfter(cache.tails, e, n + 1)
    <3>1. CASE e.kind = "run_deleted"
      <4>1. cache' = DropTail(cache, e.run)
        BY <1>1, <3>1 DEF ApplyToTails
      <4>2. /\ CacheInv(DropTail(cache, e.run), log, n + 1, t)
            /\ DropTail(cache, e.run).tails = Without(cache.tails, e.run)
            /\ DropTail(cache, e.run).tick = t
        BY <1>3, <2>1, DropFacts
      <4> HIDE DEF t, e, n
      <4> QED BY <2>1, <3>1, <4>1, <4>2 DEF TailsAfter
    <3>2. CASE e.kind # "run_deleted"
      <4> DEFINE d == TouchTail(cache, e.run, n + 1, t + 1)
      <4>1. cache' = [d EXCEPT !.tick = t + 1]
        BY <1>1, <3>2 DEF ApplyToTails
      <4>2. t + 1 \in Nat /\ t + 1 > t
        BY <2>1
      <4>3. /\ d = [tails |-> d.tails, recency |-> d.recency, tick |-> d.tick]
            /\ d.tails = TailsWith(cache.tails, e.run, n + 1)
            /\ \A tick : CacheInv([tails |-> d.tails, recency |-> d.recency, tick |-> tick],
                                  log, n + 1, t + 1)
        BY <1>3, <2>1, <2>2, <4>2, TouchFacts
      <4> HIDE DEF d, t, e, n
      <4>4. cache' = [tails |-> d.tails, recency |-> d.recency, tick |-> t + 1]
        BY <4>1, <4>3, CacheUpdate
      <4>5. cache'.tick = t + 1 /\ cache'.tails = d.tails
        BY <4>4
      <4>6. CacheInv(cache', log, n + 1, t + 1)
        BY <4>3, <4>4
      <4> QED BY <3>2, <4>2, <4>3, <4>5, <4>6 DEF TailsAfter
    <3> QED BY <3>1, <3>2
  <2> QED BY <1>1, <2>3, <2>4 DEF TailsInv
<1>8. SnapshotInv' /\ PollInv'
  BY <1>1, SamePolls DEF IInv, SnapshotInv
<1> QED BY <1>5, <1>6, <1>7, <1>8 DEF IInv

LEMMA PublishKeeps == ASSUME IInv, Publish PROVE IInv'
<1>1. /\ wpc = "publish" /\ wpc' = "reply"
      /\ snapshot' = [tails |-> cache.tails, max_seq |-> next_seq]
      /\ UNCHANGED <<log, published, next_seq, cache, acked, crashes, ppc, target, cursor, bound, got>>
  BY DEF Publish, pollers
<1>2. /\ Len(log) \in Nat /\ {published, next_seq, acked, snapshot.max_seq} \subseteq Nat
      /\ snapshot'.max_seq = next_seq /\ snapshot'.tails = cache.tails
  BY <1>1, LogFacts DEF IInv
<1>3. LogInv'
  BY <1>1, <1>2 DEF IInv, LogInv, WriterPCs
<1>4. PhaseInv'
  BY <1>1, <1>2 DEF IInv, PhaseInv, AnswerIsWarm, Running
<1>5. TailsInv' /\ PollInv'
  BY <1>1, SamePolls DEF IInv, TailsInv
<1>6. SnapshotInv'
  <2>1. CacheInv(cache, log, next_seq, cache.tick)
    BY DEF IInv, TailsInv
  <2> QED BY <1>1, <1>2, <2>1 DEF SnapshotInv, CacheInv
<1> QED BY <1>3, <1>4, <1>5, <1>6 DEF IInv

LEMMA ReplyKeeps == ASSUME IInv, Reply PROVE IInv'
<1>1. /\ wpc = "reply" /\ wpc' = "recv" /\ acked' = next_seq
      /\ UNCHANGED <<log, published, next_seq, cache, snapshot, crashes, ppc, target, cursor, bound, got>>
  BY DEF Reply, pollers
<1>2. Len(log) \in Nat /\ {published, next_seq, acked, snapshot.max_seq} \subseteq Nat
  BY LogFacts DEF IInv
<1>3. LogInv'
  BY <1>1, <1>2 DEF IInv, LogInv, WriterPCs
<1>4. PhaseInv'
  BY <1>1, <1>2 DEF IInv, PhaseInv, AnswerIsWarm, Running
<1>5. TailsInv' /\ SnapshotInv' /\ PollInv'
  BY <1>1, SamePolls DEF IInv, TailsInv, SnapshotInv
<1> QED BY <1>3, <1>4, <1>5 DEF IInv

LEMMA CrashKeeps == ASSUME IInv, Crash PROVE IInv'
<1>1. /\ wpc' = "down" /\ crashes < MaxCrashes /\ crashes' = crashes + 1
      /\ ppc' = [p \in Pollers |-> "idle"] /\ bound' = [p \in Pollers |-> 0]
      /\ UNCHANGED <<log, published, next_seq, cache, snapshot, acked, target, cursor, got>>
  BY DEF Crash
<1>2. Len(log) \in Nat
  BY LogFacts DEF IInv
<1>3. LogInv'
  BY <1>1 DEF IInv, LogInv, WriterPCs
<1>4. PhaseInv'
  BY <1>1 DEF PhaseInv, AnswerIsWarm, Running
<1>5. TailsInv' /\ SnapshotInv'
  BY <1>1 DEF IInv, TailsInv, SnapshotInv
<1>6. PollInv'
  <2>1. \A p : Seen(p)' = Seen(p)
    BY <1>1 DEF Seen
  <2> QED BY <1>1, <1>2, <2>1 DEF IInv, PollInv
<1> QED BY <1>3, <1>4, <1>5, <1>6 DEF IInv

(* The recency a restart gives to rebuilt rings. *)
LEMMA InitialFacts ==
  ASSUME NEW n \in Nat, NEW events, NEW c, CacheInv(c, events, n, n)
  PROVE  LET d == InitialCache(c.tails, n)
         IN  CacheInv(d, events, n, n) /\ d.tails = c.tails /\ d.tick = n
<1> DEFINE f == c.tails
           g == [r \in DOMAIN f |-> Newest(f[r])]
           d == [tails |-> f, recency |-> g, tick |-> n]
<1>1. InitialCache(c.tails, n) = d
  BY Zenon DEF InitialCache, Newest
<1>2. DOMAIN g = DOMAIN f /\ IsFcn(g) /\ \A r \in DOMAIN f : g[r] = Newest(f[r])
  BY DEF IsFcn
<1>3. \A r \in DOMAIN f : Newest(f[r]) \in 1..n
  BY NewestOfRing
<1> HIDE DEF f, g
<1>4. d.tails = f /\ d.recency = g /\ d.tick = n
      /\ d = [tails |-> d.tails, recency |-> d.recency, tick |-> d.tick]
  OBVIOUS
<1> HIDE DEF d
<1>5. /\ IsFcn(f) /\ DOMAIN f \subseteq Runs
      /\ IsFiniteSet(DOMAIN f) /\ Cardinality(DOMAIN f) <= WarmCap
      /\ \A r \in DOMAIN f : RingInv(events, n, r, f[r])
  BY DEF CacheInv, f
<1>6. \A r \in DOMAIN f : g[r] \in Nat /\ g[r] <= n
  BY <1>2, <1>3
<1>7. CacheInv(d, events, n, n)
  BY <1>2, <1>4, <1>5, <1>6 DEF CacheInv
<1> QED BY <1>1, <1>4, <1>7 DEF f

LEMMA RestoreKeeps == ASSUME IInv, Restore PROVE IInv'
<1> DEFINE n == Len(log)
<1>1. /\ wpc' = "recv" /\ published' = n /\ next_seq' = n
      /\ cache' = InitialCache(BuildEventTails(log, n), n)
      /\ snapshot' = [tails |-> BuildEventTails(log, n), max_seq |-> n]
      /\ UNCHANGED <<log, acked, crashes, ppc, target, cursor, bound, got>>
  BY DEF Restore, pollers
<1>2. n \in Nat /\ Valid(log, n) /\ acked \in 0..n
      /\ snapshot'.max_seq = n /\ snapshot'.tails = BuildEventTails(log, n)
  BY <1>1, LogFacts DEF IInv, LogInv
<1>3. LogInv'
  BY <1>1, <1>2 DEF IInv, LogInv, WriterPCs
<1>4. PhaseInv'
  BY <1>1, <1>2 DEF PhaseInv, AnswerIsWarm, Running
<1>5. PICK c : CacheInv(c, log, n, n) /\ c.tails = BuildEventTails(log, n)
  BY <1>2, BuiltTails
<1>6. TailsInv'
  <2>1. cache' = InitialCache(c.tails, n)
    BY <1>1, <1>5
  <2>2. CacheInv(cache', log, n, n) /\ cache'.tails = c.tails /\ cache'.tick = n
    BY <1>2, <1>5, <2>1, InitialFacts
  <2> QED BY <1>1, <1>2, <1>5, <2>2 DEF TailsInv
<1>7. SnapshotInv'
  BY <1>1, <1>2, <1>5 DEF SnapshotInv, CacheInv
<1>8. PollInv'
  BY <1>1, SamePolls DEF IInv
<1> QED BY <1>3, <1>4, <1>6, <1>7, <1>8 DEF IInv
-----------------------------------------------------------------------------
(* The pollers' steps *)

(* A reply that holds every record of the poller's run from its cursor up to *)
(* the first n records, and nothing else, moves what it has seen by that.    *)
LEMMA DeliverKeeps ==
  ASSUME LogInv, PollInv, NEW p \in Pollers, NEW n \in 0..Len(log),
         Deliver(p, ColdRead(target[p], cursor[p], n)),
         UNCHANGED <<log, target>>, bound' \in [Pollers -> 0..Len(log)]
  PROVE  PollInv'
<1> DEFINE A == ColdRead(target[p], cursor[p], n)
           L == Len(log)
<1>1. /\ L \in Nat /\ DOMAIN log = 1..L
      /\ cursor \in [Pollers -> 0..L + 1] /\ target \in [Pollers -> Runs]
      /\ got = [q \in Pollers |-> Increasing(Seen(q))]
  BY LogFacts DEF PollInv
<1>2. /\ got' = [got EXCEPT ![p] = @ \o Increasing(A)]
      /\ cursor' = [cursor EXCEPT ![p] = IF A = {} THEN @
                                         ELSE 1 + CHOOSE s \in A : \A t \in A : t <= s]
      /\ ppc' = [ppc EXCEPT ![p] = "idle"]
  BY DEF Deliver
<1>3. A = {s \in 1..n : log[s].run = target[p] /\ s >= cursor[p]}
  BY DEF ColdRead
<1> HIDE DEF A
<1>4. A \in SUBSET (1..L) /\ n \in Nat /\ A \in SUBSET (1..n) /\ cursor[p] \in Nat
  BY <1>1, <1>3
<1>5. Seen(p) \in SUBSET (1..L) /\ \A a \in Seen(p), b \in A : a < b
  BY <1>1, <1>3, <1>4 DEF Seen
<1>6. cursor'[p] \in 0..L + 1 /\ Seen(p)' = Seen(p) \cup A
  <2>1. CASE A = {}
    <3>1. cursor'[p] = cursor[p]
      BY <1>1, <1>2, <2>1
    <3> QED BY <1>1, <2>1, <3>1 DEF Seen
  <2>2. CASE A # {}
    <3> DEFINE m == Newest(A)
    <3>1. m \in A /\ \A s \in A : s <= m
      BY <1>4, <2>2, NewestFacts
    <3>2. cursor'[p] = 1 + m
      BY <1>1, <1>2, <2>2 DEF Newest
    <3> HIDE DEF m
    <3>3. m \in 1..L /\ m \in Nat /\ m <= n /\ m >= cursor[p]
      BY <1>3, <1>4, <3>1
    <3>4. ASSUME NEW s \in 1..L, log[s].run = target[p]
          PROVE  s < 1 + m <=> s < cursor[p] \/ s \in A
      <4>1. s \in A <=> s <= n /\ s >= cursor[p]
        BY <1>3, <1>4, <3>4
      <4>2. s \in A => s <= m
        BY <3>1
      <4> QED BY <1>4, <3>3, <4>1, <4>2
    <3>5. \A s \in A : s \in 1..L /\ log[s].run = target[p]
      BY <1>3, <1>4
    <3>6. Seen(p)' = {s \in 1..L : log[s].run = target[p] /\ s < 1 + m}
      BY <1>1, <3>2 DEF Seen
    <3>7. Seen(p) = {s \in 1..L : log[s].run = target[p] /\ s < cursor[p]}
      BY <1>1 DEF Seen
    <3>8. Seen(p)' = Seen(p) \cup A
      BY <3>4, <3>5, <3>6, <3>7
    <3> QED BY <1>1, <3>2, <3>3, <3>8
  <2> QED BY <2>1, <2>2
<1>7. Increasing(Seen(p) \cup A) = Increasing(Seen(p)) \o Increasing(A)
  <2> DEFINE B == Seen(p)
  <2>1. /\ L \in Nat /\ B \in SUBSET (1..L) /\ A \in SUBSET (1..L)
        /\ \A b \in B, a \in A : b < a
    BY <1>1, <1>4, <1>5
  <2> HIDE DEF B, L
  <2>2. Increasing(B \cup A) = Increasing(B) \o Increasing(A)
    BY ONLY <2>1, IncreasingConcat
  <2> QED BY <2>2 DEF B
<1>8. \A q \in Pollers : q # p => cursor'[q] = cursor[q]
  BY <1>1, <1>2
<1>9. \A q \in Pollers : got'[q] = Increasing(Seen(q)')
  <2> SUFFICES ASSUME NEW q \in Pollers PROVE got'[q] = Increasing(Seen(q)')
    OBVIOUS
  <2>1. CASE q = p
    <3>1. got'[p] = got[p] \o Increasing(A) /\ got[p] = Increasing(Seen(p))
      BY <1>1, <1>2
    <3> QED BY <1>6, <1>7, <2>1, <3>1
  <2>2. CASE q # p
    <3>1. got'[q] = got[q] /\ got[q] = Increasing(Seen(q))
      BY <1>1, <1>2, <2>2
    <3>2. Seen(q)' = Seen(q)
      BY <1>8, <2>2 DEF Seen
    <3> QED BY <3>1, <3>2
  <2> QED BY <2>1, <2>2
<1>10. got' = [q \in Pollers |-> Increasing(Seen(q))']
  <2> DEFINE e(q) == Increasing(Seen(q)')
  <2>1. \A q \in Pollers : got'[q] = e(q)
    BY <1>9
  <2>2. got' = [q \in Pollers |-> got'[q]]
    BY <1>1, <1>2
  <2> HIDE DEF e
  <2>3. got' = [q \in Pollers |-> e(q)]
    BY <2>1, <2>2
  <2> QED BY <2>3 DEF e
<1>11. cursor' \in [Pollers -> 0..L + 1]
  <2> DEFINE v == IF A = {} THEN cursor[p] ELSE 1 + CHOOSE s \in A : \A t \in A : t <= s
  <2>1. cursor' = [cursor EXCEPT ![p] = v]
    BY <1>2
  <2> HIDE DEF v
  <2>2. cursor'[p] = v
    BY <1>1, <2>1
  <2> QED BY <1>1, <1>6, <2>1, <2>2
<1>12. ppc' \in [Pollers -> {"idle", "load", "scan"}]
  BY <1>2 DEF PollInv
<1> QED BY <1>1, <1>10, <1>11, <1>12 DEF PollInv

(* What the ring answers is what the log would have answered at max_seq. *)
LEMMA WarmFacts ==
  ASSUME LogInv, SnapshotInv, NEW r, NEW from_seq \in Nat,
         NEW answer \in EventsSince(snapshot, r, from_seq)
  PROVE  answer = ColdRead(r, from_seq, snapshot.max_seq)
<1> DEFINE S == snapshot.tails[r]
           n == snapshot.max_seq
<1>1. /\ r \in DOMAIN snapshot.tails /\ ~(from_seq < Least(S))
      /\ answer = {s \in S : s >= from_seq}
  BY DEF EventsSince
<1>2. n \in Nat /\ RingInv(log, n, r, S)
  BY <1>1, LogFacts DEF SnapshotInv
<1>3. S \in SUBSET (1..n) /\ S # {}
  BY <1>2 DEF RingInv
<1>4. Least(S) \in S
  BY <1>2, <1>3, LeastFacts
<1> HIDE DEF S, n
<1>5. Least(S) \in Nat /\ Least(S) <= from_seq
  <2>1. ~(from_seq < Least(S))
    BY <1>1 DEF S
  <2>2. Least(S) \in 1..n
    BY <1>3, <1>4
  <2> HIDE DEF S
  <2> QED BY <1>2, <2>1, <2>2
<1>6. \A s \in 1..n : log[s].run = r /\ s >= from_seq => s \in S
  <2> SUFFICES ASSUME NEW s \in 1..n, log[s].run = r, s >= from_seq PROVE s \in S
    OBVIOUS
  <2>1. Least(S) <= s
    BY <1>2, <1>5
  <2> QED BY <1>2, <1>4, <2>1 DEF RingInv
<1>7. \A s \in S : s \in 1..n /\ log[s].run = r
  BY <1>2 DEF RingInv
<1>8. answer = {s \in 1..n : log[s].run = r /\ s >= from_seq}
  BY <1>1, <1>6, <1>7
<1> QED BY <1>8 DEF ColdRead, n

(* A poller's step leaves the writer alone. *)
LEMMA SameWriter ==
  ASSUME IInv, UNCHANGED <<writer, crashes>>
  PROVE  LogInv' /\ PhaseInv' /\ TailsInv' /\ SnapshotInv'
  BY DEF IInv, LogInv, PhaseInv, TailsInv, SnapshotInv, AnswerIsWarm, Running, writer

(* A poller's step that delivers nothing. *)
LEMMA MoveKeeps ==
  ASSUME LogInv, PollInv, NEW p \in Pollers, NEW l \in {"idle", "load", "scan"},
         ppc' = [ppc EXCEPT ![p] = l], bound' \in [Pollers -> 0..Len(log)],
         UNCHANGED <<log, target, cursor, got>>
  PROVE  PollInv'
<1>1. \A q : Seen(q)' = Seen(q)
  BY DEF Seen
<1>2. ppc' \in [Pollers -> {"idle", "load", "scan"}]
  BY DEF PollInv
<1> QED BY <1>1, <1>2 DEF PollInv

LEMMA PollWarmKeeps == ASSUME IInv, NEW p \in Pollers, PollWarm(p) PROVE IInv'
<1>1. UNCHANGED <<writer, crashes, target, bound>>
  BY DEF PollWarm
<1>2. /\ LogInv /\ SnapshotInv /\ PollInv /\ log' = log
      /\ bound' \in [Pollers -> 0..Len(log)] /\ cursor[p] \in Nat
      /\ snapshot.max_seq \in 0..Len(log)
  BY <1>1, LogFacts DEF IInv, PollInv, LogInv, writer
<1>3. PollInv'
  <2>1. CASE EventsSince(snapshot, target[p], cursor[p]) = {}
    <3>1. ppc' = [ppc EXCEPT ![p] = "load"] /\ UNCHANGED <<cursor, got>>
      BY <2>1 DEF PollWarm
    <3> QED BY <1>1, <1>2, <3>1, MoveKeeps
  <2>2. CASE EventsSince(snapshot, target[p], cursor[p]) # {}
    <3>1. PICK answer \in EventsSince(snapshot, target[p], cursor[p]) : Deliver(p, answer)
      BY <2>2 DEF PollWarm
    <3>2. answer = ColdRead(target[p], cursor[p], snapshot.max_seq)
      BY <1>2, <3>1, WarmFacts
    <3> QED BY <1>1, <1>2, <3>1, <3>2, DeliverKeeps
  <2> QED BY <2>1, <2>2
<1> QED BY <1>1, <1>3, SameWriter DEF IInv

LEMMA PollLoadKeeps == ASSUME IInv, NEW p \in Pollers, PollLoad(p) PROVE IInv'
<1>1. /\ bound' = [bound EXCEPT ![p] = published] /\ ppc' = [ppc EXCEPT ![p] = "scan"]
      /\ UNCHANGED <<writer, crashes, target, cursor, got>>
  BY DEF PollLoad
<1>2. bound' \in [Pollers -> 0..Len(log)] /\ log' = log
  BY <1>1 DEF IInv, PollInv, LogInv, writer
<1>3. PollInv'
  BY <1>1, <1>2, MoveKeeps DEF IInv
<1> QED BY <1>1, <1>3, SameWriter DEF IInv

LEMMA PollScanKeeps == ASSUME IInv, NEW p \in Pollers, PollScan(p) PROVE IInv'
<1>1. /\ Deliver(p, ColdRead(target[p], cursor[p], bound[p])) /\ bound' = [bound EXCEPT ![p] = 0]
      /\ UNCHANGED <<writer, crashes, target>>
  BY DEF PollScan
<1>2. bound' \in [Pollers -> 0..Len(log)] /\ log' = log /\ bound[p] \in 0..Len(log)
  <2>1. Len(log) \in Nat /\ bound \in [Pollers -> 0..Len(log)]
    BY LogFacts DEF IInv, PollInv
  <2> QED BY <1>1, <2>1 DEF writer
<1>3. PollInv'
  BY <1>1, <1>2, DeliverKeeps DEF IInv
<1> QED BY <1>1, <1>3, SameWriter DEF IInv

LEMMA NextKeepsIInv == IInv /\ [Next]_vars => IInv'
<1> SUFFICES ASSUME IInv, [Next]_vars PROVE IInv'
  OBVIOUS
<1>1. CASE UNCHANGED vars
  <2>1. UNCHANGED <<writer, crashes, pollers>>
    BY <1>1 DEF vars
  <2>2. PollInv'
    BY <2>1, SamePolls DEF IInv, writer, pollers
  <2> QED BY <2>1, <2>2, SameWriter DEF IInv
<1>2. CASE SyncBatch \/ StoreCommittedEnd \/ ApplyCommittedEvent \/ Publish \/ Reply
  BY <1>2, SyncKeeps, StoreKeeps, ApplyKeeps, PublishKeeps, ReplyKeeps
<1>3. CASE Crash \/ Restore
  BY <1>3, CrashKeeps, RestoreKeeps
<1>4. CASE \E p \in Pollers : PollWarm(p) \/ PollLoad(p) \/ PollScan(p)
  BY <1>4, PollWarmKeeps, PollLoadKeeps, PollScanKeeps
<1> QED BY <1>1, <1>2, <1>3, <1>4 DEF Next

-----------------------------------------------------------------------------
(* The inductive invariant holds in every reachable state. *)
THEOREM TailsInvariance == Spec => []IInv
  BY InitIInv, NextKeepsIInv, PTL DEF Spec

(* The rings of the writer and of every published snapshot stay within their *)
(* two caps, whatever is evicted, trimmed, deleted and warmed again.         *)
THEOREM TailsTypeOK == Spec => []TypeOK
<1>1. IInv => TypeOK
  <2> SUFFICES ASSUME IInv PROVE TypeOK
    OBVIOUS
  <2>1. /\ Len(log) \in Nat /\ Len(log) <= MaxLog
        /\ \A n \in 0..Len(log) : n \in Nat /\ n <= MaxLog
    BY LogFacts DEF IInv, LogInv
  <2>2. ASSUME NEW n \in 0..Len(log), NEW r, NEW S, RingInv(log, n, r, S)
        PROVE  S \in Rings
    <3>1. S \in SUBSET (1..MaxLog)
      BY <2>1, <2>2 DEF RingInv
    <3> QED BY <2>2, <3>1 DEF RingInv, Rings
  <2>3. PartialRings(cache.tails) /\ Cardinality(DOMAIN cache.tails) <= WarmCap
    BY <2>2 DEF IInv, LogInv, TailsInv, CacheInv, PartialRings
  <2>4. PartialRings(snapshot.tails) /\ Cardinality(DOMAIN snapshot.tails) <= WarmCap
    BY <2>2 DEF IInv, LogInv, SnapshotInv, PartialRings
  <2>5. /\ log \in Seq(Records) /\ wpc \in WriterPCs /\ crashes \in 0..MaxCrashes
        /\ {published, next_seq, acked, snapshot.max_seq} \subseteq 0..MaxLog
    BY <2>1 DEF IInv, LogInv
  <2>6. /\ ppc \in [Pollers -> {"idle", "load", "scan"}] /\ target \in [Pollers -> Runs]
        /\ cursor \in [Pollers -> 0..MaxLog + 1] /\ bound \in [Pollers -> 0..MaxLog]
    <3>1. \A p \in Pollers : cursor[p] \in 0..MaxLog + 1 /\ bound[p] \in 0..MaxLog
      <4>1. \A p \in Pollers : cursor[p] \in 0..Len(log) + 1 /\ bound[p] \in 0..Len(log)
        BY DEF IInv, PollInv
      <4> QED BY <2>1, <4>1
    <3> QED BY <3>1 DEF IInv, PollInv
  <2>7. got \in [Pollers -> Seq(1..MaxLog)]
    <3> DEFINE e(p) == Increasing(Seen(p))
    <3>1. \A p \in Pollers : e(p) \in Seq(1..MaxLog)
      <4> SUFFICES ASSUME NEW p \in Pollers PROVE e(p) \in Seq(1..MaxLog)
        OBVIOUS
      <4>1. Seen(p) \in SUBSET (1..Len(log))
        BY LogFacts DEF IInv, Seen
      <4>2. /\ e(p) \in Seq(Seen(p)) /\ Len(e(p)) = Cardinality(Seen(p))
            /\ Cardinality(Seen(p)) \in Nat
        BY <2>1, <4>1, IncreasingFacts, RankFacts
      <4> HIDE DEF e
      <4>3. Len(e(p)) \in Nat /\ e(p) \in [1..Len(e(p)) -> Seen(p)]
        BY <4>2, LenProperties
      <4>4. Seen(p) \subseteq 1..MaxLog
        BY <2>1, <4>1
      <4>5. e(p) \in [1..Len(e(p)) -> 1..MaxLog]
        BY <4>3, <4>4
      <4> QED BY <4>3, <4>5, SeqDef
    <3> HIDE DEF e
    <3>2. got = [p \in Pollers |-> e(p)]
      BY DEF IInv, PollInv, e
    <3> QED BY <3>1, <3>2
  <2> QED BY <2>3, <2>4, <2>5, <2>6, <2>7 DEF TypeOK
<1> QED BY <1>1, TailsInvariance, PTL

(* A warm answer is the log's answer, and a client that polls with an        *)
(* advancing cursor gets every record of its run once and in order, however  *)
(* its polls alternate between the ring and the log.                         *)
THEOREM ReadsLoseNothing == Spec => []ReadsAreComplete
<1>1. IInv => ReadsAreComplete
  <2> SUFFICES ASSUME IInv PROVE ReadsAreComplete
    OBVIOUS
  <2>1. WarmReadIsColdRead
    <3> SUFFICES ASSUME NEW r \in Runs, NEW from_seq \in 0..MaxLog + 1,
                        NEW answer \in EventsSince(snapshot, r, from_seq)
                 PROVE  answer = ColdRead(r, from_seq, snapshot.max_seq)
      BY DEF WarmReadIsColdRead
    <3>1. from_seq \in Nat
      OBVIOUS
    <3> QED BY <3>1, WarmFacts DEF IInv
  <2>2. PollerMissesNothing
    <3> SUFFICES ASSUME NEW p \in Pollers
                 PROVE got[p] = Increasing({s \in DOMAIN log : log[s].run = target[p] /\ s < cursor[p]})
      BY DEF PollerMissesNothing
    <3>1. got[p] = Increasing(Seen(p))
      BY DEF IInv, PollInv
    <3> QED BY <3>1 DEF Seen
  <2> QED BY <2>1, <2>2 DEF ReadsAreComplete
<1> QED BY <1>1, TailsInvariance, PTL

(* The recencies match the rings, an answered append is in the snapshot, and *)
(* a restart rebuilds the rings the writer had: ticks and sequence numbers   *)
(* evict the same runs.                                                      *)
THEOREM TailsFollowTheLog == Spec => []CacheFollowsLog
<1>1. IInv => CacheFollowsLog
  <2> SUFFICES ASSUME IInv PROVE CacheFollowsLog
    OBVIOUS
  <2>1. AnswerIsWarm
    BY DEF IInv, PhaseInv
  <2>2. RestartKeepsTails
    BY DEF IInv, TailsInv, RestartKeepsTails
  <2>3. RecencyMatchesTails
    <3> DEFINE D == DOMAIN cache.tails
    <3>1. CacheInv(cache, log, next_seq, cache.tick) /\ next_seq \in Nat
      BY LogFacts DEF IInv, TailsInv
    <3>2. DOMAIN cache.recency = D /\ \A r \in D : cache.recency[r] <= cache.tick
      BY <3>1 DEF CacheInv
    <3>3. ASSUME NEW r \in D, NEW s \in D, cache.recency[r] = cache.recency[s] PROVE r = s
      <4>1. /\ Newest(cache.tails[r]) \in 1..next_seq /\ log[Newest(cache.tails[r])].run = r
            /\ Newest(cache.tails[s]) \in 1..next_seq /\ log[Newest(cache.tails[s])].run = s
        BY <3>1, NewestOfRing
      <4>2. cache.recency[r] \in Nat /\ cache.recency[s] \in Nat
        BY <3>1 DEF CacheInv
      <4>3. Newest(cache.tails[r]) <= Newest(cache.tails[s])
            /\ Newest(cache.tails[s]) <= Newest(cache.tails[r])
        BY <3>1, <3>3, <4>2 DEF CacheInv
      <4>4. Newest(cache.tails[r]) = Newest(cache.tails[s])
        BY <4>1, <4>3
      <4> QED BY <4>1, <4>4
    <3>4. /\ DOMAIN cache.recency = DOMAIN cache.tails
          /\ \A r, s \in DOMAIN cache.recency :
               cache.recency[r] = cache.recency[s] => r = s
          /\ \A r \in DOMAIN cache.recency : cache.recency[r] <= cache.tick
      BY <3>2, <3>3, Zenon
    <3> HIDE DEF D
    <3> QED BY <3>4 DEF RecencyMatchesTails
  <2> QED BY <2>1, <2>2, <2>3 DEF CacheFollowsLog
<1> QED BY <1>1, TailsInvariance, PTL
=============================================================================
