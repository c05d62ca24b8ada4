---------------------- MODULE InferenceAdmission_proofs ----------------------
(***************************************************************************)
(* Exact and bounded admission in the order of the policy, for every number *)
(* of callers, principals and streams, every limit, budget and deadline.    *)
(***************************************************************************)
EXTENDS InferenceAdmission, FiniteSetTheorems, WellFoundedInduction, TLAPS

-----------------------------------------------------------------------------
(* Sums over a set: MapThenSumSet, with the function it recurses on written *)
(* out.  The term of x is m[x][d].                                          *)

AnyOf(s) == CHOOSE x \in s : TRUE

IsSum(it, m, d, D) ==
  it = [s \in SUBSET D |->
          IF s = {} THEN 0 ELSE m[AnyOf(s)][d] + it[s \ {AnyOf(s)}]]
SumOn(m, d, D) == CHOOSE it : IsSum(it, m, d, D)

LEMMA SumDef ==
  ASSUME NEW m, NEW d, NEW D
  PROVE  MapThenSumSet(LAMBDA x : m[x][d], D) = SumOn(m, d, D)[D]
BY Zenon DEF MapThenSumSet, MapThenFoldSet, SumOn, IsSum, AnyOf

LEMMA AnyOfFact ==
  ASSUME NEW s, s # {}
  PROVE  AnyOf(s) \in s
BY DEF AnyOf

\* Induction over a set of numbers.
LEMMA Induction ==
  ASSUME NEW T \in SUBSET Nat, 0 \in T, \A n \in T : n + 1 \in T
  PROVE  T = Nat
<1> SUFFICES ASSUME Nat \ T # {} PROVE FALSE  OBVIOUS
<1>1. PICK n \in Nat \ T : \A m \in Nat \ T : ~(m < n)
  <2>1. IsWellFoundedOn(OpToRel(<, Nat), Nat)  BY NatLessThanWellFounded
  <2>2. PICK n \in Nat \ T : \A m \in Nat \ T : <<m, n>> \notin OpToRel(<, Nat)
    BY <2>1, WFMin
  <2> QED  BY <2>2 DEF OpToRel
<1>2. n - 1 \in Nat /\ n - 1 \notin Nat \ T  BY <1>1
<1> QED  BY <1>1, <1>2

LEMMA Smaller ==
  ASSUME NEW E, IsFiniteSet(E), NEW s \in SUBSET E
  PROVE  /\ IsFiniteSet(s) /\ Cardinality(s) \in Nat
         /\ Cardinality(s) = 0 <=> s = {}
         /\ \A x \in s : Cardinality(s \ {x}) = Cardinality(s) - 1
         /\ Cardinality(s) <= Cardinality(E)
<1>1. IsFiniteSet(s) /\ Cardinality(s) <= Cardinality(E)  BY FS_Subset
<1>2. \A x \in s : Cardinality(s \ {x}) = Cardinality(s) - 1
  BY <1>1, FS_RemoveElement
<1> QED  BY <1>1, <1>2, FS_CardinalityType, FS_EmptySet

Terms(E, m, d) == IsFiniteSet(E) /\ \A x \in E : m[x][d] \in Nat

\* The recursion of MapThenSumSet has a solution over the subsets of a finite set.
LEMMA SumExists ==
  ASSUME NEW E, NEW m, NEW d, Terms(E, m, d)
  PROVE  \E it \in [SUBSET E -> Nat] : IsSum(it, m, d, E)
<1> DEFINE Solves(it, n) ==
             \A s \in SUBSET E : Cardinality(s) <= n =>
               it[s] = IF s = {} THEN 0 ELSE m[AnyOf(s)][d] + it[s \ {AnyOf(s)}]
           T == {n \in Nat : \E it \in [SUBSET E -> Nat] : Solves(it, n)}
<1>1. IsFiniteSet(E) /\ \A x \in E : m[x][d] \in Nat  BY DEF Terms
<1>2. 0 \in T
  <2> DEFINE it == [s \in SUBSET E |-> 0]
  <2>1. it \in [SUBSET E -> Nat]  OBVIOUS
  <2>2. \A s \in SUBSET E : Cardinality(s) <= 0 => s = {}  BY <1>1, Smaller
  <2>3. Solves(it, 0)  BY <2>2
  <2> QED  BY <2>1, <2>3
<1>3. ASSUME NEW n \in T PROVE n + 1 \in T
  <2>1. PICK g \in [SUBSET E -> Nat] : Solves(g, n)  OBVIOUS
  <2> DEFINE h == [s \in SUBSET E |->
                     IF Cardinality(s) = n + 1 THEN m[AnyOf(s)][d] + g[s \ {AnyOf(s)}] ELSE g[s]]
  <2>2. \A s \in SUBSET E : Cardinality(s) = n + 1 => s # {}  BY <1>1, Smaller
  <2>3. \A s \in SUBSET E : s # {} =>
          /\ AnyOf(s) \in s /\ m[AnyOf(s)][d] \in Nat
          /\ s \ {AnyOf(s)} \in SUBSET E
          /\ Cardinality(s \ {AnyOf(s)}) = Cardinality(s) - 1
          /\ Cardinality(s) \in Nat
    BY <1>1, AnyOfFact, Smaller
  <2>4. h \in [SUBSET E -> Nat]
    <3>1. \A s \in SUBSET E :
            (IF Cardinality(s) = n + 1 THEN m[AnyOf(s)][d] + g[s \ {AnyOf(s)}] ELSE g[s]) \in Nat
      <4> TAKE s \in SUBSET E
      <4>1. g[s] \in Nat  OBVIOUS
      <4>2. CASE Cardinality(s) = n + 1
        <5>1. m[AnyOf(s)][d] \in Nat /\ g[s \ {AnyOf(s)}] \in Nat  BY <2>2, <2>3, <4>2
        <5> QED  BY <4>2, <5>1
      <4> QED  BY <4>1, <4>2
    <3> QED  BY <3>1
  <2>5. ASSUME NEW s \in SUBSET E, Cardinality(s) <= n + 1
        PROVE  h[s] = IF s = {} THEN 0 ELSE m[AnyOf(s)][d] + h[s \ {AnyOf(s)}]
    <3>1. Cardinality(s) \in Nat  BY <1>1, Smaller
    <3>2. s # {} => h[s \ {AnyOf(s)}] = g[s \ {AnyOf(s)}]
      <4> SUFFICES ASSUME s # {} PROVE h[s \ {AnyOf(s)}] = g[s \ {AnyOf(s)}]  OBVIOUS
      <4>1. Cardinality(s \ {AnyOf(s)}) # n + 1 /\ s \ {AnyOf(s)} \in SUBSET E
        BY <2>3, <2>5, <3>1
      <4> QED  BY <4>1
    <3>3. CASE Cardinality(s) = n + 1
      <4>1. h[s] = m[AnyOf(s)][d] + g[s \ {AnyOf(s)}]  BY <3>3
      <4>2. s # {}  BY <2>2, <3>3
      <4> HIDE DEF h
      <4> QED  BY <3>2, <4>1, <4>2
    <3>4. CASE Cardinality(s) # n + 1
      <4>1. h[s] = g[s]  BY <3>4
      <4>2. Cardinality(s) <= n  BY <2>5, <3>1, <3>4
      <4> HIDE DEF h
      <4> QED  BY <2>1, <3>2, <4>1, <4>2
    <3> QED  BY <3>3, <3>4
  <2> HIDE DEF h
  <2>6. Solves(h, n + 1)  BY <2>5
  <2> HIDE DEF Solves
  <2>7. \E it \in [SUBSET E -> Nat] : Solves(it, n + 1)  BY <2>4, <2>6
  <2>8. n + 1 \in Nat  OBVIOUS
  <2> QED  BY <2>7, <2>8
<1>4. T = Nat
  <2> HIDE DEF T
  <2>1. T \in SUBSET Nat  BY DEF T
  <2> QED  BY <1>2, <1>3, <2>1, Induction
<1>5. Cardinality(E) \in T  BY <1>1, <1>4, FS_CardinalityType
<1>6. PICK it \in [SUBSET E -> Nat] : Solves(it, Cardinality(E))  BY <1>5
<1>7. \A s \in SUBSET E :
        it[s] = IF s = {} THEN 0 ELSE m[AnyOf(s)][d] + it[s \ {AnyOf(s)}]
  BY <1>1, <1>6, Smaller
<1> HIDE DEF T, Solves
<1>8. it = [s \in SUBSET E |->
              IF s = {} THEN 0 ELSE m[AnyOf(s)][d] + it[s \ {AnyOf(s)}]]
  BY <1>7
<1> QED  BY <1>8 DEF IsSum

\* The sum of the terms of the members of s.
Total(m, d, s) == SumOn(m, d, s)[s]

\* Whatever set the recursion starts from, it gives a subset the same sum.
LEMMA SumsAgree ==
  ASSUME NEW E, NEW m, NEW d, Terms(E, m, d), NEW it, IsSum(it, m, d, E)
  PROVE  \A s \in SUBSET E : it[s] = Total(m, d, s)
<1> SUFFICES ASSUME NEW D \in SUBSET E PROVE it[D] = Total(m, d, D)  OBVIOUS
<1> DEFINE g == SumOn(m, d, D)
           T == {n \in Nat : \A s \in SUBSET D : Cardinality(s) = n => it[s] = g[s]}
<1>1. IsFiniteSet(D) /\ Terms(D, m, d) /\ IsFiniteSet(E)  BY Smaller DEF Terms
<1>2. \A s \in SUBSET D : g[s] = IF s = {} THEN 0 ELSE m[AnyOf(s)][d] + g[s \ {AnyOf(s)}]
  <2>1. \E h : IsSum(h, m, d, D)  BY <1>1, SumExists
  <2>2. IsSum(g, m, d, D)  BY <2>1, Zenon DEF SumOn
  <2> HIDE DEF g
  <2> QED  BY <2>2 DEF IsSum
<1>3. \A s \in SUBSET D : it[s] = IF s = {} THEN 0 ELSE m[AnyOf(s)][d] + it[s \ {AnyOf(s)}]
  BY DEF IsSum
<1> HIDE DEF g
<1>4. 0 \in T
  <2>1. \A s \in SUBSET D : Cardinality(s) = 0 => s = {}  BY <1>1, Smaller
  <2>2. it[{}] = 0 /\ g[{}] = 0  BY <1>2, <1>3
  <2> QED  BY <2>1, <2>2
<1>5. ASSUME NEW n \in T PROVE n + 1 \in T
  <2>1. ASSUME NEW s \in SUBSET D, Cardinality(s) = n + 1 PROVE it[s] = g[s]
    <3>1. s # {}  BY <1>1, <2>1, Smaller
    <3>2. AnyOf(s) \in s  BY <3>1, AnyOfFact
    <3>3. s \ {AnyOf(s)} \in SUBSET D /\ Cardinality(s \ {AnyOf(s)}) = n
      BY <1>1, <2>1, <3>2, Smaller
    <3>4. it[s \ {AnyOf(s)}] = g[s \ {AnyOf(s)}]  BY <3>3
    <3> QED  BY <1>2, <1>3, <3>1, <3>4
  <2> QED  BY <2>1
<1>6. T = Nat
  <2> HIDE DEF T
  <2>1. T \in SUBSET Nat  BY DEF T
  <2> QED  BY <1>4, <1>5, <2>1, Induction
<1>7. Cardinality(D) \in T  BY <1>1, <1>6, FS_CardinalityType
<1>8. it[D] = g[D]  BY <1>7
<1> QED  BY <1>8 DEF g, Total

\* The recursion takes the term of one member, whichever CHOOSE gives.
LEMMA OneTerm ==
  ASSUME NEW E, NEW m, NEW d, Terms(E, m, d)
  PROVE  /\ Total(m, d, {}) = 0
         /\ \A s \in SUBSET E :
              /\ Total(m, d, s) \in Nat
              /\ s # {} => Total(m, d, s) = m[AnyOf(s)][d] + Total(m, d, s \ {AnyOf(s)})
<1>1. PICK it \in [SUBSET E -> Nat] : IsSum(it, m, d, E)  BY SumExists
<1>2. \A s \in SUBSET E : it[s] = Total(m, d, s)  BY <1>1, SumsAgree
<1>3. \A s \in SUBSET E : it[s] = IF s = {} THEN 0 ELSE m[AnyOf(s)][d] + it[s \ {AnyOf(s)}]
  BY <1>1 DEF IsSum
<1>4. Total(m, d, {}) = 0  BY <1>2, <1>3
<1>5. ASSUME NEW s \in SUBSET E
      PROVE  /\ Total(m, d, s) \in Nat
             /\ s # {} => Total(m, d, s) = m[AnyOf(s)][d] + Total(m, d, s \ {AnyOf(s)})
  <2>1. s \ {AnyOf(s)} \in SUBSET E  OBVIOUS
  <2>2. it[s] \in Nat  OBVIOUS
  <2> QED  BY <1>2, <1>3, <2>1, <2>2
<1> QED  BY <1>4, <1>5

\* The order does not matter: any member may be taken first.
LEMMA AnyTerm ==
  ASSUME NEW E, NEW m, NEW d, Terms(E, m, d), NEW S \in SUBSET E, NEW c \in S
  PROVE  Total(m, d, S) = m[c][d] + Total(m, d, S \ {c})
<1> DEFINE Splits(s) == \A x \in s : Total(m, d, s) = m[x][d] + Total(m, d, s \ {x})
           T == {n \in Nat : \A s \in SUBSET E : Cardinality(s) = n => Splits(s)}
<1>1. IsFiniteSet(E) /\ \A x \in E : m[x][d] \in Nat  BY DEF Terms
<1>2. 0 \in T
  <2>1. \A s \in SUBSET E : Cardinality(s) = 0 => s = {}  BY <1>1, Smaller
  <2> QED  BY <2>1
<1>3. ASSUME NEW n \in T PROVE n + 1 \in T
  <2>1. ASSUME NEW s \in SUBSET E, Cardinality(s) = n + 1, NEW x \in s
        PROVE  Total(m, d, s) = m[x][d] + Total(m, d, s \ {x})
    <3> DEFINE y == AnyOf(s)
    <3>1. y \in s /\ y \in E /\ x \in E  BY <2>1, AnyOfFact
    <3>2. Total(m, d, s) = m[y][d] + Total(m, d, s \ {y})  BY <2>1, OneTerm
    <3> HIDE DEF y
    <3>3. CASE x = y  BY <3>2, <3>3
    <3>4. CASE x # y
      <4>1. /\ s \ {x} \in SUBSET E /\ s \ {y} \in SUBSET E
            /\ Cardinality(s \ {x}) = n /\ Cardinality(s \ {y}) = n
        BY <1>1, <2>1, <3>1, Smaller
      <4>2. Splits(s \ {x}) /\ Splits(s \ {y})  BY <4>1
      <4>3. /\ y \in s \ {x} /\ x \in s \ {y}
            /\ (s \ {x}) \ {y} = (s \ {y}) \ {x}
        BY <2>1, <3>1, <3>4
      <4>4. /\ Total(m, d, s \ {x}) = m[y][d] + Total(m, d, (s \ {x}) \ {y})
            /\ Total(m, d, s \ {y}) = m[x][d] + Total(m, d, (s \ {y}) \ {x})
        BY <4>2, <4>3
      <4>5. Total(m, d, (s \ {y}) \ {x}) \in Nat
        <5>1. (s \ {y}) \ {x} \in SUBSET E  OBVIOUS
        <5> QED  BY <5>1, OneTerm
      <4>6. m[x][d] \in Nat /\ m[y][d] \in Nat  BY <1>1, <3>1
      <4> QED  BY <3>2, <4>3, <4>4, <4>5, <4>6
    <3> QED  BY <3>3, <3>4
  <2> QED  BY <2>1
<1>4. T = Nat
  <2> HIDE DEF T
  <2>1. T \in SUBSET Nat  BY DEF T
  <2> QED  BY <1>2, <1>3, <2>1, Induction
<1>5. Cardinality(S) \in T  BY <1>1, <1>4, Smaller
<1> QED  BY <1>5

\* A sum with one term more, and one with one term less.
LEMMA SumChanges ==
  ASSUME NEW E, NEW m, NEW d, Terms(E, m, d), NEW S \in SUBSET E
  PROVE  /\ Total(m, d, S) \in Nat
         /\ \A c \in E \ S : Total(m, d, S \cup {c}) = Total(m, d, S) + m[c][d]
         /\ \A c \in S : /\ m[c][d] <= Total(m, d, S)
                         /\ Total(m, d, S \ {c}) = Total(m, d, S) - m[c][d]
<1>1. \A s \in SUBSET E : Total(m, d, s) \in Nat  BY OneTerm
<1>2. \A x \in E : m[x][d] \in Nat  BY DEF Terms
<1>3. ASSUME NEW c \in E \ S PROVE Total(m, d, S \cup {c}) = Total(m, d, S) + m[c][d]
  <2>1. S \cup {c} \in SUBSET E /\ c \in S \cup {c} /\ (S \cup {c}) \ {c} = S  OBVIOUS
  <2>2. PICK R : R = S \cup {c}  OBVIOUS
  <2>4. Total(m, d, R) = m[c][d] + Total(m, d, R \ {c})
    BY <2>1, <2>2, AnyTerm
  <2>5. R \ {c} = S  BY <2>1, <2>2
  <2>3. Total(m, d, S) \in Nat /\ m[c][d] \in Nat  BY <1>1, <1>2
  <2>6. Total(m, d, R) = m[c][d] + Total(m, d, S)  BY <2>4, <2>5, Zenon
  <2>7. Total(m, d, S \cup {c}) = m[c][d] + Total(m, d, S)  BY <2>2, <2>6, Zenon
  <2> QED  BY <2>3, <2>7
<1>4. ASSUME NEW c \in S
      PROVE  m[c][d] <= Total(m, d, S) /\ Total(m, d, S \ {c}) = Total(m, d, S) - m[c][d]
  <2>1. Total(m, d, S) = m[c][d] + Total(m, d, S \ {c})  BY AnyTerm
  <2>2. S \ {c} \in SUBSET E  OBVIOUS
  <2>3. Total(m, d, S \ {c}) \in Nat /\ m[c][d] \in Nat  BY <1>1, <1>2, <2>2
  <2> QED  BY <2>1, <2>3
<1> QED  BY <1>1, <1>3, <1>4

-----------------------------------------------------------------------------
(* The order of the policy *)

SchedulerStates ==
  [active : Nat, used : [Dims -> Nat], counts : [Principals -> [active : Nat, waiting : Nat]],
   entries : SUBSET Principals, waiters : SUBSET Callers, ahead : SUBSET (Callers \X Callers),
   lastPrincipal : Principals \cup {none}, lastStream : Streams \cup {none}]

\* The tickets of the waiters: whoever came later is behind.
Tickets(s) ==
  /\ s.ahead \subseteq s.waiters \X s.waiters
  /\ \A w, v \in s.waiters : w # v => <<w, v>> \in s.ahead \/ <<v, w>> \in s.ahead
  /\ \A w, v \in s.waiters : <<w, v>> \in s.ahead => <<v, w>> \notin s.ahead
  /\ \A u, v, w \in s.waiters : <<u, v>> \in s.ahead /\ <<v, w>> \in s.ahead => <<u, w>> \in s.ahead

\* How often Aging fits into the time a waiter has waited.
LEMMA DivFacts ==
  ASSUME NEW n \in Nat \ {0}, NEW k \in Nat
  PROVE  /\ k \div n \in Nat
         /\ k < n => k \div n = 0
         /\ k \div n <= (k + 1) \div n
<1>1. ASSUME NEW m \in Nat
      PROVE  m \div n \in Nat /\ n * (m \div n) <= m /\ m < n * (m \div n + 1)
  <2>1. m \div n \in Nat  OBVIOUS
  <2>2. m = n * (m \div n) + (m % n) /\ m % n \in 0..n - 1  OBVIOUS
  <2> QED  BY <2>1, <2>2
<1>2. \A m, q, r \in Nat :
        n * q <= m /\ m < n * (q + 1) /\ n * r <= m + 1 /\ m + 1 < n * (r + 1) => q <= r
  OBVIOUS
<1>3. k \div n <= (k + 1) \div n  BY <1>1, <1>2
<1>4. k < n => k \div n = 0
  <2>1. \A q \in Nat : n * q <= k /\ k < n => q = 0  OBVIOUS
  <2> QED  BY <1>1, <2>1
<1> QED  BY <1>1, <1>3, <1>4

Less(a, b) ==
  \/ a[1] < b[1]
  \/ a[1] = b[1] /\ a[2] < b[2]
  \/ a[1] = b[1] /\ a[2] = b[2] /\ a[3] < b[3]
  \/ a[1] = b[1] /\ a[2] = b[2] /\ a[3] = b[3] /\ a[4] < b[4]

Keys == Nat \X {0, 1} \X {0, 1} \X Int

LEMMA KeyType ==
  ASSUME NEW s, NEW at \in [Callers -> Nat], NEW w \in Callers
  PROVE  /\ Key(s, at, w) \in Keys
         /\ Key(s, at, w)[1] = Minus(RankOf[w], at[w] \div Aging)
         /\ Key(s, at, w)[4] = DeadlineOf[w] - at[w]
<1>1. RankOf[w] \in Nat /\ DeadlineOf[w] \in Nat /\ at[w] \in Nat /\ Aging \in Nat \ {0}
  BY LimitsAssumption, RequestsAssumption
<1>2. PICK q \in Nat : q = at[w] \div Aging  BY <1>1, DivFacts
<1>3. Minus(RankOf[w], q) \in Nat  BY <1>1 DEF Minus
<1> QED  BY <1>1, <1>2, <1>3 DEF Key, Keys

LEMMA PrecedesByKey ==
  ASSUME NEW s, NEW at \in [Callers -> Nat], NEW w \in Callers, NEW v \in Callers
  PROVE  Precedes(s, at, w, v) <=>
           \/ Key(s, at, w) = Key(s, at, v) /\ <<w, v>> \in s.ahead
           \/ Less(Key(s, at, w), Key(s, at, v))
<1> DEFINE kw == Key(s, at, w)
           kv == Key(s, at, v)
<1>1. kw \in Keys /\ kv \in Keys  BY KeyType
<1>2. Precedes(s, at, w, v) <=>
        \/ kw = kv /\ <<w, v>> \in s.ahead
        \/ \E i \in 1..4 : kw[i] < kv[i] /\ \A j \in 1..(i - 1) : kw[j] = kv[j]
  BY DEF Precedes
<1> HIDE DEF kw, kv
<1>3. (\E i \in 1..4 : kw[i] < kv[i] /\ \A j \in 1..(i - 1) : kw[j] = kv[j]) <=> Less(kw, kv)
  <2>1. 1..4 = {1, 2, 3, 4} /\ 1..(1 - 1) = {} /\ 1..(2 - 1) = {1} /\ 1..(3 - 1) = {1, 2} /\ 1..(4 - 1) = {1, 2, 3}
    OBVIOUS
  <2> QED  BY <2>1 DEF Less
<1> QED  BY <1>2, <1>3 DEF kw, kv

LEMMA KeysOrdered ==
  ASSUME NEW a \in Keys, NEW b \in Keys
  PROVE  /\ a # b => Less(a, b) \/ Less(b, a)
         /\ Less(a, b) => ~Less(b, a) /\ a # b
         /\ \A c \in Keys : Less(a, b) /\ Less(b, c) => Less(a, c)
<1>1. a # b => Less(a, b) \/ Less(b, a)  BY DEF Keys, Less
<1>2. Less(a, b) => ~Less(b, a) /\ a # b  BY DEF Keys, Less
<1>3. ASSUME NEW c \in Keys, Less(a, b), Less(b, c) PROVE Less(a, c)
  BY <1>3 DEF Keys, Less
<1> QED  BY <1>1, <1>2, <1>3

\* With the ticket last, the order of the waiters is total and strict.
LEMMA PolicyOrder ==
  ASSUME NEW s \in SchedulerStates, Tickets(s), NEW at \in [Callers -> Nat],
         NEW u \in s.waiters, NEW v \in s.waiters, NEW w \in s.waiters
  PROVE  /\ u # v => Precedes(s, at, u, v) \/ Precedes(s, at, v, u)
         /\ Precedes(s, at, u, v) => ~Precedes(s, at, v, u)
         /\ Precedes(s, at, u, v) /\ Precedes(s, at, v, w) => Precedes(s, at, u, w)
<1>1. u \in Callers /\ v \in Callers /\ w \in Callers  BY DEF SchedulerStates
<1> DEFINE ku == Key(s, at, u)
           kv == Key(s, at, v)
           kw == Key(s, at, w)
<1>2. ku \in Keys /\ kv \in Keys /\ kw \in Keys  BY <1>1, KeyType
<1>3. /\ Precedes(s, at, u, v) <=> (ku = kv /\ <<u, v>> \in s.ahead) \/ Less(ku, kv)
      /\ Precedes(s, at, v, u) <=> (kv = ku /\ <<v, u>> \in s.ahead) \/ Less(kv, ku)
      /\ Precedes(s, at, v, w) <=> (kv = kw /\ <<v, w>> \in s.ahead) \/ Less(kv, kw)
      /\ Precedes(s, at, u, w) <=> (ku = kw /\ <<u, w>> \in s.ahead) \/ Less(ku, kw)
  BY <1>1, PrecedesByKey
<1> HIDE DEF ku, kv, kw
<1>4. /\ ku # kv => Less(ku, kv) \/ Less(kv, ku)
      /\ Less(ku, kv) => ~Less(kv, ku) /\ ku # kv
      /\ Less(kv, ku) => ku # kv
      /\ Less(ku, kv) /\ Less(kv, kw) => Less(ku, kw)
  BY <1>2, KeysOrdered
<1>5. /\ u # v => <<u, v>> \in s.ahead \/ <<v, u>> \in s.ahead
      /\ <<u, v>> \in s.ahead => <<v, u>> \notin s.ahead
      /\ <<u, v>> \in s.ahead /\ <<v, w>> \in s.ahead => <<u, w>> \in s.ahead
  BY DEF Tickets
<1> QED  BY <1>3, <1>4, <1>5

\* When somebody can start, the policy selects exactly one.
LEMMA SomebodyIsSelected ==
  ASSUME NEW s \in SchedulerStates, Tickets(s), NEW at \in [Callers -> Nat], Eligible(s, at) # {}
  PROVE  \E w \in Eligible(s, at) : Selected(s, at) = {w}
<1> DEFINE First(S) == \E w \in S : \A v \in S \ {w} : Precedes(s, at, w, v)
           T == {n \in Nat : \A S \in SUBSET s.waiters :
                   S # {} /\ Cardinality(S) = n => First(S)}
<1>1. s.waiters \in SUBSET Callers /\ IsFiniteSet(s.waiters)
  <2>1. s.waiters \in SUBSET Callers  BY DEF SchedulerStates
  <2> QED  BY <2>1, RequestsAssumption, FS_Subset
<1>2. 0 \in T
  <2>1. \A S \in SUBSET s.waiters : Cardinality(S) = 0 => S = {}  BY <1>1, Smaller
  <2> QED  BY <2>1
<1>3. ASSUME NEW n \in T PROVE n + 1 \in T
  <2>1. ASSUME NEW S \in SUBSET s.waiters, Cardinality(S) = n + 1, NEW x \in S PROVE First(S)
    <3>1. S \ {x} \in SUBSET s.waiters /\ Cardinality(S \ {x}) = n  BY <1>1, <2>1, Smaller
    <3>2. CASE S \ {x} = {}
      <4>1. \A v \in S \ {x} : Precedes(s, at, x, v)  BY <3>2
      <4> QED  BY <4>1
    <3>3. CASE S \ {x} # {}
      <4>1. First(S \ {x})  BY <3>1, <3>3
      <4>2. PICK w \in S \ {x} : \A v \in (S \ {x}) \ {w} : Precedes(s, at, w, v)  BY <4>1
      <4>3. CASE Precedes(s, at, w, x)
        <5>1. \A v \in S \ {w} : Precedes(s, at, w, v)  BY <4>2, <4>3
        <5> QED  BY <5>1
      <4>4. CASE ~Precedes(s, at, w, x)
        <5>1. Precedes(s, at, x, w)  BY <2>1, <4>4, PolicyOrder
        <5>2. ASSUME NEW v \in S \ {x} PROVE Precedes(s, at, x, v)
          <6>1. v = w \/ Precedes(s, at, w, v)  BY <4>2
          <6>2. x \in s.waiters /\ w \in s.waiters /\ v \in s.waiters  BY <2>1
          <6> QED  BY <5>1, <6>1, <6>2, PolicyOrder
        <5> QED  BY <5>2
      <4> QED  BY <4>3, <4>4
    <3> QED  BY <3>2, <3>3
  <2> HIDE DEF First
  <2> QED  BY <2>1
<1>4. T = Nat
  <2> HIDE DEF T
  <2>1. T \in SUBSET Nat  BY DEF T
  <2> QED  BY <1>2, <1>3, <2>1, Induction
<1>5. Eligible(s, at) \in SUBSET s.waiters  BY DEF Eligible
<1>6. Cardinality(Eligible(s, at)) \in T  BY <1>1, <1>4, <1>5, Smaller
<1>7. First(Eligible(s, at))  BY <1>5, <1>6
<1>8. PICK w \in Eligible(s, at) : \A v \in Eligible(s, at) \ {w} : Precedes(s, at, w, v)
  BY <1>7
<1> HIDE DEF T, First
<1>9. \A v \in Eligible(s, at) \ {w} : ~Precedes(s, at, v, w)
  BY <1>5, <1>8, PolicyOrder
<1>10. Selected(s, at) = {w}  BY <1>8, <1>9 DEF Selected
<1> QED  BY <1>10

\* A tick brings nobody forward but the waiter it promotes.
LEMMA OlderIsNoEarlier ==
  ASSUME NEW s, NEW at \in [Callers -> Nat], NEW bt \in [Callers -> Nat],
         NEW w \in Callers, NEW v \in Callers,
         bt[w] = at[w] + 1, bt[v] = at[v] + 1,
         ~(RankOf[w] > 0 /\ bt[w] >= Aging), Precedes(s, bt, w, v)
  PROVE  Precedes(s, at, w, v)
<1>1. /\ RankOf[w] \in Nat /\ DeadlineOf[w] \in Nat /\ RankOf[v] \in Nat /\ DeadlineOf[v] \in Nat
      /\ Aging \in Nat \ {0} /\ at[w] \in Nat /\ at[v] \in Nat /\ bt[w] \in Nat /\ bt[v] \in Nat
  BY LimitsAssumption, RequestsAssumption
<1>2. PICK kw \in Keys : kw = Key(s, at, w)  BY KeyType
<1>3. PICK kv \in Keys : kv = Key(s, at, v)  BY KeyType
<1>4. PICK jw \in Keys : jw = Key(s, bt, w)  BY KeyType
<1>5. PICK jv \in Keys : jv = Key(s, bt, v)  BY KeyType
<1>6. jw[1] = kw[1]
  <2>1. kw[1] = Minus(RankOf[w], at[w] \div Aging)  BY <1>2, KeyType
  <2>2. jw[1] = Minus(RankOf[w], bt[w] \div Aging)  BY <1>4, KeyType
  <2>3. at[w] \div Aging \in Nat /\ (at[w] < Aging => at[w] \div Aging = 0)
    BY <1>1, DivFacts
  <2>4. bt[w] \div Aging \in Nat /\ (bt[w] < Aging => bt[w] \div Aging = 0)
    BY <1>1, DivFacts
  <2>5. PICK q \in Nat : q = at[w] \div Aging  BY <2>3
  <2>6. PICK r \in Nat : r = bt[w] \div Aging  BY <2>4
  <2>7. RankOf[w] = 0 \/ (q = 0 /\ r = 0)
    <3>1. RankOf[w] = 0 \/ (bt[w] < Aging /\ at[w] < Aging)  BY <1>1
    <3> QED  BY <2>3, <2>4, <2>5, <2>6, <3>1
  <2>8. Minus(RankOf[w], q) = Minus(RankOf[w], r)  BY <1>1, <2>7 DEF Minus
  <2> QED  BY <2>1, <2>2, <2>5, <2>6, <2>8
<1>7. jv[1] <= kv[1]
  <2>1. kv[1] = Minus(RankOf[v], at[v] \div Aging)  BY <1>3, KeyType
  <2>2. jv[1] = Minus(RankOf[v], bt[v] \div Aging)  BY <1>5, KeyType
  <2>3. at[v] \div Aging \in Nat /\ at[v] \div Aging <= (at[v] + 1) \div Aging  BY <1>1, DivFacts
  <2>4. bt[v] \div Aging \in Nat  BY <1>1, DivFacts
  <2>5. PICK q \in Nat : q = at[v] \div Aging  BY <2>3
  <2>6. PICK r \in Nat : r = bt[v] \div Aging  BY <2>4
  <2>7. q <= r  BY <2>3, <2>5, <2>6
  <2>8. Minus(RankOf[v], r) <= Minus(RankOf[v], q)  BY <1>1, <2>7 DEF Minus
  <2> QED  BY <2>1, <2>2, <2>5, <2>6, <2>8
<1>8. jw[2] = kw[2] /\ jw[3] = kw[3] /\ jv[2] = kv[2] /\ jv[3] = kv[3]
  BY <1>2, <1>3, <1>4, <1>5 DEF Key
<1>9. jw[4] = kw[4] - 1 /\ jv[4] = kv[4] - 1
  <2>1. kw[4] = DeadlineOf[w] - at[w]  BY <1>2, KeyType
  <2>2. kv[4] = DeadlineOf[v] - at[v]  BY <1>3, KeyType
  <2>3. jw[4] = DeadlineOf[w] - bt[w]  BY <1>4, KeyType
  <2>4. jv[4] = DeadlineOf[v] - bt[v]  BY <1>5, KeyType
  <2> QED  BY <1>1, <2>1, <2>2, <2>3, <2>4
<1>10. (jw = jv /\ <<w, v>> \in s.ahead) \/ Less(jw, jv)
  BY <1>4, <1>5, PrecedesByKey
<1>11. \A k \in Keys : /\ k[1] \in Nat /\ k[2] \in Int /\ k[3] \in Int /\ k[4] \in Int
                       /\ k = <<k[1], k[2], k[3], k[4]>>
  BY DEF Keys
<1>12. /\ kw[1] \in Nat /\ kw[2] \in Int /\ kw[3] \in Int /\ kw[4] \in Int
       /\ kv[1] \in Nat /\ kv[2] \in Int /\ kv[3] \in Int /\ kv[4] \in Int
       /\ jv[1] \in Nat
  BY <1>11
<1>13. Less(jw, jv) => Less(kw, kv)
  BY <1>6, <1>7, <1>8, <1>9, <1>12 DEF Less
<1>14. jw = jv => kw = kv \/ Less(kw, kv)
  <2> SUFFICES ASSUME jw = jv PROVE kw = kv \/ Less(kw, kv)  OBVIOUS
  <2>1. kw[2] = kv[2] /\ kw[3] = kv[3] /\ kw[4] = kv[4] /\ kw[1] <= kv[1]
    BY <1>6, <1>7, <1>8, <1>9, <1>12
  <2>2. CASE kw[1] < kv[1]  BY <2>2 DEF Less
  <2>3. CASE kw[1] = kv[1]  BY <1>11, <2>1, <2>3
  <2> QED  BY <1>12, <2>1, <2>2, <2>3
<1>15. (kw = kv /\ <<w, v>> \in s.ahead) \/ Less(kw, kv)  BY <1>10, <1>13, <1>14
<1> QED  BY <1>2, <1>3, <1>15, PrecedesByKey

-----------------------------------------------------------------------------
(* What the scheduler counts *)

USE LimitsAssumption, RequestsAssumption

Of(p, S) == {c \in S : PrincipalOf[c] = p}

\* The scheduler s has reserved what the calls H ask for.
Reserved(s, H) == \A d \in Dims : s.used[d] = Total(DemandOf, d, H)

\* The scheduler s counts the calls H that hold and the calls W that wait.
Counted(s, H, W) ==
  /\ s \in SchedulerStates
  /\ s.active = Cardinality(H) /\ s.waiters = W
  /\ \A p \in Principals :
       /\ s.counts[p].active = Cardinality(Of(p, H))
       /\ s.counts[p].waiting = Cardinality(Of(p, W))
       /\ p \in s.entries <=> s.counts[p] # [active |-> 0, waiting |-> 0]
  /\ Reserved(s, H)

Bounded(s) ==
  /\ s.active <= GlobalLimit
  /\ \A p \in Principals : s.counts[p].active <= PrincipalLimit
  /\ \A d \in Dims : s.used[d] <= Budget[d]

IInv ==
  /\ TypeOK
  /\ Counted(adm, Holders, Sleepers)
  /\ Bounded(adm)
  /\ Cardinality(Sleepers) <= WaiterLimit

-----------------------------------------------------------------------------
(* Counting *)

LEMMA CountedSets ==
  ASSUME NEW S \in SUBSET Callers, NEW p
  PROVE  /\ IsFiniteSet(S) /\ Cardinality(S) \in Nat
         /\ IsFiniteSet(Of(p, S)) /\ Cardinality(Of(p, S)) \in Nat
         /\ Cardinality(Of(p, S)) = 0 <=> Of(p, S) = {}
<1>1. IsFiniteSet(S) /\ Of(p, S) \in SUBSET Callers  BY FS_Subset DEF Of
<1>2. IsFiniteSet(Of(p, S))  BY <1>1, FS_Subset
<1> QED  BY <1>1, <1>2, FS_CardinalityType, FS_EmptySet

LEMMA OneMore ==
  ASSUME NEW S \in SUBSET Callers, NEW c \in Callers \ S, NEW p
  PROVE  /\ Cardinality(S \cup {c}) = Cardinality(S) + 1
         /\ Cardinality(Of(p, S \cup {c})) =
              IF PrincipalOf[c] = p THEN Cardinality(Of(p, S)) + 1 ELSE Cardinality(Of(p, S))
<1>1. IsFiniteSet(S) /\ IsFiniteSet(Of(p, S))  BY CountedSets
<1>2. Of(p, S \cup {c}) = IF PrincipalOf[c] = p THEN Of(p, S) \cup {c} ELSE Of(p, S)
  BY DEF Of
<1>3. c \notin Of(p, S)  BY DEF Of
<1>4. Cardinality(S \cup {c}) = Cardinality(S) + 1  BY <1>1, FS_AddElement
<1>5. Cardinality(Of(p, S) \cup {c}) = Cardinality(Of(p, S)) + 1
  BY <1>1, <1>3, FS_AddElement
<1> QED  BY <1>2, <1>4, <1>5

LEMMA OneLess ==
  ASSUME NEW S \in SUBSET Callers, NEW c \in S, NEW p
  PROVE  /\ Cardinality(S \ {c}) = Cardinality(S) - 1 /\ Cardinality(S) > 0
         /\ Cardinality(Of(p, S \ {c})) =
              IF PrincipalOf[c] = p THEN Cardinality(Of(p, S)) - 1 ELSE Cardinality(Of(p, S))
         /\ PrincipalOf[c] = p => Cardinality(Of(p, S)) > 0
<1>1. /\ IsFiniteSet(S) /\ Cardinality(S) \in Nat
      /\ IsFiniteSet(Of(p, S)) /\ Cardinality(Of(p, S)) \in Nat
  BY CountedSets
<1>2. Cardinality(S \ {c}) = Cardinality(S) - 1 /\ Cardinality(S) > 0
  <2>1. Cardinality(S \ {c}) = Cardinality(S) - 1  BY <1>1, FS_RemoveElement
  <2>2. Cardinality(S) # 0  BY <1>1, FS_EmptySet
  <2> QED  BY <1>1, <2>1, <2>2
<1>3. CASE PrincipalOf[c] = p
  <2>1. Of(p, S \ {c}) = Of(p, S) \ {c} /\ c \in Of(p, S)  BY <1>3 DEF Of
  <2>2. Cardinality(Of(p, S) \ {c}) = Cardinality(Of(p, S)) - 1
    BY <1>1, <2>1, FS_RemoveElement
  <2>3. Cardinality(Of(p, S)) > 0  BY <1>1, <2>1, FS_EmptySet
  <2> QED  BY <1>2, <1>3, <2>1, <2>2, <2>3
<1>4. CASE PrincipalOf[c] # p
  <2>1. Of(p, S \ {c}) = Of(p, S)  BY <1>4 DEF Of
  <2> QED  BY <1>2, <1>4, <2>1
<1> QED  BY <1>3, <1>4

-----------------------------------------------------------------------------
(* The updates made under the mutex *)

LEMMA DemandTerms == \A d \in Dims : Terms(Callers, DemandOf, d)
BY DEF Terms

LEMMA DemandChanges ==
  ASSUME NEW d \in Dims, NEW H \in SUBSET Callers
  PROVE  /\ \A c \in Callers \ H : Total(DemandOf, d, H \cup {c}) = Total(DemandOf, d, H) + DemandOf[c][d]
         /\ \A c \in H : /\ DemandOf[c][d] <= Total(DemandOf, d, H)
                         /\ Total(DemandOf, d, H \ {c}) = Total(DemandOf, d, H) - DemandOf[c][d]
BY DemandTerms, SumChanges

Counters == [Principals -> [active : Nat, waiting : Nat]]
Zero == [active |-> 0, waiting |-> 0]

LEMMA EnqueueCounts ==
  ASSUME NEW s, NEW H \in SUBSET Callers, NEW W \in SUBSET Callers, Counted(s, H, W),
         NEW c \in Callers \ W, Bounded(s)
  PROVE  /\ Counted(Enqueue(s, c), H, W \cup {c})
         /\ Bounded(Enqueue(s, c))
<1> DEFINE t == Enqueue(s, c)
           p == PrincipalOf[c]
<1>1. s \in SchedulerStates /\ s.waiters = W /\ s.counts \in Counters /\ p \in Principals
  BY DEF Counted, SchedulerStates, Counters
<1>2. /\ t.active = s.active /\ t.used = s.used
      /\ t.counts = [s.counts EXCEPT ![p].waiting = @ + 1]
      /\ t.waiters = W \cup {c} /\ t.entries = s.entries \cup {p}
      /\ t.ahead = s.ahead \cup (W \X {c})
  BY <1>1 DEF SchedulerStates, Enqueue
<1>3. \A q \in Principals :
        /\ t.counts[q].active = s.counts[q].active
        /\ t.counts[q].waiting = IF q = p THEN s.counts[q].waiting + 1 ELSE s.counts[q].waiting
        /\ t.counts[q] \in [active : Nat, waiting : Nat]
        /\ q # p => t.counts[q] = s.counts[q]
  BY <1>1, <1>2 DEF Counters
<1>4. t.counts \in Counters  BY <1>1, <1>2, <1>3 DEF Counters
<1>5. t \in SchedulerStates
  <2>1. s.ahead \in SUBSET (Callers \X Callers)  BY <1>1 DEF SchedulerStates
  <2>2. t.ahead \in SUBSET (Callers \X Callers)  BY <1>2, <2>1
  <2> QED  BY <1>1, <1>2, <1>4, <2>2 DEF SchedulerStates, Counters, Enqueue
<1>6. ASSUME NEW q \in Principals
      PROVE  /\ t.counts[q].active = Cardinality(Of(q, H))
             /\ t.counts[q].waiting = Cardinality(Of(q, W \cup {c}))
             /\ q \in t.entries <=> t.counts[q] # Zero
  <2>1. Cardinality(Of(q, W \cup {c})) =
          IF p = q THEN Cardinality(Of(q, W)) + 1 ELSE Cardinality(Of(q, W))
    BY OneMore
  <2>2. /\ s.counts[q].active = Cardinality(Of(q, H))
        /\ s.counts[q].waiting = Cardinality(Of(q, W))
        /\ q \in s.entries <=> s.counts[q] # Zero
    BY DEF Counted, Zero
  <2>3. q = p => t.counts[q] # Zero  BY <1>1, <1>3 DEF Zero, Counters
  <2> HIDE DEF t, p
  <2> QED  BY <1>2, <1>3, <2>1, <2>2, <2>3
<1> HIDE DEF t
<1>7. Counted(t, H, W \cup {c})
  <2>1. t.active = Cardinality(H)  BY <1>2 DEF Counted
  <2>2. Reserved(t, H)  BY <1>2 DEF Counted, Reserved
  <2> QED  BY <1>2, <1>5, <1>6, <2>1, <2>2 DEF Counted, Zero
<1>8. Bounded(t)  BY <1>1, <1>2, <1>3 DEF Bounded, Counters
<1> QED  BY <1>7, <1>8 DEF t

LEMMA DropEmptyEntries ==
  ASSUME NEW u \in SchedulerStates, NEW p \in u.entries,
         \A q \in Principals \ {p} : q \in u.entries <=> u.counts[q] # Zero
  PROVE  LET t == DropEmpty(u, p)
         IN /\ t \in SchedulerStates
            /\ t.active = u.active /\ t.used = u.used /\ t.counts = u.counts
            /\ t.waiters = u.waiters
            /\ \A q \in Principals : q \in t.entries <=> t.counts[q] # Zero
<1> DEFINE t == DropEmpty(u, p)
<1>1. CASE u.counts[p] = Zero
  <2>1. t = [u EXCEPT !.entries = @ \ {p}]  BY <1>1 DEF DropEmpty, Zero
  <2>2. /\ t \in SchedulerStates /\ t.entries = u.entries \ {p}
        /\ t.active = u.active /\ t.used = u.used /\ t.counts = u.counts
        /\ t.waiters = u.waiters
    BY <2>1 DEF SchedulerStates
  <2> HIDE DEF t
  <2>3. \A q \in Principals : q \in t.entries <=> t.counts[q] # Zero  BY <1>1, <2>2
  <2> QED  BY <2>2, <2>3 DEF t
<1>2. CASE u.counts[p] # Zero
  <2>1. t = u  BY <1>2 DEF DropEmpty, Zero
  <2> QED  BY <1>2, <2>1
<1> QED  BY <1>1, <1>2

LEMMA RemoveWaiterCounts ==
  ASSUME NEW s, NEW H \in SUBSET Callers, NEW W \in SUBSET Callers, Counted(s, H, W),
         NEW c \in W, Bounded(s)
  PROVE  /\ Counted(RemoveWaiter(s, c), H, W \ {c})
         /\ Bounded(RemoveWaiter(s, c))
         /\ HasCapacity(s, c) => HasCapacity(RemoveWaiter(s, c), c)
<1> DEFINE p == PrincipalOf[c]
           u == [s EXCEPT !.waiters = @ \ {c}, !.ahead = {e \in @ : c \notin {e[1], e[2]}},
                          !.counts[p].waiting = Minus(@, 1)]
           t == DropEmpty(u, p)
<1>1. s \in SchedulerStates /\ s.waiters = W /\ s.counts \in Counters /\ p \in Principals
  BY DEF Counted, SchedulerStates, Counters
<1>2. /\ u.active = s.active /\ u.used = s.used
      /\ u.counts = [s.counts EXCEPT ![p].waiting = Minus(@, 1)]
      /\ u.waiters = W \ {c} /\ u.entries = s.entries
      /\ u.ahead \in SUBSET s.ahead
  BY <1>1 DEF SchedulerStates
<1>3. s.counts[p].waiting > 0
  <2>1. Cardinality(Of(p, W)) > 0  BY OneLess
  <2> QED  BY <1>1, <2>1 DEF Counted
<1>4. \A q \in Principals :
        /\ u.counts[q].active = s.counts[q].active
        /\ u.counts[q].waiting = IF q = p THEN s.counts[q].waiting - 1 ELSE s.counts[q].waiting
        /\ u.counts[q] \in [active : Nat, waiting : Nat]
        /\ q # p => u.counts[q] = s.counts[q]
  BY <1>1, <1>2, <1>3 DEF Counters, Minus
<1>5. u.counts \in Counters  BY <1>1, <1>2, <1>4 DEF Counters
<1>6. u \in SchedulerStates
  <2>1. s.ahead \in SUBSET (Callers \X Callers)  BY <1>1 DEF SchedulerStates
  <2>2. u.ahead \in SUBSET (Callers \X Callers)  BY <1>2, <2>1
  <2> QED  BY <1>1, <1>2, <1>5, <2>2 DEF SchedulerStates, Counters
<1>7. p \in u.entries /\ \A q \in Principals \ {p} : q \in u.entries <=> u.counts[q] # Zero
  <2>1. \A q \in Principals : q \in s.entries <=> s.counts[q] # Zero  BY DEF Counted, Zero
  <2>2. s.counts[p] # Zero  BY <1>1, <1>3 DEF Zero, Counters
  <2> HIDE DEF u, p
  <2> QED  BY <1>1, <1>2, <1>4, <2>1, <2>2
<1> HIDE DEF u
<1>8. /\ t \in SchedulerStates
      /\ t.active = u.active /\ t.used = u.used /\ t.counts = u.counts
      /\ t.waiters = u.waiters
      /\ \A q \in Principals : q \in t.entries <=> t.counts[q] # Zero
  BY <1>6, <1>7, DropEmptyEntries
<1> HIDE DEF t
<1>9. ASSUME NEW q \in Principals
      PROVE  /\ t.counts[q].active = Cardinality(Of(q, H))
             /\ t.counts[q].waiting = Cardinality(Of(q, W \ {c}))
  <2>1. Cardinality(Of(q, W \ {c})) =
          IF p = q THEN Cardinality(Of(q, W)) - 1 ELSE Cardinality(Of(q, W))
    BY OneLess
  <2>2. /\ s.counts[q].active = Cardinality(Of(q, H))
        /\ s.counts[q].waiting = Cardinality(Of(q, W))
    BY DEF Counted
  <2> HIDE DEF p
  <2> QED  BY <1>4, <1>8, <2>1, <2>2
<1>10. Counted(t, H, W \ {c})
  <2>1. t.active = Cardinality(H)  BY <1>2, <1>8 DEF Counted
  <2>2. Reserved(t, H)  BY <1>2, <1>8 DEF Counted, Reserved
  <2> QED  BY <1>2, <1>8, <1>9, <2>1, <2>2 DEF Counted, Zero
<1>11. Bounded(t)  BY <1>1, <1>2, <1>4, <1>8 DEF Bounded, Counters
<1>12. HasCapacity(s, c) => HasCapacity(t, c)
  BY <1>1, <1>2, <1>4, <1>8 DEF HasCapacity
<1>13. t = RemoveWaiter(s, c)  BY DEF t, u, RemoveWaiter
<1> QED  BY <1>10, <1>11, <1>12, <1>13

LEMMA MarkAcquiredCounts ==
  ASSUME NEW s, NEW H \in SUBSET Callers, NEW W \in SUBSET Callers, Counted(s, H, W),
         NEW c \in Callers \ H, Bounded(s), HasCapacity(s, c)
  PROVE  /\ Counted(MarkAcquired(s, c), H \cup {c}, W)
         /\ Bounded(MarkAcquired(s, c))
<1> DEFINE t == MarkAcquired(s, c)
           p == PrincipalOf[c]
<1>1. /\ s \in SchedulerStates /\ s.waiters = W /\ s.counts \in Counters
      /\ s.active \in Nat /\ s.used \in [Dims -> Nat]
      /\ p \in Principals /\ StreamOf[c] \in Streams /\ DemandOf[c] \in [Dims -> Nat]
  BY DEF Counted, SchedulerStates, Counters
<1>2. /\ t.active = s.active + 1
      /\ t.used = [d \in Dims |-> s.used[d] + DemandOf[c][d]]
      /\ t.counts = [s.counts EXCEPT ![p].active = @ + 1]
      /\ t.waiters = W /\ t.entries = s.entries \cup {p}
  BY <1>1 DEF SchedulerStates, MarkAcquired
<1>3. \A q \in Principals :
        /\ t.counts[q].waiting = s.counts[q].waiting
        /\ t.counts[q].active = IF q = p THEN s.counts[q].active + 1 ELSE s.counts[q].active
        /\ t.counts[q] \in [active : Nat, waiting : Nat]
        /\ q # p => t.counts[q] = s.counts[q]
  BY <1>1, <1>2 DEF Counters
<1>4. t.counts \in Counters /\ t.used \in [Dims -> Nat] /\ t.active \in Nat
  BY <1>1, <1>2, <1>3 DEF Counters
<1>5. t \in SchedulerStates
  <2>1. PICK k : k = t.counts  OBVIOUS
  <2>2. PICK u : u = t.used  OBVIOUS
  <2>3. t = [s EXCEPT !.active = s.active + 1, !.used = u, !.lastPrincipal = p,
                      !.lastStream = StreamOf[c], !.counts = k, !.entries = s.entries \cup {p}]
    BY <1>2, <2>1, <2>2 DEF MarkAcquired
  <2> HIDE DEF t, p
  <2>4. k \in Counters /\ u \in [Dims -> Nat] /\ s.active + 1 \in Nat
    BY <1>1, <1>4, <2>1, <2>2
  <2> QED  BY <1>1, <2>3, <2>4 DEF SchedulerStates, Counters
<1>6. ASSUME NEW q \in Principals
      PROVE  /\ t.counts[q].waiting = Cardinality(Of(q, W))
             /\ t.counts[q].active = Cardinality(Of(q, H \cup {c}))
             /\ q \in t.entries <=> t.counts[q] # Zero
  <2>1. Cardinality(Of(q, H \cup {c})) =
          IF p = q THEN Cardinality(Of(q, H)) + 1 ELSE Cardinality(Of(q, H))
    BY OneMore
  <2>2. /\ s.counts[q].active = Cardinality(Of(q, H))
        /\ s.counts[q].waiting = Cardinality(Of(q, W))
        /\ q \in s.entries <=> s.counts[q] # Zero
    BY DEF Counted, Zero
  <2>3. q = p => t.counts[q] # Zero  BY <1>1, <1>3 DEF Zero, Counters
  <2> HIDE DEF t, p
  <2> QED  BY <1>2, <1>3, <2>1, <2>2, <2>3
<1>7. Bounded(t)
  <2>1. /\ s.active < GlobalLimit /\ s.counts[p].active < PrincipalLimit
        /\ \A d \in Dims : s.used[d] + DemandOf[c][d] <= Budget[d]
    BY DEF HasCapacity
  <2>2. \A q \in Principals : s.counts[q].active <= PrincipalLimit /\ s.counts[q].active \in Nat
    BY <1>1 DEF Bounded, Counters
  <2> HIDE DEF t, p
  <2>3. t.active <= GlobalLimit  BY <1>1, <1>2, <2>1
  <2>4. \A q \in Principals : t.counts[q].active <= PrincipalLimit
    BY <1>1, <1>3, <2>1, <2>2
  <2>5. \A d \in Dims : t.used[d] <= Budget[d]  BY <1>2, <2>1
  <2> QED  BY <2>3, <2>4, <2>5 DEF Bounded
<1> HIDE DEF t
<1>8. Counted(t, H \cup {c}, W)
  <2>1. t.active = Cardinality(H \cup {c})
    <3>1. Cardinality(H \cup {c}) = Cardinality(H) + 1  BY OneMore
    <3> QED  BY <1>2, <3>1 DEF Counted
  <2>2. Reserved(t, H \cup {c})
    <3> SUFFICES ASSUME NEW d \in Dims
                 PROVE  t.used[d] = Total(DemandOf, d, H \cup {c})
      BY DEF Reserved
    <3>1. Total(DemandOf, d, H \cup {c}) = Total(DemandOf, d, H) + DemandOf[c][d]
      BY DemandChanges
    <3>2. s.used[d] = Total(DemandOf, d, H)  BY DEF Counted, Reserved
    <3> QED  BY <1>2, <3>1, <3>2
  <2> QED  BY <1>2, <1>5, <1>6, <2>1, <2>2 DEF Counted, Zero
<1> QED  BY <1>7, <1>8 DEF t

LEMMA ReleasedCounts ==
  ASSUME NEW s, NEW H \in SUBSET Callers, NEW W \in SUBSET Callers, Counted(s, H, W),
         NEW c \in H, Bounded(s)
  PROVE  /\ Counted(Released(s, c), H \ {c}, W)
         /\ Bounded(Released(s, c))
<1> DEFINE p == PrincipalOf[c]
           u == [s EXCEPT !.active = Minus(@, 1),
                          !.used = [d \in Dims |-> Minus(@[d], DemandOf[c][d])],
                          !.counts[p].active = Minus(@, 1)]
           t == DropEmpty(u, p)
<1>1. /\ s \in SchedulerStates /\ s.waiters = W /\ s.counts \in Counters
      /\ s.active \in Nat /\ s.used \in [Dims -> Nat]
      /\ p \in Principals /\ DemandOf[c] \in [Dims -> Nat]
  BY DEF Counted, SchedulerStates, Counters
<1>2. /\ u.active = Minus(s.active, 1)
      /\ u.used = [d \in Dims |-> Minus(s.used[d], DemandOf[c][d])]
      /\ u.counts = [s.counts EXCEPT ![p].active = Minus(@, 1)]
      /\ u.waiters = W /\ u.entries = s.entries
  BY <1>1 DEF SchedulerStates
<1>3. s.counts[p].active > 0 /\ s.active > 0
  <2>1. Cardinality(Of(p, H)) > 0 /\ Cardinality(H) > 0  BY OneLess
  <2> QED  BY <1>1, <2>1 DEF Counted
<1>4. \A q \in Principals :
        /\ u.counts[q].waiting = s.counts[q].waiting
        /\ u.counts[q].active = IF q = p THEN s.counts[q].active - 1 ELSE s.counts[q].active
        /\ u.counts[q] \in [active : Nat, waiting : Nat]
        /\ q # p => u.counts[q] = s.counts[q]
  BY <1>1, <1>2, <1>3 DEF Counters, Minus
<1>5. u.counts \in Counters /\ u.active \in Nat /\ u.used \in [Dims -> Nat]
  <2>1. u.counts \in Counters  BY <1>1, <1>2, <1>4 DEF Counters
  <2>2. \A m, n \in Nat : Minus(m, n) \in Nat  BY DEF Minus
  <2>3. Minus(s.active, 1) \in Nat  BY <1>1, <2>2
  <2>4. [d \in Dims |-> Minus(s.used[d], DemandOf[c][d])] \in [Dims -> Nat]
    BY <1>1, <2>2
  <2> QED  BY <1>2, <2>1, <2>3, <2>4
<1>6. u \in SchedulerStates
  BY <1>1, <1>2, <1>5 DEF SchedulerStates, Counters
<1>7. p \in u.entries /\ \A q \in Principals \ {p} : q \in u.entries <=> u.counts[q] # Zero
  <2>1. \A q \in Principals : q \in s.entries <=> s.counts[q] # Zero  BY DEF Counted, Zero
  <2>2. s.counts[p] # Zero  BY <1>1, <1>3 DEF Zero, Counters
  <2> HIDE DEF u, p
  <2> QED  BY <1>1, <1>2, <1>4, <2>1, <2>2
<1> HIDE DEF u
<1>8. /\ t \in SchedulerStates
      /\ t.active = u.active /\ t.used = u.used /\ t.counts = u.counts
      /\ t.waiters = u.waiters
      /\ \A q \in Principals : q \in t.entries <=> t.counts[q] # Zero
  BY <1>6, <1>7, DropEmptyEntries
<1> HIDE DEF t
<1>9. ASSUME NEW q \in Principals
      PROVE  /\ t.counts[q].waiting = Cardinality(Of(q, W))
             /\ t.counts[q].active = Cardinality(Of(q, H \ {c}))
  <2>1. Cardinality(Of(q, H \ {c})) =
          IF p = q THEN Cardinality(Of(q, H)) - 1 ELSE Cardinality(Of(q, H))
    BY OneLess
  <2>2. /\ s.counts[q].active = Cardinality(Of(q, H))
        /\ s.counts[q].waiting = Cardinality(Of(q, W))
    BY DEF Counted
  <2> HIDE DEF p
  <2> QED  BY <1>4, <1>8, <2>1, <2>2
<1>10. Counted(t, H \ {c}, W)
  <2>1. t.active = Cardinality(H \ {c})
    <3>1. Cardinality(H \ {c}) = Cardinality(H) - 1  BY OneLess
    <3>2. s.active = Cardinality(H)  BY DEF Counted
    <3> QED  BY <1>1, <1>2, <1>3, <1>8, <3>1, <3>2 DEF Minus
  <2>2. Reserved(t, H \ {c})
    <3> SUFFICES ASSUME NEW d \in Dims
                 PROVE  t.used[d] = Total(DemandOf, d, H \ {c})
      BY DEF Reserved
    <3>1. /\ DemandOf[c][d] <= Total(DemandOf, d, H)
          /\ Total(DemandOf, d, H \ {c}) = Total(DemandOf, d, H) - DemandOf[c][d]
      BY DemandChanges
    <3>2. s.used[d] = Total(DemandOf, d, H)  BY DEF Counted, Reserved
    <3> QED  BY <1>2, <1>8, <3>1, <3>2 DEF Minus
  <2> QED  BY <1>2, <1>8, <1>9, <2>1, <2>2 DEF Counted, Zero
<1>11. Bounded(t)
  <2>1. t.active <= GlobalLimit  BY <1>1, <1>2, <1>3, <1>8 DEF Bounded, Minus
  <2>2. \A q \in Principals : t.counts[q].active <= PrincipalLimit
    BY <1>1, <1>4, <1>8 DEF Bounded, Counters
  <2>3. \A d \in Dims : t.used[d] <= Budget[d]
    BY <1>1, <1>2, <1>8 DEF Bounded, Minus
  <2> QED  BY <2>1, <2>2, <2>3 DEF Bounded
<1>12. t = Released(s, c)  BY DEF t, u, Released
<1> QED  BY <1>10, <1>11, <1>12

-----------------------------------------------------------------------------
(* The invariant *)

LEMMA SelectedWait ==
  ASSUME NEW s \in SchedulerStates, NEW at
  PROVE  Selected(s, at) \in SUBSET Callers
BY DEF Selected, Eligible, SchedulerStates

\* The body of the loop, of a caller that has just queued or has woken up.
LEMMA LoopKeeps ==
  ASSUME IInv, NEW c \in Callers, pc[c] \in {"entering", "waiting"},
         NEW s, Counted(s, Holders, Sleepers \cup {c}), Bounded(s),
         Cardinality(Sleepers \cup {c}) <= WaiterLimit, Loop(s, c)
  PROVE  IInv'
<1> DEFINE W == Sleepers \cup {c}
<1>1. /\ Holders \in SUBSET Callers /\ W \in SUBSET Callers
      /\ c \in W /\ c \notin Holders /\ Counted(s, Holders, W)
  BY DEF Holders, Sleepers
<1>2. /\ pc \in [Callers -> {"idle", "entering", "waiting", "holding"}]
      /\ age \in [Callers -> Nat] /\ notified \in SUBSET Callers
  BY DEF IInv, TypeOK
<1>3. Cardinality(W \ {c}) <= WaiterLimit
  <2>1. Cardinality(W \ {c}) = Cardinality(W) - 1  BY <1>1, OneLess
  <2>2. Cardinality(W) \in Nat  BY <1>1, CountedSets
  <2> QED  BY <2>1, <2>2
<1>4. ASSUME Grant(s, c) PROVE IInv'
  <2> DEFINE r == RemoveWaiter(s, c)
  <2>1. Counted(r, Holders, W \ {c}) /\ Bounded(r)  BY <1>1, RemoveWaiterCounts
  <2>2. HasCapacity(r, c)
    BY <1>1, <1>4, RemoveWaiterCounts DEF Grant, CanAcquire
  <2>3. adm' = MarkAcquired(r, c) /\ pc' = [pc EXCEPT ![c] = "holding"]
        /\ age' = [age EXCEPT ![c] = 0]
        /\ notified' = (notified \ {c}) \cup Selected(adm', age)
    BY <1>4 DEF Grant
  <2> HIDE DEF r
  <2>4. Counted(adm', Holders \cup {c}, W \ {c}) /\ Bounded(adm')
    BY <1>1, <2>1, <2>2, <2>3, MarkAcquiredCounts
  <2>5. Holders' = Holders \cup {c} /\ Sleepers' = W \ {c}
    BY <1>2, <2>3 DEF Holders, Sleepers
  <2>6. adm' \in SchedulerStates  BY <2>4 DEF Counted
  <2>7. notified' \in SUBSET Callers  BY <1>2, <2>3, <2>6, SelectedWait
  <2> QED
    BY <1>2, <1>3, <2>3, <2>4, <2>5, <2>6, <2>7 DEF IInv, TypeOK, SchedulerStates, Counted, Bounded
<1>5. ASSUME GiveUp(s, c) PROVE IInv'
  <2>1. adm' = RemoveWaiter(s, c) /\ pc' = [pc EXCEPT ![c] = "idle"]
        /\ age' = [age EXCEPT ![c] = 0]
        /\ notified' = (notified \ {c}) \cup Selected(adm', age)
    BY <1>5 DEF GiveUp
  <2>2. Counted(adm', Holders, W \ {c}) /\ Bounded(adm')
    BY <1>1, <2>1, RemoveWaiterCounts
  <2>3. Holders' = Holders /\ Sleepers' = W \ {c}
    BY <1>2, <2>1 DEF Holders, Sleepers
  <2>4. adm' \in SchedulerStates  BY <2>2 DEF Counted
  <2>5. notified' \in SUBSET Callers  BY <1>2, <2>1, <2>4, SelectedWait
  <2> QED
    BY <1>2, <1>3, <2>1, <2>2, <2>3, <2>4, <2>5 DEF IInv, TypeOK, SchedulerStates, Counted, Bounded
<1>6. ASSUME Sleep(s, c) PROVE IInv'
  <2>1. adm' = s /\ pc' = [pc EXCEPT ![c] = "waiting"] /\ notified' = notified \ {c} /\ age' = age
    BY <1>6 DEF Sleep
  <2>2. Holders' = Holders /\ Sleepers' = W
    BY <1>2, <2>1 DEF Holders, Sleepers
  <2>3. adm' \in SchedulerStates  BY <1>1, <2>1 DEF Counted
  <2> QED
    BY <1>1, <1>2, <2>1, <2>2, <2>3 DEF IInv, TypeOK, SchedulerStates, Counted, Bounded
<1> QED  BY <1>4, <1>5, <1>6 DEF Loop

\* Steps that leave the scheduler and the sets of holders and sleepers alone.
LEMMA QuietStep ==
  ASSUME IInv, UNCHANGED adm, Holders' = Holders, Sleepers' = Sleepers, TypeOK'
  PROVE  IInv'
BY DEF IInv, Counted, Reserved, Bounded, SchedulerStates

LEMMA NextKeepsIInv == IInv /\ [Next]_vars => IInv'
<1> SUFFICES ASSUME IInv, [Next]_vars PROVE IInv'  OBVIOUS
<1>1. /\ pc \in [Callers -> {"idle", "entering", "waiting", "holding"}]
      /\ age \in [Callers -> Nat] /\ notified \in SUBSET Callers
      /\ adm \in SchedulerStates
      /\ Counted(adm, Holders, Sleepers) /\ Bounded(adm)
      /\ Holders \in SUBSET Callers /\ Sleepers \in SUBSET Callers
      /\ TypeOK
  BY DEF IInv, TypeOK, Counted, Holders, Sleepers
<1>2. ASSUME NEW c \in Callers, Call(c) PROVE IInv'
  <2>1. Holders' = Holders /\ Sleepers' = Sleepers
    BY <1>1, <1>2 DEF Call, Holders, Sleepers
  <2>2. TypeOK'  BY <1>1, <1>2 DEF Call, TypeOK
  <2> QED  BY <1>2, <2>1, <2>2, QuietStep DEF Call
<1>3. ASSUME NEW c \in Callers, EnterDirect(c) PROVE IInv'
  <2>1. /\ pc[c] = "entering" /\ HasCapacity(adm, c) /\ adm' = MarkAcquired(adm, c)
        /\ pc' = [pc EXCEPT ![c] = "holding"] /\ age' = [age EXCEPT ![c] = 0]
        /\ notified' = notified
    BY <1>3 DEF EnterDirect, CanAcquire
  <2>2. c \notin Holders  BY <2>1 DEF Holders
  <2>3. Counted(adm', Holders \cup {c}, Sleepers) /\ Bounded(adm')
    BY <1>1, <2>1, <2>2, MarkAcquiredCounts
  <2>4. Holders' = Holders \cup {c} /\ Sleepers' = Sleepers
    BY <1>1, <2>1 DEF Holders, Sleepers
  <2>5. adm' \in SchedulerStates  BY <2>3 DEF Counted
  <2> QED
    BY <1>1, <2>1, <2>3, <2>4, <2>5 DEF IInv, TypeOK, SchedulerStates, Counted, Bounded
<1>4. ASSUME NEW c \in Callers, EnterRefused(c) PROVE IInv'
  <2>1. Holders' = Holders /\ Sleepers' = Sleepers
    BY <1>1, <1>4 DEF EnterRefused, Holders, Sleepers
  <2>2. TypeOK'  BY <1>1, <1>4 DEF EnterRefused, TypeOK
  <2> QED  BY <1>4, <2>1, <2>2, QuietStep DEF EnterRefused
<1>5. ASSUME NEW c \in Callers, EnterQueued(c) PROVE IInv'
  <2>1. /\ pc[c] = "entering" /\ Cardinality(adm.waiters) < WaiterLimit
        /\ Loop(Enqueue(adm, c), c)
    BY <1>5 DEF EnterQueued
  <2>2. c \notin Sleepers  BY <2>1 DEF Sleepers
  <2>3. Counted(Enqueue(adm, c), Holders, Sleepers \cup {c}) /\ Bounded(Enqueue(adm, c))
    BY <1>1, <2>2, EnqueueCounts
  <2>4. Cardinality(Sleepers \cup {c}) <= WaiterLimit
    <3>1. Cardinality(Sleepers) < WaiterLimit  BY <1>1, <2>1 DEF Counted
    <3>2. Cardinality(Sleepers) \in Nat  BY <1>1, CountedSets
    <3>3. Cardinality(Sleepers \cup {c}) = Cardinality(Sleepers) + 1
      BY <1>1, <2>2, OneMore
    <3> QED  BY <3>1, <3>2, <3>3
  <2> QED  BY <2>1, <2>3, <2>4, LoopKeeps
<1>6. ASSUME NEW c \in Callers, pc[c] = "waiting", Loop(adm, c) PROVE IInv'
  <2>1. Sleepers \cup {c} = Sleepers  BY <1>6 DEF Sleepers
  <2>2. Cardinality(Sleepers \cup {c}) <= WaiterLimit  BY <2>1 DEF IInv
  <2> QED  BY <1>1, <1>6, <2>1, <2>2, LoopKeeps
<1>7. ASSUME NEW c \in Callers, Release(c) PROVE IInv'
  <2>1. /\ pc[c] = "holding" /\ adm' = Released(adm, c)
        /\ pc' = [pc EXCEPT ![c] = "idle"] /\ age' = [age EXCEPT ![c] = 0]
        /\ notified' = notified \cup Selected(adm', age)
    BY <1>7 DEF Release
  <2>2. c \in Holders  BY <2>1 DEF Holders
  <2>3. Counted(adm', Holders \ {c}, Sleepers) /\ Bounded(adm')
    BY <1>1, <2>1, <2>2, ReleasedCounts
  <2>4. Holders' = Holders \ {c} /\ Sleepers' = Sleepers
    BY <1>1, <2>1 DEF Holders, Sleepers
  <2>5. adm' \in SchedulerStates  BY <2>3 DEF Counted
  <2>6. notified' \in SUBSET Callers  BY <1>1, <2>1, <2>5, SelectedWait
  <2> QED
    BY <1>1, <2>1, <2>3, <2>4, <2>5, <2>6 DEF IInv, TypeOK, SchedulerStates, Counted, Bounded
<1>8. CASE Tick
  <2>1. Holders' = Holders /\ Sleepers' = Sleepers
    BY <1>8 DEF Tick, Holders, Sleepers
  <2>2. age' \in [Callers -> Nat]
    BY <1>1, <1>8 DEF Tick, LeastOf, AgeCap
  <2>3. TypeOK'  BY <1>1, <1>8, <2>2 DEF Tick, TypeOK
  <2> QED  BY <1>8, <2>1, <2>3, QuietStep DEF Tick
<1>9. CASE UNCHANGED vars
  <2>1. Holders' = Holders /\ Sleepers' = Sleepers
    BY <1>9 DEF vars, Holders, Sleepers
  <2>2. TypeOK'  BY <1>1, <1>9 DEF vars, TypeOK
  <2> QED  BY <1>9, <2>1, <2>2, QuietStep DEF vars
<1>10. ASSUME NEW c \in Callers, Step(c) PROVE IInv'
  <2>1. Wake(c) \/ SpuriousWake(c) => pc[c] = "waiting" /\ Loop(adm, c)
    BY DEF Wake, SpuriousWake, Loop
  <2> QED
    BY <1>2, <1>3, <1>4, <1>5, <1>6, <1>7, <1>10, <2>1 DEF Step, Enter
<1> QED  BY <1>8, <1>9, <1>10 DEF Next

LEMMA InitIInv == Init => IInv
<1> SUFFICES ASSUME Init PROVE IInv  OBVIOUS
<1>1. Holders = {} /\ Sleepers = {}  BY DEF Init, Holders, Sleepers
<1>2. \A p : Of(p, {}) = {}  BY DEF Of
<1>3. adm \in SchedulerStates  BY DEF Init, SchedulerStates
<1>4. TypeOK  BY <1>3 DEF Init, TypeOK, SchedulerStates
<1>5. Counted(adm, {}, {})
  <2>1. Reserved(adm, {})
    <3>1. \A d \in Dims : Total(DemandOf, d, {}) = 0  BY DemandTerms, OneTerm
    <3> QED  BY <3>1 DEF Init, Reserved
  <2> QED  BY <1>2, <1>3, <2>1, FS_EmptySet DEF Init, Counted
<1>6. Bounded(adm)  BY DEF Init, Bounded
<1> QED  BY <1>1, <1>4, <1>5, <1>6, FS_EmptySet DEF IInv

\* In every reachable state the counters are the numbers of the calls they stand
\* for, the reservations their sum, and the limits hold: what the rest is built on.
THEOREM Invariance == Spec => []IInv
  BY InitIInv, NextKeepsIInv, PTL DEF Spec

\* The scheduler's state and the calls keep their types.
THEOREM AdmissionTypes == Spec => []TypeOK
<1>1. IInv => TypeOK  BY DEF IInv
<1> QED  BY <1>1, Invariance, PTL

\* What the scheduler has counted is what is held and what waits, in all and
\* per principal, and it is within the limits, whatever way each call took.
THEOREM AdmissionIsExactAndBounded == Spec => []AdmissionIsExact
<1>1. IInv => AdmissionIsExact
  <2> SUFFICES ASSUME IInv PROVE CallsAreCounted /\ WithinLimits  BY DEF AdmissionIsExact
  <2>1. /\ Counted(adm, Holders, Sleepers) /\ Bounded(adm)
        /\ Holders \in SUBSET Callers /\ Sleepers \in SUBSET Callers
    BY DEF IInv, Holders, Sleepers
  <2>2. ASSUME NEW p \in Principals
        PROVE  /\ adm.counts[p].active = Cardinality({c \in Holders : PrincipalOf[c] = p})
               /\ adm.counts[p].waiting = Cardinality({c \in Sleepers : PrincipalOf[c] = p})
               /\ p \in adm.entries <=> \E c \in Holders \cup Sleepers : PrincipalOf[c] = p
    <3>1. /\ adm.counts[p].active = Cardinality(Of(p, Holders))
          /\ adm.counts[p].waiting = Cardinality(Of(p, Sleepers))
          /\ p \in adm.entries <=> adm.counts[p] # Zero
          /\ adm.counts[p] \in [active : Nat, waiting : Nat]
      BY <2>1 DEF Counted, SchedulerStates, Zero
    <3>2. adm.counts[p] = Zero <=> adm.counts[p].active = 0 /\ adm.counts[p].waiting = 0
      BY <3>1 DEF Zero
    <3>3. /\ Cardinality(Of(p, Holders)) = 0 <=> Of(p, Holders) = {}
          /\ Cardinality(Of(p, Sleepers)) = 0 <=> Of(p, Sleepers) = {}
      BY <2>1, CountedSets
    <3>4. Of(p, Holders) = {} /\ Of(p, Sleepers) = {}
            <=> ~\E c \in Holders \cup Sleepers : PrincipalOf[c] = p
      BY DEF Of
    <3>5. p \in adm.entries <=> \E c \in Holders \cup Sleepers : PrincipalOf[c] = p
      BY <3>1, <3>2, <3>3, <3>4
    <3> QED  BY <3>1, <3>5 DEF Of
  <2>3. CallsAreCounted  BY <2>1, <2>2 DEF CallsAreCounted, Counted
  <2>4. WithinLimits
    <3>1. \A p \in Principals : Cardinality({c \in Holders : PrincipalOf[c] = p}) <= PrincipalLimit
      BY <2>1, <2>2 DEF Bounded
    <3> QED  BY <2>1, <3>1 DEF WithinLimits, Bounded, Counted, IInv
  <2> QED  BY <2>3, <2>4
<1> QED  BY <1>1, Invariance, PTL

\* The tokens and bytes that are reserved are the sum of what the calls that hold
\* a permit asked for, so no way of ending a call gives back too much or too little.
THEOREM DemandIsExact == Spec => []DemandIsReserved
<1>1. IInv => DemandIsReserved
  <2> SUFFICES ASSUME IInv, NEW d \in Dims
               PROVE  adm.used[d] = MapThenSumSet(LAMBDA c : DemandOf[c][d], Holders)
    BY DEF DemandIsReserved
  <2>1. adm.used[d] = Total(DemandOf, d, Holders)  BY DEF IInv, Counted, Reserved
  <2>2. MapThenSumSet(LAMBDA c : DemandOf[c][d], Holders) = Total(DemandOf, d, Holders)
    BY SumDef DEF Total
  <2> QED  BY <2>1, <2>2
<1> QED  BY <1>1, Invariance, PTL

-----------------------------------------------------------------------------
(* What a change of the queue does to the order *)

\* How long the others have waited decides; the caller's own clock does not.
LEMMA SameAges ==
  ASSUME NEW s \in SchedulerStates, NEW at, NEW bt, \A w \in s.waiters : at[w] = bt[w]
  PROVE  Eligible(s, at) = Eligible(s, bt) /\ Selected(s, at) = Selected(s, bt)
<1>1. Eligible(s, at) = Eligible(s, bt)  BY DEF Eligible
<1>2. ASSUME NEW w \in s.waiters, NEW v \in s.waiters
      PROVE  Precedes(s, at, w, v) <=> Precedes(s, bt, w, v)
  <2>1. Key(s, at, w) = Key(s, bt, w) /\ Key(s, at, v) = Key(s, bt, v)  BY DEF Key
  <2> QED  BY <2>1, Zenon DEF Precedes
<1>3. Eligible(s, at) \subseteq s.waiters  BY DEF Eligible
<1>4. \A w \in Eligible(s, at) :
        (\A v \in Eligible(s, at) \ {w} : Precedes(s, at, w, v))
          <=> (\A v \in Eligible(s, at) \ {w} : Precedes(s, bt, w, v))
  BY <1>2, <1>3
<1> QED  BY <1>1, <1>4 DEF Selected

LEMMA TicketsEnqueue ==
  ASSUME NEW s \in SchedulerStates, Tickets(s), NEW c \in Callers, c \notin s.waiters
  PROVE  /\ Tickets(Enqueue(s, c)) /\ Enqueue(s, c).waiters = s.waiters \cup {c}
         /\ \A w \in Callers : HasCapacity(Enqueue(s, c), w) <=> HasCapacity(s, w)
         /\ \A at : \A w, v \in s.waiters : Precedes(Enqueue(s, c), at, w, v) <=> Precedes(s, at, w, v)
<1> DEFINE t == Enqueue(s, c)
           p == PrincipalOf[c]
<1>1. /\ t.active = s.active /\ t.used = s.used
      /\ t.counts = [s.counts EXCEPT ![p].waiting = @ + 1]
      /\ t.waiters = s.waiters \cup {c} /\ t.ahead = s.ahead \cup (s.waiters \X {c})
      /\ t.lastPrincipal = s.lastPrincipal /\ t.lastStream = s.lastStream
  BY DEF SchedulerStates, Enqueue
<1>2. s.counts \in Counters /\ p \in Principals  BY DEF SchedulerStates, Counters
<1>3. \A q \in Principals : t.counts[q].active = s.counts[q].active
  BY <1>1, <1>2 DEF Counters
<1> HIDE DEF t
<1>4. \A w \in Callers : HasCapacity(t, w) <=> HasCapacity(s, w)
  BY <1>1, <1>3 DEF HasCapacity
<1>5. \A w, v \in s.waiters : <<w, v>> \in t.ahead <=> <<w, v>> \in s.ahead
  BY <1>1
<1>6. ASSUME NEW at, NEW w \in s.waiters, NEW v \in s.waiters
      PROVE  Precedes(t, at, w, v) <=> Precedes(s, at, w, v)
  <2>1. Key(t, at, w) = Key(s, at, w) /\ Key(t, at, v) = Key(s, at, v)  BY <1>1 DEF Key
  <2> QED  BY <1>5, <2>1, Zenon DEF Precedes
<1>7. Tickets(t)
  <2>1. t.ahead \subseteq t.waiters \X t.waiters  BY <1>1 DEF Tickets
  <2>2. \A w \in s.waiters : <<w, c>> \in t.ahead /\ <<c, w>> \notin t.ahead
    BY <1>1 DEF Tickets
  <2>3. <<c, c>> \notin t.ahead  BY <1>1 DEF Tickets
  <2>4. \A w \in t.waiters : w \in s.waiters \/ w = c  BY <1>1
  <2>5. \A w, v \in t.waiters : w # v => <<w, v>> \in t.ahead \/ <<v, w>> \in t.ahead
    BY <1>5, <2>2, <2>4 DEF Tickets
  <2>6. \A w, v \in t.waiters : <<w, v>> \in t.ahead => <<v, w>> \notin t.ahead
    BY <1>5, <2>2, <2>3, <2>4 DEF Tickets
  <2>7. \A u, v, w \in t.waiters :
          <<u, v>> \in t.ahead /\ <<v, w>> \in t.ahead => <<u, w>> \in t.ahead
    BY <1>5, <2>2, <2>3, <2>4 DEF Tickets
  <2> QED  BY <2>1, <2>5, <2>6, <2>7 DEF Tickets
<1> QED  BY <1>1, <1>4, <1>6, <1>7 DEF t

LEMMA TicketsRemove ==
  ASSUME NEW s \in SchedulerStates, Tickets(s), NEW c \in Callers
  PROVE  /\ Tickets(RemoveWaiter(s, c)) /\ RemoveWaiter(s, c).waiters = s.waiters \ {c}
         /\ \A d \in Callers : /\ Tickets(MarkAcquired(RemoveWaiter(s, c), d))
                               /\ MarkAcquired(RemoveWaiter(s, c), d).waiters = s.waiters \ {c}
<1> DEFINE p == PrincipalOf[c]
           u == [s EXCEPT !.waiters = @ \ {c}, !.ahead = {e \in @ : c \notin {e[1], e[2]}},
                          !.counts[p].waiting = Minus(@, 1)]
           t == RemoveWaiter(s, c)
<1>1. u.waiters = s.waiters \ {c} /\ u.ahead = {e \in s.ahead : c \notin {e[1], e[2]}}
  BY DEF SchedulerStates
<1>2. t = u \/ t = [u EXCEPT !.entries = @ \ {p}]  BY DEF RemoveWaiter, DropEmpty
<1>3. t.waiters = u.waiters /\ t.ahead = u.ahead
  <2> HIDE DEF t
  <2> QED  BY <1>2 DEF SchedulerStates
<1> HIDE DEF t, u
<1>4. \A r : r.waiters = s.waiters \ {c} /\ r.ahead = {e \in s.ahead : c \notin {e[1], e[2]}} => Tickets(r)
  BY DEF Tickets
<1>5. \A d \in Callers : LET r == MarkAcquired(t, d) IN r.waiters = t.waiters /\ r.ahead = t.ahead
  BY DEF MarkAcquired
<1>6. Tickets(t) /\ t.waiters = s.waiters \ {c}  BY <1>1, <1>3, <1>4
<1>7. \A d \in Callers : Tickets(MarkAcquired(t, d)) /\ MarkAcquired(t, d).waiters = s.waiters \ {c}
  BY <1>1, <1>3, <1>4, <1>5
<1> QED  BY <1>6, <1>7 DEF t

\* A grant takes capacity from everybody and a place in the queue from nobody.
LEMMA GrantTakesCapacity ==
  ASSUME NEW s \in SchedulerStates, NEW c \in Callers
  PROVE  /\ MarkAcquired(s, c).waiters = s.waiters /\ MarkAcquired(s, c).ahead = s.ahead
         /\ \A w \in Callers : HasCapacity(MarkAcquired(s, c), w) => HasCapacity(s, w)
<1> DEFINE t == MarkAcquired(s, c)
           p == PrincipalOf[c]
<1>1. /\ s.counts \in Counters /\ s.active \in Nat /\ s.used \in [Dims -> Nat]
      /\ p \in Principals /\ DemandOf[c] \in [Dims -> Nat]
  BY DEF SchedulerStates, Counters
<1>2. /\ t.active = s.active + 1 /\ t.waiters = s.waiters /\ t.ahead = s.ahead
      /\ t.used = [d \in Dims |-> s.used[d] + DemandOf[c][d]]
      /\ t.counts = [s.counts EXCEPT ![p].active = @ + 1]
  BY <1>1 DEF SchedulerStates, MarkAcquired
<1>3. \A q \in Principals :
        /\ t.counts[q].active = IF q = p THEN s.counts[q].active + 1 ELSE s.counts[q].active
        /\ s.counts[q].active \in Nat
  BY <1>1, <1>2 DEF Counters
<1> HIDE DEF t
<1>4. ASSUME NEW w \in Callers, HasCapacity(t, w) PROVE HasCapacity(s, w)
  <2>1. s.active < GlobalLimit  BY <1>1, <1>2, <1>4 DEF HasCapacity
  <2>2. ASSUME NEW d \in Dims PROVE s.used[d] + DemandOf[w][d] <= Budget[d]
    <3>1. t.used[d] + DemandOf[w][d] <= Budget[d]  BY <1>4 DEF HasCapacity
    <3>2. t.used[d] = s.used[d] + DemandOf[c][d]  BY <1>2
    <3>3. s.used[d] \in Nat /\ DemandOf[c][d] \in Nat /\ DemandOf[w][d] \in Nat /\ Budget[d] \in Nat
      BY <1>1
    <3> QED  BY <3>1, <3>2, <3>3
  <2>3. s.counts[PrincipalOf[w]].active < PrincipalLimit
    <3>1. t.counts[PrincipalOf[w]].active < PrincipalLimit /\ PrincipalOf[w] \in Principals
      BY <1>4 DEF HasCapacity
    <3> HIDE DEF p
    <3> QED  BY <1>3, <3>1
  <2> QED  BY <2>1, <2>2, <2>3 DEF HasCapacity
<1> QED  BY <1>2, <1>4 DEF t

-----------------------------------------------------------------------------
(* Grants and wake-ups *)

OrderInv == Tickets(adm) /\ notified \subseteq adm.waiters

Promoted(w) == RankOf[w] > 0 /\ age[w] >= Aging

\* The selected waiter is about to look, unless it was promoted by its age, or a
\* waiter whose wait is over will pass the turn on, or the turn is lost already.
WakeInv ==
  \A w \in Selected(adm, age) :
    \/ w \in notified \/ Promoted(w)
    \/ \E v \in adm.waiters : WaitOver(v)
    \/ AsleepWithCapacity

\* The turn is lost by a waiter that was notified and is not the one any more.
TurnIsKept ==
  AsleepWithCapacity' =>
    \/ AsleepWithCapacity
    \/ \E a \in notified \ notified' :
         /\ pc'[a] = "waiting"
         /\ \E w \in Selected(adm', age) \ {a} : RankOf[w] > 0 /\ age[w] >= Aging

InOrder(c) ==
  LET s == IF c \in adm.waiters THEN adm ELSE Enqueue(adm, c)
  IN \A w \in Eligible(adm, age) \ {c} : Precedes(s, age, c, w)

Kept == OrderInv' /\ WakeInv' /\ TurnIsKept

\* A step that notifies the selected waiter loses no turn.
LEMMA TurnPassedOn ==
  ASSUME adm' \in SchedulerStates, age' \in [Callers -> Nat], Tickets(adm'),
         Selected(adm', age') \subseteq notified', notified' \subseteq adm'.waiters
  PROVE  Kept
<1>1. OrderInv'  BY DEF OrderInv
<1>2. WakeInv'  BY DEF WakeInv
<1>3. ~AsleepWithCapacity'
  <2> SUFFICES ASSUME AsleepWithCapacity' PROVE FALSE  OBVIOUS
  <2>1. Eligible(adm', age') # {} /\ \A w \in adm'.waiters : w \notin notified'
    BY DEF AsleepWithCapacity
  <2>2. PICK w \in Eligible(adm', age') : Selected(adm', age') = {w}
    BY <2>1, SomebodyIsSelected
  <2> QED  BY <2>1, <2>2
<1> QED  BY <1>1, <1>2, <1>3 DEF Kept, TurnIsKept

\* A step that leaves the queue, the ages and the notifications alone, and gives
\* no waiter capacity that it did not have.
LEMMA NothingNew ==
  ASSUME IInv, OrderInv, WakeInv, adm' \in SchedulerStates,
         adm'.waiters = adm.waiters, adm'.ahead = adm.ahead, notified' = notified, age' = age,
         \/ adm' = adm
         \/ Eligible(adm, age) = {} /\ \A w \in Callers : HasCapacity(adm', w) => HasCapacity(adm, w)
  PROVE  Kept
<1>1. OrderInv'  BY DEF OrderInv, Tickets
<1>2. CASE adm' = adm
  <2>1. WakeInv'  BY <1>2 DEF WakeInv, AsleepWithCapacity, WaitOver, Promoted
  <2>2. TurnIsKept  BY <1>2 DEF TurnIsKept, AsleepWithCapacity, WaitOver
  <2> QED  BY <1>1, <2>1, <2>2 DEF Kept
<1>3. CASE Eligible(adm, age) = {} /\ \A w \in Callers : HasCapacity(adm', w) => HasCapacity(adm, w)
  <2>1. adm.waiters \subseteq Callers  BY DEF IInv, Counted, SchedulerStates
  <2>2. Eligible(adm', age') = {}  BY <1>3, <2>1 DEF Eligible
  <2> QED  BY <1>1, <2>2 DEF Kept, WakeInv, TurnIsKept, AsleepWithCapacity, Selected
<1> QED  BY <1>2, <1>3

\* The state in which caller c, queued, runs the body of its loop.
Queued(s, c) ==
  \/ s = adm /\ c \in adm.waiters /\ (c \in notified \/ WaitOver(c) \/ Grant(s, c))
  \/ s = Enqueue(adm, c) /\ c \notin adm.waiters

LEMMA QueuedStates ==
  ASSUME IInv, OrderInv, NEW c \in Callers, NEW s, Queued(s, c), s \in SchedulerStates
  PROVE  /\ Tickets(s) /\ c \in s.waiters /\ s.waiters = adm.waiters \cup {c}
         /\ notified \subseteq s.waiters
         /\ \A w \in Callers : HasCapacity(s, w) <=> HasCapacity(adm, w)
         /\ \A w, v \in adm.waiters : Precedes(s, age, w, v) <=> Precedes(adm, age, w, v)
         /\ adm \in SchedulerStates /\ Tickets(adm) /\ age \in [Callers -> Nat]
         /\ notified \subseteq adm.waiters
<1>1. /\ adm \in SchedulerStates /\ Tickets(adm) /\ age \in [Callers -> Nat]
      /\ notified \subseteq adm.waiters
  BY DEF IInv, Counted, TypeOK, OrderInv
<1>2. CASE s = adm /\ c \in adm.waiters
  BY <1>1, <1>2
<1>3. CASE s = Enqueue(adm, c) /\ c \notin adm.waiters
  <2>1. /\ Tickets(s) /\ s.waiters = adm.waiters \cup {c}
        /\ \A w \in Callers : HasCapacity(s, w) <=> HasCapacity(adm, w)
        /\ \A w, v \in adm.waiters : Precedes(s, age, w, v) <=> Precedes(adm, age, w, v)
    BY <1>1, <1>3, TicketsEnqueue
  <2> QED  BY <1>1, <2>1
<1> QED  BY <1>2, <1>3 DEF Queued

LEMMA GrantKeeps ==
  ASSUME IInv, IInv', OrderInv, NEW c \in Callers, NEW s, Queued(s, c), s \in SchedulerStates,
         Grant(s, c)
  PROVE  Kept /\ InOrder(c)
<1>1. /\ Tickets(s) /\ c \in s.waiters /\ s.waiters = adm.waiters \cup {c}
      /\ notified \subseteq s.waiters /\ age \in [Callers -> Nat]
      /\ \A w \in Callers : HasCapacity(s, w) <=> HasCapacity(adm, w)
  BY QueuedStates
<1>2. /\ CanAcquire(s, c, {c}, age) /\ adm' = MarkAcquired(RemoveWaiter(s, c), c)
      /\ age' = [age EXCEPT ![c] = 0]
      /\ notified' = (notified \ {c}) \cup Selected(adm', age)
  BY DEF Grant
<1>3. Tickets(adm') /\ adm'.waiters = s.waiters \ {c}  BY <1>1, <1>2, TicketsRemove
<1>4. adm' \in SchedulerStates /\ age' \in [Callers -> Nat]  BY DEF IInv, Counted, TypeOK
<1>5. \A w \in adm'.waiters : age[w] = age'[w]
  BY <1>1, <1>2, <1>3, <1>4 DEF SchedulerStates
<1>6. Selected(adm', age') = Selected(adm', age)  BY <1>4, <1>5, SameAges
<1>7. Selected(adm', age') \subseteq adm'.waiters  BY DEF Selected, Eligible
<1>8. Kept
  <2>1. Selected(adm', age') \subseteq notified' /\ notified' \subseteq adm'.waiters
    BY <1>1, <1>2, <1>3, <1>6, <1>7
  <2> QED  BY <1>3, <1>4, <2>1, TurnPassedOn
<1>9. InOrder(c)
  <2>1. Selected(s, age) = {c}  BY <1>1, <1>2 DEF CanAcquire
  <2>2. \A v \in Eligible(s, age) \ {c} : Precedes(s, age, c, v)  BY <2>1 DEF Selected
  <2>3. adm.waiters \subseteq Callers  BY DEF IInv, Counted, SchedulerStates
  <2>4. Eligible(adm, age) \subseteq Eligible(s, age)  BY <1>1, <2>3 DEF Eligible
  <2>5. s = IF c \in adm.waiters THEN adm ELSE Enqueue(adm, c)  BY DEF Queued
  <2> QED  BY <2>2, <2>4, <2>5 DEF InOrder
<1> QED  BY <1>8, <1>9

LEMMA GiveUpKeeps ==
  ASSUME IInv, IInv', OrderInv, NEW c \in Callers, NEW s, Queued(s, c), s \in SchedulerStates,
         GiveUp(s, c)
  PROVE  Kept
<1>1. /\ Tickets(s) /\ c \in s.waiters /\ notified \subseteq s.waiters /\ age \in [Callers -> Nat]
  BY QueuedStates
<1>2. /\ adm' = RemoveWaiter(s, c) /\ age' = [age EXCEPT ![c] = 0]
      /\ notified' = (notified \ {c}) \cup Selected(adm', age)
  BY DEF GiveUp
<1>3. Tickets(adm') /\ adm'.waiters = s.waiters \ {c}  BY <1>1, <1>2, TicketsRemove
<1>4. adm' \in SchedulerStates /\ age' \in [Callers -> Nat]  BY DEF IInv, Counted, TypeOK
<1>5. \A w \in adm'.waiters : age[w] = age'[w]
  BY <1>1, <1>2, <1>3, <1>4 DEF SchedulerStates
<1>6. Selected(adm', age') = Selected(adm', age)  BY <1>4, <1>5, SameAges
<1>7. Selected(adm', age') \subseteq adm'.waiters  BY DEF Selected, Eligible
<1>8. Selected(adm', age') \subseteq notified' /\ notified' \subseteq adm'.waiters
  BY <1>1, <1>2, <1>3, <1>6, <1>7
<1> QED  BY <1>3, <1>4, <1>8, TurnPassedOn

\* Going to sleep: c is not the selected one, and what it was notified of is the
\* turn of a waiter that has been promoted since.
LEMMA SleepKeeps ==
  ASSUME IInv, OrderInv, WakeInv, NEW c \in Callers, NEW s, Queued(s, c), s \in SchedulerStates,
         Sleep(s, c)
  PROVE  Kept
<1>1. /\ Tickets(s) /\ c \in s.waiters /\ s.waiters = adm.waiters \cup {c}
      /\ notified \subseteq adm.waiters /\ age \in [Callers -> Nat]
      /\ \A w \in Callers : HasCapacity(s, w) <=> HasCapacity(adm, w)
      /\ \A w, v \in adm.waiters : Precedes(s, age, w, v) <=> Precedes(adm, age, w, v)
      /\ adm.waiters \subseteq Callers
  BY QueuedStates DEF SchedulerStates
<1>2. /\ ~CanAcquire(s, c, {c}, age) /\ ~WaitOver(c)
      /\ adm' = s /\ pc' = [pc EXCEPT ![c] = "waiting"]
      /\ notified' = notified \ {c} /\ age' = age
  BY DEF Sleep
<1>3. OrderInv'  BY <1>1, <1>2 DEF OrderInv
<1>4. c \notin Selected(s, age)
  <2> SUFFICES ASSUME c \in Selected(s, age) PROVE FALSE  OBVIOUS
  <2>1. c \in Eligible(s, age)  BY DEF Selected
  <2>2. PICK w \in Eligible(s, age) : Selected(s, age) = {w}  BY <1>1, <2>1, SomebodyIsSelected
  <2>3. Selected(s, age) = {c}  BY <2>2
  <2>4. HasCapacity(s, c)  BY <2>1 DEF Eligible
  <2>5. s.waiters # {}  BY <1>1
  <2> QED  BY <1>2, <2>3, <2>4, <2>5 DEF CanAcquire
<1>5. Selected(s, age) \subseteq Selected(adm, age)
  <2> SUFFICES ASSUME NEW w \in Selected(s, age) PROVE w \in Selected(adm, age)  OBVIOUS
  <2>1. w \in Eligible(s, age) /\ \A v \in Eligible(s, age) \ {w} : Precedes(s, age, w, v)
    BY DEF Selected
  <2>2. w \in adm.waiters  BY <1>1, <1>4, <2>1 DEF Eligible
  <2>3. Eligible(adm, age) \subseteq Eligible(s, age) /\ Eligible(adm, age) \subseteq adm.waiters
    BY <1>1 DEF Eligible
  <2>4. w \in Eligible(adm, age)  BY <1>1, <2>1, <2>2 DEF Eligible
  <2>5. \A v \in Eligible(adm, age) \ {w} : Precedes(adm, age, w, v)
    BY <1>1, <2>1, <2>2, <2>3
  <2> QED  BY <2>4, <2>5 DEF Selected
<1>6. /\ (\E v \in adm.waiters : WaitOver(v)) => \E v \in adm'.waiters : WaitOver(v)'
      /\ \A w : Promoted(w)' <=> Promoted(w)
      /\ \A w \in Callers : WaitOver(w)' <=> WaitOver(w)
  BY <1>1, <1>2 DEF WaitOver, Promoted
<1>7. AsleepWithCapacity => AsleepWithCapacity'
  <2> SUFFICES ASSUME AsleepWithCapacity PROVE AsleepWithCapacity'  OBVIOUS
  <2>1. Eligible(adm, age) # {} /\ \A w \in adm.waiters : w \notin notified /\ ~WaitOver(w)
    BY DEF AsleepWithCapacity
  <2>2. Eligible(adm, age) \subseteq Eligible(s, age)  BY <1>1 DEF Eligible
  <2>3. Eligible(adm', age') # {}  BY <1>2, <2>1, <2>2
  <2>4. \A w \in adm'.waiters : w \notin notified' /\ ~WaitOver(w)'
    BY <1>1, <1>2, <1>6, <2>1
  <2> QED  BY <2>3, <2>4 DEF AsleepWithCapacity
<1>8. WakeInv'
  <2> SUFFICES ASSUME NEW w \in Selected(s, age)
               PROVE  \/ w \in notified' \/ Promoted(w)'
                      \/ \E v \in adm'.waiters : WaitOver(v)'
                      \/ AsleepWithCapacity'
    BY <1>2 DEF WakeInv
  <2>1. \/ w \in notified \/ Promoted(w)
        \/ \E v \in adm.waiters : WaitOver(v)
        \/ AsleepWithCapacity
    BY <1>5 DEF WakeInv
  <2>2. w # c  BY <1>4
  <2> QED  BY <1>2, <1>6, <1>7, <2>1, <2>2
<1>9. TurnIsKept
  <2> SUFFICES ASSUME AsleepWithCapacity', ~AsleepWithCapacity
               PROVE  \E a \in notified \ notified' :
                        /\ pc'[a] = "waiting"
                        /\ \E w \in Selected(adm', age) \ {a} : RankOf[w] > 0 /\ age[w] >= Aging
    BY DEF TurnIsKept
  <2>1. /\ Eligible(s, age) # {}
        /\ \A w \in s.waiters : w \notin notified' /\ ~WaitOver(w)
    BY <1>1, <1>2, <1>6 DEF AsleepWithCapacity
  <2>2. PICK w \in Eligible(s, age) : Selected(s, age) = {w}  BY <1>1, <2>1, SomebodyIsSelected
  <2>3. w # c /\ w \in Selected(adm, age) /\ w \in s.waiters
    BY <1>4, <1>5, <2>2 DEF Eligible
  <2>4. Promoted(w)
    <3>1. w \notin notified  BY <1>2, <2>1, <2>3
    <3>2. \A v \in adm.waiters : ~WaitOver(v)  BY <1>1, <2>1
    <3> QED  BY <2>3, <3>1, <3>2 DEF WakeInv
  <2>5. c \in notified
    <3> SUFFICES ASSUME c \notin notified PROVE FALSE  OBVIOUS
    <3>1. notified' = notified  BY <1>2
    <3>2. w \in Eligible(adm, age)  BY <2>3 DEF Selected
    <3> QED  BY <1>1, <2>1, <3>1, <3>2 DEF AsleepWithCapacity
  <2>6. c \in notified \ notified' /\ pc'[c] = "waiting"
    <3>1. pc \in [Callers -> {"idle", "entering", "waiting", "holding"}]  BY DEF IInv, TypeOK
    <3> QED  BY <1>2, <2>5, <3>1
  <2>7. w \in Selected(adm', age) \ {c}  BY <1>2, <2>2, <2>3
  <2> QED  BY <2>4, <2>6, <2>7 DEF Promoted
<1> QED  BY <1>3, <1>8, <1>9 DEF Kept

\* A permit that comes back wakes up the next one.
LEMMA ReleaseKeeps ==
  ASSUME IInv, IInv', OrderInv, NEW c \in Callers, Release(c)
  PROVE  Kept
<1>1. /\ adm \in SchedulerStates /\ Tickets(adm) /\ age \in [Callers -> Nat]
      /\ notified \subseteq adm.waiters /\ adm.waiters = Sleepers
  BY DEF IInv, Counted, TypeOK, OrderInv
<1>2. /\ pc[c] = "holding" /\ adm' = Released(adm, c) /\ age' = [age EXCEPT ![c] = 0]
      /\ notified' = notified \cup Selected(adm', age)
  BY DEF Release
<1>3. adm'.waiters = adm.waiters /\ adm'.ahead = adm.ahead
  <2> DEFINE u == [adm EXCEPT !.active = Minus(@, 1),
                              !.used = [d \in Dims |-> Minus(@[d], DemandOf[c][d])],
                              !.counts[PrincipalOf[c]].active = Minus(@, 1)]
  <2>1. u.waiters = adm.waiters /\ u.ahead = adm.ahead  BY <1>1 DEF SchedulerStates
  <2>2. adm' = u \/ adm' = [u EXCEPT !.entries = @ \ {PrincipalOf[c]}]
    BY <1>2 DEF Released, DropEmpty
  <2>3. DOMAIN u = DOMAIN adm /\ "waiters" \in DOMAIN adm /\ "ahead" \in DOMAIN adm
    BY <1>1 DEF SchedulerStates
  <2> HIDE DEF u
  <2> QED  BY <2>1, <2>2, <2>3
<1>4. Tickets(adm') /\ adm' \in SchedulerStates /\ age' \in [Callers -> Nat]
  BY <1>1, <1>3 DEF Tickets, IInv, Counted, TypeOK
<1>5. c \notin adm.waiters  BY <1>1, <1>2 DEF Sleepers
<1>6. \A w \in adm'.waiters : age[w] = age'[w]
  BY <1>1, <1>2, <1>3, <1>5 DEF SchedulerStates
<1>7. Selected(adm', age') = Selected(adm', age)  BY <1>4, <1>6, SameAges
<1>8. Selected(adm', age') \subseteq adm'.waiters  BY DEF Selected, Eligible
<1> QED  BY <1>1, <1>2, <1>3, <1>4, <1>7, <1>8, TurnPassedOn

\* The direct path: nobody who waits could have started when c read the clock,
\* so nobody can start now.
LEMMA DirectKeeps ==
  ASSUME IInv, IInv', OrderInv, WakeInv, NEW c \in Callers, EnterDirect(c)
  PROVE  Kept /\ InOrder(c)
<1>1. /\ adm \in SchedulerStates /\ Tickets(adm) /\ age \in [Callers -> Nat]
      /\ notified \subseteq adm.waiters /\ adm.waiters = Sleepers /\ adm.waiters \subseteq Callers
  BY DEF IInv, Counted, TypeOK, OrderInv, SchedulerStates
<1>2. /\ pc[c] = "entering" /\ CanAcquire(adm, c, {}, AgesAtStart(c))
      /\ adm' = MarkAcquired(adm, c) /\ age' = [age EXCEPT ![c] = 0] /\ notified' = notified
  BY DEF EnterDirect
<1>3. Eligible(adm, age) = {}
  <2>1. CASE adm.waiters = {}  BY <2>1 DEF Eligible
  <2>2. CASE adm.waiters # {}
    <3>1. Selected(adm, AgesAtStart(c)) = {}  BY <1>2, <2>2 DEF CanAcquire
    <3>2. AgesAtStart(c) \in [Callers -> Nat]  BY <1>1 DEF AgesAtStart, Minus
    <3>3. Eligible(adm, AgesAtStart(c)) = {}
      <4> SUFFICES ASSUME Eligible(adm, AgesAtStart(c)) # {} PROVE FALSE  OBVIOUS
      <4>1. \E w \in Eligible(adm, AgesAtStart(c)) : Selected(adm, AgesAtStart(c)) = {w}
        BY <1>1, <3>2, SomebodyIsSelected
      <4> QED  BY <3>1, <4>1
    <3>4. \A w \in Callers : age[w] < DeadlineOf[w] => AgesAtStart(c)[w] < DeadlineOf[w]
      BY <1>1 DEF AgesAtStart, Minus
    <3>5. Eligible(adm, age) \subseteq Eligible(adm, AgesAtStart(c))
      BY <1>1, <3>4 DEF Eligible
    <3> QED  BY <3>3, <3>5
  <2> QED  BY <2>1, <2>2
<1>4. /\ adm'.waiters = adm.waiters /\ adm'.ahead = adm.ahead
      /\ \A w \in Callers : HasCapacity(adm', w) => HasCapacity(adm, w)
  BY <1>1, <1>2, GrantTakesCapacity
<1>5. \A w \in adm.waiters : age'[w] = age[w]
  <2>1. c \notin adm.waiters  BY <1>1, <1>2 DEF Sleepers
  <2> QED  BY <1>1, <1>2, <2>1
<1>6. Eligible(adm', age') = {}
  BY <1>1, <1>3, <1>4, <1>5 DEF Eligible
<1>7. OrderInv'  BY <1>1, <1>2, <1>4 DEF OrderInv, Tickets
<1>8. Kept  BY <1>6, <1>7 DEF Kept, WakeInv, TurnIsKept, AsleepWithCapacity, Selected
<1>9. InOrder(c)  BY <1>3 DEF InOrder
<1> QED  BY <1>8, <1>9

\* Time passes: a waiter overtakes another one only when it is promoted.
LEMMA TickKeeps ==
  ASSUME IInv, OrderInv, WakeInv, Tick
  PROVE  Kept
<1>1. /\ adm \in SchedulerStates /\ Tickets(adm) /\ age \in [Callers -> Nat]
      /\ notified \subseteq adm.waiters /\ adm.waiters = Sleepers /\ adm.waiters \subseteq Callers
  BY DEF IInv, Counted, TypeOK, OrderInv, SchedulerStates
<1>2. adm' = adm /\ notified' = notified /\ pc' = pc
      /\ age' = [c \in Callers |-> LeastOf(age[c] + 1, AgeCap(c))]
  BY DEF Tick
<1>3. ASSUME NEW w \in adm.waiters
      PROVE  /\ age'[w] \in Nat
             /\ age'[w] < DeadlineOf[w] => age'[w] = age[w] + 1
             /\ WaitOver(w) => WaitOver(w)'
             /\ age'[w] >= DeadlineOf[w] => WaitOver(w)'
  <2>1. w \in Callers /\ AgeCap(w) = DeadlineOf[w] + MaxEnterDelay
    BY <1>1 DEF Sleepers, AgeCap
  <2>2. age[w] \in Nat /\ DeadlineOf[w] \in Nat /\ MaxEnterDelay \in Nat /\ WaitTimeout \in Nat
    BY <1>1, <2>1
  <2>3. age'[w] = IF age[w] + 1 <= DeadlineOf[w] + MaxEnterDelay
                  THEN age[w] + 1 ELSE DeadlineOf[w] + MaxEnterDelay
    BY <1>2, <2>1 DEF LeastOf
  <2> QED  BY <2>2, <2>3 DEF WaitOver, LeastOf
<1>4. OrderInv'  BY <1>2 DEF OrderInv
<1>5. age' \in [Callers -> Nat]
  <2>1. \A c \in Callers : LeastOf(age[c] + 1, AgeCap(c)) \in Nat
    BY <1>1 DEF LeastOf, AgeCap
  <2> QED  BY <1>2, <2>1
<1>6. Eligible(adm, age') \subseteq Eligible(adm, age)
  <2> SUFFICES ASSUME NEW w \in Eligible(adm, age') PROVE w \in Eligible(adm, age)  OBVIOUS
  <2>1. w \in adm.waiters /\ age'[w] < DeadlineOf[w] /\ HasCapacity(adm, w)  BY DEF Eligible
  <2>2. age'[w] = age[w] + 1 /\ age[w] \in Nat  BY <1>1, <1>3, <2>1
  <2>3. DeadlineOf[w] \in Nat  BY <1>1, <2>1
  <2>4. age[w] < DeadlineOf[w]  BY <2>1, <2>2, <2>3
  <2> QED  BY <2>1, <2>4 DEF Eligible
<1>7. ASSUME NEW w \in Eligible(adm, age'), NEW v \in Eligible(adm, age'),
             ~(RankOf[w] > 0 /\ age'[w] >= Aging), Precedes(adm, age', w, v)
      PROVE  Precedes(adm, age, w, v)
  <2>1. /\ w \in adm.waiters /\ age'[w] < DeadlineOf[w]
        /\ v \in adm.waiters /\ age'[v] < DeadlineOf[v]
        /\ w \in Callers /\ v \in Callers
    BY <1>1, <1>7 DEF Eligible
  <2>2. age'[w] = age[w] + 1 /\ age'[v] = age[v] + 1  BY <1>3, <2>1
  <2>3. PICK bt \in [Callers -> Nat] : bt = age'  BY <1>5
  <2>4. /\ bt[w] = age[w] + 1 /\ bt[v] = age[v] + 1
        /\ ~(RankOf[w] > 0 /\ bt[w] >= Aging) /\ Precedes(adm, bt, w, v)
    BY <1>7, <2>2, <2>3
  <2> QED  BY <1>1, <2>1, <2>4, OlderIsNoEarlier
<1>8. /\ (\E v \in adm.waiters : WaitOver(v)) => \E v \in adm'.waiters : WaitOver(v)'
      /\ \A w \in adm.waiters : Promoted(w) => Promoted(w)' \/ WaitOver(w)'
  <2>1. \A w \in adm.waiters : Promoted(w) => Promoted(w)' \/ WaitOver(w)'
    <3> SUFFICES ASSUME NEW w \in adm.waiters, Promoted(w), age'[w] < DeadlineOf[w]
                 PROVE  Promoted(w)'
      BY <1>1, <1>3
    <3>1. age'[w] = age[w] + 1 /\ age[w] \in Nat /\ w \in Callers  BY <1>1, <1>3
    <3> QED  BY <3>1 DEF Promoted
  <2> QED  BY <1>2, <1>3, <2>1
<1>9. AsleepWithCapacity => (\E v \in adm.waiters : WaitOver(v)') \/ Eligible(adm, age') = {} \/ AsleepWithCapacity'
  BY <1>2 DEF AsleepWithCapacity
<1>10. WakeInv'
  <2> SUFFICES ASSUME NEW w \in Selected(adm, age'), ~Promoted(w)',
                      ~\E v \in adm.waiters : WaitOver(v)'
               PROVE  w \in notified \/ AsleepWithCapacity'
    BY <1>2 DEF WakeInv
  <2>1. w \in Eligible(adm, age') /\ \A v \in Eligible(adm, age') \ {w} : Precedes(adm, age', w, v)
    BY DEF Selected
  <2>2. Eligible(adm, age) \subseteq Eligible(adm, age')
    <3> SUFFICES ASSUME NEW v \in Eligible(adm, age) PROVE v \in Eligible(adm, age')  OBVIOUS
    <3>1. v \in adm.waiters /\ HasCapacity(adm, v)  BY DEF Eligible
    <3>2. age'[v] \in Nat /\ DeadlineOf[v] \in Nat /\ ~(age'[v] >= DeadlineOf[v])
      BY <1>1, <1>3, <3>1
    <3> QED  BY <3>1, <3>2 DEF Eligible
  <2>3. ~(RankOf[w] > 0 /\ age'[w] >= Aging)  BY DEF Promoted
  <2>4. \A v \in Eligible(adm, age) \ {w} : Precedes(adm, age, w, v)
    BY <1>7, <2>1, <2>2, <2>3
  <2>5. w \in Selected(adm, age)  BY <1>6, <2>1, <2>4 DEF Selected
  <2>6. ~Promoted(w)
    <3>1. w \in adm.waiters  BY <2>1 DEF Eligible
    <3> QED  BY <1>8, <3>1
  <2>7. \A v \in adm.waiters : ~WaitOver(v)  BY <1>3
  <2>8. w \in notified \/ AsleepWithCapacity  BY <2>5, <2>6, <2>7 DEF WakeInv
  <2> QED  BY <1>9, <2>1, <2>8
<1>11. TurnIsKept
  <2> SUFFICES ASSUME AsleepWithCapacity' PROVE AsleepWithCapacity  BY DEF TurnIsKept
  <2>1. /\ Eligible(adm, age') # {}
        /\ \A w \in adm.waiters : w \notin notified /\ ~WaitOver(w)'
    BY <1>2 DEF AsleepWithCapacity
  <2> QED  BY <1>3, <1>6, <2>1 DEF AsleepWithCapacity
<1> QED  BY <1>4, <1>10, <1>11 DEF Kept

LEMMA NextKeepsOrder ==
  ASSUME IInv, IInv', OrderInv, WakeInv, [Next]_vars
  PROVE  /\ Kept
         /\ \A c \in Callers : pc[c] # "holding" /\ pc'[c] = "holding" => InOrder(c)
<1>1. /\ adm \in SchedulerStates /\ adm' \in SchedulerStates /\ adm.waiters = Sleepers
      /\ pc \in [Callers -> {"idle", "entering", "waiting", "holding"}]
  BY DEF IInv, Counted, TypeOK
<1> DEFINE Ordered == \A c \in Callers : pc[c] # "holding" /\ pc'[c] = "holding" => InOrder(c)
<1>2. ASSUME UNCHANGED adm, UNCHANGED notified, UNCHANGED age PROVE Kept
  BY <1>1, <1>2, NothingNew
<1>3. ASSUME NEW c \in Callers, Call(c) PROVE Kept /\ Ordered
  <2>1. UNCHANGED <<adm, age, notified>> /\ pc' = [pc EXCEPT ![c] = "entering"]
    BY <1>3 DEF Call
  <2>2. Ordered  BY <1>1, <2>1
  <2> QED  BY <1>2, <2>1, <2>2
<1>4. ASSUME NEW c \in Callers, EnterDirect(c) PROVE Kept /\ Ordered
  <2>1. Kept /\ InOrder(c)  BY <1>4, DirectKeeps
  <2>2. pc' = [pc EXCEPT ![c] = "holding"]  BY <1>4 DEF EnterDirect
  <2> QED  BY <1>1, <2>1, <2>2
<1>5. ASSUME NEW c \in Callers, EnterRefused(c) PROVE Kept /\ Ordered
  <2>1. /\ pc[c] = "entering" /\ adm' = adm /\ notified' = notified
        /\ age' = [age EXCEPT ![c] = 0] /\ pc' = [pc EXCEPT ![c] = "idle"]
    BY <1>5 DEF EnterRefused
  <2>2. age \in [Callers -> Nat] /\ c \notin adm.waiters /\ adm.waiters \subseteq Callers
    BY <1>1, <2>1 DEF IInv, TypeOK, Sleepers
  <2>3. \A w \in adm.waiters : age'[w] = age[w]  BY <2>1, <2>2
  <2>4. Eligible(adm, age') = Eligible(adm, age) /\ Selected(adm, age') = Selected(adm, age)
    BY <1>1, <2>3, SameAges
  <2>5. \A w \in adm.waiters : (WaitOver(w)' <=> WaitOver(w)) /\ (Promoted(w)' <=> Promoted(w))
    BY <2>3 DEF WaitOver, Promoted
  <2>6. AsleepWithCapacity' <=> AsleepWithCapacity
    BY <2>1, <2>4, <2>5 DEF AsleepWithCapacity
  <2>7. Selected(adm, age) \subseteq adm.waiters  BY DEF Selected, Eligible
  <2>8. WakeInv'  BY <2>1, <2>4, <2>5, <2>6, <2>7 DEF WakeInv
  <2>9. Kept  BY <2>1, <2>6, <2>8 DEF Kept, OrderInv, TurnIsKept
  <2> QED  BY <1>1, <2>1, <2>9
<1>6. ASSUME NEW c \in Callers, NEW s, Queued(s, c), s \in SchedulerStates, Loop(s, c)
      PROVE  Kept /\ Ordered
  <2>1. CASE Grant(s, c)
    <3>1. Kept /\ InOrder(c)  BY <1>6, <2>1, GrantKeeps
    <3>2. pc' = [pc EXCEPT ![c] = "holding"]  BY <2>1 DEF Grant
    <3> QED  BY <1>1, <3>1, <3>2
  <2>2. CASE GiveUp(s, c)
    <3>1. pc' = [pc EXCEPT ![c] = "idle"]  BY <2>2 DEF GiveUp
    <3> QED  BY <1>1, <1>6, <2>2, <3>1, GiveUpKeeps
  <2>3. CASE Sleep(s, c)
    <3>1. pc' = [pc EXCEPT ![c] = "waiting"]  BY <2>3 DEF Sleep
    <3> QED  BY <1>1, <1>6, <2>3, <3>1, SleepKeeps
  <2> QED  BY <1>6, <2>1, <2>2, <2>3 DEF Loop
<1>7. ASSUME NEW c \in Callers, EnterQueued(c) PROVE Kept /\ Ordered
  <2>1. pc[c] = "entering" /\ Loop(Enqueue(adm, c), c)  BY <1>7 DEF EnterQueued
  <2>2. c \notin adm.waiters  BY <1>1, <2>1 DEF Sleepers
  <2>3. Enqueue(adm, c) \in SchedulerStates
    <3>1. /\ Counted(adm, Holders, Sleepers) /\ Bounded(adm)
          /\ Holders \in SUBSET Callers /\ Sleepers \in SUBSET Callers /\ c \in Callers \ Sleepers
      BY <1>1, <2>2 DEF IInv, Holders, Sleepers
    <3>2. Counted(Enqueue(adm, c), Holders, Sleepers \cup {c})  BY <3>1, EnqueueCounts
    <3> QED  BY <3>2 DEF Counted
  <2>4. Queued(Enqueue(adm, c), c)  BY <2>2 DEF Queued
  <2>5. PICK s : s = Enqueue(adm, c)  OBVIOUS
  <2>6. Queued(s, c) /\ s \in SchedulerStates /\ Loop(s, c)  BY <2>1, <2>3, <2>4, <2>5
  <2> QED  BY <1>6, <2>6
<1>8. ASSUME NEW c \in Callers, Wake(c) \/ SpuriousWake(c) PROVE Kept /\ Ordered
  <2>1. pc[c] = "waiting" /\ Loop(adm, c) /\ (c \in notified \/ WaitOver(c) \/ Grant(adm, c))
    BY <1>8 DEF Wake, SpuriousWake, Loop
  <2>2. c \in adm.waiters  BY <1>1, <2>1 DEF Sleepers
  <2>3. Queued(adm, c)  BY <2>1, <2>2 DEF Queued
  <2> QED  BY <1>1, <1>6, <2>1, <2>3
<1>9. ASSUME NEW c \in Callers, Release(c) PROVE Kept /\ Ordered
  <2>1. pc' = [pc EXCEPT ![c] = "idle"]  BY <1>9 DEF Release
  <2> QED  BY <1>1, <1>9, <2>1, ReleaseKeeps
<1>10. ASSUME Tick PROVE Kept /\ Ordered
  <2>1. pc' = pc  BY <1>10 DEF Tick
  <2> QED  BY <1>10, <2>1, TickKeeps
<1>11. ASSUME UNCHANGED vars PROVE Kept /\ Ordered
  <2>1. UNCHANGED <<adm, pc, age, notified>>  BY <1>11 DEF vars
  <2> QED  BY <1>2, <2>1
<1> HIDE DEF Ordered
<1>12. Kept /\ Ordered
  BY <1>3, <1>4, <1>5, <1>7, <1>8, <1>9, <1>10, <1>11 DEF Next, Step, Enter
<1> QED  BY <1>12 DEF Ordered

LEMMA InitOrder == Init => OrderInv /\ WakeInv
BY DEF Init, OrderInv, WakeInv, Tickets, Selected, Eligible

\* The tickets order the waiters, and the waiter the policy selects has its turn
\* coming: the inductive part of the two properties below.
THEOREM OrderInvariance == Spec => [](OrderInv /\ WakeInv)
<1>1. IInv /\ IInv' /\ (OrderInv /\ WakeInv) /\ [Next]_vars => (OrderInv /\ WakeInv)'
  BY NextKeepsOrder DEF Kept
<1> QED  BY <1>1, InitOrder, Invariance, PTL DEF Spec

\* No permit is granted past a waiter that could start now and comes first: the
\* direct path looks at the queue, and the loop grants to the selected one only.
THEOREM PermitsFollowTheOrder == Spec => GrantsFollowTheOrder
<1>1. IInv /\ IInv' /\ OrderInv /\ WakeInv /\ [Next]_vars =>
        [\A c \in Callers : pc[c] # "holding" /\ pc'[c] = "holding" =>
           LET s == IF c \in adm.waiters THEN adm ELSE Enqueue(adm, c)
           IN \A w \in Eligible(adm, age) \ {c} : Precedes(s, age, c, w)]_vars
  BY NextKeepsOrder DEF InOrder
<1> QED  BY <1>1, Invariance, OrderInvariance, PTL DEF GrantsFollowTheOrder, Spec

\* A turn is lost in one way only, by promotion between the notification and the
\* wake-up: every change that frees capacity notifies the waiter it selects, and
\* who wakes up in vain was overtaken by age.
THEOREM TurnsAreLostOnlyByAging == Spec => WakeUpsAreLostOnlyByAging
<1>1. IInv /\ IInv' /\ OrderInv /\ WakeInv /\ [Next]_vars =>
        [AsleepWithCapacity' =>
           \/ AsleepWithCapacity
           \/ \E a \in notified \ notified' :
                /\ pc'[a] = "waiting"
                /\ \E w \in Selected(adm', age) \ {a} : RankOf[w] > 0 /\ age[w] >= Aging]_vars
  BY NextKeepsOrder DEF Kept, TurnIsKept
<1> QED  BY <1>1, Invariance, OrderInvariance, PTL DEF WakeUpsAreLostOnlyByAging, Spec
=============================================================================
