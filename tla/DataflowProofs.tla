----------------------------- MODULE DataflowProofs -----------------------------
(***************************************************************************)
(* Graphs of any size: what edits keep, what a tick shows, and what a graph *)
(* cut for several nodes amounts to.  The library's induction theorems are *)
(* out of the provers' reach, but a set of numbers that has 0 and the      *)
(* successor of each member is Nat, since < is well-founded: so the fold   *)
(* of a tick is a sequence of turns, and Kahn's queue holds every block    *)
(* after its feeders.                                                      *)
(***************************************************************************)
EXTENDS Deployment, TLAPS, FiniteSetTheorems, WellFoundedInduction

-------------------------------------------------------------------------------
(* Numbers and sets of them.                                               *)

\* A set of numbers has a least one.
LEMMA LeastNumber ==
    ASSUME NEW T \in SUBSET Nat, T # {}
    PROVE  \E x \in T : \A y \in T : x <= y
<1>. DEFINE R == OpToRel(<, Nat)
<1>1. IsWellFoundedOn(R, Nat)
  BY NatLessThanWellFounded
<1>2. \A x, y \in Nat : <<y, x>> \in R <=> y < x
  BY DEF OpToRel
<1>. HIDE DEF R
<1>3. PICK x \in T : \A y \in T : ~ (<<y, x>> \in R)
  BY <1>1, WFMin
<1>4. ASSUME NEW y \in T PROVE x <= y
  <2>1. ~ (<<y, x>> \in R) /\ x \in Nat /\ y \in Nat
    BY <1>3
  <2>2. ~ (y < x)
    BY <1>2, <2>1
  <2>. QED BY <2>1, <2>2
<1>. QED BY <1>4

\* Induction, over a set.
LEMMA AllNumbers ==
    ASSUME NEW T \in SUBSET Nat, 0 \in T, \A n \in T : n + 1 \in T
    PROVE  T = Nat
<1>. SUFFICES ASSUME Nat \ T # {} PROVE FALSE
  OBVIOUS
<1>1. PICK x \in Nat \ T : \A y \in Nat \ T : x <= y
  BY LeastNumber
<1>2. x # 0 /\ x - 1 \in Nat
  BY <1>1
<1>3. x - 1 \in T
  BY <1>1, <1>2
<1>. QED BY <1>1, <1>2, <1>3

\* What Max and Min choose, where there is a bound.
LEMMA GreatestNumber ==
    ASSUME NEW T \in SUBSET Int, T # {}, NEW bound \in Int, \A x \in T : x <= bound
    PROVE  Max(T) \in T /\ \A x \in T : Max(T) >= x
<1>. DEFINE D == { bound - x : x \in T }
<1>1. \A x \in T : bound - x \in Nat
  OBVIOUS
<1>2. D \in SUBSET Nat /\ D # {}
  BY <1>1
<1>3. PICK d \in D : \A e \in D : d <= e
  <2>. HIDE DEF D
  <2>. QED BY <1>2, LeastNumber
<1>4. PICK x \in T : d = bound - x
  BY <1>3
<1>5. \A y \in T : bound - x <= bound - y
  BY <1>3, <1>4
<1>6. ASSUME NEW y \in T PROVE x >= y
  <2>1. x \in Int /\ y \in Int /\ bound - x <= bound - y
    BY <1>5
  <2>. QED BY <2>1
<1>. QED BY <1>6 DEF Max

LEMMA SmallestNumber ==
    ASSUME NEW T \in SUBSET Int, T # {}, NEW bound \in Int, \A x \in T : bound <= x
    PROVE  Min(T) \in T /\ \A x \in T : Min(T) <= x
<1>. DEFINE D == { x - bound : x \in T }
<1>1. \A x \in T : x - bound \in Nat
  OBVIOUS
<1>2. D \in SUBSET Nat /\ D # {}
  BY <1>1
<1>3. PICK d \in D : \A e \in D : d <= e
  <2>. HIDE DEF D
  <2>. QED BY <1>2, LeastNumber
<1>4. PICK x \in T : d = x - bound
  BY <1>3
<1>5. \A y \in T : x - bound <= y - bound
  BY <1>3, <1>4
<1>6. \A y \in T : x <= y
  BY <1>5
<1>. QED BY <1>6 DEF Min

\* The numbers of a sequence are bounded.
LEMMA SeqBounded ==
    ASSUME NEW n \in Nat, NEW s, \A i \in 1..n : s[i] \in Int
    PROVE  \E bound \in Int : \A i \in 1..n : s[i] <= bound
<1>. DEFINE T == { k \in Nat : k <= n => \E bound \in Int : \A i \in 1..k : s[i] <= bound }
<1>1. 0 \in T
  OBVIOUS
<1>2. ASSUME NEW k \in T PROVE k + 1 \in T
  <2>. SUFFICES ASSUME k + 1 <= n
                PROVE  \E bound \in Int : \A i \in 1..(k + 1) : s[i] <= bound
    OBVIOUS
  <2>1. PICK bound \in Int : \A i \in 1..k : s[i] <= bound
    OBVIOUS
  <2>2. s[k + 1] \in Int
    OBVIOUS
  <2>3. CASE s[k + 1] <= bound
    <3>1. \A i \in 1..(k + 1) : i \in 1..k \/ i = k + 1
      OBVIOUS
    <3>2. \A i \in 1..(k + 1) : s[i] <= bound
      BY <2>1, <2>3, <3>1
    <3>. QED BY <3>2
  <2>4. CASE bound <= s[k + 1]
    <3>1. \A i \in 1..(k + 1) : s[i] <= s[k + 1]
      BY <2>1, <2>2, <2>4
    <3>. QED BY <2>2, <3>1
  <2>. QED BY <2>2, <2>3, <2>4
<1>3. T = Nat
  <2>. HIDE DEF T
  <2>1. T \in SUBSET Nat
    BY DEF T
  <2>. QED BY <1>1, <1>2, <2>1, AllNumbers
<1>4. n \in T
  BY <1>3
<1>. QED BY <1>4

\* A finite set of numbers has an enumeration in ascending order.
Ascending(s, S) ==
    s \in [1..Cardinality(S) -> S] /\ \A i, j \in DOMAIN s : i < j => s[i] < s[j]

\* The order that SortIds chooses exists.
LEMMA AscendingExists ==
    ASSUME NEW S \in SUBSET Nat, IsFiniteSet(S)
    PROVE  \E s : Ascending(s, S)
<1>. DEFINE T == { n \in Nat : \A R \in SUBSET Nat : IsFiniteSet(R) /\ Cardinality(R) = n =>
                                   \E s : Ascending(s, R) }
<1>1. 0 \in T
  <2>1. ASSUME NEW R \in SUBSET Nat, IsFiniteSet(R), Cardinality(R) = 0
        PROVE  Ascending(<< >>, R)
    BY <2>1 DEF Ascending
  <2>. QED BY <2>1
<1>2. ASSUME NEW n \in T PROVE n + 1 \in T
  <2>1. ASSUME NEW R \in SUBSET Nat, IsFiniteSet(R), Cardinality(R) = n + 1
        PROVE  \E s : Ascending(s, R)
    <3>1. R # {}
      BY <2>1, FS_EmptySet
    <3>2. PICK x \in R : \A y \in R : x <= y
      BY <3>1, LeastNumber
    <3>3. IsFiniteSet(R \ {x}) /\ Cardinality(R \ {x}) = n
      <4>1. Cardinality(R \ {x}) = Cardinality(R) - 1 /\ IsFiniteSet(R \ {x})
        BY <2>1, FS_RemoveElement
      <4>. QED BY <2>1, <4>1
    <3>4. PICK s : Ascending(s, R \ {x})
      BY <3>3
    <3>. DEFINE t == [i \in 1..(n + 1) |-> IF i = 1 THEN x ELSE s[i - 1]]
    <3>5. \A i \in 1..n : s[i] \in R /\ x < s[i]
      <4>1. s \in [1..n -> R \ {x}]
        BY <3>3, <3>4 DEF Ascending
      <4>2. \A y \in R \ {x} : y \in Nat /\ x \in Nat /\ x <= y /\ x # y
        BY <3>2
      <4>3. \A y \in R \ {x} : x < y
        BY <4>2
      <4>. QED BY <4>1, <4>3
    <3>6. t \in [1..(n + 1) -> R]
      BY <3>5
    <3>7. ASSUME NEW i \in 1..(n + 1), NEW j \in 1..(n + 1), i < j
          PROVE  t[i] < t[j]
      <4>1. j - 1 \in 1..n /\ t[j] = s[j - 1]
        BY <3>7
      <4>2. CASE i = 1
        BY <3>5, <4>1, <4>2
      <4>3. CASE i # 1
        <5>1. i - 1 \in 1..n /\ t[i] = s[i - 1] /\ i - 1 < j - 1
          BY <3>7, <4>3
        <5>. HIDE DEF t
        <5>. QED BY <3>3, <3>4, <4>1, <5>1 DEF Ascending
      <4>. QED BY <4>2, <4>3
    <3>. HIDE DEF t
    <3>8. DOMAIN t = 1..(n + 1)
      BY <3>6
    <3>9. Ascending(t, R)
      BY <2>1, <3>6, <3>7, <3>8 DEF Ascending
    <3>. QED BY <3>9
  <2>. QED BY <2>1
<1>3. T = Nat
  <2>. HIDE DEF T
  <2>1. T \in SUBSET Nat
    BY DEF T
  <2>. QED BY <1>1, <1>2, <2>1, AllNumbers
<1>4. Cardinality(S) \in T
  BY <1>3, FS_CardinalityType
<1>. QED BY <1>4

\* What topo.rs gets from sorting ids: each of them once.
LEMMA SortedIds ==
    ASSUME NEW S \in SUBSET Nat, IsFiniteSet(S)
    PROVE  /\ SortIds(S) \in Seq(S)
           /\ Len(SortIds(S)) = Cardinality(S)
           /\ \A i, j \in DOMAIN SortIds(S) : SortIds(S)[i] = SortIds(S)[j] => i = j
           /\ \A x \in S : \E i \in DOMAIN SortIds(S) : SortIds(S)[i] = x
<1>. DEFINE s == SortIds(S)
            n == Cardinality(S)
<1>1. n \in Nat
  BY FS_CardinalityType
<1>2. Ascending(s, S)
  BY AscendingExists DEF Ascending, SortIds
<1>. HIDE DEF s
<1>3. s \in Seq(S) /\ Len(s) = n /\ DOMAIN s = 1..n
  BY <1>1, <1>2 DEF Ascending
<1>4. ASSUME NEW i \in 1..n, NEW j \in 1..n, s[i] = s[j] PROVE i = j
  <2>1. s[i] \in S /\ s[j] \in S /\ i \in Nat /\ j \in Nat
    BY <1>1, <1>3
  <2>2. ~ (s[i] < s[j]) /\ ~ (s[j] < s[i])
    <3>1. \A x \in Nat : ~ (x < x)
      OBVIOUS
    <3>. QED BY <1>4, <2>1, <3>1
  <2>3. ~ (i < j) /\ ~ (j < i)
    BY <1>2, <1>3, <2>2 DEF Ascending
  <2>. QED BY <2>1, <2>3
<1>5. s \in Surjection(1..n, S)
  <2>1. IsFiniteSet(1..n) /\ Cardinality(1..n) = n
    BY <1>1, FS_Interval
  <2>2. s \in Injection(1..n, S)
    BY <1>2, <1>3, <1>4 DEF Ascending, Injection, IsInjective
  <2>. QED BY <2>1, <2>2, FS_Injection
<1>. QED BY <1>3, <1>4, <1>5 DEF Surjection, s

-------------------------------------------------------------------------------
(* The fold of a tick: the blocks take their turns one after the other.    *)

LEMMA MaxOfNumbers ==
    ASSUME NEW n \in Nat, NEW s \in SUBSET (1..n), s # {}
    PROVE  Max(s) \in s /\ \A x \in s : x <= Max(s)
<1>1. s \in SUBSET Int /\ n \in Int /\ \A x \in s : x <= n
  OBVIOUS
<1>2. Max(s) \in s /\ \A x \in s : Max(s) >= x
  BY <1>1, GreatestNumber
<1>. QED BY <1>1, <1>2

\* The library folds over sets of indices; that is one turn after another.
LEMMA VisitFold ==
    ASSUME NEW base, NEW order, Len(order) \in Nat, DOMAIN order = 1..Len(order)
    PROVE  \E turn : /\ turn[0] = base
                     /\ \A k \in 1..Len(order) : turn[k] = Visit(turn[k - 1], order[k])
                     /\ turn[Len(order)] = FoldLeft(Visit, base, order)
<1>. DEFINE n == Len(order)
            Step(g, s) == IF s = {} THEN base
                          ELSE Visit(g[s \ {Max(s)}], order[Max(s)])
            T == { k \in Nat : \E g : g = [s \in SUBSET (1..k) |-> Step(g, s)] }
<1>1. 0 \in T
  <2>. DEFINE g == [s \in SUBSET (1..0) |-> base]
  <2>1. \A s \in SUBSET (1..0) : s = {}
    OBVIOUS
  <2>2. g = [s \in SUBSET (1..0) |-> Step(g, s)]
    BY <2>1
  <2>. QED BY <2>2
<1>2. ASSUME NEW k \in T PROVE k + 1 \in T
  <2>1. PICK g : g = [s \in SUBSET (1..k) |-> Step(g, s)]
    OBVIOUS
  <2>. DEFINE h == [s \in SUBSET (1..(k + 1)) |->
                      IF k + 1 \in s THEN Visit(g[s \ {k + 1}], order[k + 1]) ELSE g[s]]
  <2>2. ASSUME NEW s \in SUBSET (1..(k + 1)) PROVE h[s] = Step(h, s)
    <3>1. CASE k + 1 \in s
      <4>1. k + 1 \in Nat /\ s # {}
        BY <3>1
      <4>2. Max(s) = k + 1
        <5>1. Max(s) \in s /\ k + 1 <= Max(s)
          BY <3>1, <4>1, MaxOfNumbers
        <5>2. Max(s) \in 1..(k + 1)
          BY <5>1
        <5>. QED BY <5>1, <5>2
      <4>3. s \ {k + 1} \in SUBSET (1..k) /\ s \ {k + 1} \in SUBSET (1..(k + 1))
        OBVIOUS
      <4>4. h[s \ {k + 1}] = g[s \ {k + 1}]
        BY <4>3
      <4>5. h[s] = Visit(g[s \ {k + 1}], order[k + 1])
        BY <3>1
      <4>. HIDE DEF h
      <4>. QED BY <3>1, <4>2, <4>4, <4>5
    <3>2. CASE k + 1 \notin s
      <4>1. s \in SUBSET (1..k)
        BY <3>2
      <4>2. h[s] = g[s]
        BY <3>2
      <4>3. g[s] = Step(g, s)
        BY <2>1, <4>1
      <4>4. CASE s = {}
        <5>. HIDE DEF h
        <5>. QED BY <4>2, <4>3, <4>4
      <4>5. CASE s # {}
        <5>1. k + 1 \notin s \ {Max(s)} /\ s \ {Max(s)} \in SUBSET (1..(k + 1))
          BY <3>2
        <5>2. h[s \ {Max(s)}] = g[s \ {Max(s)}]
          BY <5>1
        <5>. HIDE DEF h
        <5>. QED BY <4>2, <4>3, <4>5, <5>2
      <4>. QED BY <4>4, <4>5
    <3>. QED BY <3>1, <3>2
  <2>3. h = [s \in SUBSET (1..(k + 1)) |-> Step(h, s)]
    <3>1. h = [s \in SUBSET (1..(k + 1)) |-> h[s]]
      OBVIOUS
    <3>. HIDE DEF h, Step
    <3>. QED BY <2>2, <3>1
  <2>. HIDE DEF h, Step
  <2>. QED BY <2>3
<1>3. T = Nat
  <2>. HIDE DEF T
  <2>1. T \in SUBSET Nat
    BY DEF T
  <2>. QED BY <1>1, <1>2, <2>1, AllNumbers
<1>. DEFINE iter == CHOOSE g : g = [s \in SUBSET (1..n) |-> Step(g, s)]
<1>4. iter = [s \in SUBSET (1..n) |-> Step(iter, s)]
  <2>1. \E g : g = [s \in SUBSET (1..n) |-> Step(g, s)]
    BY <1>3
  <2>. HIDE DEF Step
  <2>. QED BY <2>1
<1>5. FoldLeft(Visit, base, order) = iter[1..n]
  BY DEF FoldLeft, MapThenFoldSet
<1>. HIDE DEF iter
<1>6. ASSUME NEW k \in 1..n PROVE iter[1..k] = Visit(iter[1..(k - 1)], order[k])
  <2>1. 1..k \in SUBSET (1..n) /\ 1..k # {} /\ k \in 1..k
    <3>1. k \in Nat /\ 1 <= k /\ k <= n
      OBVIOUS
    <3>2. \A x \in 1..k : x \in 1..n
      BY <3>1
    <3>3. k \in 1..k
      BY <3>1
    <3>. HIDE DEF n
    <3>. QED BY <3>2, <3>3
  <2>2. Max(1..k) \in 1..k /\ k <= Max(1..k)
    <3>1. k \in Nat /\ 1..k \in SUBSET (1..k)
      OBVIOUS
    <3>. QED BY <2>1, <3>1, MaxOfNumbers
  <2>3. Max(1..k) = k
    BY <2>2
  <2>4. (1..k) \ {k} = 1..(k - 1)
    <3>1. k \in Int /\ k - 1 \in Int
      OBVIOUS
    <3>2. ASSUME NEW x \in Int PROVE x \in 1..k /\ x # k <=> x \in 1..(k - 1)
      BY <3>1
    <3>3. \A x \in 1..k : x \in Int
      OBVIOUS
    <3>4. \A x \in 1..(k - 1) : x \in Int
      OBVIOUS
    <3>. QED BY <3>2, <3>3, <3>4
  <2>. QED BY <1>4, <2>1, <2>3, <2>4
<1>7. iter[1..0] = base
  <2>1. 1..0 = {} /\ {} \in SUBSET (1..n)
    OBVIOUS
  <2>. QED BY <1>4, <2>1
<1>. DEFINE turn == [k \in 0..n |-> iter[1..k]]
<1>8. turn[0] = base /\ turn[n] = FoldLeft(Visit, base, order)
  BY <1>5, <1>7
<1>9. \A k \in 1..n : turn[k] = Visit(turn[k - 1], order[k])
  BY <1>6
<1>. HIDE DEF turn
<1>. QED BY <1>8, <1>9

-------------------------------------------------------------------------------
(* Kahn's algorithm.                                                       *)

\* The queue after each pop, from Kahn's recursion.
LEMMA QueuesFold ==
    ASSUME NEW ids, NEW deps, Cardinality(ids) \in Nat
    PROVE  LET Q == Queues(ids, deps)
           IN  /\ Q[0] = SortIds({ id \in ids : Feeders(deps, id) = {} })
               /\ \A n \in 1..Cardinality(ids) :
                     Q[n] = IF n > Len(Q[n - 1]) THEN Q[n - 1]
                            ELSE Q[n - 1] \o SortIds(Readied(ids, deps, Q[n - 1], n))
<1>. DEFINE N == Cardinality(ids)
            Base == SortIds({ id \in ids : Feeders(deps, id) = {} })
            Grown(q, n) == IF n > Len(q) THEN q ELSE q \o SortIds(Readied(ids, deps, q, n))
            Step(g, n) == IF n = 0 THEN Base ELSE Grown(g[n - 1], n)
            T == { k \in Nat : \E g : g = [n \in 0..k |-> Step(g, n)] }
<1>1. 0 \in T
  <2>. DEFINE g == [n \in 0..0 |-> Base]
  <2>1. \A n \in 0..0 : n = 0
    OBVIOUS
  <2>. HIDE DEF Base, Grown
  <2>2. g = [n \in 0..0 |-> Step(g, n)]
    BY <2>1
  <2>. QED BY <2>2
<1>2. ASSUME NEW k \in T PROVE k + 1 \in T
  <2>. HIDE DEF Base, Grown
  <2>1. PICK g : g = [n \in 0..k |-> Step(g, n)]
    OBVIOUS
  <2>. DEFINE h == [n \in 0..(k + 1) |-> IF n = k + 1 THEN Grown(g[k], k + 1) ELSE g[n]]
  <2>2. ASSUME NEW n \in 0..(k + 1) PROVE h[n] = Step(h, n)
    <3>1. CASE n = k + 1
      <4>1. h[n] = Grown(g[k], k + 1) /\ h[n - 1] = g[k] /\ n # 0 /\ n - 1 = k
        BY <3>1
      <4>. HIDE DEF h
      <4>. QED BY <3>1, <4>1
    <3>2. CASE n # k + 1
      <4>1. n \in 0..k /\ h[n] = g[n]
        BY <3>2
      <4>2. n # 0 => n - 1 \in 0..k /\ n - 1 \in 0..(k + 1) /\ n - 1 # k + 1
        BY <4>1
      <4>3. n # 0 => h[n - 1] = g[n - 1]
        BY <4>2
      <4>4. g[n] = Step(g, n)
        BY <2>1, <4>1
      <4>. HIDE DEF h
      <4>. QED BY <4>1, <4>3, <4>4
    <3>. QED BY <3>1, <3>2
  <2>3. h = [n \in 0..(k + 1) |-> Step(h, n)]
    <3>1. h = [n \in 0..(k + 1) |-> h[n]]
      OBVIOUS
    <3>. HIDE DEF h, Step
    <3>. QED BY <2>2, <3>1
  <2>. HIDE DEF h, Step
  <2>. QED BY <2>3
<1>3. N \in T
  <2>. HIDE DEF T
  <2>1. T \in SUBSET Nat
    BY DEF T
  <2>2. T = Nat
    BY <1>1, <1>2, <2>1, AllNumbers
  <2>. QED BY <2>2
<1>. DEFINE Q == Queues(ids, deps)
<1>4. Q = CHOOSE g : g = [n \in 0..N |-> Step(g, n)]
  BY DEF Queues
<1>5. Q = [n \in 0..N |-> Step(Q, n)]
  <2>1. \E g : g = [n \in 0..N |-> Step(g, n)]
    BY <1>3
  <2>. HIDE DEF Step, Q
  <2>. QED BY <1>4, <2>1
<1>. HIDE DEF Q
<1>6. Q[0] = Base
  <2>1. 0 \in 0..N
    OBVIOUS
  <2>. HIDE DEF Base, Grown, N
  <2>. QED BY <1>5, <2>1
<1>7. ASSUME NEW n \in 1..N PROVE Q[n] = Grown(Q[n - 1], n)
  <2>1. n \in 0..N /\ n # 0
    OBVIOUS
  <2>. HIDE DEF Base, Grown, N
  <2>. QED BY <1>5, <2>1
<1>. QED BY <1>6, <1>7 DEF Q

(* What a queue may be after n pops: it names blocks, none of them twice,  *)
(* and each comes after all its feeders, which have been popped.           *)
Queued(ids, deps, q, n) ==
    /\ q \in Seq(ids)
    /\ \A i, j \in DOMAIN q : q[i] = q[j] => i = j
    /\ \A j \in DOMAIN q : \A x \in Feeders(deps, q[j]) :
          \E i \in DOMAIN q : i < j /\ i <= n /\ q[i] = x

\* One more pop keeps what the queue promises.
LEMMA QueueGrows ==
    ASSUME NEW ids \in SUBSET Nat, IsFiniteSet(ids), NEW deps,
           NEW q, NEW n \in Nat, Queued(ids, deps, q, n)
    PROVE  Queued(ids, deps, IF n + 1 > Len(q) THEN q
                             ELSE q \o SortIds(Readied(ids, deps, q, n + 1)), n + 1)
<1>0. q \in Seq(ids)
  BY DEF Queued
<1>1. Queued(ids, deps, q, n + 1)
  BY <1>0 DEF Queued
<1>2. ASSUME ~ (n + 1 > Len(q))
      PROVE  Queued(ids, deps, q \o SortIds(Readied(ids, deps, q, n + 1)), n + 1)
  <2>. DEFINE R == Readied(ids, deps, q, n + 1)
              r == SortIds(R)
              new == q \o r
  <2>1. R \in SUBSET Nat /\ IsFiniteSet(R) /\ R \subseteq ids
    BY FS_Subset DEF Readied
  <2>2. /\ r \in Seq(R)
        /\ \A i, j \in DOMAIN r : r[i] = r[j] => i = j
    BY <2>1, SortedIds
  <2>3. \A x \in R : q[n + 1] \in Feeders(deps, x) /\ Feeders(deps, x) \subseteq Popped(q, n + 1)
    BY DEF Readied
  <2>4. n + 1 \in DOMAIN q /\ DOMAIN q = 1..Len(q) /\ Len(q) \in Nat
    BY <1>0, <1>2
  <2>. HIDE DEF R, r
  <2>5. /\ new \in Seq(ids)
        /\ \A k \in DOMAIN q : k \in DOMAIN new /\ new[k] = q[k]
        /\ \A k \in DOMAIN new : \/ k \in DOMAIN q
                                 \/ k > Len(q) /\ k - Len(q) \in DOMAIN r /\ new[k] = r[k - Len(q)]
        /\ DOMAIN new \subseteq Nat
    <3>1. r \in Seq(ids)
      <4>1. r \in [1..Len(r) -> R] /\ Len(r) \in Nat
        BY <2>2
      <4>2. r \in [1..Len(r) -> ids]
        BY <2>1, <4>1
      <4>. QED BY <4>1, <4>2
    <3>2. new \in Seq(ids) /\ Len(new) = Len(q) + Len(r) /\ DOMAIN new = 1..(Len(q) + Len(r))
          /\ DOMAIN r = 1..Len(r) /\ Len(r) \in Nat
      BY <1>0, <3>1
    <3>3. \A k \in 1..Len(q) : new[k] = q[k]
      BY <1>0, <3>1
    <3>4. \A k \in 1..(Len(q) + Len(r)) : k > Len(q) => new[k] = r[k - Len(q)]
      BY <1>0, <3>1
    <3>. HIDE DEF new
    <3>. QED BY <2>4, <3>2, <3>3, <3>4
  <2>. HIDE DEF new
  <2>6. \A k \in DOMAIN r : r[k] \in R
    BY <2>2
  <2>7. ASSUME NEW x \in R, NEW j \in DOMAIN q, q[j] = x PROVE FALSE
    <3>1. PICK i \in DOMAIN q : i <= n /\ q[i] = q[n + 1]
      BY <2>3, <2>7 DEF Queued
    <3>2. i = n + 1
      BY <2>4, <3>1 DEF Queued
    <3>. QED BY <3>1, <3>2
  <2>8. ASSUME NEW i \in DOMAIN new, NEW j \in DOMAIN new, new[i] = new[j] PROVE i = j
    <3>1. CASE i \in DOMAIN q /\ j \in DOMAIN q
      BY <2>5, <2>8, <3>1 DEF Queued
    <3>2. CASE i \in DOMAIN q /\ j \notin DOMAIN q
      BY <2>5, <2>6, <2>7, <2>8, <3>2
    <3>3. CASE i \notin DOMAIN q /\ j \in DOMAIN q
      BY <2>5, <2>6, <2>7, <2>8, <3>3
    <3>4. CASE i \notin DOMAIN q /\ j \notin DOMAIN q
      <4>1. i - Len(q) = j - Len(q)
        BY <2>2, <2>5, <2>8, <3>4
      <4>. QED BY <2>4, <2>5, <4>1
    <3>. QED BY <3>1, <3>2, <3>3, <3>4
  <2>9. ASSUME NEW j \in DOMAIN new, NEW x \in Feeders(deps, new[j])
        PROVE  \E i \in DOMAIN new : i < j /\ i <= n + 1 /\ new[i] = x
    <3>1. CASE j \in DOMAIN q
      <4>1. PICK i \in DOMAIN q : i < j /\ i <= n /\ q[i] = x
        BY <2>5, <2>9, <3>1 DEF Queued
      <4>. QED BY <2>4, <2>5, <4>1
    <3>2. CASE j \notin DOMAIN q
      <4>1. j > Len(q) /\ x \in Popped(q, n + 1)
        BY <2>3, <2>5, <2>6, <2>9, <3>2
      <4>2. PICK i \in 1..(n + 1) : x = q[i]
        BY <4>1 DEF Popped
      <4>3. i \in DOMAIN q
        BY <1>2, <2>4, <4>2
      <4>4. i < j /\ i <= n + 1
        BY <2>4, <2>5, <4>1, <4>2, <4>3
      <4>. QED BY <2>5, <4>2, <4>3, <4>4
    <3>. QED BY <3>1, <3>2
  <2>. QED BY <2>5, <2>8, <2>9 DEF Queued, new, r, R
<1>. QED BY <1>1, <1>2

(* What a successful sort returns: every block once, and each that is no   *)
(* delay after all that feed it.                                           *)
LEMMA KahnSorts ==
    ASSUME NEW ids \in SUBSET Nat, IsFiniteSet(ids), NEW chans, NEW delays,
           Sorted(ids, chans, delays).ok
    PROVE  LET order == Sorted(ids, chans, delays).order
           IN  /\ order \in Seq(ids)
               /\ \A i, j \in DOMAIN order : order[i] = order[j] => i = j
               /\ \A x \in ids : \E i \in DOMAIN order : order[i] = x
               /\ \A c \in chans : c.from \in ids /\ c.to \in ids \ delays =>
                     \E i, j \in DOMAIN order :
                        i < j /\ order[i] = c.from /\ order[j] = c.to
<1>. DEFINE deps == Dependencies(ids, chans, delays)
            N == Cardinality(ids)
            Q == Queues(ids, deps)
            order == Q[N]
<1>1. N \in Nat
  BY FS_CardinalityType
<1>2. /\ Sorted(ids, chans, delays).ok = (Len(order) = N)
      /\ Sorted(ids, chans, delays).order = order
  BY DEF Sorted
<1>3. /\ Q[0] = SortIds({ id \in ids : Feeders(deps, id) = {} })
      /\ \A n \in 1..N : Q[n] = IF n > Len(Q[n - 1]) THEN Q[n - 1]
                                ELSE Q[n - 1] \o SortIds(Readied(ids, deps, Q[n - 1], n))
  BY <1>1, QueuesFold
<1>. HIDE DEF deps, Q
<1>4. Queued(ids, deps, Q[0], 0)
  <2>. DEFINE S == { id \in ids : Feeders(deps, id) = {} }
  <2>1. S \in SUBSET Nat /\ IsFiniteSet(S) /\ S \subseteq ids
    BY FS_Subset
  <2>2. \A x \in S : Feeders(deps, x) = {}
    OBVIOUS
  <2>. HIDE DEF S
  <2>3. /\ SortIds(S) \in Seq(S)
        /\ \A i, j \in DOMAIN SortIds(S) : SortIds(S)[i] = SortIds(S)[j] => i = j
    BY <2>1, SortedIds
  <2>. DEFINE r == SortIds(S)
  <2>4. Q[0] = r
    BY <1>3 DEF S
  <2>. HIDE DEF r
  <2>5. r \in [1..Len(r) -> S] /\ Len(r) \in Nat
    BY <2>3 DEF r
  <2>6. r \in [1..Len(r) -> ids]
    BY <2>1, <2>5
  <2>7. r \in Seq(ids) /\ \A j \in DOMAIN r : r[j] \in S
    BY <2>5, <2>6
  <2>. QED BY <2>2, <2>3, <2>4, <2>7 DEF Queued, r
<1>5. Queued(ids, deps, Q[N], N)
  <2>. DEFINE T == { n \in Nat : n <= N => Queued(ids, deps, Q[n], n) }
  <2>1. 0 \in T
    BY <1>4
  <2>2. ASSUME NEW n \in T PROVE n + 1 \in T
    <3>1. CASE n + 1 <= N
      <4>1. n \in Nat /\ Queued(ids, deps, Q[n], n) /\ n + 1 \in 1..N /\ (n + 1) - 1 = n
        BY <1>1, <3>1
      <4>2. Q[n + 1] = IF n + 1 > Len(Q[n]) THEN Q[n]
                       ELSE Q[n] \o SortIds(Readied(ids, deps, Q[n], n + 1))
        BY <1>3, <4>1
      <4>3. Queued(ids, deps, Q[n + 1], n + 1)
        BY <4>1, <4>2, QueueGrows
      <4>. QED BY <4>3
    <3>. QED BY <3>1
  <2>3. T = Nat
    <3>. HIDE DEF T
    <3>1. T \in SUBSET Nat
      BY DEF T
    <3>. QED BY <2>1, <2>2, <3>1, AllNumbers
  <2>4. N \in T
    BY <1>1, <2>3
  <2>. QED BY <1>1, <2>4
<1>. HIDE DEF order
<1>6. Len(order) = N
  BY <1>2
<1>7. order \in Seq(ids) /\ DOMAIN order = 1..N
  BY <1>5, <1>6 DEF Queued, order
<1>8. \A i, j \in DOMAIN order : order[i] = order[j] => i = j
  BY <1>5 DEF Queued, order
<1>9. \A x \in ids : \E i \in DOMAIN order : order[i] = x
  <2>1. IsFiniteSet(1..N) /\ Cardinality(1..N) = N
    BY <1>1, FS_Interval
  <2>2. order \in [1..N -> ids]
    BY <1>6, <1>7
  <2>3. order \in Injection(1..N, ids)
    BY <1>7, <1>8, <2>2 DEF Injection, IsInjective
  <2>4. order \in Surjection(1..N, ids)
    BY <2>1, <2>3, FS_Injection
  <2>. QED BY <1>7, <2>4 DEF Surjection
<1>10. ASSUME NEW c \in chans, c.from \in ids, c.to \in ids \ delays
       PROVE  \E i, j \in DOMAIN order : i < j /\ order[i] = c.from /\ order[j] = c.to
  <2>1. c.from \in Feeders(deps, c.to)
    BY <1>10 DEF Feeders, deps, Dependencies
  <2>2. PICK j \in DOMAIN order : order[j] = c.to
    BY <1>9, <1>10
  <2>3. PICK i \in DOMAIN order : i < j /\ order[i] = c.from
    <3>1. \A k \in DOMAIN order : \A f \in Feeders(deps, order[k]) :
              \E i \in DOMAIN order : i < k /\ order[i] = f
      BY <1>5 DEF Queued, order
    <3>. HIDE DEF deps
    <3>. QED BY <2>1, <2>2, <3>1
  <2>. QED BY <2>2, <2>3
<1>. QED BY <1>2, <1>7, <1>8, <1>9, <1>10
-------------------------------------------------------------------------------
(* The blocks: what their ports are, and what they make of their inputs.   *)

Value == Int \union {Absent}

Transition == [from : Nat, to : Nat, guard : Nat \union {Always}]

\* The shapes a block can have.
LEMMA BlockShapes ==
    ASSUME NEW b \in BlockRecords(Channels)
    PROVE  \/ b.kind = "constant" /\ b.value \in Int
           \/ b.kind = "gain" /\ b.gain \in Int
           \/ b.kind = "clamp" /\ b.min \in Int /\ b.max \in Int /\ b.min <= b.max
           \/ b.kind \in {"add", "subtract", "multiply", "select"}
           \/ b.kind = "register" /\ b.initial_value \in Int
           \/ /\ b.kind \in Peripherals /\ b.channel \in Channels
              /\ b = [kind |-> b.kind, channel |-> b.channel]
           \/ /\ b.kind = "state_machine" /\ b.states \in Nat \ {0}
              /\ b.transitions \in Seq(Transition)
              /\ \A i \in DOMAIN b.transitions : b.transitions[i].to \in 0..(b.states - 1)
<1>1. CASE b \in [kind : {"constant"}, value : Int]
  BY <1>1
<1>2. CASE b \in [kind : {"gain"}, gain : Int]
  BY <1>2
<1>3. CASE b \in [kind : {"clamp"}, min : Int, max : Int] /\ b.min <= b.max
  BY <1>3
<1>4. CASE b \in [kind : {"add", "subtract", "multiply", "select"}]
  BY <1>4
<1>5. CASE b \in [kind : {"register"}, initial_value : Int]
  BY <1>5
<1>6. CASE b \in [kind : Peripherals, channel : Channels]
  BY <1>6
<1>7. CASE /\ b \in [kind : {"state_machine"}, states : Nat \ {0},
                      transitions : Seq(Transition)]
           /\ StatesNamed(b) \subseteq 0..(b.states - 1)
  <2>1. b.kind = "state_machine" /\ b.states \in Nat \ {0} /\ b.transitions \in Seq(Transition)
    BY <1>7
  <2>2. ASSUME NEW i \in DOMAIN b.transitions
        PROVE  b.transitions[i].to \in 0..(b.states - 1)
    BY <1>7 DEF StatesNamed
  <2>. QED BY <2>1, <2>2
<1>. QED BY <1>1, <1>2, <1>3, <1>4, <1>5, <1>6, <1>7 DEF BlockRecords, Transition

LEMMA TwoNumbers ==
    ASSUME NEW x \in Int, NEW y \in Int
    PROVE  /\ Max({x, y}) = IF x <= y THEN y ELSE x
           /\ Min({x, y}) = IF x <= y THEN x ELSE y
<1>. DEFINE high == IF x <= y THEN y ELSE x
            low == IF x <= y THEN x ELSE y
<1>1. high \in Int /\ low \in Int /\ low \in {x, y} /\ high \in {x, y}
  OBVIOUS
<1>2. \A z \in {x, y} : low <= z /\ z <= high
  OBVIOUS
<1>3. Max({x, y}) \in {x, y} /\ \A z \in {x, y} : Max({x, y}) >= z
  BY <1>1, <1>2, GreatestNumber
<1>4. Min({x, y}) \in {x, y} /\ \A z \in {x, y} : Min({x, y}) <= z
  BY <1>1, <1>2, SmallestNumber
<1>. QED BY <1>3, <1>4

\* There is a port for every guard.
LEMMA GuardPortsCount ==
    ASSUME NEW b, b.transitions \in Seq(Transition)
    PROVE  /\ GuardPorts(b) \in Nat
           /\ \A i \in DOMAIN b.transitions : b.transitions[i].guard < GuardPorts(b)
<1>. DEFINE s == b.transitions
            n == Len(s)
            port == [i \in 1..n |-> s[i].guard + 1]
            T == {0} \union { s[i].guard + 1 : i \in DOMAIN s }
<1>1. n \in Nat /\ DOMAIN s = 1..n /\ \A i \in 1..n : s[i] \in Transition
  OBVIOUS
<1>2. \A i \in 1..n : s[i].guard \in Int
  BY <1>1 DEF Transition, Always
<1>3. \A i \in 1..n : port[i] \in Int
  BY <1>2
<1>4. PICK bound \in Int : \A i \in 1..n : port[i] <= bound
  <2>. HIDE DEF port, n
  <2>. QED BY <1>1, <1>3, SeqBounded
<1>. DEFINE top == IF bound <= 0 THEN 0 ELSE bound
<1>5. top \in Int /\ T \in SUBSET Int /\ T # {} /\ \A x \in T : x <= top
  <2>1. top \in Int /\ 0 <= top /\ bound <= top
    OBVIOUS
  <2>2. ASSUME NEW x \in T PROVE x \in Int /\ x <= top
    <3>1. CASE x = 0
      BY <2>1, <3>1
    <3>2. CASE x # 0
      <4>1. PICK i \in DOMAIN s : x = s[i].guard + 1
        BY <3>2
      <4>2. x = port[i] /\ i \in 1..n
        BY <1>1, <4>1
      <4>. HIDE DEF port, n, top, s
      <4>3. x \in Int /\ x <= bound
        BY <1>3, <1>4, <4>2
      <4>. QED BY <2>1, <4>3
    <3>. QED BY <3>1, <3>2
  <2>. QED BY <2>1, <2>2
<1>6. Max(T) \in T /\ \A x \in T : Max(T) >= x
  <2>. HIDE DEF T, top
  <2>. QED BY <1>5, GreatestNumber
<1>7. GuardPorts(b) = Max(T)
  BY DEF GuardPorts
<1>. HIDE DEF s
<1>8. Max(T) \in Int /\ Max(T) >= 0
  BY <1>5, <1>6
<1>9. ASSUME NEW i \in DOMAIN s PROVE s[i].guard < Max(T)
  <2>1. s[i].guard \in Int /\ s[i].guard + 1 \in T
    BY <1>1, <1>2
  <2>. HIDE DEF T
  <2>2. Max(T) >= s[i].guard + 1
    BY <1>6, <2>1
  <2>. QED BY <1>8, <2>1, <2>2
<1>. QED BY <1>7, <1>8, <1>9 DEF s

\* A port's number is a natural one.
LEMMA PortsAreNumbers ==
    ASSUME NEW b \in BlockRecords(Channels)
    PROVE  InputPorts(b) \in SUBSET Nat /\ OutputPorts(b) \in SUBSET Nat
<1>1. CASE b.kind = "state_machine"
  <2>1. b.states \in Nat /\ b.transitions \in Seq(Transition)
    BY <1>1, BlockShapes DEF Peripherals, Sources, Sinks
  <2>2. GuardPorts(b) \in Nat
    BY <2>1, GuardPortsCount
  <2>. QED BY <1>1, <2>1, <2>2 DEF InputPorts, OutputPorts, Sources, Sinks
<1>2. CASE b.kind # "state_machine"
  <2>1. b.kind \in {"constant", "gain", "clamp", "register", "add", "subtract", "multiply",
                    "select"} \union Sources \union Sinks
    BY <1>2, BlockShapes DEF Peripherals
  <2>. QED BY <1>2, <2>1 DEF InputPorts, OutputPorts, Sources, Sinks
<1>. QED BY <1>1, <1>2

\* What the values of a block's ports have in common, one way or the other.
Credible(b, r) ==
    /\ b.kind = "constant" => r[0] = b.value
    /\ b.kind = "clamp" => r[0] = Absent \/ r[0] \in b.min..b.max
    /\ b.kind = "state_machine" =>
          /\ \A p \in 0..b.states : r[p] # Absent
          /\ \A p \in 1..b.states : r[p] = IF p - 1 = r[0] THEN 1 ELSE 0

\* A machine goes to a state it has.
LEMMA NextStateExists ==
    ASSUME NEW b, b.states \in Nat \ {0}, b.transitions \in Seq(Transition),
           \A i \in DOMAIN b.transitions : b.transitions[i].to \in 0..(b.states - 1),
           NEW in, in[0] \in Value
    PROVE  NextState(b, in) \in 0..(b.states - 1)
<1>. DEFINE current == Max({0, Min({OrZero(in[0]), b.states - 1})})
            Holds(t) == /\ t.from = current
                        /\ t.guard # Always => OrZero(in[t.guard + 1]) > 0
            fires == { i \in DOMAIN b.transitions : Holds(b.transitions[i]) }
<1>1. OrZero(in[0]) \in Int /\ b.states - 1 \in Int
  BY DEF OrZero, Value
<1>2. current \in 0..(b.states - 1)
  <2>. DEFINE x == OrZero(in[0])
              y == b.states - 1
  <2>1. Min({x, y}) = IF x <= y THEN x ELSE y
    BY <1>1, TwoNumbers
  <2>. DEFINE z == Min({x, y})
  <2>2. z \in Int /\ z <= y
    BY <1>1, <2>1
  <2>. HIDE DEF z
  <2>3. Max({0, z}) = IF 0 <= z THEN z ELSE 0
    BY <2>2, TwoNumbers
  <2>4. Max({0, z}) \in 0..y
    BY <1>1, <2>2, <2>3
  <2>. QED BY <2>4 DEF z
<1>3. ASSUME fires # {} PROVE b.transitions[Min(fires)].to \in 0..(b.states - 1)
  <2>1. fires \in SUBSET Nat /\ fires \subseteq DOMAIN b.transitions
    OBVIOUS
  <2>. HIDE DEF fires
  <2>2. fires \in SUBSET Int /\ \A x \in fires : 0 <= x
    BY <2>1
  <2>3. Min(fires) \in fires
    BY <1>3, <2>2, SmallestNumber
  <2>. QED BY <2>1, <2>3
<1>4. NextState(b, in) = IF fires = {} THEN current ELSE b.transitions[Min(fires)].to
  BY DEF NextState
<1>. HIDE DEF fires, current
<1>. QED BY <1>2, <1>3, <1>4

\* A value for each of its output ports, and a credible one.
LEMMA ResultsFit ==
    ASSUME NEW b \in BlockRecords(Channels), NEW in \in [InputPorts(b) -> Value],
           NEW st \in Int, DataflowAssumption
    PROVE  Results(b, in, st) \in [OutputPorts(b) -> Value] /\ Credible(b, Results(b, in, st))
<1>1. CASE b.kind = "constant"
  <2>1. b.value \in Int
    BY <1>1, BlockShapes DEF Peripherals, Sources, Sinks
  <2>2. Results(b, in, st) = One(b.value)
    BY <1>1 DEF Results, Sources, Sinks
  <2>3. OutputPorts(b) = {0}
    BY <1>1 DEF OutputPorts, Sinks
  <2>. QED BY <1>1, <2>1, <2>2, <2>3 DEF Credible, One, Value
<1>2. CASE b.kind = "register"
  BY <1>2 DEF Results, OutputPorts, Credible, One, Value, Sinks
<1>3. CASE b.kind = "add"
  <2>1. in[0] \in Value /\ in[1] \in Value
    BY <1>3 DEF InputPorts, Sources, Sinks
  <2>2. AddResult(in[0], in[1]) \in Value
    BY <2>1 DEF AddResult, Value
  <2>3. Results(b, in, st) = One(AddResult(in[0], in[1]))
    BY <1>3 DEF Results, Sources, Sinks
  <2>4. OutputPorts(b) = {0}
    BY <1>3 DEF OutputPorts, Sinks
  <2>. QED BY <1>3, <2>2, <2>3, <2>4 DEF Credible, One
<1>4. CASE b.kind = "state_machine"
  <2>1. /\ b.states \in Nat \ {0} /\ b.transitions \in Seq(Transition)
        /\ \A i \in DOMAIN b.transitions : b.transitions[i].to \in 0..(b.states - 1)
    BY <1>4, BlockShapes DEF Peripherals, Sources, Sinks
  <2>2. in[0] \in Value
    <3>1. GuardPorts(b) \in Nat
      BY <2>1, GuardPortsCount
    <3>. QED BY <1>4, <3>1 DEF InputPorts, Sources, Sinks
  <2>. DEFINE s == NextState(b, in)
  <2>3. s \in 0..(b.states - 1)
    BY <2>1, <2>2, NextStateExists
  <2>4. Results(b, in, st) = Flags(b.states, s)
    BY <1>4 DEF Results, Sources, Sinks
  <2>. HIDE DEF s
  <2>. DEFINE r == Flags(b.states, s)
  <2>5. \A p \in 0..b.states : r[p] = IF p = 0 THEN s ELSE IF p - 1 = s THEN 1 ELSE 0
    BY DEF Flags
  <2>6. r \in [0..b.states -> Int]
    BY <2>1, <2>3 DEF Flags
  <2>7. Credible(b, r)
    BY <1>4, <2>1, <2>3, <2>5, DataflowAssumption DEF Credible, DataflowAssumption
  <2>8. OutputPorts(b) = 0..b.states
    BY <1>4 DEF OutputPorts, Sinks
  <2>. HIDE DEF r
  <2>9. r \in [0..b.states -> Value]
    BY <2>6 DEF Value
  <2>. QED BY <2>4, <2>7, <2>8, <2>9 DEF r
<1>5. CASE b.kind \in Sources
  BY <1>5 DEF Results, OutputPorts, Credible, One, Value, Sources, Sinks
<1>6. CASE b.kind \in Sinks
  BY <1>6 DEF Results, OutputPorts, Credible, Value, Sources, Sinks
<1>7. CASE b.kind \in {"gain", "clamp", "multiply", "subtract", "select"}
  <2>. DEFINE v == IF ~AllPresent(in) THEN Absent
                   ELSE CASE b.kind = "gain" -> in[0] * b.gain
                          [] b.kind = "clamp" -> Max({b.min, Min({b.max, in[0]})})
                          [] b.kind = "multiply" -> in[0] * in[1]
                          [] b.kind = "subtract" -> in[0] - in[1]
                          [] b.kind = "select" -> IF in[0] > 0 THEN in[1] ELSE in[2]
  <2>1. Results(b, in, st) = One(v)
    BY <1>7 DEF Results, Sources, Sinks
  <2>2. v \in Value /\ (b.kind = "clamp" => v = Absent \/ v \in b.min..b.max)
    <3>1. CASE ~AllPresent(in)
      BY <3>1 DEF Value
    <3>2. CASE AllPresent(in)
      <4>1. \A p \in InputPorts(b) : in[p] \in Int
        BY <3>2 DEF AllPresent, Value
      <4>2. CASE b.kind = "gain"
        <5>1. b.gain \in Int /\ in[0] \in Int
          BY <4>1, <4>2, BlockShapes DEF InputPorts, Peripherals, Sources, Sinks
        <5>. QED BY <3>2, <4>2, <5>1 DEF Value
      <4>3. CASE b.kind = "clamp"
        <5>1. b.min \in Int /\ b.max \in Int /\ b.min <= b.max /\ in[0] \in Int
          BY <4>1, <4>3, BlockShapes DEF InputPorts, Peripherals, Sources, Sinks
        <5>. DEFINE low == Min({b.max, in[0]})
        <5>2. low = IF b.max <= in[0] THEN b.max ELSE in[0]
          BY <5>1, TwoNumbers
        <5>3. low \in Int /\ low <= b.max
          BY <5>1, <5>2
        <5>. HIDE DEF low
        <5>4. Max({b.min, low}) = IF b.min <= low THEN low ELSE b.min
          BY <5>1, <5>3, TwoNumbers
        <5>5. v = Max({b.min, low})
          BY <3>2, <4>3 DEF low
        <5>. HIDE DEF v
        <5>6. v \in b.min..b.max
          BY <5>1, <5>3, <5>4, <5>5
        <5>. QED BY <5>1, <5>6 DEF Value
      <4>4. CASE b.kind \in {"multiply", "subtract"}
        <5>1. in[0] \in Int /\ in[1] \in Int
          BY <4>1, <4>4 DEF InputPorts, Sources, Sinks
        <5>. QED BY <3>2, <4>4, <5>1 DEF Value
      <4>5. CASE b.kind = "select"
        <5>1. in[0] \in Int /\ in[1] \in Int /\ in[2] \in Int
          BY <4>1, <4>5 DEF InputPorts, Sources, Sinks
        <5>. QED BY <3>2, <4>5, <5>1 DEF Value
      <4>. QED BY <1>7, <4>2, <4>3, <4>4, <4>5
    <3>. QED BY <3>1, <3>2
  <2>3. OutputPorts(b) = {0}
    BY <1>7 DEF OutputPorts, Sinks
  <2>. HIDE DEF v
  <2>4. One(v) \in [{0} -> Value] /\ One(v)[0] = v
    BY <2>2 DEF One
  <2>5. Credible(b, One(v))
    BY <1>7, <2>2, <2>4 DEF Credible
  <2>. QED BY <2>1, <2>3, <2>4, <2>5
<1>. QED
  BY <1>1, <1>2, <1>3, <1>4, <1>5, <1>6, <1>7, BlockShapes DEF Peripherals

Hardware == [adc : [Channels -> Int], pwm : [Channels -> Int], gpio : [Channels -> Int]]

\* The same for a simulated peripheral; and only sinks write, each its own channel.
LEMMA SimFits ==
    ASSUME NEW b \in BlockRecords(Channels), b.kind \in Peripherals,
           NEW in \in [InputPorts(b) -> Value], NEW h \in Hardware
    PROVE  /\ SimResults(b, h) \in [OutputPorts(b) -> Value]
           /\ Credible(b, SimResults(b, h))
           /\ SimWrites(b, in, h) \in Hardware
           /\ SimWrites(b, in, h).adc = h.adc
<1>1. b.channel \in Channels
  BY BlockShapes DEF Peripherals, Sources, Sinks
<1>2. /\ h.adc \in [Channels -> Int] /\ h.pwm \in [Channels -> Int]
      /\ h.gpio \in [Channels -> Int]
  BY DEF Hardware
<1>3. CASE b.kind \in Sources
  <2>1. SimResults(b, h) \in [{0} -> Value]
    <3>1. h.adc[b.channel] \in Int /\ h.gpio[b.channel] \in Int
      BY <1>1, <1>2
    <3>. QED BY <1>3, <3>1 DEF SimResults, One, Sources, Value
  <2>2. OutputPorts(b) = {0}
    BY <1>3 DEF OutputPorts, Sources, Sinks
  <2>3. SimWrites(b, in, h) = h
    BY <1>3 DEF SimWrites
  <2>4. Credible(b, SimResults(b, h))
    BY <1>3 DEF Credible, Sources
  <2>. QED BY <2>1, <2>2, <2>3, <2>4
<1>4. CASE b.kind \in Sinks
  <2>1. SimResults(b, h) = << >> /\ OutputPorts(b) = {}
    BY <1>4 DEF SimResults, OutputPorts, Sinks
  <2>2. Credible(b, SimResults(b, h))
    BY <1>4 DEF Credible, Sinks
  <2>3. SimWrites(b, in, h) \in Hardware /\ SimWrites(b, in, h).adc = h.adc
    <3>1. CASE in[0] = Absent
      BY <3>1 DEF SimWrites
    <3>2. CASE in[0] # Absent
      <4>1. in[0] \in Int
        BY <1>4, <3>2 DEF InputPorts, Sources, Sinks, Value
      <4>2. CASE b.kind = "pwm_sink"
        <5>1. SimWrites(b, in, h) = [h EXCEPT !.pwm[b.channel] = in[0]]
          BY <3>2, <4>2 DEF SimWrites, Sources
        <5>. QED BY <1>1, <1>2, <4>1, <5>1 DEF Hardware
      <4>3. CASE b.kind = "gpio_out"
        <5>. DEFINE pin == IF in[0] > 0 THEN 1 ELSE 0
        <5>1. SimWrites(b, in, h) = [h EXCEPT !.gpio[b.channel] = pin]
          BY <3>2, <4>3 DEF SimWrites, Sources
        <5>2. pin \in Int
          OBVIOUS
        <5>. HIDE DEF pin
        <5>. QED BY <1>1, <1>2, <5>1, <5>2 DEF Hardware
      <4>. QED BY <1>4, <4>2, <4>3 DEF Sinks
    <3>. QED BY <3>1, <3>2
  <2>. QED BY <2>1, <2>2, <2>3
<1>. QED BY <1>3, <1>4 DEF Peripherals

-------------------------------------------------------------------------------
(* The snapshot of the outputs.                                            *)

\* What the ports of block b at id show; and that b could show it.
View(b, outs, id) ==
    [p \in OutputPorts(b) |-> IF <<id, p>> \in DOMAIN outs THEN outs[<<id, p>>] ELSE Absent]
HonestAt(b, outs, id) ==
    \/ \A p \in OutputPorts(b) : <<id, p>> \notin DOMAIN outs
    \/ Credible(b, View(b, outs, id))

OutputsGood(bs, outs) ==
    /\ outs \in [DOMAIN outs -> Int]
    /\ DOMAIN outs \subseteq (DOMAIN bs) \X Nat
    /\ \A id \in DOMAIN bs, p \in Nat : <<id, p>> \in DOMAIN outs => p \in OutputPorts(bs[id])
    /\ \A id \in DOMAIN bs : HonestAt(bs[id], outs, id)

\* A snapshot is another one with the results of block id in it.
Published(new, outs, id, ports, results) ==
    /\ new \in [DOMAIN new -> Int] /\ DOMAIN new \subseteq Nat \X Nat
    /\ \A p \in ports : /\ <<id, p>> \in DOMAIN new <=> results[p] # Absent
                        /\ results[p] # Absent => new[<<id, p>>] = results[p]
    /\ \A x, p \in Nat :
          x # id \/ p \notin ports =>
             /\ <<x, p>> \in DOMAIN new <=> <<x, p>> \in DOMAIN outs
             /\ <<x, p>> \in DOMAIN outs => new[<<x, p>>] = outs[<<x, p>>]

\* Publishing a block's results changes what that block shows, and no other.
LEMMA PublishIs ==
    ASSUME NEW ports \in SUBSET Nat, NEW outs, NEW id, NEW results \in [ports -> Value],
           DOMAIN outs \subseteq Nat \X Nat, outs \in [DOMAIN outs -> Int], id \in Nat,
           Absent \notin Int, NEW published, published = Publish(outs, id, results)
    PROVE  Published(published, outs, id, ports, results)
<1>. DEFINE fresh == { <<id, p>> : p \in { q \in DOMAIN results : results[q] # Absent } }
            old == DOMAIN outs \ { <<id, p>> : p \in DOMAIN results }
            new == [key \in old \union fresh |->
                       IF key \in fresh THEN results[key[2]] ELSE outs[key]]
<1>1. published = new
  BY DEF Publish
<1>2. ASSUME NEW x \in Nat, NEW p \in Nat
      PROVE  <<x, p>> \in fresh <=> x = id /\ p \in ports /\ results[p] # Absent
  OBVIOUS
<1>3. ASSUME NEW x \in Nat, NEW p \in Nat
      PROVE  <<x, p>> \in old <=> <<x, p>> \in DOMAIN outs /\ (x # id \/ p \notin ports)
  OBVIOUS
<1>4. DOMAIN new = old \union fresh /\ old \subseteq Nat \X Nat /\ fresh \subseteq Nat \X Nat
  OBVIOUS
<1>5. \A key \in old \union fresh :
         new[key] = IF key \in fresh THEN results[key[2]] ELSE outs[key]
  OBVIOUS
<1>6. ASSUME NEW key \in old \union fresh PROVE new[key] \in Int
  <2>1. CASE key \in fresh
    <3>1. PICK p \in ports : key = <<id, p>> /\ results[p] # Absent
      BY <2>1
    <3>2. results[p] \in Int
      BY <3>1 DEF Value
    <3>. QED BY <1>5, <2>1, <3>1, <3>2
  <2>2. CASE key \notin fresh
    <3>1. key \in DOMAIN outs
      BY <2>2
    <3>. QED BY <1>5, <2>2, <3>1
  <2>. QED BY <2>1, <2>2
<1>7. new = [key \in old \union fresh |-> new[key]]
  BY <1>5
<1>. HIDE DEF new, old, fresh
<1>8. new \in [DOMAIN new -> Int] /\ DOMAIN new \subseteq Nat \X Nat
  BY <1>4, <1>6, <1>7
<1>9. ASSUME NEW p \in ports
      PROVE  /\ <<id, p>> \in DOMAIN new <=> results[p] # Absent
             /\ results[p] # Absent => new[<<id, p>>] = results[p]
  <2>1. p \in Nat
    OBVIOUS
  <2>2. <<id, p>> \in fresh <=> results[p] # Absent
    BY <1>2, <2>1
  <2>3. <<id, p>> \notin old
    BY <1>3, <2>1
  <2>. QED BY <1>4, <1>5, <2>2, <2>3
<1>10. ASSUME NEW x \in Nat, NEW p \in Nat, x # id \/ p \notin ports
       PROVE  /\ <<x, p>> \in DOMAIN new <=> <<x, p>> \in DOMAIN outs
              /\ <<x, p>> \in DOMAIN outs => new[<<x, p>>] = outs[<<x, p>>]
  <2>1. <<x, p>> \notin fresh
    BY <1>2, <1>10
  <2>2. <<x, p>> \in old <=> <<x, p>> \in DOMAIN outs
    BY <1>3, <1>10
  <2>. QED BY <1>4, <1>5, <2>1, <2>2
<1>. QED BY <1>1, <1>8, <1>9, <1>10 DEF Published

\* What a block finds on its inputs are values.
LEMMA GatherFits ==
    ASSUME NEW outs, outs \in [DOMAIN outs -> Int], NEW id
    PROVE  Gather(outs, id) \in [InputPorts(blocks[id]) -> Value]
<1>. DEFINE feeds(p) == { c \in channels : /\ c.to = id /\ c.toPort = p
                                           /\ <<c.from, c.fromPort>> \in DOMAIN outs }
            value(p) == IF feeds(p) = {} THEN Absent
                        ELSE LET c == CHOOSE c \in feeds(p) : TRUE
                             IN outs[<<c.from, c.fromPort>>]
<1>1. Gather(outs, id) = [p \in InputPorts(blocks[id]) |-> value(p)]
  BY DEF Gather
<1>2. ASSUME NEW p PROVE value(p) \in Value
  <2>1. CASE feeds(p) = {}
    BY <2>1 DEF Value
  <2>2. CASE feeds(p) # {}
    <3>. DEFINE c == CHOOSE c \in feeds(p) : TRUE
    <3>1. c \in feeds(p)
      BY <2>2
    <3>2. outs[<<c.from, c.fromPort>>] \in Int
      BY <3>1
    <3>3. value(p) = outs[<<c.from, c.fromPort>>]
      BY <2>2
    <3>. QED BY <3>2, <3>3 DEF Value
  <2>. QED BY <2>1, <2>2
<1>. HIDE DEF value
<1>. QED BY <1>1, <1>2

-------------------------------------------------------------------------------
(* One block's turn in a tick.                                             *)

BlocksGood ==
    /\ blocks \in [DOMAIN blocks -> BlockRecords(Channels)]
    /\ DOMAIN blocks \subseteq Nat
    /\ IsFiniteSet(DOMAIN blocks)

AccGood(acc) ==
    /\ OutputsGood(blocks, acc.outputs)
    /\ acc.stored \in [Delays -> Int]
    /\ acc.hw \in Hardware

Simulated(id) == simulation_mode /\ blocks[id].kind \in Peripherals

\* What block id computes when its turn comes.
Computed(acc, id) ==
    IF Simulated(id) THEN SimResults(blocks[id], acc.hw)
    ELSE Results(blocks[id], Gather(acc.outputs, id),
                 IF IsDelay(blocks[id]) THEN acc.stored[id] ELSE 0)

\* Two snapshots agree on what the block at x shows.
SameAt(x, outs, others) ==
    \A p \in Nat : /\ <<x, p>> \in DOMAIN outs <=> <<x, p>> \in DOMAIN others
                   /\ <<x, p>> \in DOMAIN others => outs[<<x, p>>] = others[<<x, p>>]

\* The turn of id leaves the rest of the graph alone.
Turned(before, after, id) ==
    /\ View(blocks[id], after.outputs, id) = Computed(before, id)
    /\ \A x \in DOMAIN blocks \ {id} : SameAt(x, after.outputs, before.outputs)
    /\ \A x \in Delays \ {id} : after.stored[x] = before.stored[x]
    /\ after.hw = IF Simulated(id)
                  THEN SimWrites(blocks[id], Gather(before.outputs, id), before.hw)
                  ELSE before.hw
    /\ after.hw.adc = before.hw.adc

\* A turn publishes credible results, and touches nothing of another block's.
LEMMA VisitTurns ==
    ASSUME NEW acc, NEW id \in DOMAIN blocks, DataflowAssumption, BlocksGood, AccGood(acc)
    PROVE  AccGood(Visit(acc, id)) /\ Turned(acc, Visit(acc, id), id)
<1>. DEFINE b == blocks[id]
            in == Gather(acc.outputs, id)
            st == IF IsDelay(b) THEN acc.stored[id] ELSE 0
            after == Visit(acc, id)
            ports == OutputPorts(b)
            results == Computed(acc, id)
<1>1. b \in BlockRecords(Channels) /\ id \in Nat /\ ports \in SUBSET Nat
  BY PortsAreNumbers DEF BlocksGood
<1>2. /\ acc.outputs \in [DOMAIN acc.outputs -> Int]
      /\ DOMAIN acc.outputs \subseteq Nat \X Nat
      /\ in \in [InputPorts(b) -> Value] /\ st \in Int /\ acc.hw \in Hardware
  <2>1. acc.outputs \in [DOMAIN acc.outputs -> Int] /\ DOMAIN acc.outputs \subseteq Nat \X Nat
    <3>1. acc.outputs \in [DOMAIN acc.outputs -> Int]
      BY DEF AccGood, OutputsGood
    <3>2. DOMAIN acc.outputs \subseteq (DOMAIN blocks) \X Nat
      BY DEF AccGood, OutputsGood
    <3>3. DOMAIN blocks \subseteq Nat
      BY DEF BlocksGood
    <3>4. (DOMAIN blocks) \X Nat \subseteq Nat \X Nat
      BY <3>3
    <3>. QED BY <3>1, <3>2, <3>4
  <2>2. st \in Int
    BY DEF AccGood, Delays
  <2>. QED BY <2>1, <2>2, GatherFits DEF AccGood
<1>3. /\ after.outputs = Publish(acc.outputs, id, results)
      /\ after.stored = IF IsDelay(b) /\ in[0] # Absent
                        THEN [acc.stored EXCEPT ![id] = in[0]] ELSE acc.stored
      /\ after.hw = IF Simulated(id) THEN SimWrites(b, in, acc.hw) ELSE acc.hw
  BY DEF Visit, Computed, Simulated
<1>. HIDE DEF after, in, st, b, results, ports
<1>4. results \in [ports -> Value] /\ Credible(b, results)
  <2>1. CASE Simulated(id)
    <3>1. b.kind \in Peripherals /\ results = SimResults(b, acc.hw)
      BY <2>1 DEF Simulated, Computed, results, b
    <3>. QED BY <1>1, <1>2, <3>1, SimFits DEF ports
  <2>2. CASE ~Simulated(id)
    <3>1. results = Results(b, in, st)
      BY <2>2 DEF Computed, results, b, in, st
    <3>. QED BY <1>1, <1>2, <3>1, ResultsFit DEF ports
  <2>. QED BY <2>1, <2>2
<1>5. /\ after.outputs \in [DOMAIN after.outputs -> Int]
      /\ DOMAIN after.outputs \subseteq Nat \X Nat
      /\ \A p \in ports :
            /\ <<id, p>> \in DOMAIN after.outputs <=> results[p] # Absent
            /\ results[p] # Absent => after.outputs[<<id, p>>] = results[p]
      /\ \A x, p \in Nat :
            x # id \/ p \notin ports =>
               /\ <<x, p>> \in DOMAIN after.outputs <=> <<x, p>> \in DOMAIN acc.outputs
               /\ <<x, p>> \in DOMAIN acc.outputs =>
                     after.outputs[<<x, p>>] = acc.outputs[<<x, p>>]
  <2>1. Absent \notin Int
    BY DEF DataflowAssumption
  <2>. DEFINE old == acc.outputs
              new == after.outputs
  <2>2. /\ old \in [DOMAIN old -> Int] /\ DOMAIN old \subseteq Nat \X Nat
        /\ new = Publish(old, id, results)
    BY <1>2, <1>3
  <2>. HIDE DEF old, new
  <2>3. Published(new, old, id, ports, results)
    BY <1>1, <1>4, <2>1, <2>2, PublishIs
  <2>. QED BY <2>3 DEF old, new, Published
<1>6. View(b, after.outputs, id) = results
  <2>1. \A p \in ports :
           (IF <<id, p>> \in DOMAIN after.outputs THEN after.outputs[<<id, p>>] ELSE Absent)
              = results[p]
    BY <1>5
  <2>2. results = [p \in ports |-> results[p]]
    BY <1>4
  <2>. QED BY <2>1, <2>2 DEF View, ports
<1>7. \A x \in DOMAIN blocks \ {id} : SameAt(x, after.outputs, acc.outputs)
  BY <1>5 DEF SameAt, BlocksGood
<1>8. OutputsGood(blocks, after.outputs)
  <2>1. ASSUME NEW x \in DOMAIN blocks, NEW p \in Nat, <<x, p>> \in DOMAIN after.outputs
        PROVE  p \in OutputPorts(blocks[x])
    <3>1. CASE x = id /\ p \in ports
      BY <3>1 DEF ports, b
    <3>2. CASE ~(x = id /\ p \in ports)
      <4>1. <<x, p>> \in DOMAIN acc.outputs
        BY <1>5, <2>1, <3>2 DEF BlocksGood
      <4>. QED BY <4>1 DEF AccGood, OutputsGood
    <3>. QED BY <3>1, <3>2
  <2>2. DOMAIN after.outputs \subseteq (DOMAIN blocks) \X Nat
    <3>. SUFFICES ASSUME NEW key \in DOMAIN after.outputs
                  PROVE  key \in (DOMAIN blocks) \X Nat
      OBVIOUS
    <3>1. key \in Nat \X Nat
      BY <1>5
    <3>2. PICK x \in Nat, p \in Nat : key = <<x, p>>
      BY <3>1
    <3>3. CASE x = id
      BY <3>2, <3>3
    <3>4. CASE x # id
      <4>1. key \in DOMAIN acc.outputs
        BY <1>5, <3>2, <3>4
      <4>. QED BY <4>1 DEF AccGood, OutputsGood
    <3>. QED BY <3>3, <3>4
  <2>3. ASSUME NEW x \in DOMAIN blocks PROVE HonestAt(blocks[x], after.outputs, x)
    <3>1. CASE x = id
      BY <1>4, <1>6, <3>1 DEF HonestAt, b
    <3>2. CASE x # id
      <4>1. OutputPorts(blocks[x]) \in SUBSET Nat
        BY PortsAreNumbers DEF BlocksGood
      <4>2. SameAt(x, after.outputs, acc.outputs)
        BY <1>7, <3>2
      <4>3. View(blocks[x], after.outputs, x) = View(blocks[x], acc.outputs, x)
        BY <4>1, <4>2 DEF View, SameAt
      <4>4. HonestAt(blocks[x], acc.outputs, x)
        BY DEF AccGood, OutputsGood
      <4>. QED BY <4>1, <4>2, <4>3, <4>4 DEF HonestAt, SameAt
    <3>. QED BY <3>1, <3>2
  <2>. QED BY <1>5, <2>1, <2>2, <2>3 DEF OutputsGood
<1>9. after.stored \in [Delays -> Int] /\ \A x \in Delays \ {id} : after.stored[x] = acc.stored[x]
  <2>1. acc.stored \in [Delays -> Int]
    BY DEF AccGood
  <2>2. CASE IsDelay(b) /\ in[0] # Absent
    <3>1. id \in Delays
      BY <2>2 DEF Delays, b
    <3>2. in[0] \in Int
      BY <1>2, <2>2 DEF InputPorts, IsDelay, Value, Sources
    <3>. QED BY <1>3, <2>1, <2>2, <3>1, <3>2
  <2>3. CASE ~(IsDelay(b) /\ in[0] # Absent)
    BY <1>3, <2>1, <2>3
  <2>. QED BY <2>2, <2>3
<1>10. after.hw \in Hardware /\ after.hw.adc = acc.hw.adc
  <2>1. CASE Simulated(id)
    <3>1. b.kind \in Peripherals
      BY <2>1 DEF Simulated, b
    <3>. QED BY <1>1, <1>2, <1>3, <2>1, <3>1, SimFits
  <2>2. CASE ~Simulated(id)
    BY <1>2, <1>3, <2>2
  <2>. QED BY <2>1, <2>2
<1>11. after.hw = IF Simulated(id)
                  THEN SimWrites(blocks[id], Gather(acc.outputs, id), acc.hw) ELSE acc.hw
  BY <1>3 DEF b, in
<1>. QED BY <1>6, <1>7, <1>8, <1>9, <1>10, <1>11 DEF AccGood, Turned, after, b, results

\* A tick is a sequence of turns.
LEMMA TickTurns ==
    ASSUME DataflowAssumption, BlocksGood, NEW base, AccGood(base),
           NEW order \in Seq(DOMAIN blocks)
    PROVE  \E turn : /\ turn[0] = base
                     /\ turn[Len(order)] = FoldLeft(Visit, base, order)
                     /\ \A k \in 0..Len(order) : AccGood(turn[k])
                     /\ \A k \in 1..Len(order) : Turned(turn[k - 1], turn[k], order[k])
<1>. DEFINE n == Len(order)
<1>1. n \in Nat /\ DOMAIN order = 1..n /\ \A k \in 1..n : order[k] \in DOMAIN blocks
  OBVIOUS
<1>2. PICK turn : /\ turn[0] = base
                  /\ \A k \in 1..n : turn[k] = Visit(turn[k - 1], order[k])
                  /\ turn[n] = FoldLeft(Visit, base, order)
  BY <1>1, VisitFold
<1>. HIDE DEF n
<1>. DEFINE T == { k \in Nat : k <= n => AccGood(turn[k]) }
<1>3. 0 \in T
  BY <1>2
<1>4. ASSUME NEW k \in T PROVE k + 1 \in T
  <2>1. CASE k + 1 <= n
    <3>1. k \in Nat /\ AccGood(turn[k]) /\ k + 1 \in 1..n /\ (k + 1) - 1 = k
      BY <1>1, <2>1
    <3>2. turn[k + 1] = Visit(turn[k], order[k + 1]) /\ order[k + 1] \in DOMAIN blocks
      BY <1>1, <1>2, <3>1
    <3>3. AccGood(turn[k + 1])
      BY <3>1, <3>2, VisitTurns
    <3>. QED BY <3>1, <3>3
  <2>. QED BY <2>1
<1>5. T = Nat
  <2>. HIDE DEF T
  <2>1. T \in SUBSET Nat
    BY DEF T
  <2>. QED BY <1>3, <1>4, <2>1, AllNumbers
<1>6. \A k \in 0..n : AccGood(turn[k])
  BY <1>1, <1>5
<1>. HIDE DEF T
<1>7. ASSUME NEW k \in 1..n PROVE Turned(turn[k - 1], turn[k], order[k])
  <2>1. k - 1 \in 0..n
    BY <1>1
  <2>2. AccGood(turn[k - 1]) /\ turn[k] = Visit(turn[k - 1], order[k])
    BY <1>2, <1>6, <2>1
  <2>. QED BY <1>1, <2>2, VisitTurns
<1>. QED BY <1>2, <1>6, <1>7 DEF n

\* With a cycle or without, a tick runs blocks of the graph.
LEMMA TickOrderIs ==
    ASSUME BlocksGood
    PROVE  TickOrder \in Seq(DOMAIN blocks)
<1>1. DOMAIN blocks \in SUBSET Nat /\ IsFiniteSet(DOMAIN blocks)
  BY DEF BlocksGood
<1>2. CASE Sorted(DOMAIN blocks, channels, Delays).ok
  BY <1>1, <1>2, KahnSorts DEF TickOrder
<1>3. CASE ~Sorted(DOMAIN blocks, channels, Delays).ok
  BY <1>1, <1>3, SortedIds DEF TickOrder
<1>. QED BY <1>2, <1>3

-------------------------------------------------------------------------------
(* The invariant.                                                          *)

Channel == [from : Nat, fromPort : Nat, to : Nat, toPort : Nat]

TypeInv ==
    /\ next_block_id \in Nat \ {0}
    /\ blocks \in [DOMAIN blocks -> Library]
    /\ DOMAIN blocks \subseteq 1..(next_block_id - 1)
    /\ channels \subseteq Channel /\ IsFiniteSet(channels)
    /\ outputs \in [DOMAIN outputs -> Int] /\ DOMAIN outputs \subseteq Nat \X Nat
    /\ stored \in [Delays -> Int]
    /\ simulation_mode \in BOOLEAN /\ attached \in BOOLEAN /\ hw \in Hardware
    /\ tick_count \in Nat /\ edits \in Nat

Wired(bs, chans) ==
    /\ \A c \in chans : /\ {c.from, c.to} \subseteq DOMAIN bs
                        /\ c.fromPort \in OutputPorts(bs[c.from])
                        /\ c.toPort \in InputPorts(bs[c.to])
    /\ \A c, d \in chans : c.to = d.to /\ c.toPort = d.toPort => c = d

DInv == TypeInv /\ Wired(blocks, channels) /\ OutputsGood(blocks, outputs)

LEMMA InvGivesBlocks ==
    ASSUME DataflowAssumption, TypeInv
    PROVE  BlocksGood
<1>1. IsFiniteSet(1..(next_block_id - 1))
  <2>1. 1 \in Int /\ next_block_id - 1 \in Int
    BY DEF TypeInv
  <2>. QED BY <2>1, FS_Interval
<1>2. IsFiniteSet(DOMAIN blocks)
  BY <1>1, FS_Subset DEF TypeInv
<1>3. DOMAIN blocks \subseteq Nat
  BY DEF TypeInv
<1>4. blocks \in [DOMAIN blocks -> BlockRecords(Channels)]
  BY DEF TypeInv, DataflowAssumption
<1>. QED BY <1>2, <1>3, <1>4 DEF BlocksGood

\* Init and each action keep the invariant.
LEMMA DInit ==
    ASSUME DataflowAssumption, Init
    PROVE  DInv
<1>1. DOMAIN blocks = {} /\ DOMAIN outputs = {} /\ Delays = {} /\ stored = << >>
  BY DEF Init, Delays
<1>2. hw \in Hardware
  BY DEF Init, Hardware, NoPeripherals
<1>3. TypeInv
  <2>1. IsFiniteSet(channels)
    BY FS_EmptySet DEF Init
  <2>2. blocks \in [DOMAIN blocks -> Library] /\ DOMAIN blocks \subseteq 1..(next_block_id - 1)
    BY <1>1 DEF Init
  <2>3. outputs \in [DOMAIN outputs -> Int] /\ DOMAIN outputs \subseteq Nat \X Nat
    BY <1>1 DEF Init
  <2>4. stored \in [Delays -> Int]
    BY <1>1
  <2>5. next_block_id \in Nat \ {0} /\ channels \subseteq Channel
    BY DEF Init
  <2>6. simulation_mode \in BOOLEAN /\ attached \in BOOLEAN /\ tick_count \in Nat /\ edits \in Nat
    BY DEF Init
  <2>. QED BY <1>2, <2>1, <2>2, <2>3, <2>4, <2>5, <2>6 DEF TypeInv
<1>4. Wired(blocks, channels)
  BY DEF Init, Wired
<1>5. OutputsGood(blocks, outputs)
  BY <1>1, <1>3 DEF OutputsGood, TypeInv
<1>. QED BY <1>3, <1>4, <1>5 DEF DInv

\* Where the block at id comes or goes, with what it showed, the rest stays honest.
LEMMA GoodAfterEdit ==
    ASSUME NEW bs, NEW cs, NEW outs, NEW news, NEW id, OutputsGood(bs, outs),
           \A x \in (DOMAIN cs) \ {id} : x \in DOMAIN bs /\ cs[x] = bs[x],
           (DOMAIN bs) \ {id} \subseteq DOMAIN cs,
           news = [key \in { k \in DOMAIN outs : k[1] # id } |-> outs[key]]
    PROVE  OutputsGood(cs, news)
<1>1. \A x, p : <<x, p>> \in DOMAIN news <=> <<x, p>> \in DOMAIN outs /\ x # id
  OBVIOUS
<1>2. \A x, p : <<x, p>> \in DOMAIN news => news[<<x, p>>] = outs[<<x, p>>]
  OBVIOUS
<1>3. news \in [DOMAIN news -> Int]
  BY DEF OutputsGood
<1>4. DOMAIN news \subseteq (DOMAIN cs) \X Nat
  <2>. SUFFICES ASSUME NEW key \in DOMAIN news PROVE key \in (DOMAIN cs) \X Nat
    OBVIOUS
  <2>1. key \in (DOMAIN bs) \X Nat /\ key[1] # id
    BY DEF OutputsGood
  <2>2. PICK x \in DOMAIN bs, p \in Nat : key = <<x, p>>
    BY <2>1
  <2>. QED BY <2>1, <2>2
<1>5. \A x \in DOMAIN cs, p \in Nat : <<x, p>> \in DOMAIN news => p \in OutputPorts(cs[x])
  BY <1>1 DEF OutputsGood
<1>6. ASSUME NEW x \in DOMAIN cs PROVE HonestAt(cs[x], news, x)
  <2>1. CASE x = id
    BY <1>1, <2>1 DEF HonestAt
  <2>2. CASE x # id
    <3>1. x \in DOMAIN bs /\ cs[x] = bs[x]
      BY <2>2
    <3>2. HonestAt(bs[x], outs, x)
      BY <3>1 DEF OutputsGood
    <3>3. View(bs[x], news, x) = View(bs[x], outs, x)
      BY <1>1, <1>2, <2>2 DEF View
    <3>. QED BY <1>1, <2>2, <3>1, <3>2, <3>3 DEF HonestAt
  <2>. QED BY <2>1, <2>2
<1>. QED BY <1>3, <1>4, <1>5, <1>6 DEF OutputsGood

\* The block put at id, and the value a register starts with.
LEMMA PutIs ==
    ASSUME DataflowAssumption, TypeInv, NEW id \in Nat, NEW b \in Library, Put(id, b)
    PROVE  /\ DOMAIN blocks' = (DOMAIN blocks) \union {id}
           /\ blocks' \in [DOMAIN blocks' -> Library]
           /\ blocks'[id] = b /\ \A x \in (DOMAIN blocks) \ {id} : blocks'[x] = blocks[x]
           /\ stored' \in [Delays' -> Int]
<1>. DEFINE D == (DOMAIN blocks) \union {id}
<1>1. blocks' = [x \in D |-> IF x = id THEN b ELSE blocks[x]]
  BY DEF Put
<1>2. DOMAIN blocks' = D /\ blocks'[id] = b
  BY <1>1
<1>3. \A x \in (DOMAIN blocks) \ {id} : blocks'[x] = blocks[x]
  BY <1>1
<1>4. blocks' \in [D -> Library]
  BY <1>1 DEF TypeInv
<1>5. Delays' = { x \in D : IsDelay(blocks'[x]) }
  BY <1>2 DEF Delays
<1>6. Delays' \ {id} = Delays \ {id} /\ (id \in Delays' <=> IsDelay(b))
  BY <1>2, <1>3, <1>5 DEF Delays
<1>7. stored \in [Delays -> Int]
  BY DEF TypeInv
<1>8. stored' \in [Delays' -> Int]
  <2>1. CASE b.kind = "register"
    <3>1. b.initial_value \in Int
      <4>1. b \in BlockRecords(Channels)
        BY DEF DataflowAssumption
      <4>. QED BY <2>1, <4>1, BlockShapes DEF Peripherals, Sources, Sinks
    <3>2. stored' = [x \in Delays \union {id} |-> IF x = id THEN b.initial_value ELSE stored[x]]
      BY <1>7, <2>1 DEF Put
    <3>3. Delays' = Delays \union {id}
      BY <1>6, <2>1 DEF IsDelay
    <3>. QED BY <1>7, <3>1, <3>2, <3>3
  <2>2. CASE b.kind # "register"
    <3>1. stored' = [x \in Delays \ {id} |-> stored[x]]
      BY <1>7, <2>2 DEF Put, Drop
    <3>2. Delays' = Delays \ {id}
      BY <1>6, <2>2 DEF IsDelay
    <3>. QED BY <1>7, <3>1, <3>2
  <2>. QED BY <2>1, <2>2
<1>. QED BY <1>2, <1>3, <1>4, <1>8

LEMMA EditCounts ==
    ASSUME TypeInv, Edit
    PROVE  edits' \in Nat
BY DEF TypeInv, Edit

LEMMA AddBlockKeeps ==
    ASSUME DataflowAssumption, DInv, NEW b \in Library, AddBlock(b)
    PROVE  DInv'
<1>. DEFINE id == next_block_id
<1>1. id \in Nat \ {0} /\ id \notin DOMAIN blocks /\ TypeInv
  BY DEF DInv, TypeInv
<1>2. /\ DOMAIN blocks' = (DOMAIN blocks) \union {id} /\ blocks' \in [DOMAIN blocks' -> Library]
      /\ \A x \in DOMAIN blocks : blocks'[x] = blocks[x]
      /\ stored' \in [Delays' -> Int]
  BY <1>1, PutIs DEF AddBlock
<1>3. next_block_id' = id + 1 /\ Edit /\ UNCHANGED <<channels, outputs, sim, tick_count>>
  BY DEF AddBlock
<1>. HIDE DEF id
<1>4. TypeInv'
  <2>1. DOMAIN blocks' \subseteq 1..(next_block_id' - 1)
    BY <1>1, <1>2, <1>3 DEF TypeInv, id
  <2>2. edits' \in Nat /\ next_block_id' \in Nat \ {0}
    BY <1>1, <1>3, EditCounts
  <2>. QED BY <1>1, <1>2, <1>3, <2>1, <2>2 DEF TypeInv, sim
<1>5. Wired(blocks', channels')
  BY <1>2, <1>3 DEF DInv, Wired
<1>6. OutputsGood(blocks', outputs')
  <2>1. OutputsGood(blocks, outputs) /\ DOMAIN outputs \subseteq (DOMAIN blocks) \X Nat
    BY DEF DInv, OutputsGood
  <2>2. \A key \in DOMAIN outputs : key[1] # id
    BY <1>1, <2>1
  <2>3. outputs = [key \in { k \in DOMAIN outputs : k[1] # id } |-> outputs[key]]
    <3>1. outputs = [key \in DOMAIN outputs |-> outputs[key]]
      BY <1>1 DEF TypeInv
    <3>2. { k \in DOMAIN outputs : k[1] # id } = DOMAIN outputs
      BY <2>2
    <3>. QED BY <3>1, <3>2
  <2>4. outputs' = [key \in { k \in DOMAIN outputs : k[1] # id } |-> outputs[key]]
    BY <1>3, <2>3
  <2>5. /\ \A x \in (DOMAIN blocks') \ {id} : x \in DOMAIN blocks /\ blocks'[x] = blocks[x]
        /\ (DOMAIN blocks) \ {id} \subseteq DOMAIN blocks'
    BY <1>2
  <2>. QED BY <2>1, <2>4, <2>5, GoodAfterEdit
<1>. QED BY <1>4, <1>5, <1>6 DEF DInv

LEMMA DropPorts ==
    ASSUME NEW id
    PROVE  Drop(outputs, PortsOf(id)) =
              [key \in { k \in DOMAIN outputs : k[1] # id } |-> outputs[key]]
<1>1. DOMAIN outputs \ PortsOf(id) = { k \in DOMAIN outputs : k[1] # id }
  BY DEF PortsOf
<1>. QED BY <1>1 DEF Drop

LEMMA OutputsTyped ==
    ASSUME NEW bs, NEW outs, OutputsGood(bs, outs), DOMAIN bs \subseteq Nat
    PROVE  outs \in [DOMAIN outs -> Int] /\ DOMAIN outs \subseteq Nat \X Nat
<1>1. (DOMAIN bs) \X Nat \subseteq Nat \X Nat
  OBVIOUS
<1>. QED BY <1>1 DEF OutputsGood

LEMMA ReplaceBlockKeeps ==
    ASSUME DataflowAssumption, DInv, NEW id, NEW b \in Library, ReplaceBlock(id, b)
    PROVE  DInv'
<1>1. id \in DOMAIN blocks /\ id \in Nat /\ TypeInv /\ DOMAIN blocks \subseteq Nat
  BY DEF DInv, TypeInv, ReplaceBlock
<1>2. /\ DOMAIN blocks' = (DOMAIN blocks) \union {id} /\ blocks' \in [DOMAIN blocks' -> Library]
      /\ blocks'[id] = b /\ \A x \in (DOMAIN blocks) \ {id} : blocks'[x] = blocks[x]
      /\ stored' \in [Delays' -> Int]
  BY <1>1, PutIs DEF ReplaceBlock
<1>3. /\ outputs' = Drop(outputs, PortsOf(id)) /\ Edit
      /\ channels' = { c \in channels : ~Dangles(c, id, b) }
      /\ UNCHANGED <<next_block_id, sim, tick_count>>
  BY DEF ReplaceBlock
<1>4. DOMAIN blocks' = DOMAIN blocks
  BY <1>1, <1>2
<1>5. OutputsGood(blocks', outputs')
  <2>1. OutputsGood(blocks, outputs)
    BY DEF DInv
  <2>2. outputs' = [key \in { k \in DOMAIN outputs : k[1] # id } |-> outputs[key]]
    BY <1>3, DropPorts
  <2>. QED BY <1>2, <1>4, <2>1, <2>2, GoodAfterEdit
<1>6. TypeInv'
  <2>1. edits' \in Nat
    BY <1>1, <1>3, EditCounts
  <2>2. channels' \subseteq Channel /\ IsFiniteSet(channels')
    BY <1>1, <1>3, FS_Subset DEF TypeInv
  <2>3. outputs' \in [DOMAIN outputs' -> Int] /\ DOMAIN outputs' \subseteq Nat \X Nat
    BY <1>1, <1>4, <1>5, OutputsTyped
  <2>. QED BY <1>1, <1>2, <1>3, <1>4, <2>1, <2>2, <2>3 DEF TypeInv, sim
<1>7. Wired(blocks', channels')
  <2>1. Wired(blocks, channels)
    BY DEF DInv
  <2>2. ASSUME NEW c \in channels'
        PROVE  /\ {c.from, c.to} \subseteq DOMAIN blocks'
               /\ c.fromPort \in OutputPorts(blocks'[c.from])
               /\ c.toPort \in InputPorts(blocks'[c.to])
    <3>1. c \in channels /\ ~Dangles(c, id, b)
      BY <1>3
    <3>2. /\ {c.from, c.to} \subseteq DOMAIN blocks
          /\ c.fromPort \in OutputPorts(blocks[c.from])
          /\ c.toPort \in InputPorts(blocks[c.to])
      BY <2>1, <3>1 DEF Wired
    <3>3. c.from = id => c.fromPort \in OutputPorts(b)
      BY <3>1 DEF Dangles
    <3>4. c.to = id => c.toPort \in InputPorts(b)
      BY <3>1 DEF Dangles
    <3>. QED BY <1>2, <1>4, <3>2, <3>3, <3>4
  <2>3. \A c, d \in channels' : c.to = d.to /\ c.toPort = d.toPort => c = d
    BY <1>3, <2>1 DEF Wired
  <2>. QED BY <2>2, <2>3 DEF Wired
<1>. QED BY <1>5, <1>6, <1>7 DEF DInv

LEMMA RemoveBlockKeeps ==
    ASSUME DataflowAssumption, DInv, NEW id, RemoveBlock(id)
    PROVE  DInv'
<1>1. id \in DOMAIN blocks /\ TypeInv /\ DOMAIN blocks \subseteq Nat
  BY DEF DInv, TypeInv, RemoveBlock
<1>2. /\ blocks' = [x \in (DOMAIN blocks) \ {id} |-> blocks[x]]
      /\ stored' = Drop(stored, {id})
      /\ channels' = { c \in channels : c.from # id /\ c.to # id }
      /\ outputs' = Drop(outputs, PortsOf(id)) /\ Edit
      /\ UNCHANGED <<next_block_id, sim, tick_count>>
  BY DEF RemoveBlock, Drop
<1>3. /\ DOMAIN blocks' = (DOMAIN blocks) \ {id}
      /\ \A x \in DOMAIN blocks' : blocks'[x] = blocks[x]
  BY <1>2
<1>4. OutputsGood(blocks', outputs')
  <2>1. OutputsGood(blocks, outputs)
    BY DEF DInv
  <2>2. outputs' = [key \in { k \in DOMAIN outputs : k[1] # id } |-> outputs[key]]
    BY <1>2, DropPorts
  <2>. QED BY <1>3, <2>1, <2>2, GoodAfterEdit
<1>5. TypeInv'
  <2>1. edits' \in Nat
    BY <1>1, <1>2, EditCounts
  <2>2. channels' \subseteq Channel /\ IsFiniteSet(channels')
    BY <1>1, <1>2, FS_Subset DEF TypeInv
  <2>3. outputs' \in [DOMAIN outputs' -> Int] /\ DOMAIN outputs' \subseteq Nat \X Nat
    BY <1>1, <1>3, <1>4, OutputsTyped
  <2>4. stored' \in [Delays' -> Int]
    <3>1. Delays' = Delays \ {id}
      BY <1>3 DEF Delays
    <3>2. stored \in [Delays -> Int]
      BY <1>1 DEF TypeInv
    <3>3. stored' = [x \in Delays \ {id} |-> stored[x]]
      BY <1>2, <3>2 DEF Drop
    <3>. QED BY <3>1, <3>2, <3>3
  <2>5. blocks' \in [DOMAIN blocks' -> Library] /\ DOMAIN blocks' \subseteq 1..(next_block_id' - 1)
    BY <1>1, <1>2, <1>3 DEF TypeInv
  <2>. QED BY <1>1, <1>2, <2>1, <2>2, <2>3, <2>4, <2>5 DEF TypeInv, sim
<1>6. Wired(blocks', channels')
  BY <1>2, <1>3 DEF DInv, Wired
<1>. QED BY <1>4, <1>5, <1>6 DEF DInv

LEMMA ConnectKeeps ==
    ASSUME DataflowAssumption, DInv, NEW from, NEW p, NEW to, NEW q, Connect(from, p, to, q)
    PROVE  DInv'
<1>. DEFINE c == [from |-> from, fromPort |-> p, to |-> to, toPort |-> q]
<1>1. /\ {from, to} \subseteq DOMAIN blocks
      /\ p \in OutputPorts(blocks[from]) /\ q \in InputPorts(blocks[to])
      /\ ~Driven(to, q) /\ channels' = channels \union {c} /\ Edit
      /\ UNCHANGED <<blocks, next_block_id, outputs, stored, sim, tick_count>>
  BY DEF Connect
<1>2. TypeInv /\ BlocksGood
  BY InvGivesBlocks DEF DInv
<1>3. c \in Channel
  <2>1. from \in Nat /\ to \in Nat /\ p \in Nat /\ q \in Nat
    BY <1>1, <1>2, PortsAreNumbers DEF BlocksGood
  <2>. QED BY <2>1 DEF Channel
<1>4. TypeInv'
  <2>1. edits' \in Nat
    BY <1>1, <1>2, EditCounts
  <2>2. channels' \subseteq Channel /\ IsFiniteSet(channels')
    BY <1>1, <1>2, <1>3, FS_AddElement DEF TypeInv
  <2>3. Delays' = Delays
    BY <1>1 DEF Delays
  <2>. QED BY <1>1, <1>2, <2>1, <2>2, <2>3 DEF TypeInv, sim
<1>5. Wired(blocks', channels')
  <2>1. Wired(blocks, channels)
    BY DEF DInv
  <2>2. \A d \in channels : ~(d.to = to /\ d.toPort = q)
    BY <1>1 DEF Driven
  <2>3. c.to = to /\ c.toPort = q /\ c.from = from /\ c.fromPort = p
    OBVIOUS
  <2>. HIDE DEF c
  <2>. QED BY <1>1, <2>1, <2>2, <2>3 DEF Wired
<1>6. OutputsGood(blocks', outputs')
  BY <1>1 DEF DInv
<1>. QED BY <1>4, <1>5, <1>6 DEF DInv

LEMMA DisconnectKeeps ==
    ASSUME DataflowAssumption, DInv, NEW c, Disconnect(c)
    PROVE  DInv'
<1>1. /\ channels' = channels \ {c} /\ Edit
      /\ UNCHANGED <<blocks, next_block_id, outputs, stored, sim, tick_count>>
  BY DEF Disconnect
<1>2. TypeInv
  BY DEF DInv
<1>3. TypeInv'
  <2>1. edits' \in Nat
    BY <1>1, <1>2, EditCounts
  <2>2. channels' \subseteq Channel /\ IsFiniteSet(channels')
    BY <1>1, <1>2, FS_Subset DEF TypeInv
  <2>3. Delays' = Delays
    BY <1>1 DEF Delays
  <2>. QED BY <1>1, <1>2, <2>1, <2>2, <2>3 DEF TypeInv, sim
<1>4. Wired(blocks', channels')
  BY <1>1 DEF DInv, Wired
<1>5. OutputsGood(blocks', outputs')
  BY <1>1 DEF DInv
<1>. QED BY <1>3, <1>4, <1>5 DEF DInv

LEMMA TickKeeps ==
    ASSUME DataflowAssumption, DInv, Tick
    PROVE  DInv'
<1>. DEFINE base == [outputs |-> outputs, stored |-> stored, hw |-> hw]
            order == TickOrder
            after == FoldLeft(Visit, base, order)
<1>1. TypeInv /\ BlocksGood
  BY InvGivesBlocks DEF DInv
<1>2. AccGood(base)
  BY <1>1 DEF DInv, AccGood, TypeInv
<1>3. order \in Seq(DOMAIN blocks)
  BY <1>1, TickOrderIs
<1>. HIDE DEF base, order
<1>4. AccGood(after)
  <2>1. PICK turn : /\ turn[Len(order)] = FoldLeft(Visit, base, order)
                    /\ \A k \in 0..Len(order) : AccGood(turn[k])
    BY <1>1, <1>2, <1>3, TickTurns
  <2>2. Len(order) \in 0..Len(order)
    BY <1>3
  <2>. QED BY <2>1, <2>2
<1>5. /\ outputs' = after.outputs /\ stored' = after.stored /\ hw' = after.hw
      /\ tick_count' = tick_count + 1
      /\ UNCHANGED <<graph, simulation_mode, attached, edits>>
  BY DEF Tick, base, order
<1>. HIDE DEF after
<1>6. Delays' = Delays /\ blocks' = blocks /\ channels' = channels
  BY <1>5 DEF graph, Delays
<1>7. TypeInv'
  <2>1. outputs' \in [DOMAIN outputs' -> Int] /\ DOMAIN outputs' \subseteq Nat \X Nat
    BY <1>1, <1>4, <1>5, OutputsTyped DEF AccGood, BlocksGood
  <2>2. stored' \in [Delays' -> Int] /\ hw' \in Hardware
    BY <1>4, <1>5, <1>6 DEF AccGood
  <2>. QED BY <1>1, <1>5, <1>6, <2>1, <2>2 DEF TypeInv, graph
<1>. QED BY <1>4, <1>5, <1>6, <1>7 DEF DInv, AccGood

LEMMA DNext ==
    ASSUME DataflowAssumption, DInv, [Next]_vars
    PROVE  DInv'
<1>1. ASSUME NEW b \in Library, AddBlock(b) PROVE DInv'
  BY <1>1, AddBlockKeeps
<1>2. ASSUME NEW id \in DOMAIN blocks, NEW b \in Library, ReplaceBlock(id, b) PROVE DInv'
  BY <1>2, ReplaceBlockKeeps
<1>3. ASSUME NEW id \in DOMAIN blocks, RemoveBlock(id) PROVE DInv'
  BY <1>3, RemoveBlockKeeps
<1>4. ASSUME NEW from \in DOMAIN blocks, NEW to \in DOMAIN blocks,
             NEW p \in OutputPorts(blocks[from]), NEW q \in InputPorts(blocks[to]),
             Connect(from, p, to, q)
      PROVE  DInv'
  BY <1>4, ConnectKeeps
<1>5. ASSUME NEW c \in channels, Disconnect(c) PROVE DInv'
  BY <1>5, DisconnectKeeps
<1>6. ASSUME UNCHANGED <<graph, outputs, stored, tick_count, edits>>,
             simulation_mode' \in BOOLEAN, attached' \in BOOLEAN, hw' \in Hardware
      PROVE  DInv'
  BY <1>6 DEF DInv, TypeInv, Delays, graph
<1>7. ASSUME NEW enabled \in BOOLEAN, SetSimulationMode(enabled) PROVE DInv'
  BY <1>6, <1>7 DEF SetSimulationMode, DInv, TypeInv
<1>8. ASSUME NEW channel \in Channels, NEW v \in Voltages, SetSimAdc(channel, v) PROVE DInv'
  <2>1. v \in Int /\ hw \in Hardware
    BY DEF DataflowAssumption, DInv, TypeInv
  <2>2. [hw EXCEPT !.adc[channel] = v] \in Hardware
    BY <2>1 DEF Hardware
  <2>3. hw' \in Hardware
    BY <1>8, <2>1, <2>2 DEF SetSimAdc
  <2>. QED BY <1>6, <1>8, <2>3 DEF SetSimAdc, DInv, TypeInv
<1>9. CASE Tick
  BY <1>9, TickKeeps
<1>10. CASE UNCHANGED vars
  BY <1>6, <1>10 DEF vars, sim, DInv, TypeInv
<1>. QED BY <1>1, <1>2, <1>3, <1>4, <1>5, <1>7, <1>8, <1>9, <1>10 DEF Next

-------------------------------------------------------------------------------
(* The theorems about edits and ticks.                                     *)

(* The invariant holds in every reachable state.                           *)
LEMMA InvAlways == Spec => []DInv
<1>1. DataflowAssumption
  BY DataflowAssumption
<1>2. Init => DInv
  BY <1>1, DInit
<1>3. DInv /\ [Next]_vars => DInv'
  BY <1>1, DNext
<1>. QED BY <1>2, <1>3, PTL DEF Spec

(* The types of the graph's state: what a tick computes and a user changes *)
(* stays within them, whatever the sizes of the graph and the library.     *)
THEOREM DataflowTypeCorrect == Spec => []TypeInv
<1>1. DInv => TypeInv
  BY DEF DInv
<1>. QED BY <1>1, InvAlways, PTL

(* In every graph, however it was edited: a channel joins ports that exist *)
(* and an input has one driver (graph.rs:166, 181, 192).                   *)
THEOREM DataflowWiringSound == Spec => []WiringSound
<1>1. DInv => WiringSound
  BY DEF DInv, TypeInv, Wired, WiringSound
<1>. QED BY <1>1, InvAlways, PTL

(* In every graph: no value outlives its port, and none is shown that the  *)
(* block now at its id could not have computed (graph.rs:171, 186).        *)
THEOREM DataflowOutputsHonest == Spec => []OutputsHonest
<1>1. ASSUME DInv PROVE OutputsHonest
  <2>1. OutputsGood(blocks, outputs) /\ BlocksGood
    BY <1>1, InvGivesBlocks, DataflowAssumption DEF DInv
  <2>2. ASSUME NEW key \in DOMAIN outputs
        PROVE  key[1] \in DOMAIN blocks /\ key[2] \in OutputPorts(blocks[key[1]])
    <3>1. PICK x \in DOMAIN blocks, p \in Nat : key = <<x, p>>
      BY <2>1 DEF OutputsGood
    <3>. QED BY <2>1, <3>1 DEF OutputsGood
  <2>3. ASSUME NEW id \in { key[1] : key \in DOMAIN outputs }
        PROVE  LET Out(p) == outputs[<<id, p>>] IN Plausible(blocks[id], Out)
    <3>. DEFINE b == blocks[id]
                r == View(b, outputs, id)
    <3>1. PICK k \in DOMAIN outputs : id = k[1]
      OBVIOUS
    <3>2. PICK x \in DOMAIN blocks, q \in Nat : k = <<x, q>>
      BY <2>1 DEF OutputsGood
    <3>3. id \in DOMAIN blocks /\ q \in OutputPorts(b) /\ <<id, q>> \in DOMAIN outputs
      BY <2>2, <3>1, <3>2
    <3>4. Credible(b, r)
      <4>1. HonestAt(b, outputs, id)
        BY <2>1, <3>3 DEF OutputsGood
      <4>. QED BY <3>3, <4>1 DEF HonestAt
    <3>5. \A p \in OutputPorts(b) :
             r[p] = IF <<id, p>> \in DOMAIN outputs THEN outputs[<<id, p>>] ELSE Absent
      BY DEF View
    <3>6. b \in BlockRecords(Channels) /\ OutputPorts(b) \in SUBSET Nat
      BY <2>1, <3>3, PortsAreNumbers DEF BlocksGood
    <3>. HIDE DEF r
    <3>7. \A p \in OutputPorts(b) : r[p] # Absent => r[p] = outputs[<<id, p>>]
      BY <3>5
    <3>8. r[q] # Absent
      <4>1. outputs[<<id, q>>] \in Int
        BY <2>1, <3>3 DEF OutputsGood
      <4>2. Absent \notin Int
        BY DataflowAssumption DEF DataflowAssumption
      <4>. QED BY <3>3, <3>5, <4>1, <4>2
    <3>. HIDE DEF b
    <3>9. CASE b.kind = "constant"
      <4>1. OutputPorts(b) = {0}
        BY <3>9 DEF OutputPorts, Sinks
      <4>2. outputs[<<id, 0>>] = b.value
        BY <3>3, <3>4, <3>7, <3>8, <3>9, <4>1 DEF Credible
      <4>. QED BY <3>9, <4>2 DEF Plausible, b
    <3>10. CASE b.kind = "clamp"
      <4>1. OutputPorts(b) = {0}
        BY <3>10 DEF OutputPorts, Sinks
      <4>2. outputs[<<id, 0>>] \in b.min..b.max
        BY <3>3, <3>4, <3>7, <3>8, <3>10, <4>1 DEF Credible
      <4>. QED BY <3>10, <4>2 DEF Plausible, b
    <3>11. CASE b.kind = "state_machine"
      <4>1. OutputPorts(b) = 0..b.states
        BY <3>11 DEF OutputPorts, Sinks
      <4>2. b.states \in Nat \ {0}
        BY <3>6, <3>11, BlockShapes DEF Peripherals, Sources, Sinks
      <4>3. \A p \in 0..b.states : r[p] = outputs[<<id, p>>]
        BY <3>4, <3>7, <3>11, <4>1 DEF Credible
      <4>4. \A p \in 1..b.states : r[p] = IF p - 1 = r[0] THEN 1 ELSE 0
        BY <3>4, <3>11 DEF Credible
      <4>5. ASSUME NEW p \in 1..b.states
            PROVE  outputs[<<id, p>>] = IF p - 1 = outputs[<<id, 0>>] THEN 1 ELSE 0
        <5>1. p \in 0..b.states /\ 0 \in 0..b.states
          BY <4>2
        <5>. QED BY <4>3, <4>4, <5>1
      <4>. QED BY <3>11, <4>5 DEF Plausible, b
    <3>12. CASE b.kind \notin {"constant", "clamp", "state_machine"}
      BY <3>12 DEF Plausible, b
    <3>. QED BY <3>9, <3>10, <3>11, <3>12
  <2>. QED BY <2>2, <2>3 DEF OutputsHonest
<1>. QED BY <1>1, InvAlways, PTL

-------------------------------------------------------------------------------
(* A tick is synchronous.                                                  *)

\* What the turns of other blocks leave of block x.
Kept(x, after, before) ==
    /\ SameAt(x, after.outputs, before.outputs)
    /\ x \in Delays => after.stored[x] = before.stored[x]
    /\ after.hw.adc = before.hw.adc
    /\ blocks[x].kind = "pwm_sink" /\ OnlySink(x) =>
          after.hw.pwm[blocks[x].channel] = before.hw.pwm[blocks[x].channel]

\* A turn of one block, seen from another.
LEMMA TurnKeepsOthers ==
    ASSUME BlocksGood, NEW before, NEW after, NEW id \in DOMAIN blocks,
           NEW x \in DOMAIN blocks, x # id, AccGood(before), Turned(before, after, id)
    PROVE  Kept(x, after, before)
<1>1. ASSUME blocks[x].kind = "pwm_sink", OnlySink(x)
      PROVE  after.hw.pwm[blocks[x].channel] = before.hw.pwm[blocks[x].channel]
  <2>. DEFINE b == blocks[id]
              a == blocks[x]
              in == Gather(before.outputs, id)
  <2>1. a \in BlockRecords(Channels) /\ b \in BlockRecords(Channels) /\ a # b
    BY <1>1 DEF BlocksGood, OnlySink
  <2>2. a = [kind |-> "pwm_sink", channel |-> a.channel] /\ a.channel \in Channels
    BY <1>1, <2>1, BlockShapes DEF Peripherals, Sources, Sinks
  <2>3. CASE ~Simulated(id)
    BY <2>3 DEF Turned
  <2>4. CASE Simulated(id)
    <3>1. after.hw = SimWrites(b, in, before.hw) /\ b.kind \in Peripherals
      BY <2>4 DEF Turned, Simulated
    <3>2. b = [kind |-> b.kind, channel |-> b.channel]
      BY <2>1, <3>1, BlockShapes DEF Peripherals, Sources, Sinks
    <3>3. before.hw \in Hardware
      BY DEF AccGood
    <3>. HIDE DEF a, b, in
    <3>4. CASE b.kind \in Sources \/ in[0] = Absent
      BY <3>1, <3>4 DEF SimWrites, a
    <3>5. CASE b.kind = "pwm_sink" /\ in[0] # Absent
      <4>1. b.channel # a.channel
        BY <2>1, <2>2, <3>2, <3>5
      <4>2. after.hw = [before.hw EXCEPT !.pwm[b.channel] = in[0]]
        BY <3>1, <3>5 DEF SimWrites, Sources
      <4>3. before.hw.pwm \in [Channels -> Int]
        BY <3>3 DEF Hardware
      <4>4. after.hw.pwm = [before.hw.pwm EXCEPT ![b.channel] = in[0]]
        BY <3>3, <4>2 DEF Hardware
      <4>5. after.hw.pwm[a.channel] = before.hw.pwm[a.channel]
        BY <2>2, <4>1, <4>3, <4>4
      <4>. QED BY <4>5 DEF a
    <3>6. CASE b.kind = "gpio_out" /\ in[0] # Absent
      <4>. DEFINE pin == IF in[0] > 0 THEN 1 ELSE 0
      <4>1. after.hw = [before.hw EXCEPT !.gpio[b.channel] = pin]
        BY <3>1, <3>6 DEF SimWrites, Sources
      <4>. HIDE DEF pin
      <4>2. after.hw.pwm = before.hw.pwm
        BY <3>3, <4>1 DEF Hardware
      <4>. QED BY <4>2 DEF a
    <3>. QED BY <3>1, <3>4, <3>5, <3>6 DEF Peripherals, Sinks
  <2>. QED BY <2>3, <2>4
<1>. QED BY <1>1 DEF Kept, Turned

LEMMA KeptTransitive ==
    ASSUME NEW x, NEW first, NEW second, NEW third, Kept(x, second, first), Kept(x, third, second)
    PROVE  Kept(x, third, first)
<1>1. SameAt(x, third.outputs, first.outputs)
  BY DEF Kept, SameAt
<1>. QED BY <1>1 DEF Kept

\* Between two turns of x, it is left alone.
LEMMA TurnsKeep ==
    ASSUME BlocksGood, NEW order \in Seq(DOMAIN blocks), NEW turn,
           \A k \in 0..Len(order) : AccGood(turn[k]),
           \A k \in 1..Len(order) : Turned(turn[k - 1], turn[k], order[k]),
           NEW x \in DOMAIN blocks, NEW k \in Nat, NEW l \in Nat, k <= l, l <= Len(order),
           \A j \in (k + 1)..l : order[j] # x
    PROVE  Kept(x, turn[l], turn[k])
<1>. DEFINE n == Len(order)
            T == { m \in Nat : k + m <= l => Kept(x, turn[k + m], turn[k]) }
<1>1. n \in Nat /\ DOMAIN order = 1..n /\ \A j \in 1..n : order[j] \in DOMAIN blocks
  OBVIOUS
<1>2. 0 \in T
  <2>1. Kept(x, turn[k], turn[k])
    BY DEF Kept, SameAt
  <2>2. k + 0 = k
    OBVIOUS
  <2>. HIDE DEF Kept
  <2>. QED BY <2>1, <2>2
<1>3. ASSUME NEW m \in T PROVE m + 1 \in T
  <2>1. CASE k + (m + 1) <= l
    <3>. DEFINE j == k + (m + 1)
    <3>1. /\ m \in Nat /\ k + m <= l /\ Kept(x, turn[k + m], turn[k])
          /\ j \in 1..n /\ j \in (k + 1)..l /\ j - 1 = k + m /\ k + m \in 0..n
      BY <1>1, <2>1
    <3>. HIDE DEF j
    <3>2. order[j] \in DOMAIN blocks /\ order[j] # x /\ AccGood(turn[k + m])
      BY <1>1, <3>1
    <3>3. Turned(turn[k + m], turn[j], order[j])
      BY <3>1
    <3>4. Kept(x, turn[j], turn[k + m])
      BY <3>2, <3>3, TurnKeepsOthers
    <3>5. Kept(x, turn[j], turn[k])
      BY <3>1, <3>4, KeptTransitive
    <3>. QED BY <3>1, <3>5 DEF j
  <2>. QED BY <2>1
<1>4. T = Nat
  <2>. HIDE DEF T
  <2>1. T \in SUBSET Nat
    BY DEF T
  <2>. QED BY <1>2, <1>3, <2>1, AllNumbers
<1>5. l - k \in T /\ k + (l - k) = l
  BY <1>4
<1>. QED BY <1>5

\* A block finds the same where its feeders show the same.
LEMMA GatherSame ==
    ASSUME NEW id, NEW outs, NEW others,
           \A c \in channels : c.to = id => c.fromPort \in Nat /\ SameAt(c.from, outs, others)
    PROVE  Gather(outs, id) = Gather(others, id)
<1>. DEFINE feeds(f, p) == { c \in channels : /\ c.to = id /\ c.toPort = p
                                              /\ <<c.from, c.fromPort>> \in DOMAIN f }
            value(f, p) == IF feeds(f, p) = {} THEN Absent
                           ELSE LET c == CHOOSE c \in feeds(f, p) : TRUE
                                IN f[<<c.from, c.fromPort>>]
<1>1. Gather(outs, id) = [p \in InputPorts(blocks[id]) |-> value(outs, p)]
  BY DEF Gather
<1>2. Gather(others, id) = [p \in InputPorts(blocks[id]) |-> value(others, p)]
  BY DEF Gather
<1>3. ASSUME NEW p PROVE value(outs, p) = value(others, p)
  <2>1. feeds(outs, p) = feeds(others, p)
    BY DEF SameAt
  <2>2. CASE feeds(outs, p) = {}
    BY <2>1, <2>2
  <2>3. CASE feeds(outs, p) # {}
    <3>. DEFINE c == CHOOSE c \in feeds(outs, p) : TRUE
                d == CHOOSE e \in feeds(others, p) : TRUE
    <3>1. c \in feeds(outs, p)
      BY <2>3
    <3>2. c = d
      BY <2>1
    <3>3. outs[<<c.from, c.fromPort>>] = others[<<c.from, c.fromPort>>]
      BY <2>1, <3>1 DEF SameAt
    <3>4. value(outs, p) = outs[<<c.from, c.fromPort>>]
      BY <2>3
    <3>5. value(others, p) = others[<<d.from, d.fromPort>>]
      BY <2>1, <2>3
    <3>. QED BY <3>2, <3>3, <3>4, <3>5
  <2>. QED BY <2>2, <2>3
<1>. HIDE DEF value
<1>. QED BY <1>1, <1>2, <1>3

\* What one block shows after a tick, from its own turn in it.
LEMMA TickSynchronous ==
    ASSUME DataflowAssumption, DInv, Tick, Sorted(DOMAIN blocks, channels, Delays).ok,
           NEW id \in DOMAIN blocks
    PROVE  Synchronous(id)
<1>. DEFINE base == [outputs |-> outputs, stored |-> stored, hw |-> hw]
            order == TickOrder
            n == Len(order)
            b == blocks[id]
<1>1. TypeInv /\ BlocksGood
  BY InvGivesBlocks DEF DInv
<1>2. AccGood(base)
  BY <1>1 DEF DInv, AccGood, TypeInv
<1>3. /\ order \in Seq(DOMAIN blocks)
      /\ \A i, j \in DOMAIN order : order[i] = order[j] => i = j
      /\ \A x \in DOMAIN blocks : \E i \in DOMAIN order : order[i] = x
      /\ \A c \in channels : c.from \in DOMAIN blocks /\ c.to \in (DOMAIN blocks) \ Delays =>
            \E i, j \in DOMAIN order : i < j /\ order[i] = c.from /\ order[j] = c.to
  BY <1>1, KahnSorts DEF TickOrder, BlocksGood
<1>4. /\ outputs' = FoldLeft(Visit, base, order).outputs
      /\ hw' = FoldLeft(Visit, base, order).hw
  BY DEF Tick
<1>. HIDE DEF base, order
<1>5. PICK turn : /\ turn[0] = base
                  /\ turn[n] = FoldLeft(Visit, base, order)
                  /\ \A k \in 0..n : AccGood(turn[k])
                  /\ \A k \in 1..n : Turned(turn[k - 1], turn[k], order[k])
  BY <1>1, <1>2, <1>3, TickTurns
<1>6. n \in Nat /\ DOMAIN order = 1..n
  BY <1>3
<1>7. PICK i \in 1..n : order[i] = id
  BY <1>3, <1>6
<1>. DEFINE before == turn[i - 1]
            after == turn[i]
            end == turn[n]
<1>8. ASSUME NEW x \in DOMAIN blocks, NEW k \in Nat, NEW l \in Nat, k <= l, l <= n,
             \A j \in (k + 1)..l : order[j] # x
      PROVE  Kept(x, turn[l], turn[k])
  BY <1>1, <1>3, <1>5, <1>8, TurnsKeep
<1>9. Kept(id, before, base)
  <2>1. i - 1 \in Nat /\ 0 \in Nat /\ 0 <= i - 1 /\ i - 1 <= n
    BY <1>6
  <2>2. \A j \in (0 + 1)..(i - 1) : order[j] # id
    BY <1>3, <1>6, <1>7
  <2>3. Kept(id, turn[i - 1], turn[0])
    BY <1>8, <2>1, <2>2
  <2>. QED BY <1>5, <2>3
<1>10. Kept(id, end, after)
  <2>1. i \in Nat /\ i <= n
    BY <1>6
  <2>2. \A j \in (i + 1)..n : order[j] # id
    BY <1>3, <1>6, <1>7
  <2>. QED BY <1>6, <1>8, <2>1, <2>2
<1>11. Turned(before, after, id) /\ AccGood(before)
  <2>1. i - 1 \in 0..n
    BY <1>6
  <2>. QED BY <1>5, <1>7, <2>1
<1>12. outputs' = end.outputs /\ hw' = end.hw
  BY <1>4, <1>5
<1>. HIDE DEF before, after, end
<1>13. Shown(outputs', id) = Computed(before, id)
  <2>1. Shown(outputs', id) = View(b, end.outputs, id)
    BY <1>12 DEF Shown, View
  <2>2. OutputPorts(b) \in SUBSET Nat
    BY <1>1, PortsAreNumbers DEF BlocksGood
  <2>3. View(b, end.outputs, id) = View(b, after.outputs, id)
    BY <1>10, <2>2 DEF Kept, SameAt, View
  <2>. QED BY <1>11, <2>1, <2>3 DEF Turned
<1>14. ASSUME id \notin Delays
       PROVE  Gather(outputs', id) = Gather(before.outputs, id)
  <2>1. ASSUME NEW c \in channels, c.to = id
        PROVE  c.fromPort \in Nat /\ SameAt(c.from, end.outputs, before.outputs)
    <3>1. c.from \in DOMAIN blocks /\ c.fromPort \in Nat
      BY <1>1 DEF DInv, Wired, TypeInv, Channel
    <3>2. PICK u \in DOMAIN order, v \in DOMAIN order :
             u < v /\ order[u] = c.from /\ order[v] = id
      BY <1>3, <1>14, <2>1, <3>1
    <3>3. v = i /\ u < i
      BY <1>3, <1>6, <1>7, <3>2
    <3>4. \A j \in ((i - 1) + 1)..n : order[j] # c.from
      <4>1. ASSUME NEW j \in i..n, order[j] = c.from PROVE FALSE
        <5>1. j \in DOMAIN order
          BY <1>6
        <5>2. j = u
          BY <1>3, <3>2, <4>1, <5>1
        <5>. QED BY <1>6, <3>2, <3>3, <5>2
      <4>. QED BY <1>6, <4>1
    <3>5. i - 1 \in Nat /\ i - 1 <= n
      BY <1>6
    <3>6. Kept(c.from, turn[n], turn[i - 1])
      BY <1>6, <1>8, <3>1, <3>4, <3>5
    <3>. QED BY <3>1, <3>6 DEF Kept, end, before
  <2>. QED BY <1>12, <2>1, GatherSame
<1>15. base.stored = stored /\ base.hw = hw
  BY DEF base
<1>16. id \in Delays <=> IsDelay(b)
  BY DEF Delays
<1>17. b \in BlockRecords(Channels)
  BY <1>1 DEF BlocksGood
<1>18. CASE IsDelay(b)
  <2>1. b.kind = "register" /\ b.kind \notin Peripherals
    BY <1>18 DEF IsDelay, Peripherals, Sources, Sinks
  <2>2. Computed(before, id) = Results(b, Gather(before.outputs, id), before.stored[id])
    BY <1>18, <2>1 DEF Computed, Simulated
  <2>3. before.stored[id] = stored[id]
    BY <1>9, <1>15, <1>16, <1>18 DEF Kept
  <2>4. Shown(outputs', id) = One(stored[id])
    BY <1>13, <2>1, <2>2, <2>3 DEF Results, Sources, Sinks
  <2>. QED BY <1>18, <2>1, <2>4 DEF Synchronous, Sources, Sinks
<1>19. CASE b.kind \in Sources
  <2>1. ASSUME simulation_mode, b.kind = "adc_source"
        PROVE  Shown(outputs', id) = One(hw.adc[b.channel])
    <3>1. Computed(before, id) = One(before.hw.adc[b.channel])
      BY <2>1 DEF Computed, Simulated, SimResults, Peripherals, Sources
    <3>2. before.hw.adc = hw.adc
      BY <1>9, <1>15 DEF Kept
    <3>. QED BY <1>13, <3>1, <3>2
  <2>. QED BY <1>19, <2>1 DEF Synchronous, IsDelay, Sources
<1>20. CASE b.kind \in Sinks
  <2>. DEFINE in == Gather(before.outputs, id)
              ch == b.channel
  <2>1. Gather(outputs', id) = in
    BY <1>14, <1>16, <1>20 DEF IsDelay, Sinks
  <2>2. ASSUME simulation_mode, b.kind = "pwm_sink", OnlySink(id)
        PROVE  hw'.pwm[ch] = IF in[0] = Absent THEN hw.pwm[ch] ELSE in[0]
    <3>1. before.hw.pwm[ch] = hw.pwm[ch] /\ hw'.pwm[ch] = after.hw.pwm[ch]
      BY <1>9, <1>10, <1>12, <1>15, <2>2 DEF Kept
    <3>2. after.hw = SimWrites(b, in, before.hw)
      BY <1>11, <1>20, <2>2 DEF Turned, Simulated, Peripherals
    <3>3. ch \in Channels
      BY <1>17, <2>2, BlockShapes DEF Peripherals, Sources, Sinks
    <3>4. before.hw \in Hardware
      BY <1>11 DEF AccGood
    <3>. HIDE DEF in, ch
    <3>5. CASE in[0] = Absent
      BY <3>1, <3>2, <3>5 DEF SimWrites
    <3>6. CASE in[0] # Absent
      <4>1. after.hw = [before.hw EXCEPT !.pwm[ch] = in[0]]
        BY <2>2, <3>2, <3>6 DEF SimWrites, Sources, ch
      <4>2. after.hw.pwm = [before.hw.pwm EXCEPT ![ch] = in[0]]
        BY <3>4, <4>1 DEF Hardware
      <4>3. before.hw.pwm \in [Channels -> Int]
        BY <3>4 DEF Hardware
      <4>4. after.hw.pwm[ch] = in[0]
        BY <3>3, <4>2, <4>3
      <4>. QED BY <3>1, <3>6, <4>4
    <3>. QED BY <3>5, <3>6
  <2>. QED BY <1>20, <2>1, <2>2 DEF Synchronous, IsDelay, Sources, Sinks
<1>21. CASE ~IsDelay(b) /\ b.kind \notin Sources /\ b.kind \notin Sinks
  <2>1. Gather(outputs', id) = Gather(before.outputs, id)
    BY <1>14, <1>16, <1>21
  <2>2. Computed(before, id) = Results(b, Gather(before.outputs, id), 0)
    BY <1>21 DEF Computed, Simulated, Peripherals
  <2>3. Shown(outputs', id) = Results(b, Gather(outputs', id), 0)
    BY <1>13, <2>1, <2>2
  <2>. QED BY <1>21, <2>3 DEF Synchronous
<1>. QED BY <1>18, <1>19, <1>20, <1>21

(* In every graph whose loops all have a register in them, of any size and *)
(* edited in any way: what a tick shows is what every block makes of the   *)
(* values its inputs have in that tick (graph.rs:252-346).                 *)
THEOREM DataflowTickIsSynchronous == Spec => TickIsSynchronous
<1>1. ASSUME DInv, [Next]_vars, tick_count' # tick_count,
             Sorted(DOMAIN blocks, channels, Delays).ok, NEW id \in DOMAIN blocks
      PROVE  Synchronous(id)
  <2>1. CASE Tick
    BY <1>1, <2>1, TickSynchronous, DataflowAssumption
  <2>2. CASE UNCHANGED tick_count
    BY <1>1, <2>2
  <2>3. Tick \/ UNCHANGED tick_count
    BY <1>1 DEF Next, vars, AddBlock, ReplaceBlock, RemoveBlock, Connect, Disconnect,
                SetSimulationMode, SetSimAdc
  <2>. QED BY <2>1, <2>2, <2>3
<1>2. DInv /\ [Next]_vars =>
         (tick_count' # tick_count /\ Sorted(DOMAIN blocks, channels, Delays).ok =>
            \A id \in DOMAIN blocks : Synchronous(id))
  BY <1>1
<1>. QED BY <1>2, InvAlways, PTL DEF Spec, TickIsSynchronous

-------------------------------------------------------------------------------
(* A graph cut for several nodes.                                          *)

\* The bridges: a pair of new ids for each channel that crosses, and no id twice.
BridgesSound(assignments) ==
    LET bridges == Range(Bridges(assignments))
    IN  /\ \A b \in bridges : /\ b.channel \in Crossing(assignments)
                              /\ b.topic = Topic(b.channel)
                              /\ b.sink \notin DOMAIN blocks /\ b.source \notin DOMAIN blocks
        /\ \A a, b \in bridges : /\ a.sink = b.sink => a = b
                                 /\ a.source = b.source => a = b
                                 /\ a.sink # b.source
        /\ \A c \in Crossing(assignments) : \E b \in bridges : b.channel = c

\* A finite set is what SetToSeq lists.
LEMMA Enumerated ==
    ASSUME NEW S, IsFiniteSet(S)
    PROVE  /\ Cardinality(S) \in Nat
           /\ SetToSeq(S) \in [1..Cardinality(S) -> S]
           /\ \A x \in S : \E i \in 1..Cardinality(S) : SetToSeq(S)[i] = x
<1>. DEFINE n == Cardinality(S)
<1>1. n \in Nat /\ ExistsBijection(1..n, S)
  BY FS_CardinalityType
<1>2. PICK f \in Bijection(1..n, S) : TRUE
  BY <1>1 DEF ExistsBijection
<1>3. f \in [1..n -> S] /\ IsInjective(f)
  BY <1>2 DEF Bijection, Injection, IsInjective
<1>. DEFINE s == SetToSeq(S)
<1>4. s \in [1..n -> S] /\ IsInjective(s)
  BY <1>3 DEF SetToSeq
<1>. HIDE DEF s
<1>5. s \in Surjection(1..n, S)
  <2>1. IsFiniteSet(1..n) /\ Cardinality(1..n) = n
    BY <1>1, FS_Interval
  <2>2. s \in Injection(1..n, S)
    BY <1>4 DEF Injection
  <2>. QED BY <2>1, <2>2, FS_Injection
<1>. QED BY <1>1, <1>4, <1>5 DEF Surjection, s

\* A function of no argument is the empty sequence.
LEMMA NothingThere ==
    ASSUME NEW f, NEW S, f \in [{} -> S]
    PROVE  f = << >>
<1>1. << >> \in [{} -> S]
  OBVIOUS
<1>. QED BY <1>1

LEMMA BridgesAreSound ==
    ASSUME DInv, NEW assignments, DOMAIN blocks # {}
    PROVE  BridgesSound(assignments)
<1>. DEFINE C == Crossing(assignments)
            n == Cardinality(C)
            s == SetToSeq(C)
            base == Max(DOMAIN blocks) + 1000
            B == Bridges(assignments)
<1>1. TypeInv
  BY DEF DInv
<1>2. Max(DOMAIN blocks) \in Nat /\ \A x \in DOMAIN blocks : x \in Nat /\ x <= Max(DOMAIN blocks)
  <2>. DEFINE D == DOMAIN blocks
  <2>1. D \in SUBSET Int /\ D \in SUBSET Nat /\ next_block_id \in Int
        /\ \A x \in D : x <= next_block_id
    BY <1>1 DEF TypeInv
  <2>. HIDE DEF D
  <2>2. Max(D) \in D /\ \A x \in D : Max(D) >= x
    BY <2>1, GreatestNumber DEF D
  <2>. QED BY <2>1, <2>2 DEF D
<1>3. IsFiniteSet(C)
  BY <1>1, FS_Subset DEF TypeInv, Crossing
<1>. HIDE DEF C
<1>4. /\ n \in Nat /\ s \in [1..n -> C] /\ DOMAIN s = 1..n
      /\ \A x \in C : \E i \in 1..n : s[i] = x
  BY <1>3, Enumerated
<1>5. base \in Nat /\ \A x \in DOMAIN blocks : x \in Nat /\ x < base
  BY <1>2
<1>6. B = [i \in DOMAIN s |->
             [sink |-> base + 2 * (i - 1), source |-> base + 2 * (i - 1) + 1,
              topic |-> Topic(s[i]), channel |-> s[i]]]
  BY DEF Bridges, C
<1>. HIDE DEF s, n, base, B
<1>7. DOMAIN B = 1..n /\ \A i \in 1..n : /\ B[i].sink = base + 2 * (i - 1)
                                        /\ B[i].source = base + 2 * (i - 1) + 1
                                        /\ B[i].topic = Topic(s[i]) /\ B[i].channel = s[i]
  BY <1>4, <1>6
<1>8. Range(B) = { B[i] : i \in 1..n }
  BY <1>7 DEF Range
<1>9. ASSUME NEW i \in 1..n, NEW j \in 1..n
      PROVE  /\ B[i].sink = B[j].sink => i = j
             /\ B[i].source = B[j].source => i = j
             /\ B[i].sink # B[j].source
             /\ B[i].sink >= base /\ B[i].source >= base
  <2>1. i \in Int /\ j \in Int /\ i >= 1 /\ j >= 1 /\ base \in Int
    BY <1>4, <1>5
  <2>2. B[i].sink = base + 2 * (i - 1) /\ B[i].source = base + 2 * (i - 1) + 1
    BY <1>7
  <2>3. B[j].sink = base + 2 * (j - 1) /\ B[j].source = base + 2 * (j - 1) + 1
    BY <1>7
  <2>. QED BY <2>1, <2>2, <2>3
<1>10. ASSUME NEW b \in Range(B)
       PROVE  /\ b.channel \in C /\ b.topic = Topic(b.channel)
              /\ b.sink \notin DOMAIN blocks /\ b.source \notin DOMAIN blocks
  <2>1. PICK i \in 1..n : b = B[i]
    BY <1>8
  <2>2. b.channel = s[i] /\ s[i] \in C /\ b.topic = Topic(s[i])
    BY <1>4, <1>7, <2>1
  <2>3. b.sink >= base /\ b.source >= base
    BY <1>9, <2>1
  <2>4. \A x \in DOMAIN blocks : ~(x >= base)
    BY <1>5
  <2>. QED BY <2>2, <2>3, <2>4
<1>11. \A a, b \in Range(B) : /\ a.sink = b.sink => a = b
                              /\ a.source = b.source => a = b
                              /\ a.sink # b.source
  BY <1>8, <1>9
<1>12. ASSUME NEW c \in C PROVE \E b \in Range(B) : b.channel = c
  <2>1. PICK i \in 1..n : s[i] = c
    BY <1>4
  <2>2. B[i].channel = c /\ B[i] \in Range(B)
    BY <1>7, <1>8, <2>1
  <2>. QED BY <2>2
<1>. QED BY <1>10, <1>11, <1>12 DEF BridgesSound, B, C

\* What is known of the parts of a graph that is cut.
LEMMA CutRejoins ==
    ASSUME DInv, NEW assignments \in Manifests, Cuts(assignments)
    PROVE  PartsRejoin(assignments)
<1>. DEFINE B == Range(Bridges(assignments))
            C == Crossing(assignments)
            P(n) == Part(assignments, n)
            In(b) == [b.channel EXCEPT !.to = b.sink, !.toPort = 0]
            Out(b) == [b.channel EXCEPT !.from = b.source, !.fromPort = 0]
            Same(n) == Intra(assignments, n)
<1>1. TypeInv /\ Wired(blocks, channels) /\ channels \subseteq Channel
  BY DEF DInv, TypeInv
<1>2. DOMAIN blocks # {}
  BY <1>1, NothingThere DEF Cuts, TypeInv
<1>3. assignments \in [DOMAIN blocks -> Nodes]
  <2>1. PICK S \in SUBSET DOMAIN blocks : assignments \in [S -> Nodes]
    BY DEF Manifests
  <2>2. S = DOMAIN blocks
    BY <2>1 DEF Cuts, Unassigned
  <2>. QED BY <2>1, <2>2
<1>4. BridgesSound(assignments)
  BY <1>2, BridgesAreSound
<1>5. /\ \A b \in B : /\ b.channel \in C /\ b.topic = Topic(b.channel)
                      /\ b.sink \notin DOMAIN blocks /\ b.source \notin DOMAIN blocks
      /\ \A a, b \in B : /\ a.sink = b.sink => a = b
                         /\ a.source = b.source => a = b
                         /\ a.sink # b.source
      /\ \A c \in C : \E b \in B : b.channel = c
  BY <1>4 DEF BridgesSound
<1>6. ASSUME NEW c \in channels
      PROVE  /\ c \in Channel /\ c.from \in DOMAIN blocks /\ c.to \in DOMAIN blocks
             /\ c \in C <=> assignments[c.from] # assignments[c.to]
  BY <1>1, <1>3 DEF Wired, Crossing
<1>7. C \subseteq channels
  BY DEF Crossing
<1>8. ASSUME NEW n
      PROVE  /\ P(n).ids = { id \in DOMAIN blocks : assignments[id] = n }
             /\ P(n).sinks = { <<b.sink, b.topic>> :
                                 b \in { x \in B : assignments[x.channel.from] = n } }
             /\ P(n).sources = { <<b.source, b.topic>> :
                                 b \in { x \in B : assignments[x.channel.to] = n } }
             /\ P(n).channels = Same(n)
                   \union { In(b) : b \in { x \in B : assignments[x.channel.from] = n } }
                   \union { Out(b) : b \in { x \in B : assignments[x.channel.to] = n } }
  BY DEF Part
<1>9. ASSUME NEW b \in B
      PROVE  /\ In(b).from = b.channel.from /\ In(b).fromPort = b.channel.fromPort
             /\ In(b).to = b.sink
             /\ Out(b).to = b.channel.to /\ Out(b).toPort = b.channel.toPort
             /\ Out(b).from = b.source
             /\ b.channel.from \in DOMAIN blocks /\ b.channel.to \in DOMAIN blocks
             /\ b.channel \in Channel /\ b.channel \in channels
  <2>1. b.channel \in Channel /\ b.channel \in channels
    BY <1>5, <1>6, <1>7
  <2>. QED BY <1>6, <2>1 DEF Channel
<1>. HIDE DEF B, C, In, Out, P, Same
<1>10. ASSUME NEW n, NEW x \in AllIds(P(n))
       PROVE  \/ x \in DOMAIN blocks /\ assignments[x] = n
              \/ \E b \in B : x = b.sink /\ assignments[b.channel.from] = n
              \/ \E b \in B : x = b.source /\ assignments[b.channel.to] = n
  BY <1>8 DEF AllIds
<1>11. ASSUME NEW n
       PROVE  /\ \A x \in DOMAIN blocks : assignments[x] = n => x \in AllIds(P(n))
              /\ \A b \in B : assignments[b.channel.from] = n => b.sink \in AllIds(P(n))
              /\ \A b \in B : assignments[b.channel.to] = n => b.source \in AllIds(P(n))
  <2>1. ASSUME NEW b \in B, assignments[b.channel.from] = n PROVE b.sink \in AllIds(P(n))
    <3>1. <<b.sink, b.topic>> \in P(n).sinks
      BY <1>8, <2>1
    <3>. QED BY <3>1 DEF AllIds
  <2>2. ASSUME NEW b \in B, assignments[b.channel.to] = n PROVE b.source \in AllIds(P(n))
    <3>1. <<b.source, b.topic>> \in P(n).sources
      BY <1>8, <2>2
    <3>. QED BY <3>1 DEF AllIds
  <2>. QED BY <1>8, <2>1, <2>2 DEF AllIds
<1>12. ASSUME NEW n \in Nodes, NEW m \in Nodes, n # m, NEW x \in AllIds(P(n)), x \in AllIds(P(m))
       PROVE  FALSE
  BY <1>5, <1>10, <1>12
<1>13. ASSUME NEW n, NEW c \in P(n).channels
       PROVE  \/ c \in channels /\ assignments[c.from] = n /\ assignments[c.to] = n
              \/ \E b \in B : c = In(b) /\ assignments[b.channel.from] = n
              \/ \E b \in B : c = Out(b) /\ assignments[b.channel.to] = n
  BY <1>8 DEF Same, Intra
<1>14. ASSUME NEW n \in Nodes, NEW c \in P(n).channels
       PROVE  {c.from, c.to} \subseteq AllIds(P(n))
  BY <1>6, <1>9, <1>11, <1>13
<1>. DEFINE Parts == { P(n) : n \in Nodes }
            all == UNION { p.channels : p \in Parts }
            sinks == UNION { p.sinks : p \in Parts }
            sources == UNION { p.sources : p \in Parts }
            ends == { e[1] : e \in sinks \union sources }
            Joined(u, v) == [from |-> u.from, fromPort |-> u.fromPort,
                             to |-> v.to, toPort |-> v.toPort]
            direct == { c \in all : c.from \notin ends /\ c.to \notin ends }
            pairs == { q \in sinks \X sources : q[1][2] = q[2][2] }
            Across(pair) == { Joined(u, v) : u \in { c \in all : c.to = pair[1][1] },
                                             v \in { c \in all : c.from = pair[2][1] } }
<1>15. Rejoined(Parts) = direct \union UNION { Across(pair) : pair \in pairs }
  BY DEF Rejoined
<1>16. /\ \A e \in sinks : \E b \in B : e = <<b.sink, b.topic>>
       /\ \A e \in sources : \E b \in B : e = <<b.source, b.topic>>
  BY <1>8
<1>17. ASSUME NEW b \in B
       PROVE  /\ <<b.sink, b.topic>> \in sinks /\ <<b.source, b.topic>> \in sources
              /\ In(b) \in all /\ Out(b) \in all
  <2>1. assignments[b.channel.from] \in Nodes /\ assignments[b.channel.to] \in Nodes
    BY <1>3, <1>9
  <2>. DEFINE n == assignments[b.channel.from]
              m == assignments[b.channel.to]
  <2>2. <<b.sink, b.topic>> \in P(n).sinks /\ In(b) \in P(n).channels
    BY <1>8
  <2>3. <<b.source, b.topic>> \in P(m).sources /\ Out(b) \in P(m).channels
    BY <1>8
  <2>4. P(n) \in Parts /\ P(m) \in Parts
    BY <2>1
  <2>. HIDE DEF Parts, n, m
  <2>. QED BY <2>2, <2>3, <2>4
<1>18. ASSUME NEW c \in all
       PROVE  \/ c \in channels /\ assignments[c.from] = assignments[c.to]
              \/ \E b \in B : c = In(b)
              \/ \E b \in B : c = Out(b)
  BY <1>13
<1>19. ASSUME NEW c \in channels, assignments[c.from] = assignments[c.to]
       PROVE  c \in all
  <2>1. assignments[c.from] \in Nodes
    BY <1>3, <1>6
  <2>2. c \in P(assignments[c.from]).channels
    BY <1>8, <1>19 DEF Same, Intra
  <2>. QED BY <2>1, <2>2
<1>. HIDE DEF all, sinks, sources
<1>20. ends = { b.sink : b \in B } \union { b.source : b \in B }
  <2>1. ASSUME NEW x \in ends PROVE \E b \in B : x = b.sink \/ x = b.source
    BY <1>16
  <2>2. ASSUME NEW b \in B PROVE b.sink \in ends /\ b.source \in ends
    <3>1. <<b.sink, b.topic>>[1] = b.sink /\ <<b.source, b.topic>>[1] = b.source
      OBVIOUS
    <3>. QED BY <1>17, <3>1
  <2>. HIDE DEF ends
  <2>. QED BY <2>1, <2>2
<1>. HIDE DEF ends
<1>21. direct \subseteq channels
  BY <1>9, <1>18, <1>20
<1>22. ASSUME NEW pair \in pairs, NEW j \in Across(pair)
       PROVE  j \in channels
  <2>1. PICK e \in sinks, f \in sources : pair = <<e, f>> /\ e[2] = f[2]
    OBVIOUS
  <2>2. PICK a \in B : e = <<a.sink, a.topic>>
    BY <1>16
  <2>3. PICK b \in B : f = <<b.source, b.topic>>
    BY <1>16
  <2>4. PICK u \in all, v \in all : u.to = a.sink /\ v.from = b.source /\ j = Joined(u, v)
    BY <2>1, <2>2, <2>3
  <2>5. u = In(a)
    <3>1. ~(u \in channels)
      BY <1>5, <1>6, <2>4
    <3>2. \A x \in B : u # Out(x)
      BY <1>5, <1>9, <2>4
    <3>3. PICK x \in B : u = In(x)
      BY <1>18, <3>1, <3>2
    <3>. QED BY <1>5, <1>9, <2>4, <3>3
  <2>6. v = Out(b)
    <3>1. ~(v \in channels)
      BY <1>5, <1>6, <2>4
    <3>2. \A x \in B : v # In(x)
      BY <1>5, <1>9, <2>4
    <3>3. PICK x \in B : v = Out(x)
      BY <1>18, <3>1, <3>2
    <3>. QED BY <1>5, <1>9, <2>4, <3>3
  <2>7. a.channel.from = b.channel.from /\ a.channel.fromPort = b.channel.fromPort
    BY <1>5, <2>1, <2>2, <2>3 DEF Topic
  <2>8. j = [from |-> b.channel.from, fromPort |-> b.channel.fromPort,
             to |-> b.channel.to, toPort |-> b.channel.toPort]
    BY <1>9, <2>4, <2>5, <2>6, <2>7
  <2>9. j = b.channel
    BY <1>9, <2>8 DEF Channel
  <2>. QED BY <1>9, <2>9
<1>23. ASSUME NEW c \in channels PROVE c \in Rejoined(Parts)
  <2>1. CASE c \notin C
    <3>1. c \in all /\ c.from \notin ends /\ c.to \notin ends
      BY <1>5, <1>6, <1>19, <1>20, <2>1
    <3>. QED BY <1>15, <3>1
  <2>2. CASE c \in C
    <3>1. PICK b \in B : b.channel = c
      BY <1>5, <2>2
    <3>. DEFINE pair == <<<<b.sink, b.topic>>, <<b.source, b.topic>>>>
    <3>2. pair \in pairs
      BY <1>17
    <3>3. Joined(In(b), Out(b)) \in Across(pair)
      <4>1. pair[1][1] = b.sink /\ pair[2][1] = b.source
        OBVIOUS
      <4>2. In(b) \in all /\ In(b).to = b.sink /\ Out(b) \in all /\ Out(b).from = b.source
        BY <1>9, <1>17
      <4>. HIDE DEF pair
      <4>. QED BY <4>1, <4>2
    <3>4. Joined(In(b), Out(b)) = c
      <4>1. Joined(In(b), Out(b)) = [from |-> c.from, fromPort |-> c.fromPort,
                                     to |-> c.to, toPort |-> c.toPort]
        BY <1>9, <3>1
      <4>2. c \in Channel
        BY <1>6
      <4>. QED BY <4>1, <4>2 DEF Channel
    <3>. HIDE DEF Across, Joined, pairs, pair, direct
    <3>5. c \in Across(pair)
      BY <3>3, <3>4
    <3>. QED BY <1>15, <3>2, <3>5
  <2>. QED BY <2>1, <2>2
<1>24. Rejoined(Parts) = channels
  <2>. HIDE DEF Across, pairs, direct, Parts
  <2>. QED BY <1>15, <1>21, <1>22, <1>23
<1>25. \A n \in Nodes : [k \in Nodes |-> P(k)][n] = P(n)
  OBVIOUS
<1>26. { [k \in Nodes |-> P(k)][n] : n \in Nodes } = Parts
  BY <1>25
<1>. QED BY <1>12, <1>14, <1>24, <1>25, <1>26 DEF PartsRejoin, P

(* For every graph, every set of nodes and every assignment of its blocks: *)
(* the parts share no id and together amount to the graph, and where the   *)
(* manifest is valid they are made and every bridge has a link             *)
(* (partition.rs:56, validate.rs:31).                                      *)
THEOREM DataflowDeploymentRejoins == Spec => []DeploymentRejoins
<1>1. ASSUME DInv PROVE DeploymentRejoins
  <2>1. ASSUME NEW assignments \in Manifests, NEW links \in LinkSets,
               Valid(assignments, links), blocks # << >>
        PROVE  Cuts(assignments) /\ BridgesLinked(assignments, links)
    <3>1. Cuts(assignments)
      BY <2>1 DEF Valid, Cuts
    <3>2. DOMAIN blocks # {}
      BY <1>1, <2>1, NothingThere DEF DInv, TypeInv
    <3>3. BridgesSound(assignments)
      BY <1>1, <3>2, BridgesAreSound
    <3>4. ASSUME NEW b \in Range(Bridges(assignments))
          PROVE  \E pair \in links :
                    {pair[1], pair[2]} = {assignments[b.channel.from], assignments[b.channel.to]}
      <4>. DEFINE x == assignments[b.channel.from]
                  y == assignments[b.channel.to]
      <4>1. b.channel \in Crossing(assignments)
        BY <3>3 DEF BridgesSound
      <4>2. <<x, y>> \in links \/ <<y, x>> \in links
        BY <2>1, <4>1 DEF Valid, Unlinked
      <4>. QED BY <4>2
    <3>. QED BY <3>1, <3>4 DEF BridgesLinked
  <2>. QED BY <1>1, <2>1, CutRejoins DEF DeploymentRejoins
<1>. QED BY <1>1, InvAlways, PTL
===============================================================================
