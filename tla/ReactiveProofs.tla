----------------------------- MODULE ReactiveProofs -----------------------------
(***************************************************************************)
(* The event-driven runtime, for programs of any length and rings of any   *)
(* size: the ring holds each operation marked as queued, once, so that it  *)
(* never overflows; and on regular programs an event ends with what one    *)
(* pass over the whole program, in order, gives (SyncGraph).               *)
(***************************************************************************)
EXTENDS Reactive, TLAPS, FiniteSetTheorems, WellFoundedInduction

-------------------------------------------------------------------------------
(* Numbers.                                                                *)

\* A set of numbers has a least one.
LEMMA LeastNumber ==
    ASSUME NEW T \in SUBSET Nat, T # {}
    PROVE  \E x \in T : \A y \in T : x <= y
<1>. DEFINE R == OpToRel(<, Nat)
<1>1. IsWellFoundedOn(R, Nat)
  BY NatLessThanWellFounded
<1>2. \A x, y \in Nat : <<y, x>> \in R <=> y < x
  BY DEF OpToRel
<1>. HIDE DEF R
<1>3. PICK x \in T : \A y \in T : ~ (<<y, x>> \in R)
  BY <1>1, WFMin
<1>4. ASSUME NEW y \in T PROVE x <= y
  <2>1. ~ (<<y, x>> \in R) /\ x \in Nat /\ y \in Nat
    BY <1>3
  <2>2. ~ (y < x)
    BY <1>2, <2>1
  <2>. QED BY <2>1, <2>2
<1>. QED BY <1>4

\* Induction, over a set.
LEMMA AllNumbers ==
    ASSUME NEW T \in SUBSET Nat, 0 \in T, \A n \in T : n + 1 \in T
    PROVE  T = Nat
<1>. SUFFICES ASSUME Nat \ T # {} PROVE FALSE
  OBVIOUS
<1>1. PICK x \in Nat \ T : \A y \in Nat \ T : x <= y
  BY LeastNumber
<1>2. x # 0 /\ x - 1 \in Nat
  BY <1>1
<1>3. x - 1 \in T
  BY <1>1, <1>2
<1>. QED BY <1>1, <1>2, <1>3

\* The greatest number of an interval.
LEMMA GreatestOf ==
    ASSUME NEW n \in Nat, NEW s \in SUBSET (1..n), s # {}
    PROVE  Max(s) \in s /\ \A x \in s : x <= Max(s)
<1>. DEFINE D == { n - x : x \in s }
<1>1. D \in SUBSET Nat /\ D # {}
  <2>1. \A x \in s : x \in Nat /\ x <= n
    OBVIOUS
  <2>2. \A x \in s : n - x \in Nat
    BY <2>1
  <2>. QED BY <2>2
<1>2. PICK d \in D : \A e \in D : d <= e
  <2>. HIDE DEF D
  <2>. QED BY <1>1, LeastNumber
<1>3. PICK x \in s : d = n - x
  BY <1>2
<1>4. ASSUME NEW y \in s PROVE x >= y
  <2>1. n - x <= n - y /\ x \in Nat /\ y \in Nat
    BY <1>2, <1>3
  <2>. QED BY <2>1
<1>5. \A y \in s : Max(s) \in s /\ Max(s) >= y
  BY <1>4 DEF Max
<1>. QED BY <1>5

\* The turn that the library's folds take last.
LEMMA LastOfPrefix ==
    ASSUME NEW n \in Nat, NEW k \in 1..n
    PROVE  /\ 1..k \in SUBSET (1..n) /\ 1..k # {}
           /\ Max(1..k) = k /\ (1..k) \ {k} = 1..(k - 1)
<1>1. k \in Nat /\ 1 <= k /\ k <= n /\ k \in 1..k
  OBVIOUS
<1>2. \A x \in 1..k : x \in 1..n
  BY <1>1
<1>3. Max(1..k) \in 1..k /\ k <= Max(1..k)
  <2>1. 1..k \in SUBSET (1..k) /\ 1..k # {}
    BY <1>1
  <2>. QED BY <1>1, <2>1, GreatestOf
<1>4. Max(1..k) = k
  BY <1>1, <1>3
<1>5. (1..k) \ {k} = 1..(k - 1)
  <2>1. ASSUME NEW x \in Int PROVE x \in 1..k /\ x # k <=> x \in 1..(k - 1)
    BY <1>1
  <2>2. (\A x \in 1..k : x \in Int) /\ (\A x \in 1..(k - 1) : x \in Int)
    BY <1>1
  <2>. QED BY <2>1, <2>2
<1>. QED BY <1>1, <1>2, <1>4, <1>5

\* A function over sets of indices that refers to itself, as the library's folds do.
Iterates(g, n, D, base, F) ==
    /\ g \in [SUBSET (1..n) -> D]
    /\ g = [s \in SUBSET (1..n) |->
              IF s = {} THEN base ELSE F[<<g[s \ {Max(s)}], Max(s)>>]]

\* There is one.
LEMMA FoldExists ==
    ASSUME NEW n \in Nat, NEW D, NEW base \in D, NEW F \in [D \X (1..n) -> D]
    PROVE  \E g : Iterates(g, n, D, base, F)
<1>. DEFINE Next1(g, s) == IF s = {} THEN base ELSE F[<<g[s \ {Max(s)}], Max(s)>>]
            Solves(g, k) == /\ g \in [SUBSET (1..k) -> D]
                            /\ \A s \in SUBSET (1..k) : g[s] = Next1(g, s)
            T == { k \in Nat : k <= n => \E g : Solves(g, k) }
<1>1. 0 \in T
  <2>. DEFINE g == [s \in SUBSET (1..0) |-> base]
  <2>1. \A s \in SUBSET (1..0) : s = {}
    OBVIOUS
  <2>2. Solves(g, 0)
    BY <2>1
  <2>. QED BY <2>2
<1>2. ASSUME NEW k \in T PROVE k + 1 \in T
  <2>0. k \in Nat /\ (k <= n => \E g : Solves(g, k))
    <3>. HIDE DEF Solves
    <3>. QED OBVIOUS
  <2>a. SUFFICES ASSUME k + 1 <= n PROVE \E g : Solves(g, k + 1)
    <3>. HIDE DEF Solves
    <3>. QED BY <2>0
  <2>b. k <= n
    BY <2>0, <2>a
  <2>1. PICK g : Solves(g, k)
    <3>. HIDE DEF Solves
    <3>. QED BY <2>0, <2>b
  <2>2. k \in Nat /\ k + 1 \in 1..n /\ k + 1 \in Nat
    BY <2>0, <2>a
  <2>. DEFINE h == [s \in SUBSET (1..(k + 1)) |->
                      IF k + 1 \in s THEN F[<<g[s \ {k + 1}], k + 1>>] ELSE g[s]]
  <2>3. \A s \in SUBSET (1..(k + 1)) : s \ {k + 1} \in SUBSET (1..k)
    BY <2>2
  <2>4. g \in [SUBSET (1..k) -> D]
    BY <2>1
  <2>5. h \in [SUBSET (1..(k + 1)) -> D]
    <3>1. ASSUME NEW s \in SUBSET (1..(k + 1)) PROVE h[s] \in D
      <4>1. s \ {k + 1} \in SUBSET (1..k)
        BY <2>3
      <4>2. CASE k + 1 \in s
        <5>1. g[s \ {k + 1}] \in D
          BY <2>4, <4>1
        <5>. QED BY <2>2, <4>2, <5>1
      <4>3. CASE k + 1 \notin s
        <5>1. s \in SUBSET (1..k)
          BY <4>1, <4>3
        <5>. QED BY <2>4, <4>3, <5>1
      <4>. QED BY <4>2, <4>3
    <3>. QED BY <3>1
  <2>6. ASSUME NEW s \in SUBSET (1..(k + 1)) PROVE h[s] = Next1(h, s)
    <3>0. s \ {k + 1} \in SUBSET (1..k)
      BY <2>3
    <3>1. CASE k + 1 \in s
      <4>1. Max(s) \in s /\ k + 1 <= Max(s)
        BY <2>2, <3>1, GreatestOf
      <4>2. Max(s) = k + 1
        <5>1. Max(s) \in 1..(k + 1)
          BY <4>1
        <5>. QED BY <2>2, <4>1, <5>1
      <4>3. s \ {k + 1} \in SUBSET (1..(k + 1)) /\ k + 1 \notin s \ {k + 1}
        OBVIOUS
      <4>4. h[s \ {k + 1}] = g[s \ {k + 1}]
        BY <4>3
      <4>5. h[s] = F[<<g[s \ {k + 1}], k + 1>>]
        BY <3>1
      <4>. HIDE DEF h
      <4>. QED BY <3>1, <4>2, <4>4, <4>5
    <3>2. CASE k + 1 \notin s
      <4>1. s \in SUBSET (1..k)
        BY <3>0, <3>2
      <4>2. h[s] = g[s]
        BY <3>2
      <4>3. g[s] = Next1(g, s)
        BY <2>1, <4>1
      <4>4. CASE s = {}
        <5>. HIDE DEF h
        <5>. QED BY <4>2, <4>3, <4>4
      <4>5. CASE s # {}
        <5>1. k + 1 \notin s \ {Max(s)} /\ s \ {Max(s)} \in SUBSET (1..(k + 1))
          BY <3>2
        <5>2. h[s \ {Max(s)}] = g[s \ {Max(s)}]
          BY <5>1
        <5>. HIDE DEF h
        <5>. QED BY <4>2, <4>3, <4>5, <5>2
      <4>. QED BY <4>4, <4>5
    <3>. QED BY <3>1, <3>2
  <2>. HIDE DEF h, Next1
  <2>7. Solves(h, k + 1)
    BY <2>5, <2>6
  <2>. QED BY <2>7
<1>3. T = Nat
  <2>. HIDE DEF T
  <2>1. T \in SUBSET Nat
    BY DEF T
  <2>. QED BY <1>1, <1>2, <2>1, AllNumbers
<1>4. PICK g : Solves(g, n)
  <2>1. n <= n => \E g : Solves(g, n)
    <3>1. n \in T
      BY <1>3
    <3>. HIDE DEF Solves
    <3>. QED BY <3>1
  <2>2. n <= n
    OBVIOUS
  <2>. HIDE DEF Solves
  <2>. QED BY <2>1, <2>2
<1>5. g = [s \in SUBSET (1..n) |-> Next1(g, s)]
  <2>. HIDE DEF Next1
  <2>. QED BY <1>4
<1>. QED BY <1>4, <1>5 DEF Iterates

-------------------------------------------------------------------------------
(* Folds are one turn after another.                                       *)

\* The subscribers of one slot.
LEMMA EnqueueFold ==
    ASSUME NEW D, NEW base \in D, NEW order, Len(order) \in Nat,
           DOMAIN order = 1..Len(order),
           \A q \in D : \A k \in 1..Len(order) : Enqueue(q, order[k]) \in D
    PROVE  \E turn : /\ turn \in [0..Len(order) -> D]
                     /\ turn[0] = base
                     /\ \A k \in 1..Len(order) : turn[k] = Enqueue(turn[k - 1], order[k])
                     /\ turn[Len(order)] = FoldLeft(Enqueue, base, order)
<1>. DEFINE n == Len(order)
            F == [x \in D \X (1..n) |-> Enqueue(x[1], order[x[2]])]
            Eq(g) == g = [s \in SUBSET (1..n) |->
                            IF s = {} THEN base
                            ELSE Enqueue(g[s \ {Max(s)}], order[Max(s)])]
            iter == CHOOSE g : Eq(g)
<1>1. F \in [D \X (1..n) -> D]
  OBVIOUS
<1>2. \E g : Eq(g)
  <2>. HIDE DEF F
  <2>1. PICK g : Iterates(g, n, D, base, F)
    <3>1. n \in Nat
      OBVIOUS
    <3>. HIDE DEF n
    <3>. QED BY <1>1, <3>1, FoldExists
  <2>a. /\ g \in [SUBSET (1..n) -> D]
        /\ g = [s \in SUBSET (1..n) |->
                  IF s = {} THEN base ELSE F[<<g[s \ {Max(s)}], Max(s)>>]]
    BY <2>1 DEF Iterates
  <2>2. ASSUME NEW s \in SUBSET (1..n), s # {}
        PROVE  F[<<g[s \ {Max(s)}], Max(s)>>] = Enqueue(g[s \ {Max(s)}], order[Max(s)])
    <3>1. Max(s) \in 1..n
      <4>1. Max(s) \in s
        BY <2>2, GreatestOf
      <4>. QED BY <4>1
    <3>2. g[s \ {Max(s)}] \in D
      <4>1. s \ {Max(s)} \in SUBSET (1..n)
        OBVIOUS
      <4>. QED BY <2>a, <4>1
    <3>. QED BY <3>1, <3>2 DEF F
  <2>3. Eq(g)
    BY <2>a, <2>2
  <2>. QED BY <2>3
<1>3. Eq(iter)
  <2>. HIDE DEF Eq
  <2>. QED BY <1>2
<1>4. FoldLeft(Enqueue, base, order) = iter[1..n]
  BY DEF FoldLeft, MapThenFoldSet, Max, Max
<1>. HIDE DEF iter
<1>5. iter[1..0] = base
  <2>1. 1..0 = {} /\ {} \in SUBSET (1..n)
    OBVIOUS
  <2>. QED BY <1>3, <2>1
<1>6. ASSUME NEW k \in 1..n PROVE iter[1..k] = Enqueue(iter[1..(k - 1)], order[k])
  <2>1. /\ 1..k \in SUBSET (1..n) /\ 1..k # {}
        /\ Max(1..k) = k /\ (1..k) \ {k} = 1..(k - 1)
    <3>1. n \in Nat
      OBVIOUS
    <3>. HIDE DEF n, Eq
    <3>. QED BY <3>1, LastOfPrefix
  <2>2. iter[1..k] = IF 1..k = {} THEN base ELSE Enqueue(iter[(1..k) \ {Max(1..k)}], order[Max(1..k)])
    BY <1>3, <2>1
  <2>. QED BY <2>1, <2>2
<1>7. \A k \in 0..n : iter[1..k] \in D
  <2>. DEFINE T == { k \in Nat : k <= n => iter[1..k] \in D }
  <2>1. 0 \in T
    BY <1>5
  <2>2. ASSUME NEW k \in T PROVE k + 1 \in T
    <3>1. CASE k + 1 <= n
      <4>1. k + 1 \in 1..n /\ (k + 1) - 1 = k /\ iter[1..k] \in D
        BY <3>1
      <4>2. iter[1..(k + 1)] = Enqueue(iter[1..k], order[k + 1])
        BY <1>6, <4>1
      <4>. QED BY <4>1, <4>2
    <3>. QED BY <3>1
  <2>3. T = Nat
    <3>. HIDE DEF T
    <3>1. T \in SUBSET Nat
      BY DEF T
    <3>. QED BY <2>1, <2>2, <3>1, AllNumbers
  <2>. QED BY <2>3
<1>. DEFINE turn == [k \in 0..n |-> iter[1..k]]
<1>8. \A k \in 1..n : turn[k] = Enqueue(turn[k - 1], order[k])
  <2>1. \A k \in 1..n : k \in 0..n /\ k - 1 \in 0..n
    OBVIOUS
  <2>. QED BY <1>6, <2>1
<1>9. turn \in [0..n -> D] /\ turn[0] = base /\ turn[n] = iter[1..n]
  BY <1>5, <1>7
<1>. HIDE DEF turn
<1>. QED BY <1>4, <1>8, <1>9

EnqueueIf(q, slot, changed) ==
    IF slot \in changed THEN EnqueueSubscribers(q, slot) ELSE q

\* Several slots.
LEMMA ChangedFold ==
    ASSUME NEW changed, NEW D, NEW base \in D, NEW order, Len(order) \in Nat,
           DOMAIN order = 1..Len(order),
           \A q \in D : \A k \in 1..Len(order) : EnqueueIf(q, order[k], changed) \in D
    PROVE  \E turn : /\ turn \in [0..Len(order) -> D]
                     /\ turn[0] = base
                     /\ \A k \in 1..Len(order) : turn[k] = EnqueueIf(turn[k - 1], order[k], changed)
                     /\ turn[Len(order)] = EnqueueAll(base, order, changed)
<1>. DEFINE n == Len(order)
            F == [x \in D \X (1..n) |-> EnqueueIf(x[1], order[x[2]], changed)]
            Eq(g) == g = [s \in SUBSET (1..n) |->
                            IF s = {} THEN base
                            ELSE EnqueueIf(g[s \ {Max(s)}], order[Max(s)], changed)]
            iter == CHOOSE g : Eq(g)
<1>1. F \in [D \X (1..n) -> D]
  OBVIOUS
<1>2. \E g : Eq(g)
  <2>. HIDE DEF F
  <2>1. PICK g : Iterates(g, n, D, base, F)
    <3>1. n \in Nat
      OBVIOUS
    <3>. HIDE DEF n
    <3>. QED BY <1>1, <3>1, FoldExists
  <2>a. /\ g \in [SUBSET (1..n) -> D]
        /\ g = [s \in SUBSET (1..n) |->
                  IF s = {} THEN base ELSE F[<<g[s \ {Max(s)}], Max(s)>>]]
    BY <2>1 DEF Iterates
  <2>2. ASSUME NEW s \in SUBSET (1..n), s # {}
        PROVE  F[<<g[s \ {Max(s)}], Max(s)>>] = EnqueueIf(g[s \ {Max(s)}], order[Max(s)], changed)
    <3>1. Max(s) \in 1..n
      <4>1. Max(s) \in s
        BY <2>2, GreatestOf
      <4>. QED BY <4>1
    <3>2. g[s \ {Max(s)}] \in D
      <4>1. s \ {Max(s)} \in SUBSET (1..n)
        OBVIOUS
      <4>. QED BY <2>a, <4>1
    <3>. QED BY <3>1, <3>2 DEF F
  <2>3. Eq(g)
    BY <2>a, <2>2
  <2>. QED BY <2>3
<1>3. Eq(iter)
  <2>. HIDE DEF Eq
  <2>. QED BY <1>2
<1>4. EnqueueAll(base, order, changed) = iter[1..n]
  BY DEF EnqueueAll, EnqueueIf, FoldLeft, MapThenFoldSet, Max, Max
<1>. HIDE DEF iter
<1>5. iter[1..0] = base
  <2>1. 1..0 = {} /\ {} \in SUBSET (1..n)
    OBVIOUS
  <2>. QED BY <1>3, <2>1
<1>6. ASSUME NEW k \in 1..n PROVE iter[1..k] = EnqueueIf(iter[1..(k - 1)], order[k], changed)
  <2>1. /\ 1..k \in SUBSET (1..n) /\ 1..k # {}
        /\ Max(1..k) = k /\ (1..k) \ {k} = 1..(k - 1)
    <3>1. n \in Nat
      OBVIOUS
    <3>. HIDE DEF n, Eq
    <3>. QED BY <3>1, LastOfPrefix
  <2>2. iter[1..k] = IF 1..k = {} THEN base ELSE EnqueueIf(iter[(1..k) \ {Max(1..k)}], order[Max(1..k)], changed)
    BY <1>3, <2>1
  <2>. QED BY <2>1, <2>2
<1>7. \A k \in 0..n : iter[1..k] \in D
  <2>. DEFINE T == { k \in Nat : k <= n => iter[1..k] \in D }
  <2>1. 0 \in T
    BY <1>5
  <2>2. ASSUME NEW k \in T PROVE k + 1 \in T
    <3>1. CASE k + 1 <= n
      <4>1. k + 1 \in 1..n /\ (k + 1) - 1 = k /\ iter[1..k] \in D
        BY <3>1
      <4>2. iter[1..(k + 1)] = EnqueueIf(iter[1..k], order[k + 1], changed)
        BY <1>6, <4>1
      <4>. QED BY <4>1, <4>2
    <3>. QED BY <3>1
  <2>3. T = Nat
    <3>. HIDE DEF T
    <3>1. T \in SUBSET Nat
      BY DEF T
    <3>. QED BY <2>1, <2>2, <3>1, AllNumbers
  <2>. QED BY <2>3
<1>. DEFINE turn == [k \in 0..n |-> iter[1..k]]
<1>8. \A k \in 1..n : turn[k] = EnqueueIf(turn[k - 1], order[k], changed)
  <2>1. \A k \in 1..n : k \in 0..n /\ k - 1 \in 0..n
    OBVIOUS
  <2>. QED BY <1>6, <2>1
<1>9. turn \in [0..n -> D] /\ turn[0] = base /\ turn[n] = iter[1..n]
  BY <1>5, <1>7
<1>. HIDE DEF turn
<1>. QED BY <1>4, <1>8, <1>9

-------------------------------------------------------------------------------
(* Functions on 1..n that refer to their value before.                     *)

Runs(g, n, D, first, F) ==
    /\ g \in [1..n -> D]
    /\ g = [i \in 1..n |-> IF i = 1 THEN first ELSE F[<<g[i - 1], i>>]]

\* There is one.
LEMMA RunExists ==
    ASSUME NEW n \in Nat, NEW D, NEW first \in D, NEW F \in [D \X (1..n) -> D]
    PROVE  \E g : Runs(g, n, D, first, F)
<1>. DEFINE Value(g, i) == IF i = 1 THEN first ELSE F[<<g[i - 1], i>>]
            Solves(g, k) == /\ g \in [1..k -> D]
                            /\ \A i \in 1..k : g[i] = Value(g, i)
            T == { k \in Nat : k <= n => \E g : Solves(g, k) }
<1>1. 0 \in T
  <2>. DEFINE g == [i \in 1..0 |-> first]
  <2>1. Solves(g, 0)
    OBVIOUS
  <2>. QED BY <2>1
<1>2. ASSUME NEW k \in T PROVE k + 1 \in T
  <2>0. k \in Nat /\ (k <= n => \E g : Solves(g, k))
    <3>. HIDE DEF Solves
    <3>. QED OBVIOUS
  <2>a. SUFFICES ASSUME k + 1 <= n PROVE \E g : Solves(g, k + 1)
    <3>. HIDE DEF Solves
    <3>. QED BY <2>0
  <2>b. k <= n
    BY <2>0, <2>a
  <2>1. PICK g : Solves(g, k)
    <3>. HIDE DEF Solves
    <3>. QED BY <2>0, <2>b
  <2>. DEFINE h == [i \in 1..(k + 1) |-> IF i = k + 1 THEN Value(g, k + 1) ELSE g[i]]
  <2>2. Value(g, k + 1) \in D
    <3>1. CASE k = 0
      BY <3>1
    <3>2. CASE k # 0
      <4>1. k \in 1..k /\ k + 1 # 1 /\ (k + 1) - 1 = k /\ k + 1 \in 1..n
        BY <2>0, <2>a, <3>2
      <4>2. g[k] \in D
        BY <2>1, <4>1
      <4>. QED BY <4>1, <4>2
    <3>. QED BY <3>1, <3>2
  <2>3. h \in [1..(k + 1) -> D]
    <3>1. ASSUME NEW i \in 1..(k + 1) PROVE h[i] \in D
      <4>1. CASE i = k + 1
        <5>. HIDE DEF Value
        <5>. QED BY <2>2, <4>1
      <4>2. CASE i # k + 1
        <5>1. i \in 1..k
          BY <2>0, <4>2
        <5>2. g[i] \in D
          BY <2>1, <5>1
        <5>. HIDE DEF Value
        <5>. QED BY <4>2, <5>2
      <4>. QED BY <4>1, <4>2
    <3>. HIDE DEF h
    <3>. QED BY <3>1 DEF h
  <2>4. ASSUME NEW i \in 1..(k + 1) PROVE h[i] = Value(h, i)
    <3>1. i - 1 \in 1..(k + 1) => h[i - 1] = g[i - 1]
      <4>1. i - 1 # k + 1
        BY <2>0
      <4>. HIDE DEF Value
      <4>. QED BY <4>1
    <3>2. i # 1 => i - 1 \in 1..(k + 1)
      BY <2>0
    <3>3. Value(h, i) = Value(g, i)
      <4>. HIDE DEF h
      <4>. QED BY <3>1, <3>2
    <3>4. h[i] = Value(g, i)
      <4>1. CASE i = k + 1
        <5>. HIDE DEF Value
        <5>. QED BY <4>1
      <4>2. CASE i # k + 1
        <5>1. i \in 1..k
          BY <2>0, <4>2
        <5>2. g[i] = Value(g, i)
          BY <2>1, <5>1
        <5>. HIDE DEF Value
        <5>. QED BY <4>2, <5>2
      <4>. QED BY <4>1, <4>2
    <3>. HIDE DEF h, Value
    <3>. QED BY <3>3, <3>4
  <2>. HIDE DEF h, Value
  <2>5. Solves(h, k + 1)
    BY <2>3, <2>4
  <2>. QED BY <2>5
<1>3. T = Nat
  <2>. HIDE DEF T
  <2>1. T \in SUBSET Nat
    BY DEF T
  <2>. QED BY <1>1, <1>2, <2>1, AllNumbers
<1>4. PICK g : Solves(g, n)
  <2>1. n <= n => \E g : Solves(g, n)
    <3>1. n \in T
      BY <1>3
    <3>. HIDE DEF Solves
    <3>. QED BY <3>1
  <2>2. n <= n
    OBVIOUS
  <2>. HIDE DEF Solves
  <2>. QED BY <2>1, <2>2
<1>5. g = [i \in 1..n |-> Value(g, i)]
  <2>. HIDE DEF Value
  <2>. QED BY <1>4
<1>. QED BY <1>4, <1>5 DEF Runs

\* What is true of the first and passed on is true of all.
LEMMA AllOfRun ==
    ASSUME NEW n \in Nat, NEW good,
           1 \in 1..n => 1 \in good,
           \A i \in 1..n : i # 1 /\ i - 1 \in good => i \in good
    PROVE  \A i \in 1..n : i \in good
<1>. DEFINE T == { k \in Nat : k \in 1..n => k \in good }
<1>1. 0 \in T
  OBVIOUS
<1>2. ASSUME NEW k \in T PROVE k + 1 \in T
  <2>1. CASE k = 0
    BY <2>1
  <2>2. CASE k # 0
    <3>1. SUFFICES ASSUME k + 1 \in 1..n PROVE k + 1 \in good
      OBVIOUS
    <3>2. k \in 1..n /\ (k + 1) - 1 = k /\ k + 1 # 1
      BY <2>2, <3>1
    <3>. QED BY <3>1, <3>2
  <2>. QED BY <2>1, <2>2
<1>3. T = Nat
  <2>. HIDE DEF T
  <2>1. T \in SUBSET Nat
    BY DEF T
  <2>. QED BY <1>1, <1>2, <2>1, AllNumbers
<1>. QED BY <1>3

\* The concatenation of sequences over T is one.
LEMMA FlattenedSeq ==
    ASSUME NEW T, NEW seqs, Len(seqs) \in Nat, DOMAIN seqs = 1..Len(seqs),
           \A i \in 1..Len(seqs) : seqs[i] \in Seq(T),
           Len(seqs) = 0 => seqs \in Seq(T)
    PROVE  FlattenSeq(seqs) \in Seq(T)
<1>. DEFINE n == Len(seqs)
            F == [x \in Seq(T) \X (1..n) |-> x[1] \o seqs[x[2]]]
            Eq(g) == g = [i \in 1..n |-> IF i = 1 THEN seqs[i] ELSE g[i - 1] \o seqs[i]]
            flat == CHOOSE g : Eq(g)
<1>1. CASE n = 0
  BY <1>1 DEF FlattenSeq
<1>2. CASE n # 0
  <2>1. F \in [Seq(T) \X (1..n) -> Seq(T)]
    OBVIOUS
  <2>2. \E g : Eq(g)
    <3>1. PICK g : Runs(g, n, Seq(T), seqs[1], F)
      <4>1. n \in Nat /\ seqs[1] \in Seq(T)
        BY <1>2
      <4>. HIDE DEF n, F
      <4>. QED BY <2>1, <4>1, RunExists
    <3>2. ASSUME NEW i \in 1..n, i # 1 PROVE F[<<g[i - 1], i>>] = g[i - 1] \o seqs[i]
      <4>1. i - 1 \in 1..n
        BY <3>2
      <4>2. g[i - 1] \in Seq(T)
        BY <3>1, <4>1 DEF Runs
      <4>. QED BY <4>2
    <3>3. g = [i \in 1..n |-> IF i = 1 THEN seqs[1] ELSE F[<<g[i - 1], i>>]]
      <4>. HIDE DEF F, n
      <4>. QED BY <3>1 DEF Runs
    <3>4. Eq(g)
      <4>. HIDE DEF F, n
      <4>. QED BY <3>2, <3>3
    <3>. QED BY <3>4
  <2>3. Eq(flat)
    <3>. HIDE DEF Eq
    <3>. QED BY <2>2
  <2>4. FlattenSeq(seqs) = flat[n]
    BY <1>2 DEF FlattenSeq
  <2>. HIDE DEF flat
  <2>. DEFINE good == { i \in 1..n : flat[i] \in Seq(T) }
  <2>5. 1 \in 1..n => 1 \in good
    BY <2>3
  <2>6. \A i \in 1..n : i # 1 /\ i - 1 \in good => i \in good
    <3>1. ASSUME NEW i \in 1..n, i # 1, i - 1 \in good PROVE i \in good
      <4>1. flat[i - 1] \in Seq(T) /\ seqs[i] \in Seq(T)
        BY <3>1
      <4>2. flat[i] = flat[i - 1] \o seqs[i]
        BY <2>3, <3>1
      <4>3. flat[i] \in Seq(T)
        <5>. HIDE DEF good, n
        <5>. QED BY <4>1, <4>2
      <4>. QED BY <3>1, <4>3
    <3>. QED BY <3>1
  <2>7. n \in 1..n /\ n \in Nat
    BY <1>2
  <2>8. \A i \in 1..n : i \in good
    <3>. HIDE DEF good, n
    <3>. QED BY <2>5, <2>6, <2>7, AllOfRun
  <2>9. n \in good
    BY <2>7, <2>8
  <2>. QED BY <2>4, <2>9
<1>. QED BY <1>1, <1>2

-------------------------------------------------------------------------------
(* Indices of the ring.                                                    *)

Place(h, k) == (h + k) % B

LEMMA SmallRest ==
    ASSUME NEW b \in Nat \ {0}, NEW x \in 0..(b - 1)
    PROVE  x % b = x
  OBVIOUS

LEMMA OnceRound ==
    ASSUME NEW b \in Nat \ {0}, NEW x \in b..(2 * b - 1)
    PROVE  x % b = x - b
  OBVIOUS

LEMMA RoundBack ==
    ASSUME NEW b \in Nat \ {0}, NEW x \in (- b)..(- 1)
    PROVE  x % b = x + b
  OBVIOUS

\* A place by cases.
LEMMA PlaceIs ==
    ASSUME NEW h \in 0..(B - 1), NEW k \in 0..(B - 1)
    PROVE  /\ Place(h, k) = IF h + k < B THEN h + k ELSE h + k - B
           /\ Place(h, k) \in 0..(B - 1)
<1>1. B \in Nat \ {0}
  BY ReactiveAssumption
<1>2. h + k \in Int
  OBVIOUS
<1>3. CASE h + k < B
  <2>1. h + k \in 0..(B - 1)
    BY <1>1, <1>3
  <2>2. (h + k) % B = h + k
    BY <1>1, <2>1, SmallRest
  <2>. QED BY <1>3, <2>1, <2>2 DEF Place
<1>4. CASE ~ (h + k < B)
  <2>1. h + k \in B..(2 * B - 1) /\ h + k - B \in 0..(B - 1)
    BY <1>1, <1>4
  <2>2. (h + k) % B = h + k - B
    BY <1>1, <2>1, OnceRound
  <2>. QED BY <1>4, <2>1, <2>2 DEF Place
<1>. QED BY <1>3, <1>4

\* Different distances are different places.
LEMMA PlacesDiffer ==
    ASSUME NEW h \in 0..(B - 1), NEW k \in 0..(B - 1), NEW l \in 0..(B - 1),
           Place(h, k) = Place(h, l)
    PROVE  k = l
<1>1. B \in Nat
  BY ReactiveAssumption
<1>2. /\ Place(h, k) = IF h + k < B THEN h + k ELSE h + k - B
      /\ Place(h, l) = IF h + l < B THEN h + l ELSE h + l - B
  BY PlaceIs
<1>3. CASE h + k < B
  <2>1. h + k = IF h + l < B THEN h + l ELSE h + l - B
    BY <1>2, <1>3
  <2>. QED BY <1>1, <1>3, <2>1
<1>4. CASE ~ (h + k < B)
  <2>1. h + k - B = IF h + l < B THEN h + l ELSE h + l - B
    BY <1>2, <1>4
  <2>. QED BY <1>1, <1>4, <2>1
<1>. QED BY <1>3, <1>4

\* One further on is a place further from the head, or nearer to the next head.
LEMMA NextPlace ==
    ASSUME NEW h \in 0..(B - 1), NEW k \in Nat, k + 1 \in 0..(B - 1)
    PROVE  /\ (Place(h, k) + 1) % B = Place(h, k + 1)
           /\ Place((h + 1) % B, k) = Place(h, k + 1)
           /\ (h + 1) % B \in 0..(B - 1)
<1>1. B \in Nat \ {0} /\ k \in 0..(B - 1) /\ 1 \in 0..(B - 1)
  BY ReactiveAssumption
<1>2. Place(h, k) = IF h + k < B THEN h + k ELSE h + k - B
  BY <1>1, PlaceIs
<1>3. Place(h, k) \in 0..(B - 1)
  BY <1>1, PlaceIs
<1>4. Place(h, k + 1) = IF h + (k + 1) < B THEN h + (k + 1) ELSE h + (k + 1) - B
  BY <1>1, PlaceIs
<1>5. (Place(h, k) + 1) % B = IF Place(h, k) + 1 < B THEN Place(h, k) + 1 ELSE Place(h, k) + 1 - B
  <2>1. Place(Place(h, k), 1) = (Place(h, k) + 1) % B
    BY DEF Place
  <2>. QED BY <1>1, <1>3, <2>1, PlaceIs
<1>6. /\ (h + 1) % B = IF h + 1 < B THEN h + 1 ELSE h + 1 - B
      /\ (h + 1) % B \in 0..(B - 1)
  <2>1. Place(h, 1) = (h + 1) % B
    BY DEF Place
  <2>. QED BY <1>1, <2>1, PlaceIs
<1>7. Place((h + 1) % B, k) = IF ((h + 1) % B) + k < B THEN ((h + 1) % B) + k ELSE ((h + 1) % B) + k - B
  BY <1>1, <1>6, PlaceIs
<1>8. (Place(h, k) + 1) % B = Place(h, k + 1)
  BY <1>1, <1>2, <1>4, <1>5
<1>9. Place((h + 1) % B, k) = Place(h, k + 1)
  BY <1>1, <1>4, <1>6, <1>7
<1>. QED BY <1>6, <1>8, <1>9

\* How far the tail is.
LEMMA Distance ==
    ASSUME NEW h \in 0..(B - 1), NEW k \in 0..(B - 1)
    PROVE  (Place(h, k) - h) % B = k
<1>1. B \in Nat \ {0}
  BY ReactiveAssumption
<1>2. Place(h, k) = IF h + k < B THEN h + k ELSE h + k - B
  BY PlaceIs
<1>3. CASE h + k < B
  <2>1. Place(h, k) - h = k
    BY <1>1, <1>2, <1>3
  <2>. QED BY <1>1, <2>1, SmallRest
<1>4. CASE ~ (h + k < B)
  <2>1. Place(h, k) - h = k - B /\ k - B \in (- B)..(- 1) /\ k - B + B = k
    BY <1>1, <1>2, <1>4
  <2>2. (k - B) % B = k - B + B
    BY <1>1, <2>1, RoundBack
  <2>. QED BY <2>1, <2>2
<1>. QED BY <1>3, <1>4

-------------------------------------------------------------------------------
(* What the ring holds: n of m operations from its head on, each of them   *)
(* once, and those that in_queue marks.                                    *)

Rings(m) == [queue : [0..(B - 1) -> Int], tail : 0..(B - 1), in_queue : [1..m -> BOOLEAN]]

Holds(q, h, n, m) ==
    /\ q.tail = Place(h, n)
    /\ \A k \in 0..(n - 1) : /\ q.queue[Place(h, k)] \in 1..m
                             /\ q.in_queue[q.queue[Place(h, k)]]
    /\ \A k, l \in 0..(n - 1) : q.queue[Place(h, k)] = q.queue[Place(h, l)] => k = l
    /\ \A b \in 1..m : q.in_queue[b] => \E k \in 0..(n - 1) : q.queue[Place(h, k)] = b

HeldRings(h, m) == { q \in Rings(m) : \E n \in 0..m : Holds(q, h, n, m) }

\* There are m operations, so there is no room for more.
LEMMA NoMoreThan ==
    ASSUME NEW m \in Nat, NEW n \in Nat, NEW f \in [0..(n - 1) -> 1..m],
           \A k, l \in 0..(n - 1) : f[k] = f[l] => k = l
    PROVE  n <= m
<1>1. IsFiniteSet(1..m) /\ Cardinality(1..m) = m
  <2>1. Cardinality(1..m) = IF 1 > m THEN 0 ELSE m - 1 + 1
    BY FS_Interval
  <2>. QED BY <2>1, FS_Interval
<1>2. Cardinality(0..(n - 1)) = n
  <2>1. Cardinality(0..(n - 1)) = IF 0 > n - 1 THEN 0 ELSE (n - 1) - 0 + 1
    BY FS_Interval
  <2>. QED BY <2>1
<1>3. f \in Injection(0..(n - 1), 1..m)
  BY DEF Injection, IsInjective
<1>. QED BY <1>1, <1>2, <1>3, FS_Injection

\* An operation that is not in the ring finds a place in it.
LEMMA RoomForOne ==
    ASSUME NEW m \in Nat, m < B, NEW h \in 0..(B - 1), NEW n \in 0..m,
           NEW q \in Rings(m), Holds(q, h, n, m), NEW b \in 1..m, ~ q.in_queue[b]
    PROVE  n + 1 <= m
<1>1. B \in Nat \ {0}
  BY ReactiveAssumption
<1>. DEFINE at == [k \in 0..(n - 1) |-> q.queue[Place(h, k)]]
            f == [k \in 0..((n + 1) - 1) |-> IF k = n THEN b ELSE at[k]]
<1>2. \A k \in 0..(n - 1) : at[k] \in 1..m /\ at[k] # b
  BY DEF Holds
<1>3. \A k, l \in 0..(n - 1) : at[k] = at[l] => k = l
  BY DEF Holds
<1>. HIDE DEF at
<1>4. \A k \in 0..((n + 1) - 1) : k # n => k \in 0..(n - 1)
  OBVIOUS
<1>5. f \in [0..((n + 1) - 1) -> 1..m]
  BY <1>2, <1>4
<1>6. \A k, l \in 0..((n + 1) - 1) : f[k] = f[l] => k = l
  BY <1>2, <1>3, <1>4
<1>7. n + 1 \in Nat
  OBVIOUS
<1>. HIDE DEF f
<1>. QED BY <1>5, <1>6, <1>7, NoMoreThan

\* Enqueuing keeps that, and marks the operation.
LEMMA EnqueueHeld ==
    ASSUME NEW m \in Nat, m < B, NEW h \in 0..(B - 1),
           NEW q \in HeldRings(h, m), NEW b \in 1..m
    PROVE  /\ Enqueue(q, b) \in HeldRings(h, m)
           /\ \A c \in 1..m : Enqueue(q, b).in_queue[c] <=> q.in_queue[c] \/ c = b
<1>1. CASE q.in_queue[b]
  <2>1. Enqueue(q, b) = q
    BY <1>1 DEF Enqueue
  <2>. QED BY <1>1, <2>1
<1>2. CASE ~ q.in_queue[b]
  <2>. DEFINE r == Enqueue(q, b)
  <2>0. B \in Nat \ {0}
    BY ReactiveAssumption
  <2>1. PICK n \in 0..m : Holds(q, h, n, m)
    BY DEF HeldRings
  <2>2. q \in Rings(m)
    BY DEF HeldRings
  <2>3. n + 1 <= m /\ n \in Nat
    BY <1>2, <2>1, <2>2, RoomForOne
  <2>4. r = [queue |-> [q.queue EXCEPT ![q.tail] = b], tail |-> (q.tail + 1) % B,
             in_queue |-> [q.in_queue EXCEPT ![b] = TRUE]]
    BY <1>2 DEF Enqueue
  <2>5. q.tail = Place(h, n) /\ q.tail \in 0..(B - 1)
    BY <2>1, <2>2 DEF Holds, Rings
  <2>6. (q.tail + 1) % B = Place(h, n + 1) /\ Place(h, n + 1) \in 0..(B - 1)
    <3>1. n + 1 \in 0..(B - 1)
      BY <2>0, <2>3
    <3>. QED BY <2>3, <2>5, <3>1, NextPlace, PlaceIs
  <2>7. /\ q.queue \in [0..(B - 1) -> Int]
        /\ q.in_queue \in [1..m -> BOOLEAN]
    BY <2>2 DEF Rings
  <2>8. /\ r.queue = [q.queue EXCEPT ![q.tail] = b]
        /\ r.tail = (q.tail + 1) % B
        /\ r.in_queue = [q.in_queue EXCEPT ![b] = TRUE]
    BY <2>4
  <2>9. r.queue \in [0..(B - 1) -> Int] /\ r.in_queue \in [1..m -> BOOLEAN]
    BY <2>5, <2>7, <2>8
  <2>10. r \in Rings(m)
    <3>1. r = [queue |-> r.queue, tail |-> r.tail, in_queue |-> r.in_queue]
      BY <2>4
    <3>2. r.tail \in 0..(B - 1)
      BY <2>6, <2>8
    <3>. HIDE DEF r
    <3>. QED BY <2>9, <3>1, <3>2 DEF Rings
  <2>. HIDE DEF r
  <2>11. r.queue[Place(h, n)] = b
    BY <2>5, <2>7, <2>8
  <2>12. ASSUME NEW k \in 0..(n - 1)
         PROVE  r.queue[Place(h, k)] = q.queue[Place(h, k)]
    <3>1. k \in 0..(B - 1) /\ n \in 0..(B - 1) /\ k # n
      BY <2>0, <2>3
    <3>2. Place(h, k) # Place(h, n) /\ Place(h, k) \in 0..(B - 1)
      BY <3>1, PlacesDiffer, PlaceIs
    <3>. QED BY <2>5, <2>7, <2>8, <3>2
  <2>13. \A c \in 1..m : r.in_queue[c] <=> q.in_queue[c] \/ c = b
    BY <2>7, <2>8
  <2>14. \A k \in 0..((n + 1) - 1) : k # n => k \in 0..(n - 1)
    BY <2>3
  <2>15. /\ \A k \in 0..(n - 1) : q.queue[Place(h, k)] \in 1..m /\ q.in_queue[q.queue[Place(h, k)]]
         /\ \A k, l \in 0..(n - 1) : q.queue[Place(h, k)] = q.queue[Place(h, l)] => k = l
         /\ \A c \in 1..m : q.in_queue[c] => \E k \in 0..(n - 1) : q.queue[Place(h, k)] = c
    BY <2>1 DEF Holds
  <2>16. \A k \in 0..(n - 1) : q.queue[Place(h, k)] # b
    BY <1>2, <2>15
  <2>17. ASSUME NEW k \in 0..((n + 1) - 1)
         PROVE  r.queue[Place(h, k)] \in 1..m /\ r.in_queue[r.queue[Place(h, k)]]
    <3>1. CASE k = n
      BY <2>11, <2>13, <3>1
    <3>2. CASE k # n
      BY <2>12, <2>13, <2>14, <2>15, <3>2
    <3>. QED BY <3>1, <3>2
  <2>18. ASSUME NEW k \in 0..((n + 1) - 1), NEW l \in 0..((n + 1) - 1),
                r.queue[Place(h, k)] = r.queue[Place(h, l)]
         PROVE  k = l
    <3>1. CASE k = n /\ l # n
      BY <2>11, <2>12, <2>14, <2>16, <2>18, <3>1
    <3>2. CASE k # n /\ l = n
      BY <2>11, <2>12, <2>14, <2>16, <2>18, <3>2
    <3>3. CASE k # n /\ l # n
      BY <2>12, <2>14, <2>15, <2>18, <3>3
    <3>. QED BY <3>1, <3>2, <3>3
  <2>19. ASSUME NEW c \in 1..m, r.in_queue[c]
         PROVE  \E k \in 0..((n + 1) - 1) : r.queue[Place(h, k)] = c
    <3>1. CASE c = b
      <4>1. n \in 0..((n + 1) - 1)
        BY <2>3
      <4>. QED BY <2>11, <3>1, <4>1
    <3>2. CASE c # b
      <4>1. PICK k \in 0..(n - 1) : q.queue[Place(h, k)] = c
        BY <2>13, <2>15, <2>19, <3>2
      <4>2. k \in 0..((n + 1) - 1)
        BY <2>3
      <4>. QED BY <2>12, <4>1, <4>2
    <3>. QED BY <3>1, <3>2
  <2>20. Holds(r, h, n + 1, m)
    BY <2>6, <2>8, <2>17, <2>18, <2>19 DEF Holds
  <2>21. n + 1 \in 0..m
    BY <2>3
  <2>22. r \in HeldRings(h, m)
    BY <2>10, <2>20, <2>21 DEF HeldRings
  <2>. QED BY <2>13, <2>22 DEF r
<1>. QED BY <1>1, <1>2

\* A slot's subscribers: they are marked then, and nobody else newly is.
LEMMA SubscribersHeld ==
    ASSUME NEW m \in Nat, m < B, NEW h \in 0..(B - 1), NEW q \in HeldRings(h, m),
           NEW slot, subscribers[slot] \in Seq(1..m)
    PROVE  /\ EnqueueSubscribers(q, slot) \in HeldRings(h, m)
           /\ \A c \in 1..m : EnqueueSubscribers(q, slot).in_queue[c]
                                <=> q.in_queue[c] \/ c \in Range(subscribers[slot])
<1>. DEFINE subs == subscribers[slot]
            D == HeldRings(h, m)
<1>1. PICK list : list = subs
  OBVIOUS
<1>2. /\ Len(list) \in Nat /\ DOMAIN list = 1..Len(list)
      /\ \A k \in 1..Len(list) : list[k] \in 1..m
  BY <1>1
<1>3. \A r \in D : \A k \in 1..Len(list) : Enqueue(r, list[k]) \in D
  <2>. HIDE DEF D
  <2>. SUFFICES ASSUME NEW r \in D, NEW k \in 1..Len(list) PROVE Enqueue(r, list[k]) \in D
    OBVIOUS
  <2>. QED BY <1>2, EnqueueHeld DEF D
<1>. HIDE DEF D
<1>4. PICK turn : /\ turn \in [0..Len(list) -> D]
                  /\ turn[0] = q
                  /\ \A k \in 1..Len(list) : turn[k] = Enqueue(turn[k - 1], list[k])
                  /\ turn[Len(list)] = FoldLeft(Enqueue, q, list)
  <2>1. q \in D
    BY DEF D
  <2>. QED BY <1>2, <1>3, <2>1, EnqueueFold, ZenonT(60)
<1>5. EnqueueSubscribers(q, slot) = turn[Len(list)]
  BY <1>1, <1>4 DEF EnqueueSubscribers
<1>. DEFINE Marked(k) == \A c \in 1..m : turn[k].in_queue[c]
                            <=> q.in_queue[c] \/ \E i \in 1..k : list[i] = c
            T == { k \in Nat : k <= Len(list) => Marked(k) }
<1>6. 0 \in T
  BY <1>4
<1>7. ASSUME NEW k \in T PROVE k + 1 \in T
  <2>1. SUFFICES ASSUME k + 1 <= Len(list) PROVE Marked(k + 1)
    <3>. HIDE DEF Marked
    <3>. QED OBVIOUS
  <2>2. k \in Nat /\ k + 1 \in 1..Len(list) /\ (k + 1) - 1 = k /\ k \in 0..Len(list)
    BY <1>2, <2>1
  <2>3. Marked(k)
    <3>. HIDE DEF Marked
    <3>. QED BY <1>2, <2>1, <2>2
  <2>4. turn[k + 1] = Enqueue(turn[k], list[k + 1]) /\ turn[k] \in D
    BY <1>4, <2>2
  <2>5. list[k + 1] \in 1..m
    BY <1>2, <2>2
  <2>6. \A c \in 1..m : turn[k + 1].in_queue[c] <=> turn[k].in_queue[c] \/ c = list[k + 1]
    BY <2>4, <2>5, EnqueueHeld DEF D
  <2>7. ASSUME NEW c
        PROVE  (\E i \in 1..(k + 1) : list[i] = c) <=> (\E i \in 1..k : list[i] = c) \/ c = list[k + 1]
    <3>1. \A i \in 1..(k + 1) : i = k + 1 \/ i \in 1..k
      BY <2>2
    <3>2. \A i \in 1..k : i \in 1..(k + 1)
      BY <2>2
    <3>3. k + 1 \in 1..(k + 1)
      BY <2>2
    <3>. QED BY <3>1, <3>2, <3>3
  <2>. QED BY <2>3, <2>6, <2>7
<1>8. T = Nat
  <2>. HIDE DEF T
  <2>1. T \in SUBSET Nat
    BY DEF T
  <2>. QED BY <1>6, <1>7, <2>1, AllNumbers
<1>9. Marked(Len(list))
  <2>. HIDE DEF Marked
  <2>1. Len(list) \in T /\ Len(list) <= Len(list)
    BY <1>2, <1>8
  <2>. QED BY <2>1
<1>10. \A c : (\E i \in 1..Len(list) : list[i] = c) <=> c \in Range(subs)
  BY <1>1, <1>2 DEF Range
<1>11. turn[Len(list)] \in D
  BY <1>2, <1>4
<1>. QED BY <1>5, <1>9, <1>10, <1>11 DEF D

\* The subscribers of several slots, those of them that changed.
LEMMA AllHeld ==
    ASSUME NEW m \in Nat, m < B, NEW h \in 0..(B - 1), NEW q \in HeldRings(h, m),
           NEW changed, NEW slots, Len(slots) \in Nat, DOMAIN slots = 1..Len(slots),
           \A k \in 1..Len(slots) : subscribers[slots[k]] \in Seq(1..m)
    PROVE  /\ EnqueueAll(q, slots, changed) \in HeldRings(h, m)
           /\ \A c \in 1..m : EnqueueAll(q, slots, changed).in_queue[c]
                <=> \/ q.in_queue[c]
                    \/ \E k \in 1..Len(slots) : /\ slots[k] \in changed
                                                /\ c \in Range(subscribers[slots[k]])
<1>. DEFINE D == HeldRings(h, m)
<1>1. \A r \in D : \A k \in 1..Len(slots) : EnqueueIf(r, slots[k], changed) \in D
  <2>1. SUFFICES ASSUME NEW r \in D, NEW k \in 1..Len(slots)
                 PROVE  EnqueueIf(r, slots[k], changed) \in D
    <3>. HIDE DEF D
    <3>. QED OBVIOUS
  <2>2. EnqueueSubscribers(r, slots[k]) \in D
    BY SubscribersHeld
  <2>. HIDE DEF D
  <2>. QED BY <2>2 DEF EnqueueIf
<1>. HIDE DEF D
<1>2. PICK turn : /\ turn \in [0..Len(slots) -> D]
                  /\ turn[0] = q
                  /\ \A k \in 1..Len(slots) : turn[k] = EnqueueIf(turn[k - 1], slots[k], changed)
                  /\ turn[Len(slots)] = EnqueueAll(q, slots, changed)
  <2>1. q \in D
    BY DEF D
  <2>. QED BY <1>1, <2>1, ChangedFold, ZenonT(120)
<1>3. EnqueueAll(q, slots, changed) = turn[Len(slots)]
  BY <1>2
<1>4. \A k \in 1..Len(slots) : turn[k] = (IF slots[k] \in changed
                                          THEN EnqueueSubscribers(turn[k - 1], slots[k])
                                          ELSE turn[k - 1])
  BY <1>2 DEF EnqueueIf
<1>5. turn \in [0..Len(slots) -> D] /\ turn[0] = q
  BY <1>2
<1>. DEFINE By(c, i) == slots[i] \in changed /\ c \in Range(subscribers[slots[i]])
            Marked(k) == \A c \in 1..m : turn[k].in_queue[c]
                            <=> q.in_queue[c] \/ \E i \in 1..k : By(c, i)
            T == { k \in Nat : k <= Len(slots) => Marked(k) }
<1>6. 0 \in T
  BY <1>5
<1>7. ASSUME NEW k \in T PROVE k + 1 \in T
  <2>1. SUFFICES ASSUME k + 1 <= Len(slots) PROVE Marked(k + 1)
    <3>. HIDE DEF Marked
    <3>. QED OBVIOUS
  <2>2. k \in Nat /\ k + 1 \in 1..Len(slots) /\ (k + 1) - 1 = k /\ k \in 0..Len(slots)
    BY <2>1
  <2>3. Marked(k)
    <3>. HIDE DEF Marked
    <3>. QED BY <2>1, <2>2
  <2>4. turn[k] \in D
    BY <1>5, <2>2
  <2>5. turn[k + 1] = (IF slots[k + 1] \in changed
                       THEN EnqueueSubscribers(turn[k], slots[k + 1]) ELSE turn[k])
    BY <1>4, <2>2
  <2>6. ASSUME NEW c \in 1..m
        PROVE  turn[k + 1].in_queue[c] <=> turn[k].in_queue[c] \/ By(c, k + 1)
    <3>1. EnqueueSubscribers(turn[k], slots[k + 1]).in_queue[c]
            <=> turn[k].in_queue[c] \/ c \in Range(subscribers[slots[k + 1]])
      BY <2>2, <2>4, SubscribersHeld DEF D
    <3>2. CASE slots[k + 1] \in changed
      BY <2>5, <3>1, <3>2
    <3>3. CASE slots[k + 1] \notin changed
      BY <2>5, <3>3
    <3>. QED BY <3>2, <3>3
  <2>. HIDE DEF By
  <2>7. ASSUME NEW c
        PROVE  (\E i \in 1..(k + 1) : By(c, i)) <=> (\E i \in 1..k : By(c, i)) \/ By(c, k + 1)
    <3>1. \A i \in 1..(k + 1) : i = k + 1 \/ i \in 1..k
      BY <2>2
    <3>2. \A i \in 1..k : i \in 1..(k + 1)
      BY <2>2
    <3>3. k + 1 \in 1..(k + 1)
      BY <2>2
    <3>. QED BY <3>1, <3>2, <3>3
  <2>. QED BY <2>3, <2>6, <2>7
<1>8. T = Nat
  <2>. HIDE DEF T
  <2>1. T \in SUBSET Nat
    BY DEF T
  <2>. QED BY <1>6, <1>7, <2>1, AllNumbers
<1>9. Marked(Len(slots))
  <2>. HIDE DEF Marked
  <2>1. Len(slots) \in T /\ Len(slots) <= Len(slots)
    BY <1>8
  <2>. QED BY <2>1
<1>10. turn[Len(slots)] \in D
  BY <1>5
<1>11. ASSUME NEW c \in 1..m
       PROVE  EnqueueAll(q, slots, changed).in_queue[c]
                <=> q.in_queue[c] \/ \E i \in 1..Len(slots) : By(c, i)
  <2>. HIDE DEF By
  <2>. QED BY <1>3, <1>9
<1>. QED BY <1>3, <1>10, <1>11 DEF D

\* A dequeue takes one operation out, and its mark off.
LEMMA DequeueHeld ==
    ASSUME NEW m \in Nat, m < B, NEW h \in 0..(B - 1), NEW q \in HeldRings(h, m), h # q.tail
    PROVE  /\ q.queue[h] \in 1..m /\ q.in_queue[q.queue[h]]
           /\ [q EXCEPT !.in_queue[q.queue[h]] = FALSE] \in HeldRings((h + 1) % B, m)
           /\ (h + 1) % B \in 0..(B - 1)
           /\ \A c \in 1..m : [q EXCEPT !.in_queue[q.queue[h]] = FALSE].in_queue[c]
                                 <=> q.in_queue[c] /\ c # q.queue[h]
<1>. DEFINE i == q.queue[h]
            r == [q EXCEPT !.in_queue[q.queue[h]] = FALSE]
            g == (h + 1) % B
<1>0. B \in Nat \ {0}
  BY ReactiveAssumption
<1>1. PICK n \in 0..m : Holds(q, h, n, m)
  BY DEF HeldRings
<1>2. q \in Rings(m)
  BY DEF HeldRings
<1>3. Place(h, 0) = h
  <2>1. 0 \in 0..(B - 1) /\ h + 0 = h /\ h < B
    BY <1>0
  <2>. QED BY <2>1, PlaceIs
<1>4. /\ q.tail = Place(h, n)
      /\ \A k \in 0..(n - 1) : q.queue[Place(h, k)] \in 1..m /\ q.in_queue[q.queue[Place(h, k)]]
      /\ \A k, l \in 0..(n - 1) : q.queue[Place(h, k)] = q.queue[Place(h, l)] => k = l
      /\ \A c \in 1..m : q.in_queue[c] => \E k \in 0..(n - 1) : q.queue[Place(h, k)] = c
  BY <1>1 DEF Holds
<1>5. n # 0 /\ n \in Nat /\ n - 1 \in 0..m /\ 0 \in 0..(n - 1) /\ n \in 0..(B - 1)
  BY <1>0, <1>3, <1>4
<1>6. i \in 1..m /\ q.in_queue[i]
  BY <1>3, <1>4, <1>5
<1>7. g \in 0..(B - 1) /\ \A k \in 0..((n - 1) - 1) : Place(g, k) = Place(h, k + 1)
  <2>1. ASSUME NEW k \in Nat, k + 1 \in 0..(B - 1)
        PROVE  Place(g, k) = Place(h, k + 1) /\ g \in 0..(B - 1)
    BY <2>1, NextPlace
  <2>2. \A k \in 0..((n - 1) - 1) : k \in Nat /\ k + 1 \in 0..(B - 1)
    BY <1>0, <1>5
  <2>3. n - 1 \in Nat /\ (n - 1) + 1 \in 0..(B - 1)
    BY <1>0, <1>5
  <2>. QED BY <2>1, <2>2, <2>3
<1>8. Place(g, n - 1) = Place(h, n)
  <2>1. n - 1 \in Nat /\ (n - 1) + 1 = n
    BY <1>5
  <2>. QED BY <1>5, <2>1, NextPlace
<1>9. q = [queue |-> q.queue, tail |-> q.tail, in_queue |-> q.in_queue]
      /\ q.queue \in [0..(B - 1) -> Int] /\ q.tail \in 0..(B - 1) /\ q.in_queue \in [1..m -> BOOLEAN]
  BY <1>2 DEF Rings
<1>10. /\ r.queue = q.queue /\ r.tail = q.tail
       /\ r.in_queue = [q.in_queue EXCEPT ![i] = FALSE]
  <2>1. q \in [queue : [0..(B - 1) -> Int], tail : 0..(B - 1), in_queue : [1..m -> BOOLEAN]]
    BY <1>2 DEF Rings
  <2>. QED BY <2>1
<1>11. r \in Rings(m)
  BY <1>2, <1>6 DEF Rings
<1>12. \A c \in 1..m : r.in_queue[c] <=> q.in_queue[c] /\ c # i
  BY <1>6, <1>9, <1>10
<1>. HIDE DEF r, g
<1>13. \A k \in 0..((n - 1) - 1) : r.queue[Place(g, k)] = q.queue[Place(h, k + 1)]
  BY <1>7, <1>10
<1>14. \A k \in 0..((n - 1) - 1) : k + 1 \in 0..(n - 1) /\ k + 1 # 0
  BY <1>5
<1>15. ASSUME NEW k \in 0..((n - 1) - 1)
       PROVE  r.queue[Place(g, k)] \in 1..m /\ r.in_queue[r.queue[Place(g, k)]]
  <2>1. /\ q.queue[Place(h, k + 1)] \in 1..m /\ q.in_queue[q.queue[Place(h, k + 1)]]
        /\ q.queue[Place(h, k + 1)] # i
    BY <1>3, <1>4, <1>5, <1>14
  <2>. HIDE DEF i
  <2>. QED BY <1>12, <1>13, <2>1
<1>16. ASSUME NEW k \in 0..((n - 1) - 1), NEW l \in 0..((n - 1) - 1),
              r.queue[Place(g, k)] = r.queue[Place(g, l)]
       PROVE  k = l
  <2>1. k + 1 = l + 1
    BY <1>4, <1>13, <1>14, <1>16
  <2>. QED BY <2>1
<1>17. ASSUME NEW c \in 1..m, r.in_queue[c]
       PROVE  \E k \in 0..((n - 1) - 1) : r.queue[Place(g, k)] = c
  <2>1. PICK k \in 0..(n - 1) : q.queue[Place(h, k)] = c
    BY <1>4, <1>12, <1>17
  <2>2. k # 0
    BY <1>3, <1>12, <1>17, <2>1
  <2>3. k - 1 \in 0..((n - 1) - 1) /\ (k - 1) + 1 = k
    BY <1>5, <2>2
  <2>4. r.queue[Place(g, k - 1)] = c
    BY <1>13, <2>1, <2>3
  <2>. QED BY <2>3, <2>4
<1>18. Holds(r, g, n - 1, m)
  BY <1>4, <1>8, <1>10, <1>15, <1>16, <1>17 DEF Holds
<1>19. r \in HeldRings(g, m)
  BY <1>5, <1>11, <1>18 DEF HeldRings
<1>. QED BY <1>6, <1>7, <1>12, <1>19 DEF r, g

-------------------------------------------------------------------------------
(* What compile() makes of a program.                                      *)

Codes == {"constant", "add", "mul", "sub", "clamp", "read", "encoder_read", "nop", "write"}

WellFormed(bs) ==
    /\ Len(bs) \in Nat /\ Len(bs) < B /\ DOMAIN bs = 1..Len(bs)
    /\ \A i \in 1..Len(bs) :
          /\ bs[i].code.op \in Codes
          /\ bs[i].code.op = "constant" => bs[i].code.value \in Int
          /\ bs[i].code.op = "clamp" => {bs[i].code.lo, bs[i].code.hi} \subseteq Int
          /\ bs[i].input_slots \in Seq(Nat)
          /\ Len(bs[i].input_slots) = Arity(bs[i].code)
          /\ bs[i].output_slots \in Seq(Nat \ {0})
          /\ Len(bs[i].output_slots) = ResultCount(bs[i].code)
    /\ \A i \in 1..Len(bs) : \A a \in 1..Len(bs[i].input_slots) :
          \/ bs[i].input_slots[a] = 0
          \/ \E j \in 1..(i - 1) : bs[i].input_slots[a] \in Range(bs[j].output_slots)
    /\ \A i, j \in 1..Len(bs) :
          \A k \in 1..Len(bs[i].output_slots), l \in 1..Len(bs[j].output_slots) :
              bs[i].output_slots[k] = bs[j].output_slots[l] => i = j /\ k = l

\* How the slots are counted.
LEMMA CountsAre ==
    ASSUME NEW p, Len(p) \in Nat
    PROVE  /\ SlotCounts(p)[1] = 1
           /\ \A i \in 1..Len(p) :
                 /\ SlotCounts(p)[i] \in Nat \ {0}
                 /\ SlotCounts(p)[i + 1] = SlotCounts(p)[i] + ResultCount(p[i])
<1>. DEFINE n == Len(p) + 1
            F == [x \in Nat \X (1..n) |-> x[1] + ResultCount(p[x[2] - 1])]
            Eq(g) == g = [i \in 1..(Len(p) + 1) |->
                             IF i = 1 THEN 1 ELSE g[i - 1] + ResultCount(p[i - 1])]
            count == CHOOSE g : Eq(g)
<1>1. \A o : ResultCount(o) \in Nat
  BY DEF ResultCount
<1>2. F \in [Nat \X (1..n) -> Nat]
  BY <1>1
<1>3. \E g : Eq(g)
  <2>1. PICK g : Runs(g, n, Nat, 1, F)
    <3>1. n \in Nat /\ 1 \in Nat
      OBVIOUS
    <3>. HIDE DEF n, F
    <3>. QED BY <1>2, <3>1, RunExists
  <2>2. ASSUME NEW i \in 1..n, i # 1 PROVE F[<<g[i - 1], i>>] = g[i - 1] + ResultCount(p[i - 1])
    <3>1. i - 1 \in 1..n
      BY <2>2
    <3>2. g[i - 1] \in Nat
      BY <2>1, <3>1 DEF Runs
    <3>. QED BY <3>2
  <2>3. g = [i \in 1..n |-> IF i = 1 THEN 1 ELSE F[<<g[i - 1], i>>]]
    <3>. HIDE DEF F, n
    <3>. QED BY <2>1 DEF Runs
  <2>4. g = [i \in 1..n |-> IF i = 1 THEN 1 ELSE g[i - 1] + ResultCount(p[i - 1])]
    <3>. HIDE DEF F, n
    <3>. QED BY <2>2, <2>3
  <2>. QED BY <2>4
<1>4. Eq(count)
  <2>. HIDE DEF Eq
  <2>. QED BY <1>3
<1>5. SlotCounts(p) = count
  BY DEF SlotCounts
<1>. HIDE DEF count
<1>6. count[1] = 1
  BY <1>4
<1>7. ASSUME NEW i \in 1..Len(p) PROVE count[i + 1] = count[i] + ResultCount(p[i])
  <2>1. i + 1 \in 1..(Len(p) + 1) /\ i + 1 # 1 /\ (i + 1) - 1 = i
    OBVIOUS
  <2>. QED BY <1>4, <2>1
<1>. DEFINE good == { i \in 1..Len(p) : count[i] \in Nat \ {0} }
<1>8. \A i \in 1..Len(p) : i # 1 /\ i - 1 \in good => i \in good
  <2>1. ASSUME NEW i \in 1..Len(p), i # 1, i - 1 \in good PROVE i \in good
    <3>1. i - 1 \in 1..Len(p) /\ (i - 1) + 1 = i /\ count[i - 1] \in Nat \ {0}
      BY <2>1
    <3>2. count[i] = count[i - 1] + ResultCount(p[i - 1])
      BY <1>7, <3>1
    <3>3. ResultCount(p[i - 1]) \in Nat
      BY <1>1
    <3>4. count[i] \in Nat \ {0}
      BY <3>1, <3>2, <3>3
    <3>. QED BY <3>4
  <2>. QED BY <2>1
<1>9. 1 \in 1..Len(p) => 1 \in good
  BY <1>6
<1>10. \A i \in 1..Len(p) : i \in good
  <2>. HIDE DEF good
  <2>. QED BY <1>8, <1>9, AllOfRun
<1>. QED BY <1>5, <1>6, <1>7, <1>10

\* Later operations have later slots.
LEMMA CountsGrow ==
    ASSUME NEW p, Len(p) \in Nat, NEW j \in 1..Len(p)
    PROVE  \A i \in 1..Len(p) :
              j < i => SlotCounts(p)[j] + ResultCount(p[j]) <= SlotCounts(p)[i]
<1>1. PICK count : count = SlotCounts(p)
  OBVIOUS
<1>2. \A i \in 1..Len(p) : /\ count[i] \in Nat \ {0}
                           /\ count[i + 1] = count[i] + ResultCount(p[i])
  BY <1>1, CountsAre
<1>. DEFINE end == count[j] + ResultCount(p[j])
            good == { i \in 1..Len(p) : j < i => end <= count[i] }
<1>3. \A o : ResultCount(o) \in Nat
  BY DEF ResultCount
<1>4. end \in Nat
  BY <1>2, <1>3
<1>5. 1 \in 1..Len(p) => 1 \in good
  OBVIOUS
<1>6. \A i \in 1..Len(p) : i # 1 /\ i - 1 \in good => i \in good
  <2>1. ASSUME NEW i \in 1..Len(p), i # 1, i - 1 \in good PROVE i \in good
    <3>1. /\ i - 1 \in 1..Len(p) /\ (i - 1) + 1 = i /\ count[i - 1] \in Nat
          /\ j < i - 1 => end <= count[i - 1]
      BY <1>2, <2>1
    <3>2. count[i] = count[i - 1] + ResultCount(p[i - 1]) /\ ResultCount(p[i - 1]) \in Nat
      BY <1>2, <1>3, <3>1
    <3>3. CASE j < i - 1
      <4>1. end <= count[i]
        <5>. HIDE DEF end
        <5>. QED BY <1>4, <3>1, <3>2, <3>3
      <4>. QED BY <4>1
    <3>4. CASE j = i - 1
      <4>1. end = count[i] /\ count[i] \in Nat
        BY <1>2, <3>2, <3>4
      <4>. QED BY <4>1
    <3>5. CASE ~ (j < i - 1) /\ j # i - 1
      <4>1. ~ (j < i)
        BY <3>5
      <4>. QED BY <4>1
    <3>. QED BY <3>3, <3>4, <3>5
  <2>. QED BY <2>1
<1>7. \A i \in 1..Len(p) : i \in good
  <2>. HIDE DEF good
  <2>. QED BY <1>5, <1>6, AllOfRun
<1>. QED BY <1>1, <1>7

\* The compiled block of an operation.
LEMMA CompiledBlock ==
    ASSUME NEW p, IsProgram(p), NEW i \in 1..Len(p)
    PROVE  /\ Len(Compiled(p)) = Len(p) /\ DOMAIN Compiled(p) = 1..Len(p)
           /\ Compiled(p)[i].code = p[i]
           /\ Compiled(p)[i].input_slots = [a \in DOMAIN p[i].args |->
                 IF p[i].args[a][1] \in 1..(i - 1)
                 THEN SlotCounts(p)[p[i].args[a][1]] + p[i].args[a][2] - 1 ELSE 0]
           /\ Compiled(p)[i].output_slots =
                 [k \in 1..ResultCount(p[i]) |-> SlotCounts(p)[i] + k - 1]
<1>1. Len(p) \in Nat /\ DOMAIN p = 1..Len(p)
  BY DEF IsProgram
<1>2. PICK count : count = SlotCounts(p)
  OBVIOUS
<1>3. Compiled(p) = [j \in 1..Len(p) |->
            [code |-> p[j],
             input_slots |-> [a \in DOMAIN p[j].args |->
                 IF p[j].args[a][1] \in 1..(j - 1)
                 THEN count[p[j].args[a][1]] + p[j].args[a][2] - 1 ELSE 0],
             output_slots |-> [k \in 1..ResultCount(p[j]) |-> count[j] + k - 1]]]
  BY <1>1, <1>2 DEF Compiled
<1>4. PICK bs : bs = Compiled(p)
  OBVIOUS
<1>5. DOMAIN bs = 1..Len(p) /\ bs = [j \in 1..Len(p) |-> bs[j]]
  BY <1>3, <1>4
<1>6. Len(bs) = Len(p)
  <2>1. bs \in Seq({bs[j] : j \in 1..Len(p)})
    BY <1>1, <1>5
  <2>. QED BY <1>1, <1>5, <2>1
<1>7. bs[i] = [code |-> p[i],
               input_slots |-> [a \in DOMAIN p[i].args |->
                 IF p[i].args[a][1] \in 1..(i - 1)
                 THEN count[p[i].args[a][1]] + p[i].args[a][2] - 1 ELSE 0],
               output_slots |-> [k \in 1..ResultCount(p[i]) |-> count[i] + k - 1]]
  BY <1>3, <1>4
<1>8. /\ bs[i].code = p[i]
      /\ bs[i].input_slots = [a \in DOMAIN p[i].args |->
                 IF p[i].args[a][1] \in 1..(i - 1)
                 THEN count[p[i].args[a][1]] + p[i].args[a][2] - 1 ELSE 0]
      /\ bs[i].output_slots = [k \in 1..ResultCount(p[i]) |-> count[i] + k - 1]
  BY <1>7
<1>. QED BY <1>2, <1>4, <1>5, <1>6, <1>8

LEMMA CompiledIs ==
    ASSUME NEW p, IsProgram(p), Len(p) < B
    PROVE  WellFormed(Compiled(p))
<1>. DEFINE count == SlotCounts(p)
<1>1. /\ Len(p) \in Nat /\ DOMAIN p = 1..Len(p)
      /\ \A i \in 1..Len(p) :
          /\ p[i].op \in Codes
          /\ p[i].args \in Seq(Nat \X Nat) /\ Len(p[i].args) = Arity(p[i])
          /\ \A a \in DOMAIN p[i].args :
                p[i].args[a][1] \in 1..(i - 1)
                   => p[i].args[a][2] \in 1..ResultCount(p[p[i].args[a][1]])
          /\ p[i].op = "constant" => p[i].value \in Int
          /\ p[i].op = "clamp" => {p[i].lo, p[i].hi} \subseteq Int
  BY DEF IsProgram, Codes
<1>2. \A i \in 1..Len(p) : count[i] \in Nat \ {0}
  BY <1>1, CountsAre
<1>3. \A i, j \in 1..Len(p) : j < i => count[j] + ResultCount(p[j]) <= count[i]
  BY <1>1, CountsGrow
<1>4. \A o : ResultCount(o) \in Nat
  BY DEF ResultCount
<1>. HIDE DEF count
<1>5. PICK bs : bs = Compiled(p)
  OBVIOUS
<1>6. \A i \in 1..Len(p) :
        /\ bs[i].code = p[i]
        /\ bs[i].input_slots = [a \in DOMAIN p[i].args |->
                 IF p[i].args[a][1] \in 1..(i - 1)
                 THEN count[p[i].args[a][1]] + p[i].args[a][2] - 1 ELSE 0]
        /\ bs[i].output_slots = [k \in 1..ResultCount(p[i]) |-> count[i] + k - 1]
  BY <1>5, CompiledBlock DEF count
<1>7. Len(bs) = Len(p) /\ DOMAIN bs = 1..Len(p)
  <2>1. bs = [j \in DOMAIN p |-> bs[j]]
    BY <1>5 DEF Compiled
  <2>2. bs \in Seq({bs[j] : j \in 1..Len(p)})
    BY <1>1, <2>1
  <2>. QED BY <1>1, <2>1, <2>2
<1>8. ASSUME NEW i \in 1..Len(p)
      PROVE  /\ bs[i].output_slots \in Seq(Nat \ {0})
             /\ Len(bs[i].output_slots) = ResultCount(p[i])
             /\ \A k \in 1..ResultCount(p[i]) : bs[i].output_slots[k] = count[i] + k - 1
  <2>1. PICK c : c = count[i]
    OBVIOUS
  <2>2. PICK r : r = ResultCount(p[i])
    OBVIOUS
  <2>3. c \in Nat \ {0} /\ r \in Nat
    BY <1>2, <1>4, <2>1, <2>2
  <2>4. bs[i].output_slots = [k \in 1..r |-> c + k - 1]
    BY <1>6, <2>1, <2>2
  <2>5. \A k \in 1..r : c + k - 1 \in Nat \ {0}
    BY <2>3
  <2>6. [k \in 1..r |-> c + k - 1] \in Seq(Nat \ {0})
    BY <2>3, <2>5
  <2>. QED BY <2>1, <2>2, <2>3, <2>4, <2>6
<1>9. ASSUME NEW i \in 1..Len(p), NEW a \in 1..Len(p[i].args)
      PROVE  /\ bs[i].input_slots[a] \in Nat
             /\ \/ bs[i].input_slots[a] = 0
                \/ \E j \in 1..(i - 1) : bs[i].input_slots[a] \in Range(bs[j].output_slots)
  <2>1. PICK j : j = p[i].args[a][1]
    OBVIOUS
  <2>2. PICK k : k = p[i].args[a][2]
    OBVIOUS
  <2>3. a \in DOMAIN p[i].args
    BY <1>1
  <2>4. bs[i].input_slots[a] = IF j \in 1..(i - 1) THEN count[j] + k - 1 ELSE 0
    BY <1>6, <2>1, <2>2, <2>3, ZenonT(60)
  <2>5. CASE j \in 1..(i - 1)
    <3>0. p[i].args[a][1] \in 1..(i - 1)
             => p[i].args[a][2] \in 1..ResultCount(p[p[i].args[a][1]])
      BY <1>1, <2>3
    <3>1. k \in 1..ResultCount(p[j]) /\ j \in 1..Len(p)
      <4>1. k \in 1..ResultCount(p[j])
        BY <2>1, <2>2, <2>5, <3>0
      <4>. QED BY <1>1, <2>5, <4>1
    <3>2. bs[i].input_slots[a] = bs[j].output_slots[k]
      BY <1>8, <2>4, <2>5, <3>1
    <3>3. bs[j].output_slots \in Seq(Nat \ {0}) /\ k \in DOMAIN bs[j].output_slots
      <4>1. Len(bs[j].output_slots) = ResultCount(p[j]) /\ bs[j].output_slots \in Seq(Nat \ {0})
        BY <1>8, <3>1
      <4>. QED BY <3>1, <4>1
    <3>4. bs[i].input_slots[a] \in Range(bs[j].output_slots)
      BY <3>2, <3>3 DEF Range
    <3>5. bs[j].output_slots[k] \in Nat
      BY <3>3
    <3>. QED BY <2>5, <3>2, <3>4, <3>5
  <2>6. CASE j \notin 1..(i - 1)
    BY <2>4, <2>6
  <2>. QED BY <2>5, <2>6
<1>10. ASSUME NEW i \in 1..Len(p)
       PROVE  bs[i].input_slots \in Seq(Nat) /\ Len(bs[i].input_slots) = Arity(p[i])
  <2>1. PICK n : n = Len(p[i].args)
    OBVIOUS
  <2>2. n \in Nat /\ DOMAIN p[i].args = 1..n /\ n = Arity(p[i])
    BY <1>1, <2>1
  <2>3. PICK in : in = bs[i].input_slots
    OBVIOUS
  <2>4. in = [a \in 1..n |-> in[a]]
    BY <1>6, <2>2, <2>3
  <2>5. \A a \in 1..n : in[a] \in Nat
    BY <1>9, <2>1, <2>3
  <2>6. in \in Seq(Nat)
    BY <2>2, <2>4, <2>5
  <2>7. Len(in) = n
    BY <2>2, <2>4, <2>6
  <2>. QED BY <2>2, <2>3, <2>6, <2>7
<1>11. ASSUME NEW i \in 1..Len(p), NEW j \in 1..Len(p),
              NEW k \in 1..ResultCount(p[i]), NEW l \in 1..ResultCount(p[j]),
              bs[i].output_slots[k] = bs[j].output_slots[l]
       PROVE  i = j /\ k = l
  <2>1. PICK ci, cj, ri, rj :
            ci = count[i] /\ cj = count[j] /\ ri = ResultCount(p[i]) /\ rj = ResultCount(p[j])
    OBVIOUS
  <2>2. {ci, cj, ri, rj} \subseteq Nat /\ k \in 1..ri /\ l \in 1..rj
    BY <1>2, <1>4, <2>1
  <2>3. ci + k - 1 = cj + l - 1
    BY <1>8, <1>11, <2>1
  <2>4. (j < i => cj + rj <= ci) /\ (i < j => ci + ri <= cj)
    BY <1>3, <2>1
  <2>5. ~ (j < i) /\ ~ (i < j)
    BY <2>2, <2>3, <2>4
  <2>6. i = j
    BY <1>1, <2>5
  <2>. QED BY <2>1, <2>2, <2>3, <2>6
<1>12. \A i \in 1..Len(p) : Len(p[i].args) = Len(bs[i].input_slots)
  BY <1>1, <1>10
<1>13. WellFormed(bs)
  <2>1. \A i \in 1..Len(bs) : 
          /\ bs[i].code.op \in Codes
          /\ bs[i].code.op = "constant" => bs[i].code.value \in Int
          /\ bs[i].code.op = "clamp" => {bs[i].code.lo, bs[i].code.hi} \subseteq Int
          /\ bs[i].input_slots \in Seq(Nat)
          /\ Len(bs[i].input_slots) = Arity(bs[i].code)
          /\ bs[i].output_slots \in Seq(Nat \ {0})
          /\ Len(bs[i].output_slots) = ResultCount(bs[i].code)
    <3>1. SUFFICES ASSUME NEW i \in 1..Len(p)
                   PROVE  /\ bs[i].code.op \in Codes
                          /\ bs[i].code.op = "constant" => bs[i].code.value \in Int
                          /\ bs[i].code.op = "clamp" => {bs[i].code.lo, bs[i].code.hi} \subseteq Int
                          /\ bs[i].input_slots \in Seq(Nat)
                          /\ Len(bs[i].input_slots) = Arity(bs[i].code)
                          /\ bs[i].output_slots \in Seq(Nat \ {0})
                          /\ Len(bs[i].output_slots) = ResultCount(bs[i].code)
      BY <1>7
    <3>2. bs[i].code = p[i]
      BY <1>6
    <3>. QED BY <1>1, <1>8, <1>10, <3>2
  <2>2. \A i \in 1..Len(bs) : \A a \in 1..Len(bs[i].input_slots) :
          \/ bs[i].input_slots[a] = 0
          \/ \E j \in 1..(i - 1) : bs[i].input_slots[a] \in Range(bs[j].output_slots)
    BY <1>7, <1>9, <1>12
  <2>3. \A i, j \in 1..Len(bs) :
          \A k \in 1..Len(bs[i].output_slots), l \in 1..Len(bs[j].output_slots) :
              bs[i].output_slots[k] = bs[j].output_slots[l] => i = j /\ k = l
    <3>1. \A i \in 1..Len(p) : Len(bs[i].output_slots) = ResultCount(p[i])
      BY <1>8
    <3>. QED BY <1>7, <1>11, <3>1
  <2>. QED BY <1>1, <1>7, <2>1, <2>2, <2>3 DEF WellFormed
<1>. QED BY <1>5, <1>13

\* The operations that use a slot, or that fire on it.
Who(bs, slot) == { b \in 1..Len(bs) : \/ slot \in Range(bs[b].input_slots)
                                      \/ slot = 0 /\ IsSource(bs[b]) }

LEMMA LesserOf ==
    ASSUME NEW x \in Nat, NEW y \in Nat
    PROVE  Min({x, y}) \in Nat /\ Min({x, y}) <= x
<1>1. \E z \in {x, y} : \A w \in {x, y} : z <= w
  OBVIOUS
<1>2. Min({x, y}) \in {x, y} /\ \A w \in {x, y} : Min({x, y}) <= w
  BY <1>1 DEF Min
<1>. QED BY <1>2

\* Nobody else subscribes to a slot.
LEMMA SubscribersAre ==
    ASSUME NEW bs, WellFormed(bs), NEW slot
    PROVE  Subscribers(bs, slot) \in Seq(Who(bs, slot))
<1>. DEFINE W == Who(bs, slot)
            Use(b, i) == IF bs[b].input_slots[i] = slot THEN <<b>> ELSE << >>
            Uses(b) == FlattenSeq([i \in DOMAIN bs[b].input_slots |-> Use(b, i)])
            Fires(b) == IF slot = 0 /\ IsSource(bs[b]) THEN <<b>> ELSE << >>
            all == [b \in DOMAIN bs |-> Uses(b) \o Fires(b)]
<1>1. /\ Len(bs) \in Nat /\ DOMAIN bs = 1..Len(bs)
      /\ \A b \in 1..Len(bs) : bs[b].input_slots \in Seq(Nat)
  BY DEF WellFormed
<1>2. ASSUME NEW b \in 1..Len(bs) PROVE Uses(b) \in Seq(W)
  <2>1. PICK in : in = bs[b].input_slots
    OBVIOUS
  <2>2. Len(in) \in Nat /\ DOMAIN in = 1..Len(in)
    BY <1>1, <2>1
  <2>3. PICK seqs : seqs = [i \in 1..Len(in) |-> IF in[i] = slot THEN <<b>> ELSE << >>]
    OBVIOUS
  <2>4. ASSUME NEW i \in 1..Len(in) PROVE seqs[i] \in Seq(W)
    <3>1. CASE in[i] = slot
      <4>1. slot \in Range(bs[b].input_slots)
        BY <2>1, <2>2, <3>1 DEF Range
      <4>2. b \in W
        BY <4>1 DEF Who
      <4>. HIDE DEF W
      <4>. QED BY <2>3, <3>1, <4>2
    <3>2. CASE in[i] # slot
      <4>. HIDE DEF W
      <4>. QED BY <2>3, <3>2
    <3>. QED BY <3>1, <3>2
  <2>. HIDE DEF W
  <2>5. DOMAIN seqs = 1..Len(in) /\ seqs \in Seq(Seq(W))
    BY <2>2, <2>3, <2>4
  <2>6. Len(seqs) = Len(in)
    BY <2>2, <2>5
  <2>7. Len(seqs) = 0 => seqs \in Seq(W)
    BY <2>5
  <2>8. FlattenSeq(seqs) \in Seq(W)
    BY <2>2, <2>4, <2>5, <2>6, <2>7, FlattenedSeq
  <2>9. Uses(b) = FlattenSeq(seqs)
    BY <2>1, <2>2, <2>3
  <2>. QED BY <2>8, <2>9
<1>3. ASSUME NEW b \in 1..Len(bs) PROVE Fires(b) \in Seq(W)
  <2>1. CASE slot = 0 /\ IsSource(bs[b])
    <3>1. b \in W
      BY <2>1 DEF Who
    <3>. HIDE DEF W
    <3>. QED BY <2>1, <3>1
  <2>2. CASE ~ (slot = 0 /\ IsSource(bs[b]))
    <3>1. Fires(b) = << >>
      BY <2>2
    <3>. HIDE DEF W, Fires
    <3>. QED BY <3>1
  <2>. QED BY <2>1, <2>2
<1>. HIDE DEF W, Uses, Fires
<1>4. \A b \in 1..Len(bs) : all[b] \in Seq(W)
  BY <1>1, <1>2, <1>3
<1>5. PICK seqs : seqs = all
  OBVIOUS
<1>6. DOMAIN seqs = 1..Len(bs) /\ \A b \in 1..Len(bs) : seqs[b] \in Seq(W)
  BY <1>1, <1>4, <1>5
<1>7. seqs = [b \in 1..Len(bs) |-> seqs[b]]
  BY <1>1, <1>5
<1>8. seqs \in Seq(Seq(W))
  BY <1>1, <1>6, <1>7
<1>9. Len(seqs) = Len(bs)
  BY <1>1, <1>6, <1>8
<1>10. Len(seqs) = 0 => seqs \in Seq(W)
  BY <1>8
<1>11. FlattenSeq(seqs) \in Seq(W)
  BY <1>1, <1>6, <1>9, <1>10, FlattenedSeq
<1>12. Applicants(bs, slot) = FlattenSeq(seqs)
  BY <1>5 DEF Applicants, Uses, Fires
<1>13. PICK list : list = Applicants(bs, slot)
  OBVIOUS
<1>14. list \in Seq(W) /\ Len(list) \in Nat
  BY <1>11, <1>12, <1>13
<1>15. PICK n : n = Min({Len(list), MaxSubs})
  OBVIOUS
<1>16. n \in Nat /\ n <= Len(list)
  BY <1>14, <1>15, LesserOf, ReactiveAssumption
<1>17. SubSeq(list, 1, n) \in Seq(W)
  BY <1>14, <1>16
<1>. QED BY <1>13, <1>15, <1>17 DEF Subscribers, W

-------------------------------------------------------------------------------
(* The ring, always.                                                       *)

Slots(bs) == {0} \union UNION { Range(b.output_slots) : b \in Range(bs) }

RingInv ==
    /\ WellFormed(blocks)
    /\ subscribers = [s \in Slots(blocks) |-> Subscribers(blocks, s)]
    /\ DOMAIN state = Slots(blocks)
    /\ queue_head \in 0..(B - 1)
    /\ Ring \in HeldRings(queue_head, Len(blocks))

\* Who subscribes, and where the outputs are.
LEMMA GraphIs ==
    ASSUME RingInv
    PROVE  /\ Len(blocks) \in Nat /\ Len(blocks) < B /\ DOMAIN blocks = 1..Len(blocks)
           /\ 0 \in Slots(blocks)
           /\ \A s \in Slots(blocks) : /\ subscribers[s] \in Seq(1..Len(blocks))
                                       /\ subscribers[s] \in Seq(Who(blocks, s))
           /\ \A i \in 1..Len(blocks) : \A k \in 1..Len(blocks[i].output_slots) :
                 blocks[i].output_slots[k] \in Slots(blocks)
<1>1. Len(blocks) \in Nat /\ Len(blocks) < B /\ DOMAIN blocks = 1..Len(blocks)
  BY DEF RingInv, WellFormed
<1>2. ASSUME NEW s \in Slots(blocks)
      PROVE  subscribers[s] \in Seq(1..Len(blocks)) /\ subscribers[s] \in Seq(Who(blocks, s))
  <2>1. PICK list : list = Subscribers(blocks, s)
    OBVIOUS
  <2>2. subscribers[s] = list
    BY <2>1 DEF RingInv
  <2>3. list \in Seq(Who(blocks, s))
    BY <2>1, SubscribersAre DEF RingInv
  <2>4. Who(blocks, s) \subseteq 1..Len(blocks)
    BY DEF Who
  <2>5. list \in Seq(1..Len(blocks))
    BY <2>3, <2>4
  <2>. QED BY <2>2, <2>3, <2>5
<1>3. ASSUME NEW i \in 1..Len(blocks), NEW k \in 1..Len(blocks[i].output_slots)
      PROVE  blocks[i].output_slots[k] \in Slots(blocks)
  <2>1. blocks[i].output_slots \in Seq(Nat \ {0})
    BY DEF RingInv, WellFormed
  <2>2. k \in DOMAIN blocks[i].output_slots
    BY <2>1
  <2>3. blocks[i].output_slots[k] \in Range(blocks[i].output_slots)
    BY <2>2 DEF Range
  <2>4. blocks[i] \in Range(blocks)
    BY <1>1 DEF Range
  <2>. QED BY <2>3, <2>4 DEF Slots
<1>4. 0 \in Slots(blocks)
  BY DEF Slots
<1>. QED BY <1>1, <1>2, <1>3, <1>4

\* An empty ring.
LEMMA InitRing == Init => RingInv
<1>. SUFFICES ASSUME Init PROVE RingInv
  OBVIOUS
<1>0. B \in Nat \ {0}
  BY ReactiveAssumption
<1>1. WellFormed(blocks)
  <2>1. PICK p \in Programs : blocks = Compiled(p)
    BY DEF Init
  <2>. QED BY <2>1, CompiledIs, ReactiveAssumption
<1>2. subscribers = [s \in Slots(blocks) |-> Subscribers(blocks, s)] /\ DOMAIN state = Slots(blocks)
  BY DEF Init, Slots
<1>3. Len(blocks) \in Nat /\ DOMAIN blocks = 1..Len(blocks)
  BY <1>1 DEF WellFormed
<1>4. queue_head = 0 /\ queue_tail = 0 /\ queue = [i \in 0..(B - 1) |-> 0]
      /\ in_queue = [b \in 1..Len(blocks) |-> FALSE]
  BY <1>3 DEF Init
<1>5. Place(0, 0) = 0
  <2>1. 0 \in 0..(B - 1) /\ 0 + 0 < B
    BY <1>0
  <2>. QED BY <2>1, PlaceIs
<1>6. Ring \in Rings(Len(blocks))
  BY <1>0, <1>4 DEF Ring, Rings
<1>7. Holds(Ring, 0, 0, Len(blocks))
  BY <1>4, <1>5 DEF Holds, Ring
<1>8. 0 \in 0..Len(blocks)
  BY <1>3
<1>9. Ring \in HeldRings(queue_head, Len(blocks))
  BY <1>4, <1>6, <1>7, <1>8 DEF HeldRings
<1>. QED BY <1>0, <1>1, <1>2, <1>4, <1>9 DEF RingInv

\* What an injection does to the ring.
LEMMA InjectRing ==
    ASSUME RingInv, NEW slot, NEW value, Inject(slot, value)
    PROVE  /\ RingInv' /\ blocks' = blocks /\ subscribers' = subscribers
           /\ slot \in Slots(blocks)
           /\ \A c \in 1..Len(blocks) : in_queue'[c] <=> in_queue[c] \/ c \in Range(subscribers[slot])
<1>1. PICK m : m = Len(blocks)
  OBVIOUS
<1>2. m \in Nat /\ m < B /\ queue_head \in 0..(B - 1) /\ Ring \in HeldRings(queue_head, m)
  BY <1>1, GraphIs DEF RingInv
<1>3. slot \in Slots(blocks) /\ subscribers[slot] \in Seq(1..m)
  BY <1>1, GraphIs DEF RingInv, Inject
<1>4. PICK q : q = EnqueueAll(Ring, <<slot>>, {slot})
  OBVIOUS
<1>5. PICK slots : slots = <<slot>>
  OBVIOUS
<1>6. Len(slots) \in Nat /\ DOMAIN slots = 1..Len(slots)
      /\ \A k \in 1..Len(slots) : slots[k] = slot /\ subscribers[slots[k]] \in Seq(1..m)
  BY <1>3, <1>5
<1>7. /\ q \in HeldRings(queue_head, m)
      /\ \A c \in 1..m : q.in_queue[c]
            <=> \/ Ring.in_queue[c]
                \/ \E k \in 1..Len(slots) : /\ slots[k] \in {slot}
                                            /\ c \in Range(subscribers[slots[k]])
  <2>1. PICK ch : ch = {slot}
    OBVIOUS
  <2>2. q = EnqueueAll(Ring, slots, ch)
    BY <1>4, <1>5, <2>1
  <2>3. /\ EnqueueAll(Ring, slots, ch) \in HeldRings(queue_head, m)
        /\ \A c \in 1..m : EnqueueAll(Ring, slots, ch).in_queue[c]
            <=> \/ Ring.in_queue[c]
                \/ \E k \in 1..Len(slots) : /\ slots[k] \in ch
                                            /\ c \in Range(subscribers[slots[k]])
    BY <1>2, <1>6, AllHeld, ZenonT(120)
  <2>. QED BY <2>1, <2>2, <2>3
<1>8. /\ queue' = q.queue /\ queue_tail' = q.tail /\ in_queue' = q.in_queue
      /\ blocks' = blocks /\ subscribers' = subscribers /\ queue_head' = queue_head
      /\ state' = [state EXCEPT ![slot] = value]
  BY <1>4 DEF Inject, SetRing, graph
<1>9. Ring' = q
  <2>1. q \in [queue : [0..(B - 1) -> Int], tail : 0..(B - 1), in_queue : [1..m -> BOOLEAN]]
    BY <1>7 DEF HeldRings, Rings
  <2>2. Ring' = [queue |-> q.queue, tail |-> q.tail, in_queue |-> q.in_queue]
    BY <1>8 DEF Ring
  <2>. QED BY <2>1, <2>2
<1>10. RingInv'
  <2>1. WellFormed(blocks') /\ DOMAIN state' = Slots(blocks')
    BY <1>8 DEF RingInv
  <2>2. subscribers' = [s \in Slots(blocks') |-> Subscribers(blocks', s)]
    BY <1>8 DEF RingInv
  <2>3. Ring' \in HeldRings(queue_head', Len(blocks')) /\ queue_head' \in 0..(B - 1)
    BY <1>1, <1>2, <1>7, <1>8, <1>9
  <2>. QED BY <2>1, <2>2, <2>3 DEF RingInv
<1>11. \E k \in 1..Len(slots) : slots[k] \in {slot}
  BY <1>5
<1>12. ASSUME NEW c \in 1..m
       PROVE  in_queue'[c] <=> in_queue[c] \/ c \in Range(subscribers[slot])
  <2>1. Ring.in_queue = in_queue
    BY DEF Ring
  <2>. QED BY <1>6, <1>7, <1>8, <1>11, <2>1
<1>. QED BY <1>1, <1>3, <1>8, <1>10, <1>12

\* What a turn of the loop does: which operation runs, and who is in the ring then.
LEMMA StepRing ==
    ASSUME RingInv, Step
    PROVE  /\ RingInv' /\ blocks' = blocks /\ subscribers' = subscribers
           /\ \E i \in 1..Len(blocks) :
                /\ in_queue[i]
                /\ LET b == blocks[i]
                       out == Outputs(b, state, hw_in)
                   IN  /\ state' = Assigned(state, b, out)
                       /\ hw_out' = IF b.code.op = "write"
                                    THEN [hw_out EXCEPT ![b.code.port] = Inputs(b, state)[1]]
                                    ELSE hw_out
                       /\ \A c \in 1..Len(blocks) : in_queue'[c]
                            <=> \/ in_queue[c] /\ c # i
                                \/ \E k \in 1..Len(b.output_slots) :
                                      /\ b.output_slots[k] \in Changed(b, out)
                                      /\ c \in Range(subscribers[b.output_slots[k]])
<1>1. PICK m : m = Len(blocks)
  OBVIOUS
<1>2. m \in Nat /\ m < B /\ queue_head \in 0..(B - 1) /\ Ring \in HeldRings(queue_head, m)
  BY <1>1, GraphIs DEF RingInv
<1>3. queue_head # Ring.tail /\ Ring.queue = queue /\ Ring.in_queue = in_queue
  BY DEF Step, idle, Ring
<1>4. PICK i : i = queue[queue_head]
  OBVIOUS
<1>5. PICK r : r = [Ring EXCEPT !.in_queue[i] = FALSE]
  OBVIOUS
<1>6. PICK h : h = (queue_head + 1) % B
  OBVIOUS
<1>7. /\ i \in 1..m /\ in_queue[i]
      /\ r \in HeldRings(h, m) /\ h \in 0..(B - 1)
      /\ \A c \in 1..m : r.in_queue[c] <=> in_queue[c] /\ c # i
  <2>1. /\ Ring.queue[queue_head] \in 1..m /\ Ring.in_queue[Ring.queue[queue_head]]
        /\ [Ring EXCEPT !.in_queue[Ring.queue[queue_head]] = FALSE]
              \in HeldRings((queue_head + 1) % B, m)
        /\ (queue_head + 1) % B \in 0..(B - 1)
        /\ \A c \in 1..m : [Ring EXCEPT !.in_queue[Ring.queue[queue_head]] = FALSE].in_queue[c]
                              <=> Ring.in_queue[c] /\ c # Ring.queue[queue_head]
    BY <1>2, <1>3, DequeueHeld
  <2>2. Ring.queue[queue_head] = i
    BY <1>3, <1>4
  <2>. QED BY <1>3, <1>5, <1>6, <2>1, <2>2
<1>8. PICK b : b = blocks[i]
  OBVIOUS
<1>9. PICK out : out = Outputs(b, state, hw_in)
  OBVIOUS
<1>10. PICK slots : slots = b.output_slots
  OBVIOUS
<1>11. Len(slots) \in Nat /\ DOMAIN slots = 1..Len(slots)
       /\ \A k \in 1..Len(slots) : subscribers[slots[k]] \in Seq(1..m)
  <2>1. slots \in Seq(Nat \ {0})
    BY <1>1, <1>7, <1>8, <1>10 DEF RingInv, WellFormed
  <2>2. \A k \in 1..Len(slots) : slots[k] \in Slots(blocks)
    BY <1>1, <1>7, <1>8, <1>10, GraphIs
  <2>. QED BY <1>1, <2>1, <2>2, GraphIs
<1>12. PICK ch : ch = Changed(b, out)
  OBVIOUS
<1>13. PICK q : q = EnqueueAll(r, slots, ch)
  OBVIOUS
<1>14. /\ q \in HeldRings(h, m)
       /\ \A c \in 1..m : q.in_queue[c]
            <=> \/ r.in_queue[c]
                \/ \E k \in 1..Len(slots) : /\ slots[k] \in ch
                                            /\ c \in Range(subscribers[slots[k]])
  BY <1>2, <1>7, <1>11, <1>13, AllHeld
<1>15. /\ queue' = q.queue /\ queue_tail' = q.tail /\ in_queue' = q.in_queue
       /\ blocks' = blocks /\ subscribers' = subscribers /\ queue_head' = h
       /\ state' = Assigned(state, b, out)
       /\ hw_out' = IF b.code.op = "write"
                    THEN [hw_out EXCEPT ![b.code.port] = Inputs(b, state)[1]] ELSE hw_out
  BY <1>4, <1>5, <1>6, <1>8, <1>9, <1>10, <1>12, <1>13 DEF Step, SetRing, NextHead, graph
<1>16. Ring' = q
  <2>1. q \in [queue : [0..(B - 1) -> Int], tail : 0..(B - 1), in_queue : [1..m -> BOOLEAN]]
    BY <1>14 DEF HeldRings, Rings
  <2>2. Ring' = [queue |-> q.queue, tail |-> q.tail, in_queue |-> q.in_queue]
    BY <1>15 DEF Ring
  <2>. QED BY <2>1, <2>2
<1>17. RingInv'
  <2>1. DOMAIN state' = Slots(blocks')
    BY <1>15 DEF RingInv, Assigned
  <2>2. WellFormed(blocks') /\ subscribers' = [s \in Slots(blocks') |-> Subscribers(blocks', s)]
    BY <1>15 DEF RingInv
  <2>3. Ring' \in HeldRings(queue_head', Len(blocks')) /\ queue_head' \in 0..(B - 1)
    BY <1>1, <1>7, <1>14, <1>15, <1>16
  <2>. QED BY <2>1, <2>2, <2>3 DEF RingInv
<1>18. \A c \in 1..m : in_queue'[c]
            <=> \/ in_queue[c] /\ c # i
                \/ \E k \in 1..Len(slots) : /\ slots[k] \in ch
                                            /\ c \in Range(subscribers[slots[k]])
  BY <1>7, <1>14, <1>15
<1>. QED BY <1>1, <1>7, <1>8, <1>9, <1>10, <1>12, <1>15, <1>17, <1>18

LEMMA RingAlways == Spec => []RingInv
<1>1. RingInv /\ [Next]_vars => RingInv'
  <2>. SUFFICES ASSUME RingInv, [Next]_vars PROVE RingInv'
    OBVIOUS
  <2>1. CASE \E time \in Times : Tick(time)
    BY <2>1, InjectRing DEF Tick
  <2>2. CASE \E slot \in SourceSlots(blocks), value \in Values : Inject(slot, value)
    BY <2>2, InjectRing
  <2>3. CASE Step
    BY <2>3, StepRing
  <2>4. CASE \E port \in DOMAIN hw_in, value \in Values : Sample(port, value)
    BY <2>4 DEF Sample, graph, ring, RingInv, Ring
  <2>5. CASE UNCHANGED vars
    BY <2>5 DEF vars, graph, ring, RingInv, Ring
  <2>. QED BY <2>1, <2>2, <2>3, <2>4, <2>5 DEF Next
<1>. QED BY <1>1, InitRing, PTL DEF Spec

\* The pending places are the first n from the head on.
LEMMA RingIsExact == RingInv => QueueExact
<1>. SUFFICES ASSUME RingInv PROVE QueueExact
  OBVIOUS
<1>1. PICK m : m = Len(blocks)
  OBVIOUS
<1>2. PICK h : h = queue_head
  OBVIOUS
<1>3. m \in Nat /\ m < B /\ h \in 0..(B - 1) /\ Ring \in HeldRings(h, m) /\ DOMAIN blocks = 1..m
  BY <1>1, <1>2, GraphIs DEF RingInv
<1>4. PICK n \in 0..m : Holds(Ring, h, n, m)
  BY <1>3 DEF HeldRings
<1>5. B \in Nat \ {0} /\ n \in 0..(B - 1)
  BY <1>3, ReactiveAssumption
<1>6. /\ queue_tail = Place(h, n)
      /\ \A k \in 0..(n - 1) : queue[Place(h, k)] \in 1..m /\ in_queue[queue[Place(h, k)]]
      /\ \A k, l \in 0..(n - 1) : queue[Place(h, k)] = queue[Place(h, l)] => k = l
      /\ \A c \in 1..m : in_queue[c] => \E k \in 0..(n - 1) : queue[Place(h, k)] = c
  <2>1. Ring.queue = queue /\ Ring.tail = queue_tail /\ Ring.in_queue = in_queue
    BY DEF Ring
  <2>. QED BY <1>4, <2>1 DEF Holds
<1>7. (queue_tail - queue_head) % B = n
  BY <1>2, <1>3, <1>5, <1>6, Distance
<1>8. Pending = { Place(h, k) : k \in 0..(n - 1) }
  BY <1>2, <1>7 DEF Pending, Place
<1>9. \A b \in 1..m : in_queue[b] <=> \E i \in Pending : queue[i] = b
  <2>1. ASSUME NEW b \in 1..m PROVE in_queue[b] <=> \E k \in 0..(n - 1) : queue[Place(h, k)] = b
    BY <1>6
  <2>. QED BY <1>8, <2>1
<1>10. \A i, j \in Pending : queue[i] = queue[j] => i = j
  BY <1>6, <1>8
<1>. QED BY <1>3, <1>9, <1>10 DEF QueueExact

\* in_queue says exactly which operations the ring holds, each of them once.
THEOREM RingExact == Spec => []QueueExact
BY RingAlways, RingIsExact, PTL

-------------------------------------------------------------------------------
(* What operations compute.                                                *)

\* Nothing is queued exactly when the ring is empty.
LEMMA IdleIs ==
    ASSUME RingInv
    PROVE  idle <=> \A c \in 1..Len(blocks) : ~ in_queue[c]
<1>1. PICK m, h : m = Len(blocks) /\ h = queue_head
  OBVIOUS
<1>2. m \in Nat /\ m < B /\ h \in 0..(B - 1) /\ Ring \in HeldRings(h, m) /\ B \in Nat \ {0}
  BY <1>1, GraphIs, ReactiveAssumption DEF RingInv
<1>3. PICK n \in 0..m : Holds(Ring, h, n, m)
  BY <1>2 DEF HeldRings
<1>4. /\ queue_tail = Place(h, n)
      /\ \A k \in 0..(n - 1) : queue[Place(h, k)] \in 1..m /\ in_queue[queue[Place(h, k)]]
      /\ \A c \in 1..m : in_queue[c] => \E k \in 0..(n - 1) : queue[Place(h, k)] = c
  <2>1. Ring.queue = queue /\ Ring.tail = queue_tail /\ Ring.in_queue = in_queue
    BY DEF Ring
  <2>. QED BY <1>3, <2>1 DEF Holds
<1>5. 0 \in 0..(B - 1) /\ n \in 0..(B - 1) /\ Place(h, 0) = h
  <2>1. 0 \in 0..(B - 1) /\ h + 0 = h /\ h < B /\ n \in 0..(B - 1)
    BY <1>2
  <2>2. Place(h, 0) = IF h + 0 < B THEN h + 0 ELSE h + 0 - B
    BY <1>2, <2>1, PlaceIs
  <2>. QED BY <2>1, <2>2
<1>6. CASE n = 0
  <2>1. idle
    BY <1>1, <1>4, <1>5, <1>6 DEF idle
  <2>2. \A c \in 1..m : ~ in_queue[c]
    BY <1>4, <1>6
  <2>. QED BY <1>1, <2>1, <2>2
<1>7. CASE n # 0
  <2>1. Place(h, n) # Place(h, 0)
    BY <1>2, <1>5, <1>7, PlacesDiffer
  <2>2. ~ idle
    BY <1>1, <1>4, <1>5, <2>1 DEF idle
  <2>3. 0 \in 0..(n - 1)
    BY <1>7
  <2>4. \E c \in 1..m : in_queue[c]
    BY <1>4, <2>3
  <2>. QED BY <1>1, <2>2, <2>4
<1>. QED BY <1>6, <1>7

\* Clamped to 0 of what contains 0, and integers in any case.
LEMMA ClampIs ==
    ASSUME NEW x \in Int, NEW lo \in Int, NEW hi \in Int
    PROVE  /\ Min({Max({x, lo}), hi}) \in Int
           /\ x = 0 /\ lo <= 0 /\ 0 <= hi => Min({Max({x, lo}), hi}) = 0
<1>1. \E z \in {x, lo} : \A w \in {x, lo} : z >= w
  OBVIOUS
<1>2. Max({x, lo}) \in {x, lo} /\ \A w \in {x, lo} : Max({x, lo}) >= w
  BY <1>1 DEF Max
<1>3. PICK y : y = Max({x, lo})
  OBVIOUS
<1>4. y \in Int
  BY <1>2, <1>3
<1>5. \E z \in {y, hi} : \A w \in {y, hi} : z <= w
  BY <1>4
<1>6. Min({y, hi}) \in {y, hi} /\ \A w \in {y, hi} : Min({y, hi}) <= w
  BY <1>5 DEF Min
<1>7. Min({y, hi}) \in Int
  BY <1>4, <1>6
<1>8. ASSUME x = 0, lo <= 0, 0 <= hi PROVE Min({y, hi}) = 0
  <2>1. y = 0
    BY <1>2, <1>3, <1>8
  <2>. QED BY <1>6, <1>8, <2>1
<1>. QED BY <1>3, <1>7, <1>8

InPorts(bs) == { b.code.port : b \in { c \in Range(bs) : c.code.op \in {"read", "encoder_read"} } }

\* Inputs are slots, and outputs integers.
LEMMA InputsAre ==
    ASSUME NEW bs, WellFormed(bs), NEW i \in 1..Len(bs), NEW v
    PROVE  /\ Len(bs[i].input_slots) \in Nat
           /\ DOMAIN bs[i].input_slots = 1..Len(bs[i].input_slots)
           /\ \A a \in 1..Len(bs[i].input_slots) :
                 /\ bs[i].input_slots[a] \in Slots(bs)
                 /\ Inputs(bs[i], v)[a] = v[bs[i].input_slots[a]]
<1>1. PICK in : in = bs[i].input_slots
  OBVIOUS
<1>2. in \in Seq(Nat)
  BY <1>1 DEF WellFormed
<1>3. Len(in) \in Nat /\ DOMAIN in = 1..Len(in)
  BY <1>2
<1>4. ASSUME NEW a \in 1..Len(in) PROVE in[a] \in Slots(bs)
  <2>1. in[a] = 0 \/ \E j \in 1..(i - 1) : in[a] \in Range(bs[j].output_slots)
    BY <1>1 DEF WellFormed
  <2>2. CASE in[a] = 0
    BY <2>2 DEF Slots
  <2>3. CASE in[a] # 0
    <3>1. PICK j \in 1..(i - 1) : in[a] \in Range(bs[j].output_slots)
      BY <2>1, <2>3
    <3>2. j \in 1..Len(bs) /\ DOMAIN bs = 1..Len(bs)
      <4>1. Len(bs) \in Nat /\ DOMAIN bs = 1..Len(bs)
        BY DEF WellFormed
      <4>. QED BY <4>1
    <3>3. bs[j] \in Range(bs)
      BY <3>2 DEF Range
    <3>. QED BY <3>1, <3>3 DEF Slots
  <2>. QED BY <2>2, <2>3
<1>5. \A a \in 1..Len(in) : Inputs(bs[i], v)[a] = v[in[a]]
  BY <1>1, <1>3 DEF Inputs
<1>. QED BY <1>1, <1>3, <1>4, <1>5

LEMMA OutputsAre ==
    ASSUME NEW bs, WellFormed(bs), NEW i \in 1..Len(bs),
           NEW v \in [Slots(bs) -> Int], NEW r \in [InPorts(bs) -> Int]
    PROVE  \A k \in 1..Len(bs[i].output_slots) : Outputs(bs[i], v, r)[k] \in Int
<1>1. PICK b : b = bs[i]
  OBVIOUS
<1>2. PICK o : o = b.code
  OBVIOUS
<1>3. PICK in : in = Inputs(b, v)
  OBVIOUS
<1>4. /\ o.op \in Codes
      /\ o.op = "constant" => o.value \in Int
      /\ o.op = "clamp" => {o.lo, o.hi} \subseteq Int
      /\ Len(b.input_slots) = Arity(o)
      /\ Len(b.output_slots) = ResultCount(o)
  BY <1>1, <1>2 DEF WellFormed
<1>5. \A a \in 1..Arity(o) : in[a] \in Int
  <2>1. \A a \in 1..Len(bs[i].input_slots) : bs[i].input_slots[a] \in Slots(bs)
                                       /\ Inputs(bs[i], v)[a] = v[bs[i].input_slots[a]]
    BY InputsAre
  <2>2. \A s \in Slots(bs) : v[s] \in Int
    OBVIOUS
  <2>. QED BY <1>1, <1>3, <1>4, <2>1, <2>2
<1>6. o.op \in {"read", "encoder_read"} => r[o.port] \in Int
  <2>1. DOMAIN bs = 1..Len(bs)
    BY DEF WellFormed
  <2>2. b \in Range(bs)
    BY <1>1, <2>1 DEF Range
  <2>3. o.op \in {"read", "encoder_read"} => o.port \in InPorts(bs)
    BY <1>2, <2>2 DEF InPorts
  <2>. QED BY <2>3
<1>7. SUFFICES \A k \in 1..ResultCount(o) : Execute(o, in, r)[k] \in Int
  BY <1>1, <1>2, <1>3, <1>4 DEF Outputs
<1>8. CASE o.op \in {"add", "mul", "sub"}
  <2>1. Arity(o) = 2 /\ ResultCount(o) = 1
    BY <1>8 DEF Arity, ResultCount
  <2>2. in[1] \in Int /\ in[2] \in Int
    BY <1>5, <2>1
  <2>3. CASE o.op = "add"
    <3>1. Execute(o, in, r) = <<in[1] + in[2]>>
      BY <2>3 DEF Execute
    <3>. QED BY <2>1, <2>2, <3>1
  <2>4. CASE o.op = "mul"
    <3>1. Execute(o, in, r) = <<in[1] * in[2]>>
      BY <2>4 DEF Execute
    <3>2. in[1] * in[2] \in Int
      BY <2>2
    <3>. QED BY <2>1, <3>1, <3>2
  <2>5. CASE o.op = "sub"
    <3>1. Execute(o, in, r) = <<in[1] - in[2]>>
      BY <2>5 DEF Execute
    <3>. QED BY <2>1, <2>2, <3>1
  <2>. QED BY <1>8, <2>3, <2>4, <2>5
<1>9. CASE o.op = "clamp"
  <2>1. Arity(o) = 1 /\ ResultCount(o) = 1
    BY <1>9 DEF Arity, ResultCount
  <2>2. Execute(o, in, r) = <<Min({Max({in[1], o.lo}), o.hi})>>
    BY <1>9 DEF Execute
  <2>3. Min({Max({in[1], o.lo}), o.hi}) \in Int
    <3>1. in[1] \in Int /\ o.lo \in Int /\ o.hi \in Int
      BY <1>4, <1>5, <1>9, <2>1
    <3>. QED BY <3>1, ClampIs
  <2>. QED BY <2>1, <2>2, <2>3
<1>10. CASE o.op = "constant"
  <2>1. ResultCount(o) = 1 /\ Execute(o, in, r) = <<o.value>>
    BY <1>10 DEF ResultCount, Execute
  <2>. QED BY <1>4, <1>10, <2>1
<1>11. CASE o.op = "read"
  <2>1. ResultCount(o) = 1 /\ Execute(o, in, r) = <<r[o.port]>>
    BY <1>11 DEF ResultCount, Execute
  <2>. QED BY <1>6, <1>11, <2>1
<1>12. CASE o.op = "encoder_read"
  <2>1. ResultCount(o) = 2 /\ Execute(o, in, r) = <<r[o.port], 0>>
    BY <1>12 DEF ResultCount, Execute
  <2>. QED BY <1>6, <1>12, <2>1
<1>13. CASE o.op = "nop"
  <2>1. ResultCount(o) = 1 /\ Execute(o, in, r) = <<0>>
    BY <1>13 DEF ResultCount, Execute
  <2>. QED BY <2>1
<1>14. CASE o.op = "write"
  <2>1. ResultCount(o) = 0
    BY <1>14 DEF ResultCount
  <2>. QED BY <2>1
<1>. QED BY <1>4, <1>8, <1>9, <1>10, <1>11, <1>12, <1>13, <1>14 DEF Codes

\* What an assignment does to the slots.
Puts(u, bs, b, v, out) ==
    /\ DOMAIN u = Slots(bs)
    /\ \A k \in 1..Len(b.output_slots) : /\ b.output_slots[k] \in Slots(bs)
                                         /\ u[b.output_slots[k]] = out[k]
    /\ \A s \in Slots(bs) : s \notin Range(b.output_slots) => u[s] = v[s]

LEMMA AssignedIs ==
    ASSUME NEW bs, WellFormed(bs), NEW i \in 1..Len(bs), NEW v, DOMAIN v = Slots(bs), NEW out
    PROVE  Puts(Assigned(v, bs[i], out), bs, bs[i], v, out)
<1>1. PICK slots : slots = bs[i].output_slots
  OBVIOUS
<1>2. Len(slots) \in Nat /\ DOMAIN slots = 1..Len(slots)
  <2>1. slots \in Seq(Nat \ {0})
    BY <1>1 DEF WellFormed
  <2>. QED BY <2>1
<1>3. \A k, l \in 1..Len(slots) : slots[k] = slots[l] => k = l
  BY <1>1 DEF WellFormed
<1>4. ASSUME NEW k \in 1..Len(slots) PROVE slots[k] \in Slots(bs)
  <2>1. DOMAIN bs = 1..Len(bs)
    BY DEF WellFormed
  <2>2. bs[i] \in Range(bs)
    BY <2>1 DEF Range
  <2>3. slots[k] \in Range(bs[i].output_slots)
    BY <1>1, <1>2 DEF Range
  <2>. QED BY <2>2, <2>3 DEF Slots
<1>5. PICK w : w = Assigned(v, bs[i], out)
  OBVIOUS
<1>6. w = [s \in Slots(bs) |->
             IF \E k \in 1..Len(slots) : slots[k] = s
             THEN out[CHOOSE k \in 1..Len(slots) : slots[k] = s] ELSE v[s]]
  BY <1>1, <1>2, <1>5 DEF Assigned
<1>7. ASSUME NEW k \in 1..Len(slots) PROVE w[slots[k]] = out[k]
  <2>1. (CHOOSE l \in 1..Len(slots) : slots[l] = slots[k]) = k
    BY <1>3
  <2>. QED BY <1>4, <1>6, <2>1
<1>8. ASSUME NEW s \in Slots(bs), s \notin Range(slots) PROVE w[s] = v[s]
  <2>1. ~ \E k \in 1..Len(slots) : slots[k] = s
    BY <1>2, <1>8 DEF Range
  <2>. QED BY <1>6, <2>1
<1>9. DOMAIN w = Slots(bs)
  BY <1>6
<1>. QED BY <1>1, <1>4, <1>5, <1>7, <1>8, <1>9 DEF Puts

-------------------------------------------------------------------------------
(* The abstract specification's pass over the program, block by block.     *)

TickPass(start, order) == Sync!FoldLeft(Sync!Turn, start, order)
InjectPass(start, order) == Sync!FoldLeft(Sync!TurnUnlessSource, start, order)

\* With the sources.
LEMMA TurnFold ==
    ASSUME NEW D, NEW base \in D, NEW order, Len(order) \in Nat,
           DOMAIN order = 1..Len(order),
           \A q \in D : \A k \in 1..Len(order) : Sync!Turn(q, order[k]) \in D
    PROVE  \E turn : /\ turn \in [0..Len(order) -> D]
                     /\ turn[0] = base
                     /\ \A k \in 1..Len(order) : turn[k] = Sync!Turn(turn[k - 1], order[k])
                     /\ turn[Len(order)] = TickPass(base, order)
<1>. DEFINE n == Len(order)
            F == [x \in D \X (1..n) |-> Sync!Turn(x[1], order[x[2]])]
            Eq(g) == g = [s \in SUBSET (1..n) |->
                            IF s = {} THEN base
                            ELSE Sync!Turn(g[s \ {Max(s)}], order[Max(s)])]
            iter == CHOOSE g : Eq(g)
<1>1. F \in [D \X (1..n) -> D]
  OBVIOUS
<1>2. \E g : Eq(g)
  <2>. HIDE DEF F
  <2>1. PICK g : Iterates(g, n, D, base, F)
    <3>1. n \in Nat
      OBVIOUS
    <3>. HIDE DEF n
    <3>. QED BY <1>1, <3>1, FoldExists
  <2>a. /\ g \in [SUBSET (1..n) -> D]
        /\ g = [s \in SUBSET (1..n) |->
                  IF s = {} THEN base ELSE F[<<g[s \ {Max(s)}], Max(s)>>]]
    BY <2>1 DEF Iterates
  <2>2. ASSUME NEW s \in SUBSET (1..n), s # {}
        PROVE  F[<<g[s \ {Max(s)}], Max(s)>>] = Sync!Turn(g[s \ {Max(s)}], order[Max(s)])
    <3>1. Max(s) \in 1..n
      <4>1. Max(s) \in s
        BY <2>2, GreatestOf
      <4>. QED BY <4>1
    <3>2. g[s \ {Max(s)}] \in D
      <4>1. s \ {Max(s)} \in SUBSET (1..n)
        OBVIOUS
      <4>. QED BY <2>a, <4>1
    <3>. QED BY <3>1, <3>2 DEF F
  <2>3. Eq(g)
    BY <2>a, <2>2
  <2>. QED BY <2>3
<1>3. Eq(iter)
  <2>. HIDE DEF Eq
  <2>. QED BY <1>2
<1>4. TickPass(base, order) = iter[1..n]
  BY DEF TickPass, Sync!FoldLeft, Sync!MapThenFoldSet, Sync!Max, Max
<1>. HIDE DEF iter
<1>5. iter[1..0] = base
  <2>1. 1..0 = {} /\ {} \in SUBSET (1..n)
    OBVIOUS
  <2>. QED BY <1>3, <2>1
<1>6. ASSUME NEW k \in 1..n PROVE iter[1..k] = Sync!Turn(iter[1..(k - 1)], order[k])
  <2>1. /\ 1..k \in SUBSET (1..n) /\ 1..k # {}
        /\ Max(1..k) = k /\ (1..k) \ {k} = 1..(k - 1)
    <3>1. n \in Nat
      OBVIOUS
    <3>. HIDE DEF n, Eq
    <3>. QED BY <3>1, LastOfPrefix
  <2>2. iter[1..k] = IF 1..k = {} THEN base ELSE Sync!Turn(iter[(1..k) \ {Max(1..k)}], order[Max(1..k)])
    BY <1>3, <2>1
  <2>. QED BY <2>1, <2>2
<1>7. \A k \in 0..n : iter[1..k] \in D
  <2>. DEFINE T == { k \in Nat : k <= n => iter[1..k] \in D }
  <2>1. 0 \in T
    BY <1>5
  <2>2. ASSUME NEW k \in T PROVE k + 1 \in T
    <3>1. CASE k + 1 <= n
      <4>1. k + 1 \in 1..n /\ (k + 1) - 1 = k /\ iter[1..k] \in D
        BY <3>1
      <4>2. iter[1..(k + 1)] = Sync!Turn(iter[1..k], order[k + 1])
        BY <1>6, <4>1
      <4>. QED BY <4>1, <4>2
    <3>. QED BY <3>1
  <2>3. T = Nat
    <3>. HIDE DEF T
    <3>1. T \in SUBSET Nat
      BY DEF T
    <3>. QED BY <2>1, <2>2, <3>1, AllNumbers
  <2>. QED BY <2>3
<1>. DEFINE turn == [k \in 0..n |-> iter[1..k]]
<1>8. \A k \in 1..n : turn[k] = Sync!Turn(turn[k - 1], order[k])
  <2>1. \A k \in 1..n : k \in 0..n /\ k - 1 \in 0..n
    OBVIOUS
  <2>. QED BY <1>6, <2>1
<1>9. turn \in [0..n -> D] /\ turn[0] = base /\ turn[n] = iter[1..n]
  BY <1>5, <1>7
<1>. HIDE DEF turn
<1>. QED BY <1>4, <1>8, <1>9

\* Without them.
LEMMA OtherFold ==
    ASSUME NEW D, NEW base \in D, NEW order, Len(order) \in Nat,
           DOMAIN order = 1..Len(order),
           \A q \in D : \A k \in 1..Len(order) : Sync!TurnUnlessSource(q, order[k]) \in D
    PROVE  \E turn : /\ turn \in [0..Len(order) -> D]
                     /\ turn[0] = base
                     /\ \A k \in 1..Len(order) : turn[k] = Sync!TurnUnlessSource(turn[k - 1], order[k])
                     /\ turn[Len(order)] = InjectPass(base, order)
<1>. DEFINE n == Len(order)
            F == [x \in D \X (1..n) |-> Sync!TurnUnlessSource(x[1], order[x[2]])]
            Eq(g) == g = [s \in SUBSET (1..n) |->
                            IF s = {} THEN base
                            ELSE Sync!TurnUnlessSource(g[s \ {Max(s)}], order[Max(s)])]
            iter == CHOOSE g : Eq(g)
<1>1. F \in [D \X (1..n) -> D]
  OBVIOUS
<1>2. \E g : Eq(g)
  <2>. HIDE DEF F
  <2>1. PICK g : Iterates(g, n, D, base, F)
    <3>1. n \in Nat
      OBVIOUS
    <3>. HIDE DEF n
    <3>. QED BY <1>1, <3>1, FoldExists
  <2>a. /\ g \in [SUBSET (1..n) -> D]
        /\ g = [s \in SUBSET (1..n) |->
                  IF s = {} THEN base ELSE F[<<g[s \ {Max(s)}], Max(s)>>]]
    BY <2>1 DEF Iterates
  <2>2. ASSUME NEW s \in SUBSET (1..n), s # {}
        PROVE  F[<<g[s \ {Max(s)}], Max(s)>>] = Sync!TurnUnlessSource(g[s \ {Max(s)}], order[Max(s)])
    <3>1. Max(s) \in 1..n
      <4>1. Max(s) \in s
        BY <2>2, GreatestOf
      <4>. QED BY <4>1
    <3>2. g[s \ {Max(s)}] \in D
      <4>1. s \ {Max(s)} \in SUBSET (1..n)
        OBVIOUS
      <4>. QED BY <2>a, <4>1
    <3>. QED BY <3>1, <3>2 DEF F
  <2>3. Eq(g)
    BY <2>a, <2>2
  <2>. QED BY <2>3
<1>3. Eq(iter)
  <2>. HIDE DEF Eq
  <2>. QED BY <1>2
<1>4. InjectPass(base, order) = iter[1..n]
  BY DEF InjectPass, Sync!FoldLeft, Sync!MapThenFoldSet, Sync!Max, Max
<1>. HIDE DEF iter
<1>5. iter[1..0] = base
  <2>1. 1..0 = {} /\ {} \in SUBSET (1..n)
    OBVIOUS
  <2>. QED BY <1>3, <2>1
<1>6. ASSUME NEW k \in 1..n PROVE iter[1..k] = Sync!TurnUnlessSource(iter[1..(k - 1)], order[k])
  <2>1. /\ 1..k \in SUBSET (1..n) /\ 1..k # {}
        /\ Max(1..k) = k /\ (1..k) \ {k} = 1..(k - 1)
    <3>1. n \in Nat
      OBVIOUS
    <3>. HIDE DEF n, Eq
    <3>. QED BY <3>1, LastOfPrefix
  <2>2. iter[1..k] = IF 1..k = {} THEN base ELSE Sync!TurnUnlessSource(iter[(1..k) \ {Max(1..k)}], order[Max(1..k)])
    BY <1>3, <2>1
  <2>. QED BY <2>1, <2>2
<1>7. \A k \in 0..n : iter[1..k] \in D
  <2>. DEFINE T == { k \in Nat : k <= n => iter[1..k] \in D }
  <2>1. 0 \in T
    BY <1>5
  <2>2. ASSUME NEW k \in T PROVE k + 1 \in T
    <3>1. CASE k + 1 <= n
      <4>1. k + 1 \in 1..n /\ (k + 1) - 1 = k /\ iter[1..k] \in D
        BY <3>1
      <4>2. iter[1..(k + 1)] = Sync!TurnUnlessSource(iter[1..k], order[k + 1])
        BY <1>6, <4>1
      <4>. QED BY <4>1, <4>2
    <3>. QED BY <3>1
  <2>3. T = Nat
    <3>. HIDE DEF T
    <3>1. T \in SUBSET Nat
      BY DEF T
    <3>. QED BY <2>1, <2>2, <3>1, AllNumbers
  <2>. QED BY <2>3
<1>. DEFINE turn == [k \in 0..n |-> iter[1..k]]
<1>8. \A k \in 1..n : turn[k] = Sync!TurnUnlessSource(turn[k - 1], order[k])
  <2>1. \A k \in 1..n : k \in 0..n /\ k - 1 \in 0..n
    OBVIOUS
  <2>. QED BY <1>6, <2>1
<1>9. turn \in [0..n -> D] /\ turn[0] = base /\ turn[n] = iter[1..n]
  BY <1>5, <1>7
<1>. HIDE DEF turn
<1>. QED BY <1>4, <1>8, <1>9

-------------------------------------------------------------------------------
(* Slots that agree with every operation are what a pass gives.            *)

Agreed(b, v, r) ==
    \A k \in 1..Len(b.output_slots) : v[b.output_slots[k]] = Outputs(b, v, r)[k]
Typed ==
    /\ WellFormed(blocks)
    /\ hw_in \in [InPorts(blocks) -> Int]

LEMMA OutputSlots ==
    ASSUME NEW bs, WellFormed(bs)
    PROVE  /\ Len(bs) \in Nat /\ Len(bs) < B /\ DOMAIN bs = 1..Len(bs)
           /\ \A i \in 1..Len(bs) :
                 /\ Len(bs[i].output_slots) \in Nat
                 /\ DOMAIN bs[i].output_slots = 1..Len(bs[i].output_slots)
                 /\ \A s : s \in Range(bs[i].output_slots)
                       <=> \E k \in 1..Len(bs[i].output_slots) : s = bs[i].output_slots[k]
                 /\ 0 \notin Range(bs[i].output_slots)
           /\ \A i, j \in 1..Len(bs) : \A s :
                 s \in Range(bs[i].output_slots) /\ s \in Range(bs[j].output_slots) => i = j
           /\ \A s \in Slots(bs) : s = 0 \/ \E i \in 1..Len(bs) : s \in Range(bs[i].output_slots)
<1>1. Len(bs) \in Nat /\ Len(bs) < B /\ DOMAIN bs = 1..Len(bs)
  BY DEF WellFormed
<1>2. ASSUME NEW i \in 1..Len(bs)
      PROVE  /\ Len(bs[i].output_slots) \in Nat
             /\ DOMAIN bs[i].output_slots = 1..Len(bs[i].output_slots)
             /\ \A s : s \in Range(bs[i].output_slots)
                   <=> \E k \in 1..Len(bs[i].output_slots) : s = bs[i].output_slots[k]
             /\ 0 \notin Range(bs[i].output_slots)
  <2>1. PICK slots : slots = bs[i].output_slots
    OBVIOUS
  <2>2. slots \in Seq(Nat \ {0})
    BY <2>1 DEF WellFormed
  <2>3. Len(slots) \in Nat /\ DOMAIN slots = 1..Len(slots)
        /\ \A k \in 1..Len(slots) : slots[k] # 0
    BY <2>2
  <2>4. \A s : s \in Range(slots) <=> \E k \in 1..Len(slots) : s = slots[k]
    BY <2>3 DEF Range
  <2>. QED BY <2>1, <2>3, <2>4
<1>3. \A i, j \in 1..Len(bs) :
          \A k \in 1..Len(bs[i].output_slots), l \in 1..Len(bs[j].output_slots) :
              bs[i].output_slots[k] = bs[j].output_slots[l] => i = j
  BY DEF WellFormed
<1>4. ASSUME NEW i \in 1..Len(bs), NEW j \in 1..Len(bs), NEW s,
             s \in Range(bs[i].output_slots), s \in Range(bs[j].output_slots)
      PROVE  i = j
  <2>1. PICK k \in 1..Len(bs[i].output_slots) : s = bs[i].output_slots[k]
    BY <1>2, <1>4
  <2>2. PICK l \in 1..Len(bs[j].output_slots) : s = bs[j].output_slots[l]
    BY <1>2, <1>4
  <2>. QED BY <1>3, <2>1, <2>2
<1>5. ASSUME NEW s \in Slots(bs), s # 0
      PROVE  \E i \in 1..Len(bs) : s \in Range(bs[i].output_slots)
  <2>1. PICK b \in Range(bs) : s \in Range(b.output_slots)
    BY <1>5 DEF Slots
  <2>2. PICK i \in 1..Len(bs) : b = bs[i]
    BY <1>1 DEF Range
  <2>. QED BY <2>1, <2>2
<1>. QED BY <1>1, <1>2, <1>4, <1>5

\* An operation computes the same from slots that agree on its inputs.
SameInputs(b, v, w) ==
    \A a \in 1..Len(b.input_slots) : v[b.input_slots[a]] = w[b.input_slots[a]]

LEMMA SameOutputs ==
    ASSUME NEW b, DOMAIN b.input_slots = 1..Len(b.input_slots), NEW v, NEW w, NEW r,
           SameInputs(b, v, w)
    PROVE  Inputs(b, v) = Inputs(b, w) /\ Outputs(b, v, r) = Outputs(b, w, r)
<1>1. Inputs(b, v) = Inputs(b, w)
  BY DEF Inputs, SameInputs
<1>. QED BY <1>1 DEF Outputs

\* u takes the slots of b from w.
Replaces(u, bs, b, v, w) ==
    \A s \in Slots(bs) : u[s] = IF s \in Range(b.output_slots) THEN w[s] ELSE v[s]

\* One turn, of slots that agree with others on the operation's inputs.
LEMMA OneTurn ==
    ASSUME NEW bs, WellFormed(bs), NEW i \in 1..Len(bs), NEW v, DOMAIN v = Slots(bs), NEW w, NEW r,
           SameInputs(bs[i], v, w), Agreed(bs[i], w, r)
    PROVE  Replaces(Assigned(v, bs[i], Outputs(bs[i], v, r)), bs, bs[i], v, w)
<1>1. PICK out : out = Outputs(bs[i], v, r)
  OBVIOUS
<1>2. out = Outputs(bs[i], w, r)
  <2>1. DOMAIN bs[i].input_slots = 1..Len(bs[i].input_slots)
    BY InputsAre
  <2>. QED BY <1>1, <2>1, SameOutputs
<1>3. Puts(Assigned(v, bs[i], out), bs, bs[i], v, out)
  BY AssignedIs
<1>4. ASSUME NEW s \in Slots(bs), s \in Range(bs[i].output_slots)
      PROVE  Assigned(v, bs[i], out)[s] = w[s]
  <2>1. PICK k \in 1..Len(bs[i].output_slots) : s = bs[i].output_slots[k]
    <3>1. \A x : x \in Range(bs[i].output_slots)
                    <=> \E k \in 1..Len(bs[i].output_slots) : x = bs[i].output_slots[k]
      BY OutputSlots
    <3>. QED BY <1>4, <3>1
  <2>. QED BY <1>2, <1>3, <2>1 DEF Puts, Agreed
<1>. QED BY <1>1, <1>3, <1>4 DEF Puts, Replaces

Passes(turn, start, skip) ==
    /\ turn \in [0..Len(blocks) -> [Slots(blocks) -> Int]]
    /\ turn[0] = start
    /\ \A k \in 1..Len(blocks) :
          turn[k] = IF k \in skip THEN turn[k - 1]
                    ELSE Assigned(turn[k - 1], blocks[k],
                                  Outputs(blocks[k], turn[k - 1], hw_in))

\* start differs from the slots only where a turn puts that right.
Agrees(start, skip, last) ==
    /\ start[0] = last[0]
    /\ \A k \in 1..Len(blocks) :
          IF k \in skip THEN \A s \in Range(blocks[k].output_slots) : start[s] = last[s]
          ELSE Agreed(blocks[k], last, hw_in)

LEMMA PassIs ==
    ASSUME Typed, NEW last \in [Slots(blocks) -> Int], NEW start, NEW skip, NEW turn,
            Passes(turn, start, skip), Agrees(start, skip, last)
    PROVE  turn[Len(blocks)] = last
<1>. DEFINE n == Len(blocks)
            Out(k) == Range(blocks[k].output_slots)
            Done(s, k) == s = 0 \/ \E j \in 1..k : s \in Out(j)
            Good(k) == \A s \in Slots(blocks) :
                          turn[k][s] = IF Done(s, k) THEN last[s] ELSE start[s]
            T == { k \in Nat : k <= n => Good(k) }
<1>0. WellFormed(blocks) /\ n \in Nat /\ last \in [Slots(blocks) -> Int]
  BY OutputSlots DEF Typed
<1>1. 0 \in T
  <2>1. \A s : Done(s, 0) <=> s = 0
    OBVIOUS
  <2>2. turn[0] = start /\ start[0] = last[0]
    BY DEF Passes, Agrees
  <2>. HIDE DEF Done
  <2>3. Good(0)
    BY <2>1, <2>2
  <2>. HIDE DEF Good
  <2>. QED BY <2>3
<1>2. ASSUME NEW k \in T PROVE k + 1 \in T
  <2>1. SUFFICES ASSUME k + 1 <= n PROVE Good(k + 1)
    <3>. HIDE DEF Good, n
    <3>. QED OBVIOUS
  <2>2. k \in Nat /\ k + 1 \in 1..n /\ (k + 1) - 1 = k /\ k \in 0..n
    BY <1>0, <2>1
  <2>3. Good(k)
    <3>1. k \in Nat /\ (k <= n => Good(k))
      <4>. HIDE DEF Good, n
      <4>. QED OBVIOUS
    <3>2. k <= n
      BY <2>2
    <3>. HIDE DEF Good, n
    <3>. QED BY <3>1, <3>2
  <2>4. turn[k] \in [Slots(blocks) -> Int]
    BY <2>2 DEF Passes
  <2>5. turn[k + 1] = IF k + 1 \in skip THEN turn[k]
                      ELSE Assigned(turn[k], blocks[k + 1],
                                    Outputs(blocks[k + 1], turn[k], hw_in))
    BY <2>2 DEF Passes
  <2>6. ASSUME NEW s PROVE Done(s, k + 1) <=> Done(s, k) \/ s \in Out(k + 1)
    <3>1. (\A j \in 1..(k + 1) : j = k + 1 \/ j \in 1..k) /\ k + 1 \in 1..(k + 1)
          /\ \A j \in 1..k : j \in 1..(k + 1)
      BY <2>2
    <3>. HIDE DEF Out
    <3>. QED BY <3>1
  <2>7. ASSUME NEW s \in Out(k + 1) PROVE ~ Done(s, k)
    <3>1. s # 0
      BY <1>0, <2>2, OutputSlots
    <3>2. ASSUME NEW j \in 1..k PROVE s \notin Out(j)
      <4>1. j \in 1..n /\ j # k + 1
        BY <2>2
      <4>. QED BY <1>0, <2>2, <4>1, OutputSlots
    <3>. HIDE DEF Out
    <3>. QED BY <3>1, <3>2
  <2>8. CASE k + 1 \in skip
    <3>1. \A s \in Out(k + 1) : start[s] = last[s]
      BY <2>2, <2>8 DEF Agrees
    <3>2. ASSUME NEW s \in Slots(blocks)
          PROVE  turn[k + 1][s] = IF Done(s, k + 1) THEN last[s] ELSE start[s]
      <4>1. turn[k + 1][s] = IF Done(s, k) THEN last[s] ELSE start[s]
        <5>. HIDE DEF Done
        <5>. QED BY <2>3, <2>5, <2>8
      <4>. HIDE DEF Done, Out
      <4>. QED BY <2>6, <3>1, <4>1
    <3>. HIDE DEF Done
    <3>. QED BY <3>2
  <2>9. CASE k + 1 \notin skip
    <3>1. PICK b : b = blocks[k + 1]
      OBVIOUS
    <3>2. \A a \in 1..Len(b.input_slots) : turn[k][b.input_slots[a]] = last[b.input_slots[a]]
      <4>1. SUFFICES ASSUME NEW a \in 1..Len(b.input_slots)
                     PROVE  turn[k][b.input_slots[a]] = last[b.input_slots[a]]
        OBVIOUS
      <4>2. b.input_slots[a] \in Slots(blocks)
        BY <1>0, <2>2, <3>1, InputsAre
      <4>3. b.input_slots[a] = 0 \/ \E j \in 1..((k + 1) - 1) : b.input_slots[a] \in Out(j)
        BY <1>0, <2>2, <3>1 DEF WellFormed
      <4>4. Done(b.input_slots[a], k)
        <5>. HIDE DEF Out
        <5>. QED BY <2>2, <4>3
      <4>. HIDE DEF Done
      <4>. QED BY <2>3, <4>2, <4>4
    <3>3. Agreed(blocks[k + 1], last, hw_in)
      BY <2>2, <2>9 DEF Agrees
    <3>4. \A s \in Slots(blocks) :
             turn[k + 1][s] = IF s \in Out(k + 1) THEN last[s] ELSE turn[k][s]
      <4>1. PICK i \in 1..Len(blocks) : i = k + 1
        BY <2>2
      <4>2. PICK v : v = turn[k]
        OBVIOUS
      <4>3. SameInputs(blocks[i], v, last)
        BY <3>1, <3>2, <4>1, <4>2 DEF SameInputs
      <4>4. Agreed(blocks[i], last, hw_in)
        BY <3>3, <4>1
      <4>5. DOMAIN v = Slots(blocks)
        BY <2>4, <4>2
      <4>6. Replaces(Assigned(v, blocks[i], Outputs(blocks[i], v, hw_in)),
                     blocks, blocks[i], v, last)
        BY <1>0, <4>3, <4>4, <4>5, OneTurn
      <4>7. turn[k + 1] = Assigned(v, blocks[i], Outputs(blocks[i], v, hw_in))
        BY <2>5, <2>9, <4>1, <4>2
      <4>. QED BY <4>1, <4>2, <4>6, <4>7 DEF Replaces
    <3>11. ASSUME NEW s \in Slots(blocks)
           PROVE  turn[k + 1][s] = IF Done(s, k + 1) THEN last[s] ELSE start[s]
      <4>1. turn[k][s] = IF Done(s, k) THEN last[s] ELSE start[s]
        <5>. HIDE DEF Done
        <5>. QED BY <2>3
      <4>. HIDE DEF Done, Out
      <4>. QED BY <2>6, <3>4, <4>1
    <3>. HIDE DEF Done
    <3>. QED BY <3>11
  <2>. QED BY <2>8, <2>9
<1>3. T = Nat
  <2>. HIDE DEF T
  <2>1. T \in SUBSET Nat
    BY DEF T
  <2>. QED BY <1>1, <1>2, <2>1, AllNumbers
<1>4. Good(n)
  <2>1. n \in T /\ n <= n
    BY <1>0, <1>3
  <2>. HIDE DEF Good
  <2>. QED BY <2>1
<1>5. \A s \in Slots(blocks) : Done(s, n)
  BY <1>0, OutputSlots
<1>6. turn[n] \in [Slots(blocks) -> Int]
  BY <1>0 DEF Passes
<1>7. \A s \in Slots(blocks) : turn[n][s] = last[s]
  <2>. HIDE DEF Done
  <2>. QED BY <1>4, <1>5
<1>. QED BY <1>0, <1>6, <1>7

\* A turn of the abstract pass.
LEMMA TurnIs ==
    ASSUME NEW v, NEW b
    PROVE  /\ Sync!Turn(v, b) = Assigned(v, b, Outputs(b, v, hw_in))
           /\ Sync!TurnUnlessSource(v, b) =
                 IF IsSource(b) THEN v ELSE Assigned(v, b, Outputs(b, v, hw_in))
<1>1. Sync!Turn(v, b) = Assigned(v, b, Outputs(b, v, hw_in))
  BY DEF Sync!Turn, Sync!Assigned, Sync!Outputs, Sync!Execute, Sync!Inputs,
         Assigned, Outputs, Execute, Inputs, Sync!Min, Sync!Max, Min, Max
<1>2. Sync!IsSource(b) <=> IsSource(b)
  BY DEF Sync!IsSource, IsSource
<1>. QED BY <1>1, <1>2 DEF Sync!TurnUnlessSource

LEMMA TurnTyped ==
    ASSUME Typed, NEW v \in [Slots(blocks) -> Int], NEW k \in 1..Len(blocks)
    PROVE  Assigned(v, blocks[k], Outputs(blocks[k], v, hw_in)) \in [Slots(blocks) -> Int]
<1>1. PICK out : out = Outputs(blocks[k], v, hw_in)
  OBVIOUS
<1>2. PICK u : u = Assigned(v, blocks[k], out)
  OBVIOUS
<1>3. WellFormed(blocks) /\ DOMAIN v = Slots(blocks)
  BY DEF Typed
<1>4. Puts(u, blocks, blocks[k], v, out)
  BY <1>2, <1>3, AssignedIs
<1>5. \A l \in 1..Len(blocks[k].output_slots) : out[l] \in Int
  BY <1>1, OutputsAre DEF Typed
<1>6. ASSUME NEW s \in Slots(blocks) PROVE u[s] \in Int
  <2>1. CASE s \in Range(blocks[k].output_slots)
    <3>1. \A x : x \in Range(blocks[k].output_slots)
                    <=> \E l \in 1..Len(blocks[k].output_slots) : x = blocks[k].output_slots[l]
      BY <1>3, OutputSlots
    <3>2. PICK l \in 1..Len(blocks[k].output_slots) : s = blocks[k].output_slots[l]
      BY <2>1, <3>1
    <3>3. u[s] = out[l]
      BY <1>4, <3>2 DEF Puts
    <3>. QED BY <1>5, <3>3
  <2>2. CASE s \notin Range(blocks[k].output_slots)
    <3>1. u[s] = v[s]
      BY <1>4, <2>2 DEF Puts
    <3>. QED BY <3>1
  <2>. QED BY <2>1, <2>2
<1>7. u = [s \in Slots(blocks) |-> u[s]]
  <2>1. DOMAIN u = Slots(blocks)
    BY <1>4 DEF Puts
  <2>2. u = [s \in DOMAIN u |-> u[s]]
    BY <1>2 DEF Assigned
  <2>. QED BY <2>1, <2>2
<1>8. u \in [Slots(blocks) -> Int]
  BY <1>6, <1>7
<1>. QED BY <1>1, <1>2, <1>8

\* The whole pass.
LEMMA PassTick ==
    ASSUME Typed, NEW last \in [Slots(blocks) -> Int],
           NEW start \in [Slots(blocks) -> Int], Agrees(start, {}, last)
    PROVE  TickPass(start, blocks) = last
<1>. DEFINE D == [Slots(blocks) -> Int]
<1>1. Len(blocks) \in Nat /\ DOMAIN blocks = 1..Len(blocks)
  BY OutputSlots DEF Typed
<1>2. \A q \in D : \A k \in 1..Len(blocks) : Sync!Turn(q, blocks[k]) \in D
  <2>1. SUFFICES ASSUME NEW q \in D, NEW k \in 1..Len(blocks) PROVE Sync!Turn(q, blocks[k]) \in D
    <3>. HIDE DEF D
    <3>. QED OBVIOUS
  <2>2. Sync!Turn(q, blocks[k]) = Assigned(q, blocks[k], Outputs(blocks[k], q, hw_in))
    BY TurnIs
  <2>3. Assigned(q, blocks[k], Outputs(blocks[k], q, hw_in)) \in D
    BY TurnTyped
  <2>. HIDE DEF D
  <2>. QED BY <2>2, <2>3
<1>3. start \in D
  OBVIOUS
<1>. HIDE DEF D
<1>4. PICK turn : /\ turn \in [0..Len(blocks) -> D]
                  /\ turn[0] = start
                  /\ \A k \in 1..Len(blocks) : turn[k] = Sync!Turn(turn[k - 1], blocks[k])
                  /\ turn[Len(blocks)] = TickPass(start, blocks)
  <2>1. PICK list : list = blocks
    OBVIOUS
  <2>2. /\ Len(list) \in Nat /\ DOMAIN list = 1..Len(list)
        /\ \A q \in D : \A k \in 1..Len(list) : Sync!Turn(q, list[k]) \in D
    BY <1>1, <1>2, <2>1
  <2>3. \E turn : /\ turn \in [0..Len(list) -> D]
                  /\ turn[0] = start
                  /\ \A k \in 1..Len(list) : turn[k] = Sync!Turn(turn[k - 1], list[k])
                  /\ turn[Len(list)] = TickPass(start, list)
    BY <1>3, <2>2, TurnFold, ZenonT(60)
  <2>. QED BY <2>1, <2>3
<1>5. \A k \in 1..Len(blocks) : turn[k] = Assigned(turn[k - 1], blocks[k],
                                                   Outputs(blocks[k], turn[k - 1], hw_in))
  BY <1>4, TurnIs
<1>6. Passes(turn, start, {})
  BY <1>4, <1>5 DEF Passes, D
<1>7. turn[Len(blocks)] = last
  BY <1>6, PassIs
<1>. QED BY <1>4, <1>7

Sources == { k \in 1..Len(blocks) : IsSource(blocks[k]) }

LEMMA PassInject ==
    ASSUME Typed, NEW last \in [Slots(blocks) -> Int],
           NEW start \in [Slots(blocks) -> Int], Agrees(start, Sources, last)
    PROVE  InjectPass(start, blocks) = last
<1>. DEFINE D == [Slots(blocks) -> Int]
<1>1. Len(blocks) \in Nat /\ DOMAIN blocks = 1..Len(blocks)
  BY OutputSlots DEF Typed
<1>2. \A q \in D : \A k \in 1..Len(blocks) : Sync!TurnUnlessSource(q, blocks[k]) \in D
  <2>1. SUFFICES ASSUME NEW q \in D, NEW k \in 1..Len(blocks)
                 PROVE  Sync!TurnUnlessSource(q, blocks[k]) \in D
    <3>. HIDE DEF D
    <3>. QED OBVIOUS
  <2>2. Sync!TurnUnlessSource(q, blocks[k]) =
           IF IsSource(blocks[k]) THEN q
           ELSE Assigned(q, blocks[k], Outputs(blocks[k], q, hw_in))
    BY TurnIs
  <2>3. Assigned(q, blocks[k], Outputs(blocks[k], q, hw_in)) \in D
    BY TurnTyped
  <2>. HIDE DEF D
  <2>. QED BY <2>2, <2>3
<1>3. start \in D
  OBVIOUS
<1>. HIDE DEF D
<1>4. PICK turn : /\ turn \in [0..Len(blocks) -> D]
                  /\ turn[0] = start
                  /\ \A k \in 1..Len(blocks) :
                        turn[k] = Sync!TurnUnlessSource(turn[k - 1], blocks[k])
                  /\ turn[Len(blocks)] = InjectPass(start, blocks)
  <2>1. PICK list : list = blocks
    OBVIOUS
  <2>2. /\ Len(list) \in Nat /\ DOMAIN list = 1..Len(list)
        /\ \A q \in D : \A k \in 1..Len(list) : Sync!TurnUnlessSource(q, list[k]) \in D
    BY <1>1, <1>2, <2>1
  <2>3. \E turn : /\ turn \in [0..Len(list) -> D]
                  /\ turn[0] = start
                  /\ \A k \in 1..Len(list) : turn[k] = Sync!TurnUnlessSource(turn[k - 1], list[k])
                  /\ turn[Len(list)] = InjectPass(start, list)
    BY <1>3, <2>2, OtherFold, ZenonT(60)
  <2>. QED BY <2>1, <2>3
<1>5. ASSUME NEW k \in 1..Len(blocks)
      PROVE  turn[k] = IF k \in Sources THEN turn[k - 1]
                       ELSE Assigned(turn[k - 1], blocks[k], Outputs(blocks[k], turn[k - 1], hw_in))
  <2>1. turn[k] = IF IsSource(blocks[k]) THEN turn[k - 1]
                  ELSE Assigned(turn[k - 1], blocks[k], Outputs(blocks[k], turn[k - 1], hw_in))
    BY <1>4, TurnIs
  <2>. QED BY <2>1 DEF Sources
<1>6. Passes(turn, start, Sources)
  BY <1>4, <1>5 DEF Passes, D
<1>7. turn[Len(blocks)] = last
  BY <1>6, PassIs
<1>. QED BY <1>4, <1>7

-------------------------------------------------------------------------------
(* An event, from its source to the last operation it reaches.             *)

TypedInv ==
    /\ Typed
    /\ state \in [Slots(blocks) -> Int]
    /\ hw_out \in [Ports(blocks) -> Int]
    /\ before \in [state : [Slots(blocks) -> Int], hw_out : [Ports(blocks) -> Int]]

Writes(i) == blocks[i].code.op = "write"
Shows(i) == Writes(i) => hw_out[blocks[i].code.port] = state[blocks[i].input_slots[1]]
Fresh(i) == Agreed(blocks[i], state, hw_in)

\* What is not queued has nothing to do, unless it is a source.
SettledInv ==
    \A i \in 1..Len(blocks) :
        ~ in_queue[i] => Shows(i) /\ (~ IsSource(blocks[i]) => Fresh(i))

\* The event is a tick: also the sources run.  Or a source was given a value: none runs.
TickRuns(time) ==
    /\ state[0] = time
    /\ \A i \in 1..Len(blocks) : ~ in_queue[i] => Fresh(i)
InjectRuns(slot, value) ==
    LET start == [before.state EXCEPT ![slot] = value]
    IN  /\ state[0] = start[0]
        /\ \A i \in Sources : /\ ~ in_queue[i]
                              /\ \A s \in Range(blocks[i].output_slots) : start[s] = state[s]
EventInv ==
    \/ \E time \in Times : TickRuns(time)
    \/ \E slot \in SourceSlots(blocks), value \in Values : InjectRuns(slot, value)

FlowInv == RingInv /\ TypedInv /\ (Regular => SettledInv /\ (~ idle => EventInv))

\* Sources have no inputs, and only sources read ports.
LEMMA SourceIs ==
    ASSUME NEW bs, WellFormed(bs), NEW i \in 1..Len(bs)
    PROVE  /\ IsSource(bs[i]) => Len(bs[i].input_slots) = 0 /\ bs[i].code.op # "write"
           /\ IsSource(bs[i]) => Range(bs[i].input_slots) = {}
           /\ ~ IsSource(bs[i]) => bs[i].code.op \in {"add", "mul", "sub", "clamp", "nop", "write"}
<1>1. PICK b : b = bs[i]
  OBVIOUS
<1>2. /\ b.code.op \in Codes
      /\ b.input_slots \in Seq(Nat) /\ Len(b.input_slots) = Arity(b.code)
      /\ b.output_slots \in Seq(Nat \ {0}) /\ Len(b.output_slots) = ResultCount(b.code)
  BY <1>1 DEF WellFormed
<1>3. ASSUME IsSource(b) PROVE Len(b.input_slots) = 0 /\ b.code.op # "write" /\ Range(b.input_slots) = {}
  <2>1. CASE b.code.op = "constant"
    <3>1. Arity(b.code) = 0
      BY <2>1 DEF Arity
    <3>2. DOMAIN b.input_slots = {}
      BY <1>2, <3>1
    <3>. QED BY <1>2, <2>1, <3>1, <3>2 DEF Range
  <2>2. CASE b.code.op # "constant"
    <3>1. b.input_slots = << >> /\ b.output_slots # << >>
      BY <1>3, <2>2 DEF IsSource
    <3>2. Len(b.input_slots) = 0 /\ DOMAIN b.input_slots = {}
      BY <3>1
    <3>3. b.code.op # "write"
      <4>1. b.code.op = "write" => Arity(b.code) = 1
        BY DEF Arity
      <4>. QED BY <1>2, <3>2, <4>1
    <3>. QED BY <3>2, <3>3 DEF Range
  <2>. QED BY <2>1, <2>2
<1>4. ASSUME b.code.op = "constant" \/ b.code.op \in {"read", "encoder_read"} PROVE IsSource(b)
  <2>1. CASE b.code.op = "constant"
    BY <2>1 DEF IsSource
  <2>2. CASE b.code.op \in {"read", "encoder_read"}
    <3>1. Arity(b.code) = 0 /\ ResultCount(b.code) \in {1, 2}
      BY <2>2 DEF Arity, ResultCount
    <3>2. b.input_slots = << >>
      BY <1>2, <3>1
    <3>3. b.output_slots # << >>
      BY <1>2, <3>1
    <3>. QED BY <2>2, <3>2, <3>3 DEF IsSource
  <2>. QED BY <1>4, <2>1, <2>2
<1>. QED BY <1>1, <1>2, <1>3, <1>4 DEF Codes

\* The sources' slots.
LEMMA SourceSlotIs ==
    ASSUME NEW bs, WellFormed(bs), NEW slot \in SourceSlots(bs)
    PROVE  /\ slot \in Slots(bs) /\ slot # 0
           /\ \E i \in 1..Len(bs) : IsSource(bs[i]) /\ slot \in Range(bs[i].output_slots)
<1>1. DOMAIN bs = 1..Len(bs)
  BY OutputSlots
<1>2. PICK b \in Range(bs) : IsSource(b) /\ slot \in Range(b.output_slots)
  BY DEF SourceSlots
<1>3. PICK i \in 1..Len(bs) : b = bs[i]
  BY <1>1, <1>2 DEF Range
<1>4. slot # 0
  <2>1. 0 \notin Range(bs[i].output_slots)
    BY OutputSlots
  <2>. QED BY <1>2, <1>3, <2>1
<1>5. slot \in Slots(bs)
  BY <1>2 DEF Slots
<1>. QED BY <1>2, <1>3, <1>4, <1>5

\* What regularity means for an operation that nobody enqueued.
LEMMA NotEnqueued ==
    ASSUME RingInv, Regular, NEW slot, NEW c \in 1..Len(blocks), c \notin Range(subscribers[slot])
    PROVE  /\ slot \notin Range(blocks[c].input_slots)
           /\ slot = 0 => ~ IsSource(blocks[c])
  BY GraphIs DEF Regular

\* A slot enqueues no source but slot 0.
LEMMA SourceNotEnqueued ==
    ASSUME RingInv, NEW slot \in Slots(blocks), slot # 0,
           NEW c \in 1..Len(blocks), IsSource(blocks[c])
    PROVE  c \notin Range(subscribers[slot])
<1>1. PICK list : list = subscribers[slot]
  OBVIOUS
<1>2. list \in Seq(Who(blocks, slot))
  BY <1>1, GraphIs
<1>3. c \notin Who(blocks, slot)
  <2>1. Range(blocks[c].input_slots) = {}
    BY SourceIs DEF RingInv
  <2>. QED BY <2>1 DEF Who
<1>4. Range(list) \subseteq Who(blocks, slot)
  BY <1>2 DEF Range
<1>. QED BY <1>1, <1>3, <1>4

\* An operation whose inputs and outputs a change leaves alone still agrees.
LEMMA StillAgreed ==
    ASSUME NEW b, NEW v, NEW w, NEW r, DOMAIN b.input_slots = 1..Len(b.input_slots),
           Agreed(b, v, r), SameInputs(b, v, w),
           \A k \in 1..Len(b.output_slots) : w[b.output_slots[k]] = v[b.output_slots[k]]
    PROVE  Agreed(b, w, r)
<1>1. Outputs(b, v, r) = Outputs(b, w, r)
  BY SameOutputs
<1>. QED BY <1>1 DEF Agreed

\* Types, of a step of the loop.
LEMMA StepTyped ==
    ASSUME RingInv, TypedInv, Step
    PROVE  TypedInv'
<1>1. PICK i \in 1..Len(blocks) :
          /\ state' = Assigned(state, blocks[i], Outputs(blocks[i], state, hw_in))
          /\ hw_out' = IF blocks[i].code.op = "write"
                       THEN [hw_out EXCEPT ![blocks[i].code.port] = Inputs(blocks[i], state)[1]]
                       ELSE hw_out
  BY StepRing
<1>2. blocks' = blocks /\ hw_in' = hw_in /\ before' = before
  BY DEF Step, graph
<1>3. state' \in [Slots(blocks) -> Int]
  <2>1. Assigned(state, blocks[i], Outputs(blocks[i], state, hw_in)) \in [Slots(blocks) -> Int]
    BY TurnTyped DEF TypedInv
  <2>. QED BY <1>1, <2>1
<1>4. hw_out' \in [Ports(blocks) -> Int]
  <2>1. CASE blocks[i].code.op = "write"
    <3>1. Len(blocks[i].input_slots) = 1
      <4>1. Len(blocks[i].input_slots) = Arity(blocks[i].code)
        BY DEF RingInv, WellFormed
      <4>. QED BY <2>1, <4>1 DEF Arity
    <3>2. \A a \in 1..Len(blocks[i].input_slots) :
              /\ blocks[i].input_slots[a] \in Slots(blocks)
              /\ Inputs(blocks[i], state)[a] = state[blocks[i].input_slots[a]]
      BY InputsAre DEF RingInv
    <3>3. PICK x : x = Inputs(blocks[i], state)[1]
      OBVIOUS
    <3>4. x \in Int
      <4>1. 1 \in 1..Len(blocks[i].input_slots)
        BY <3>1
      <4>2. \A s \in Slots(blocks) : state[s] \in Int
        BY DEF TypedInv
      <4>. QED BY <3>2, <3>3, <4>1, <4>2
    <3>5. hw_out' = [hw_out EXCEPT ![blocks[i].code.port] = x]
      BY <1>1, <2>1, <3>3
    <3>. QED BY <3>4, <3>5 DEF TypedInv
  <2>2. CASE blocks[i].code.op # "write"
    BY <1>1, <2>2 DEF TypedInv
  <2>. QED BY <2>1, <2>2
<1>5. Typed' /\ before' \in [state : [Slots(blocks') -> Int], hw_out : [Ports(blocks') -> Int]]
  BY <1>2 DEF TypedInv, Typed
<1>6. state' \in [Slots(blocks') -> Int] /\ hw_out' \in [Ports(blocks') -> Int]
  BY <1>2, <1>3, <1>4
<1>. QED BY <1>5, <1>6 DEF TypedInv

LEMMA InjectTyped ==
    ASSUME RingInv, TypedInv, NEW slot, NEW value \in Int, Inject(slot, value)
    PROVE  TypedInv'
<1>1. blocks' = blocks /\ hw_in' = hw_in /\ hw_out' = hw_out
      /\ before' = [state |-> state, hw_out |-> hw_out] /\ state' = [state EXCEPT ![slot] = value]
  BY DEF Inject, graph
<1>2. state' \in [Slots(blocks) -> Int] /\ hw_out' \in [Ports(blocks) -> Int]
      /\ before' \in [state : [Slots(blocks) -> Int], hw_out : [Ports(blocks) -> Int]]
  BY <1>1 DEF TypedInv
<1>3. Typed'
  BY <1>1 DEF TypedInv, Typed
<1>4. /\ state' \in [Slots(blocks') -> Int] /\ hw_out' \in [Ports(blocks') -> Int]
      /\ before' \in [state : [Slots(blocks') -> Int], hw_out : [Ports(blocks') -> Int]]
  BY <1>1, <1>2
<1>. QED BY <1>3, <1>4 DEF TypedInv

LEMMA SampleTyped ==
    ASSUME TypedInv, NEW port, NEW value \in Int, Sample(port, value)
    PROVE  TypedInv'
<1>1. blocks' = blocks /\ state' = state /\ hw_out' = hw_out /\ before' = before
      /\ hw_in' = [hw_in EXCEPT ![port] = value]
  BY DEF Sample, graph
<1>2. hw_in' \in [InPorts(blocks) -> Int]
  BY <1>1 DEF TypedInv, Typed
<1>3. Typed'
  <2>1. hw_in' \in [InPorts(blocks') -> Int] /\ WellFormed(blocks')
    BY <1>1, <1>2 DEF TypedInv, Typed
  <2>. QED BY <2>1 DEF Typed
<1>4. /\ state' \in [Slots(blocks') -> Int] /\ hw_out' \in [Ports(blocks') -> Int]
      /\ before' \in [state : [Slots(blocks') -> Int], hw_out : [Ports(blocks') -> Int]]
  BY <1>1 DEF TypedInv
<1>. QED BY <1>3, <1>4 DEF TypedInv

LEMMA InitTyped ==
    ASSUME Init
    PROVE  TypedInv
<1>1. WellFormed(blocks) /\ DOMAIN state = Slots(blocks)
  BY InitRing DEF RingInv
<1>2. \A s \in Slots(blocks) : state[s] = 0
  BY <1>1 DEF Init
<1>3. state = [s \in Slots(blocks) |-> 0]
  BY <1>1, <1>2 DEF Init
<1>4. state \in [Slots(blocks) -> Int]
  BY <1>3
<1>5. hw_in \in [InPorts(blocks) -> Int]
  <2>1. hw_in \in [InPorts(blocks) -> Values]
    BY DEF Init, InPorts
  <2>2. Values \subseteq Int
    BY ReactiveAssumption
  <2>. QED BY <2>1, <2>2
<1>6. hw_out \in [Ports(blocks) -> Int]
  BY DEF Init
<1>7. before = [state |-> state, hw_out |-> hw_out]
  BY DEF Init
<1>. QED BY <1>1, <1>4, <1>5, <1>6, <1>7 DEF TypedInv, Typed

\* After a turn of i, another operation that is not queued saw none of its slots change.
LEMMA Undisturbed ==
    ASSUME RingInv, Regular, NEW i \in 1..Len(blocks), NEW c \in 1..Len(blocks), c # i,
           NEW last, last = Assigned(state, blocks[i], Outputs(blocks[i], state, hw_in)),
           \A k \in 1..Len(blocks[i].output_slots) :
              blocks[i].output_slots[k] \in Changed(blocks[i], Outputs(blocks[i], state, hw_in))
                 => c \notin Range(subscribers[blocks[i].output_slots[k]])
    PROVE  /\ SameInputs(blocks[c], state, last)
           /\ \A k \in 1..Len(blocks[c].output_slots) :
                 last[blocks[c].output_slots[k]] = state[blocks[c].output_slots[k]]
<1>1. PICK bs : bs = blocks
  OBVIOUS
<1>2. PICK out : out = Outputs(bs[i], state, hw_in)
  OBVIOUS
<1>3. WellFormed(bs) /\ DOMAIN state = Slots(bs)
  BY <1>1 DEF RingInv
<1>4. Puts(last, bs, bs[i], state, out)
  BY <1>1, <1>2, <1>3, AssignedIs
<1>5. \A j \in 1..Len(bs) : \A x :
         x \in Range(bs[j].output_slots)
            <=> \E k \in 1..Len(bs[j].output_slots) : x = bs[j].output_slots[k]
  BY <1>3, OutputSlots
<1>. /\ i \in 1..Len(bs)
     /\ c \in 1..Len(bs)
  BY <1>1
<1>6. ASSUME NEW s \in Slots(bs), s \in Range(bs[c].input_slots) PROVE last[s] = state[s]
  <2>1. CASE s \notin Range(bs[i].output_slots)
    BY <1>4, <2>1 DEF Puts
  <2>2. CASE s \in Range(bs[i].output_slots)
    <3>1. SUFFICES ASSUME last[s] # state[s] PROVE FALSE
      OBVIOUS
    <3>2. s \in Changed(bs[i], out)
      BY <1>1, <1>2, <2>2, <3>1 DEF Changed
    <3>3. PICK k \in 1..Len(bs[i].output_slots) : s = bs[i].output_slots[k]
      BY <1>5, <2>2
    <3>4. c \notin Range(subscribers[s])
      BY <1>1, <1>2, <3>2, <3>3
    <3>5. s \notin Range(bs[c].input_slots)
      BY <1>1, <3>4, NotEnqueued
    <3>. QED BY <1>6, <3>5
  <2>. QED BY <2>1, <2>2
<1>7. ASSUME NEW a \in 1..Len(bs[c].input_slots)
      PROVE  state[bs[c].input_slots[a]] = last[bs[c].input_slots[a]]
  <2>1. DOMAIN bs[c].input_slots = 1..Len(bs[c].input_slots)
        /\ bs[c].input_slots[a] \in Slots(bs)
    BY <1>1, <1>3, InputsAre
  <2>2. bs[c].input_slots[a] \in Range(bs[c].input_slots)
    BY <2>1 DEF Range
  <2>. QED BY <1>6, <2>1, <2>2
<1>8. ASSUME NEW k \in 1..Len(bs[c].output_slots)
      PROVE  last[bs[c].output_slots[k]] = state[bs[c].output_slots[k]]
  <2>1. PICK s : s = bs[c].output_slots[k]
    OBVIOUS
  <2>2. s \in Range(bs[c].output_slots)
    <3>. QED BY <1>5, <2>1
  <2>3. s \notin Range(bs[i].output_slots)
    BY <1>1, <1>3, <2>2, OutputSlots
  <2>4. s \in Slots(bs)
    <3>1. DOMAIN bs = 1..Len(bs)
      BY <1>3, OutputSlots
    <3>2. bs[c] \in Range(bs)
      BY <1>1, <3>1 DEF Range
    <3>. QED BY <2>2, <3>2 DEF Slots
  <2>. QED BY <1>4, <2>1, <2>3, <2>4 DEF Puts
<1>. QED BY <1>1, <1>7, <1>8 DEF SameInputs

\* The operation that ran agrees with what it has written.
LEMMA RanAgrees ==
    ASSUME RingInv, NEW i \in 1..Len(blocks),
           NEW last, last = Assigned(state, blocks[i], Outputs(blocks[i], state, hw_in))
    PROVE  SameInputs(blocks[i], state, last) /\ Agreed(blocks[i], last, hw_in)
<1>1. PICK bs : bs = blocks
  OBVIOUS
<1>2. PICK out : out = Outputs(bs[i], state, hw_in)
  OBVIOUS
<1>3. WellFormed(bs) /\ DOMAIN state = Slots(bs)
  BY <1>1 DEF RingInv
<1>4. Puts(last, bs, bs[i], state, out)
  BY <1>1, <1>2, <1>3, AssignedIs
<1>5. ASSUME NEW a \in 1..Len(bs[i].input_slots)
      PROVE  state[bs[i].input_slots[a]] = last[bs[i].input_slots[a]]
  <2>1. PICK s : s = bs[i].input_slots[a]
    OBVIOUS
  <2>2. s \in Slots(bs)
    BY <1>1, <1>3, <2>1, InputsAre
  <2>3. s = 0 \/ \E j \in 1..(i - 1) : s \in Range(bs[j].output_slots)
    BY <1>1, <1>3, <2>1 DEF WellFormed
  <2>4. s \notin Range(bs[i].output_slots)
    <3>1. CASE s = 0
      <4>1. 0 \notin Range(bs[i].output_slots)
        BY <1>1, <1>3, OutputSlots
      <4>. QED BY <3>1, <4>1
    <3>2. CASE s # 0
      <4>1. PICK j \in 1..(i - 1) : s \in Range(bs[j].output_slots)
        BY <2>3, <3>2
      <4>2. j \in 1..Len(bs) /\ j # i
        <5>1. Len(bs) \in Nat
          BY <1>3, OutputSlots
        <5>. QED BY <1>1, <5>1
      <4>. QED BY <1>1, <1>3, <4>1, <4>2, OutputSlots
    <3>. QED BY <3>1, <3>2
  <2>. QED BY <1>4, <2>1, <2>2, <2>4 DEF Puts
<1>6. SameInputs(bs[i], state, last)
  BY <1>5 DEF SameInputs
<1>7. DOMAIN bs[i].input_slots = 1..Len(bs[i].input_slots)
  BY <1>1, <1>3, InputsAre
<1>8. out = Outputs(bs[i], last, hw_in)
  BY <1>2, <1>6, <1>7, SameOutputs
<1>9. Agreed(bs[i], last, hw_in)
  BY <1>4, <1>8 DEF Agreed, Puts
<1>. QED BY <1>1, <1>6, <1>9

-------------------------------------------------------------------------------
(* What a turn of the loop leaves as it was.                               *)

\* A change from v to w that c has not seen, or that it does not see.
Spared(c, v, w) ==
    /\ SameInputs(blocks[c], v, w)
    /\ \A k \in 1..Len(blocks[c].output_slots) :
          w[blocks[c].output_slots[k]] = v[blocks[c].output_slots[k]]

\* What the queue and the slots say of the operations, from one state to the next.
Turned(i) ==
    /\ in_queue[i]
    /\ SameInputs(blocks[i], state, state') /\ Agreed(blocks[i], state', hw_in)
    /\ \A s \in Slots(blocks) : s \notin Range(blocks[i].output_slots) => state'[s] = state[s]
    /\ hw_out' = IF Writes(i)
                 THEN [hw_out EXCEPT ![blocks[i].code.port] = state[blocks[i].input_slots[1]]]
                 ELSE hw_out
    /\ \A c \in 1..Len(blocks) : c # i /\ ~ in_queue'[c] => ~ in_queue[c] /\ Spared(c, state, state')
    /\ \A c \in Sources : ~ in_queue[c] => ~ in_queue'[c]

LEMMA StepTurns ==
    ASSUME RingInv, Regular, Step
    PROVE  \E i \in 1..Len(blocks) : Turned(i)
<1>1. PICK i \in 1..Len(blocks) :
          /\ in_queue[i]
          /\ state' = Assigned(state, blocks[i], Outputs(blocks[i], state, hw_in))
          /\ hw_out' = IF blocks[i].code.op = "write"
                       THEN [hw_out EXCEPT ![blocks[i].code.port] = Inputs(blocks[i], state)[1]]
                       ELSE hw_out
          /\ \A c \in 1..Len(blocks) : in_queue'[c]
                <=> \/ in_queue[c] /\ c # i
                    \/ \E k \in 1..Len(blocks[i].output_slots) :
                          /\ blocks[i].output_slots[k]
                                \in Changed(blocks[i], Outputs(blocks[i], state, hw_in))
                          /\ c \in Range(subscribers[blocks[i].output_slots[k]])
  BY StepRing
<1>2. PICK last : last = state'
  OBVIOUS
<1>3. last = Assigned(state, blocks[i], Outputs(blocks[i], state, hw_in))
  BY <1>1, <1>2
<1>4. SameInputs(blocks[i], state, last) /\ Agreed(blocks[i], last, hw_in)
  BY <1>3, RanAgrees
<1>5. \A s \in Slots(blocks) : s \notin Range(blocks[i].output_slots) => last[s] = state[s]
  <2>1. PICK out : out = Outputs(blocks[i], state, hw_in)
    OBVIOUS
  <2>2. Puts(Assigned(state, blocks[i], out), blocks, blocks[i], state, out)
    BY AssignedIs DEF RingInv
  <2>. QED BY <1>3, <2>1, <2>2 DEF Puts
<1>6. hw_out' = IF Writes(i)
                THEN [hw_out EXCEPT ![blocks[i].code.port] = state[blocks[i].input_slots[1]]]
                ELSE hw_out
  <2>1. CASE Writes(i)
    <3>1. Len(blocks[i].input_slots) = 1
      <4>1. Len(blocks[i].input_slots) = Arity(blocks[i].code)
        BY DEF RingInv, WellFormed
      <4>. QED BY <2>1, <4>1 DEF Arity, Writes
    <3>2. \A a \in 1..Len(blocks[i].input_slots) :
              Inputs(blocks[i], state)[a] = state[blocks[i].input_slots[a]]
      BY InputsAre DEF RingInv
    <3>3. Inputs(blocks[i], state)[1] = state[blocks[i].input_slots[1]]
      BY <3>1, <3>2
    <3>. QED BY <1>1, <2>1, <3>3 DEF Writes
  <2>2. CASE ~ Writes(i)
    BY <1>1, <2>2 DEF Writes
  <2>. QED BY <2>1, <2>2
<1>7. ASSUME NEW c \in 1..Len(blocks), c # i, ~ in_queue'[c]
      PROVE  ~ in_queue[c] /\ Spared(c, state, last)
  <2>1. ~ in_queue[c]
    BY <1>1, <1>7
  <2>2. \A k \in 1..Len(blocks[i].output_slots) :
           blocks[i].output_slots[k] \in Changed(blocks[i], Outputs(blocks[i], state, hw_in))
              => c \notin Range(subscribers[blocks[i].output_slots[k]])
    BY <1>1, <1>7
  <2>3. /\ SameInputs(blocks[c], state, last)
        /\ \A k \in 1..Len(blocks[c].output_slots) :
              last[blocks[c].output_slots[k]] = state[blocks[c].output_slots[k]]
    BY <1>3, <1>7, <2>2, Undisturbed
  <2>. QED BY <2>1, <2>3 DEF Spared
<1>8. ASSUME NEW c \in Sources, ~ in_queue[c] PROVE ~ in_queue'[c]
  <2>1. c \in 1..Len(blocks) /\ IsSource(blocks[c])
    BY DEF Sources
  <2>2. ASSUME NEW k \in 1..Len(blocks[i].output_slots)
        PROVE  c \notin Range(subscribers[blocks[i].output_slots[k]])
    <3>1. PICK s : s = blocks[i].output_slots[k]
      OBVIOUS
    <3>2. s \in Slots(blocks) /\ s \in Range(blocks[i].output_slots)
      <4>1. s \in Slots(blocks)
        BY <3>1, GraphIs
      <4>2. \A x : x \in Range(blocks[i].output_slots)
               <=> \E l \in 1..Len(blocks[i].output_slots) : x = blocks[i].output_slots[l]
        BY OutputSlots DEF RingInv
      <4>. QED BY <3>1, <4>1, <4>2
    <3>3. s # 0
      <4>1. 0 \notin Range(blocks[i].output_slots)
        BY OutputSlots DEF RingInv
      <4>. QED BY <3>2, <4>1
    <3>4. c \notin Range(subscribers[s])
      BY <2>1, <3>2, <3>3, SourceNotEnqueued
    <3>. QED BY <3>1, <3>4
  <2>. QED BY <1>1, <1>8, <2>1, <2>2
<1>. QED BY <1>1, <1>2, <1>4, <1>5, <1>6, <1>7, <1>8 DEF Turned

\* An operation that writes has one input and a port of its own.
LEMMA PortIs ==
    ASSUME RingInv, NEW i \in 1..Len(blocks), Writes(i)
    PROVE  /\ blocks[i].code.port \in Ports(blocks)
           /\ Len(blocks[i].input_slots) = 1
           /\ blocks[i].input_slots[1] \in Slots(blocks)
<1>1. Len(blocks[i].input_slots) = 1
  <2>1. Len(blocks[i].input_slots) = Arity(blocks[i].code)
    BY DEF RingInv, WellFormed
  <2>. QED BY <2>1 DEF Arity, Writes
<1>2. blocks[i].input_slots[1] \in Slots(blocks)
  <2>1. \A a \in 1..Len(blocks[i].input_slots) : blocks[i].input_slots[a] \in Slots(blocks)
    BY InputsAre DEF RingInv
  <2>. QED BY <1>1, <2>1
<1>3. blocks[i] \in Range(blocks)
  BY GraphIs DEF Range
<1>. QED BY <1>1, <1>2, <1>3 DEF Ports, Writers, Writes

\* One that was not enqueued still has nothing to do, and the one that ran has nothing left.
LEMMA StepSettles ==
    ASSUME RingInv, TypedInv, Regular, SettledInv, Step
    PROVE  SettledInv'
<1>1. PICK i \in 1..Len(blocks) : Turned(i)
  BY StepTurns
<1>2. blocks' = blocks /\ hw_in' = hw_in
  BY DEF Step, graph
<1>3. PICK last : last = state'
  OBVIOUS
<1>4. SameInputs(blocks[i], state, last) /\ Agreed(blocks[i], last, hw_in)
  BY <1>1, <1>3 DEF Turned
<1>5. hw_out' = IF Writes(i)
                THEN [hw_out EXCEPT ![blocks[i].code.port] = state[blocks[i].input_slots[1]]]
                ELSE hw_out
  BY <1>1 DEF Turned
<1>6. hw_out \in [Ports(blocks) -> Int]
  BY DEF TypedInv
<1>7. ASSUME NEW c \in 1..Len(blocks), SameInputs(blocks[c], state, last), Writes(c)
      PROVE  /\ blocks[c].code.port \in Ports(blocks)
             /\ state[blocks[c].input_slots[1]] = last[blocks[c].input_slots[1]]
  <2>1. Len(blocks[c].input_slots) = 1 /\ blocks[c].code.port \in Ports(blocks)
    BY <1>7, PortIs
  <2>2. 1 \in 1..Len(blocks[c].input_slots)
    BY <2>1
  <2>. QED BY <1>7, <2>1, <2>2 DEF SameInputs
<1>8. ASSUME NEW c \in 1..Len(blocks), ~ in_queue'[c]
      PROVE  /\ Writes(c) => hw_out'[blocks[c].code.port] = last[blocks[c].input_slots[1]]
             /\ ~ IsSource(blocks[c]) => Agreed(blocks[c], last, hw_in)
  <2>1. CASE c = i
    <3>1. ASSUME Writes(i)
          PROVE  hw_out'[blocks[i].code.port] = last[blocks[i].input_slots[1]]
      <4>1. PICK x : x = state[blocks[i].input_slots[1]]
        OBVIOUS
      <4>2. hw_out' = [hw_out EXCEPT ![blocks[i].code.port] = x]
        BY <1>5, <3>1, <4>1
      <4>3. blocks[i].code.port \in Ports(blocks) /\ x = last[blocks[i].input_slots[1]]
        BY <1>4, <1>7, <3>1, <4>1
      <4>. QED BY <1>6, <4>2, <4>3
    <3>. QED BY <1>4, <2>1, <3>1
  <2>2. CASE c # i
    <3>1. ~ in_queue[c] /\ Spared(c, state, last)
      BY <1>1, <1>3, <1>8, <2>2 DEF Turned
    <3>2. SameInputs(blocks[c], state, last)
          /\ \A k \in 1..Len(blocks[c].output_slots) :
                last[blocks[c].output_slots[k]] = state[blocks[c].output_slots[k]]
      BY <3>1 DEF Spared
    <3>3. Shows(c) /\ (~ IsSource(blocks[c]) => Agreed(blocks[c], state, hw_in))
      BY <3>1 DEF SettledInv, Fresh
    <3>4. ASSUME Writes(c)
          PROVE  hw_out'[blocks[c].code.port] = last[blocks[c].input_slots[1]]
      <4>1. hw_out[blocks[c].code.port] = state[blocks[c].input_slots[1]]
        BY <3>3, <3>4 DEF Shows
      <4>2. state[blocks[c].input_slots[1]] = last[blocks[c].input_slots[1]]
            /\ blocks[c].code.port \in Ports(blocks)
        BY <1>7, <3>2, <3>4
      <4>3. hw_out'[blocks[c].code.port] = hw_out[blocks[c].code.port]
        <5>1. CASE Writes(i)
          <6>1. blocks[i].code.port # blocks[c].code.port
            BY <2>2, <3>4, <5>1, GraphIs DEF Regular, Writes
          <6>2. PICK x : x = state[blocks[i].input_slots[1]]
            OBVIOUS
          <6>3. hw_out' = [hw_out EXCEPT ![blocks[i].code.port] = x]
            BY <1>5, <5>1, <6>2
          <6>. QED BY <1>6, <4>2, <6>1, <6>3
        <5>2. CASE ~ Writes(i)
          BY <1>5, <5>2
        <5>. QED BY <5>1, <5>2
      <4>. QED BY <4>1, <4>2, <4>3
    <3>5. ASSUME ~ IsSource(blocks[c]) PROVE Agreed(blocks[c], last, hw_in)
      <4>1. Agreed(blocks[c], state, hw_in)
        BY <3>3, <3>5
      <4>2. DOMAIN blocks[c].input_slots = 1..Len(blocks[c].input_slots)
        BY InputsAre DEF RingInv
      <4>. QED BY <3>2, <4>1, <4>2, StillAgreed
    <3>. QED BY <3>4, <3>5
  <2>. QED BY <2>1, <2>2
<1>9. ASSUME NEW c \in 1..Len(blocks), ~ in_queue'[c]
      PROVE  Shows(c)' /\ (~ IsSource(blocks'[c]) => Fresh(c)')
  <2>1. Shows(c)'
    BY <1>2, <1>3, <1>8, <1>9 DEF Shows, Writes
  <2>2. ~ IsSource(blocks'[c]) => Fresh(c)'
    <3>1. ~ IsSource(blocks[c]) => Agreed(blocks[c], last, hw_in)
      BY <1>8, <1>9
    <3>. QED BY <1>2, <1>3, <3>1 DEF Fresh
  <2>. QED BY <2>1, <2>2
<1>. QED BY <1>2, <1>9 DEF SettledInv

\* The same event goes on.
LEMMA StepEvent ==
    ASSUME RingInv, TypedInv, Regular, EventInv, Step
    PROVE  EventInv'
<1>1. PICK i \in 1..Len(blocks) : Turned(i)
  BY StepTurns
<1>2. blocks' = blocks /\ hw_in' = hw_in /\ before' = before
  BY DEF Step, graph
<1>3. PICK last : last = state'
  OBVIOUS
<1>4. last[0] = state[0]
  <2>1. 0 \notin Range(blocks[i].output_slots)
    BY OutputSlots DEF RingInv
  <2>. QED BY <1>1, <1>3, <2>1, GraphIs DEF Turned
<1>5. ASSUME NEW time \in Times, TickRuns(time) PROVE TickRuns(time)'
  <2>1. ASSUME NEW c \in 1..Len(blocks), ~ in_queue'[c] PROVE Agreed(blocks[c], last, hw_in)
    <3>1. CASE c = i
      BY <1>1, <1>3, <3>1 DEF Turned
    <3>2. CASE c # i
      <4>1. ~ in_queue[c] /\ Spared(c, state, last)
        BY <1>1, <1>3, <2>1, <3>2 DEF Turned
      <4>2. SameInputs(blocks[c], state, last)
            /\ \A k \in 1..Len(blocks[c].output_slots) :
                  last[blocks[c].output_slots[k]] = state[blocks[c].output_slots[k]]
        BY <4>1 DEF Spared
      <4>3. Agreed(blocks[c], state, hw_in)
        BY <1>5, <4>1 DEF TickRuns, Fresh
      <4>4. DOMAIN blocks[c].input_slots = 1..Len(blocks[c].input_slots)
        BY InputsAre DEF RingInv
      <4>. QED BY <4>2, <4>3, <4>4, StillAgreed
    <3>. QED BY <3>1, <3>2
  <2>2. state'[0] = time
    BY <1>3, <1>4, <1>5 DEF TickRuns
  <2>3. ASSUME NEW c \in 1..Len(blocks'), ~ in_queue'[c] PROVE Fresh(c)'
    BY <1>2, <1>3, <2>1, <2>3 DEF Fresh
  <2>. QED BY <2>2, <2>3 DEF TickRuns
<1>6. ASSUME NEW slot \in SourceSlots(blocks), NEW value \in Values, InjectRuns(slot, value)
      PROVE  InjectRuns(slot, value)'
  <2>1. PICK start : start = [before.state EXCEPT ![slot] = value]
    OBVIOUS
  <2>2. state[0] = start[0]
        /\ \A c \in Sources : /\ ~ in_queue[c]
                              /\ \A s \in Range(blocks[c].output_slots) : start[s] = state[s]
    BY <1>6, <2>1 DEF InjectRuns
  <2>3. ASSUME NEW c \in Sources
        PROVE  ~ in_queue'[c] /\ \A s \in Range(blocks[c].output_slots) : start[s] = last[s]
    <3>1. ~ in_queue'[c] /\ c # i /\ c \in 1..Len(blocks)
      BY <1>1, <2>2 DEF Turned, Sources
    <3>2. Spared(c, state, last)
      BY <1>1, <1>3, <3>1 DEF Turned
    <3>3. \A s : s \in Range(blocks[c].output_slots)
             <=> \E k \in 1..Len(blocks[c].output_slots) : s = blocks[c].output_slots[k]
      BY <3>1, OutputSlots DEF RingInv
    <3>4. \A s \in Range(blocks[c].output_slots) : last[s] = state[s]
      BY <3>2, <3>3 DEF Spared
    <3>. QED BY <2>2, <3>1, <3>4
  <2>4. Sources' = Sources
    BY <1>2 DEF Sources
  <2>5. start = [before'.state EXCEPT ![slot] = value] /\ state'[0] = start[0]
    BY <1>2, <1>3, <1>4, <2>1, <2>2
  <2>. QED BY <1>2, <1>3, <2>3, <2>4, <2>5 DEF InjectRuns
<1>7. CASE \E time \in Times : TickRuns(time)
  BY <1>5, <1>7 DEF EventInv
<1>8. CASE \E slot \in SourceSlots(blocks), value \in Values : InjectRuns(slot, value)
  BY <1>2, <1>6, <1>8 DEF EventInv
<1>. QED BY <1>7, <1>8 DEF EventInv

\* A new value of the clock or of a source: everyone who sees it is in the queue.
LEMMA InjectFlow ==
    ASSUME RingInv, TypedInv, Regular, SettledInv, NEW slot, NEW value, Inject(slot, value),
           \/ slot = 0 /\ value \in Times
           \/ slot \in SourceSlots(blocks) /\ value \in Values
    PROVE  SettledInv' /\ EventInv'
<1>1. /\ blocks' = blocks /\ hw_in' = hw_in /\ hw_out' = hw_out
      /\ before' = [state |-> state, hw_out |-> hw_out] /\ state' = [state EXCEPT ![slot] = value]
      /\ idle
  BY DEF Inject, graph
<1>2. /\ slot \in Slots(blocks)
      /\ \A c \in 1..Len(blocks) : in_queue'[c] <=> in_queue[c] \/ c \in Range(subscribers[slot])
  BY InjectRing
<1>3. PICK last : last = state'
  OBVIOUS
<1>4. /\ last[slot] = value
      /\ \A s \in Slots(blocks) : s # slot => last[s] = state[s]
  BY <1>1, <1>2, <1>3 DEF TypedInv
<1>5. ASSUME NEW c \in 1..Len(blocks), ~ in_queue'[c]
      PROVE  ~ in_queue[c] /\ SameInputs(blocks[c], state, last) /\ (slot = 0 => ~ IsSource(blocks[c]))
  <2>1. ~ in_queue[c] /\ c \notin Range(subscribers[slot])
    BY <1>2, <1>5
  <2>2. slot \notin Range(blocks[c].input_slots) /\ (slot = 0 => ~ IsSource(blocks[c]))
    BY <2>1, NotEnqueued
  <2>3. ASSUME NEW a \in 1..Len(blocks[c].input_slots)
        PROVE  state[blocks[c].input_slots[a]] = last[blocks[c].input_slots[a]]
    <3>1. PICK s : s = blocks[c].input_slots[a]
      OBVIOUS
    <3>2. DOMAIN blocks[c].input_slots = 1..Len(blocks[c].input_slots) /\ s \in Slots(blocks)
      BY <3>1, InputsAre DEF RingInv
    <3>3. s # slot
      BY <2>2, <3>1, <3>2 DEF Range
    <3>. QED BY <1>4, <3>1, <3>2, <3>3
  <2>. QED BY <2>1, <2>2, <2>3 DEF SameInputs
<1>6. ASSUME NEW c \in 1..Len(blocks), ~ IsSource(blocks[c])
      PROVE  slot \notin Range(blocks[c].output_slots)
  <2>1. CASE slot = 0
    <3>1. 0 \notin Range(blocks[c].output_slots)
      BY OutputSlots DEF RingInv
    <3>. QED BY <2>1, <3>1
  <2>2. CASE slot \in SourceSlots(blocks)
    <3>1. PICK j \in 1..Len(blocks) : IsSource(blocks[j]) /\ slot \in Range(blocks[j].output_slots)
      BY <2>2, SourceSlotIs DEF RingInv
    <3>2. \A i1, j1 \in 1..Len(blocks) : \A s :
             s \in Range(blocks[i1].output_slots) /\ s \in Range(blocks[j1].output_slots) => i1 = j1
      BY OutputSlots DEF RingInv
    <3>. QED BY <1>6, <3>1, <3>2
  <2>. QED BY <2>1, <2>2
<1>7. ASSUME NEW c \in 1..Len(blocks), ~ in_queue'[c], ~ IsSource(blocks[c])
      PROVE  Agreed(blocks[c], last, hw_in)
  <2>1. ASSUME NEW k \in 1..Len(blocks[c].output_slots)
        PROVE  last[blocks[c].output_slots[k]] = state[blocks[c].output_slots[k]]
    <3>1. PICK s : s = blocks[c].output_slots[k]
      OBVIOUS
    <3>2. s \in Slots(blocks)
      BY <3>1, GraphIs
    <3>3. \A x : x \in Range(blocks[c].output_slots)
             <=> \E l \in 1..Len(blocks[c].output_slots) : x = blocks[c].output_slots[l]
      BY OutputSlots DEF RingInv
    <3>4. s # slot
      BY <1>6, <1>7, <3>1, <3>3
    <3>. QED BY <1>4, <3>1, <3>2, <3>4
  <2>2. Agreed(blocks[c], state, hw_in)
    BY <1>5, <1>7 DEF SettledInv, Fresh
  <2>3. DOMAIN blocks[c].input_slots = 1..Len(blocks[c].input_slots)
    BY InputsAre DEF RingInv
  <2>4. SameInputs(blocks[c], state, last)
    BY <1>5, <1>7
  <2>. QED BY <2>1, <2>2, <2>3, <2>4, StillAgreed
<1>8. SettledInv'
  <2>1. ASSUME NEW c \in 1..Len(blocks), ~ in_queue'[c], Writes(c)
        PROVE  hw_out[blocks[c].code.port] = last[blocks[c].input_slots[1]]
    <3>1. ~ in_queue[c] /\ SameInputs(blocks[c], state, last)
      BY <1>5, <2>1
    <3>2. hw_out[blocks[c].code.port] = state[blocks[c].input_slots[1]]
      BY <2>1, <3>1 DEF SettledInv, Shows
    <3>3. 1 \in 1..Len(blocks[c].input_slots)
      <4>1. Len(blocks[c].input_slots) = 1
        BY <2>1, PortIs
      <4>. QED BY <4>1
    <3>. QED BY <3>1, <3>2, <3>3 DEF SameInputs
  <2>2. ASSUME NEW c \in 1..Len(blocks), ~ in_queue'[c]
        PROVE  Shows(c)' /\ (~ IsSource(blocks'[c]) => Fresh(c)')
    <3>1. Shows(c)'
      BY <1>1, <1>3, <2>1, <2>2 DEF Shows, Writes
    <3>2. ~ IsSource(blocks'[c]) => Fresh(c)'
      <4>1. ~ IsSource(blocks[c]) => Agreed(blocks[c], last, hw_in)
        BY <1>7, <2>2
      <4>. QED BY <1>1, <1>3, <4>1 DEF Fresh
    <3>. QED BY <3>1, <3>2
  <2>. QED BY <1>1, <2>2 DEF SettledInv
<1>9. CASE slot = 0 /\ value \in Times
  <2>1. ASSUME NEW c \in 1..Len(blocks'), ~ in_queue'[c] PROVE Fresh(c)'
    <3>1. c \in 1..Len(blocks) /\ ~ IsSource(blocks[c])
      BY <1>1, <1>5, <1>9, <2>1
    <3>2. Agreed(blocks[c], last, hw_in)
      BY <1>7, <2>1, <3>1
    <3>. QED BY <1>1, <1>3, <3>2 DEF Fresh
  <2>2. state'[0] = value
    BY <1>3, <1>4, <1>9
  <2>3. TickRuns(value)'
    BY <2>1, <2>2 DEF TickRuns
  <2>. QED BY <1>8, <1>9, <2>3 DEF EventInv
<1>10. CASE slot \in SourceSlots(blocks) /\ value \in Values
  <2>1. [before'.state EXCEPT ![slot] = value] = last
    BY <1>1, <1>3
  <2>2. ASSUME NEW c \in Sources PROVE ~ in_queue'[c]
    <3>1. c \in 1..Len(blocks) /\ IsSource(blocks[c])
      BY DEF Sources
    <3>2. ~ in_queue[c]
      BY <1>1, <3>1, IdleIs
    <3>3. slot # 0
      BY <1>10, SourceSlotIs DEF RingInv
    <3>4. c \notin Range(subscribers[slot])
      BY <1>2, <3>1, <3>3, SourceNotEnqueued
    <3>. QED BY <1>2, <3>1, <3>2, <3>4
  <2>3. Sources' = Sources
    BY <1>1 DEF Sources
  <2>4. InjectRuns(slot, value)'
    BY <1>3, <2>1, <2>2, <2>3 DEF InjectRuns
  <2>. QED BY <1>1, <1>8, <1>10, <2>4 DEF EventInv
<1>. QED BY <1>9, <1>10

\* Only sources read the ports.
LEMMA SampleFlow ==
    ASSUME RingInv, SettledInv, NEW port, NEW value, Sample(port, value)
    PROVE  SettledInv' /\ idle'
<1>1. /\ idle /\ blocks' = blocks /\ state' = state /\ hw_out' = hw_out /\ in_queue' = in_queue
      /\ queue_head' = queue_head /\ queue_tail' = queue_tail
  BY DEF Sample, graph, ring
<1>2. PICK r : r = hw_in'
  OBVIOUS
<1>3. ASSUME NEW c \in 1..Len(blocks), ~ IsSource(blocks[c]), Fresh(c)
      PROVE  Agreed(blocks[c], state, r)
  <2>1. PICK b : b = blocks[c]
    OBVIOUS
  <2>2. b.code.op \in {"add", "mul", "sub", "clamp", "nop", "write"}
    BY <1>3, <2>1, SourceIs DEF RingInv
  <2>3. PICK in : in = Inputs(b, state)
    OBVIOUS
  <2>4. Execute(b.code, in, r) = Execute(b.code, in, hw_in)
    BY <2>2 DEF Execute
  <2>5. Outputs(b, state, r) = Outputs(b, state, hw_in)
    BY <2>3, <2>4 DEF Outputs
  <2>6. Agreed(b, state, hw_in)
    BY <1>3, <2>1 DEF Fresh
  <2>. QED BY <2>1, <2>5, <2>6 DEF Agreed
<1>4. ASSUME NEW c \in 1..Len(blocks), ~ in_queue[c]
      PROVE  Shows(c)' /\ (~ IsSource(blocks[c]) => Fresh(c)')
  <2>1. Shows(c) /\ (~ IsSource(blocks[c]) => Fresh(c))
    BY <1>4 DEF SettledInv
  <2>2. Shows(c)'
    BY <1>1, <2>1 DEF Shows, Writes
  <2>3. ASSUME ~ IsSource(blocks[c]) PROVE Fresh(c)'
    <3>1. Agreed(blocks[c], state, r)
      BY <1>3, <2>1, <2>3
    <3>. QED BY <1>1, <1>2, <3>1 DEF Fresh
  <2>. QED BY <2>2, <2>3
<1>5. SettledInv'
  BY <1>1, <1>4 DEF SettledInv
<1>6. idle'
  BY <1>1 DEF idle
<1>. QED BY <1>5, <1>6

\* Everything is 0 at first, and every operation but the sources gives 0 on that.
LEMMA InitFlow ==
    ASSUME Init, Regular
    PROVE  SettledInv /\ idle
<1>1. RingInv /\ \A s \in Slots(blocks) : state[s] = 0
  <2>1. RingInv
    BY InitRing
  <2>. QED BY <2>1 DEF RingInv, Init
<1>2. \A port \in Ports(blocks) : hw_out[port] = 0
  BY DEF Init
<1>3. ASSUME NEW c \in 1..Len(blocks) PROVE Shows(c)
  <2>1. SUFFICES ASSUME Writes(c)
                 PROVE  hw_out[blocks[c].code.port] = state[blocks[c].input_slots[1]]
    BY DEF Shows
  <2>2. blocks[c].code.port \in Ports(blocks) /\ blocks[c].input_slots[1] \in Slots(blocks)
    BY <1>1, <2>1, PortIs
  <2>. QED BY <1>1, <1>2, <2>2
<1>4. ASSUME NEW c \in 1..Len(blocks), ~ IsSource(blocks[c]) PROVE Fresh(c)
  <2>1. PICK b : b = blocks[c]
    OBVIOUS
  <2>2. PICK in : in = Inputs(b, state)
    OBVIOUS
  <2>3. PICK r : r = hw_in
    OBVIOUS
  <2>4. b.code.op \in {"add", "mul", "sub", "clamp", "nop", "write"}
    BY <1>1, <1>4, <2>1, SourceIs DEF RingInv
  <2>5. \A a \in 1..Len(b.input_slots) : in[a] = 0
    <3>1. \A a \in 1..Len(blocks[c].input_slots) :
             /\ blocks[c].input_slots[a] \in Slots(blocks)
             /\ Inputs(blocks[c], state)[a] = state[blocks[c].input_slots[a]]
      BY <1>1, InputsAre DEF RingInv
    <3>. QED BY <1>1, <2>1, <2>2, <3>1
  <2>6. Len(b.input_slots) = Arity(b.code) /\ Len(b.output_slots) = ResultCount(b.code)
        /\ (b.code.op = "clamp" => {b.code.lo, b.code.hi} \subseteq Int)
    BY <1>1, <2>1 DEF RingInv, WellFormed
  <2>7. ASSUME NEW k \in 1..Len(b.output_slots)
        PROVE  Execute(b.code, in, r)[k] = 0
    <3>1. CASE b.code.op \in {"add", "mul", "sub"}
      <4>1. Arity(b.code) = 2 /\ ResultCount(b.code) = 1
        BY <3>1 DEF Arity, ResultCount
      <4>2. k = 1 /\ in[1] = 0 /\ in[2] = 0
        BY <2>5, <2>6, <4>1
      <4>3. Execute(b.code, in, r) = <<0>>
        <5>1. in[1] + in[2] = 0 /\ in[1] * in[2] = 0 /\ in[1] - in[2] = 0
          BY <4>2
        <5>. QED BY <3>1, <5>1 DEF Execute
      <4>. QED BY <4>2, <4>3
    <3>2. CASE b.code.op = "clamp"
      <4>1. Arity(b.code) = 1 /\ ResultCount(b.code) = 1
        BY <3>2 DEF Arity, ResultCount
      <4>2. k = 1 /\ in[1] = 0
        BY <2>5, <2>6, <4>1
      <4>3. b.code.lo <= 0 /\ 0 <= b.code.hi
        <5>1. b \in Range(blocks)
          BY <1>1, <2>1, GraphIs DEF Range
        <5>. QED BY <3>2, <5>1 DEF Regular
      <4>4. Min({Max({in[1], b.code.lo}), b.code.hi}) = 0
        <5>1. PICK x, lo, hi : x = in[1] /\ lo = b.code.lo /\ hi = b.code.hi
          OBVIOUS
        <5>2. x \in Int /\ lo \in Int /\ hi \in Int /\ x = 0 /\ lo <= 0 /\ 0 <= hi
          BY <2>6, <3>2, <4>2, <4>3, <5>1
        <5>3. Min({Max({x, lo}), hi}) = 0
          BY <5>2, ClampIs
        <5>. QED BY <5>1, <5>3
      <4>5. Execute(b.code, in, r) = <<Min({Max({in[1], b.code.lo}), b.code.hi})>>
        BY <3>2 DEF Execute
      <4>. QED BY <4>2, <4>4, <4>5
    <3>3. CASE b.code.op = "nop"
      <4>1. ResultCount(b.code) = 1
        BY <3>3 DEF ResultCount
      <4>2. k = 1
        BY <2>6, <4>1
      <4>. QED BY <3>3, <4>2 DEF Execute
    <3>4. CASE b.code.op = "write"
      <4>1. ResultCount(b.code) = 0
        BY <3>4 DEF ResultCount
      <4>. QED BY <2>6, <4>1
    <3>. QED BY <2>4, <3>1, <3>2, <3>3, <3>4
  <2>8. ASSUME NEW k \in 1..Len(b.output_slots)
        PROVE  state[b.output_slots[k]] = Outputs(b, state, r)[k]
    <3>1. b.output_slots[k] \in Slots(blocks)
      BY <1>1, <2>1, GraphIs
    <3>2. Outputs(b, state, r) = Execute(b.code, in, r)
      BY <2>2 DEF Outputs
    <3>. QED BY <1>1, <2>7, <3>1, <3>2
  <2>. QED BY <2>1, <2>3, <2>8 DEF Fresh, Agreed
<1>5. idle
  BY DEF Init, idle
<1>. QED BY <1>3, <1>4, <1>5 DEF SettledInv

\* What makes a program regular does not change.
LEMMA RegularFixed ==
    ASSUME blocks' = blocks, subscribers' = subscribers
    PROVE  Regular' <=> Regular
  BY DEF Regular

LEMMA FlowAlways == Spec => []FlowInv
<1>1. Init => FlowInv
  <2>1. ASSUME Init PROVE FlowInv
    <3>1. RingInv /\ TypedInv
      BY <2>1, InitRing, InitTyped
    <3>2. Regular => SettledInv /\ idle
      BY <2>1, InitFlow
    <3>. QED BY <3>1, <3>2 DEF FlowInv
  <2>. QED BY <2>1
<1>2. FlowInv /\ [Next]_vars => FlowInv'
  <2>1. SUFFICES ASSUME FlowInv, [Next]_vars PROVE FlowInv'
    OBVIOUS
  <2>2. RingInv /\ TypedInv /\ (Regular => SettledInv /\ (~ idle => EventInv))
    BY <2>1 DEF FlowInv
  <2>3. ASSUME NEW slot, NEW value, Inject(slot, value),
               \/ slot = 0 /\ value \in Times
               \/ slot \in SourceSlots(blocks) /\ value \in Values
        PROVE  FlowInv'
    <3>1. value \in Int
      BY <2>3, ReactiveAssumption
    <3>2. RingInv' /\ TypedInv' /\ blocks' = blocks /\ subscribers' = subscribers
      BY <2>2, <2>3, <3>1, InjectRing, InjectTyped
    <3>3. Regular => SettledInv' /\ EventInv'
      BY <2>2, <2>3, InjectFlow
    <3>4. Regular' => Regular
      BY <3>2, RegularFixed
    <3>. QED BY <3>2, <3>3, <3>4 DEF FlowInv
  <2>4. CASE \E time \in Times : Tick(time)
    <3>1. PICK time \in Times : Inject(0, time)
      BY <2>4 DEF Tick
    <3>. QED BY <2>3, <3>1
  <2>5. CASE \E slot \in SourceSlots(blocks), value \in Values : Inject(slot, value)
    BY <2>3, <2>5
  <2>6. CASE Step
    <3>1. RingInv' /\ TypedInv' /\ blocks' = blocks /\ subscribers' = subscribers
      BY <2>2, <2>6, StepRing, StepTyped
    <3>2. ~ idle
      BY <2>6 DEF Step
    <3>3. Regular => SettledInv' /\ EventInv'
      BY <2>2, <2>6, <3>2, StepSettles, StepEvent
    <3>4. Regular' => Regular
      BY <3>1, RegularFixed
    <3>. QED BY <3>1, <3>3, <3>4 DEF FlowInv
  <2>7. ASSUME NEW port \in DOMAIN hw_in, NEW value \in Values, Sample(port, value)
        PROVE  FlowInv'
    <3>1. /\ blocks' = blocks /\ subscribers' = subscribers /\ state' = state
          /\ queue' = queue /\ queue_head' = queue_head /\ queue_tail' = queue_tail
          /\ in_queue' = in_queue
      BY <2>7 DEF Sample, graph, ring
    <3>2. RingInv'
      BY <2>2, <3>1 DEF RingInv, Ring
    <3>3. TypedInv'
      <4>1. value \in Int
        BY ReactiveAssumption
      <4>. QED BY <2>2, <2>7, <4>1, SampleTyped
    <3>4. Regular => SettledInv' /\ idle'
      BY <2>2, <2>7, SampleFlow
    <3>5. Regular' => Regular
      BY <3>1, RegularFixed
    <3>. QED BY <3>2, <3>3, <3>4, <3>5 DEF FlowInv
  <2>8. CASE UNCHANGED vars
    <3>1. /\ blocks' = blocks /\ subscribers' = subscribers /\ state' = state /\ hw_in' = hw_in
          /\ hw_out' = hw_out /\ before' = before /\ queue' = queue /\ queue_head' = queue_head
          /\ queue_tail' = queue_tail /\ in_queue' = in_queue
      BY <2>8 DEF vars, graph, ring
    <3>2. RingInv' /\ TypedInv'
      BY <2>2, <3>1 DEF RingInv, Ring, TypedInv, Typed
    <3>3. SettledInv' <=> SettledInv
      BY <3>1 DEF SettledInv, Shows, Writes, Fresh
    <3>4. (idle' <=> idle) /\ (Regular' => Regular)
      BY <3>1, RegularFixed DEF idle
    <3>5. EventInv' <=> EventInv
      <4>1. \A time : TickRuns(time)' <=> TickRuns(time)
        BY <3>1 DEF TickRuns, Fresh
      <4>2. \A slot, value : InjectRuns(slot, value)' <=> InjectRuns(slot, value)
        BY <3>1 DEF InjectRuns, Sources
      <4>. QED BY <3>1, <4>1, <4>2 DEF EventInv
    <3>. QED BY <2>2, <3>2, <3>3, <3>4, <3>5 DEF FlowInv
  <2>. QED BY <2>1, <2>4, <2>5, <2>6, <2>7, <2>8 DEF Next
<1>. QED BY <1>1, <1>2, PTL DEF Spec

-------------------------------------------------------------------------------
(* Seen from outside, an event is one step.                                *)

\* What the ports were given, from the slots.
Displays(out, v) ==
    out = [port \in Ports(blocks) |->
              LET b == CHOOSE b \in Writers(blocks) : b.code.port = port
              IN  v[b.input_slots[1]]]

LEMMA DisplayIs ==
    ASSUME RingInv, Regular, NEW out \in [Ports(blocks) -> Int], NEW v,
           \A c \in 1..Len(blocks) : Writes(c) => out[blocks[c].code.port] = v[blocks[c].input_slots[1]]
    PROVE  Displays(out, v)
<1>1. ASSUME NEW port \in Ports(blocks)
      PROVE  out[port] = LET b == CHOOSE b \in Writers(blocks) : b.code.port = port
                         IN  v[b.input_slots[1]]
  <2>1. PICK b : b = CHOOSE x \in Writers(blocks) : x.code.port = port
    OBVIOUS
  <2>2. \E x \in Writers(blocks) : x.code.port = port
    BY DEF Ports
  <2>3. b \in Writers(blocks) /\ b.code.port = port
    BY <2>1, <2>2
  <2>4. PICK c \in 1..Len(blocks) : b = blocks[c]
    BY <2>3, GraphIs DEF Writers, Range
  <2>5. out[port] = v[b.input_slots[1]]
    BY <2>3, <2>4 DEF Writers, Writes
  <2>. QED BY <2>1, <2>5
<1>. QED BY <1>1 DEF Displays

\* An event that is over has left what a pass leaves.
LEMMA EventMatches ==
    ASSUME RingInv, TypedInv, Regular, TypedInv', SettledInv', EventInv',
           blocks' = blocks, hw_in' = hw_in, \A c \in 1..Len(blocks) : ~ in_queue'[c]
    PROVE  /\ Displays(hw_out', state')
           /\ \/ \E time \in Times : state' = TickPass([before'.state EXCEPT ![0] = time], blocks)
              \/ \E slot \in SourceSlots(blocks), value \in Values :
                    state' = InjectPass([before'.state EXCEPT ![slot] = value], blocks)
<1>1. PICK last, out, old : last = state' /\ out = hw_out' /\ old = before'.state
  OBVIOUS
<1>2. /\ last \in [Slots(blocks) -> Int] /\ out \in [Ports(blocks) -> Int]
      /\ old \in [Slots(blocks) -> Int] /\ Typed
  BY <1>1 DEF TypedInv
<1>3. ASSUME NEW c \in 1..Len(blocks)
      PROVE  /\ Writes(c) => out[blocks[c].code.port] = last[blocks[c].input_slots[1]]
             /\ ~ IsSource(blocks[c]) => Agreed(blocks[c], last, hw_in)
  <2>1. Shows(c)' /\ (~ IsSource(blocks'[c]) => Fresh(c)')
    BY DEF SettledInv
  <2>2. Shows(c)' => (Writes(c) => out[blocks[c].code.port] = last[blocks[c].input_slots[1]])
    BY <1>1 DEF Shows, Writes
  <2>3. Fresh(c)' => Agreed(blocks[c], last, hw_in)
    BY <1>1 DEF Fresh
  <2>. QED BY <2>1, <2>2, <2>3
<1>4. Displays(out, last)
  BY <1>2, <1>3, DisplayIs
<1>5. 0 \in Slots(blocks)
  BY GraphIs
<1>6. ASSUME NEW time \in Times, TickRuns(time)'
      PROVE  last = TickPass([old EXCEPT ![0] = time], blocks)
  <2>1. PICK start : start = [old EXCEPT ![0] = time]
    OBVIOUS
  <2>2. start \in [Slots(blocks) -> Int] /\ start[0] = time
    BY <1>2, <1>5, <2>1, ReactiveAssumption
  <2>3. last[0] = time /\ \A c \in 1..Len(blocks) : Fresh(c)'
    BY <1>1, <1>6 DEF TickRuns
  <2>4. \A c \in 1..Len(blocks) : Agreed(blocks[c], last, hw_in)
    BY <1>1, <2>3 DEF Fresh
  <2>5. Agrees(start, {}, last)
    BY <2>2, <2>3, <2>4 DEF Agrees
  <2>6. TickPass(start, blocks) = last
    BY <1>2, <2>2, <2>5, PassTick
  <2>. QED BY <2>1, <2>6
<1>7. ASSUME NEW slot \in SourceSlots(blocks), NEW value \in Values, InjectRuns(slot, value)'
      PROVE  last = InjectPass([old EXCEPT ![slot] = value], blocks)
  <2>1. PICK start : start = [old EXCEPT ![slot] = value]
    OBVIOUS
  <2>2. start \in [Slots(blocks) -> Int]
    <3>1. slot \in Slots(blocks) /\ value \in Int
      BY SourceSlotIs, ReactiveAssumption DEF RingInv
    <3>. QED BY <1>2, <2>1, <3>1
  <2>3. Sources' = Sources
    BY DEF Sources
  <2>4. /\ last[0] = start[0]
        /\ \A c \in Sources : \A s \in Range(blocks[c].output_slots) : start[s] = last[s]
    BY <1>1, <1>7, <2>1, <2>3 DEF InjectRuns
  <2>5. \A c \in 1..Len(blocks) : c \notin Sources => Agreed(blocks[c], last, hw_in)
    BY <1>3 DEF Sources
  <2>6. Agrees(start, Sources, last)
    BY <2>4, <2>5 DEF Agrees
  <2>7. InjectPass(start, blocks) = last
    BY <1>2, <2>2, <2>6, PassInject
  <2>. QED BY <2>1, <2>7
<1>8. \/ \E time \in Times : TickRuns(time)'
      \/ \E slot \in SourceSlots(blocks), value \in Values : InjectRuns(slot, value)'
  BY DEF EventInv
<1>9. \/ \E time \in Times : last = TickPass([old EXCEPT ![0] = time], blocks)
      \/ \E slot \in SourceSlots(blocks), value \in Values :
            last = InjectPass([old EXCEPT ![slot] = value], blocks)
  BY <1>6, <1>7, <1>8
<1>. QED BY <1>1, <1>4, <1>9

LEMMA IdleQueue == RingInv => (idle <=> \A c \in 1..Len(blocks) : ~ in_queue[c])
BY IdleIs

\* Such an event is a step of the synchronous graph.
LEMMA EventIsNext ==
    ASSUME TypedInv, TypedInv', blocks' = blocks, hw_in' = hw_in, idle',
           Shown = before', Displays(hw_out', state'),
           \/ \E time \in Times : state' = TickPass([before'.state EXCEPT ![0] = time], blocks)
           \/ \E slot \in SourceSlots(blocks), value \in Values :
                 state' = InjectPass([before'.state EXCEPT ![slot] = value], blocks)
    PROVE  Sync!Next
<1>1. PICK last, out, old, was : last = state' /\ out = hw_out' /\ old = before'.state
                                 /\ was = before'.hw_out
  OBVIOUS
<1>2. Shown.state = old /\ Shown.hw_out = was /\ Shown.state' = last /\ Shown.hw_out' = out
  BY <1>1 DEF Shown
<1>3. DOMAIN was = Ports(blocks)
  BY <1>1 DEF TypedInv
<1>4. Sync!Writers(blocks) = Writers(blocks) /\ Sync!SourceSlots(blocks) = SourceSlots(blocks)
  BY DEF Sync!Writers, Writers, Sync!Range, Range, Sync!SourceSlots, SourceSlots, Sync!IsSource,
         IsSource
<1>5. Sync!Settle(last)
  <2>1. out = [port \in Ports(blocks) |->
                 LET b == CHOOSE b \in Writers(blocks) : b.code.port = port
                 IN  last[b.input_slots[1]]]
    BY <1>1 DEF Displays
  <2>. QED BY <1>2, <1>3, <1>4, <2>1 DEF Sync!Settle
<1>6. CASE \E time \in Times : last = TickPass([old EXCEPT ![0] = time], blocks)
  BY <1>2, <1>5, <1>6 DEF Sync!Next, Sync!Tick, TickPass
<1>7. CASE \E slot \in SourceSlots(blocks), value \in Values :
              last = InjectPass([old EXCEPT ![slot] = value], blocks)
  BY <1>2, <1>4, <1>5, <1>7 DEF Sync!Next, Sync!Inject, InjectPass
<1>. QED BY <1>1, <1>6, <1>7

(* An event runs only what subscribes to what changed, in the order of a   *)
(* queue; whenever the queue is empty, a program that is regular has the   *)
(* values that running all of it once, in order, would have given.         *)
THEOREM FlowMatchesSync == Spec => SyncGraphSpec
<1>1. Init => (Regular => Sync!Init)
  <2>1. SUFFICES ASSUME Init PROVE Sync!Init
    OBVIOUS
  <2>2. Shown = [state |-> state, hw_out |-> hw_out]
    BY <2>1 DEF Init, Shown
  <2>3. state = [s \in DOMAIN state |-> 0] /\ hw_out = [port \in Ports(blocks) |-> 0]
    BY <2>1 DEF Init
  <2>4. Sync!Ports(blocks) = Ports(blocks)
    BY DEF Sync!Ports, Ports, Sync!Writers, Writers, Sync!Range, Range
  <2>. QED BY <2>2, <2>3, <2>4 DEF Sync!Init
<1>2. (RingInv => (idle <=> \A c \in 1..Len(blocks) : ~ in_queue[c]))'
  BY IdleQueue, PTL
<1>3. FlowInv /\ FlowInv' /\ [Next]_vars => [Regular => Sync!Next]_(Sync!vars)
  <2>1. SUFFICES ASSUME FlowInv, FlowInv', [Next]_vars, Regular
                 PROVE  Sync!Next \/ UNCHANGED Sync!vars
    OBVIOUS
  <2>2. /\ RingInv /\ TypedInv /\ SettledInv /\ (~ idle => EventInv)
        /\ RingInv' /\ TypedInv'
    BY <2>1 DEF FlowInv
  <2>3. ASSUME SettledInv', EventInv', blocks' = blocks, hw_in' = hw_in, Shown = before'
        PROVE  Sync!Next \/ UNCHANGED Sync!vars
    <3>1. CASE idle'
      <4>1. \A c \in 1..Len(blocks) : ~ in_queue'[c]
        BY <1>2, <2>2, <2>3, <3>1
      <4>2. /\ Displays(hw_out', state')
            /\ \/ \E time \in Times : state' = TickPass([before'.state EXCEPT ![0] = time], blocks)
               \/ \E slot \in SourceSlots(blocks), value \in Values :
                     state' = InjectPass([before'.state EXCEPT ![slot] = value], blocks)
        BY <2>1, <2>2, <2>3, <4>1, EventMatches
      <4>3. Sync!Next
        BY <2>2, <2>3, <3>1, <4>2, EventIsNext
      <4>. QED BY <4>3
    <3>2. CASE ~ idle'
      <4>1. Shown' = before'
        BY <3>2 DEF Shown
      <4>. QED BY <2>3, <4>1 DEF Sync!vars
    <3>. QED BY <3>1, <3>2
  <2>4. ASSUME NEW slot, NEW value, Inject(slot, value),
               \/ slot = 0 /\ value \in Times
               \/ slot \in SourceSlots(blocks) /\ value \in Values
        PROVE  Sync!Next \/ UNCHANGED Sync!vars
    <3>1. SettledInv' /\ EventInv'
      BY <2>1, <2>2, <2>4, InjectFlow
    <3>2. blocks' = blocks /\ hw_in' = hw_in /\ Shown = before'
      BY <2>4 DEF Inject, graph, Shown
    <3>. QED BY <2>3, <3>1, <3>2
  <2>5. CASE \E time \in Times : Tick(time)
    <3>1. PICK time \in Times : Inject(0, time)
      BY <2>5 DEF Tick
    <3>. QED BY <2>4, <3>1
  <2>6. CASE \E slot \in SourceSlots(blocks), value \in Values : Inject(slot, value)
    BY <2>4, <2>6
  <2>7. CASE Step
    <3>1. ~ idle /\ blocks' = blocks /\ hw_in' = hw_in /\ before' = before
      BY <2>7 DEF Step, graph
    <3>2. SettledInv' /\ EventInv'
      BY <2>1, <2>2, <2>7, <3>1, StepSettles, StepEvent
    <3>3. Shown = before'
      BY <3>1 DEF Shown
    <3>. QED BY <2>3, <3>1, <3>2, <3>3
  <2>8. ASSUME NEW port \in DOMAIN hw_in, NEW value \in Values, Sample(port, value)
        PROVE  Sync!Next \/ UNCHANGED Sync!vars
    <3>1. /\ idle /\ blocks' = blocks /\ state' = state /\ hw_out' = hw_out
          /\ queue_head' = queue_head /\ queue_tail' = queue_tail
      BY <2>8 DEF Sample, graph, ring
    <3>2. Shown' = Shown
      BY <3>1 DEF Shown, idle
    <3>3. CASE hw_in' = hw_in
      BY <3>1, <3>2, <3>3 DEF Sync!vars
    <3>4. CASE hw_in' # hw_in
      BY <3>1, <3>2, <3>4 DEF Sync!Next, Sync!Sample
    <3>. QED BY <3>3, <3>4
  <2>9. CASE UNCHANGED vars
    <3>1. blocks' = blocks /\ hw_in' = hw_in /\ Shown' = Shown
      BY <2>9 DEF vars, graph, ring, Shown, idle
    <3>. QED BY <3>1 DEF Sync!vars
  <2>. QED BY <2>1, <2>5, <2>6, <2>7, <2>8, <2>9 DEF Next
<1>. QED BY <1>1, <1>3, FlowAlways, PTL DEF Spec, SyncGraphSpec

================================================================================
