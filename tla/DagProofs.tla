-------------------------------- MODULE DagProofs -------------------------------
(***************************************************************************)
(* Proofs about DAG programs where they run and where they are made.  The  *)
(* two DAG servers and the browser's simulation, for any programs, any     *)
(* limits and any sequence of requests (DagServers); and the editor, for   *)
(* any canvases and projects it can begin with and any number of edits:    *)
(* ids stay fresh and storage sound, drawn edges are what carries values,  *)
(* and a wire disturbs no other (DagEditor).                               *)
(***************************************************************************)
EXTENDS DagServers, DagEditor, TLAPS, WellFoundedInduction

-------------------------------------------------------------------------------
(* Numbers and sets of them.                                               *)

\* A set of numbers has a least one.
LEMMA LeastNumber ==
    ASSUME NEW T \in SUBSET Nat, T # {}
    PROVE  \E x \in T : \A y \in T : x <= y
<1>. DEFINE R == OpToRel(<, Nat)
<1>1. IsWellFoundedOn(R, Nat)
  BY NatLessThanWellFounded
<1>2. \A x, y \in Nat : <<y, x>> \in R <=> y < x
  BY DEF OpToRel
<1>. HIDE DEF R
<1>3. PICK x \in T : \A y \in T : ~ (<<y, x>> \in R)
  BY <1>1, WFMin
<1>4. ASSUME NEW y \in T PROVE x <= y
  <2>1. ~ (<<y, x>> \in R) /\ x \in Nat /\ y \in Nat
    BY <1>3
  <2>2. ~ (y < x)
    BY <1>2, <2>1
  <2>. QED BY <2>1, <2>2
<1>. QED BY <1>4

\* Induction, over a set.
LEMMA AllNumbers ==
    ASSUME NEW T \in SUBSET Nat, 0 \in T, \A n \in T : n + 1 \in T
    PROVE  T = Nat
<1>. SUFFICES ASSUME Nat \ T # {} PROVE FALSE
  OBVIOUS
<1>1. PICK x \in Nat \ T : \A y \in Nat \ T : x <= y
  BY LeastNumber
<1>2. x # 0 /\ x - 1 \in Nat
  BY <1>1
<1>3. x - 1 \in T
  BY <1>1, <1>2
<1>. QED BY <1>1, <1>2, <1>3

\* What Max chooses, where there is a bound.
LEMMA GreatestNumber ==
    ASSUME NEW T \in SUBSET Int, T # {}, NEW bound \in Int, \A x \in T : x <= bound
    PROVE  Max(T) \in T /\ \A x \in T : Max(T) >= x
<1>. DEFINE D == { bound - x : x \in T }
<1>1. \A x \in T : bound - x \in Nat
  OBVIOUS
<1>2. D \in SUBSET Nat /\ D # {}
  BY <1>1
<1>3. PICK d \in D : \A e \in D : d <= e
  <2>. HIDE DEF D
  <2>. QED BY <1>2, LeastNumber
<1>4. PICK x \in T : d = bound - x
  BY <1>3
<1>5. \A y \in T : bound - x <= bound - y
  BY <1>3, <1>4
<1>6. ASSUME NEW y \in T PROVE x >= y
  <2>1. x \in Int /\ y \in Int /\ bound - x <= bound - y
    BY <1>5
  <2>. QED BY <2>1
<1>. QED BY <1>6 DEF Max

LEMMA MaxOfNumbers ==
    ASSUME NEW n \in Nat, NEW s \in SUBSET (1..n), s # {}
    PROVE  Max(s) \in s /\ \A x \in s : x <= Max(s)
<1>1. s \in SUBSET Int /\ n \in Int /\ \A x \in s : x <= n
  OBVIOUS
<1>2. Max(s) \in s /\ \A x \in s : Max(s) >= x
  BY <1>1, GreatestNumber
<1>. QED BY <1>1, <1>2

-------------------------------------------------------------------------------
(* Inserts.                                                                *)

(* The library folds over sets of indices; that is one insert after another: *)
(* of all that is written, and of what is kept.                              *)
LEMMA InsertFold ==
    ASSUME NEW base, NEW writes, Len(writes) \in Nat, DOMAIN writes = 1..Len(writes)
    PROVE  \E turn : /\ turn[0] = base
                     /\ \A k \in 1..Len(writes) : turn[k] = Insert(turn[k - 1], writes[k])
                     /\ turn[Len(writes)] = FoldLeft(Insert, base, writes)
<1>. DEFINE n == Len(writes)
            Turn(g, s) == IF s = {} THEN base
                          ELSE Insert(g[s \ {Max(s)}], writes[Max(s)])
            T == { k \in Nat : \E g : g = [s \in SUBSET (1..k) |-> Turn(g, s)] }
<1>1. 0 \in T
  <2>. DEFINE g == [s \in SUBSET (1..0) |-> base]
  <2>1. \A s \in SUBSET (1..0) : s = {}
    OBVIOUS
  <2>2. g = [s \in SUBSET (1..0) |-> Turn(g, s)]
    BY <2>1
  <2>. QED BY <2>2
<1>2. ASSUME NEW k \in T PROVE k + 1 \in T
  <2>1. PICK g : g = [s \in SUBSET (1..k) |-> Turn(g, s)]
    OBVIOUS
  <2>. DEFINE h == [s \in SUBSET (1..(k + 1)) |->
                      IF k + 1 \in s THEN Insert(g[s \ {k + 1}], writes[k + 1]) ELSE g[s]]
  <2>2. ASSUME NEW s \in SUBSET (1..(k + 1)) PROVE h[s] = Turn(h, s)
    <3>1. CASE k + 1 \in s
      <4>1. k + 1 \in Nat /\ s # {}
        BY <3>1
      <4>2. Max(s) = k + 1
        <5>1. Max(s) \in s /\ k + 1 <= Max(s)
          BY <3>1, <4>1, MaxOfNumbers
        <5>2. Max(s) \in 1..(k + 1)
          BY <5>1
        <5>. QED BY <5>1, <5>2
      <4>3. s \ {k + 1} \in SUBSET (1..k) /\ s \ {k + 1} \in SUBSET (1..(k + 1))
        OBVIOUS
      <4>4. h[s \ {k + 1}] = g[s \ {k + 1}]
        BY <4>3
      <4>5. h[s] = Insert(g[s \ {k + 1}], writes[k + 1])
        BY <3>1
      <4>. HIDE DEF h
      <4>. QED BY <3>1, <4>2, <4>4, <4>5
    <3>2. CASE k + 1 \notin s
      <4>1. s \in SUBSET (1..k)
        BY <3>2
      <4>2. h[s] = g[s]
        BY <3>2
      <4>3. g[s] = Turn(g, s)
        BY <2>1, <4>1
      <4>4. CASE s = {}
        <5>. HIDE DEF h
        <5>. QED BY <4>2, <4>3, <4>4
      <4>5. CASE s # {}
        <5>1. k + 1 \notin s \ {Max(s)} /\ s \ {Max(s)} \in SUBSET (1..(k + 1))
          BY <3>2
        <5>2. h[s \ {Max(s)}] = g[s \ {Max(s)}]
          BY <5>1
        <5>. HIDE DEF h
        <5>. QED BY <4>2, <4>3, <4>5, <5>2
      <4>. QED BY <4>4, <4>5
    <3>. QED BY <3>1, <3>2
  <2>3. h = [s \in SUBSET (1..(k + 1)) |-> Turn(h, s)]
    <3>1. h = [s \in SUBSET (1..(k + 1)) |-> h[s]]
      OBVIOUS
    <3>. HIDE DEF h, Turn
    <3>. QED BY <2>2, <3>1
  <2>. HIDE DEF h, Turn
  <2>. QED BY <2>3
<1>3. T = Nat
  <2>. HIDE DEF T
  <2>1. T \in SUBSET Nat
    BY DEF T
  <2>. QED BY <1>1, <1>2, <2>1, AllNumbers
<1>. DEFINE iter == CHOOSE g : g = [s \in SUBSET (1..n) |-> Turn(g, s)]
<1>4. iter = [s \in SUBSET (1..n) |-> Turn(iter, s)]
  <2>1. \E g : g = [s \in SUBSET (1..n) |-> Turn(g, s)]
    BY <1>3
  <2>. HIDE DEF Turn
  <2>. QED BY <2>1
<1>5. FoldLeft(Insert, base, writes) = iter[1..n]
  BY DEF FoldLeft, MapThenFoldSet
<1>. HIDE DEF iter
<1>6. ASSUME NEW k \in 1..n PROVE iter[1..k] = Insert(iter[1..(k - 1)], writes[k])
  <2>1. 1..k \in SUBSET (1..n) /\ 1..k # {} /\ k \in 1..k
    <3>1. k \in Nat /\ 1 <= k /\ k <= n
      OBVIOUS
    <3>2. \A x \in 1..k : x \in 1..n
      BY <3>1
    <3>3. k \in 1..k
      BY <3>1
    <3>. HIDE DEF n
    <3>. QED BY <3>2, <3>3
  <2>2. Max(1..k) \in 1..k /\ k <= Max(1..k)
    <3>1. k \in Nat /\ 1..k \in SUBSET (1..k)
      OBVIOUS
    <3>. QED BY <2>1, <3>1, MaxOfNumbers
  <2>3. Max(1..k) = k
    BY <2>2
  <2>4. (1..k) \ {k} = 1..(k - 1)
    <3>1. k \in Int /\ k - 1 \in Int
      OBVIOUS
    <3>2. ASSUME NEW x \in Int PROVE x \in 1..k /\ x # k <=> x \in 1..(k - 1)
      BY <3>1
    <3>3. \A x \in 1..k : x \in Int
      OBVIOUS
    <3>4. \A x \in 1..(k - 1) : x \in Int
      OBVIOUS
    <3>. QED BY <3>2, <3>3, <3>4
  <2>. QED BY <1>4, <2>1, <2>3, <2>4
<1>7. iter[1..0] = base
  <2>1. 1..0 = {} /\ {} \in SUBSET (1..n)
    OBVIOUS
  <2>. QED BY <1>4, <2>1
<1>. DEFINE turn == [k \in 0..n |-> iter[1..k]]
<1>8. turn[0] = base /\ turn[n] = FoldLeft(Insert, base, writes)
  BY <1>5, <1>7
<1>9. \A k \in 1..n : turn[k] = Insert(turn[k - 1], writes[k])
  BY <1>6
<1>. HIDE DEF turn
<1>. QED BY <1>8, <1>9

LEMMA KeptFold ==
    ASSUME NEW base, NEW writes, Len(writes) \in Nat, DOMAIN writes = 1..Len(writes)
    PROVE  \E turn : /\ turn[0] = base
                     /\ \A k \in 1..Len(writes) : turn[k] = InsertIfKept(turn[k - 1], writes[k])
                     /\ turn[Len(writes)] = FoldLeft(InsertIfKept, base, writes)
<1>. DEFINE n == Len(writes)
            Turn(g, s) == IF s = {} THEN base
                          ELSE InsertIfKept(g[s \ {Max(s)}], writes[Max(s)])
            T == { k \in Nat : \E g : g = [s \in SUBSET (1..k) |-> Turn(g, s)] }
<1>1. 0 \in T
  <2>. DEFINE g == [s \in SUBSET (1..0) |-> base]
  <2>1. \A s \in SUBSET (1..0) : s = {}
    OBVIOUS
  <2>2. g = [s \in SUBSET (1..0) |-> Turn(g, s)]
    BY <2>1
  <2>. QED BY <2>2
<1>2. ASSUME NEW k \in T PROVE k + 1 \in T
  <2>1. PICK g : g = [s \in SUBSET (1..k) |-> Turn(g, s)]
    OBVIOUS
  <2>. DEFINE h == [s \in SUBSET (1..(k + 1)) |->
                      IF k + 1 \in s THEN InsertIfKept(g[s \ {k + 1}], writes[k + 1]) ELSE g[s]]
  <2>2. ASSUME NEW s \in SUBSET (1..(k + 1)) PROVE h[s] = Turn(h, s)
    <3>1. CASE k + 1 \in s
      <4>1. k + 1 \in Nat /\ s # {}
        BY <3>1
      <4>2. Max(s) = k + 1
        <5>1. Max(s) \in s /\ k + 1 <= Max(s)
          BY <3>1, <4>1, MaxOfNumbers
        <5>2. Max(s) \in 1..(k + 1)
          BY <5>1
        <5>. QED BY <5>1, <5>2
      <4>3. s \ {k + 1} \in SUBSET (1..k) /\ s \ {k + 1} \in SUBSET (1..(k + 1))
        OBVIOUS
      <4>4. h[s \ {k + 1}] = g[s \ {k + 1}]
        BY <4>3
      <4>5. h[s] = InsertIfKept(g[s \ {k + 1}], writes[k + 1])
        BY <3>1
      <4>. HIDE DEF h
      <4>. QED BY <3>1, <4>2, <4>4, <4>5
    <3>2. CASE k + 1 \notin s
      <4>1. s \in SUBSET (1..k)
        BY <3>2
      <4>2. h[s] = g[s]
        BY <3>2
      <4>3. g[s] = Turn(g, s)
        BY <2>1, <4>1
      <4>4. CASE s = {}
        <5>. HIDE DEF h
        <5>. QED BY <4>2, <4>3, <4>4
      <4>5. CASE s # {}
        <5>1. k + 1 \notin s \ {Max(s)} /\ s \ {Max(s)} \in SUBSET (1..(k + 1))
          BY <3>2
        <5>2. h[s \ {Max(s)}] = g[s \ {Max(s)}]
          BY <5>1
        <5>. HIDE DEF h
        <5>. QED BY <4>2, <4>3, <4>5, <5>2
      <4>. QED BY <4>4, <4>5
    <3>. QED BY <3>1, <3>2
  <2>3. h = [s \in SUBSET (1..(k + 1)) |-> Turn(h, s)]
    <3>1. h = [s \in SUBSET (1..(k + 1)) |-> h[s]]
      OBVIOUS
    <3>. HIDE DEF h, Turn
    <3>. QED BY <2>2, <3>1
  <2>. HIDE DEF h, Turn
  <2>. QED BY <2>3
<1>3. T = Nat
  <2>. HIDE DEF T
  <2>1. T \in SUBSET Nat
    BY DEF T
  <2>. QED BY <1>1, <1>2, <2>1, AllNumbers
<1>. DEFINE iter == CHOOSE g : g = [s \in SUBSET (1..n) |-> Turn(g, s)]
<1>4. iter = [s \in SUBSET (1..n) |-> Turn(iter, s)]
  <2>1. \E g : g = [s \in SUBSET (1..n) |-> Turn(g, s)]
    BY <1>3
  <2>. HIDE DEF Turn
  <2>. QED BY <2>1
<1>5. FoldLeft(InsertIfKept, base, writes) = iter[1..n]
  BY DEF FoldLeft, MapThenFoldSet
<1>. HIDE DEF iter
<1>6. ASSUME NEW k \in 1..n PROVE iter[1..k] = InsertIfKept(iter[1..(k - 1)], writes[k])
  <2>1. 1..k \in SUBSET (1..n) /\ 1..k # {} /\ k \in 1..k
    <3>1. k \in Nat /\ 1 <= k /\ k <= n
      OBVIOUS
    <3>2. \A x \in 1..k : x \in 1..n
      BY <3>1
    <3>3. k \in 1..k
      BY <3>1
    <3>. HIDE DEF n
    <3>. QED BY <3>2, <3>3
  <2>2. Max(1..k) \in 1..k /\ k <= Max(1..k)
    <3>1. k \in Nat /\ 1..k \in SUBSET (1..k)
      OBVIOUS
    <3>. QED BY <2>1, <3>1, MaxOfNumbers
  <2>3. Max(1..k) = k
    BY <2>2
  <2>4. (1..k) \ {k} = 1..(k - 1)
    <3>1. k \in Int /\ k - 1 \in Int
      OBVIOUS
    <3>2. ASSUME NEW x \in Int PROVE x \in 1..k /\ x # k <=> x \in 1..(k - 1)
      BY <3>1
    <3>3. \A x \in 1..k : x \in Int
      OBVIOUS
    <3>4. \A x \in 1..(k - 1) : x \in Int
      OBVIOUS
    <3>. QED BY <3>2, <3>3, <3>4
  <2>. QED BY <1>4, <2>1, <2>3, <2>4
<1>7. iter[1..0] = base
  <2>1. 1..0 = {} /\ {} \in SUBSET (1..n)
    OBVIOUS
  <2>. QED BY <1>4, <2>1
<1>. DEFINE turn == [k \in 0..n |-> iter[1..k]]
<1>8. turn[0] = base /\ turn[n] = FoldLeft(InsertIfKept, base, writes)
  BY <1>5, <1>7
<1>9. \A k \in 1..n : turn[k] = InsertIfKept(turn[k - 1], writes[k])
  BY <1>6
<1>. HIDE DEF turn
<1>. QED BY <1>8, <1>9

\* The k-th of n writes is the last to its name.
LastOfName(writes, k, n) ==
    k \in 1..n /\ \A j \in 1..n : k < j => writes[j].name # writes[k].name

\* What the first n writes make of a map: each name has its last value.
Inserted(after, topics, writes, n) ==
    /\ DOMAIN after = DOMAIN topics \union { writes[k].name : k \in 1..n }
    /\ \A t \in DOMAIN topics : (\A k \in 1..n : writes[k].name # t) => after[t] = topics[t]
    /\ \A k \in 1..n : LastOfName(writes, k, n) => after[writes[k].name] = writes[k].v

LEMMA InsertAllIs ==
    ASSUME NEW topics, NEW writes, Len(writes) \in Nat, DOMAIN writes = 1..Len(writes)
    PROVE  Inserted(InsertAll(topics, writes), topics, writes, Len(writes))
<1>. DEFINE n == Len(writes)
<1>1. PICK turn : /\ turn[0] = topics
                  /\ \A k \in 1..n : turn[k] = Insert(turn[k - 1], writes[k])
                  /\ turn[n] = InsertAll(topics, writes)
  BY InsertFold DEF InsertAll
<1>. DEFINE T == { k \in Nat : k <= n => Inserted(turn[k], topics, writes, k) }
<1>2. 0 \in T
  BY <1>1 DEF Inserted
<1>3. ASSUME NEW k \in T PROVE k + 1 \in T
  <2>. SUFFICES ASSUME k + 1 <= n PROVE Inserted(turn[k + 1], topics, writes, k + 1)
    OBVIOUS
  <2>. DEFINE w == writes[k + 1]
              m == turn[k]
  <2>1. Inserted(m, topics, writes, k)
    OBVIOUS
  <2>2. k + 1 \in 1..n /\ turn[k + 1] = Insert(m, w)
    BY <1>1
  <2>3. 1..(k + 1) = (1..k) \union {k + 1}
    OBVIOUS
  <2>4. DOMAIN turn[k + 1] = DOMAIN topics \union { writes[j].name : j \in 1..(k + 1) }
    <3>1. DOMAIN turn[k + 1] = DOMAIN m \union {w.name}
      BY <2>2 DEF Insert
    <3>. HIDE DEF m
    <3>. QED BY <2>1, <2>3, <3>1 DEF Inserted
  <2>5. ASSUME NEW t \in DOMAIN topics, \A j \in 1..(k + 1) : writes[j].name # t
        PROVE  turn[k + 1][t] = topics[t]
    <3>1. t # w.name /\ \A j \in 1..k : writes[j].name # t
      BY <2>3, <2>5
    <3>2. t \in DOMAIN m /\ m[t] = topics[t]
      BY <2>1, <3>1 DEF Inserted
    <3>. QED BY <2>2, <3>1, <3>2 DEF Insert
  <2>6. ASSUME NEW j \in 1..(k + 1), LastOfName(writes, j, k + 1)
        PROVE  turn[k + 1][writes[j].name] = writes[j].v
    <3>1. CASE j = k + 1
      BY <2>2, <3>1 DEF Insert
    <3>2. CASE j # k + 1
      <4>1. j \in 1..k /\ j < k + 1 /\ k + 1 \in 1..(k + 1)
        BY <3>2
      <4>2. writes[j].name # w.name
        BY <2>6, <4>1 DEF LastOfName
      <4>3. LastOfName(writes, j, k)
        BY <2>3, <2>6, <4>1 DEF LastOfName
      <4>4. writes[j].name \in DOMAIN m /\ m[writes[j].name] = writes[j].v
        BY <2>1, <4>1, <4>3 DEF Inserted
      <4>. QED BY <2>2, <4>2, <4>4 DEF Insert
    <3>. QED BY <3>1, <3>2
  <2>. HIDE DEF w, m
  <2>. QED BY <2>4, <2>5, <2>6 DEF Inserted
<1>4. T = Nat
  <2>1. T \in SUBSET Nat
    OBVIOUS
  <2>. HIDE DEF T
  <2>. QED BY <1>2, <1>3, <2>1, AllNumbers
<1>5. n \in T
  BY <1>4
<1>. QED BY <1>1, <1>5

(* What the firmware's map keeps of the writes: nothing is lost, no long   *)
(* name gets in, and if every name is there afterwards nothing was dropped, *)
(* because a map that is full stays full.                                  *)
DropsOne(kept, writes, n) ==
    \E j \in 1..n : /\ writes[j].name \notin DOMAIN kept
                    /\ \/ writes[j].name \in LongNames
                       \/ ~ (Cardinality(DOMAIN kept) < MaxTopics)

LEMMA KeptAll ==
    ASSUME NEW topics, NEW writes, Len(writes) \in Nat, DOMAIN writes = 1..Len(writes),
           DOMAIN topics \intersect LongNames = {}
    PROVE  /\ DOMAIN topics \subseteq DOMAIN InsertKept(topics, writes)
           /\ DOMAIN InsertKept(topics, writes) \intersect LongNames = {}
           /\ Names(writes) \subseteq DOMAIN InsertKept(topics, writes)
                 => InsertKept(topics, writes) = InsertAll(topics, writes)
<1>. DEFINE n == Len(writes)
<1>1. PICK turn : /\ turn[0] = topics
                  /\ \A k \in 1..n : turn[k] = Insert(turn[k - 1], writes[k])
                  /\ turn[n] = InsertAll(topics, writes)
  BY InsertFold DEF InsertAll
<1>2. PICK kept : /\ kept[0] = topics
                  /\ \A k \in 1..n : kept[k] = InsertIfKept(kept[k - 1], writes[k])
                  /\ kept[n] = InsertKept(topics, writes)
  BY KeptFold DEF InsertKept
<1>. DEFINE Holds(k) == /\ DOMAIN topics \subseteq DOMAIN kept[k]
                        /\ DOMAIN kept[k] \intersect LongNames = {}
                        /\ kept[k] = turn[k] \/ DropsOne(kept[k], writes, k)
            T == { k \in Nat : k <= n => Holds(k) }
<1>3. 0 \in T
  BY <1>1, <1>2
<1>4. ASSUME NEW k \in T PROVE k + 1 \in T
  <2>. SUFFICES ASSUME k + 1 <= n PROVE Holds(k + 1)
    OBVIOUS
  <2>1. Holds(k)
    OBVIOUS
  <2>2. /\ k + 1 \in 1..n
        /\ turn[k + 1] = Insert(turn[k], writes[k + 1])
        /\ kept[k + 1] = InsertIfKept(kept[k], writes[k + 1])
    BY <1>1, <1>2
  <2>3. 1..(k + 1) = (1..k) \union {k + 1}
    OBVIOUS
  <2>4. CASE Keeps(kept[k], writes[k + 1].name)
    <3>1. kept[k + 1] = Insert(kept[k], writes[k + 1])
      BY <2>2, <2>4 DEF InsertIfKept
    <3>2. DOMAIN kept[k + 1] = DOMAIN kept[k] \union {writes[k + 1].name}
      BY <3>1 DEF Insert
    <3>3. writes[k + 1].name \notin LongNames
      BY <2>4 DEF Keeps
    <3>4. CASE kept[k] = turn[k]
      BY <2>1, <2>2, <3>1, <3>2, <3>3, <3>4
    <3>5. ASSUME NEW j \in 1..k, writes[j].name \notin DOMAIN kept[k],
                 \/ writes[j].name \in LongNames
                 \/ ~ (Cardinality(DOMAIN kept[k]) < MaxTopics)
          PROVE  DropsOne(kept[k + 1], writes, k + 1)
      <4>1. j \in 1..(k + 1)
        OBVIOUS
      <4>2. CASE writes[j].name \in LongNames
        <5>1. writes[j].name \notin DOMAIN kept[k + 1]
          BY <3>2, <3>3, <3>5, <4>2
        <5>. QED BY <4>1, <4>2, <5>1 DEF DropsOne
      <4>3. CASE ~ (Cardinality(DOMAIN kept[k]) < MaxTopics)
        <5>1. writes[k + 1].name \in DOMAIN kept[k]
          BY <2>4, <4>3 DEF Keeps
        <5>2. DOMAIN kept[k + 1] = DOMAIN kept[k]
          BY <3>2, <5>1
        <5>. QED BY <3>5, <4>1, <4>3, <5>2 DEF DropsOne
      <4>. QED BY <3>5, <4>2, <4>3
    <3>. QED BY <2>1, <3>2, <3>3, <3>4, <3>5 DEF DropsOne
  <2>5. CASE ~ Keeps(kept[k], writes[k + 1].name)
    <3>1. kept[k + 1] = kept[k]
      BY <2>2, <2>5 DEF InsertIfKept
    <3>2. DropsOne(kept[k + 1], writes, k + 1)
      <4>1. CASE DropsOne(kept[k], writes, k)
        BY <2>3, <3>1, <4>1 DEF DropsOne
      <4>2. CASE writes[k + 1].name \notin DOMAIN kept[k]
        BY <2>3, <2>5, <3>1, <4>2 DEF DropsOne, Keeps
      <4>3. CASE writes[k + 1].name \in DOMAIN kept[k]
        BY <2>1, <2>5, <4>3 DEF Keeps
      <4>. QED BY <4>2, <4>3
    <3>. QED BY <2>1, <3>1, <3>2
  <2>. QED BY <2>4, <2>5
<1>5. T = Nat
  <2>1. T \in SUBSET Nat
    OBVIOUS
  <2>. HIDE DEF T
  <2>. QED BY <1>3, <1>4, <2>1, AllNumbers
<1>6. Holds(n)
  <2>1. n \in T
    BY <1>5
  <2>. QED BY <2>1
<1>7. DropsOne(kept[n], writes, n) => ~ (Names(writes) \subseteq DOMAIN kept[n])
  BY DEF DropsOne, Names
<1>. QED BY <1>1, <1>2, <1>6, <1>7

-------------------------------------------------------------------------------
(* Programs.                                                               *)

\* A sequence of ops that add_op took.
Program(d) ==
    /\ Len(d) \in Nat /\ DOMAIN d = 1..Len(d)
    /\ \A i \in 1..Len(d) : IsOp(d[i]) /\ Accepts(i - 1, d[i])

\* The loop of evaluate: the buffer after each op.
Turns(after, d, topics, channels, buffer) ==
    /\ after[0] = buffer
    /\ \A n \in 1..Len(d) :
          after[n] = [after[n - 1] EXCEPT ![n] = Result(d[n], after[n - 1], topics, channels)]

LEMMA EvaluateTurns ==
    ASSUME NEW d, Len(d) \in Nat, NEW topics, NEW channels, NEW buffer
    PROVE  \E after : /\ Turns(after, d, topics, channels, buffer)
                      /\ Evaluate(d, topics, channels, buffer) = after[Len(d)]
<1>. DEFINE Turn(g, n) ==
                IF n = 0 THEN buffer
                ELSE [g[n - 1] EXCEPT ![n] = Result(d[n], g[n - 1], topics, channels)]
            T == { k \in Nat : \E g : g = [n \in 0..k |-> Turn(g, n)] }
<1>1. 0 \in T
  <2>. DEFINE g == [n \in 0..0 |-> buffer]
  <2>1. \A n \in 0..0 : g[n] = Turn(g, n)
    OBVIOUS
  <2>2. g = [n \in 0..0 |-> g[n]]
    OBVIOUS
  <2>. HIDE DEF g, Turn
  <2>3. g = [n \in 0..0 |-> Turn(g, n)]
    BY <2>1, <2>2
  <2>. QED BY <2>3
<1>2. ASSUME NEW k \in T PROVE k + 1 \in T
  <2>1. PICK g : g = [n \in 0..k |-> Turn(g, n)]
    OBVIOUS
  <2>. DEFINE h == [n \in 0..(k + 1) |-> IF n <= k THEN g[n] ELSE Turn(g, n)]
  <2>2. ASSUME NEW n \in 0..(k + 1) PROVE h[n] = Turn(h, n)
    <3>1. CASE n = 0
      BY <2>1, <3>1
    <3>2. CASE n # 0
      <4>1. n - 1 \in 0..k /\ n - 1 \in 0..(k + 1) /\ n - 1 <= k
        BY <3>2
      <4>2. h[n - 1] = g[n - 1]
        BY <4>1
      <4>3. Turn(h, n) = Turn(g, n)
        <5>. HIDE DEF h
        <5>. QED BY <4>2
      <4>4. CASE n <= k
        <5>1. n \in 0..k /\ h[n] = g[n]
          BY <4>4
        <5>2. g[n] = Turn(g, n)
          <6>. HIDE DEF Turn
          <6>. QED BY <2>1, <5>1
        <5>. QED BY <4>3, <5>1, <5>2
      <4>5. CASE ~ (n <= k)
        <5>1. h[n] = Turn(g, n)
          <6>. HIDE DEF Turn
          <6>. QED BY <4>5
        <5>. QED BY <4>3, <5>1
      <4>. QED BY <4>4, <4>5
    <3>. QED BY <3>1, <3>2
  <2>3. h = [n \in 0..(k + 1) |-> h[n]]
    OBVIOUS
  <2>. HIDE DEF h, Turn
  <2>4. h = [n \in 0..(k + 1) |-> Turn(h, n)]
    BY <2>2, <2>3
  <2>. QED BY <2>4
<1>3. T = Nat
  <2>1. T \in SUBSET Nat
    OBVIOUS
  <2>. HIDE DEF T
  <2>. QED BY <1>1, <1>2, <2>1, AllNumbers
<1>4. \E g : g = [n \in 0..Len(d) |-> Turn(g, n)]
  <2>1. Len(d) \in T
    BY <1>3
  <2>. HIDE DEF Turn
  <2>. QED BY <2>1
<1>. DEFINE after == CHOOSE g : g = [n \in 0..Len(d) |-> Turn(g, n)]
<1>5. after = [n \in 0..Len(d) |-> Turn(after, n)]
  <2>. HIDE DEF Turn
  <2>. QED BY <1>4
<1>6. Evaluate(d, topics, channels, buffer) = after[Len(d)]
  BY DEF Evaluate
<1>. HIDE DEF after
<1>7. after[0] = buffer
  BY <1>5
<1>8. ASSUME NEW n \in 1..Len(d)
      PROVE  after[n] = [after[n - 1] EXCEPT ![n] =
                            Result(d[n], after[n - 1], topics, channels)]
  <2>1. n \in 0..Len(d) /\ n # 0
    OBVIOUS
  <2>2. after[n] = Turn(after, n)
    <3>. HIDE DEF Turn
    <3>. QED BY <1>5, <2>1
  <2>. QED BY <2>1, <2>2
<1>. QED BY <1>6, <1>7, <1>8 DEF Turns

\* Two buffers agree on the first n nodes.
SameNodes(n, one, two) == \A i \in 1..n : one[i] = two[i]

\* An op reads operands before it, and a topic if it subscribes.
LEMMA ResultSame ==
    ASSUME NEW o, IsOp(o), NEW n \in Nat, Accepts(n, o),
           NEW one, NEW two, SameNodes(n, one, two),
           NEW topics, NEW other,
           o.op = "Subscribe" => Lookup(topics, o.name) = Lookup(other, o.name),
           NEW channels
    PROVE  Result(o, one, topics, channels) = Result(o, two, other, channels)
<1>1. \A k \in 1..Len(o.args) : o.args[k] \in 1..n /\ one[o.args[k]] = two[o.args[k]]
  <2>1. \A k \in 1..Len(o.args) : o.args[k] \in Nat \ {0} /\ o.args[k] <= n
    BY DEF IsOp, Accepts
  <2>. QED BY <2>1 DEF SameNodes
<1>2. CASE o.op = "Subscribe"
  BY <1>2 DEF Result
<1>3. CASE o.op \in {"Const", "Input"}
  BY <1>3 DEF Result
<1>4. CASE o.op \in UnaryOps
  <2>1. one[o.args[1]] = two[o.args[1]]
    BY <1>1, <1>4 DEF IsOp, UnaryOps, NullaryOps, BinaryOps
  <2>. QED BY <1>4, <2>1 DEF Result, UnaryOps
<1>5. CASE o.op \in BinaryOps
  <2>1. one[o.args[1]] = two[o.args[1]] /\ one[o.args[2]] = two[o.args[2]]
    BY <1>1, <1>5 DEF IsOp, UnaryOps, NullaryOps, BinaryOps
  <2>. QED BY <1>5, <2>1 DEF Result, BinaryOps
<1>. QED BY <1>2, <1>3, <1>4, <1>5 DEF IsOp, NullaryOps

Fits(d, buffer) == 1..Len(d) \subseteq DOMAIN buffer
SameReads(d, topics, other) == \A t \in Reads(d) : Lookup(topics, t) = Lookup(other, t)

(* What a tick computes does not depend on what the buffer held, nor on    *)
(* topics that the program does not read.                                  *)
LEMMA EvaluateSame ==
    ASSUME NEW d, Program(d), NEW channels,
           NEW one, Fits(d, one), NEW topics,
           NEW two, Fits(d, two), NEW other, SameReads(d, topics, other)
    PROVE  /\ DOMAIN Evaluate(d, topics, channels, one) = DOMAIN one
           /\ SameNodes(Len(d), Evaluate(d, topics, channels, one),
                                Evaluate(d, other, channels, two))
<1>. DEFINE len == Len(d)
<1>0. len \in Nat /\ DOMAIN d = 1..len
  BY DEF Program
<1>1. PICK a : Turns(a, d, topics, channels, one)
               /\ Evaluate(d, topics, channels, one) = a[len]
  BY <1>0, EvaluateTurns
<1>2. PICK b : Turns(b, d, other, channels, two)
               /\ Evaluate(d, other, channels, two) = b[len]
  BY <1>0, EvaluateTurns
<1>. DEFINE Holds(n) == /\ DOMAIN a[n] = DOMAIN one /\ DOMAIN b[n] = DOMAIN two
                        /\ \A i \in 1..n : a[n][i] = b[n][i]
            T == { n \in Nat : n <= len => Holds(n) }
<1>3. 0 \in T
  BY <1>1, <1>2 DEF Turns
<1>4. ASSUME NEW n \in T PROVE n + 1 \in T
  <2>. SUFFICES ASSUME n + 1 <= len PROVE Holds(n + 1)
    OBVIOUS
  <2>1. Holds(n)
    OBVIOUS
  <2>2. n + 1 \in 1..len /\ n + 1 \in DOMAIN one /\ n + 1 \in DOMAIN two
    BY <1>0 DEF Fits
  <2>. DEFINE x == Result(d[n + 1], a[n], topics, channels)
              y == Result(d[n + 1], b[n], other, channels)
  <2>3. a[n + 1] = [a[n] EXCEPT ![n + 1] = x] /\ b[n + 1] = [b[n] EXCEPT ![n + 1] = y]
    BY <1>1, <1>2, <2>2 DEF Turns
  <2>4. x = y
    <3>1. IsOp(d[n + 1]) /\ Accepts(n, d[n + 1])
      BY <2>2 DEF Program
    <3>2. d[n + 1].op = "Subscribe" => d[n + 1].name \in Reads(d)
      BY <1>0, <2>2 DEF Reads
    <3>3. d[n + 1].op = "Subscribe"
             => Lookup(topics, d[n + 1].name) = Lookup(other, d[n + 1].name)
      BY <3>2 DEF SameReads
    <3>4. n \in Nat /\ SameNodes(n, a[n], b[n])
      BY <2>1 DEF SameNodes
    <3>. QED BY <3>1, <3>3, <3>4, ResultSame
  <2>. HIDE DEF x, y
  <2>5. DOMAIN a[n + 1] = DOMAIN one /\ DOMAIN b[n + 1] = DOMAIN two
    BY <2>1, <2>3
  <2>6. ASSUME NEW i \in 1..(n + 1) PROVE a[n + 1][i] = b[n + 1][i]
    <3>1. CASE i = n + 1
      BY <2>1, <2>2, <2>3, <2>4, <3>1
    <3>2. CASE i # n + 1
      <4>1. i \in 1..n /\ i \in DOMAIN one /\ i \in DOMAIN two
        BY <1>0, <2>2, <3>2 DEF Fits
      <4>. QED BY <2>1, <2>3, <3>2, <4>1
    <3>. QED BY <3>1, <3>2
  <2>. QED BY <2>5, <2>6
<1>5. T = Nat
  <2>1. T \in SUBSET Nat
    OBVIOUS
  <2>. HIDE DEF T
  <2>. QED BY <1>3, <1>4, <2>1, AllNumbers
<1>6. Holds(len)
  <2>1. len \in T
    BY <1>0, <1>5
  <2>. QED BY <1>0, <2>1
<1>. QED BY <1>1, <1>2, <1>6 DEF SameNodes

LEMMA EvaluateFits ==
    ASSUME NEW d, Program(d), NEW channels, NEW buffer, Fits(d, buffer), NEW topics
    PROVE  DOMAIN Evaluate(d, topics, channels, buffer) = DOMAIN buffer
<1>1. SameReads(d, topics, topics)
  BY DEF SameReads
<1>. QED BY <1>1, EvaluateSame

\* The sinks of a program are nodes of it.
LEMMA SinksAre ==
    ASSUME NEW d, Len(d) \in Nat, NEW op
    PROVE  Sinks(d, op) \in Seq({ i \in 1..Len(d) : d[i].op = op })
<1>. DEFINE S == { i \in 1..Len(d) : d[i].op = op }
            Turn(g, n) == IF n = 0 THEN << >>
                          ELSE IF d[n].op = op THEN Append(g[n - 1], n) ELSE g[n - 1]
            T == { k \in Nat : k <= Len(d) =>
                      \E g : g = [n \in 0..k |-> Turn(g, n)] /\ \A n \in 0..k : g[n] \in Seq(S) }
<1>1. 0 \in T
  <2>. DEFINE g == [n \in 0..0 |-> << >>]
  <2>1. \A n \in 0..0 : g[n] = Turn(g, n)
    OBVIOUS
  <2>2. g = [n \in 0..0 |-> g[n]]
    OBVIOUS
  <2>3. \A n \in 0..0 : g[n] \in Seq(S)
    <3>1. << >> \in Seq(S)
      <4>. HIDE DEF S
      <4>. QED OBVIOUS
    <3>. HIDE DEF S, g
    <3>2. \A n \in 0..0 : g[n] = << >>
      BY <2>1
    <3>. QED BY <3>1, <3>2
  <2>. HIDE DEF g, Turn
  <2>4. g = [n \in 0..0 |-> Turn(g, n)]
    BY <2>1, <2>2
  <2>. QED BY <2>3, <2>4
<1>2. ASSUME NEW k \in T PROVE k + 1 \in T
  <2>. SUFFICES ASSUME k + 1 <= Len(d)
                PROVE  \E g : /\ g = [n \in 0..(k + 1) |-> Turn(g, n)]
                              /\ \A n \in 0..(k + 1) : g[n] \in Seq(S)
    <3>. HIDE DEF Turn, S
    <3>. QED OBVIOUS
  <2>1. PICK g : g = [n \in 0..k |-> Turn(g, n)] /\ \A n \in 0..k : g[n] \in Seq(S)
    OBVIOUS
  <2>. DEFINE h == [n \in 0..(k + 1) |-> IF n <= k THEN g[n] ELSE Turn(g, n)]
  <2>2. ASSUME NEW n \in 0..(k + 1) PROVE h[n] = Turn(h, n)
    <3>1. CASE n = 0
      BY <2>1, <3>1
    <3>2. CASE n # 0
      <4>1. n - 1 \in 0..k /\ n - 1 \in 0..(k + 1) /\ n - 1 <= k
        BY <3>2
      <4>2. h[n - 1] = g[n - 1]
        BY <4>1
      <4>3. Turn(h, n) = Turn(g, n)
        <5>. HIDE DEF h
        <5>. QED BY <4>2
      <4>4. CASE n <= k
        <5>1. n \in 0..k /\ h[n] = g[n]
          BY <4>4
        <5>2. g[n] = Turn(g, n)
          <6>. HIDE DEF Turn
          <6>. QED BY <2>1, <5>1
        <5>. QED BY <4>3, <5>1, <5>2
      <4>5. CASE ~ (n <= k)
        <5>1. h[n] = Turn(g, n)
          <6>. HIDE DEF Turn
          <6>. QED BY <4>5
        <5>. QED BY <4>3, <5>1
      <4>. QED BY <4>4, <4>5
    <3>. QED BY <3>1, <3>2
  <2>3. h = [n \in 0..(k + 1) |-> h[n]]
    OBVIOUS
  <2>4. ASSUME NEW n \in 0..(k + 1) PROVE h[n] \in Seq(S)
    <3>1. CASE n <= k
      <4>1. n \in 0..k /\ h[n] = g[n]
        BY <3>1
      <4>. HIDE DEF S, h, Turn
      <4>. QED BY <2>1, <4>1
    <3>2. CASE ~ (n <= k)
      <4>1. n = k + 1 /\ n \in 1..Len(d) /\ n - 1 = k /\ g[k] \in Seq(S)
        <5>1. n = k + 1 /\ n \in 1..Len(d) /\ n - 1 = k /\ k \in 0..k
          BY <3>2
        <5>. HIDE DEF S, Turn, h
        <5>. QED BY <2>1, <5>1
      <4>2. h[n] = Turn(g, n)
        <5>. HIDE DEF Turn
        <5>. QED BY <3>2
      <4>3. d[n].op = op => n \in S
        BY <4>1
      <4>. HIDE DEF S, h
      <4>4. d[n].op = op => Append(g[n - 1], n) \in Seq(S)
        BY <4>1, <4>3
      <4>. QED BY <4>1, <4>2, <4>4
    <3>. QED BY <3>1, <3>2
  <2>. HIDE DEF h, Turn
  <2>5. h = [n \in 0..(k + 1) |-> Turn(h, n)]
    BY <2>2, <2>3
  <2>. QED BY <2>4, <2>5
<1>3. T = Nat
  <2>1. T \in SUBSET Nat
    OBVIOUS
  <2>. HIDE DEF T
  <2>. QED BY <1>1, <1>2, <2>1, AllNumbers
<1>4. \E g : g = [n \in 0..Len(d) |-> Turn(g, n)] /\ \A n \in 0..Len(d) : g[n] \in Seq(S)
  <2>1. Len(d) \in T
    BY <1>3
  <2>. HIDE DEF Turn
  <2>. QED BY <2>1
<1>5. PICK f : f = [n \in 0..Len(d) |-> Turn(f, n)] /\ \A n \in 0..Len(d) : f[n] \in Seq(S)
  BY <1>4
<1>. DEFINE among == CHOOSE g : g = [n \in 0..Len(d) |-> Turn(g, n)]
<1>6. among = [n \in 0..Len(d) |-> Turn(among, n)]
  <2>. HIDE DEF Turn
  <2>. QED BY <1>4
<1>7. Sinks(d, op) = among[Len(d)]
  BY DEF Sinks
<1>. HIDE DEF among
<1>. DEFINE U == { n \in Nat : n <= Len(d) => among[n] = f[n] }
<1>8. 0 \in U
  BY <1>5, <1>6
<1>9. ASSUME NEW n \in U PROVE n + 1 \in U
  <2>. SUFFICES ASSUME n + 1 <= Len(d) PROVE among[n + 1] = f[n + 1]
    OBVIOUS
  <2>1. n + 1 \in 0..Len(d) /\ among[n] = f[n] /\ n + 1 # 0 /\ (n + 1) - 1 = n
    OBVIOUS
  <2>2. among[n + 1] = Turn(among, n + 1) /\ f[n + 1] = Turn(f, n + 1)
    <3>. HIDE DEF Turn
    <3>. QED BY <1>5, <1>6, <2>1
  <2>. QED BY <2>1, <2>2
<1>10. U = Nat
  <2>1. U \in SUBSET Nat
    OBVIOUS
  <2>. HIDE DEF U
  <2>. QED BY <1>8, <1>9, <2>1, AllNumbers
<1>11. among[Len(d)] = f[Len(d)]
  <2>1. Len(d) \in U
    BY <1>10
  <2>. QED BY <2>1
<1>12. Len(d) \in 0..Len(d)
  OBVIOUS
<1>. HIDE DEF S, Turn
<1>13. f[Len(d)] \in Seq(S)
  BY <1>5, <1>12
<1>14. Sinks(d, op) \in Seq(S)
  BY <1>7, <1>11, <1>13
<1>. QED BY <1>14 DEF S

\* What a tick emits: for some sinks, the name and the value.
Emissions(d, op, buffer) ==
    { [name |-> d[i].name, v |-> buffer[i]] : i \in { n \in 1..Len(d) : d[n].op = op } }

LEMMA EmittedIs ==
    ASSUME NEW d, Len(d) \in Nat, NEW op, NEW buffer
    PROVE  Emitted(d, op, buffer) \in Seq(Emissions(d, op, buffer))
<1>. DEFINE s == Sinks(d, op)
            S == { i \in 1..Len(d) : d[i].op = op }
            e == Emitted(d, op, buffer)
<1>1. s \in Seq(S)
  BY SinksAre
<1>. HIDE DEF s
<1>2. e = [k \in DOMAIN s |-> [name |-> d[s[k]].name, v |-> buffer[s[k]]]]
  BY DEF Emitted, s
<1>3. Len(s) \in Nat /\ DOMAIN s = 1..Len(s) /\ \A k \in 1..Len(s) : s[k] \in S
  <2>. HIDE DEF S
  <2>. QED BY <1>1
<1>. HIDE DEF e
<1>4. \A k \in 1..Len(s) : e[k] \in Emissions(d, op, buffer)
  BY <1>2, <1>3 DEF Emissions
<1>5. e \in [1..Len(s) -> Emissions(d, op, buffer)]
  BY <1>2, <1>3, <1>4
<1>6. e \in Seq(Emissions(d, op, buffer))
  BY <1>3, <1>5
<1>. QED BY <1>6 DEF e

LEMMA EmittedSame ==
    ASSUME NEW d, Len(d) \in Nat, NEW op,
           NEW one, NEW two, SameNodes(Len(d), one, two)
    PROVE  Emitted(d, op, one) = Emitted(d, op, two)
<1>. DEFINE s == Sinks(d, op)
            S == { i \in 1..Len(d) : d[i].op = op }
<1>1. s \in Seq(S)
  BY SinksAre
<1>. HIDE DEF s
<1>2. \A k \in DOMAIN s : s[k] \in S
  <2>. HIDE DEF S
  <2>. QED BY <1>1
<1>3. \A k \in DOMAIN s : one[s[k]] = two[s[k]]
  BY <1>2 DEF SameNodes
<1>4. /\ Emitted(d, op, one) = [k \in DOMAIN s |-> [name |-> d[s[k]].name, v |-> one[s[k]]]]
      /\ Emitted(d, op, two) = [k \in DOMAIN s |-> [name |-> d[s[k]].name, v |-> two[s[k]]]]
  BY DEF Emitted, s
<1>. QED BY <1>3, <1>4

-------------------------------------------------------------------------------
(* The simulation.                                                         *)

SimStart(d) == [values |-> [i \in DOMAIN d |-> 0], pubsub |-> NullPubSub]
SimStep(d, run, k) == IF k = 0 THEN SimStart(d) ELSE SimTick(d, run[k - 1])
IsRun(d, run, n) == run = [k \in 0..n |-> SimStep(d, run, k)]
RunOf(d, n) == CHOOSE run : IsRun(d, run, n)

LEMMA RunsExist ==
    ASSUME NEW d, NEW n \in Nat
    PROVE  IsRun(d, RunOf(d, n), n)
<1>. DEFINE T == { k \in Nat : \E run : IsRun(d, run, k) }
<1>1. 0 \in T
  <2>. DEFINE run == [k \in 0..0 |-> SimStart(d)]
  <2>1. \A k \in 0..0 : run[k] = SimStep(d, run, k)
    BY DEF SimStep
  <2>2. run = [k \in 0..0 |-> run[k]]
    OBVIOUS
  <2>. HIDE DEF run
  <2>3. IsRun(d, run, 0)
    BY <2>1, <2>2 DEF IsRun
  <2>. QED BY <2>3
<1>2. ASSUME NEW k \in T PROVE k + 1 \in T
  <2>1. PICK g : IsRun(d, g, k)
    OBVIOUS
  <2>. DEFINE h == [i \in 0..(k + 1) |-> IF i <= k THEN g[i] ELSE SimStep(d, g, i)]
  <2>2. ASSUME NEW i \in 0..(k + 1) PROVE h[i] = SimStep(d, h, i)
    <3>1. SimStep(d, h, i) = SimStep(d, g, i)
      <4>1. i # 0 => i - 1 \in 0..(k + 1) /\ i - 1 <= k
        OBVIOUS
      <4>2. i # 0 => h[i - 1] = g[i - 1]
        BY <4>1
      <4>. HIDE DEF h
      <4>. QED BY <4>2 DEF SimStep
    <3>2. i <= k => g[i] = SimStep(d, g, i)
      <4>1. i <= k => i \in 0..k
        OBVIOUS
      <4>. QED BY <2>1, <4>1 DEF IsRun
    <3>3. h[i] = IF i <= k THEN g[i] ELSE SimStep(d, g, i)
      OBVIOUS
    <3>. HIDE DEF h
    <3>. QED BY <3>1, <3>2, <3>3
  <2>3. h = [i \in 0..(k + 1) |-> h[i]]
    OBVIOUS
  <2>. HIDE DEF h
  <2>4. IsRun(d, h, k + 1)
    BY <2>2, <2>3 DEF IsRun
  <2>. QED BY <2>4
<1>3. T = Nat
  <2>1. T \in SUBSET Nat
    OBVIOUS
  <2>. HIDE DEF T
  <2>. QED BY <1>1, <1>2, <2>1, AllNumbers
<1>4. \E run : IsRun(d, run, n)
  BY <1>3
<1>. QED BY <1>4 DEF RunOf

\* One more tick of the simulation is one tick after the others.
LEMMA SimTicks ==
    ASSUME NEW d, NEW n \in Nat
    PROVE  /\ SimAfter(d, 0) = SimStart(d)
           /\ SimAfter(d, n + 1) = SimTick(d, SimAfter(d, n))
<1>1. \A m \in Nat : SimAfter(d, m) = RunOf(d, m)[m]
  BY DEF SimAfter, RunOf, IsRun, SimStep, SimStart
<1>2. ASSUME NEW m \in Nat, NEW k \in 0..m PROVE RunOf(d, m)[k] = SimStep(d, RunOf(d, m), k)
  <2>1. IsRun(d, RunOf(d, m), m)
    BY RunsExist
  <2>. QED BY <2>1 DEF IsRun
<1>3. SimAfter(d, 0) = SimStart(d)
  <2>1. 0 \in Nat /\ 0 \in 0..0
    OBVIOUS
  <2>. QED BY <1>1, <1>2, <2>1 DEF SimStep
<1>. DEFINE f == RunOf(d, n)
            g == RunOf(d, n + 1)
            T == { k \in Nat : k <= n => f[k] = g[k] }
<1>4. 0 \in T
  <2>1. n + 1 \in Nat /\ 0 \in 0..n /\ 0 \in 0..(n + 1)
    OBVIOUS
  <2>2. f[0] = g[0]
    BY <1>2, <2>1 DEF SimStep
  <2>. QED BY <2>2
<1>5. ASSUME NEW k \in T PROVE k + 1 \in T
  <2>. SUFFICES ASSUME k + 1 <= n PROVE f[k + 1] = g[k + 1]
    OBVIOUS
  <2>1. /\ n + 1 \in Nat /\ k + 1 \in 0..n /\ k + 1 \in 0..(n + 1)
        /\ f[k] = g[k] /\ k + 1 # 0 /\ (k + 1) - 1 = k
    OBVIOUS
  <2>2. f[k + 1] = SimStep(d, f, k + 1) /\ g[k + 1] = SimStep(d, g, k + 1)
    BY <1>2, <2>1
  <2>. HIDE DEF f, g
  <2>. QED BY <2>1, <2>2 DEF SimStep
<1>6. T = Nat
  <2>1. T \in SUBSET Nat
    OBVIOUS
  <2>. HIDE DEF T
  <2>. QED BY <1>4, <1>5, <2>1, AllNumbers
<1>7. f[n] = g[n]
  <2>1. n \in T
    BY <1>6
  <2>. QED BY <2>1
<1>8. g[n + 1] = SimTick(d, g[n])
  <2>1. n + 1 \in Nat /\ n + 1 \in 0..(n + 1) /\ n + 1 # 0 /\ (n + 1) - 1 = n
    OBVIOUS
  <2>2. g[n + 1] = SimStep(d, g, n + 1)
    BY <1>2, <2>1
  <2>. HIDE DEF g
  <2>. QED BY <2>1, <2>2 DEF SimStep
<1>9. SimAfter(d, n + 1) = SimTick(d, SimAfter(d, n))
  <2>1. SimAfter(d, n + 1) = g[n + 1] /\ SimAfter(d, n) = f[n]
    BY <1>1
  <2>. HIDE DEF f, g
  <2>. QED BY <1>7, <1>8, <2>1
<1>. QED BY <1>3, <1>9

-------------------------------------------------------------------------------
(* Two maps under the same writes.                                         *)

LEMMA LastExists ==
    ASSUME NEW writes, NEW n \in Nat, NEW k \in 1..n
    PROVE  \E i \in 1..n : LastOfName(writes, i, n) /\ writes[i].name = writes[k].name
<1>. DEFINE S == { i \in 1..n : writes[i].name = writes[k].name }
            i == Max(S)
<1>1. S # {} /\ S \in SUBSET (1..n)
  OBVIOUS
<1>2. i \in S /\ \A j \in S : j <= i
  <2>. HIDE DEF S
  <2>. QED BY <1>1, MaxOfNumbers
<1>. HIDE DEF i
<1>3. i \in 1..n /\ writes[i].name = writes[k].name
  BY <1>2
<1>4. ASSUME NEW j \in 1..n, i < j PROVE writes[j].name # writes[i].name
  BY <1>2, <1>3, <1>4
<1>. QED BY <1>3, <1>4 DEF LastOfName

\* What two sequences of writes are together.
LEMMA Joined ==
    ASSUME NEW V, NEW one \in Seq(V), NEW two \in Seq(V)
    PROVE  /\ Len(one) \in Nat /\ DOMAIN one = 1..Len(one)
           /\ Len(two) \in Nat /\ DOMAIN two = 1..Len(two)
           /\ Len(one \o two) = Len(one) + Len(two)
           /\ DOMAIN (one \o two) = 1..Len(one \o two)
           /\ \A k \in 1..Len(one) : (one \o two)[k] = one[k]
           /\ \A k \in 1..Len(two) : (one \o two)[Len(one) + k] = two[k]
           /\ Names(one \o two) = Names(one) \union Names(two)
<1>. DEFINE both == one \o two
<1>1. /\ Len(one) \in Nat /\ DOMAIN one = 1..Len(one)
      /\ Len(two) \in Nat /\ DOMAIN two = 1..Len(two)
  OBVIOUS
<1>2. /\ Len(both) = Len(one) + Len(two)
      /\ DOMAIN both = 1..Len(both)
      /\ \A k \in 1..Len(one) : both[k] = one[k]
      /\ \A k \in 1..Len(two) : both[Len(one) + k] = two[k]
  OBVIOUS
<1>. HIDE DEF both
<1>3. ASSUME NEW name \in Names(one) PROVE name \in Names(both)
  <2>1. PICK k \in 1..Len(one) : name = one[k].name
    BY <1>1 DEF Names
  <2>2. k \in DOMAIN both
    BY <1>1, <1>2
  <2>3. both[k] = one[k]
    BY <1>2
  <2>. QED BY <2>1, <2>2, <2>3 DEF Names
<1>4. ASSUME NEW name \in Names(two) PROVE name \in Names(both)
  <2>1. PICK k \in 1..Len(two) : name = two[k].name
    BY <1>1 DEF Names
  <2>2. Len(one) + k \in DOMAIN both
    BY <1>1, <1>2
  <2>3. both[Len(one) + k] = two[k]
    BY <1>2
  <2>. QED BY <2>1, <2>2, <2>3 DEF Names
<1>5. ASSUME NEW k \in DOMAIN both PROVE both[k].name \in Names(one) \union Names(two)
  <2>1. CASE k \in 1..Len(one)
    BY <1>1, <1>2, <2>1 DEF Names
  <2>2. CASE k \notin 1..Len(one)
    <3>1. k - Len(one) \in 1..Len(two) /\ Len(one) + (k - Len(one)) = k
      BY <1>1, <1>2, <2>2
    <3>2. both[k] = two[k - Len(one)]
      BY <1>2, <3>1
    <3>. QED BY <1>1, <3>1, <3>2 DEF Names
  <2>. QED BY <2>1, <2>2
<1>6. Names(both) \subseteq Names(one) \union Names(two)
  BY <1>5 DEF Names
<1>. QED BY <1>1, <1>2, <1>3, <1>4, <1>6 DEF both

ReadAlike(one, two, t) == t \in DOMAIN two => t \in DOMAIN one /\ one[t] = two[t]

(* A name that the second writes leave alone reads in the first map as it  *)
(* does in the second, where it is in that one.                            *)
LEMMA InsertsAgree ==
    ASSUME NEW V, NEW first \in Seq(V), NEW second \in Seq(V), NEW one, NEW two, NEW t,
           ReadAlike(one, two, t),
           t \notin Names(second), t \in DOMAIN InsertAll(two, first)
    PROVE  /\ t \in DOMAIN InsertAll(one, first \o second)
           /\ InsertAll(one, first \o second)[t] = InsertAll(two, first)[t]
<1>. DEFINE both == first \o second
            n == Len(first)
<1>1. /\ n \in Nat /\ DOMAIN first = 1..n
      /\ Len(second) \in Nat /\ DOMAIN second = 1..Len(second)
      /\ Len(both) = n + Len(second) /\ DOMAIN both = 1..Len(both)
      /\ \A k \in 1..n : both[k] = first[k]
      /\ \A k \in 1..Len(second) : both[n + k] = second[k]
      /\ Names(both) = Names(first) \union Names(second)
  <2>. HIDE DEF both, n
  <2>. QED BY Joined DEF both, n
<1>. HIDE DEF both
<1>2. Len(both) \in Nat
  BY <1>1
<1>3. Inserted(InsertAll(one, both), one, both, Len(both))
  BY <1>1, <1>2, InsertAllIs
<1>4. Inserted(InsertAll(two, first), two, first, n)
  BY <1>1, InsertAllIs
<1>. HIDE DEF n
<1>5. CASE \E k \in 1..n : first[k].name = t
  <2>1. PICK k \in 1..n : LastOfName(first, k, n) /\ first[k].name = t
    <3>1. PICK i \in 1..n : first[i].name = t
      BY <1>5
    <3>2. \E k \in 1..n : LastOfName(first, k, n) /\ first[k].name = first[i].name
      BY <1>1, LastExists
    <3>. QED BY <3>1, <3>2
  <2>2. k \in 1..Len(both) /\ both[k] = first[k]
    BY <1>1, <2>1
  <2>3. ASSUME NEW j \in 1..Len(both), k < j PROVE both[j].name # both[k].name
    <3>1. CASE j \in 1..n
      <4>1. first[j].name # first[k].name
        BY <2>1, <2>3, <3>1 DEF LastOfName
      <4>. QED BY <1>1, <2>2, <3>1, <4>1
    <3>2. CASE j \notin 1..n
      <4>1. j - n \in 1..Len(second) /\ n + (j - n) = j
        BY <1>1, <3>2
      <4>2. both[j] = second[j - n] /\ j - n \in DOMAIN second
        BY <1>1, <4>1
      <4>3. both[j].name \in Names(second)
        BY <4>2 DEF Names
      <4>. QED BY <2>1, <2>2, <4>3
    <3>. QED BY <3>1, <3>2
  <2>4. LastOfName(both, k, Len(both))
    BY <2>2, <2>3 DEF LastOfName
  <2>5. InsertAll(one, both)[both[k].name] = both[k].v
        /\ both[k].name \in DOMAIN InsertAll(one, both)
    BY <1>3, <2>2, <2>4 DEF Inserted
  <2>6. InsertAll(two, first)[first[k].name] = first[k].v
    BY <1>4, <2>1 DEF Inserted
  <2>. QED BY <2>1, <2>2, <2>5, <2>6 DEF both
<1>6. CASE \A k \in 1..n : first[k].name # t
  <2>1. t \in DOMAIN two /\ InsertAll(two, first)[t] = two[t]
    BY <1>4, <1>6 DEF Inserted
  <2>2. t \notin Names(both)
    BY <1>1, <1>6 DEF Names
  <2>3. \A k \in 1..Len(both) : both[k].name # t
    BY <1>1, <2>2 DEF Names
  <2>4. t \in DOMAIN InsertAll(one, both) /\ InsertAll(one, both)[t] = one[t]
    BY <1>3, <2>1, <2>3 DEF Inserted, ReadAlike
  <2>. QED BY <2>1, <2>4 DEF both, ReadAlike
<1>. QED BY <1>5, <1>6

-------------------------------------------------------------------------------
(* The firmware and the simulation.                                        *)

(* What is shown is what a simulation has, topic by topic.                 *)
Follows(ref) ==
    /\ since \ DebugNames = DOMAIN ref.pubsub
    /\ \A t \in DOMAIN ref.pubsub : pubsub_topics[t] = ref.pubsub[t]

(* Besides: the map has no long names and has all that the program wrote,  *)
(* unless something was dropped.                                           *)
FInv ==
    /\ Program(dag)
    /\ DOMAIN values = 1..MaxNodes
    /\ tick_count \in Nat
    /\ DOMAIN SimAfter(dag, tick_count).values = 1..Len(dag)
    /\ DOMAIN pubsub_topics \intersect LongNames = {}
    /\ ~refused => since \subseteq DOMAIN pubsub_topics
    /\ ~mixed /\ ~refused /\ ~skipped /\ OwnTopics(dag) => Follows(SimAfter(dag, tick_count))

LEMMA UploadsAre ==
    ASSUME NEW u \in Uploads, Decodes(u)
    PROVE  Program(u.ops)
BY DagServersAssumption DEF Decodes, Program

LEMMA Started ==
    ASSUME NEW d, DOMAIN d = 1..Len(d)
    PROVE  /\ DOMAIN SimAfter(d, 0).values = 1..Len(d)
           /\ DOMAIN SimAfter(d, 0).pubsub = {}
<1>1. SimAfter(d, 0) = SimStart(d)
  BY SimTicks
<1>. QED BY <1>1 DEF SimStart, NullPubSub, NullChannels

LEMMA FInit ==
    ASSUME FwInit PROVE FInv
<1>1. dag = << >> /\ Len(dag) = 0 /\ DOMAIN dag = 1..Len(dag) /\ tick_count = 0
  BY DEF FwInit
<1>2. Program(dag)
  BY <1>1 DEF Program
<1>3. DOMAIN SimAfter(dag, 0).values = 1..Len(dag) /\ DOMAIN SimAfter(dag, 0).pubsub = {}
  BY <1>1, Started
<1>4. DOMAIN values = 1..MaxNodes /\ DOMAIN pubsub_topics = {} /\ since = {}
  BY DEF FwInit, Zeros, NullPubSub, NullChannels
<1>. QED BY <1>1, <1>2, <1>3, <1>4 DEF FInv, Follows

LEMMA FDeploy ==
    ASSUME FInv, NEW u \in Uploads, FwDeploy(u) PROVE FInv'
<1>1. dag' = u.ops /\ Program(dag') /\ tick_count' = 0 /\ values' = Zeros /\ since' = {}
  BY UploadsAre DEF FwDeploy
<1>2. DOMAIN dag' = 1..Len(dag')
  BY <1>1 DEF Program
<1>3. /\ DOMAIN SimAfter(dag', tick_count').values = 1..Len(dag')
      /\ DOMAIN SimAfter(dag', tick_count').pubsub = {}
  BY <1>1, <1>2, Started
<1>4. pubsub_topics' = pubsub_topics
  BY DEF FwDeploy
<1>5. DOMAIN values' = 1..MaxNodes
  BY <1>1 DEF Zeros
<1>. QED BY <1>1, <1>3, <1>4, <1>5 DEF FInv, Follows

(* A tick's writes: what the program publishes, and debug mode's topics.   *)
Computed == Evaluate(dag, pubsub_topics, NullChannels, values)
Own == Emitted(dag, "Publish", Computed)
Extra == IF debug_mode THEN DebugWrites(Computed, Len(dag)) ELSE << >>
Writes == Own \o Extra

Entries == Emissions(dag, "Publish", Computed)
             \union { [name |-> Dbg[i], v |-> Computed[i]] : i \in 1..Len(dag) }

LEMMA WritesAre ==
    ASSUME FInv, Len(dag) <= MaxNodes
    PROVE  /\ Own \in Seq(Entries) /\ Extra \in Seq(Entries)
           /\ Len(Writes) \in Nat /\ DOMAIN Writes = 1..Len(Writes)
           /\ Names(Writes) = Names(Own) \union Names(Extra)
           /\ Names(Extra) \subseteq DebugNames
           /\ OwnTopics(dag) => Names(Own) \intersect DebugNames = {}
<1>1. Len(dag) \in Nat /\ DOMAIN dag = 1..Len(dag)
  BY DEF FInv, Program
<1>2. Own \in Seq(Emissions(dag, "Publish", Computed))
  BY <1>1, EmittedIs DEF Own
<1>3. Own \in Seq(Entries)
  BY <1>2 DEF Entries
<1>4. Extra \in Seq(Entries) /\ Names(Extra) \subseteq DebugNames
  <2>1. CASE debug_mode
    <3>1. Extra = [i \in 1..Len(dag) |-> [name |-> Dbg[i], v |-> Computed[i]]]
      BY <2>1 DEF Extra, DebugWrites
    <3>2. \A i \in 1..Len(dag) : Extra[i] \in Entries /\ Extra[i].name = Dbg[i]
      BY <3>1 DEF Entries
    <3>3. Extra \in [1..Len(dag) -> Entries]
      BY <3>1, <3>2
    <3>4. \A i \in 1..Len(dag) : Dbg[i] \in DebugNames
      BY <1>1, DagServersAssumption DEF DebugNames
    <3>5. Names(Extra) \subseteq DebugNames
      BY <3>2, <3>3, <3>4 DEF Names
    <3>. QED BY <1>1, <3>3, <3>5
  <2>2. CASE ~debug_mode
    <3>1. Extra = << >>
      BY <2>2 DEF Extra
    <3>. QED BY <3>1 DEF Names
  <2>. QED BY <2>1, <2>2
<1>5. /\ Len(Own) \in Nat /\ Len(Extra) \in Nat
      /\ Len(Writes) = Len(Own) + Len(Extra)
      /\ DOMAIN Writes = 1..Len(Writes)
      /\ Names(Writes) = Names(Own) \union Names(Extra)
  BY <1>3, <1>4, Joined DEF Writes
<1>6. ASSUME OwnTopics(dag), NEW k \in DOMAIN Own PROVE Own[k].name \notin DebugNames
  <2>1. Own[k] \in Emissions(dag, "Publish", Computed)
    BY <1>2
  <2>2. PICK i \in 1..Len(dag) : dag[i].op = "Publish" /\ Own[k].name = dag[i].name
    BY <2>1 DEF Emissions
  <2>. QED BY <1>1, <1>6, <2>2 DEF OwnTopics
<1>7. OwnTopics(dag) => Names(Own) \intersect DebugNames = {}
  BY <1>6 DEF Names
<1>. QED BY <1>3, <1>4, <1>5, <1>7

\* What a tick does with its writes.
LEMMA TickIs ==
    ASSUME FInv, FwTick
    PROVE  /\ Len(dag) <= MaxNodes
           /\ values' = Computed /\ dag' = dag /\ tick_count' = tick_count + 1
           /\ pubsub_topics' = InsertKept(pubsub_topics, Writes)
           /\ since' = since \union Names(Writes)
           /\ refused' = (refused \/ ~(Names(Writes) \subseteq DOMAIN pubsub_topics'))
           /\ DOMAIN pubsub_topics \subseteq DOMAIN pubsub_topics'
           /\ DOMAIN pubsub_topics' \intersect LongNames = {}
           /\ ~refused' => pubsub_topics' = InsertAll(pubsub_topics, Writes)
<1>1. /\ Len(dag) <= MaxNodes
      /\ values' = Computed /\ dag' = dag /\ tick_count' = tick_count + 1
      /\ pubsub_topics' = InsertKept(pubsub_topics, Writes)
      /\ since' = since \union Names(Writes)
      /\ refused' = (refused \/ ~(Names(Writes) \subseteq DOMAIN pubsub_topics'))
  BY DEF FwTick, Computed, Own, Extra, Writes
<1>2. Len(Writes) \in Nat /\ DOMAIN Writes = 1..Len(Writes)
  BY <1>1, WritesAre
<1>3. DOMAIN pubsub_topics \intersect LongNames = {}
  BY DEF FInv
<1>4. /\ DOMAIN pubsub_topics \subseteq DOMAIN InsertKept(pubsub_topics, Writes)
      /\ DOMAIN InsertKept(pubsub_topics, Writes) \intersect LongNames = {}
      /\ Names(Writes) \subseteq DOMAIN InsertKept(pubsub_topics, Writes)
            => InsertKept(pubsub_topics, Writes) = InsertAll(pubsub_topics, Writes)
  BY <1>2, <1>3, KeptAll
<1>. QED BY <1>1, <1>4

LEMMA FTick ==
    ASSUME FInv, FwTick PROVE FInv'
<1>. DEFINE ref == SimAfter(dag, tick_count)
            simNew == Evaluate(dag, ref.pubsub, NullChannels, ref.values)
<1>1. /\ Len(dag) <= MaxNodes
      /\ values' = Computed /\ dag' = dag /\ tick_count' = tick_count + 1
      /\ since' = since \union Names(Writes)
      /\ refused' = (refused \/ ~(Names(Writes) \subseteq DOMAIN pubsub_topics'))
      /\ DOMAIN pubsub_topics \subseteq DOMAIN pubsub_topics'
      /\ DOMAIN pubsub_topics' \intersect LongNames = {}
      /\ ~refused' => pubsub_topics' = InsertAll(pubsub_topics, Writes)
  BY TickIs
<1>2. /\ Own \in Seq(Entries) /\ Extra \in Seq(Entries)
      /\ Len(Writes) \in Nat /\ DOMAIN Writes = 1..Len(Writes)
      /\ Names(Writes) = Names(Own) \union Names(Extra)
      /\ Names(Extra) \subseteq DebugNames
      /\ OwnTopics(dag) => Names(Own) \intersect DebugNames = {}
  BY <1>1, WritesAre
<1>3. /\ Program(dag) /\ Len(dag) \in Nat
      /\ DOMAIN values = 1..MaxNodes /\ Fits(dag, values)
      /\ DOMAIN ref.values = 1..Len(dag) /\ Fits(dag, ref.values)
      /\ tick_count \in Nat
  BY <1>1, DagServersAssumption DEF FInv, Program, Fits
<1>4. SimAfter(dag, tick_count') = [values |-> simNew,
                                    pubsub |-> InsertAll(ref.pubsub, Emitted(dag, "Publish", simNew))]
  BY <1>1, <1>3, SimTicks DEF SimTick
<1>5. DOMAIN Computed = 1..MaxNodes /\ DOMAIN simNew = 1..Len(dag)
  <2>1. DOMAIN Computed = DOMAIN values
    BY <1>3, EvaluateFits DEF Computed
  <2>2. DOMAIN simNew = DOMAIN ref.values
    <3>. HIDE DEF ref
    <3>. QED BY <1>3, EvaluateFits
  <2>. QED BY <1>3, <2>1, <2>2
<1>6. ~refused' => since' \subseteq DOMAIN pubsub_topics'
  BY <1>1 DEF FInv
<1>7. ASSUME ~mixed', ~refused', ~skipped', OwnTopics(dag)
      PROVE  Follows(SimAfter(dag, tick_count))'
  <2>1. ~mixed /\ ~refused /\ ~skipped
    BY <1>1, <1>7 DEF FwTick
  <2>2. Follows(ref) /\ since \subseteq DOMAIN pubsub_topics
    BY <1>7, <2>1 DEF FInv
  <2>3. ASSUME NEW t \in Reads(dag) PROVE Lookup(pubsub_topics, t) = Lookup(ref.pubsub, t)
    <3>1. t \notin DOMAIN pubsub_topics \ since
      BY <1>7 DEF FwTick
    <3>2. t \notin DebugNames
      BY <1>7 DEF OwnTopics, Reads
    <3>3. t \in DOMAIN pubsub_topics <=> t \in DOMAIN ref.pubsub
      BY <2>2, <3>1, <3>2 DEF Follows
    <3>. QED BY <2>2, <3>3 DEF Lookup, Follows
  <2>4. SameNodes(Len(dag), Computed, simNew)
    <3>1. SameReads(dag, pubsub_topics, ref.pubsub)
      BY <2>3 DEF SameReads
    <3>. HIDE DEF ref
    <3>. QED BY <1>3, <3>1, EvaluateSame DEF Computed
  <2>5. Own = Emitted(dag, "Publish", simNew)
    <3>. HIDE DEF simNew
    <3>. QED BY <1>3, <2>4, EmittedSame DEF Own
  <2>. DEFINE after == InsertAll(ref.pubsub, Own)
  <2>6. SimAfter(dag, tick_count') = [values |-> simNew, pubsub |-> after]
    BY <1>4, <2>5
  <2>7. DOMAIN after = DOMAIN ref.pubsub \union Names(Own)
    <3>1. Len(Own) \in Nat /\ DOMAIN Own = 1..Len(Own)
      BY <1>2
    <3>2. Inserted(after, ref.pubsub, Own, Len(Own))
      BY <3>1, InsertAllIs
    <3>. QED BY <3>1, <3>2 DEF Inserted, Names
  <2>. HIDE DEF after, ref, simNew
  <2>8. since' \ DebugNames = DOMAIN after
    BY <1>1, <1>2, <1>7, <2>2, <2>7 DEF Follows
  <2>9. ASSUME NEW t \in DOMAIN after PROVE pubsub_topics'[t] = after[t]
    <3>1. ReadAlike(pubsub_topics, ref.pubsub, t)
      BY <2>2 DEF Follows, ReadAlike
    <3>2. t \notin Names(Extra)
      BY <1>2, <2>8
    <3>3. Own \in Seq(Entries) /\ Extra \in Seq(Entries)
      BY <1>2
    <3>4. t \in DOMAIN InsertAll(ref.pubsub, Own)
      BY DEF after
    <3>5. InsertAll(pubsub_topics, Own \o Extra)[t] = InsertAll(ref.pubsub, Own)[t]
      BY <3>1, <3>2, <3>3, <3>4, InsertsAgree
    <3>6. InsertAll(pubsub_topics, Writes)[t] = after[t]
      BY <3>5 DEF Writes, after
    <3>. QED BY <1>1, <1>7, <3>6
  <2>. QED BY <1>1, <2>6, <2>8, <2>9 DEF Follows
<1>. HIDE DEF ref, simNew
<1>. QED BY <1>1, <1>3, <1>4, <1>5, <1>6, <1>7 DEF FInv

\* What FInv speaks of.
LEMMA FStutter ==
    ASSUME FInv, UNCHANGED <<dag, values, tick_count, pubsub_topics, since>>,
           mixed' = mixed, refused' = refused, skipped => skipped'
    PROVE  FInv'
BY DEF FInv, Follows

LEMMA FNext ==
    ASSUME FInv, [ServersNext]_serversVars PROVE FInv'
<1>1. CASE UNCHANGED serversVars
  BY <1>1, FStutter DEF serversVars, fwVars
<1>2. ASSUME NEW u \in Uploads, Deploy(u) \/ Reject(u) PROVE FInv'
  <2>1. FwDeploy(u) \/ UNCHANGED fwVars
    BY <1>2 DEF Deploy, Reject, FwDead, FwReject
  <2>2. CASE UNCHANGED fwVars
    BY <2>2, FStutter DEF fwVars
  <2>. QED BY <2>1, <2>2, FDeploy
<1>3. CASE Tick
  <2>1. FwTick \/ FwTickSkipped \/ UNCHANGED fwVars
    BY <1>3 DEF Tick, FwTickUnloaded, FwDead
  <2>2. CASE FwTickSkipped
    BY <2>2, FStutter DEF FwTickSkipped
  <2>3. CASE UNCHANGED fwVars
    BY <2>3, FStutter DEF fwVars
  <2>. QED BY <2>1, <2>2, <2>3, FTick
<1>4. CASE Debug
  <2>1. FwDebug \/ UNCHANGED fwVars
    BY <1>4 DEF Debug, FwDead
  <2>2. CASE FwDebug
    BY <2>2, FStutter DEF FwDebug
  <2>3. CASE UNCHANGED fwVars
    BY <2>3, FStutter DEF fwVars
  <2>. QED BY <2>1, <2>2, <2>3
<1>5. CASE GetPubsub
  <2>1. FwGetPubsub \/ UNCHANGED fwVars
    BY <1>5 DEF GetPubsub, FwDead
  <2>2. CASE FwGetPubsub
    BY <2>2, FStutter DEF FwGetPubsub
  <2>3. CASE UNCHANGED fwVars
    BY <2>3, FStutter DEF fwVars
  <2>. QED BY <2>1, <2>2, <2>3
<1>. QED BY <1>1, <1>2, <1>3, <1>4, <1>5 DEF ServersNext

(* The firmware computes what the browser simulates, as long as nothing    *)
(* was dropped and the program reads only its own topics                   *)
(* (dag_handler.rs:129, eval.rs:125), whatever the programs, the limits    *)
(* and the requests.                                                       *)
THEOREM DagFirmwareFollowsSim == ServersSpec => []FirmwareFollowsSim
<1>1. ServersInit => FInv
  BY FInit DEF ServersInit
<1>2. FInv /\ [ServersNext]_serversVars => FInv'
  BY FNext
<1>3. FInv => FirmwareFollowsSim
  BY DEF FInv, Follows, FirmwareFollowsSim
<1>. QED BY <1>1, <1>2, <1>3, PTL DEF ServersSpec

-------------------------------------------------------------------------------
(* The two servers.                                                        *)

\* The native server's operators are those of the firmware's.
LEMMA SameOperators ==
    /\ \A u : N!Decodes(u) <=> Decodes(u)
    /\ \A d, t, c, b : N!Evaluate(d, t, c, b) = Evaluate(d, t, c, b)
    /\ \A d, op, b : N!Emitted(d, op, b) = Emitted(d, op, b)
    /\ \A m, w : N!InsertAll(m, w) = InsertAll(m, w)
    /\ \A d : N!Reads(d) = Reads(d)
    /\ \A m, t : N!Lookup(m, t) = Lookup(m, t)
    /\ N!NullChannels = NullChannels /\ N!NullPubSub = NullPubSub
<1>1. \A u : N!Decodes(u) <=> Decodes(u)
  BY DEF N!Decodes, Decodes, N!Accepts, Accepts
<1>2. \A d, t, c, b : N!Evaluate(d, t, c, b) = Evaluate(d, t, c, b)
  BY DEF N!Evaluate, Evaluate, N!Result, Result, N!Lookup, Lookup
<1>3. \A d, op, b : N!Emitted(d, op, b) = Emitted(d, op, b)
  BY DEF N!Emitted, Emitted, N!Sinks, Sinks
<1>4. \A m, w : N!InsertAll(m, w) = InsertAll(m, w)
  BY DEF N!InsertAll, InsertAll, N!FoldLeft, FoldLeft, N!MapThenFoldSet, MapThenFoldSet,
         N!Insert, Insert, N!Max, Max
<1>5. \A d : N!Reads(d) = Reads(d)
  BY DEF N!Reads, Reads
<1>6. \A m, t : N!Lookup(m, t) = Lookup(m, t)
  BY DEF N!Lookup, Lookup
<1>7. N!NullChannels = NullChannels /\ N!NullPubSub = NullPubSub
  BY DEF N!NullChannels, NullChannels, N!NullPubSub, NullPubSub
<1>. QED BY <1>1, <1>2, <1>3, <1>4, <1>5, <1>6, <1>7

(* Besides: both buffers are as long as a tick needs them.                 *)
SInv ==
    /\ FInv
    /\ Program(n_dag) /\ DOMAIN n_values = 1..Len(n_dag)
    /\ ServersAgree

LEMMA SInit ==
    ASSUME ServersInit PROVE SInv
<1>1. FInv
  BY FInit DEF ServersInit
<1>2. n_dag = << >> /\ Len(n_dag) = 0 /\ DOMAIN n_dag = 1..Len(n_dag)
      /\ n_values = << >> /\ DOMAIN n_values = 1..Len(n_dag)
  BY DEF ServersInit, N!NativeInit
<1>3. Program(n_dag)
  BY <1>2 DEF Program
<1>4. ServersAgree
  BY SameOperators DEF ServersInit, FwInit, N!NativeInit, ServersAgree
<1>. QED BY <1>1, <1>2, <1>3, <1>4 DEF SInv

LEMMA SDeploy ==
    ASSUME SInv, NEW u \in Uploads, Deploy(u), FInv' PROVE SInv'
<1>1. N!NativeDeploy(u) /\ Decodes(u)
  BY DEF Deploy
<1>2. n_dag' = u.ops /\ n_loaded' = TRUE /\ n_tick_count' = 0
      /\ n_values' = [i \in DOMAIN u.ops |-> 0]
      /\ UNCHANGED <<n_debug_mode, n_channels, n_pubsub, n_snapshot, fed>>
  BY <1>1 DEF N!NativeDeploy
<1>3. Program(n_dag') /\ DOMAIN n_values' = 1..Len(n_dag')
  <2>1. Program(n_dag')
    BY <1>1, <1>2, UploadsAre
  <2>. QED BY <1>2, <2>1 DEF Program
<1>4. ServersAgree'
  <2>1. CASE FwDeploy(u)
    BY <1>2, <2>1 DEF FwDeploy, ServersAgree, SInv
  <2>2. CASE FwDead
    BY <2>2 DEF FwDead, fwVars, ServersAgree
  <2>. QED BY <2>1, <2>2 DEF Deploy
<1>. QED BY <1>3, <1>4 DEF SInv

\* The native server's tick, in the firmware's terms.
NNew == Evaluate(n_dag, NullPubSub, NullChannels, n_values)
NExtra == IF n_debug_mode
          THEN [i \in DOMAIN n_dag |-> [name |-> Dbg[i], v |-> NNew[i]]]
          ELSE << >>

LEMMA NTickIs ==
    ASSUME N!NativeTick
    PROVE  /\ n_loaded /\ n_values' = NNew
           /\ n_snapshot' = InsertAll(n_snapshot, Emitted(n_dag, "Publish", NNew) \o NExtra)
           /\ n_tick_count' = n_tick_count + 1
           /\ fed' = (fed \/ \E t \in Reads(n_dag) : Lookup(n_snapshot, t) # 0)
           /\ UNCHANGED <<n_dag, n_loaded, n_debug_mode>>
BY SameOperators DEF N!NativeTick, NNew, NExtra

(* A tick of both with a program that reads nothing: both compute the same *)
(* values and write the same topics.                                       *)
LEMMA BothTick ==
    ASSUME SInv, FwTick, N!NativeTick, ~halted, ~refused', ~skipped, ~fed'
    PROVE  ServersAgree'
<1>1. /\ n_loaded /\ n_values' = NNew
      /\ n_snapshot' = InsertAll(n_snapshot, Emitted(n_dag, "Publish", NNew) \o NExtra)
      /\ n_tick_count' = n_tick_count + 1
      /\ fed' = (fed \/ \E t \in Reads(n_dag) : Lookup(n_snapshot, t) # 0)
      /\ UNCHANGED <<n_dag, n_loaded, n_debug_mode>>
  BY NTickIs
<1>2. /\ Len(dag) <= MaxNodes
      /\ values' = Computed /\ dag' = dag /\ tick_count' = tick_count + 1
      /\ refused' = (refused \/ ~(Names(Writes) \subseteq DOMAIN pubsub_topics'))
      /\ ~refused' => pubsub_topics' = InsertAll(pubsub_topics, Writes)
  BY TickIs DEF SInv
<1>3. /\ dag = n_dag /\ loaded = n_loaded /\ tick_count = n_tick_count
      /\ debug_mode = n_debug_mode
      /\ pubsub_topics = n_snapshot
  BY <1>1, <1>2 DEF SInv, ServersAgree
<1>4. SameNodes(Len(dag), Computed, NNew)
  <2>1. Program(dag) /\ Fits(dag, values) /\ Fits(dag, n_values)
    BY <1>2, <1>3, DagServersAssumption DEF SInv, FInv, Fits, Program
  <2>2. SameReads(dag, pubsub_topics, NullPubSub)
    <3>1. \A t \in Reads(dag) : Lookup(pubsub_topics, t) = 0
      BY <1>1, <1>3
    <3>2. \A t \in Reads(dag) : Lookup(NullPubSub, t) = 0
      BY DEF Lookup, NullPubSub, NullChannels
    <3>. QED BY <3>1, <3>2 DEF SameReads
  <2>. QED BY <1>3, <2>1, <2>2, EvaluateSame DEF Computed, NNew
<1>5. Len(dag) \in Nat /\ DOMAIN dag = 1..Len(dag)
  BY DEF SInv, FInv, Program
<1>6. Own = Emitted(n_dag, "Publish", NNew)
  BY <1>3, <1>4, <1>5, EmittedSame DEF Own
<1>7. Extra = NExtra
  BY <1>3, <1>4, <1>5 DEF Extra, NExtra, DebugWrites, SameNodes
<1>8. pubsub_topics' = n_snapshot'
  BY <1>1, <1>2, <1>3, <1>6, <1>7 DEF Writes
<1>9. loaded' = n_loaded' /\ debug_mode' = n_debug_mode'
  BY <1>1, <1>3 DEF FwTick
<1>. QED BY <1>1, <1>2, <1>3, <1>8, <1>9 DEF ServersAgree

LEMMA STick ==
    ASSUME SInv, Tick, FInv' PROVE SInv'
<1>1. Program(n_dag') /\ DOMAIN n_values' = 1..Len(n_dag')
  <2>1. CASE N!NativeTick
    <3>1. n_values' = NNew /\ n_dag' = n_dag
      BY <2>1, NTickIs
    <3>2. Program(n_dag) /\ Fits(n_dag, n_values) /\ DOMAIN n_values = 1..Len(n_dag)
      BY DEF SInv, Fits
    <3>3. DOMAIN NNew = DOMAIN n_values
      BY <3>2, EvaluateFits DEF NNew
    <3>. QED BY <3>1, <3>2, <3>3
  <2>2. CASE N!NativeTickUnloaded
    BY <2>2 DEF N!NativeTickUnloaded, N!nativeVars, SInv
  <2>. QED BY <2>1, <2>2 DEF Tick
<1>2. ASSUME ~halted', ~refused', ~skipped', ~fed' PROVE ServersAgree'
  <2>1. ~FwDead /\ ~FwTickSkipped
    BY <1>2 DEF FwDead, fwVars, FwTickSkipped
  <2>2. CASE FwTick
    <3>1. ~halted /\ ~skipped /\ ~refused /\ loaded
      BY <1>2, <2>2 DEF FwTick
    <3>2. ~fed
      BY <1>2, NTickIs DEF Tick, N!NativeTickUnloaded, N!nativeVars
    <3>3. n_loaded
      BY <3>1, <3>2 DEF SInv, ServersAgree
    <3>4. N!NativeTick
      BY <3>3 DEF Tick, N!NativeTickUnloaded
    <3>. QED BY <1>2, <2>2, <3>1, <3>4, BothTick
  <2>3. CASE FwTickUnloaded
    <3>1. UNCHANGED fwVars /\ ~halted /\ ~refused /\ ~skipped /\ ~loaded
      BY <1>2, <2>3 DEF FwTickUnloaded, fwVars
    <3>2. ~fed
      BY <1>2, NTickIs DEF Tick, N!NativeTickUnloaded, N!nativeVars
    <3>3. ServersAgree /\ ~n_loaded
      BY <3>1, <3>2 DEF SInv, ServersAgree
    <3>4. N!NativeTickUnloaded
      BY <3>3, NTickIs DEF Tick
    <3>. QED BY <3>1, <3>3, <3>4 DEF N!NativeTickUnloaded, N!nativeVars, fwVars, ServersAgree
  <2>. QED BY <2>1, <2>2, <2>3 DEF Tick
<1>3. ServersAgree'
  BY <1>2 DEF ServersAgree
<1>. QED BY <1>1, <1>3 DEF SInv

LEMMA SNext ==
    ASSUME SInv, [ServersNext]_serversVars PROVE SInv'
<1>0. FInv'
  BY FNext DEF SInv
<1>1. CASE UNCHANGED serversVars
  BY <1>0, <1>1 DEF SInv, ServersAgree, serversVars, fwVars, nVars
<1>2. ASSUME NEW u \in Uploads, Deploy(u) PROVE SInv'
  BY <1>0, <1>2, SDeploy
<1>3. ASSUME NEW u \in Uploads, Reject(u) PROVE SInv'
  BY <1>0, <1>3 DEF Reject, FwReject, FwDead, N!NativeReject, N!nativeVars, fwVars,
                     SInv, ServersAgree
<1>4. CASE Tick
  BY <1>0, <1>4, STick
<1>5. CASE Debug
  <2>1. FwDebug \/ FwDead
    BY <1>5 DEF Debug
  <2>2. CASE FwDebug
    BY <1>0, <1>5, <2>2 DEF Debug, FwDebug, N!NativeDebug, SInv, ServersAgree
  <2>3. CASE FwDead
    BY <1>0, <1>5, <2>3 DEF Debug, FwDead, fwVars, N!NativeDebug, SInv, ServersAgree
  <2>. QED BY <2>1, <2>2, <2>3
<1>6. CASE GetPubsub
  BY <1>0, <1>6 DEF GetPubsub, FwGetPubsub, FwDead, fwVars, nVars, SInv, ServersAgree
<1>. QED BY <1>1, <1>2, <1>3, <1>4, <1>5, <1>6 DEF ServersNext

(* The two servers answer alike while the board is up, nothing was dropped *)
(* and no program has read a topic with a value (lib.rs:3, lib.rs:141      *)
(* against dag_handler.rs:129).                                            *)
THEOREM DagServersAgree == ServersSpec => []ServersAgree
<1>1. ServersInit => SInv
  BY SInit
<1>2. SInv /\ [ServersNext]_serversVars => SInv'
  BY SNext
<1>3. SInv => ServersAgree
  BY DEF SInv
<1>. QED BY <1>1, <1>2, <1>3, PTL DEF ServersSpec

-------------------------------------------------------------------------------
(* The editor: sets of numbers.                                            *)

\* The least number of a set.
LEMMA LeastOf ==
    ASSUME NEW T \in SUBSET Nat, T # {}
    PROVE  Min(T) \in T
<1>1. \E x \in T : \A y \in T : x <= y
  BY LeastNumber
<1>. QED BY <1>1 DEF Min

-------------------------------------------------------------------------------
(* Sequences of blocks.                                                    *)

SeqIs(s) == s \in Seq(Range(s))

LEMMA SeqShape ==
    ASSUME NEW s, SeqIs(s)
    PROVE  Len(s) \in Nat /\ DOMAIN s = 1..Len(s)
  BY DEF SeqIs

LEMMA SeqOfAny ==
    ASSUME NEW T, NEW s \in Seq(T)
    PROVE  SeqIs(s)
<1>1. Len(s) \in Nat /\ DOMAIN s = 1..Len(s) /\ s = [i \in 1..Len(s) |-> s[i]]
  OBVIOUS
<1>2. \A i \in 1..Len(s) : s[i] \in Range(s)
  BY <1>1 DEF Range
<1>3. s \in [1..Len(s) -> Range(s)]
  BY <1>1, <1>2
<1>. QED BY <1>1, <1>3 DEF SeqIs

\* retain, block by block.
LEMMA WithoutTurns ==
    ASSUME NEW bs, Len(bs) \in Nat, NEW id
    PROVE  \E kept : /\ kept[0] = << >>
                     /\ \A n \in 1..Len(bs) :
                          kept[n] = IF bs[n].id = id THEN kept[n - 1]
                                    ELSE Append(kept[n - 1], bs[n])
                     /\ Without(bs, id) = kept[Len(bs)]
<1>. DEFINE Turn(g, n) == IF n = 0 THEN << >>
                          ELSE IF bs[n].id = id THEN g[n - 1] ELSE Append(g[n - 1], bs[n])
            T == { k \in Nat : \E g : g = [n \in 0..k |-> Turn(g, n)] }
<1>1. 0 \in T
  <2>. DEFINE g == [n \in 0..0 |-> << >>]
  <2>1. \A n \in 0..0 : g[n] = Turn(g, n)
    OBVIOUS
  <2>2. g = [n \in 0..0 |-> g[n]]
    OBVIOUS
  <2>. HIDE DEF g, Turn
  <2>3. g = [n \in 0..0 |-> Turn(g, n)]
    BY <2>1, <2>2
  <2>. QED BY <2>3
<1>2. ASSUME NEW k \in T PROVE k + 1 \in T
  <2>1. PICK g : g = [n \in 0..k |-> Turn(g, n)]
    OBVIOUS
  <2>. DEFINE h == [n \in 0..(k + 1) |-> IF n <= k THEN g[n] ELSE Turn(g, n)]
  <2>2. ASSUME NEW n \in 0..(k + 1) PROVE h[n] = Turn(h, n)
    <3>1. CASE n = 0
      BY <2>1, <3>1
    <3>2. CASE n # 0
      <4>1. n - 1 \in 0..k /\ n - 1 \in 0..(k + 1) /\ n - 1 <= k
        BY <3>2
      <4>2. h[n - 1] = g[n - 1]
        BY <4>1
      <4>3. Turn(h, n) = Turn(g, n)
        <5>. HIDE DEF h
        <5>. QED BY <4>2
      <4>4. CASE n <= k
        <5>1. n \in 0..k /\ h[n] = g[n]
          BY <4>4
        <5>2. g[n] = Turn(g, n)
          <6>. HIDE DEF Turn
          <6>. QED BY <2>1, <5>1
        <5>. QED BY <4>3, <5>1, <5>2
      <4>5. CASE ~ (n <= k)
        <5>1. h[n] = Turn(g, n)
          <6>. HIDE DEF Turn
          <6>. QED BY <4>5
        <5>. QED BY <4>3, <5>1
      <4>. QED BY <4>4, <4>5
    <3>. QED BY <3>1, <3>2
  <2>3. h = [n \in 0..(k + 1) |-> h[n]]
    OBVIOUS
  <2>. HIDE DEF h, Turn
  <2>4. h = [n \in 0..(k + 1) |-> Turn(h, n)]
    BY <2>2, <2>3
  <2>5. k + 1 \in Nat
    OBVIOUS
  <2>. QED BY <2>4, <2>5
<1>3. T = Nat
  <2>1. T \in SUBSET Nat
    OBVIOUS
  <2>. HIDE DEF T
  <2>. QED BY <1>1, <1>2, <2>1, AllNumbers
<1>4. \E g : g = [n \in 0..Len(bs) |-> Turn(g, n)]
  <2>1. Len(bs) \in T
    BY <1>3
  <2>. HIDE DEF Turn
  <2>. QED BY <2>1
<1>. DEFINE kept == CHOOSE g : g = [n \in 0..Len(bs) |-> Turn(g, n)]
<1>5. kept = [n \in 0..Len(bs) |-> Turn(kept, n)]
  <2>. HIDE DEF Turn
  <2>. QED BY <1>4
<1>6. Without(bs, id) = kept[Len(bs)]
  BY DEF Without
<1>. HIDE DEF kept
<1>7. kept[0] = << >>
  BY <1>5
<1>8. ASSUME NEW n \in 1..Len(bs) PROVE kept[n] = Turn(kept, n)
  <2>1. n \in 0..Len(bs)
    OBVIOUS
  <2>. HIDE DEF Turn
  <2>. QED BY <1>5, <2>1
<1>. QED BY <1>6, <1>7, <1>8

\* What is left is some of the blocks, each once.
LEMMA WithoutIs ==
    ASSUME NEW bs, SeqIs(bs), NEW id,
           \A i, j \in DOMAIN bs : bs[i].id = bs[j].id => i = j
    PROVE  /\ SeqIs(Without(bs, id))
           /\ \A i \in DOMAIN Without(bs, id) :
                 \E j \in DOMAIN bs : Without(bs, id)[i] = bs[j]
           /\ \A i, j \in DOMAIN Without(bs, id) :
                 Without(bs, id)[i].id = Without(bs, id)[j].id => i = j
<1>. DEFINE len == Len(bs)
<1>0. len \in Nat /\ DOMAIN bs = 1..len
  BY SeqShape
<1>1. PICK kept : /\ kept[0] = << >>
                  /\ \A n \in 1..len : kept[n] = IF bs[n].id = id THEN kept[n - 1]
                                                 ELSE Append(kept[n - 1], bs[n])
                  /\ Without(bs, id) = kept[len]
  BY <1>0, WithoutTurns
<1>. DEFINE Some(n) == { bs[j] : j \in 1..n }
            Good(n) == /\ kept[n] \in Seq(Some(n))
                       /\ \A i, j \in 1..Len(kept[n]) : kept[n][i].id = kept[n][j].id => i = j
            T == { n \in Nat : n <= len => Good(n) }
<1>2. 0 \in T
  <2>1. Good(0)
    <3>1. << >> \in Seq(Some(0)) /\ Len(<< >>) = 0
      <4>. HIDE DEF Some
      <4>. QED OBVIOUS
    <3>. HIDE DEF Some
    <3>. QED BY <1>1, <3>1
  <2>. QED BY <2>1
<1>3. ASSUME NEW n \in T PROVE n + 1 \in T
  <2>. SUFFICES ASSUME n + 1 <= len PROVE Good(n + 1)
    OBVIOUS
  <2>0. n \in Nat /\ n + 1 \in 1..len /\ n + 1 \in DOMAIN bs
    BY <1>0
  <2>1. Good(n)
    OBVIOUS
  <2>2. kept[n + 1] = IF bs[n + 1].id = id THEN kept[n] ELSE Append(kept[n], bs[n + 1])
    <3>1. (n + 1) - 1 = n
      BY <2>0
    <3>. QED BY <1>1, <2>0, <3>1
  <2>3. Some(n) \subseteq Some(n + 1) /\ bs[n + 1] \in Some(n + 1)
    BY <2>0
  <2>4. kept[n] \in Seq(Some(n + 1))
    <3>. HIDE DEF Some
    <3>. QED BY <2>1, <2>3
  <2>5. CASE bs[n + 1].id = id
    <3>. HIDE DEF Some
    <3>. QED BY <2>1, <2>2, <2>4, <2>5
  <2>6. CASE bs[n + 1].id # id
    <3>1. kept[n + 1] = Append(kept[n], bs[n + 1])
      BY <2>2, <2>6
    <3>. DEFINE k == Len(kept[n])
    <3>2. /\ kept[n + 1] \in Seq(Some(n + 1)) /\ Len(kept[n + 1]) = k + 1 /\ k \in Nat
          /\ kept[n + 1][k + 1] = bs[n + 1]
          /\ \A i \in 1..k : kept[n + 1][i] = kept[n][i]
      <4>. HIDE DEF Some
      <4>. QED BY <2>3, <2>4, <3>1
    <3>3. ASSUME NEW i \in 1..k PROVE kept[n + 1][i].id # bs[n + 1].id
      <4>1. kept[n][i] \in Some(n)
        <5>. HIDE DEF Some
        <5>. QED BY <2>1
      <4>2. PICK j \in 1..n : kept[n][i] = bs[j]
        BY <4>1
      <4>3. j \in DOMAIN bs /\ j # n + 1
        BY <1>0, <2>0
      <4>4. bs[j].id # bs[n + 1].id
        BY <2>0, <4>3
      <4>5. kept[n + 1][i] = bs[j]
        BY <3>2, <4>2
      <4>. QED BY <4>4, <4>5
    <3>. HIDE DEF k, Some
    <3>4. ASSUME NEW i \in 1..(k + 1), NEW j \in 1..(k + 1),
                 kept[n + 1][i].id = kept[n + 1][j].id
          PROVE  i = j
      <4>1. CASE i = k + 1 /\ j # k + 1
        BY <3>2, <3>3, <3>4, <4>1
      <4>2. CASE i # k + 1 /\ j = k + 1
        BY <3>2, <3>3, <3>4, <4>2
      <4>3. CASE i # k + 1 /\ j # k + 1
        <5>1. i \in 1..k /\ j \in 1..k
          BY <3>2, <4>3
        <5>2. kept[n][i].id = kept[n][j].id
          BY <3>2, <3>4, <5>1
        <5>. QED BY <2>1, <5>1, <5>2 DEF k
      <4>4. i = k + 1 /\ j = k + 1 => i = j
        OBVIOUS
      <4>. QED BY <4>1, <4>2, <4>3, <4>4
    <3>. QED BY <3>2, <3>4
  <2>. QED BY <2>5, <2>6
<1>4. T = Nat
  <2>1. T \in SUBSET Nat
    OBVIOUS
  <2>. HIDE DEF T
  <2>. QED BY <1>2, <1>3, <2>1, AllNumbers
<1>5. Good(len)
  <2>1. len \in T
    BY <1>0, <1>4
  <2>. QED BY <1>0, <2>1
<1>. DEFINE w == Without(bs, id)
<1>6. w \in Seq(Some(len)) /\ \A i, j \in 1..Len(w) : w[i].id = w[j].id => i = j
  BY <1>1, <1>5
<1>. HIDE DEF w
<1>7. SeqIs(w) /\ DOMAIN w = 1..Len(w) /\ \A i \in 1..Len(w) : w[i] \in Some(len)
  <2>. HIDE DEF Some
  <2>. QED BY <1>6, SeqOfAny
<1>8. \A i \in DOMAIN w : \E j \in DOMAIN bs : w[i] = bs[j]
  BY <1>0, <1>7
<1>. QED BY <1>6, <1>7, <1>8 DEF w

-------------------------------------------------------------------------------
(* The store.                                                              *)

\* A snapshot after e edits.
Good(s, e) ==
    /\ IsSnapshot(s)
    /\ \E start \in Starts : s.next_id <= start.next_id + e

EditorInv ==
    /\ edits \in 0..MaxEdits
    /\ Good(Snapshot, edits)
    /\ autosave = Snapshot
    /\ \A name \in DOMAIN storage : Good(storage[name], edits)
    /\ selected # 0 => selected \in Ids

LEMMA Bounds ==
    MaxEdits \in Nat /\ \A start \in Starts : start.next_id \in Nat
<1>1. \A start \in Starts : IsSnapshot(start)
  BY EditorAssumption
<1>2. MaxEdits \in Nat
  BY EditorAssumption
<1>. QED BY <1>1, <1>2 DEF IsSnapshot

\* Numbers of edits only grow.
LEMMA StaysGood ==
    ASSUME NEW s, NEW e \in Nat, Good(s, e)
    PROVE  Good(s, e + 1)
<1>1. PICK start \in Starts : s.next_id <= start.next_id + e
  BY DEF Good
<1>2. s.next_id \in Nat /\ start.next_id \in Nat
  BY EditorAssumption DEF Good, IsSnapshot
<1>3. s.next_id <= start.next_id + (e + 1)
  BY <1>1, <1>2
<1>. QED BY <1>1, <1>3 DEF Good

LEMMA BlankGood ==
    ASSUME NEW e \in Nat
    PROVE  Good(Blank, e)
<1>1. Blank \in Starts
  BY DEF Starts
<1>2. IsSnapshot(Blank) /\ Blank.next_id = 1
  BY <1>1, EditorAssumption DEF Blank
<1>3. Blank.next_id <= Blank.next_id + e
  BY <1>2
<1>. QED BY <1>1, <1>2, <1>3 DEF Good

\* Blocks that keep their ids.
LEMMA SameIds ==
    ASSUME NEW e \in Nat, Good(Snapshot, e), NEW bs, SeqIs(bs),
           DOMAIN bs = DOMAIN blocks,
           \A i \in DOMAIN bs : IsBlock(bs[i]) /\ bs[i].id = blocks[i].id
    PROVE  Good([blocks |-> bs, next_id |-> next_id], e)
<1>1. IsSnapshot(Snapshot) /\ \E start \in Starts : next_id <= start.next_id + e
  BY DEF Good, Snapshot
<1>2. IsSnapshot([blocks |-> bs, next_id |-> next_id])
  BY <1>1 DEF IsSnapshot, Snapshot, FreshIn, SeqIs
<1>. QED BY <1>1, <1>2 DEF Good

LEMMA BlocksAre ==
    ASSUME NEW e, Good(Snapshot, e)
    PROVE  /\ SeqIs(blocks) /\ Len(blocks) \in Nat /\ DOMAIN blocks = 1..Len(blocks)
           /\ next_id \in Nat \ {0}
           /\ \A i \in DOMAIN blocks : IsBlock(blocks[i]) /\ blocks[i].id < next_id
           /\ \A i, j \in DOMAIN blocks : blocks[i].id = blocks[j].id => i = j
  BY SeqShape DEF Good, IsSnapshot, FreshIn, Snapshot, SeqIs

LEMMA AtIs ==
    ASSUME NEW id \in Ids
    PROVE  At(id) \in DOMAIN blocks /\ blocks[At(id)].id = id
  BY DEF Ids, At

\* One block, or two, given another text.
LEMMA TextGood ==
    ASSUME NEW b, IsBlock(b), NEW key \in DOMAIN b.text, NEW topic
    PROVE  IsBlock([b EXCEPT !.text[key] = topic]) /\ [b EXCEPT !.text[key] = topic].id = b.id
<1>. DEFINE c == [b EXCEPT !.text[key] = topic]
<1>1. /\ c = [id |-> b.id, type |-> b.type, text |-> [b.text EXCEPT ![key] = topic],
              num |-> b.num]
  BY DEF IsBlock
<1>2. [b.text EXCEPT ![key] = topic]
         = [field \in TextFields(b.type) |-> [b.text EXCEPT ![key] = topic][field]]
  BY DEF IsBlock
<1>. QED BY <1>1, <1>2 DEF IsBlock

LEMMA NumGood ==
    ASSUME NEW b, IsBlock(b), NEW key \in DOMAIN b.num, NEW n \in Int
    PROVE  IsBlock([b EXCEPT !.num[key] = n]) /\ [b EXCEPT !.num[key] = n].id = b.id
<1>. DEFINE c == [b EXCEPT !.num[key] = n]
<1>1. c = [id |-> b.id, type |-> b.type, text |-> b.text, num |-> [b.num EXCEPT ![key] = n]]
  BY DEF IsBlock
<1>2. b.type = "i2c_mux" => [b.num EXCEPT ![key] = n] \in [{"num_channels"} -> Int]
  BY DEF IsBlock
<1>. QED BY <1>1, <1>2 DEF IsBlock

LEMMA RenamedGood ==
    ASSUME NEW b, IsBlock(b), NEW name, HasKey(b, name), NEW topic
    PROVE  IsBlock(Renamed(b, name, topic)) /\ Renamed(b, name, topic).id = b.id
<1>1. KeysFor(b, name) \subseteq Nat /\ KeysFor(b, name) # {}
  BY DEF HasKey, KeysFor, Keys
<1>2. Keys[Min(KeysFor(b, name))] \in DOMAIN b.text
  BY <1>1, LeastOf DEF KeysFor
<1>. QED BY <1>2, TextGood DEF Renamed

LEMMA DefaultGood ==
    ASSUME NEW type \in Palette, NEW id \in Nat \ {0}
    PROVE  IsBlock([id |-> id, type |-> type, text |-> Default(type).text,
                    num |-> Default(type).num])
<1>1. type \in {"constant", "add", "subtract", "negate", "gain", "pwm"}
  BY EditorAssumption
<1>2. type \in BlockTypes /\ type # "i2c_mux"
  BY <1>1 DEF BlockTypes
<1>3. Default(type).text = [field \in TextFields(type) |-> Default(type).text[field]]
  BY <1>1 DEF Default, TextFields
<1>. QED BY <1>2, <1>3 DEF IsBlock

\* What of a project is stored.
LEMMA WithGood ==
    ASSUME NEW e, NEW store, \A name \in DOMAIN store : Good(store[name], e),
           NEW new, NEW s, Good(s, e)
    PROVE  \A name \in DOMAIN With(store, new, s) : Good(With(store, new, s)[name], e)
  BY DEF With

LEMMA EInit == Init => EditorInv
<1>. SUFFICES ASSUME Init PROVE EditorInv
  OBVIOUS
<1>1. autosave \in Starts /\ \A name \in DOMAIN storage : storage[name] \in Starts
  BY DEF Init, Starts, Range
<1>2. ASSUME NEW s \in Starts PROVE Good(s, 0)
  <2>1. IsSnapshot(s) /\ s.next_id \in Nat
    BY EditorAssumption DEF IsSnapshot
  <2>. QED BY <2>1 DEF Good
<1>3. autosave = Snapshot
  <2>1. IsSnapshot(autosave)
    BY <1>1, EditorAssumption
  <2>. QED BY <2>1 DEF Init, Snapshot, IsSnapshot
<1>4. edits = 0 /\ selected = 0
  BY DEF Init
<1>5. 0 \in 0..MaxEdits
  BY Bounds
<1>. QED BY <1>1, <1>2, <1>3, <1>4, <1>5 DEF EditorInv

\* A canvas that an edit has changed, and no project.
LEMMA CanvasChanged ==
    ASSUME EditorInv, Edit, Good(Snapshot', edits'), autosave' = Snapshot',
           UNCHANGED storage, selected' # 0 => selected' \in Ids'
    PROVE  EditorInv'
<1>1. edits \in Nat /\ edits' = edits + 1 /\ edits' \in 0..MaxEdits
  BY Bounds DEF EditorInv, Edit
<1>2. \A name \in DOMAIN storage' : Good(storage'[name], edits')
  BY <1>1, StaysGood DEF EditorInv
<1>. QED BY <1>1, <1>2 DEF EditorInv

\* Projects changed, and the canvas not.
LEMMA ProjectsChanged ==
    ASSUME EditorInv, Edit, UNCHANGED <<canvas, selected, autosave>>,
           \A name \in DOMAIN storage' : Good(storage'[name], edits')
    PROVE  EditorInv'
<1>1. edits \in Nat /\ edits' = edits + 1 /\ edits' \in 0..MaxEdits
  BY Bounds DEF EditorInv, Edit
<1>2. Snapshot' = Snapshot /\ Ids' = Ids
  BY DEF Snapshot, Ids, canvas
<1>3. Good(Snapshot', edits')
  BY <1>1, <1>2, StaysGood DEF EditorInv
<1>. QED BY <1>1, <1>2, <1>3 DEF EditorInv

\* Nothing that the invariant is about, but perhaps the selection.
LEMMA ChoiceChanged ==
    ASSUME EditorInv, UNCHANGED <<canvas, storage, autosave, edits>>,
           selected' # 0 => selected' \in Ids
    PROVE  EditorInv'
<1>1. Snapshot' = Snapshot /\ Ids' = Ids
  BY DEF Snapshot, Ids, canvas
<1>. QED BY <1>1 DEF EditorInv

\* An edit of texts or numbers that keeps the blocks and their ids.
LEMMA BlocksChanged ==
    ASSUME EditorInv, Edit, UNCHANGED <<next_id, storage>>, autosave' = Snapshot',
           selected' \in {0, selected}, SeqIs(blocks'), DOMAIN blocks' = DOMAIN blocks,
           \A i \in DOMAIN blocks : IsBlock(blocks'[i]) /\ blocks'[i].id = blocks[i].id
    PROVE  EditorInv'
<1>1. edits \in Nat /\ edits' = edits + 1
  BY DEF EditorInv, Edit
<1>2. Good(Snapshot, edits')
  BY <1>1, StaysGood DEF EditorInv
<1>3. Good([blocks |-> blocks', next_id |-> next_id], edits')
  BY <1>1, <1>2, SameIds
<1>4. Good(Snapshot', edits')
  BY <1>3 DEF Snapshot
<1>5. Ids' = Ids
  BY DEF Ids
<1>6. selected' # 0 => selected' \in Ids'
  BY <1>5 DEF EditorInv
<1>. QED BY <1>4, <1>6, CanvasChanged

\* A block of the canvas replaced.
LEMMA OneChanged ==
    ASSUME EditorInv, NEW i \in DOMAIN blocks, NEW b, IsBlock(b), b.id = blocks[i].id,
           blocks' = [blocks EXCEPT ![i] = b]
    PROVE  /\ SeqIs(blocks') /\ DOMAIN blocks' = DOMAIN blocks
           /\ \A j \in DOMAIN blocks : IsBlock(blocks'[j]) /\ blocks'[j].id = blocks[j].id
<1>1. SeqIs(blocks) /\ \A j \in DOMAIN blocks : IsBlock(blocks[j])
  BY BlocksAre DEF EditorInv
<1>2. blocks' \in Seq(Range(blocks) \union {b})
  BY <1>1, SeqShape DEF SeqIs
<1>3. SeqIs(blocks')
  BY <1>2, SeqOfAny
<1>. QED BY <1>1, <1>3

LEMMA EPlace ==
    ASSUME EditorInv, NEW type \in Palette, PlaceBlock(type)
    PROVE  EditorInv'
<1>. DEFINE b == [id |-> next_id, type |-> type, text |-> Default(type).text,
                  num |-> Default(type).num]
<1>0. Edit /\ blocks' = Append(blocks, b) /\ next_id' = next_id + 1 /\ selected' = next_id
      /\ UNCHANGED storage /\ autosave' = Snapshot'
  BY DEF PlaceBlock, Bump, Snapshot
<1>1. /\ SeqIs(blocks) /\ Len(blocks) \in Nat /\ DOMAIN blocks = 1..Len(blocks)
      /\ next_id \in Nat \ {0}
      /\ \A i \in DOMAIN blocks : IsBlock(blocks[i]) /\ blocks[i].id < next_id
      /\ \A i, j \in DOMAIN blocks : blocks[i].id = blocks[j].id => i = j
  BY BlocksAre DEF EditorInv
<1>2. IsBlock(b) /\ b.id = next_id
  BY <1>1, DefaultGood
<1>. HIDE DEF b
<1>3. /\ blocks' \in Seq(Range(blocks) \union {b}) /\ DOMAIN blocks' = 1..(Len(blocks) + 1)
      /\ \A i \in 1..Len(blocks) : blocks'[i] = blocks[i]
      /\ blocks'[Len(blocks) + 1] = b
  <2>1. blocks \in Seq(Range(blocks) \union {b})
    BY <1>1, SeqShape DEF SeqIs
  <2>. QED BY <1>0, <2>1
<1>4. SeqIs(blocks')
  BY <1>3, SeqOfAny
<1>5. \A i \in DOMAIN blocks' : i \in 1..Len(blocks) \/ i = Len(blocks) + 1
  BY <1>1, <1>3
<1>6. \A i \in DOMAIN blocks' : IsBlock(blocks'[i]) /\ blocks'[i].id \in Nat
  BY <1>1, <1>2, <1>3, <1>5 DEF IsBlock
<1>7. \A i \in DOMAIN blocks' : blocks'[i].id < next_id'
  BY <1>0, <1>1, <1>2, <1>3, <1>5, <1>6
<1>8. ASSUME NEW i \in DOMAIN blocks', NEW j \in DOMAIN blocks',
             blocks'[i].id = blocks'[j].id
      PROVE  i = j
  <2>1. CASE i \in 1..Len(blocks) /\ j \in 1..Len(blocks)
    BY <1>1, <1>3, <1>8, <2>1
  <2>2. CASE i \in 1..Len(blocks) /\ j = Len(blocks) + 1
    <3>1. blocks[i].id < next_id /\ blocks[i].id = next_id
      BY <1>1, <1>2, <1>3, <1>8, <2>2
    <3>. QED BY <1>1, <3>1
  <2>3. CASE i = Len(blocks) + 1 /\ j \in 1..Len(blocks)
    <3>1. blocks[j].id < next_id /\ blocks[j].id = next_id
      BY <1>1, <1>2, <1>3, <1>8, <2>3
    <3>. QED BY <1>1, <3>1
  <2>. QED BY <1>5, <2>1, <2>2, <2>3
<1>9. IsSnapshot(Snapshot')
  <2>1. next_id' \in Nat \ {0}
    BY <1>0, <1>1
  <2>. QED BY <1>4, <1>6, <1>7, <1>8, <2>1 DEF IsSnapshot, Snapshot, FreshIn, SeqIs
<1>10. \E start \in Starts : next_id' <= start.next_id + edits'
  <2>1. PICK start \in Starts : next_id <= start.next_id + edits
    BY DEF EditorInv, Good, Snapshot
  <2>2. start.next_id \in Nat /\ edits \in Nat /\ edits' = edits + 1
    BY <1>0, Bounds DEF EditorInv, Edit
  <2>. QED BY <1>0, <1>1, <2>1, <2>2
<1>11. Good(Snapshot', edits')
  BY <1>9, <1>10 DEF Good, Snapshot
<1>12. selected' \in Ids'
  <2>1. Len(blocks) + 1 \in DOMAIN blocks'
    BY <1>1, <1>3
  <2>. QED BY <1>0, <1>2, <1>3, <2>1 DEF Ids
<1>. QED BY <1>0, <1>11, <1>12, CanvasChanged

LEMMA EConfigure ==
    ASSUME EditorInv, UpdateConfig
    PROVE  EditorInv'
<1>1. selected \in Ids /\ At(selected) \in DOMAIN blocks
      /\ IsBlock(Block(selected)) /\ Block(selected) = blocks[At(selected)]
  BY AtIs, BlocksAre DEF UpdateConfig, EditorInv, Block
<1>2. PICK b : Configure(b) /\ IsBlock(b) /\ b.id = Block(selected).id
  <2>1. CASE \E k \in DOMAIN Block(selected).text, s \in Texts :
                Configure([Block(selected) EXCEPT !.text[k] = s])
    <3>1. PICK k \in DOMAIN Block(selected).text, s \in Texts :
                Configure([Block(selected) EXCEPT !.text[k] = s])
      BY <2>1
    <3>2. /\ IsBlock([Block(selected) EXCEPT !.text[k] = s])
          /\ [Block(selected) EXCEPT !.text[k] = s].id = Block(selected).id
      BY <1>1, TextGood
    <3>. QED BY <3>1, <3>2
  <2>2. CASE \E k \in DOMAIN Block(selected).num, n \in Numbers :
                Configure([Block(selected) EXCEPT !.num[k] = n])
    <3>1. PICK k \in DOMAIN Block(selected).num, n \in Numbers :
                Configure([Block(selected) EXCEPT !.num[k] = n])
      BY <2>2
    <3>2. n \in Int
      BY EditorAssumption
    <3>3. /\ IsBlock([Block(selected) EXCEPT !.num[k] = n])
          /\ [Block(selected) EXCEPT !.num[k] = n].id = Block(selected).id
      BY <1>1, <3>2, NumGood
    <3>. QED BY <3>1, <3>3
  <2>. QED BY <2>1, <2>2 DEF UpdateConfig
<1>3. Edit /\ UNCHANGED <<next_id, storage>> /\ autosave' = Snapshot' /\ selected' = selected
      /\ blocks' = [blocks EXCEPT ![At(selected)] = b]
  BY <1>2 DEF Configure, Bump, Snapshot, choice
<1>4. /\ SeqIs(blocks') /\ DOMAIN blocks' = DOMAIN blocks
      /\ \A j \in DOMAIN blocks : IsBlock(blocks'[j]) /\ blocks'[j].id = blocks[j].id
  BY <1>1, <1>2, <1>3, OneChanged
<1>. QED BY <1>3, <1>4, BlocksChanged

LEMMA EDeleteEdge ==
    ASSUME EditorInv, DeleteEdge
    PROVE  EditorInv'
<1>1. Edit /\ UNCHANGED <<next_id, storage>> /\ autosave' = Snapshot' /\ selected' = 0
      /\ blocks' = Disconnected(sel_edge)
  BY DEF DeleteEdge, Bump, Snapshot
<1>2. /\ SeqIs(blocks') /\ DOMAIN blocks' = DOMAIN blocks
      /\ \A j \in DOMAIN blocks : IsBlock(blocks'[j]) /\ blocks'[j].id = blocks[j].id
  <2>1. CASE sel_edge \in PortsOf("out")
             /\ HasKey(Block(sel_edge[1]), PortAt(sel_edge, "out").name)
    <3>. DEFINE i == At(sel_edge[1])
                name == PortAt(sel_edge, "out").name
    <3>1. sel_edge[1] \in Ids
      BY <2>1 DEF PortsOf, Ids
    <3>2. i \in DOMAIN blocks /\ IsBlock(blocks[i]) /\ HasKey(blocks[i], name)
      BY <2>1, <3>1, AtIs, BlocksAre DEF EditorInv, Block
    <3>3. blocks' = [blocks EXCEPT ![i] = Renamed(blocks[i], name, NoTopic)]
      BY <1>1, <2>1 DEF Disconnected
    <3>. HIDE DEF i, name
    <3>4. /\ IsBlock(Renamed(blocks[i], name, NoTopic))
          /\ Renamed(blocks[i], name, NoTopic).id = blocks[i].id
      BY <3>2, RenamedGood
    <3>. QED BY <3>2, <3>3, <3>4, OneChanged
  <2>2. CASE ~ (sel_edge \in PortsOf("out")
                /\ HasKey(Block(sel_edge[1]), PortAt(sel_edge, "out").name))
    <3>1. blocks' = blocks
      BY <1>1, <2>2 DEF Disconnected
    <3>. QED BY <3>1, BlocksAre DEF EditorInv
  <2>. QED BY <2>1, <2>2
<1>. QED BY <1>1, <1>2, BlocksChanged

LEMMA EConnect ==
    ASSUME EditorInv, NEW from \in PortsOf("out"), NEW to \in PortsOf("in"),
           Connect(from, to)
    PROVE  EditorInv'
<1>. DEFINE out == PortAt(from, "out").name
            in == PortAt(to, "in").name
            topic == AutoTopic(from[1], from[2])
            f == At(from[1])
            g == At(to[1])
            one == [blocks EXCEPT ![f] = Renamed(blocks[f], out, topic)]
<1>1. /\ Edit /\ UNCHANGED <<next_id, storage>> /\ autosave' = Snapshot' /\ selected' = selected
      /\ from[1] # to[1] /\ HasKey(Block(from[1]), out) /\ HasKey(Block(to[1]), in)
      /\ blocks' = [blocks EXCEPT ![f] = Renamed(@, out, topic), ![g] = Renamed(@, in, topic)]
  BY DEF Connect, Bump, Snapshot, choice
<1>2. from[1] \in Ids /\ to[1] \in Ids
  BY DEF PortsOf, Ids
<1>3. /\ f \in DOMAIN blocks /\ g \in DOMAIN blocks /\ f # g
      /\ IsBlock(blocks[f]) /\ IsBlock(blocks[g])
      /\ HasKey(blocks[f], out) /\ HasKey(blocks[g], in)
  BY <1>1, <1>2, AtIs, BlocksAre DEF EditorInv, Block
<1>. HIDE DEF out, in, topic, f, g
<1>4. /\ IsBlock(Renamed(blocks[f], out, topic))
      /\ Renamed(blocks[f], out, topic).id = blocks[f].id
      /\ IsBlock(Renamed(blocks[g], in, topic))
      /\ Renamed(blocks[g], in, topic).id = blocks[g].id
  BY <1>3, RenamedGood
<1>. DEFINE b == Renamed(blocks[f], out, topic)
            c == Renamed(blocks[g], in, topic)
<1>5. IsBlock(b) /\ b.id = blocks[f].id /\ IsBlock(c) /\ c.id = blocks[g].id
      /\ blocks' = [[blocks EXCEPT ![f] = b] EXCEPT ![g] = c]
  BY <1>1, <1>3, <1>4
<1>. HIDE DEF b, c
<1>6. SeqIs(blocks) /\ \A j \in DOMAIN blocks : IsBlock(blocks[j])
  BY BlocksAre DEF EditorInv
<1>7. blocks' \in Seq(Range(blocks) \union {b, c})
  BY <1>3, <1>5, <1>6, SeqShape DEF SeqIs
<1>8. /\ SeqIs(blocks') /\ DOMAIN blocks' = DOMAIN blocks
      /\ \A j \in DOMAIN blocks : IsBlock(blocks'[j]) /\ blocks'[j].id = blocks[j].id
  BY <1>3, <1>5, <1>6, <1>7, SeqOfAny
<1>. QED BY <1>1, <1>8, BlocksChanged

LEMMA EDeleteSelected ==
    ASSUME EditorInv, DeleteSelected
    PROVE  EditorInv'
<1>. DEFINE left == Without(blocks, selected)
<1>1. /\ Edit /\ UNCHANGED <<next_id, storage>> /\ autosave' = Snapshot' /\ selected' = 0
      /\ blocks' = left
  BY DEF DeleteSelected, Bump, Snapshot
<1>2. /\ SeqIs(blocks) /\ next_id \in Nat \ {0}
      /\ \A i \in DOMAIN blocks : IsBlock(blocks[i]) /\ blocks[i].id < next_id
      /\ \A i, j \in DOMAIN blocks : blocks[i].id = blocks[j].id => i = j
  BY BlocksAre DEF EditorInv
<1>3. /\ SeqIs(left)
      /\ \A i \in DOMAIN left : \E j \in DOMAIN blocks : left[i] = blocks[j]
      /\ \A i, j \in DOMAIN left : left[i].id = left[j].id => i = j
  BY <1>2, WithoutIs
<1>. HIDE DEF left
<1>4. IsSnapshot(Snapshot')
  BY <1>1, <1>2, <1>3 DEF IsSnapshot, Snapshot, FreshIn, SeqIs
<1>5. edits \in Nat /\ edits' = edits + 1
  BY <1>1 DEF EditorInv, Edit
<1>6. \E start \in Starts : next_id <= start.next_id + edits'
  <2>1. Good(Snapshot, edits')
    BY <1>5, StaysGood DEF EditorInv
  <2>. QED BY <2>1 DEF Good, Snapshot
<1>7. Good(Snapshot', edits')
  BY <1>1, <1>4, <1>6 DEF Good, Snapshot
<1>. QED BY <1>1, <1>7, CanvasChanged

\* After an edit that leaves the canvas, what was stored and what is shown are good.
LEMMA GoodSoon ==
    ASSUME EditorInv, Edit
    PROVE  /\ edits' \in Nat /\ Good(Snapshot, edits') /\ Good(autosave, edits')
           /\ \A name \in DOMAIN storage : Good(storage[name], edits')
<1>1. edits \in Nat /\ edits' = edits + 1
  BY DEF EditorInv, Edit
<1>. QED BY <1>1, StaysGood DEF EditorInv

LEMMA ESave ==
    ASSUME EditorInv, NEW name \in Saves, Save(name)
    PROVE  EditorInv'
<1>1. /\ Edit /\ UNCHANGED <<canvas, selected, autosave>>
      /\ storage' = With(storage, name, Snapshot)
  BY DEF Save, choice
<1>2. \A n \in DOMAIN storage' : Good(storage'[n], edits')
  BY <1>1, GoodSoon, WithGood
<1>. QED BY <1>1, <1>2, ProjectsChanged

LEMMA ENew ==
    ASSUME EditorInv, New
    PROVE  EditorInv'
<1>. DEFINE saved == IF project = "" THEN storage ELSE With(storage, project, Snapshot)
<1>1. /\ Edit /\ UNCHANGED <<canvas, selected, autosave>>
      /\ storage' = With(saved, Fresh(saved), Blank)
  BY DEF New, choice
<1>2. \A n \in DOMAIN saved : Good(saved[n], edits')
  BY <1>1, GoodSoon, WithGood
<1>. HIDE DEF saved
<1>3. Good(Blank, edits')
  BY <1>1, GoodSoon, BlankGood
<1>4. \A n \in DOMAIN storage' : Good(storage'[n], edits')
  BY <1>1, <1>2, <1>3, WithGood
<1>. QED BY <1>1, <1>4, ProjectsChanged

\* The canvas is a snapshot that was kept.
LEMMA CanvasLoaded ==
    ASSUME EditorInv, Edit, NEW s, Good(s, edits'), blocks' = s.blocks,
           next_id' = s.next_id, autosave' = Snapshot', selected' = 0, UNCHANGED storage
    PROVE  EditorInv'
<1>1. Snapshot' = s
  BY DEF Good, IsSnapshot, Snapshot
<1>. QED BY <1>1, CanvasChanged

LEMMA ELoad ==
    ASSUME EditorInv, NEW name \in DOMAIN storage, Load(name)
    PROVE  EditorInv'
<1>1. /\ Edit /\ blocks' = storage[name].blocks /\ next_id' = storage[name].next_id
      /\ selected' = 0 /\ UNCHANGED storage /\ autosave' = Snapshot'
  BY DEF Load, Bump, Snapshot
<1>2. Good(storage[name], edits')
  BY <1>1, GoodSoon
<1>. QED BY <1>1, <1>2, CanvasLoaded

LEMMA EReload ==
    ASSUME EditorInv, Reload
    PROVE  EditorInv'
<1>. DEFINE kept == IF autosave.blocks = << >> THEN Blank ELSE autosave
<1>1. /\ Edit /\ blocks' = kept.blocks /\ next_id' = kept.next_id
      /\ selected' = 0 /\ UNCHANGED storage /\ autosave' = Snapshot'
  BY DEF Reload, Bump, Snapshot
<1>2. Good(kept, edits')
  BY <1>1, GoodSoon, BlankGood
<1>. HIDE DEF kept
<1>. QED BY <1>1, <1>2, CanvasLoaded

LEMMA EDeleteProject ==
    ASSUME EditorInv, NEW name \in DOMAIN storage, DeleteProject(name)
    PROVE  EditorInv'
<1>1. /\ Edit /\ UNCHANGED <<canvas, selected, autosave>>
      /\ storage' = [n \in DOMAIN storage \ {name} |-> storage[n]]
  BY DEF DeleteProject, choice
<1>2. \A n \in DOMAIN storage' : Good(storage'[n], edits')
  BY <1>1, GoodSoon
<1>. QED BY <1>1, <1>2, ProjectsChanged

\* Clicks select a block of the canvas or none.
LEMMA EClick ==
    ASSUME EditorInv,
           \/ \E id \in Ids : ClickBlock(id)
           \/ \E e \in Edges : ClickEdge(e)
           \/ ClickCanvas
    PROVE  EditorInv'
<1>1. UNCHANGED <<canvas, storage, autosave, edits>> /\ (selected' # 0 => selected' \in Ids)
  BY DEF ClickBlock, ClickEdge, ClickCanvas, stores
<1>. QED BY <1>1, ChoiceChanged

\* The simulation touches none of it.
LEMMA ERun ==
    ASSUME EditorInv,
           \/ ExternalInput
           \/ Step
           \/ TimerFires
           \/ Reset
           \/ Play
           \/ Pause
           \/ UNCHANGED vars
    PROVE  EditorInv'
<1>1. UNCHANGED <<canvas, storage, autosave, edits, selected>>
  BY DEF ExternalInput, Step, TimerFires, Reset, Play, Pause, vars, stores, choice
<1>2. selected' # 0 => selected' \in Ids
  BY <1>1 DEF EditorInv
<1>. QED BY <1>1, <1>2, ChoiceChanged

LEMMA ENext == EditorInv /\ [Next]_vars => EditorInv'
<1>. SUFFICES ASSUME EditorInv, [Next]_vars PROVE EditorInv'
  OBVIOUS
<1>1. CASE \E type \in Palette : PlaceBlock(type)
  BY <1>1, EPlace
<1>2. CASE UpdateConfig
  BY <1>2, EConfigure
<1>3. CASE (\E id \in Ids : ClickBlock(id)) \/ (\E e \in Edges : ClickEdge(e)) \/ ClickCanvas
  BY <1>3, EClick
<1>4. CASE \E from \in PortsOf("out"), to \in PortsOf("in") : Connect(from, to)
  BY <1>4, EConnect
<1>5. CASE DeleteEdge
  BY <1>5, EDeleteEdge
<1>6. CASE DeleteSelected
  BY <1>6, EDeleteSelected
<1>7. CASE \E name \in Saves : Save(name)
  BY <1>7, ESave
<1>8. CASE New
  BY <1>8, ENew
<1>9. CASE \E name \in DOMAIN storage : Load(name)
  BY <1>9, ELoad
<1>10. CASE \E name \in DOMAIN storage : DeleteProject(name)
  BY <1>10, EDeleteProject
<1>11. CASE Reload
  BY <1>11, EReload
<1>12. CASE \/ ExternalInput \/ Step \/ TimerFires \/ Reset \/ Play \/ Pause
            \/ UNCHANGED vars
  BY <1>12, ERun
<1>. QED BY <1>1, <1>2, <1>3, <1>4, <1>5, <1>6, <1>7, <1>8, <1>9, <1>10, <1>11, <1>12
         DEF Next

LEMMA EditorInvHolds == Spec => []EditorInv
  BY EInit, ENext, PTL DEF Spec

(* Between two handlers the storage holds what is on the canvas, ids are   *)
(* fresh wherever they are kept, and what is selected is there.            *)
THEOREM EditorStoreSound == Spec => []StoreSound
<1>1. EditorInv => StoreSound
  BY DEF EditorInv, Good, IsSnapshot, StoreSound, IdsFresh
<1>. QED BY <1>1, EditorInvHolds, PTL

-------------------------------------------------------------------------------
(* Edges and what they carry.                                              *)

\* The topics of a block's ports.
Topics(b, dir) == { ch.name : ch \in { p \in Range(Ports(b, dir)) : p.kind = "pubsub" } }

\* Where a program has a kind of op.
OpsAt(ops, op, P) ==
    /\ P \subseteq DOMAIN ops
    /\ \A i \in DOMAIN ops : ops[i].op = op <=> i \in P

LEMMA OpsNamed ==
    /\ \A v : Const(v).op = "Const"
    /\ \A name : Subscribe(name).op = "Subscribe" /\ Subscribe(name).name = name
    /\ \A name, a : Publish(name, a).op = "Publish" /\ Publish(name, a).name = name
    /\ \A name, a : Output(name, a).op = "Output"
    /\ \A name : Input(name).op = "Input"
    /\ \A op, a : Unary(op, a).op = op
    /\ \A op, a, c : Binary(op, a, c).op = op
<1>1. \A v : Const(v).op = "Const"
  BY DEF Const
<1>2. \A name : Subscribe(name).op = "Subscribe" /\ Subscribe(name).name = name
  BY DEF Subscribe
<1>3. \A name, a : Publish(name, a).op = "Publish" /\ Publish(name, a).name = name
  BY DEF Publish
<1>4. \A name, a : Output(name, a).op = "Output"
  BY DEF Output
<1>5. \A name : Input(name).op = "Input"
  BY DEF Input
<1>6. \A op, a : Unary(op, a).op = op
  BY DEF Unary
<1>7. \A op, a, c : Binary(op, a, c).op = op
  BY DEF Binary
<1>. QED BY <1>1, <1>2, <1>3, <1>4, <1>5, <1>6, <1>7

LEMMA NamesAt ==
    ASSUME NEW b, NEW O, OpsAt(Lower(b), "Publish", O),
           NEW I, OpsAt(Lower(b), "Subscribe", I)
    PROVE  /\ Published(b) = { Lower(b)[i].name : i \in O }
           /\ Reads(Lower(b)) = { Lower(b)[i].name : i \in I }
  BY DEF OpsAt, Published, Reads

\* declared_channels and lower of a block say the same of its topics, but
\* for those that it reads back.
Agree(b) ==
    /\ Topics(b, "out") = IF b.type = "i2c_mux" THEN {} ELSE Published(b)
    /\ Topics(b, "in") \ Published(b) = Reads(Lower(b)) \ Published(b)

LEMMA ConstantAgrees ==
    ASSUME NEW b, b.type = "constant", b.text.publish_topic # NoTopic
    PROVE  Agree(b)
<1>1. /\ Ports(b, "in") = << >>
      /\ Ports(b, "out") = <<Topic(b.text.publish_topic)>>
      /\ Lower(b) = <<Const(b.num.value), Publish(b.text.publish_topic, 1)>>
  BY DEF Ports, Reconstruct, Lower, ConstantBlock, Channels
<1>2. /\ DOMAIN Lower(b) = 1..2
      /\ Lower(b)[1] = Const(b.num.value) /\ Lower(b)[2] = Publish(b.text.publish_topic, 1)
  BY <1>1
<1>3. /\ Lower(b)[1].op = "Const" /\ Lower(b)[2].op = "Publish"
      /\ Lower(b)[2].name = b.text.publish_topic
  BY <1>2, OpsNamed
<1>4. \A i \in 1..2 : i = 1 \/ i = 2
  OBVIOUS
<1>5. OpsAt(Lower(b), "Publish", {2}) /\ OpsAt(Lower(b), "Subscribe", {})
  BY <1>2, <1>3, <1>4 DEF OpsAt
<1>6. Published(b) = {b.text.publish_topic} /\ Reads(Lower(b)) = {}
  BY <1>3, <1>5, NamesAt
<1>7. Topics(b, "in") = {} /\ Topics(b, "out") = {b.text.publish_topic}
  BY <1>1 DEF Topics, Range, Topic
<1>. QED BY <1>6, <1>7 DEF Agree

LEMMA SilentAgrees ==
    ASSUME NEW b, b.type = "constant", b.text.publish_topic = NoTopic
    PROVE  Agree(b)
<1>1. /\ Ports(b, "in") = << >>
      /\ Ports(b, "out") = << >>
      /\ Lower(b) = <<Const(b.num.value)>>
  BY DEF Ports, Reconstruct, Lower, ConstantBlock, Channels
<1>2. /\ DOMAIN Lower(b) = 1..1
      /\ Lower(b)[1] = Const(b.num.value)
  BY <1>1
<1>3. /\ Lower(b)[1].op = "Const"
  BY <1>2, OpsNamed
<1>4. \A i \in 1..1 : i = 1
  OBVIOUS
<1>5. OpsAt(Lower(b), "Publish", {}) /\ OpsAt(Lower(b), "Subscribe", {})
  BY <1>2, <1>3, <1>4 DEF OpsAt
<1>6. Published(b) = {} /\ Reads(Lower(b)) = {}
  BY <1>3, <1>5, NamesAt
<1>7. Topics(b, "in") = {} /\ Topics(b, "out") = {}
  BY <1>1 DEF Topics, Range
<1>. QED BY <1>6, <1>7 DEF Agree

LEMMA AddAgrees ==
    ASSUME NEW b, b.type = "add"
    PROVE  Agree(b)
<1>1. /\ Ports(b, "in") = <<Topic(b.text.input_a_topic), Topic(b.text.input_b_topic)>>
      /\ Ports(b, "out") = <<Topic(b.text.output_topic)>>
      /\ Lower(b) = <<Subscribe(b.text.input_a_topic), Subscribe(b.text.input_b_topic),
                       Binary("Add", 1, 2), Publish(b.text.output_topic, 3)>>
  BY DEF Ports, Reconstruct, Lower, AddBlock, TwoInputs, Channels
<1>2. /\ DOMAIN Lower(b) = 1..4
      /\ Lower(b)[1] = Subscribe(b.text.input_a_topic)
      /\ Lower(b)[2] = Subscribe(b.text.input_b_topic) /\ Lower(b)[3] = Binary("Add", 1, 2)
      /\ Lower(b)[4] = Publish(b.text.output_topic, 3)
  BY <1>1
<1>3. /\ Lower(b)[1].op = "Subscribe" /\ Lower(b)[2].op = "Subscribe"
      /\ Lower(b)[3].op = "Add" /\ Lower(b)[4].op = "Publish"
      /\ Lower(b)[1].name = b.text.input_a_topic /\ Lower(b)[2].name = b.text.input_b_topic
      /\ Lower(b)[4].name = b.text.output_topic
  BY <1>2, OpsNamed
<1>4. \A i \in 1..4 : i = 1 \/ i = 2 \/ i = 3 \/ i = 4
  OBVIOUS
<1>5. OpsAt(Lower(b), "Publish", {4}) /\ OpsAt(Lower(b), "Subscribe", {1, 2})
  BY <1>2, <1>3, <1>4 DEF OpsAt
<1>6. /\ Published(b) = {b.text.output_topic}
      /\ Reads(Lower(b)) = {b.text.input_a_topic, b.text.input_b_topic}
  BY <1>3, <1>5, NamesAt
<1>7. /\ Topics(b, "in") = {b.text.input_a_topic, b.text.input_b_topic}
      /\ Topics(b, "out") = {b.text.output_topic}
  BY <1>1 DEF Topics, Range, Topic
<1>. QED BY <1>6, <1>7 DEF Agree

LEMMA MultiplyAgrees ==
    ASSUME NEW b, b.type = "multiply"
    PROVE  Agree(b)
<1>1. /\ Ports(b, "in") = <<Topic(b.text.input_a_topic), Topic(b.text.input_b_topic)>>
      /\ Ports(b, "out") = <<Topic(b.text.output_topic)>>
      /\ Lower(b) = <<Subscribe(b.text.input_a_topic), Subscribe(b.text.input_b_topic),
                       Binary("Mul", 1, 2), Publish(b.text.output_topic, 3)>>
  BY DEF Ports, Reconstruct, Lower, MultiplyBlock, TwoInputs, Channels
<1>2. /\ DOMAIN Lower(b) = 1..4
      /\ Lower(b)[1] = Subscribe(b.text.input_a_topic)
      /\ Lower(b)[2] = Subscribe(b.text.input_b_topic) /\ Lower(b)[3] = Binary("Mul", 1, 2)
      /\ Lower(b)[4] = Publish(b.text.output_topic, 3)
  BY <1>1
<1>3. /\ Lower(b)[1].op = "Subscribe" /\ Lower(b)[2].op = "Subscribe"
      /\ Lower(b)[3].op = "Mul" /\ Lower(b)[4].op = "Publish"
      /\ Lower(b)[1].name = b.text.input_a_topic /\ Lower(b)[2].name = b.text.input_b_topic
      /\ Lower(b)[4].name = b.text.output_topic
  BY <1>2, OpsNamed
<1>4. \A i \in 1..4 : i = 1 \/ i = 2 \/ i = 3 \/ i = 4
  OBVIOUS
<1>5. OpsAt(Lower(b), "Publish", {4}) /\ OpsAt(Lower(b), "Subscribe", {1, 2})
  BY <1>2, <1>3, <1>4 DEF OpsAt
<1>6. /\ Published(b) = {b.text.output_topic}
      /\ Reads(Lower(b)) = {b.text.input_a_topic, b.text.input_b_topic}
  BY <1>3, <1>5, NamesAt
<1>7. /\ Topics(b, "in") = {b.text.input_a_topic, b.text.input_b_topic}
      /\ Topics(b, "out") = {b.text.output_topic}
  BY <1>1 DEF Topics, Range, Topic
<1>. QED BY <1>6, <1>7 DEF Agree

LEMMA SubtractAgrees ==
    ASSUME NEW b, b.type = "subtract"
    PROVE  Agree(b)
<1>1. /\ Ports(b, "in") = <<Topic(b.text.input_a_topic), Topic(b.text.input_b_topic)>>
      /\ Ports(b, "out") = <<Topic(b.text.output_topic)>>
      /\ Lower(b) = <<Subscribe(b.text.input_a_topic), Subscribe(b.text.input_b_topic),
                       Binary("Sub", 1, 2), Publish(b.text.output_topic, 3)>>
  BY DEF Ports, Reconstruct, Lower, SubtractBlock, TwoInputs, Channels
<1>2. /\ DOMAIN Lower(b) = 1..4
      /\ Lower(b)[1] = Subscribe(b.text.input_a_topic)
      /\ Lower(b)[2] = Subscribe(b.text.input_b_topic) /\ Lower(b)[3] = Binary("Sub", 1, 2)
      /\ Lower(b)[4] = Publish(b.text.output_topic, 3)
  BY <1>1
<1>3. /\ Lower(b)[1].op = "Subscribe" /\ Lower(b)[2].op = "Subscribe"
      /\ Lower(b)[3].op = "Sub" /\ Lower(b)[4].op = "Publish"
      /\ Lower(b)[1].name = b.text.input_a_topic /\ Lower(b)[2].name = b.text.input_b_topic
      /\ Lower(b)[4].name = b.text.output_topic
  BY <1>2, OpsNamed
<1>4. \A i \in 1..4 : i = 1 \/ i = 2 \/ i = 3 \/ i = 4
  OBVIOUS
<1>5. OpsAt(Lower(b), "Publish", {4}) /\ OpsAt(Lower(b), "Subscribe", {1, 2})
  BY <1>2, <1>3, <1>4 DEF OpsAt
<1>6. /\ Published(b) = {b.text.output_topic}
      /\ Reads(Lower(b)) = {b.text.input_a_topic, b.text.input_b_topic}
  BY <1>3, <1>5, NamesAt
<1>7. /\ Topics(b, "in") = {b.text.input_a_topic, b.text.input_b_topic}
      /\ Topics(b, "out") = {b.text.output_topic}
  BY <1>1 DEF Topics, Range, Topic
<1>. QED BY <1>6, <1>7 DEF Agree

LEMMA ClampAgrees ==
    ASSUME NEW b, b.type = "clamp"
    PROVE  Agree(b)
<1>1. /\ Ports(b, "in") = <<Topic(b.text.input_topic)>>
      /\ Ports(b, "out") = <<Topic(b.text.output_topic)>>
      /\ Lower(b) = <<Subscribe(b.text.input_topic), Const(b.num.min), Const(b.num.max),
                       Publish(b.text.output_topic, 1)>>
  BY DEF Ports, Reconstruct, Lower, ClampBlock, Through, Channels
<1>2. /\ DOMAIN Lower(b) = 1..4
      /\ Lower(b)[1] = Subscribe(b.text.input_topic) /\ Lower(b)[2] = Const(b.num.min)
      /\ Lower(b)[3] = Const(b.num.max) /\ Lower(b)[4] = Publish(b.text.output_topic, 1)
  BY <1>1
<1>3. /\ Lower(b)[1].op = "Subscribe" /\ Lower(b)[2].op = "Const" /\ Lower(b)[3].op = "Const"
      /\ Lower(b)[4].op = "Publish" /\ Lower(b)[1].name = b.text.input_topic
      /\ Lower(b)[4].name = b.text.output_topic
  BY <1>2, OpsNamed
<1>4. \A i \in 1..4 : i = 1 \/ i = 2 \/ i = 3 \/ i = 4
  OBVIOUS
<1>5. OpsAt(Lower(b), "Publish", {4}) /\ OpsAt(Lower(b), "Subscribe", {1})
  BY <1>2, <1>3, <1>4 DEF OpsAt
<1>6. Published(b) = {b.text.output_topic} /\ Reads(Lower(b)) = {b.text.input_topic}
  BY <1>3, <1>5, NamesAt
<1>7. Topics(b, "in") = {b.text.input_topic} /\ Topics(b, "out") = {b.text.output_topic}
  BY <1>1 DEF Topics, Range, Topic
<1>. QED BY <1>6, <1>7 DEF Agree

LEMMA SubscribeAgrees ==
    ASSUME NEW b, b.type = "subscribe"
    PROVE  Agree(b)
<1>1. /\ Ports(b, "in") = <<Topic(b.text.topic)>>
      /\ Ports(b, "out") = << >>
      /\ Lower(b) = <<Subscribe(b.text.topic)>>
  BY DEF Ports, Reconstruct, Lower, SubscribeBlock, Channels
<1>2. /\ DOMAIN Lower(b) = 1..1
      /\ Lower(b)[1] = Subscribe(b.text.topic)
  BY <1>1
<1>3. /\ Lower(b)[1].op = "Subscribe" /\ Lower(b)[1].name = b.text.topic
  BY <1>2, OpsNamed
<1>4. \A i \in 1..1 : i = 1
  OBVIOUS
<1>5. OpsAt(Lower(b), "Publish", {}) /\ OpsAt(Lower(b), "Subscribe", {1})
  BY <1>2, <1>3, <1>4 DEF OpsAt
<1>6. Published(b) = {} /\ Reads(Lower(b)) = {b.text.topic}
  BY <1>3, <1>5, NamesAt
<1>7. Topics(b, "in") = {b.text.topic} /\ Topics(b, "out") = {}
  BY <1>1 DEF Topics, Range, Topic
<1>. QED BY <1>6, <1>7 DEF Agree

LEMMA PublishAgrees ==
    ASSUME NEW b, b.type = "publish"
    PROVE  Agree(b)
<1>1. /\ Ports(b, "in") = <<Topic(b.text.input_topic)>>
      /\ Ports(b, "out") = <<Topic(b.text.output_topic)>>
      /\ Lower(b) = <<Subscribe(b.text.input_topic), Publish(b.text.output_topic, 1)>>
  BY DEF Ports, Reconstruct, Lower, PublishBlock, Through, Channels
<1>2. /\ DOMAIN Lower(b) = 1..2
      /\ Lower(b)[1] = Subscribe(b.text.input_topic)
      /\ Lower(b)[2] = Publish(b.text.output_topic, 1)
  BY <1>1
<1>3. /\ Lower(b)[1].op = "Subscribe" /\ Lower(b)[2].op = "Publish"
      /\ Lower(b)[1].name = b.text.input_topic /\ Lower(b)[2].name = b.text.output_topic
  BY <1>2, OpsNamed
<1>4. \A i \in 1..2 : i = 1 \/ i = 2
  OBVIOUS
<1>5. OpsAt(Lower(b), "Publish", {2}) /\ OpsAt(Lower(b), "Subscribe", {1})
  BY <1>2, <1>3, <1>4 DEF OpsAt
<1>6. Published(b) = {b.text.output_topic} /\ Reads(Lower(b)) = {b.text.input_topic}
  BY <1>3, <1>5, NamesAt
<1>7. Topics(b, "in") = {b.text.input_topic} /\ Topics(b, "out") = {b.text.output_topic}
  BY <1>1 DEF Topics, Range, Topic
<1>. QED BY <1>6, <1>7 DEF Agree

LEMMA PwmAgrees ==
    ASSUME NEW b, b.type = "pwm"
    PROVE  Agree(b)
<1>1. /\ Ports(b, "in") = << >>
      /\ Ports(b, "out") = <<Hardware(b.text.channel_name)>>
      /\ Lower(b) = <<Const(0), Output(b.text.channel_name, 1)>>
  BY DEF Ports, Reconstruct, Lower, PwmBlock, Channels
<1>2. /\ DOMAIN Lower(b) = 1..2
      /\ Lower(b)[1] = Const(0) /\ Lower(b)[2] = Output(b.text.channel_name, 1)
  BY <1>1
<1>3. /\ Lower(b)[1].op = "Const" /\ Lower(b)[2].op = "Output"
  BY <1>2, OpsNamed
<1>4. \A i \in 1..2 : i = 1 \/ i = 2
  OBVIOUS
<1>5. OpsAt(Lower(b), "Publish", {}) /\ OpsAt(Lower(b), "Subscribe", {})
  BY <1>2, <1>3, <1>4 DEF OpsAt
<1>6. Published(b) = {} /\ Reads(Lower(b)) = {}
  BY <1>3, <1>5, NamesAt
<1>7. Topics(b, "in") = {} /\ Topics(b, "out") = {}
  BY <1>1 DEF Topics, Range, Hardware
<1>. QED BY <1>6, <1>7 DEF Agree

LEMMA AdcAgrees ==
    ASSUME NEW b, b.type = "adc"
    PROVE  Agree(b)
<1>1. /\ Ports(b, "in") = <<Hardware(b.text.channel_name)>>
      /\ Ports(b, "out") = << >>
      /\ Lower(b) = <<Input(b.text.channel_name)>>
  BY DEF Ports, Reconstruct, Lower, AdcBlock, Channels
<1>2. /\ DOMAIN Lower(b) = 1..1
      /\ Lower(b)[1] = Input(b.text.channel_name)
  BY <1>1
<1>3. /\ Lower(b)[1].op = "Input"
  BY <1>2, OpsNamed
<1>4. \A i \in 1..1 : i = 1
  OBVIOUS
<1>5. OpsAt(Lower(b), "Publish", {}) /\ OpsAt(Lower(b), "Subscribe", {})
  BY <1>2, <1>3, <1>4 DEF OpsAt
<1>6. Published(b) = {} /\ Reads(Lower(b)) = {}
  BY <1>3, <1>5, NamesAt
<1>7. Topics(b, "in") = {} /\ Topics(b, "out") = {}
  BY <1>1 DEF Topics, Range, Hardware
<1>. QED BY <1>6, <1>7 DEF Agree

LEMMA NegateAgrees ==
    ASSUME NEW b, b.type = "negate"
    PROVE  Agree(b)
<1>1. /\ Ports(b, "in") = <<Topic(b.text.input_topic)>>
      /\ Ports(b, "out") = <<Topic(b.text.output_topic)>>
      /\ Lower(b) = <<Subscribe(b.text.input_topic), Unary("Neg", 1),
                       Publish(b.text.output_topic, 2)>>
  BY DEF Ports, Reconstruct, Lower, NegateBlock, Through, Channels
<1>2. /\ DOMAIN Lower(b) = 1..3
      /\ Lower(b)[1] = Subscribe(b.text.input_topic) /\ Lower(b)[2] = Unary("Neg", 1)
      /\ Lower(b)[3] = Publish(b.text.output_topic, 2)
  BY <1>1
<1>3. /\ Lower(b)[1].op = "Subscribe" /\ Lower(b)[2].op = "Neg" /\ Lower(b)[3].op = "Publish"
      /\ Lower(b)[1].name = b.text.input_topic /\ Lower(b)[3].name = b.text.output_topic
  BY <1>2, OpsNamed
<1>4. \A i \in 1..3 : i = 1 \/ i = 2 \/ i = 3
  OBVIOUS
<1>5. OpsAt(Lower(b), "Publish", {3}) /\ OpsAt(Lower(b), "Subscribe", {1})
  BY <1>2, <1>3, <1>4 DEF OpsAt
<1>6. Published(b) = {b.text.output_topic} /\ Reads(Lower(b)) = {b.text.input_topic}
  BY <1>3, <1>5, NamesAt
<1>7. Topics(b, "in") = {b.text.input_topic} /\ Topics(b, "out") = {b.text.output_topic}
  BY <1>1 DEF Topics, Range, Topic
<1>. QED BY <1>6, <1>7 DEF Agree

LEMMA MapScaleAgrees ==
    ASSUME NEW b, b.type = "map_scale"
    PROVE  Agree(b)
<1>1. /\ Ports(b, "in") = <<Topic(b.text.input_topic)>>
      /\ Ports(b, "out") = <<Topic(b.text.output_topic)>>
      /\ Lower(b) = <<Subscribe(b.text.input_topic), Const(b.num.in_min), Binary("Sub", 1, 2),
                       Const(Scale(b)), Binary("Mul", 3, 4), Const(b.num.out_min),
                       Binary("Add", 5, 6), Publish(b.text.output_topic, 7)>>
  BY DEF Ports, Reconstruct, Lower, MapScaleBlock, Through, Channels
<1>2. /\ DOMAIN Lower(b) = 1..8
      /\ Lower(b)[1] = Subscribe(b.text.input_topic) /\ Lower(b)[2] = Const(b.num.in_min)
      /\ Lower(b)[3] = Binary("Sub", 1, 2) /\ Lower(b)[4] = Const(Scale(b))
      /\ Lower(b)[5] = Binary("Mul", 3, 4) /\ Lower(b)[6] = Const(b.num.out_min)
      /\ Lower(b)[7] = Binary("Add", 5, 6) /\ Lower(b)[8] = Publish(b.text.output_topic, 7)
  BY <1>1
<1>3. /\ Lower(b)[1].op = "Subscribe" /\ Lower(b)[2].op = "Const" /\ Lower(b)[3].op = "Sub"
      /\ Lower(b)[4].op = "Const" /\ Lower(b)[5].op = "Mul" /\ Lower(b)[6].op = "Const"
      /\ Lower(b)[7].op = "Add" /\ Lower(b)[8].op = "Publish"
      /\ Lower(b)[1].name = b.text.input_topic /\ Lower(b)[8].name = b.text.output_topic
  BY <1>2, OpsNamed
<1>4. \A i \in 1..8 : i = 1 \/ i = 2 \/ i = 3 \/ i = 4 \/ i = 5 \/ i = 6 \/ i = 7 \/ i = 8
  OBVIOUS
<1>5. OpsAt(Lower(b), "Publish", {8}) /\ OpsAt(Lower(b), "Subscribe", {1})
  BY <1>2, <1>3, <1>4 DEF OpsAt
<1>6. Published(b) = {b.text.output_topic} /\ Reads(Lower(b)) = {b.text.input_topic}
  BY <1>3, <1>5, NamesAt
<1>7. Topics(b, "in") = {b.text.input_topic} /\ Topics(b, "out") = {b.text.output_topic}
  BY <1>1 DEF Topics, Range, Topic
<1>. QED BY <1>6, <1>7 DEF Agree

LEMMA LowPassAgrees ==
    ASSUME NEW b, b.type = "lowpass"
    PROVE  Agree(b)
<1>1. /\ Ports(b, "in") = <<Topic(b.text.input_topic)>>
      /\ Ports(b, "out") = <<Topic(b.text.output_topic)>>
      /\ Lower(b) = <<Subscribe(b.text.input_topic), Subscribe(b.text.output_topic),
                       Const(Clip(b.num.alpha, 0, 1)), Const(1 - Clip(b.num.alpha, 0, 1)),
                       Binary("Mul", 3, 1), Binary("Mul", 4, 2), Binary("Add", 5, 6),
                       Publish(b.text.output_topic, 7)>>
  BY DEF Ports, Reconstruct, Lower, LowPassBlock, Through, Channels
<1>2. /\ DOMAIN Lower(b) = 1..8
      /\ Lower(b)[1] = Subscribe(b.text.input_topic)
      /\ Lower(b)[2] = Subscribe(b.text.output_topic)
      /\ Lower(b)[3] = Const(Clip(b.num.alpha, 0, 1))
      /\ Lower(b)[4] = Const(1 - Clip(b.num.alpha, 0, 1))
      /\ Lower(b)[5] = Binary("Mul", 3, 1) /\ Lower(b)[6] = Binary("Mul", 4, 2)
      /\ Lower(b)[7] = Binary("Add", 5, 6) /\ Lower(b)[8] = Publish(b.text.output_topic, 7)
  BY <1>1
<1>3. /\ Lower(b)[1].op = "Subscribe" /\ Lower(b)[2].op = "Subscribe"
      /\ Lower(b)[3].op = "Const" /\ Lower(b)[4].op = "Const" /\ Lower(b)[5].op = "Mul"
      /\ Lower(b)[6].op = "Mul" /\ Lower(b)[7].op = "Add" /\ Lower(b)[8].op = "Publish"
      /\ Lower(b)[1].name = b.text.input_topic /\ Lower(b)[2].name = b.text.output_topic
      /\ Lower(b)[8].name = b.text.output_topic
  BY <1>2, OpsNamed
<1>4. \A i \in 1..8 : i = 1 \/ i = 2 \/ i = 3 \/ i = 4 \/ i = 5 \/ i = 6 \/ i = 7 \/ i = 8
  OBVIOUS
<1>5. OpsAt(Lower(b), "Publish", {8}) /\ OpsAt(Lower(b), "Subscribe", {1, 2})
  BY <1>2, <1>3, <1>4 DEF OpsAt
<1>6. /\ Published(b) = {b.text.output_topic}
      /\ Reads(Lower(b)) = {b.text.input_topic, b.text.output_topic}
  BY <1>3, <1>5, NamesAt
<1>7. Topics(b, "in") = {b.text.input_topic} /\ Topics(b, "out") = {b.text.output_topic}
  BY <1>1 DEF Topics, Range, Topic
<1>. QED BY <1>6, <1>7 DEF Agree

LEMMA SimpleGainAgrees ==
    ASSUME NEW b, b.type = "gain"
    PROVE  Agree(b)
<1>1. /\ Ports(b, "in") = <<Topic(b.text.input_topic)>>
      /\ Ports(b, "out") = <<Topic(b.text.output_topic)>>
      /\ Lower(b) = <<Subscribe(b.text.input_topic), Const(b.num.factor), Binary("Mul", 1, 2),
                       Publish(b.text.output_topic, 3)>>
  BY DEF Ports, Reconstruct, Lower, SimpleGainBlock, Through, Channels
<1>2. /\ DOMAIN Lower(b) = 1..4
      /\ Lower(b)[1] = Subscribe(b.text.input_topic) /\ Lower(b)[2] = Const(b.num.factor)
      /\ Lower(b)[3] = Binary("Mul", 1, 2) /\ Lower(b)[4] = Publish(b.text.output_topic, 3)
  BY <1>1
<1>3. /\ Lower(b)[1].op = "Subscribe" /\ Lower(b)[2].op = "Const" /\ Lower(b)[3].op = "Mul"
      /\ Lower(b)[4].op = "Publish" /\ Lower(b)[1].name = b.text.input_topic
      /\ Lower(b)[4].name = b.text.output_topic
  BY <1>2, OpsNamed
<1>4. \A i \in 1..4 : i = 1 \/ i = 2 \/ i = 3 \/ i = 4
  OBVIOUS
<1>5. OpsAt(Lower(b), "Publish", {4}) /\ OpsAt(Lower(b), "Subscribe", {1})
  BY <1>2, <1>3, <1>4 DEF OpsAt
<1>6. Published(b) = {b.text.output_topic} /\ Reads(Lower(b)) = {b.text.input_topic}
  BY <1>3, <1>5, NamesAt
<1>7. Topics(b, "in") = {b.text.input_topic} /\ Topics(b, "out") = {b.text.output_topic}
  BY <1>1 DEF Topics, Range, Topic
<1>. QED BY <1>6, <1>7 DEF Agree

LEMMA BridgeAgrees ==
    ASSUME NEW b, b.type = "pubsub_bridge", b.num.gain = 1
    PROVE  Agree(b)
<1>1. /\ Ports(b, "in") = <<Topic(b.text.subscribe_topic)>>
      /\ Ports(b, "out") = <<Topic(b.text.publish_topic)>>
      /\ Lower(b) = <<Subscribe(b.text.subscribe_topic), Publish(b.text.publish_topic, 1)>>
  BY DEF Ports, Reconstruct, Lower, PubSubBridgeBlock, Channels
<1>2. /\ DOMAIN Lower(b) = 1..2
      /\ Lower(b)[1] = Subscribe(b.text.subscribe_topic)
      /\ Lower(b)[2] = Publish(b.text.publish_topic, 1)
  BY <1>1
<1>3. /\ Lower(b)[1].op = "Subscribe" /\ Lower(b)[2].op = "Publish"
      /\ Lower(b)[1].name = b.text.subscribe_topic /\ Lower(b)[2].name = b.text.publish_topic
  BY <1>2, OpsNamed
<1>4. \A i \in 1..2 : i = 1 \/ i = 2
  OBVIOUS
<1>5. OpsAt(Lower(b), "Publish", {2}) /\ OpsAt(Lower(b), "Subscribe", {1})
  BY <1>2, <1>3, <1>4 DEF OpsAt
<1>6. Published(b) = {b.text.publish_topic} /\ Reads(Lower(b)) = {b.text.subscribe_topic}
  BY <1>3, <1>5, NamesAt
<1>7. Topics(b, "in") = {b.text.subscribe_topic} /\ Topics(b, "out") = {b.text.publish_topic}
  BY <1>1 DEF Topics, Range, Topic
<1>. QED BY <1>6, <1>7 DEF Agree

LEMMA GainedBridgeAgrees ==
    ASSUME NEW b, b.type = "pubsub_bridge", b.num.gain # 1
    PROVE  Agree(b)
<1>1. /\ Ports(b, "in") = <<Topic(b.text.subscribe_topic)>>
      /\ Ports(b, "out") = <<Topic(b.text.publish_topic)>>
      /\ Lower(b) = <<Subscribe(b.text.subscribe_topic), Const(b.num.gain),
                       Binary("Mul", 1, 2), Publish(b.text.publish_topic, 3)>>
  BY DEF Ports, Reconstruct, Lower, PubSubBridgeBlock, Channels
<1>2. /\ DOMAIN Lower(b) = 1..4
      /\ Lower(b)[1] = Subscribe(b.text.subscribe_topic) /\ Lower(b)[2] = Const(b.num.gain)
      /\ Lower(b)[3] = Binary("Mul", 1, 2) /\ Lower(b)[4] = Publish(b.text.publish_topic, 3)
  BY <1>1
<1>3. /\ Lower(b)[1].op = "Subscribe" /\ Lower(b)[2].op = "Const" /\ Lower(b)[3].op = "Mul"
      /\ Lower(b)[4].op = "Publish" /\ Lower(b)[1].name = b.text.subscribe_topic
      /\ Lower(b)[4].name = b.text.publish_topic
  BY <1>2, OpsNamed
<1>4. \A i \in 1..4 : i = 1 \/ i = 2 \/ i = 3 \/ i = 4
  OBVIOUS
<1>5. OpsAt(Lower(b), "Publish", {4}) /\ OpsAt(Lower(b), "Subscribe", {1})
  BY <1>2, <1>3, <1>4 DEF OpsAt
<1>6. Published(b) = {b.text.publish_topic} /\ Reads(Lower(b)) = {b.text.subscribe_topic}
  BY <1>3, <1>5, NamesAt
<1>7. Topics(b, "in") = {b.text.subscribe_topic} /\ Topics(b, "out") = {b.text.publish_topic}
  BY <1>1 DEF Topics, Range, Topic
<1>. QED BY <1>6, <1>7 DEF Agree

LEMMA PidAgrees ==
    ASSUME NEW b, b.type = "pid"
    PROVE  Agree(b)
<1>1. /\ Ports(b, "in") = <<Topic(b.text.setpoint_topic), Topic(b.text.feedback_topic)>>
      /\ Ports(b, "out") = <<Topic(b.text.output_topic)>>
      /\ Lower(b) = <<Subscribe(b.text.setpoint_topic), Subscribe(b.text.feedback_topic),
                       Binary("Sub", 1, 2), Const(b.num.kp), Binary("Mul", 3, 4),
                       Const(b.num.ki), Binary("Mul", 3, 6), Const(b.num.kd), Unary("Neg", 3),
                       Binary("Mul", 9, 8), Binary("Add", 5, 7), Binary("Add", 11, 10),
                       Const(b.num.out_min), Const(b.num.out_max), Binary("Sub", 12, 13),
                       Unary("Relu", 15), Binary("Add", 16, 13), Binary("Sub", 17, 14),
                       Unary("Relu", 18), Binary("Sub", 17, 19),
                       Publish(b.text.output_topic, 20)>>
  BY DEF Ports, Reconstruct, Lower, PidBlock, Channels
<1>2. /\ DOMAIN Lower(b) = 1..21
      /\ Lower(b)[1] = Subscribe(b.text.setpoint_topic)
      /\ Lower(b)[2] = Subscribe(b.text.feedback_topic) /\ Lower(b)[3] = Binary("Sub", 1, 2)
      /\ Lower(b)[4] = Const(b.num.kp) /\ Lower(b)[5] = Binary("Mul", 3, 4)
      /\ Lower(b)[6] = Const(b.num.ki) /\ Lower(b)[7] = Binary("Mul", 3, 6)
      /\ Lower(b)[8] = Const(b.num.kd) /\ Lower(b)[9] = Unary("Neg", 3)
      /\ Lower(b)[10] = Binary("Mul", 9, 8) /\ Lower(b)[11] = Binary("Add", 5, 7)
      /\ Lower(b)[12] = Binary("Add", 11, 10) /\ Lower(b)[13] = Const(b.num.out_min)
      /\ Lower(b)[14] = Const(b.num.out_max) /\ Lower(b)[15] = Binary("Sub", 12, 13)
      /\ Lower(b)[16] = Unary("Relu", 15) /\ Lower(b)[17] = Binary("Add", 16, 13)
      /\ Lower(b)[18] = Binary("Sub", 17, 14) /\ Lower(b)[19] = Unary("Relu", 18)
      /\ Lower(b)[20] = Binary("Sub", 17, 19)
      /\ Lower(b)[21] = Publish(b.text.output_topic, 20)
  BY <1>1
<1>3. /\ Lower(b)[1].op = "Subscribe" /\ Lower(b)[2].op = "Subscribe"
      /\ Lower(b)[3].op = "Sub" /\ Lower(b)[4].op = "Const" /\ Lower(b)[5].op = "Mul"
      /\ Lower(b)[6].op = "Const" /\ Lower(b)[7].op = "Mul" /\ Lower(b)[8].op = "Const"
      /\ Lower(b)[9].op = "Neg" /\ Lower(b)[10].op = "Mul" /\ Lower(b)[11].op = "Add"
      /\ Lower(b)[12].op = "Add" /\ Lower(b)[13].op = "Const" /\ Lower(b)[14].op = "Const"
      /\ Lower(b)[15].op = "Sub" /\ Lower(b)[16].op = "Relu" /\ Lower(b)[17].op = "Add"
      /\ Lower(b)[18].op = "Sub" /\ Lower(b)[19].op = "Relu" /\ Lower(b)[20].op = "Sub"
      /\ Lower(b)[21].op = "Publish" /\ Lower(b)[1].name = b.text.setpoint_topic
      /\ Lower(b)[2].name = b.text.feedback_topic /\ Lower(b)[21].name = b.text.output_topic
  BY <1>2, OpsNamed
<1>4. \A i \in 1..21 : i = 1 \/ i = 2 \/ i = 3 \/ i = 4 \/ i = 5 \/ i = 6 \/ i = 7 \/ i = 8
                  \/ i = 9 \/ i = 10 \/ i = 11 \/ i = 12 \/ i = 13 \/ i = 14 \/ i = 15
                  \/ i = 16 \/ i = 17 \/ i = 18 \/ i = 19 \/ i = 20 \/ i = 21
  OBVIOUS
<1>5. OpsAt(Lower(b), "Publish", {21}) /\ OpsAt(Lower(b), "Subscribe", {1, 2})
  BY <1>2, <1>3, <1>4 DEF OpsAt
<1>6. /\ Published(b) = {b.text.output_topic}
      /\ Reads(Lower(b)) = {b.text.setpoint_topic, b.text.feedback_topic}
  BY <1>3, <1>5, NamesAt
<1>7. /\ Topics(b, "in") = {b.text.setpoint_topic, b.text.feedback_topic}
      /\ Topics(b, "out") = {b.text.output_topic}
  BY <1>1 DEF Topics, Range, Topic
<1>. QED BY <1>6, <1>7 DEF Agree

LEMMA PairThen ==
    ASSUME NEW x, NEW y, NEW m \in Nat, NEW t, t = [i \in 1..m |-> t[i]]
    PROVE  /\ DOMAIN (<<x, y>> \o t) = 1..(m + 2)
           /\ (<<x, y>> \o t)[1] = x /\ (<<x, y>> \o t)[2] = y
           /\ \A i \in 3..(m + 2) : (<<x, y>> \o t)[i] = t[i - 2]
<1>. DEFINE S == { t[i] : i \in 1..m } \union {x, y}
<1>1. t \in [1..m -> S] /\ x \in S /\ y \in S
  OBVIOUS
<1>. HIDE DEF S
<1>2. t \in Seq(S) /\ Len(t) = m /\ <<x, y>> \in Seq(S) /\ Len(<<x, y>>) = 2
  BY <1>1
<1>3. <<x, y>> \o t \in Seq(S) /\ Len(<<x, y>> \o t) = m + 2
  BY <1>2
<1>4. DOMAIN (<<x, y>> \o t) = 1..(m + 2)
  BY <1>3
<1>5. (<<x, y>> \o t)[1] = x /\ (<<x, y>> \o t)[2] = y
  BY <1>2
<1>6. \A i \in 3..(m + 2) : (<<x, y>> \o t)[i] = t[i - 2]
  BY <1>2
<1>. QED BY <1>4, <1>5, <1>6

\* A multiplexer reads its selection, and its channels are hardware.
LEMMA MuxAgrees ==
    ASSUME NEW b, IsBlock(b), b.type = "i2c_mux"
    PROVE  Agree(b)
<1>. DEFINE n == b.num.num_channels
            m == IF n < 0 THEN 0 ELSE 2 * n
            Channel(i) == MuxTopic(b.text.bus_topic, i - 1)
            chosen == <<Subscribe(b.text.select_topic), Input(b.text.bus_topic)>>
            Sent(i) == IF i % 2 = 1 THEN Const((i - 1) \div 2)
                       ELSE Publish(Channel(i \div 2), 1)
            sent == [i \in 1..m |-> Sent(i)]
<1>1. n \in Int /\ m \in Nat /\ 1..2 * n = 1..m
  BY DEF IsBlock
<1>. HIDE DEF m
<1>2. /\ Ports(b, "in") = <<Hardware(b.text.bus_topic), Topic(b.text.select_topic)>>
      /\ Ports(b, "out") = [i \in 1..n |-> Hardware(Channel(i))]
      /\ Lower(b) = chosen \o sent
  BY <1>1 DEF Ports, Reconstruct, Lower, I2cMuxBlock, Channels
<1>. HIDE DEF n
<1>3. /\ Topics(b, "in") = {b.text.select_topic}
      /\ Topics(b, "out") = {}
  <2>1. Topics(b, "in") = {b.text.select_topic}
    BY <1>2 DEF Topics, Range, Hardware, Topic
  <2>2. ASSUME NEW p \in Range(Ports(b, "out")) PROVE p.kind # "pubsub"
    <3>1. PICK i \in 1..n : p = Hardware(Channel(i))
      BY <1>2 DEF Range
    <3>2. Hardware(Channel(i)).kind = "hardware"
      BY DEF Hardware
    <3>. QED BY <3>1, <3>2
  <2>. QED BY <2>1, <2>2 DEF Topics
<1>4. /\ Len(chosen) = 2 /\ chosen[1].op = "Subscribe" /\ chosen[2].op = "Input"
      /\ chosen[1].name = b.text.select_topic
      /\ \A i \in 1..m : sent[i].op # "Subscribe"
  BY DEF Subscribe, Input, Const, Publish
<1>5. /\ DOMAIN (chosen \o sent) = 1..(m + 2)
      /\ (chosen \o sent)[1] = chosen[1] /\ (chosen \o sent)[2] = chosen[2]
      /\ \A i \in 3..(m + 2) : (chosen \o sent)[i] = sent[i - 2]
  <2>. DEFINE x == Subscribe(b.text.select_topic)
              y == Input(b.text.bus_topic)
  <2>1. sent = [i \in 1..m |-> sent[i]] /\ chosen = <<x, y>>
        /\ x = chosen[1] /\ y = chosen[2]
    OBVIOUS
  <2>. HIDE DEF chosen, sent, x, y
  <2>2. /\ DOMAIN (<<x, y>> \o sent) = 1..(m + 2)
        /\ (<<x, y>> \o sent)[1] = x /\ (<<x, y>> \o sent)[2] = y
        /\ \A i \in 3..(m + 2) : (<<x, y>> \o sent)[i] = sent[i - 2]
    BY <1>1, <2>1, PairThen
  <2>. QED BY <2>1, <2>2
<1>. HIDE DEF chosen, sent
<1>6. OpsAt(Lower(b), "Subscribe", {1})
  <2>1. DOMAIN Lower(b) = 1..(m + 2) /\ Lower(b)[1].op = "Subscribe"
        /\ Lower(b)[2].op # "Subscribe"
    BY <1>2, <1>4, <1>5
  <2>2. ASSUME NEW i \in 3..(m + 2) PROVE Lower(b)[i].op # "Subscribe"
    <3>1. i - 2 \in 1..m
      BY <1>1
    <3>. QED BY <1>2, <1>4, <1>5, <3>1
  <2>3. \A i \in 1..(m + 2) : i = 1 \/ i = 2 \/ i \in 3..(m + 2)
    BY <1>1
  <2>4. 1 \in 1..(m + 2)
    BY <1>1
  <2>. QED BY <2>1, <2>2, <2>3, <2>4 DEF OpsAt
<1>7. Reads(Lower(b)) = {b.text.select_topic}
  <2>1. Reads(Lower(b)) = { Lower(b)[i].name : i \in {1} }
    BY <1>6 DEF OpsAt, Reads
  <2>2. Lower(b)[1].name = b.text.select_topic
    BY <1>2, <1>4, <1>5
  <2>. QED BY <2>1, <2>2
<1>. QED BY <1>3, <1>7 DEF Agree

LEMMA BlocksAgree ==
    ASSUME NEW b, IsBlock(b)
    PROVE  Agree(b)
<1>1. b.type \in BlockTypes
  BY DEF IsBlock
<1>2. CASE b.type \in {"constant", "pubsub_bridge"}
  BY <1>2, ConstantAgrees, SilentAgrees, BridgeAgrees, GainedBridgeAgrees
<1>3. CASE b.type \in {"add", "multiply", "subtract", "subscribe", "publish", "pwm", "adc"}
  BY <1>3, AddAgrees, MultiplyAgrees, SubtractAgrees, SubscribeAgrees, PublishAgrees,
     PwmAgrees, AdcAgrees
<1>4. CASE b.type \in {"clamp", "negate", "map_scale", "lowpass", "gain", "pid"}
  BY <1>4, ClampAgrees, NegateAgrees, MapScaleAgrees, LowPassAgrees, SimpleGainAgrees,
     PidAgrees
<1>5. CASE b.type = "i2c_mux"
  BY <1>5, MuxAgrees
<1>. QED BY <1>1, <1>2, <1>3, <1>4, <1>5 DEF BlockTypes

(* A drawn edge carries values and no value goes where no edge is drawn,   *)
(* whatever has been placed, wired and typed.                              *)
THEOREM EditorEdgesCarry == Spec => []EdgesCarry
<1>1. ASSUME EditorInv PROVE EdgesCarry
  <2>. SUFFICES ASSUME NEW i \in DOMAIN blocks, NEW j \in DOMAIN blocks
                PROVE  Drawn(blocks[i], blocks[j]) \ Published(blocks[j])
                          = Flows(blocks[i], blocks[j])
    BY DEF EdgesCarry
  <2>. DEFINE b == blocks[i]
              c == blocks[j]
  <2>1. Agree(b) /\ Agree(c)
    BY <1>1, BlocksAre, BlocksAgree DEF EditorInv
  <2>. HIDE DEF b, c
  <2>2. Drawn(b, c) = Topics(b, "out") \intersect Topics(c, "in")
    BY DEF Drawn, Topics
  <2>3. /\ Topics(b, "out") = IF b.type = "i2c_mux" THEN {} ELSE Published(b)
        /\ Topics(c, "in") \ Published(c) = Reads(Lower(c)) \ Published(c)
    BY <2>1 DEF Agree
  <2>4. Flows(b, c) = IF b.type = "i2c_mux" THEN {}
                      ELSE (Published(b) \intersect Reads(Lower(c))) \ Published(c)
    BY DEF Flows
  <2>5. Drawn(b, c) \ Published(c) = Flows(b, c)
    BY <2>2, <2>3, <2>4
  <2>. QED BY <2>5 DEF b, c
<1>. QED BY <1>1, EditorInvHolds, PTL

-------------------------------------------------------------------------------
(* Wires.                                                                  *)

\* Under which keys of a type's configuration its ports have their names.
InKeys(type) ==
    CASE type \in {"constant", "pwm"} -> << >>
      [] type = "subscribe" -> <<"topic">>
      [] type = "adc" -> <<"channel_name">>
      [] type \in {"gain", "clamp", "negate", "map_scale", "lowpass", "publish"} ->
            <<"input_topic">>
      [] type \in {"add", "multiply", "subtract"} -> <<"input_a_topic", "input_b_topic">>
      [] type = "pid" -> <<"setpoint_topic", "feedback_topic">>
      [] type = "pubsub_bridge" -> <<"subscribe_topic">>

OutKeys(type) ==
    CASE type = "constant" -> <<"publish_topic">>
      [] type = "pwm" -> <<"channel_name">>
      [] type \in {"subscribe", "adc"} -> << >>
      [] type \in {"gain", "clamp", "negate", "map_scale", "lowpass", "publish", "add",
                   "multiply", "subtract", "pid"} -> <<"output_topic">>
      [] type = "pubsub_bridge" -> <<"publish_topic">>

KeysOf(type, dir) == IF dir = "in" THEN InKeys(type) ELSE OutKeys(type)

Dirs == {"in", "out"}
Wirable == BlockTypes \ {"i2c_mux"}

\* The ports of b are named by its texts.
Keyed(b, dir) ==
    LET ks == KeysOf(b.type, dir)
    IN  /\ Len(Ports(b, dir)) = Len(ks)
        /\ \A k \in 1..Len(ks) : Ports(b, dir)[k].name = b.text[ks[k]]

Silent(b) == b.type = "constant" /\ b.text.publish_topic = NoTopic

LEMMA NamesOfPorts ==
    /\ \A name : Topic(name).name = name
    /\ \A name : Hardware(name).name = name
  BY DEF Topic, Hardware

LEMMA ConstantKeyed ==
    ASSUME NEW b, b.type = "constant", b.text.publish_topic # NoTopic
    PROVE  \A dir \in Dirs : Keyed(b, dir)
<1>1. /\ Ports(b, "in") = << >>
      /\ Ports(b, "out") = <<Topic(b.text.publish_topic)>>
  BY DEF Ports, Reconstruct, ConstantBlock, Channels
<1>2. KeysOf(b.type, "in") = << >>
  BY DEF KeysOf, InKeys
<1>3. KeysOf(b.type, "out") = <<"publish_topic">>
  BY DEF KeysOf, OutKeys
<1>4. Keyed(b, "in")
  BY <1>1, <1>2, NamesOfPorts DEF Keyed
<1>5. Keyed(b, "out")
  BY <1>1, <1>3, NamesOfPorts DEF Keyed
<1>. QED BY <1>4, <1>5 DEF Dirs

LEMMA PwmKeyed ==
    ASSUME NEW b, b.type = "pwm"
    PROVE  \A dir \in Dirs : Keyed(b, dir)
<1>1. /\ Ports(b, "in") = << >>
      /\ Ports(b, "out") = <<Hardware(b.text.channel_name)>>
  BY DEF Ports, Reconstruct, PwmBlock, Channels
<1>2. KeysOf(b.type, "in") = << >>
  BY DEF KeysOf, InKeys
<1>3. KeysOf(b.type, "out") = <<"channel_name">>
  BY DEF KeysOf, OutKeys
<1>4. Keyed(b, "in")
  BY <1>1, <1>2, NamesOfPorts DEF Keyed
<1>5. Keyed(b, "out")
  BY <1>1, <1>3, NamesOfPorts DEF Keyed
<1>. QED BY <1>4, <1>5 DEF Dirs

LEMMA SubscribeKeyed ==
    ASSUME NEW b, b.type = "subscribe"
    PROVE  \A dir \in Dirs : Keyed(b, dir)
<1>1. /\ Ports(b, "in") = <<Topic(b.text.topic)>>
      /\ Ports(b, "out") = << >>
  BY DEF Ports, Reconstruct, SubscribeBlock, Channels
<1>2. KeysOf(b.type, "in") = <<"topic">>
  BY DEF KeysOf, InKeys
<1>3. KeysOf(b.type, "out") = << >>
  BY DEF KeysOf, OutKeys
<1>4. Keyed(b, "in")
  BY <1>1, <1>2, NamesOfPorts DEF Keyed
<1>5. Keyed(b, "out")
  BY <1>1, <1>3, NamesOfPorts DEF Keyed
<1>. QED BY <1>4, <1>5 DEF Dirs

LEMMA AdcKeyed ==
    ASSUME NEW b, b.type = "adc"
    PROVE  \A dir \in Dirs : Keyed(b, dir)
<1>1. /\ Ports(b, "in") = <<Hardware(b.text.channel_name)>>
      /\ Ports(b, "out") = << >>
  BY DEF Ports, Reconstruct, AdcBlock, Channels
<1>2. KeysOf(b.type, "in") = <<"channel_name">>
  BY DEF KeysOf, InKeys
<1>3. KeysOf(b.type, "out") = << >>
  BY DEF KeysOf, OutKeys
<1>4. Keyed(b, "in")
  BY <1>1, <1>2, NamesOfPorts DEF Keyed
<1>5. Keyed(b, "out")
  BY <1>1, <1>3, NamesOfPorts DEF Keyed
<1>. QED BY <1>4, <1>5 DEF Dirs

LEMMA SimpleGainKeyed ==
    ASSUME NEW b, b.type = "gain"
    PROVE  \A dir \in Dirs : Keyed(b, dir)
<1>1. /\ Ports(b, "in") = <<Topic(b.text.input_topic)>>
      /\ Ports(b, "out") = <<Topic(b.text.output_topic)>>
  BY DEF Ports, Reconstruct, SimpleGainBlock, Through, Channels
<1>2. KeysOf(b.type, "in") = <<"input_topic">>
  BY DEF KeysOf, InKeys
<1>3. KeysOf(b.type, "out") = <<"output_topic">>
  BY DEF KeysOf, OutKeys
<1>4. Keyed(b, "in")
  BY <1>1, <1>2, NamesOfPorts DEF Keyed
<1>5. Keyed(b, "out")
  BY <1>1, <1>3, NamesOfPorts DEF Keyed
<1>. QED BY <1>4, <1>5 DEF Dirs

LEMMA ClampKeyed ==
    ASSUME NEW b, b.type = "clamp"
    PROVE  \A dir \in Dirs : Keyed(b, dir)
<1>1. /\ Ports(b, "in") = <<Topic(b.text.input_topic)>>
      /\ Ports(b, "out") = <<Topic(b.text.output_topic)>>
  BY DEF Ports, Reconstruct, ClampBlock, Through, Channels
<1>2. KeysOf(b.type, "in") = <<"input_topic">>
  BY DEF KeysOf, InKeys
<1>3. KeysOf(b.type, "out") = <<"output_topic">>
  BY DEF KeysOf, OutKeys
<1>4. Keyed(b, "in")
  BY <1>1, <1>2, NamesOfPorts DEF Keyed
<1>5. Keyed(b, "out")
  BY <1>1, <1>3, NamesOfPorts DEF Keyed
<1>. QED BY <1>4, <1>5 DEF Dirs

LEMMA NegateKeyed ==
    ASSUME NEW b, b.type = "negate"
    PROVE  \A dir \in Dirs : Keyed(b, dir)
<1>1. /\ Ports(b, "in") = <<Topic(b.text.input_topic)>>
      /\ Ports(b, "out") = <<Topic(b.text.output_topic)>>
  BY DEF Ports, Reconstruct, NegateBlock, Through, Channels
<1>2. KeysOf(b.type, "in") = <<"input_topic">>
  BY DEF KeysOf, InKeys
<1>3. KeysOf(b.type, "out") = <<"output_topic">>
  BY DEF KeysOf, OutKeys
<1>4. Keyed(b, "in")
  BY <1>1, <1>2, NamesOfPorts DEF Keyed
<1>5. Keyed(b, "out")
  BY <1>1, <1>3, NamesOfPorts DEF Keyed
<1>. QED BY <1>4, <1>5 DEF Dirs

LEMMA MapScaleKeyed ==
    ASSUME NEW b, b.type = "map_scale"
    PROVE  \A dir \in Dirs : Keyed(b, dir)
<1>1. /\ Ports(b, "in") = <<Topic(b.text.input_topic)>>
      /\ Ports(b, "out") = <<Topic(b.text.output_topic)>>
  BY DEF Ports, Reconstruct, MapScaleBlock, Through, Channels
<1>2. KeysOf(b.type, "in") = <<"input_topic">>
  BY DEF KeysOf, InKeys
<1>3. KeysOf(b.type, "out") = <<"output_topic">>
  BY DEF KeysOf, OutKeys
<1>4. Keyed(b, "in")
  BY <1>1, <1>2, NamesOfPorts DEF Keyed
<1>5. Keyed(b, "out")
  BY <1>1, <1>3, NamesOfPorts DEF Keyed
<1>. QED BY <1>4, <1>5 DEF Dirs

LEMMA LowPassKeyed ==
    ASSUME NEW b, b.type = "lowpass"
    PROVE  \A dir \in Dirs : Keyed(b, dir)
<1>1. /\ Ports(b, "in") = <<Topic(b.text.input_topic)>>
      /\ Ports(b, "out") = <<Topic(b.text.output_topic)>>
  BY DEF Ports, Reconstruct, LowPassBlock, Through, Channels
<1>2. KeysOf(b.type, "in") = <<"input_topic">>
  BY DEF KeysOf, InKeys
<1>3. KeysOf(b.type, "out") = <<"output_topic">>
  BY DEF KeysOf, OutKeys
<1>4. Keyed(b, "in")
  BY <1>1, <1>2, NamesOfPorts DEF Keyed
<1>5. Keyed(b, "out")
  BY <1>1, <1>3, NamesOfPorts DEF Keyed
<1>. QED BY <1>4, <1>5 DEF Dirs

LEMMA PublishKeyed ==
    ASSUME NEW b, b.type = "publish"
    PROVE  \A dir \in Dirs : Keyed(b, dir)
<1>1. /\ Ports(b, "in") = <<Topic(b.text.input_topic)>>
      /\ Ports(b, "out") = <<Topic(b.text.output_topic)>>
  BY DEF Ports, Reconstruct, PublishBlock, Through, Channels
<1>2. KeysOf(b.type, "in") = <<"input_topic">>
  BY DEF KeysOf, InKeys
<1>3. KeysOf(b.type, "out") = <<"output_topic">>
  BY DEF KeysOf, OutKeys
<1>4. Keyed(b, "in")
  BY <1>1, <1>2, NamesOfPorts DEF Keyed
<1>5. Keyed(b, "out")
  BY <1>1, <1>3, NamesOfPorts DEF Keyed
<1>. QED BY <1>4, <1>5 DEF Dirs

LEMMA AddKeyed ==
    ASSUME NEW b, b.type = "add"
    PROVE  \A dir \in Dirs : Keyed(b, dir)
<1>1. /\ Ports(b, "in") = <<Topic(b.text.input_a_topic), Topic(b.text.input_b_topic)>>
      /\ Ports(b, "out") = <<Topic(b.text.output_topic)>>
  BY DEF Ports, Reconstruct, AddBlock, TwoInputs, Channels
<1>2. KeysOf(b.type, "in") = <<"input_a_topic", "input_b_topic">>
  BY DEF KeysOf, InKeys
<1>3. KeysOf(b.type, "out") = <<"output_topic">>
  BY DEF KeysOf, OutKeys
<1>4. Keyed(b, "in")
  BY <1>1, <1>2, NamesOfPorts DEF Keyed
<1>5. Keyed(b, "out")
  BY <1>1, <1>3, NamesOfPorts DEF Keyed
<1>. QED BY <1>4, <1>5 DEF Dirs

LEMMA MultiplyKeyed ==
    ASSUME NEW b, b.type = "multiply"
    PROVE  \A dir \in Dirs : Keyed(b, dir)
<1>1. /\ Ports(b, "in") = <<Topic(b.text.input_a_topic), Topic(b.text.input_b_topic)>>
      /\ Ports(b, "out") = <<Topic(b.text.output_topic)>>
  BY DEF Ports, Reconstruct, MultiplyBlock, TwoInputs, Channels
<1>2. KeysOf(b.type, "in") = <<"input_a_topic", "input_b_topic">>
  BY DEF KeysOf, InKeys
<1>3. KeysOf(b.type, "out") = <<"output_topic">>
  BY DEF KeysOf, OutKeys
<1>4. Keyed(b, "in")
  BY <1>1, <1>2, NamesOfPorts DEF Keyed
<1>5. Keyed(b, "out")
  BY <1>1, <1>3, NamesOfPorts DEF Keyed
<1>. QED BY <1>4, <1>5 DEF Dirs

LEMMA SubtractKeyed ==
    ASSUME NEW b, b.type = "subtract"
    PROVE  \A dir \in Dirs : Keyed(b, dir)
<1>1. /\ Ports(b, "in") = <<Topic(b.text.input_a_topic), Topic(b.text.input_b_topic)>>
      /\ Ports(b, "out") = <<Topic(b.text.output_topic)>>
  BY DEF Ports, Reconstruct, SubtractBlock, TwoInputs, Channels
<1>2. KeysOf(b.type, "in") = <<"input_a_topic", "input_b_topic">>
  BY DEF KeysOf, InKeys
<1>3. KeysOf(b.type, "out") = <<"output_topic">>
  BY DEF KeysOf, OutKeys
<1>4. Keyed(b, "in")
  BY <1>1, <1>2, NamesOfPorts DEF Keyed
<1>5. Keyed(b, "out")
  BY <1>1, <1>3, NamesOfPorts DEF Keyed
<1>. QED BY <1>4, <1>5 DEF Dirs

LEMMA PidKeyed ==
    ASSUME NEW b, b.type = "pid"
    PROVE  \A dir \in Dirs : Keyed(b, dir)
<1>1. /\ Ports(b, "in") = <<Topic(b.text.setpoint_topic), Topic(b.text.feedback_topic)>>
      /\ Ports(b, "out") = <<Topic(b.text.output_topic)>>
  BY DEF Ports, Reconstruct, PidBlock, Channels
<1>2. KeysOf(b.type, "in") = <<"setpoint_topic", "feedback_topic">>
  BY DEF KeysOf, InKeys
<1>3. KeysOf(b.type, "out") = <<"output_topic">>
  BY DEF KeysOf, OutKeys
<1>4. Keyed(b, "in")
  BY <1>1, <1>2, NamesOfPorts DEF Keyed
<1>5. Keyed(b, "out")
  BY <1>1, <1>3, NamesOfPorts DEF Keyed
<1>. QED BY <1>4, <1>5 DEF Dirs

LEMMA BridgeKeyed ==
    ASSUME NEW b, b.type = "pubsub_bridge"
    PROVE  \A dir \in Dirs : Keyed(b, dir)
<1>1. /\ Ports(b, "in") = <<Topic(b.text.subscribe_topic)>>
      /\ Ports(b, "out") = <<Topic(b.text.publish_topic)>>
  BY DEF Ports, Reconstruct, PubSubBridgeBlock, Channels
<1>2. KeysOf(b.type, "in") = <<"subscribe_topic">>
  BY DEF KeysOf, InKeys
<1>3. KeysOf(b.type, "out") = <<"publish_topic">>
  BY DEF KeysOf, OutKeys
<1>4. Keyed(b, "in")
  BY <1>1, <1>2, NamesOfPorts DEF Keyed
<1>5. Keyed(b, "out")
  BY <1>1, <1>3, NamesOfPorts DEF Keyed
<1>. QED BY <1>4, <1>5 DEF Dirs

LEMMA SilentPorts ==
    ASSUME NEW b, Silent(b)
    PROVE  \A dir \in Dirs : Len(Ports(b, dir)) = 0
<1>1. Ports(b, "in") = << >> /\ Ports(b, "out") = << >>
  BY DEF Silent, Ports, Reconstruct, ConstantBlock, Channels
<1>. QED BY <1>1 DEF Dirs

LEMMA BlocksKeyed ==
    ASSUME NEW b, b.type \in Wirable, ~ Silent(b), NEW dir \in Dirs
    PROVE  Keyed(b, dir)
<1>1. CASE b.type \in {"constant", "pwm", "subscribe", "adc", "pubsub_bridge"}
  BY <1>1, ConstantKeyed, PwmKeyed, SubscribeKeyed, AdcKeyed, BridgeKeyed DEF Silent
<1>2. CASE b.type \in {"gain", "clamp", "negate", "map_scale", "lowpass", "publish"}
  BY <1>2, SimpleGainKeyed, ClampKeyed, NegateKeyed, MapScaleKeyed, LowPassKeyed,
     PublishKeyed
<1>3. CASE b.type \in {"add", "multiply", "subtract", "pid"}
  BY <1>3, AddKeyed, MultiplyKeyed, SubtractKeyed, PidKeyed
<1>. QED BY <1>1, <1>2, <1>3 DEF Wirable, BlockTypes

\* Each port has a key of its own, and there is at most one output.
KeysApart(type) ==
    /\ Len(OutKeys(type)) \in {0, 1} /\ Len(InKeys(type)) \in Nat
    /\ \A d, e \in Dirs : \A k \in 1..Len(KeysOf(type, d)), m \in 1..Len(KeysOf(type, e)) :
          /\ KeysOf(type, d)[k] \in TextFields(type)
          /\ KeysOf(type, d)[k] = KeysOf(type, e)[m] => d = e /\ k = m

LEMMA KeysAreApart ==
    ASSUME NEW type \in Wirable
    PROVE  KeysApart(type)
<1>1. CASE type = "constant"
  <2>1. InKeys(type) = << >> /\ OutKeys(type) = <<"publish_topic">>
    BY <1>1 DEF InKeys, OutKeys
  <2>2. TextFields(type) = {"publish_topic"}
    BY <1>1 DEF TextFields
  <2>. QED BY <2>1, <2>2 DEF KeysApart, KeysOf, Dirs
<1>2. CASE type = "pwm"
  <2>1. InKeys(type) = << >> /\ OutKeys(type) = <<"channel_name">>
    BY <1>2 DEF InKeys, OutKeys
  <2>2. TextFields(type) = {"channel_name"}
    BY <1>2 DEF TextFields
  <2>. QED BY <2>1, <2>2 DEF KeysApart, KeysOf, Dirs
<1>3. CASE type = "subscribe"
  <2>1. InKeys(type) = <<"topic">> /\ OutKeys(type) = << >>
    BY <1>3 DEF InKeys, OutKeys
  <2>2. TextFields(type) = {"topic"}
    BY <1>3 DEF TextFields
  <2>. QED BY <2>1, <2>2 DEF KeysApart, KeysOf, Dirs
<1>4. CASE type = "adc"
  <2>1. InKeys(type) = <<"channel_name">> /\ OutKeys(type) = << >>
    BY <1>4 DEF InKeys, OutKeys
  <2>2. TextFields(type) = {"channel_name"}
    BY <1>4 DEF TextFields
  <2>. QED BY <2>1, <2>2 DEF KeysApart, KeysOf, Dirs
<1>5. CASE type \in {"gain", "clamp", "negate", "map_scale", "lowpass", "publish"}
  <2>1. InKeys(type) = <<"input_topic">> /\ OutKeys(type) = <<"output_topic">>
    BY <1>5 DEF InKeys, OutKeys
  <2>2. TextFields(type) = {"input_topic", "output_topic"}
    BY <1>5 DEF TextFields
  <2>. QED BY <2>1, <2>2 DEF KeysApart, KeysOf, Dirs
<1>6. CASE type \in {"add", "multiply", "subtract"}
  <2>1. InKeys(type) = <<"input_a_topic", "input_b_topic">> /\ OutKeys(type) = <<"output_topic">>
    BY <1>6 DEF InKeys, OutKeys
  <2>2. TextFields(type) = {"input_a_topic", "input_b_topic", "output_topic"}
    BY <1>6 DEF TextFields
  <2>. QED BY <2>1, <2>2 DEF KeysApart, KeysOf, Dirs
<1>7. CASE type = "pid"
  <2>1. InKeys(type) = <<"setpoint_topic", "feedback_topic">> /\ OutKeys(type) = <<"output_topic">>
    BY <1>7 DEF InKeys, OutKeys
  <2>2. TextFields(type) = {"setpoint_topic", "feedback_topic", "output_topic"}
    BY <1>7 DEF TextFields
  <2>. QED BY <2>1, <2>2 DEF KeysApart, KeysOf, Dirs
<1>8. CASE type = "pubsub_bridge"
  <2>1. InKeys(type) = <<"subscribe_topic">> /\ OutKeys(type) = <<"publish_topic">>
    BY <1>8 DEF InKeys, OutKeys
  <2>2. TextFields(type) = {"subscribe_topic", "publish_topic"}
    BY <1>8 DEF TextFields
  <2>. QED BY <2>1, <2>2 DEF KeysApart, KeysOf, Dirs
<1>. QED BY <1>1, <1>2, <1>3, <1>4, <1>5, <1>6, <1>7, <1>8 DEF Wirable, BlockTypes

\* c has the ports of b, and no other name than for the k-th of one direction.
OnlyRenames(b, c, dir, k, topic) ==
    \A d \in Dirs :
        /\ Len(Ports(c, d)) = Len(Ports(b, d))
        /\ \A m \in 1..Len(Ports(b, d)) :
              Ports(c, d)[m].name = IF d = dir /\ m = k THEN topic
                                    ELSE Ports(b, d)[m].name

\* connect_edge renames the port that was asked for, and no other.
LEMMA RenamesPort ==
    ASSUME NEW b, IsBlock(b), Unambiguous(b), NEW dir \in Dirs,
           NEW k \in 1..Len(Ports(b, dir)), HasKey(b, Ports(b, dir)[k].name),
           NEW topic, topic # NoTopic,
           NEW c, c = Renamed(b, Ports(b, dir)[k].name, topic)
    PROVE  OnlyRenames(b, c, dir, k, topic)
<1>. DEFINE name == Ports(b, dir)[k].name
            key == Keys[Min(KeysFor(b, name))]
<1>1. b.type \in Wirable
  BY DEF IsBlock, Unambiguous, Wirable
<1>2. ~ Silent(b)
  BY SilentPorts
<1>3. \A d \in Dirs : Keyed(b, d)
  BY <1>1, <1>2, BlocksKeyed
<1>4. KeysApart(b.type)
  BY <1>1, KeysAreApart
<1>5. DOMAIN b.text = TextFields(b.type)
  BY DEF IsBlock
<1>6. key \in DOMAIN b.text /\ b.text[key] = name
  <2>1. KeysFor(b, name) \subseteq Nat /\ KeysFor(b, name) # {}
    BY DEF HasKey, KeysFor, Keys
  <2>2. Min(KeysFor(b, name)) \in KeysFor(b, name)
    BY <2>1, LeastOf
  <2>. QED BY <2>2 DEF KeysFor
<1>7. c = [b EXCEPT !.text[key] = topic]
  BY DEF Renamed
<1>. HIDE DEF name, key
<1>8. key = KeysOf(b.type, dir)[k]
  <2>1. k \in 1..Len(KeysOf(b.type, dir)) /\ name = b.text[KeysOf(b.type, dir)[k]]
    BY <1>3 DEF Keyed, name
  <2>2. KeysOf(b.type, dir)[k] \in DOMAIN b.text
    BY <1>4, <1>5, <2>1 DEF KeysApart
  <2>. QED BY <1>6, <2>1, <2>2 DEF Unambiguous
<1>9. c.type = b.type /\ c.text = [b.text EXCEPT ![key] = topic]
  BY <1>7 DEF IsBlock
<1>10. ~ Silent(c)
  <2>. SUFFICES ASSUME b.type = "constant" PROVE c.text.publish_topic # NoTopic
    BY <1>9 DEF Silent
  <2>1. DOMAIN b.text = {"publish_topic"}
    BY <1>5 DEF TextFields
  <2>. QED BY <1>6, <1>9, <2>1
<1>11. \A d \in Dirs : Keyed(c, d)
  BY <1>1, <1>9, <1>10, BlocksKeyed
<1>12. ASSUME NEW d \in Dirs PROVE Len(Ports(c, d)) = Len(Ports(b, d))
  BY <1>3, <1>9, <1>11 DEF Keyed
<1>13. ASSUME NEW d \in Dirs, NEW m \in 1..Len(Ports(b, d))
       PROVE  Ports(c, d)[m].name = IF d = dir /\ m = k THEN topic ELSE Ports(b, d)[m].name
  <2>. DEFINE other == KeysOf(b.type, d)[m]
  <2>1. m \in 1..Len(KeysOf(b.type, d)) /\ Ports(b, d)[m].name = b.text[other]
    BY <1>3 DEF Keyed
  <2>2. Ports(c, d)[m].name = c.text[other]
    BY <1>9, <1>11, <2>1 DEF Keyed
  <2>3. other \in DOMAIN b.text
    BY <1>4, <1>5, <2>1 DEF KeysApart
  <2>4. other = key <=> d = dir /\ m = k
    <3>1. k \in 1..Len(KeysOf(b.type, dir))
      BY <1>3 DEF Keyed
    <3>. QED BY <1>4, <1>8, <2>1, <3>1 DEF KeysApart
  <2>. HIDE DEF other
  <2>5. c.text[other] = IF other = key THEN topic ELSE b.text[other]
    BY <1>9, <2>3
  <2>. QED BY <2>1, <2>2, <2>4, <2>5
<1>. QED BY <1>12, <1>13 DEF OnlyRenames

\* A wire's name is a name.
LEMMA WireNamed ==
    ASSUME EditorInv, Edit, NEW i \in DOMAIN blocks
    PROVE  WireTopic(blocks[i].id, 0) # NoTopic
<1>1. blocks[i].id \in Nat \ {0} /\ blocks[i].id < next_id /\ next_id \in Nat
  BY BlocksAre DEF EditorInv, IsBlock
<1>2. edits \in Nat /\ edits < MaxEdits /\ MaxEdits \in Nat
  BY Bounds DEF EditorInv, Edit
<1>3. PICK start \in Starts : next_id <= start.next_id + edits
  BY DEF EditorInv, Good, Snapshot
<1>4. start.next_id \in Nat
  BY Bounds
<1>5. blocks[i].id \in 1..(start.next_id + MaxEdits)
  BY <1>1, <1>2, <1>3, <1>4
<1>6. \A id \in 1..(start.next_id + MaxEdits) : WireTopic(id, 0) # NoTopic
  BY EditorAssumption
<1>. QED BY <1>5, <1>6

LEMMA PortIs ==
    ASSUME EditorInv, NEW dir, NEW port \in PortsOf(dir)
    PROVE  /\ At(port[1]) \in DOMAIN blocks /\ Block(port[1]) = blocks[At(port[1])]
           /\ blocks[At(port[1])].id = port[1] /\ IsBlock(blocks[At(port[1])])
           /\ port[2] \in 0..Len(Ports(blocks[At(port[1])], dir)) - 1
           /\ port = <<port[1], port[2]>>
<1>1. PICK i \in DOMAIN blocks :
         port \in {blocks[i].id} \X (0..Len(Ports(blocks[i], dir)) - 1)
  BY DEF PortsOf
<1>2. /\ port[1] = blocks[i].id /\ port[2] \in 0..Len(Ports(blocks[i], dir)) - 1
      /\ port = <<port[1], port[2]>>
  BY <1>1
<1>3. At(port[1]) \in DOMAIN blocks /\ blocks[At(port[1])].id = port[1]
  BY <1>2, AtIs DEF Ids
<1>4. At(port[1]) = i /\ IsBlock(blocks[i])
  BY <1>2, <1>3, BlocksAre DEF EditorInv
<1>. QED BY <1>2, <1>3, <1>4 DEF Block

\* An output that can be wired is its block's first.
LEMMA FirstOutput ==
    ASSUME EditorInv, NEW from \in PortsOf("out"), Unambiguous(Block(from[1]))
    PROVE  from[2] = 0
<1>. DEFINE b == Block(from[1])
<1>1. IsBlock(b) /\ from[2] \in 0..Len(Ports(b, "out")) - 1
  BY PortIs
<1>2. b.type \in Wirable
  BY <1>1 DEF IsBlock, Unambiguous, Wirable
<1>. HIDE DEF b
<1>3. "out" \in Dirs /\ KeysOf(b.type, "out") = OutKeys(b.type)
  BY DEF Dirs, KeysOf
<1>4. ~ Silent(b)
  BY <1>1, <1>3, SilentPorts
<1>5. Len(Ports(b, "out")) = Len(OutKeys(b.type))
  BY <1>2, <1>3, <1>4, BlocksKeyed DEF Keyed
<1>6. Len(OutKeys(b.type)) \in {0, 1}
  BY <1>2, KeysAreApart DEF KeysApart
<1>7. \A n \in {0, 1} : \A x \in 0..n - 1 : x = 0
  OBVIOUS
<1>. QED BY <1>1, <1>5, <1>6, <1>7

\* The ports after a wire is drawn: as they were, the two that it joins renamed.
LEMMA WirePorts ==
    ASSUME EditorInv, NEW from \in PortsOf("out"), NEW to \in PortsOf("in"),
           Connect(from, to), Unambiguous(Block(from[1])), Unambiguous(Block(to[1])),
           NEW topic, topic = AutoTopic(from[1], from[2])
    PROVE  /\ \A dir \in Dirs : PortsOf(dir)' = PortsOf(dir)
           /\ \A port \in PortsOf("out") :
                 (PortAt(port, "out").name)' = IF port = from THEN topic
                                               ELSE PortAt(port, "out").name
           /\ \A port \in PortsOf("in") :
                 (PortAt(port, "in").name)' = IF port = to THEN topic
                                              ELSE PortAt(port, "in").name
<1>. DEFINE f == At(from[1])
            g == At(to[1])
            k == from[2] + 1
            m == to[2] + 1
            out == Ports(blocks[f], "out")[k].name
            in == Ports(blocks[g], "in")[m].name
            b == Renamed(blocks[f], out, topic)
            c == Renamed(blocks[g], in, topic)
<1>1. /\ f \in DOMAIN blocks /\ Block(from[1]) = blocks[f] /\ blocks[f].id = from[1]
      /\ IsBlock(blocks[f]) /\ from[2] \in 0..Len(Ports(blocks[f], "out")) - 1
      /\ from = <<from[1], from[2]>>
  BY PortIs
<1>2. /\ g \in DOMAIN blocks /\ Block(to[1]) = blocks[g] /\ blocks[g].id = to[1]
      /\ IsBlock(blocks[g]) /\ to[2] \in 0..Len(Ports(blocks[g], "in")) - 1
      /\ to = <<to[1], to[2]>>
  BY PortIs
<1>3. PortAt(from, "out").name = out /\ PortAt(to, "in").name = in
  BY <1>1, <1>2 DEF PortAt
<1>4. /\ Edit /\ from[1] # to[1] /\ HasKey(blocks[f], out) /\ HasKey(blocks[g], in)
      /\ blocks' = [blocks EXCEPT ![f] = Renamed(@, out, topic), ![g] = Renamed(@, in, topic)]
  <2>. HIDE DEF out, in, f, g
  <2>. QED BY <1>1, <1>2, <1>3 DEF Connect, f, g
<1>5. f # g
  BY <1>1, <1>2, <1>4
<1>6. topic # NoTopic
  BY <1>1, <1>4, FirstOutput, WireNamed DEF AutoTopic
<1>7. "in" \in Dirs /\ "out" \in Dirs /\ "in" # "out"
  BY DEF Dirs
<1>8. OnlyRenames(blocks[f], b, "out", k, topic)
  <2>1. k \in 1..Len(Ports(blocks[f], "out"))
    BY <1>1
  <2>2. IsBlock(blocks[f]) /\ Unambiguous(blocks[f]) /\ HasKey(blocks[f], out)
    BY <1>1, <1>4
  <2>3. b = Renamed(blocks[f], out, topic)
    OBVIOUS
  <2>. HIDE DEF k, f, b
  <2>. QED BY <1>6, <1>7, <2>1, <2>2, <2>3, RenamesPort
<1>9. OnlyRenames(blocks[g], c, "in", m, topic)
  <2>1. m \in 1..Len(Ports(blocks[g], "in"))
    BY <1>2
  <2>2. IsBlock(blocks[g]) /\ Unambiguous(blocks[g]) /\ HasKey(blocks[g], in)
    BY <1>2, <1>4
  <2>3. c = Renamed(blocks[g], in, topic)
    OBVIOUS
  <2>. HIDE DEF m, g, c
  <2>. QED BY <1>6, <1>7, <2>1, <2>2, <2>3, RenamesPort
<1>10. /\ b.id = blocks[f].id /\ c.id = blocks[g].id
  BY <1>1, <1>2, <1>4, RenamedGood
<1>11. /\ DOMAIN blocks' = DOMAIN blocks /\ blocks'[f] = b /\ blocks'[g] = c
       /\ \A i \in DOMAIN blocks : i # f /\ i # g => blocks'[i] = blocks[i]
  <2>. HIDE DEF f, g, out, in
  <2>. QED BY <1>1, <1>2, <1>4, <1>5
<1>. HIDE DEF b, c, out, in, f, g
<1>12. \A i \in DOMAIN blocks : blocks'[i].id = blocks[i].id
  BY <1>10, <1>11
<1>13. \A i \in DOMAIN blocks, d \in Dirs :
          Len(Ports(blocks'[i], d)) = Len(Ports(blocks[i], d))
  BY <1>8, <1>9, <1>11 DEF OnlyRenames
<1>14. ASSUME NEW d \in Dirs PROVE PortsOf(d)' = PortsOf(d)
  <2>1. \A i \in DOMAIN blocks :
           {blocks'[i].id} \X (0..Len(Ports(blocks'[i], d)) - 1)
              = {blocks[i].id} \X (0..Len(Ports(blocks[i], d)) - 1)
    BY <1>12, <1>13
  <2>2. { {blocks'[i].id} \X (0..Len(Ports(blocks'[i], d)) - 1) : i \in DOMAIN blocks' }
           = { {blocks[i].id} \X (0..Len(Ports(blocks[i], d)) - 1) : i \in DOMAIN blocks }
    BY <1>11, <2>1
  <2>. QED BY <2>2 DEF PortsOf
<1>15. \A id : At(id)' = At(id)
  BY <1>11, <1>12 DEF At
<1>16. ASSUME NEW d \in Dirs, NEW port \in PortsOf(d)
       PROVE  LET i == At(port[1])
              IN  /\ i \in DOMAIN blocks /\ blocks[i].id = port[1]
                  /\ port[2] + 1 \in 1..Len(Ports(blocks[i], d))
                  /\ port = <<port[1], port[2]>>
                  /\ PortAt(port, d) = Ports(blocks[i], d)[port[2] + 1]
                  /\ PortAt(port, d)' = Ports(blocks'[i], d)[port[2] + 1]
  <2>1. /\ At(port[1]) \in DOMAIN blocks /\ Block(port[1]) = blocks[At(port[1])]
        /\ blocks[At(port[1])].id = port[1]
        /\ port[2] \in 0..Len(Ports(blocks[At(port[1])], d)) - 1
        /\ port = <<port[1], port[2]>>
    BY PortIs
  <2>2. Block(port[1])' = blocks'[At(port[1])]
    BY <1>15 DEF Block
  <2>. QED BY <2>1, <2>2 DEF PortAt
<1>17. ASSUME NEW port \in PortsOf("out")
       PROVE  (PortAt(port, "out").name)' = IF port = from THEN topic
                                            ELSE PortAt(port, "out").name
  <2>. DEFINE i == At(port[1])
              n == port[2] + 1
  <2>1. /\ i \in DOMAIN blocks /\ blocks[i].id = port[1]
        /\ n \in 1..Len(Ports(blocks[i], "out")) /\ port = <<port[1], port[2]>>
        /\ PortAt(port, "out") = Ports(blocks[i], "out")[n]
        /\ PortAt(port, "out")' = Ports(blocks'[i], "out")[n]
    BY <1>7, <1>16
  <2>2. port = from <=> i = f /\ n = k
    <3>1. i = f => port[1] = from[1]
      BY <1>1, <2>1
    <3>2. port[1] = from[1] => i = f
      BY DEF f
    <3>3. n = k <=> port[2] = from[2]
      BY <1>1, PortIs
    <3>. QED BY <1>1, <2>1, <3>1, <3>2, <3>3
  <2>. HIDE DEF i, n, k
  <2>3. CASE i = f
    BY <1>7, <1>8, <1>11, <2>1, <2>2, <2>3 DEF OnlyRenames
  <2>4. CASE i = g
    BY <1>5, <1>7, <1>9, <1>11, <2>1, <2>2, <2>4 DEF OnlyRenames
  <2>5. CASE i # f /\ i # g
    BY <1>11, <2>1, <2>2, <2>5
  <2>. QED BY <2>3, <2>4, <2>5
<1>18. ASSUME NEW port \in PortsOf("in")
       PROVE  (PortAt(port, "in").name)' = IF port = to THEN topic
                                           ELSE PortAt(port, "in").name
  <2>. DEFINE i == At(port[1])
              n == port[2] + 1
  <2>1. /\ i \in DOMAIN blocks /\ blocks[i].id = port[1]
        /\ n \in 1..Len(Ports(blocks[i], "in")) /\ port = <<port[1], port[2]>>
        /\ PortAt(port, "in") = Ports(blocks[i], "in")[n]
        /\ PortAt(port, "in")' = Ports(blocks'[i], "in")[n]
    BY <1>7, <1>16
  <2>2. port = to <=> i = g /\ n = m
    <3>1. i = g => port[1] = to[1]
      BY <1>2, <2>1
    <3>2. port[1] = to[1] => i = g
      BY DEF g
    <3>3. n = m <=> port[2] = to[2]
      BY <1>2, PortIs
    <3>. QED BY <1>2, <2>1, <3>1, <3>2, <3>3
  <2>. HIDE DEF i, n, m
  <2>3. CASE i = g
    BY <1>7, <1>9, <1>11, <2>1, <2>2, <2>3 DEF OnlyRenames
  <2>4. CASE i = f
    BY <1>5, <1>7, <1>8, <1>11, <2>1, <2>2, <2>4 DEF OnlyRenames
  <2>5. CASE i # f /\ i # g
    BY <1>11, <2>1, <2>2, <2>5
  <2>. QED BY <2>3, <2>4, <2>5
<1>. QED BY <1>14, <1>17, <1>18

LEMMA WireJoins ==
    ASSUME EditorInv, NEW from \in PortsOf("out"), NEW to \in PortsOf("in"),
           Connect(from, to), Unambiguous(Block(from[1])), Unambiguous(Block(to[1])),
           NameIsOwn(from)
    PROVE  /\ { e \in Edges' : e[2] = to } = {<<from, to>>}
           /\ { e \in Edges' : e[1] # from /\ e[2] # to }
                = { e \in Edges : e[1] # from /\ e[2] # to }
<1>. DEFINE topic == AutoTopic(from[1], from[2])
<1>1. "in" \in Dirs /\ "out" \in Dirs
  BY DEF Dirs
<1>2. PortsOf("out")' = PortsOf("out") /\ PortsOf("in")' = PortsOf("in")
  BY <1>1, WirePorts
<1>3. \A port \in PortsOf("out") :
         (PortAt(port, "out").name)' = IF port = from THEN topic ELSE PortAt(port, "out").name
  BY WirePorts
<1>4. \A port \in PortsOf("in") :
         (PortAt(port, "in").name)' = IF port = to THEN topic ELSE PortAt(port, "in").name
  BY WirePorts
<1>5. from[1] # to[1]
  BY DEF Connect
<1>6. \A port \in PortsOf("out") : PortAt(port, "out").name = topic => port = from
  BY DEF NameIsOwn, AutoTopic
<1>. HIDE DEF topic
<1>7. ASSUME NEW p \in PortsOf("out"), NEW q \in PortsOf("in")
      PROVE  /\ <<p, q>> \in Edges <=>
                   p[1] # q[1] /\ PortAt(p, "out").name = PortAt(q, "in").name
             /\ <<p, q>> \in Edges' <=>
                   p[1] # q[1] /\ (PortAt(p, "out").name)' = (PortAt(q, "in").name)'
  BY <1>2 DEF Edges
<1>8. \A e \in Edges \union Edges' :
         e = <<e[1], e[2]>> /\ e[1] \in PortsOf("out") /\ e[2] \in PortsOf("in")
  BY <1>2 DEF Edges
<1>9. <<from, to>> \in Edges'
  BY <1>3, <1>4, <1>5, <1>7
<1>10. ASSUME NEW e \in Edges', e[2] = to PROVE e = <<from, to>>
  <2>1. e = <<e[1], to>> /\ e[1] \in PortsOf("out")
    BY <1>8, <1>10
  <2>2. (PortAt(e[1], "out").name)' = topic
    BY <1>4, <1>7, <2>1
  <2>3. e[1] = from
    BY <1>3, <1>6, <2>1, <2>2
  <2>. QED BY <2>1, <2>3
<1>11. ASSUME NEW e, e \in Edges \union Edges', e[1] # from, e[2] # to
       PROVE  e \in Edges' <=> e \in Edges
  BY <1>3, <1>4, <1>7, <1>8, <1>11
<1>12. { e \in Edges' : e[2] = to } = {<<from, to>>}
  BY <1>9, <1>10
<1>. QED BY <1>11, <1>12

(* A wire that a user draws is there afterwards, alone at its input, and   *)
(* disturbs no edge that shares neither end with it, on any canvas, when   *)
(* both blocks can be told by their texts and the wire's name is free.     *)
THEOREM EditorConnectsAsAsked == Spec => ConnectsAsAsked
<1>1. ASSUME EditorInv, edits' # edits
      PROVE  LET old == Edges
                 new == Edges'
                 Others(E, from, to) == { e \in E : e[1] # from /\ e[2] # to }
             IN  \A from \in PortsOf("out"), to \in PortsOf("in") :
                   /\ Connect(from, to)
                   /\ Unambiguous(Block(from[1])) /\ Unambiguous(Block(to[1]))
                   /\ NameIsOwn(from)
                   => /\ { e \in new : e[2] = to } = {<<from, to>>}
                      /\ Others(new, from, to) = Others(old, from, to)
  BY <1>1, WireJoins
<1>. QED BY <1>1, EditorInvHolds, PTL DEF ConnectsAsAsked

================================================================================
