---------------------------- MODULE LFQueueProofs ----------------------------
(***************************************************************************)
(* Proofs about CQueue: for every number of putting threads no value and   *)
(* no node is lost or doubled; with one putting thread it is a first-in    *)
(* first-out queue, Peek finds what will be taken, and nothing is          *)
(* overlooked.                                                             *)
(***************************************************************************)
EXTENDS LFQueue, FiniteSetTheorems, TLAPS

-----------------------------------------------------------------------------
(* Trails: distinct nodes, each the NextNode of the one before, the last   *)
(* without one.  The lemmas speak of any function nx from nodes to         *)
(* pointers, so that they say something of next and of next'.              *)

IsTrail(nx, t) ==
    /\ t \in Seq(Nodes) /\ Len(t) \in Nat \ {0}
    /\ \A i, j \in 1 .. Len(t) : t[i] = t[j] => i = j
    /\ \A i \in 1 .. Len(t) - 1 : nx[t[i]] = t[i + 1]
    /\ nx[t[Len(t)]] = Null

\* The place i + 1 behind n, and the nodes behind n, as Behind has them.
IsWalk(nx, n, g) ==
    g = [i \in 0 .. Cardinality(Nodes) |->
            IF i = 0 THEN nx[n] ELSE IF g[i - 1] = Null THEN Null ELSE nx[g[i - 1]]]
Walk(nx, n)     == CHOOSE g : IsWalk(nx, n, g)
BehindIn(nx, n) ==
    [i \in 1 .. Cardinality({j \in 0 .. Cardinality(Nodes) - 1 : Walk(nx, n)[j] # Null}) |->
        Walk(nx, n)[i - 1]]

\* A set that holds zero and with each number the next holds all: else adding one would map
\* its part below a number that is missing into that part without zero, which is smaller.
LEMMA Induction ==
    ASSUME NEW T, T \subseteq Nat, 0 \in T, \A n \in T : n + 1 \in T
    PROVE  T = Nat
  <1> SUFFICES ASSUME NEW n \in Nat, n \notin T PROVE FALSE
    OBVIOUS
  <1> DEFINE S == {x \in 0 .. n : x \in T}
  <1>0. 0 \in S
    OBVIOUS
  <1>1. IsFiniteSet(S)
    <2>1. S \in SUBSET (0 .. n)
      OBVIOUS
    <2>2. IsFiniteSet(0 .. n)
      BY FS_Interval
    <2> QED
      BY <2>1, <2>2, FS_Subset
  <1>3. Cardinality(S) \in Nat
    BY <1>1, FS_CardinalityType
  <1>4. ASSUME NEW x \in S PROVE x \in Nat /\ x + 1 \in S \ {0}
    <2>1. x \in Nat /\ x <= n /\ x \in T /\ x # n
      OBVIOUS
    <2>2. x + 1 \in T
      BY <2>1
    <2> QED
      BY <2>1, <2>2
  <1> HIDE DEF S
  <1>2. /\ IsFiniteSet(S \ {0})
        /\ Cardinality(S \ {0}) = Cardinality(S) - 1
    BY <1>0, <1>1, FS_RemoveElement
  <1> DEFINE f == [x \in S |-> x + 1]
  <1>5. PICK x \in S, y \in S : x # y /\ f[x] = f[y]
    <2>1. Cardinality(S \ {0}) < Cardinality(S)
      BY <1>2, <1>3
    <2>2. f \in [S -> S \ {0}]
      BY <1>4
    <2> HIDE DEF f
    <2> QED
      BY <1>1, <1>2, <2>1, <2>2, FS_PigeonHole
  <1> QED
    BY <1>5, <1>4

LEMMA NodeCount == IsFiniteSet(Nodes) /\ Cardinality(Nodes) \in Nat
  BY Finite, FS_CardinalityType

\* Behind follows the links it is given.
LEMMA BehindIs == ASSUME NEW n PROVE Behind(n) = BehindIn(next, n)
  BY DEF Behind, BehindIn, Walk, IsWalk

LEMMA SameFunction ==
    ASSUME NEW S, NEW f, NEW g, f = [i \in S |-> f[i]], g = [i \in S |-> g[i]],
           \A i \in S : f[i] = g[i]
    PROVE  f = g
  OBVIOUS

LEMMA WalkExists ==
    ASSUME NEW nx, NEW n
    PROVE  IsWalk(nx, n, Walk(nx, n))
  <1> DEFINE Steps(g, k) ==
               g = [i \in 0 .. k |-> IF i = 0 THEN nx[n]
                                     ELSE IF g[i - 1] = Null THEN Null ELSE nx[g[i - 1]]]
             T == {k \in Nat : \E g : Steps(g, k)}
  <1>1. 0 \in T
    <2>1. Steps([i \in 0 .. 0 |-> nx[n]], 0)
      OBVIOUS
    <2> QED
      BY <2>1
  <1>2. ASSUME NEW k \in T PROVE k + 1 \in T
    <2>1. k \in Nat
      OBVIOUS
    <2>2. PICK g : Steps(g, k)
      OBVIOUS
    <2> DEFINE h == [i \in 0 .. k + 1 |-> IF i <= k THEN g[i]
                                          ELSE IF g[k] = Null THEN Null ELSE nx[g[k]]]
    <2>3. \A i \in 0 .. k : g[i] = IF i = 0 THEN nx[n]
                                   ELSE IF g[i - 1] = Null THEN Null ELSE nx[g[i - 1]]
      BY <2>2
    <2>4. ASSUME NEW i \in 0 .. k + 1
          PROVE  h[i] = IF i = 0 THEN nx[n]
                        ELSE IF h[i - 1] = Null THEN Null ELSE nx[h[i - 1]]
      <3>1. CASE i = 0
        BY <2>1, <2>3, <3>1
      <3>2. CASE i # 0 /\ i <= k
        <4>1. i \in 0 .. k /\ i - 1 \in 0 .. k /\ i - 1 \in 0 .. k + 1 /\ i - 1 <= k
          BY <2>1, <3>2
        <4>2. h[i] = g[i] /\ h[i - 1] = g[i - 1]
          BY <3>2, <4>1
        <4> HIDE DEF h
        <4> QED
          BY <2>3, <3>2, <4>1, <4>2
      <3>3. CASE i = k + 1
        <4>1. i # 0 /\ ~(i <= k) /\ i - 1 = k /\ k \in 0 .. k + 1
          BY <2>1, <3>3
        <4>2. h[i - 1] = g[k] /\ h[i] = IF g[k] = Null THEN Null ELSE nx[g[k]]
          BY <2>1, <4>1
        <4> HIDE DEF h
        <4> QED
          BY <4>1, <4>2
      <3> QED
        BY <2>1, <3>1, <3>2, <3>3
    <2>5. h = [i \in 0 .. k + 1 |-> h[i]]
      OBVIOUS
    <2> HIDE DEF h
    <2>6. Steps(h, k + 1)
      <3> DEFINE e == [i \in 0 .. k + 1 |-> IF i = 0 THEN nx[n]
                                            ELSE IF h[i - 1] = Null THEN Null ELSE nx[h[i - 1]]]
      <3>1. e = [i \in 0 .. k + 1 |-> e[i]] /\ \A i \in 0 .. k + 1 : h[i] = e[i]
        BY <2>4
      <3>2. h = e
        <4> HIDE DEF e
        <4> QED
          BY <2>5, <3>1, SameFunction
      <3> QED
        BY <3>2
    <2> QED
      BY <2>1, <2>6
  <1>3. T = Nat
    <2> HIDE DEF Steps
    <2>1. T \subseteq Nat
      OBVIOUS
    <2> HIDE DEF T
    <2> QED
      BY <1>1, <1>2, <2>1, Induction
  <1>4. Cardinality(Nodes) \in T
    BY <1>3, NodeCount
  <1>5. \E g : IsWalk(nx, n, g)
    BY <1>4 DEF IsWalk
  <1> QED
    BY <1>5 DEF Walk

LEMMA TrailLength ==
    ASSUME NEW nx, NEW t, IsTrail(nx, t)
    PROVE  Len(t) <= Cardinality(Nodes)
  <1>1. /\ Len(t) \in Nat /\ \A i \in 1 .. Len(t) : t[i] \in Nodes
        /\ \A i, j \in 1 .. Len(t) : t[i] = t[j] => i = j
    BY DEF IsTrail
  <1>2. SUFFICES ASSUME Cardinality(Nodes) < Len(t) PROVE FALSE
    BY <1>1, NodeCount
  <1> DEFINE S == 1 .. Len(t)
             f == [i \in S |-> t[i]]
  <1>3. IsFiniteSet(S) /\ Cardinality(S) = Len(t)
    <2>1. IsFiniteSet(1 .. Len(t)) /\ Cardinality(1 .. Len(t)) = IF 1 > Len(t) THEN 0 ELSE Len(t) - 1 + 1
      BY <1>1, FS_Interval
    <2> QED
      BY <1>1, <2>1
  <1>4. f \in [S -> Nodes] /\ \A i \in S : f[i] = t[i]
    BY <1>1
  <1> HIDE DEF f
  <1>5. \E x, y \in S : x # y /\ f[x] = f[y]
    <2> HIDE DEF S
    <2> QED
      BY <1>2, <1>3, <1>4, NodeCount, FS_PigeonHole
  <1> QED
    BY <1>1, <1>4, <1>5

\* The nodes behind the first node of a trail are the others.
LEMMA BehindTrail ==
    ASSUME NEW nx, NEW t, IsTrail(nx, t)
    PROVE  BehindIn(nx, t[1]) = [i \in 1 .. Len(t) - 1 |-> t[i + 1]]
  <1> DEFINE N == Cardinality(Nodes)
             g == Walk(nx, t[1])
             K == Len(t)
  <1>1. /\ K \in Nat \ {0} /\ K <= N /\ N \in Nat
        /\ \A i \in 1 .. K : t[i] \in Nodes
        /\ \A i \in 1 .. K - 1 : nx[t[i]] = t[i + 1]
        /\ nx[t[K]] = Null
    <2>1. K <= N /\ N \in Nat
      BY TrailLength, NodeCount
    <2> QED
      BY <2>1 DEF IsTrail
  <1>2. \A i \in 0 .. N : g[i] = IF i = 0 THEN nx[t[1]]
                                 ELSE IF g[i - 1] = Null THEN Null ELSE nx[g[i - 1]]
    <2>1. IsWalk(nx, t[1], g)
      BY WalkExists
    <2> HIDE DEF g
    <2> QED
      BY <2>1 DEF IsWalk
  <1> HIDE DEF N, g, K
  <1> DEFINE T == {k \in Nat : k <= N => g[k] = IF k + 1 < K THEN t[k + 2] ELSE Null}
  <1>3. 0 \in T
    <2>1. 0 \in 0 .. N /\ g[0] = nx[t[1]]
      BY <1>1, <1>2
    <2>2. CASE K = 1
      BY <1>1, <2>1, <2>2
    <2>3. CASE K # 1
      <3>1. 1 \in 1 .. K - 1 /\ 0 + 1 < K
        BY <1>1, <2>3
      <3>2. nx[t[1]] = t[1 + 1]
        BY <1>1, <3>1
      <3> QED
        BY <2>1, <3>1, <3>2
    <2> QED
      BY <2>2, <2>3
  <1>4. ASSUME NEW k \in T PROVE k + 1 \in T
    <2>1. k \in Nat /\ (k <= N => g[k] = IF k + 1 < K THEN t[k + 2] ELSE Null)
      OBVIOUS
    <2> SUFFICES ASSUME k + 1 <= N
                 PROVE  g[k + 1] = IF k + 2 < K THEN t[k + 3] ELSE Null
      BY <2>1
    <2>2. k + 1 \in 0 .. N /\ k + 1 # 0 /\ (k + 1) - 1 = k /\ k <= N
      BY <1>1, <2>1
    <2>3. g[k + 1] = IF g[k] = Null THEN Null ELSE nx[g[k]]
      BY <1>2, <2>2
    <2>4. CASE k + 1 < K
      <3>1. k + 2 \in 1 .. K /\ g[k] = t[k + 2]
        BY <1>1, <2>1, <2>2, <2>4
      <3>2. g[k] # Null /\ g[k + 1] = nx[t[k + 2]]
        BY <1>1, <2>3, <3>1, NullIsNoNode
      <3>3. CASE k + 2 < K
        <4>1. k + 2 \in 1 .. K - 1 /\ (k + 2) + 1 = k + 3
          BY <1>1, <2>1, <3>3
        <4> QED
          BY <1>1, <3>2, <3>3, <4>1
      <3>4. CASE ~(k + 2 < K)
        <4>1. k + 2 = K
          BY <1>1, <2>1, <2>4, <3>4
        <4> QED
          BY <1>1, <3>2, <3>4, <4>1
      <3> QED
        BY <3>3, <3>4
    <2>5. CASE ~(k + 1 < K)
      BY <1>1, <2>1, <2>2, <2>3, <2>5
    <2> QED
      BY <2>4, <2>5
  <1>5. T = Nat
    <2>1. T \subseteq Nat
      OBVIOUS
    <2> HIDE DEF T
    <2> QED
      BY <1>3, <1>4, <2>1, Induction
  <1>6. \A k \in 0 .. N : g[k] = IF k + 1 < K THEN t[k + 2] ELSE Null
    BY <1>1, <1>5
  <1> HIDE DEF T
  <1>7. {j \in 0 .. N - 1 : g[j] # Null} = 0 .. K - 2
    <2>1. ASSUME NEW j \in 0 .. N - 1 PROVE g[j] # Null <=> j \in 0 .. K - 2
      <3>1. j \in 0 .. N /\ (j + 1 < K <=> j \in 0 .. K - 2)
        BY <1>1
      <3>2. j + 1 < K => t[j + 2] # Null
        <4>1. j + 1 < K => j + 2 \in 1 .. K
          BY <1>1
        <4> QED
          BY <1>1, <4>1, NullIsNoNode
      <3> QED
        BY <1>6, <3>1, <3>2
    <2>2. \A j \in 0 .. K - 2 : j \in 0 .. N - 1
      BY <1>1
    <2> QED
      BY <2>1, <2>2
  <1>8. Cardinality(0 .. K - 2) = K - 1
    <2>1. K - 2 \in Int
      BY <1>1
    <2>2. Cardinality(0 .. K - 2) = IF 0 > K - 2 THEN 0 ELSE (K - 2) - 0 + 1
      BY <2>1, FS_Interval
    <2> QED
      BY <1>1, <2>2
  <1>9. BehindIn(nx, t[1]) = [i \in 1 .. K - 1 |-> g[i - 1]]
    BY <1>7, <1>8 DEF BehindIn, g, N
  <1>10. \A i \in 1 .. K - 1 : g[i - 1] = t[i + 1]
    <2> SUFFICES ASSUME NEW i \in 1 .. K - 1 PROVE g[i - 1] = t[i + 1]
      OBVIOUS
    <2>1. i - 1 \in 0 .. N /\ (i - 1) + 1 < K /\ (i - 1) + 2 = i + 1
      BY <1>1
    <2> QED
      BY <1>6, <2>1
  <1> QED
    BY <1>9, <1>10 DEF K

-----------------------------------------------------------------------------
(* The nodes from one on.                                                  *)

HasTrail(nx, n) == \E t : IsTrail(nx, t) /\ t[1] = n
Tree(nx, n)     == {n} \cup ToSet(BehindIn(nx, n))

LEMMA TrailTree ==
    ASSUME NEW nx, NEW t, IsTrail(nx, t)
    PROVE  /\ Tree(nx, t[1]) = {t[i] : i \in 1 .. Len(t)}
           /\ BehindIn(nx, t[1]) \in Seq(Nodes) /\ Len(BehindIn(nx, t[1])) = Len(t) - 1
           /\ \A i \in 1 .. Len(t) - 1 : BehindIn(nx, t[1])[i] = t[i + 1]
  <1>1. /\ Len(t) \in Nat \ {0} /\ \A i \in 1 .. Len(t) : t[i] \in Nodes
    BY DEF IsTrail
  <1>2. BehindIn(nx, t[1]) = [i \in 1 .. Len(t) - 1 |-> t[i + 1]]
    BY BehindTrail
  <1>3. Len(t) - 1 \in Nat /\ \A i \in 1 .. Len(t) - 1 : t[i + 1] \in Nodes
    <2>1. \A i \in 1 .. Len(t) - 1 : i + 1 \in 1 .. Len(t)
      BY <1>1
    <2> QED
      BY <1>1, <2>1
  <1> DEFINE b == BehindIn(nx, t[1])
             n == Len(t) - 1
  <1>4. b = [i \in 1 .. n |-> t[i + 1]] /\ n \in Nat /\ \A i \in 1 .. n : t[i + 1] \in Nodes
    BY <1>2, <1>3
  <1>5. b \in Seq(Nodes) /\ Len(b) = n /\ DOMAIN b = 1 .. n /\ \A i \in 1 .. n : b[i] = t[i + 1]
    <2> HIDE DEF b, n
    <2> QED
      BY <1>4
  <1>6. Tree(nx, t[1]) = {t[i] : i \in 1 .. Len(t)}
    <2>1. ToSet(b) = {t[i + 1] : i \in 1 .. n}
      <3> HIDE DEF b, n
      <3> QED
        BY <1>5 DEF ToSet
    <2>2. \A i \in 1 .. n : i + 1 \in 1 .. Len(t)
      BY <1>1
    <2>3. \A i \in 1 .. Len(t) : i = 1 \/ (i - 1 \in 1 .. n /\ (i - 1) + 1 = i)
      BY <1>1
    <2>4. 1 \in 1 .. Len(t)
      BY <1>1
    <2>5. Tree(nx, t[1]) = {t[1]} \cup {t[i + 1] : i \in 1 .. n}
      BY <2>1 DEF Tree
    <2> HIDE DEF b, n
    <2>6. ASSUME NEW x \in {t[1]} \cup {t[i + 1] : i \in 1 .. n} PROVE x \in {t[i] : i \in 1 .. Len(t)}
      BY <2>2, <2>4
    <2>7. ASSUME NEW x \in {t[i] : i \in 1 .. Len(t)} PROVE x \in {t[1]} \cup {t[i + 1] : i \in 1 .. n}
      <3>1. PICK i \in 1 .. Len(t) : x = t[i]
        OBVIOUS
      <3> QED
        BY <2>3, <3>1
    <2> QED
      BY <2>5, <2>6, <2>7
  <1> QED
    BY <1>5, <1>6

LEMMA TrailThere ==
    ASSUME NEW nx, NEW n, HasTrail(nx, n)
    PROVE  \E t : /\ IsTrail(nx, t) /\ t[1] = n
                  /\ Tree(nx, n) = {t[i] : i \in 1 .. Len(t)}
                  /\ BehindIn(nx, n) = [i \in 1 .. Len(t) - 1 |-> t[i + 1]]
  <1>1. PICK t : IsTrail(nx, t) /\ t[1] = n
    BY DEF HasTrail
  <1>2. IsTrail(nx, t)
    BY <1>1
  <1>3. Tree(nx, t[1]) = {t[i] : i \in 1 .. Len(t)}
    BY <1>2, TrailTree
  <1>4. BehindIn(nx, t[1]) = [i \in 1 .. Len(t) - 1 |-> t[i + 1]]
    BY <1>2, BehindTrail
  <1> QED
    BY <1>1, <1>3, <1>4

LEMMA TreeFacts ==
    ASSUME NEW nx, NEW n, HasTrail(nx, n)
    PROVE  /\ n \in Tree(nx, n) /\ Tree(nx, n) \subseteq Nodes
           /\ \A m \in Tree(nx, n) : nx[m] = Null \/ (nx[m] \in Tree(nx, n) /\ nx[m] # n)
           /\ \A m, k \in Tree(nx, n) : nx[m] = Null /\ nx[k] = Null => m = k
           /\ nx[n] = Null => Tree(nx, n) = {n}
           /\ nx[n] # Null => nx[n] \in Tree(nx, n) \ {n}
  <1>1. PICK t : IsTrail(nx, t) /\ t[1] = n
    BY DEF HasTrail
  <1>2. /\ Len(t) \in Nat \ {0} /\ \A i \in 1 .. Len(t) : t[i] \in Nodes
        /\ \A i, j \in 1 .. Len(t) : t[i] = t[j] => i = j
        /\ \A i \in 1 .. Len(t) - 1 : nx[t[i]] = t[i + 1]
        /\ nx[t[Len(t)]] = Null
    BY <1>1 DEF IsTrail
  <1>3. Tree(nx, n) = {t[i] : i \in 1 .. Len(t)}
    <2>1. IsTrail(nx, t)
      BY <1>1
    <2>2. Tree(nx, t[1]) = {t[i] : i \in 1 .. Len(t)}
      BY <2>1, TrailTree
    <2> QED
      BY <1>1, <2>2
  <1>4. 1 \in 1 .. Len(t) /\ Len(t) \in 1 .. Len(t)
    BY <1>2
  <1>5. ASSUME NEW i \in 1 .. Len(t)
        PROVE  /\ i = Len(t) => nx[t[i]] = Null
               /\ i # Len(t) => /\ i + 1 \in 1 .. Len(t) /\ nx[t[i]] = t[i + 1]
                                /\ nx[t[i]] # Null /\ nx[t[i]] # t[1]
    <2>1. i # Len(t) => i \in 1 .. Len(t) - 1 /\ i + 1 \in 1 .. Len(t) /\ i + 1 # 1
      BY <1>2
    <2>2. i # Len(t) => t[i + 1] # Null /\ t[i + 1] # t[1]
      BY <1>2, <1>4, <2>1, NullIsNoNode
    <2> QED
      BY <1>2, <2>1, <2>2
  <1>6. \A m \in Tree(nx, n) : nx[m] = Null \/ (nx[m] \in Tree(nx, n) /\ nx[m] # n)
    BY <1>1, <1>3, <1>5
  <1>7. \A m \in Tree(nx, n) : nx[m] = Null => m = t[Len(t)]
    BY <1>3, <1>5
  <1>8. n \in Tree(nx, n) /\ Tree(nx, n) \subseteq Nodes
    BY <1>1, <1>2, <1>3, <1>4
  <1>9. nx[n] = Null => Tree(nx, n) = {n}
    <2>1. nx[n] = Null => Len(t) = 1
      BY <1>1, <1>4, <1>5
    <2>2. Len(t) = 1 => \A i \in 1 .. Len(t) : i = 1
      BY <1>2
    <2> QED
      BY <1>1, <1>3, <1>4, <2>1, <2>2
  <1> QED
    BY <1>6, <1>7, <1>8, <1>9

LEMMA Single ==
    ASSUME NEW nx, NEW n \in Nodes, nx[n] = Null
    PROVE  HasTrail(nx, n) /\ Tree(nx, n) = {n}
  <1> DEFINE t == <<n>>
  <1>1. t \in Seq(Nodes) /\ Len(t) = 1 /\ t[1] = n
    OBVIOUS
  <1> HIDE DEF t
  <1>2. IsTrail(nx, t)
    BY <1>1 DEF IsTrail
  <1>3. HasTrail(nx, n)
    BY <1>1, <1>2 DEF HasTrail
  <1> QED
    BY <1>3, TreeFacts

\* A trail none of whose nodes is linked elsewhere stays as it is.
LEMMA SameTrail ==
    ASSUME NEW nx, NEW ny, NEW n, HasTrail(nx, n), \A m \in Tree(nx, n) : ny[m] = nx[m]
    PROVE  HasTrail(ny, n) /\ Tree(ny, n) = Tree(nx, n) /\ BehindIn(ny, n) = BehindIn(nx, n)
  <1>1. PICK t : /\ IsTrail(nx, t) /\ t[1] = n
                 /\ Tree(nx, n) = {t[i] : i \in 1 .. Len(t)}
                 /\ BehindIn(nx, n) = [i \in 1 .. Len(t) - 1 |-> t[i + 1]]
    BY TrailThere
  <1>3. \A i \in 1 .. Len(t) : ny[t[i]] = nx[t[i]]
    BY <1>1
  <1>4. IsTrail(ny, t)
    <2>1. Len(t) \in 1 .. Len(t) /\ \A i \in 1 .. Len(t) - 1 : i \in 1 .. Len(t)
      BY <1>1 DEF IsTrail
    <2> QED
      BY <1>1, <1>3, <2>1 DEF IsTrail
  <1>5. Tree(ny, n) = {t[i] : i \in 1 .. Len(t)}
    <2>1. Tree(ny, t[1]) = {t[i] : i \in 1 .. Len(t)}
      BY <1>4, TrailTree
    <2> QED
      BY <1>1, <2>1
  <1>6. BehindIn(ny, t[1]) = [i \in 1 .. Len(t) - 1 |-> t[i + 1]]
    BY <1>4, BehindTrail
  <1> QED
    BY <1>1, <1>4, <1>5, <1>6 DEF HasTrail

\* The trail from the second node on.
LEMMA CutTrail ==
    ASSUME NEW nx, NEW n, HasTrail(nx, n), nx[n] # Null
    PROVE  /\ HasTrail(nx, nx[n])
           /\ Tree(nx, nx[n]) = Tree(nx, n) \ {n}
           /\ BehindIn(nx, n) \in Seq(Nodes) /\ BehindIn(nx, nx[n]) \in Seq(Nodes)
           /\ Len(BehindIn(nx, n)) = Len(BehindIn(nx, nx[n])) + 1
           /\ BehindIn(nx, n)[1] = nx[n]
           /\ \A i \in 1 .. Len(BehindIn(nx, nx[n])) :
                 BehindIn(nx, n)[i + 1] = BehindIn(nx, nx[n])[i]
  <1>1. PICK t : /\ IsTrail(nx, t) /\ t[1] = n
                 /\ Tree(nx, n) = {t[i] : i \in 1 .. Len(t)}
                 /\ BehindIn(nx, n) = [i \in 1 .. Len(t) - 1 |-> t[i + 1]]
    BY TrailThere, SMTT(30)
  <1> DEFINE K == Len(t)
             b == BehindIn(nx, n)
  <1>2. /\ K \in Nat \ {0}
        /\ \A i \in 1 .. K : t[i] \in Nodes
        /\ \A i, j \in 1 .. K : t[i] = t[j] => i = j
        /\ \A i \in 1 .. K - 1 : nx[t[i]] = t[i + 1]
        /\ nx[t[K]] = Null
    <2>1. IsTrail(nx, t)
      BY <1>1
    <2> QED
      BY <2>1 DEF IsTrail
  <1>3. b = [i \in 1 .. K - 1 |-> t[i + 1]]
    BY <1>1
  <1> HIDE DEF K, b
  <1>4. K # 1 /\ K - 1 \in Nat \ {0} /\ \A i \in 1 .. K - 1 : i + 1 \in 1 .. K /\ t[i + 1] \in Nodes
    <2>1. K # 1 /\ K - 1 \in Nat \ {0}
      BY <1>1, <1>2
    <2>2. \A i \in 1 .. K - 1 : i + 1 \in 1 .. K
      BY <1>2
    <2> QED
      BY <1>2, <2>1, <2>2
  <1>5. b \in Seq(Nodes) /\ Len(b) = K - 1 /\ \A i \in 1 .. K - 1 : b[i] = t[i + 1]
    <2> DEFINE k == K - 1
    <2>1. k \in Nat /\ b = [i \in 1 .. k |-> t[i + 1]] /\ \A i \in 1 .. k : t[i + 1] \in Nodes
      BY <1>3, <1>4
    <2> HIDE DEF k
    <2>2. b \in Seq(Nodes) /\ Len(b) = k /\ \A i \in 1 .. k : b[i] = t[i + 1]
      BY <2>1
    <2> QED
      BY <2>2 DEF k
  <1>6. b[1] = nx[n] /\ t[2] = nx[n]
    <2>1. 1 \in 1 .. K - 1 /\ 1 + 1 = 2
      BY <1>2, <1>4
    <2>2. t[1] = n
      BY <1>1
    <2> QED
      BY <1>2, <1>5, <2>1, <2>2
  <1>7. IsTrail(nx, b)
    <2>1. b \in Seq(Nodes) /\ Len(b) \in Nat \ {0}
      BY <1>4, <1>5
    <2>2. \A i, j \in 1 .. Len(b) : b[i] = b[j] => i = j
      BY <1>2, <1>4, <1>5
    <2>3. \A i \in 1 .. Len(b) - 1 : nx[b[i]] = b[i + 1]
      <3> SUFFICES ASSUME NEW i \in 1 .. Len(b) - 1 PROVE nx[b[i]] = b[i + 1]
        OBVIOUS
      <3>1. i \in 1 .. K - 1 /\ i + 1 \in 1 .. K - 1
        BY <1>2, <1>5
      <3> QED
        BY <1>2, <1>5, <3>1
    <2>4. nx[b[Len(b)]] = Null
      <3>1. K - 1 \in 1 .. K - 1 /\ (K - 1) + 1 = K
        BY <1>2, <1>4
      <3> QED
        BY <1>2, <1>5, <3>1
    <2> QED
      BY <2>1, <2>2, <2>3, <2>4 DEF IsTrail
  <1>8. HasTrail(nx, nx[n])
    BY <1>6, <1>7 DEF HasTrail
  <1>9. /\ Tree(nx, b[1]) = {b[i] : i \in 1 .. Len(b)}
        /\ BehindIn(nx, b[1]) \in Seq(Nodes) /\ Len(BehindIn(nx, b[1])) = Len(b) - 1
        /\ \A i \in 1 .. Len(b) - 1 : BehindIn(nx, b[1])[i] = b[i + 1]
    BY <1>7, TrailTree
  <1>10. Tree(nx, nx[n]) = Tree(nx, n) \ {n}
    <2>1. Tree(nx, nx[n]) = {t[i + 1] : i \in 1 .. K - 1}
      BY <1>5, <1>6, <1>9, SMTT(30)
    <2>2. Tree(nx, n) = {t[i] : i \in 1 .. K}
      BY <1>1 DEF K
    <2>3. ASSUME NEW x \in Tree(nx, nx[n]) PROVE x \in Tree(nx, n) \ {n}
      <3>1. PICK i \in 1 .. K - 1 : x = t[i + 1]
        BY <2>1
      <3>2. i + 1 \in 1 .. K /\ i + 1 # 1 /\ 1 \in 1 .. K
        BY <1>2, <1>4
      <3> QED
        BY <1>1, <1>2, <2>2, <3>1, <3>2
    <2>4. ASSUME NEW x \in Tree(nx, n) \ {n} PROVE x \in Tree(nx, nx[n])
      <3>1. PICK i \in 1 .. K : x = t[i]
        BY <2>2
      <3>2. i # 1
        BY <1>1, <3>1
      <3>3. i - 1 \in 1 .. K - 1 /\ (i - 1) + 1 = i
        BY <1>2, <3>2
      <3> QED
        BY <2>1, <3>1, <3>3
    <2> QED
      BY <2>3, <2>4
  <1>11. \A i \in 1 .. Len(BehindIn(nx, nx[n])) : b[i + 1] = BehindIn(nx, nx[n])[i]
    BY <1>6, <1>9
  <1>12. Len(b) = Len(BehindIn(nx, nx[n])) + 1 /\ BehindIn(nx, nx[n]) \in Seq(Nodes)
    BY <1>4, <1>5, <1>6, <1>9
  <1> QED
    BY <1>5, <1>6, <1>8, <1>10, <1>11, <1>12 DEF b

\* The trail of u is linked behind the last node of that of r.
LEMMA JoinTrails ==
    ASSUME NEW nx, NEW ny, NEW r, NEW u, NEW c \in Tree(nx, r), HasTrail(nx, r), HasTrail(nx, u),
           Tree(nx, r) \cap Tree(nx, u) = {}, nx[c] = Null, ny[c] = u,
           \A m \in Nodes \ {c} : ny[m] = nx[m]
    PROVE  /\ HasTrail(ny, r)
           /\ Tree(ny, r) = Tree(nx, r) \cup Tree(nx, u)
           /\ nx[u] = Null =>
                 /\ BehindIn(nx, r) \in Seq(Nodes) /\ BehindIn(ny, r) \in Seq(Nodes)
                 /\ Len(BehindIn(ny, r)) = Len(BehindIn(nx, r)) + 1
                 /\ \A i \in 1 .. Len(BehindIn(nx, r)) : BehindIn(ny, r)[i] = BehindIn(nx, r)[i]
                 /\ BehindIn(ny, r)[Len(BehindIn(nx, r)) + 1] = u
  <1>1. PICK t : /\ IsTrail(nx, t) /\ t[1] = r
                 /\ Tree(nx, r) = {t[i] : i \in 1 .. Len(t)}
                 /\ BehindIn(nx, r) = [i \in 1 .. Len(t) - 1 |-> t[i + 1]]
    BY TrailThere
  <1>2. PICK s : /\ IsTrail(nx, s) /\ s[1] = u
                 /\ Tree(nx, u) = {s[i] : i \in 1 .. Len(s)}
                 /\ BehindIn(nx, u) = [i \in 1 .. Len(s) - 1 |-> s[i + 1]]
    BY TrailThere
  <1> DEFINE K == Len(t)
             M == Len(s)
             z == [i \in 1 .. K + M |-> IF i <= K THEN t[i] ELSE s[i - K]]
  <1>3. /\ K \in Nat \ {0}
        /\ \A i \in 1 .. K : t[i] \in Nodes
        /\ \A i, j \in 1 .. K : t[i] = t[j] => i = j
        /\ \A i \in 1 .. K - 1 : nx[t[i]] = t[i + 1]
        /\ nx[t[K]] = Null
    <2>1. IsTrail(nx, t)
      BY <1>1
    <2> QED
      BY <2>1 DEF IsTrail
  <1>4. /\ M \in Nat \ {0}
        /\ \A i \in 1 .. M : s[i] \in Nodes
        /\ \A i, j \in 1 .. M : s[i] = s[j] => i = j
        /\ \A i \in 1 .. M - 1 : nx[s[i]] = s[i + 1]
        /\ nx[s[M]] = Null
    <2>1. IsTrail(nx, s)
      BY <1>2
    <2> QED
      BY <2>1 DEF IsTrail
  <1>5. \A i \in 1 .. K, j \in 1 .. M : t[i] # s[j]
    <2>1. Tree(nx, r) = {t[i] : i \in 1 .. K} /\ Tree(nx, u) = {s[i] : i \in 1 .. M}
      BY <1>1, <1>2
    <2>2. \A i \in 1 .. K : t[i] \in Tree(nx, r)
      BY <2>1
    <2>3. \A j \in 1 .. M : s[j] \in Tree(nx, u)
      BY <2>1
    <2> QED
      BY <2>2, <2>3
  <1>6. c = t[K] /\ c \in Nodes
    <2>1. t[K] \in Tree(nx, r) /\ t[K] \in Nodes
      BY <1>1, <1>3
    <2> QED
      BY <1>3, <2>1, TreeFacts
  <1>7. z \in Seq(Nodes) /\ Len(z) = K + M
        /\ (\A i \in 1 .. K : z[i] = t[i]) /\ (\A i \in 1 .. M : z[K + i] = s[i])
    <2>1. K + M \in Nat
      BY <1>3, <1>4
    <2>2. \A i \in 1 .. K + M : IF i <= K THEN i \in 1 .. K ELSE i - K \in 1 .. M
      BY <1>3, <1>4
    <2>3. \A i \in 1 .. K + M : z[i] \in Nodes
      BY <1>3, <1>4, <2>2
    <2>4. \A i \in 1 .. K : z[i] = t[i]
      BY <1>3, <1>4
    <2>5. \A i \in 1 .. M : z[K + i] = s[i]
      <3> SUFFICES ASSUME NEW i \in 1 .. M PROVE z[K + i] = s[i]
        OBVIOUS
      <3>1. K + i \in 1 .. K + M /\ ~(K + i <= K) /\ (K + i) - K = i
        BY <1>3, <1>4
      <3> QED
        BY <3>1
    <2>6. z = [i \in 1 .. K + M |-> z[i]]
      OBVIOUS
    <2> DEFINE n == K + M
    <2>7. n \in Nat /\ z = [i \in 1 .. n |-> z[i]] /\ \A i \in 1 .. n : z[i] \in Nodes
      BY <2>1, <2>3, <2>6
    <2> HIDE DEF z, n
    <2>8. z \in Seq(Nodes) /\ Len(z) = n
      BY <2>7
    <2> QED
      BY <2>4, <2>5, <2>8 DEF n
  <1> HIDE DEF z, K, M
  <1>8. \A i \in 1 .. K + M : i \in 1 .. K \/ \E j \in 1 .. M : i = K + j
    <2> SUFFICES ASSUME NEW i \in 1 .. K + M, i \notin 1 .. K PROVE \E j \in 1 .. M : i = K + j
      OBVIOUS
    <2>1. i - K \in 1 .. M /\ i = K + (i - K)
      BY <1>3, <1>4
    <2> QED
      BY <2>1
  <1>9. IsTrail(ny, z)
    <2>1. Len(z) \in Nat \ {0}
      BY <1>3, <1>4, <1>7
    <2>2. ASSUME NEW i \in 1 .. Len(z), NEW j \in 1 .. Len(z), z[i] = z[j] PROVE i = j
      <3>1. i \in 1 .. K + M /\ j \in 1 .. K + M
        BY <1>7
      <3>2. CASE i \in 1 .. K
        <4>1. CASE j \in 1 .. K
          BY <1>3, <1>7, <2>2, <3>2, <4>1
        <4>2. CASE j \notin 1 .. K
          <5>1. PICK l \in 1 .. M : j = K + l
            BY <1>8, <3>1, <4>2
          <5> QED
            BY <1>5, <1>7, <2>2, <3>2, <5>1
        <4> QED
          BY <4>1, <4>2
      <3>3. CASE i \notin 1 .. K
        <4>0. PICK k \in 1 .. M : i = K + k
          BY <1>8, <3>1, <3>3
        <4>1. CASE j \in 1 .. K
          BY <1>5, <1>7, <2>2, <4>0, <4>1
        <4>2. CASE j \notin 1 .. K
          <5>1. PICK l \in 1 .. M : j = K + l
            BY <1>8, <3>1, <4>2
          <5>2. s[k] = s[l]
            BY <1>7, <2>2, <4>0, <5>1
          <5> QED
            BY <1>4, <4>0, <5>1, <5>2
        <4> QED
          BY <4>1, <4>2
      <3> QED
        BY <3>2, <3>3
    <2>3. ASSUME NEW i \in 1 .. Len(z) - 1 PROVE ny[z[i]] = z[i + 1]
      <3>1. i \in 1 .. K + M /\ i + 1 \in 1 .. K + M /\ i # K + M
        BY <1>3, <1>4, <1>7
      <3>2. CASE i \in 1 .. K /\ i # K
        <4>1. i \in 1 .. K - 1 /\ i + 1 \in 1 .. K /\ K \in 1 .. K
          BY <1>3, <3>2
        <4>2. z[i] = t[i] /\ z[i + 1] = t[i + 1] /\ t[i] # c /\ t[i] \in Nodes
          BY <1>3, <1>6, <1>7, <3>2, <4>1
        <4>3. ny[t[i]] = nx[t[i]]
          BY <4>2
        <4> QED
          BY <1>3, <4>1, <4>2, <4>3
      <3>3. CASE i = K
        <4>1. K \in 1 .. K /\ 1 \in 1 .. M
          BY <1>3, <1>4
        <4>2. z[i] = c /\ z[i + 1] = u
          BY <1>2, <1>6, <1>7, <3>3, <4>1
        <4> QED
          BY <4>2
      <3>4. CASE i \notin 1 .. K
        <4>1. PICK j \in 1 .. M : i = K + j
          BY <1>8, <3>1, <3>4
        <4>2. j \in 1 .. M - 1 /\ j + 1 \in 1 .. M /\ i + 1 = K + (j + 1)
          BY <1>3, <1>4, <3>1, <4>1
        <4>3. z[i] = s[j] /\ z[i + 1] = s[j + 1] /\ s[j] \in Nodes
          BY <1>4, <1>7, <4>1, <4>2
        <4>4. s[j] # c
          <5>1. K \in 1 .. K
            BY <1>3
          <5> QED
            BY <1>5, <1>6, <5>1
        <4>5. ny[s[j]] = nx[s[j]]
          BY <4>3, <4>4
        <4> QED
          BY <1>4, <4>2, <4>3, <4>5
      <3> QED
        BY <3>2, <3>3, <3>4
    <2>4. ny[z[Len(z)]] = Null
      <3>1. M \in 1 .. M /\ K \in 1 .. K
        BY <1>3, <1>4
      <3>2. z[Len(z)] = s[M] /\ s[M] \in Nodes /\ s[M] # c
        BY <1>4, <1>5, <1>6, <1>7, <3>1
      <3>3. ny[s[M]] = nx[s[M]]
        BY <3>2
      <3> QED
        BY <1>4, <3>2, <3>3
    <2> QED
      BY <1>7, <2>1, <2>2, <2>3, <2>4 DEF IsTrail
  <1>10. z[1] = r
    <2>1. 1 \in 1 .. K
      BY <1>3
    <2> QED
      BY <1>1, <1>7, <2>1
  <1>11. HasTrail(ny, r)
    BY <1>9, <1>10 DEF HasTrail
  <1>12. /\ Tree(ny, z[1]) = {z[i] : i \in 1 .. Len(z)}
         /\ BehindIn(ny, z[1]) \in Seq(Nodes) /\ Len(BehindIn(ny, z[1])) = Len(z) - 1
         /\ \A i \in 1 .. Len(z) - 1 : BehindIn(ny, z[1])[i] = z[i + 1]
    BY <1>9, TrailTree, ZenonT(30)
  <1>13. Tree(ny, r) = Tree(nx, r) \cup Tree(nx, u)
    <2>1. Tree(ny, r) = {z[i] : i \in 1 .. K + M}
      BY <1>7, <1>10, <1>12
    <2>2. Tree(nx, r) = {t[i] : i \in 1 .. K} /\ Tree(nx, u) = {s[i] : i \in 1 .. M}
      BY <1>1, <1>2 DEF K, M
    <2>3. (\A i \in 1 .. K : i \in 1 .. K + M) /\ (\A i \in 1 .. M : K + i \in 1 .. K + M)
      BY <1>3, <1>4
    <2>4. ASSUME NEW x \in Tree(ny, r) PROVE x \in Tree(nx, r) \cup Tree(nx, u)
      <3>1. PICK i \in 1 .. K + M : x = z[i]
        BY <2>1
      <3> QED
        BY <1>7, <1>8, <2>2, <3>1
    <2>5. ASSUME NEW x \in Tree(nx, r) \cup Tree(nx, u) PROVE x \in Tree(ny, r)
      <3>1. (\E i \in 1 .. K : x = t[i]) \/ (\E i \in 1 .. M : x = s[i])
        BY <2>2
      <3> QED
        BY <1>7, <2>1, <2>3, <3>1
    <2> QED
      BY <2>4, <2>5
  <1>14. ASSUME nx[u] = Null
         PROVE  /\ BehindIn(nx, r) \in Seq(Nodes) /\ BehindIn(ny, r) \in Seq(Nodes)
                /\ Len(BehindIn(ny, r)) = Len(BehindIn(nx, r)) + 1
                /\ \A i \in 1 .. Len(BehindIn(nx, r)) : BehindIn(ny, r)[i] = BehindIn(nx, r)[i]
                /\ BehindIn(ny, r)[Len(BehindIn(nx, r)) + 1] = u
    <2>1. M = 1
      <3>1. 1 \in 1 .. M
        BY <1>4
      <3>2. M # 1 => 1 \in 1 .. M - 1 /\ 1 + 1 \in 1 .. M
        BY <1>4
      <3> QED
        BY <1>2, <1>4, <1>14, <3>1, <3>2, NullIsNoNode
    <2>2. /\ BehindIn(nx, t[1]) \in Seq(Nodes) /\ Len(BehindIn(nx, t[1])) = K - 1
          /\ \A i \in 1 .. K - 1 : BehindIn(nx, t[1])[i] = t[i + 1]
      <3>1. IsTrail(nx, t)
        BY <1>1
      <3> QED
        BY <3>1, TrailTree DEF K
    <2> DEFINE a == BehindIn(nx, r)
               b == BehindIn(ny, r)
    <2>3. a \in Seq(Nodes) /\ Len(a) = K - 1 /\ \A i \in 1 .. K - 1 : a[i] = t[i + 1]
      BY <1>1, <2>2
    <2>4. b \in Seq(Nodes) /\ Len(b) = (K + M) - 1 /\ \A i \in 1 .. (K + M) - 1 : b[i] = z[i + 1]
      BY <1>7, <1>10, <1>12
    <2> HIDE DEF a, b
    <2>5. Len(b) = Len(a) + 1
      BY <1>3, <2>1, <2>3, <2>4
    <2>6. ASSUME NEW i \in 1 .. Len(a) PROVE b[i] = a[i]
      <3>1. i \in 1 .. K - 1 /\ i \in 1 .. (K + M) - 1 /\ i + 1 \in 1 .. K
        BY <1>3, <2>1, <2>3
      <3> QED
        BY <1>7, <2>3, <2>4, <3>1
    <2>7. b[Len(a) + 1] = u
      <3>1. Len(a) + 1 = K /\ K \in 1 .. (K + M) - 1 /\ 1 \in 1 .. M
        BY <1>3, <2>1, <2>3
      <3> QED
        BY <1>2, <1>7, <2>4, <3>1
    <2> QED
      BY <2>3, <2>4, <2>5, <2>6, <2>7 DEF a, b
  <1> QED
    BY <1>11, <1>13, <1>14

-----------------------------------------------------------------------------
(* The trails of the queue: one starts at the head h, the others at the    *)
(* nodes U of producers that have not linked them yet.  F are the nodes    *)
(* that still carry the NextNode of their former life, L the one that was  *)
(* taken out and is not freed yet.                                         *)

Linked(nx, h, U) == {n \in Nodes : \E r \in {h} \cup U : n \in Tree(nx, r)}

Forest(nx, h, U, F, L, out) ==
    /\ h \in Nodes \ U /\ U \subseteq Nodes /\ F \subseteq Nodes /\ L \subseteq Nodes
    /\ \A r \in {h} \cup U : HasTrail(nx, r)
    /\ \A r, s \in {h} \cup U : r # s => Tree(nx, r) \cap Tree(nx, s) = {}
    /\ \A n \in F : n \notin Linked(nx, h, U)
    /\ \A n \in L : n \notin Linked(nx, h, U) \cup F /\ nx[n] # Null
    /\ out = (Linked(nx, h, U) \cup F) \cup L

LEMMA RootFacts ==
    ASSUME NEW nx, NEW h, NEW U, NEW F, NEW L, NEW out, Forest(nx, h, U, F, L, out),
           NEW r \in {h} \cup U
    PROVE  /\ HasTrail(nx, r) /\ r \in Tree(nx, r)
           /\ Tree(nx, r) \subseteq Linked(nx, h, U) /\ Tree(nx, r) \subseteq Nodes
  <1>1. HasTrail(nx, r)
    BY DEF Forest
  <1>2. r \in Tree(nx, r) /\ Tree(nx, r) \subseteq Nodes
    BY <1>1, TreeFacts
  <1> QED
    BY <1>1, <1>2 DEF Linked

\* The pool hands out a node.
LEMMA Grow ==
    ASSUME NEW nx, NEW h, NEW U, NEW F, NEW L, NEW out, Forest(nx, h, U, F, L, out),
           NEW n \in Nodes \ out
    PROVE  Forest(nx, h, U, F \cup {n}, L, out \cup {n})
  <1> DEFINE K == Linked(nx, h, U)
  <1>1. out = (K \cup F) \cup L
    BY DEF Forest
  <1>2. /\ \A m \in F \cup {n} : m \notin K
        /\ \A m \in L : m \notin K \cup (F \cup {n}) /\ nx[m] # Null
        /\ out \cup {n} = (K \cup (F \cup {n})) \cup L
        /\ F \cup {n} \subseteq Nodes
    <2> HIDE DEF K
    <2>1. /\ \A m \in F : m \notin K
          /\ \A m \in L : m \notin K \cup F /\ nx[m] # Null
          /\ F \subseteq Nodes
      BY DEF Forest, K
    <2> QED
      BY <1>1, <2>1
  <1> QED
    BY <1>2 DEF Forest

\* The old dummy goes back to the pool.
LEMMA Drop ==
    ASSUME NEW nx, NEW h, NEW U, NEW F, NEW L, NEW out, Forest(nx, h, U, F, L, out)
    PROVE  Forest(nx, h, U, F, {}, out \ L)
  <1> DEFINE K == Linked(nx, h, U)
  <1>1. out \ L = (K \cup F) \cup {}
    <2>1. out = (K \cup F) \cup L /\ \A m \in L : m \notin K \cup F
      BY DEF Forest
    <2> HIDE DEF K
    <2> QED
      BY <2>1
  <1> QED
    BY <1>1 DEF Forest

\* A producer clears the NextNode of its node u.
LEMMA Sprout ==
    ASSUME NEW nx, NEW ny, NEW h, NEW U, NEW F, NEW L, NEW out, Forest(nx, h, U, F, L, out),
           NEW u \in F, ny[u] = Null, \A m \in Nodes \ {u} : ny[m] = nx[m]
    PROVE  /\ Forest(ny, h, U \cup {u}, F \ {u}, L, out)
           /\ Linked(ny, h, U \cup {u}) = Linked(nx, h, U) \cup {u}
           /\ u \notin Linked(nx, h, U)
           /\ \A r \in {h} \cup U : Tree(ny, r) = Tree(nx, r) /\ BehindIn(ny, r) = BehindIn(nx, r)
           /\ Tree(ny, u) = {u}
  <1> DEFINE K == Linked(nx, h, U)
  <1>1. /\ u \in Nodes /\ u \notin K /\ h \in Nodes \ U /\ U \subseteq Nodes /\ F \subseteq Nodes
        /\ L \subseteq Nodes /\ out = (K \cup F) \cup L /\ (\A m \in L : m \notin K \cup F /\ nx[m] # Null)
        /\ \A m \in F : m \notin K
    BY DEF Forest
  <1>2. ASSUME NEW r \in {h} \cup U
        PROVE  /\ HasTrail(nx, r) /\ r # u /\ u \notin Tree(nx, r)
               /\ HasTrail(ny, r) /\ Tree(ny, r) = Tree(nx, r) /\ BehindIn(ny, r) = BehindIn(nx, r)
    <2>1. HasTrail(nx, r) /\ r \in Tree(nx, r) /\ Tree(nx, r) \subseteq K /\ Tree(nx, r) \subseteq Nodes
      BY RootFacts
    <2> HIDE DEF K
    <2>2. u \notin Tree(nx, r) /\ r # u
      BY <1>1, <2>1
    <2>3. \A m \in Tree(nx, r) : ny[m] = nx[m]
      BY <2>1, <2>2
    <2>4. HasTrail(ny, r) /\ Tree(ny, r) = Tree(nx, r) /\ BehindIn(ny, r) = BehindIn(nx, r)
      BY <2>1, <2>3, SameTrail
    <2> QED
      BY <2>1, <2>2, <2>4
  <1>3. HasTrail(ny, u) /\ Tree(ny, u) = {u}
    BY <1>1, Single
  <1>4. Linked(ny, h, U \cup {u}) = K \cup {u}
    BY <1>1, <1>2, <1>3 DEF Linked
  <1>5. \A r, s \in {h} \cup (U \cup {u}) : r # s => Tree(ny, r) \cap Tree(ny, s) = {}
    <2>1. \A r, s \in {h} \cup U : r # s => Tree(nx, r) \cap Tree(nx, s) = {}
      BY DEF Forest
    <2> QED
      BY <1>2, <1>3, <2>1
  <1>6. \A r \in {h} \cup (U \cup {u}) : HasTrail(ny, r)
    BY <1>2, <1>3
  <1> HIDE DEF K
  <1>7. /\ h \in Nodes \ (U \cup {u}) /\ U \cup {u} \subseteq Nodes /\ F \ {u} \subseteq Nodes
        /\ \A n \in F \ {u} : n \notin K \cup {u}
        /\ \A n \in L : n \notin (K \cup {u}) \cup (F \ {u}) /\ ny[n] # Null
        /\ out = ((K \cup {u}) \cup (F \ {u})) \cup L
    <2>1. h # u
      BY <1>2
    <2>2. \A n \in L : n # u /\ n \in Nodes
      BY <1>1
    <2> QED
      BY <1>1, <2>1, <2>2
  <1>8. Forest(ny, h, U \cup {u}, F \ {u}, L, out)
    BY <1>1, <1>4, <1>5, <1>6, <1>7 DEF Forest
  <1> QED
    BY <1>1, <1>2, <1>3, <1>4, <1>8 DEF K

\* A producer links its node u behind c, the last node of another trail.
LEMMA Graft ==
    ASSUME NEW nx, NEW ny, NEW h, NEW U, NEW F, NEW L, NEW out, Forest(nx, h, U, F, L, out),
           NEW u \in U, NEW c \in Linked(nx, h, U), c \notin Tree(nx, u), nx[c] = Null, ny[c] = u,
           \A m \in Nodes \ {c} : ny[m] = nx[m]
    PROVE  /\ Forest(ny, h, U \ {u}, F, L, out)
           /\ Linked(ny, h, U \ {u}) = Linked(nx, h, U)
           /\ \A r \in {h} \cup (U \ {u}) :
                 Tree(ny, r) = IF c \in Tree(nx, r) THEN Tree(nx, r) \cup Tree(nx, u) ELSE Tree(nx, r)
  <1> DEFINE V == U \ {u}
             K == Linked(nx, h, U)
  <1>1. /\ h \in Nodes \ U /\ U \subseteq Nodes /\ F \subseteq Nodes /\ L \subseteq Nodes
        /\ \A r, s \in {h} \cup U : r # s => Tree(nx, r) \cap Tree(nx, s) = {}
        /\ \A r \in {h} \cup U : HasTrail(nx, r) /\ r \in Tree(nx, r) /\ Tree(nx, r) \subseteq Nodes
    <2>1. \A r \in {h} \cup U : HasTrail(nx, r) /\ r \in Tree(nx, r) /\ Tree(nx, r) \subseteq Nodes
      BY RootFacts
    <2> QED
      BY <2>1 DEF Forest
  <1>2. c \in Nodes /\ u \notin {h} \cup V
    BY <1>1 DEF Linked
  <1>3. ASSUME NEW r \in {h} \cup V, c \in Tree(nx, r)
        PROVE  HasTrail(ny, r) /\ Tree(ny, r) = Tree(nx, r) \cup Tree(nx, u)
    <2>1. HasTrail(nx, r) /\ HasTrail(nx, u) /\ Tree(nx, r) \cap Tree(nx, u) = {}
      BY <1>1, <1>2
    <2> QED
      BY <1>3, <2>1, JoinTrails
  <1>4. ASSUME NEW r \in {h} \cup V, c \notin Tree(nx, r)
        PROVE  HasTrail(ny, r) /\ Tree(ny, r) = Tree(nx, r)
    <2>1. HasTrail(nx, r) /\ \A m \in Tree(nx, r) : ny[m] = nx[m]
      BY <1>1, <1>4
    <2> QED
      BY <2>1, SameTrail
  <1>5. PICK b \in {h} \cup V : c \in Tree(nx, b)
    BY <1>2 DEF Linked
  <1> HIDE DEF V
  <1>6. \A r, s \in {h} \cup V : r # s => Tree(ny, r) \cap Tree(ny, s) = {}
    <2> SUFFICES ASSUME NEW r \in {h} \cup V, NEW s \in {h} \cup V, r # s
                 PROVE  Tree(ny, r) \cap Tree(ny, s) = {}
      OBVIOUS
    <2>1. /\ Tree(nx, r) \cap Tree(nx, s) = {} /\ Tree(nx, r) \cap Tree(nx, u) = {}
          /\ Tree(nx, s) \cap Tree(nx, u) = {}
      BY <1>1, <1>2 DEF V
    <2>2. ~(c \in Tree(nx, r) /\ c \in Tree(nx, s))
      BY <2>1
    <2> QED
      BY <1>3, <1>4, <2>1, <2>2
  <1>7. Linked(ny, h, V) = K
    <2>1. ASSUME NEW n \in Linked(ny, h, V) PROVE n \in K
      <3>1. PICK r \in {h} \cup V : n \in Tree(ny, r) /\ n \in Nodes
        BY <2>1 DEF Linked
      <3>2. n \in Tree(nx, r) \/ n \in Tree(nx, u)
        BY <1>3, <1>4, <3>1
      <3> QED
        BY <3>1, <3>2 DEF Linked, V
    <2>2. ASSUME NEW n \in K PROVE n \in Linked(ny, h, V)
      <3>1. PICK r \in {h} \cup U : n \in Tree(nx, r) /\ n \in Nodes
        BY <2>2 DEF Linked
      <3>2. CASE r = u
        BY <1>3, <1>5, <3>1, <3>2 DEF Linked
      <3>3. CASE r # u
        <4>1. r \in {h} \cup V
          BY <3>3 DEF V
        <4>2. n \in Tree(ny, r)
          BY <1>3, <1>4, <3>1, <4>1
        <4> QED
          BY <3>1, <4>1, <4>2 DEF Linked
      <3> QED
        BY <3>2, <3>3
    <2> QED
      BY <2>1, <2>2
  <1>8. \A r \in {h} \cup V : HasTrail(ny, r)
    BY <1>3, <1>4
  <1> HIDE DEF K
  <1>9. \A n \in L : n \notin K \cup F /\ ny[n] # Null
    <2>1. \A n \in L : n \notin K \cup F /\ nx[n] # Null /\ n \in Nodes
      BY <1>1 DEF Forest, K
    <2>2. \A n \in L : n # c
      BY <2>1
    <2> QED
      BY <2>1, <2>2
  <1>10. Forest(ny, h, V, F, L, out)
    <2>1. h \in Nodes \ V /\ V \subseteq Nodes
      BY <1>1 DEF V
    <2>2. (\A n \in F : n \notin K) /\ out = (K \cup F) \cup L
      BY DEF Forest, K
    <2> QED
      BY <1>1, <1>6, <1>7, <1>8, <1>9, <2>1, <2>2 DEF Forest
  <1> QED
    BY <1>3, <1>4, <1>7, <1>10 DEF V, K

\* The consumer swaps the head to the next node.
LEMMA Fell ==
    ASSUME NEW nx, NEW h, NEW U, NEW F, NEW out, Forest(nx, h, U, F, {}, out), nx[h] # Null
    PROVE  /\ Forest(nx, nx[h], U, F, {h}, out)
           /\ Linked(nx, nx[h], U) = Linked(nx, h, U) \ {h}
           /\ Tree(nx, nx[h]) = Tree(nx, h) \ {h}
           /\ nx[h] \in Linked(nx, h, U) /\ nx[h] \notin {h} \cup U
  <1> DEFINE g == nx[h]
             K == Linked(nx, h, U)
  <1>1. /\ h \in Nodes \ U /\ U \subseteq Nodes /\ F \subseteq Nodes
        /\ \A r, s \in {h} \cup U : r # s => Tree(nx, r) \cap Tree(nx, s) = {}
        /\ \A r \in {h} \cup U : /\ HasTrail(nx, r) /\ r \in Tree(nx, r) /\ Tree(nx, r) \subseteq Nodes
                                 /\ Tree(nx, r) \subseteq K
    <2>1. \A r \in {h} \cup U : /\ HasTrail(nx, r) /\ r \in Tree(nx, r)
                                 /\ Tree(nx, r) \subseteq Nodes /\ Tree(nx, r) \subseteq K
      BY RootFacts
    <2> HIDE DEF K
    <2> QED
      BY <2>1 DEF Forest
  <1>2. HasTrail(nx, g) /\ Tree(nx, g) = Tree(nx, h) \ {h} /\ g \in Tree(nx, h) \ {h}
    BY <1>1, CutTrail, TreeFacts
  <1>3. g \in Nodes \ U /\ g \in K /\ g # h
    <2>1. \A r \in U : r # h /\ Tree(nx, r) \cap Tree(nx, h) = {} /\ r \in Tree(nx, r)
      BY <1>1
    <2> HIDE DEF g, K
    <2> QED
      BY <1>1, <1>2, <2>1
  <1>4. Linked(nx, g, U) = K \ {h}
    <2>1. \A r \in U : h \notin Tree(nx, r)
      <3>1. \A r \in U : r # h /\ Tree(nx, r) \cap Tree(nx, h) = {} /\ h \in Tree(nx, h)
        BY <1>1
      <3> QED
        BY <3>1
    <2> HIDE DEF g
    <2> QED
      BY <1>2, <2>1 DEF Linked
  <1> HIDE DEF K, g
  <1>5. \A r, s \in {g} \cup U : r # s => Tree(nx, r) \cap Tree(nx, s) = {}
    <2> SUFFICES ASSUME NEW r \in {g} \cup U, NEW s \in {g} \cup U, r # s
                 PROVE  Tree(nx, r) \cap Tree(nx, s) = {}
      OBVIOUS
    <2>1. \A q \in U : Tree(nx, q) \cap Tree(nx, h) = {}
      BY <1>1
    <2>2. \A q \in U : Tree(nx, q) \cap Tree(nx, g) = {}
      BY <1>2, <2>1
    <2> QED
      BY <1>1, <2>2
  <1>6. /\ \A n \in F : n \notin K \ {h}
        /\ h \notin (K \ {h}) \cup F
        /\ out = ((K \ {h}) \cup F) \cup {h}
    <2>1. (\A n \in F : n \notin K) /\ out = (K \cup F) \cup {} /\ h \in K
      BY <1>1 DEF Forest, K
    <2> QED
      BY <2>1
  <1>7. Forest(nx, g, U, F, {h}, out)
    <2>1. nx[h] # Null /\ \A r \in {g} \cup U : HasTrail(nx, r)
      BY <1>1, <1>2
    <2> QED
      BY <1>1, <1>3, <1>4, <1>5, <1>6, <2>1 DEF Forest
  <1> QED
    BY <1>2, <1>3, <1>4, <1>7 DEF g, K

-----------------------------------------------------------------------------
(* The inductive invariant, part by part.                                  *)

New(p)   == enq[p].new
Fresh    == {p \in Producers : pc[p] = "null"}
Unlinked == {p \in Producers : pc[p] \in {"count", "tag", "again", "next", "link", "help", "helped"}}
Drawn    == {p \in Producers : pc[p] \in {"tag", "again", "next", "link", "help", "helped"}}
Pending  == Drawn \cup {p \in Producers : pc[p] \in {"size", "swing", "swap"}}
Seen     == {p \in Pending : pc[p] # "tag"}
Hooks    == {New(p) : p \in Unlinked}
Buds     == {New(p) : p \in Fresh}
Leaving  == IF cpc = "free" THEN {deq.head.node} ELSE {}
Chained  == Linked(next, head.node, Hooks)

\* The nodes handed out are in disjoint trails, or new, or on their way out.  The node in a
\* producer's copy of the tail may have been taken and reused since, but then it is in a
\* trail again, or still has the NextNode it had.
ForestInv ==
    /\ Forest(next, head.node, Hooks, Buds, Leaving, used)
    /\ \A p, q \in Unlinked \cup Fresh : New(p) = New(q) => p = q
    /\ \A p \in Pending : enq[p].clone.node \in Nodes
    /\ \A p \in Drawn : enq[p].clone.node \in Chained \/ next[enq[p].clone.node] # Null

\* A producer whose copy names a node not linked yet saw it in the list before it was reused:
\* its number is older than that of the thread the node belongs to now.  So nobody links a
\* trail behind itself.
OrderInv == \A p, q \in Drawn :
    enq[p].clone.node \in Tree(next, New(q)) => enq[p].number < enq[q].number

\* A number is drawn once: one still to be stored is none that was read.
SeesTail == cpc \in {"next", "test", "help", "helped", "data", "swap"}
NumbersInv ==
    /\ tail.count \in 0 .. tailCount
    /\ \A p \in Pending : enq[p].number \in 0 .. tailCount /\ enq[p].number # tail.count
    /\ \A p \in Seen : enq[p].clone.count \in 0 .. tailCount
    /\ \A p, q \in Pending : p # q => enq[p].number # enq[q].number
    /\ \A p \in Pending, q \in Seen : enq[p].number # enq[q].clone.count
    /\ SeesTail => /\ deq.tail.count \in 0 .. tailCount
                   /\ \A p \in Pending : enq[p].number # deq.tail.count
    /\ cpc = "helped" => /\ deq.tnumber \in 0 .. tailCount
                         /\ deq.tnumber # tail.count /\ deq.tnumber # deq.tail.count
                         /\ \A p \in Pending : enq[p].number # deq.tnumber
                         /\ \A p \in Seen : enq[p].clone.count # deq.tnumber

\* While the tail is the one a thread read, what it found behind it is still there.
TailInv ==
    /\ tail.node \in Tree(next, head.node)
    /\ \A p \in Seen : tail = enq[p].clone =>
          /\ pc[p] = "next" => enq[p].at = tail.node
          /\ pc[p] \in {"help", "helped", "size", "swing", "swap"} => next[tail.node] # Null
          /\ pc[p] \in {"helped", "swap"} => enq[p].succ = next[tail.node]
    /\ \A p \in Producers : pc[p] = "next" => enq[p].at \in Nodes
    /\ cpc \in {"help", "helped"} /\ tail = deq.tail => next[tail.node] # Null
    /\ cpc = "helped" /\ tail = deq.tail => deq.succ = next[tail.node]

\* Only the consumer moves the head, and the tail does not come back to it.
Behindhand == {"tailcount", "next", "test", "help", "helped", "data", "swap"}
DequeueInv ==
    /\ cpc \in Behindhand \cup {"tail"} => deq.head = head
    /\ cpc \in Behindhand => deq.tail.node \in Nodes
    /\ cpc \in Behindhand /\ deq.tail.node # head.node => tail.node # head.node
    /\ cpc \in {"help", "helped", "data", "swap"} => deq.tail.node # head.node
    /\ cpc \in {"test", "data", "swap"} /\ deq.tail.node # head.node =>
          deq.succ = next[head.node] /\ deq.succ # Null
    /\ cpc = "swap" => deq.got = data[deq.succ]
    /\ cpc \in {"free", "size"} => deq.head.node \in Nodes

\* Every value whose Enqueue was called is in one place: in a node that is not the dummy, or taken.
Live == {n \in Nodes : (n \in Chained /\ n # head.node) \/ n \in Buds}
ValuesInv ==
    /\ \A m, n \in Live : data[m] = data[n] => m = n
    /\ \A n \in Live : data[n] \in Begun /\ \A i \in 1 .. Len(log) : log[i] # data[n]
    /\ \A i, j \in 1 .. Len(log) : log[i] = log[j] => i = j
    /\ \A i \in 1 .. Len(log) : log[i] \in Begun
    /\ \A v \in Begun : (\E n \in Live : data[n] = v) \/ (\E i \in 1 .. Len(log) : log[i] = v)
    /\ \A p \in Unlinked \cup Fresh : data[New(p)] = <<p, puts[p]>> /\ puts[p] >= 1

\* m_lSize is the number of nodes linked behind others, up to the calls that have not counted.
Behinds == {n \in Nodes : n \in Chained /\ n # head.node /\ n \notin Hooks}
CountInv == size = Cardinality(Behinds) - Uncounted + (IF cpc \in {"free", "size"} THEN 1 ELSE 0)

Inv == ForestInv /\ OrderInv /\ NumbersInv /\ TailInv /\ DequeueInv /\ ValuesInv /\ CountInv

-----------------------------------------------------------------------------
(* What the actions do.                                                    *)

LEMMA Distinct == Null \notin Nodes /\ Dummy \in Nodes /\ NoTop \in Top /\ NoEnq \in Enq /\ NoDeq \in Deq
  BY NullIsNoNode, DummyIsNode DEF NoTop, NoEnq, NoDeq, Top, Enq, Deq, Pointer

\* A producer changes its own locals only.
Alone(p) ==
    /\ \A q \in Producers \ {p} : pc'[q] = pc[q] /\ enq'[q] = enq[q] /\ puts'[q] = puts[q]
    /\ head' = head /\ headCount' = headCount
    /\ cpc' = cpc /\ deq' = deq /\ owed' = owed /\ log' = log

LEMMA GotoFacts ==
    ASSUME TypeOK, NEW p \in Producers, NEW f, NEW t, Goto(p, f, t)
    PROVE  /\ pc[p] = f /\ pc'[p] = t /\ \A q \in Producers \ {p} : pc'[q] = pc[q]
           /\ cpc' = cpc /\ deq' = deq /\ owed' = owed /\ log' = log
  BY DEF TypeOK, Goto, taker

LEMMA AllocFacts ==
    ASSUME TypeOK, NEW p \in Producers, EnqAlloc(p)
    PROVE  /\ Alone(p) /\ pc[p] = "idle" /\ pc'[p] = "null"
           /\ puts'[p] = puts[p] + 1 /\ Cardinality(Begun) < MaxPut
           /\ enq'[p].new \in Nodes \ used /\ enq'[p] = [enq[p] EXCEPT !.new = enq'[p].new]
           /\ used' = used \cup {enq'[p].new}
           /\ data'[enq'[p].new] = <<p, puts[p] + 1>>
           /\ \A m \in Nodes \ {enq'[p].new} : data'[m] = data[m]
           /\ tail' = tail /\ next' = next /\ size' = size /\ tailCount' = tailCount
  <1>1. PICK n \in Nodes : /\ NodePool!Alloc(n) /\ enq' = [enq EXCEPT ![p].new = n]
                           /\ data' = [data EXCEPT ![n] = <<p, puts[p] + 1>>]
    BY DEF EnqAlloc
  <1>2. n \notin used /\ used' = used \cup {n}
    BY <1>1 DEF NodePool!Alloc
  <1>3. /\ pc[p] = "idle" /\ pc'[p] = "null" /\ \A q \in Producers \ {p} : pc'[q] = pc[q]
        /\ cpc' = cpc /\ deq' = deq /\ owed' = owed /\ log' = log
    BY GotoFacts DEF EnqAlloc
  <1>4. enq'[p].new = n /\ enq'[p] = [enq[p] EXCEPT !.new = n] /\ \A q \in Producers \ {p} : enq'[q] = enq[q]
    BY <1>1 DEF TypeOK, Enq
  <1>5. data'[n] = <<p, puts[p] + 1>> /\ \A m \in Nodes \ {n} : data'[m] = data[m]
    BY <1>1 DEF TypeOK
  <1>6. puts'[p] = puts[p] + 1 /\ \A q \in Producers \ {p} : puts'[q] = puts[q]
    BY DEF TypeOK, EnqAlloc
  <1> QED
    BY <1>2, <1>3, <1>4, <1>5, <1>6 DEF EnqAlloc, Alone, counts

LEMMA NullFacts ==
    ASSUME TypeOK, NEW p \in Producers, EnqNull(p)
    PROVE  /\ Alone(p) /\ pc[p] = "null" /\ pc'[p] = "count" /\ enq' = enq
           /\ next' = [next EXCEPT ![enq[p].new] = Null]
           /\ UNCHANGED <<tail, data, size, tailCount, used, puts>>
  BY GotoFacts DEF EnqNull, Alone, counts

LEMMA ReadNodeFacts ==
    ASSUME TypeOK, NEW p \in Producers, EnqReadNode(p)
    PROVE  /\ Alone(p) /\ pc[p] = "count" /\ pc'[p] = "tag" /\ enq'[p].new = enq[p].new
           /\ enq'[p].number = tailCount + 1 /\ enq'[p].clone.node = tail.node
           /\ enq'[p] \in Enq
           /\ tailCount' = tailCount + 1
           /\ UNCHANGED <<tail, next, data, size, used, puts>>
  <1>1. enq' = [enq EXCEPT ![p].number = tailCount + 1, ![p].clone.node = tail.node]
    BY DEF EnqReadNode
  <1>2. /\ enq'[p].new = enq[p].new /\ enq'[p].number = tailCount + 1
        /\ enq'[p].clone.node = tail.node /\ enq'[p] \in Enq
        /\ \A q \in Producers \ {p} : enq'[q] = enq[q]
    <2>1. enq[p] \in Enq /\ tail.node \in Pointer /\ tailCount + 1 \in Nat
      BY DEF TypeOK, Top
    <2> DEFINE c == tail.node
               f == [enq EXCEPT ![p].number = tailCount + 1]
    <2>4. /\ enq' = [f EXCEPT ![p].clone.node = c] /\ f \in [Producers -> Enq]
          /\ f[p].new = enq[p].new /\ f[p].number = tailCount + 1 /\ f[p].clone = enq[p].clone
          /\ \A q \in Producers \ {p} : f[q] = enq[q]
      <3>1. enq' = [f EXCEPT ![p].clone.node = c]
        BY <1>1
      <3>2. enq \in [Producers -> Enq] /\ tailCount + 1 \in Nat
        BY DEF TypeOK
      <3> QED
        BY <3>1, <3>2 DEF Enq
    <2>5. c \in Pointer
      BY <2>1
    <2> HIDE DEF c, f
    <2>6. /\ enq'[p].new = f[p].new /\ enq'[p].number = f[p].number
          /\ enq'[p].clone.node = c /\ enq'[p] \in Enq
          /\ \A q \in Producers \ {p} : enq'[q] = f[q]
      BY <2>4, <2>5 DEF Enq, Top
    <2> QED
      BY <2>4, <2>6 DEF c
  <1> QED
    <2>1. Goto(p, "count", "tag")
      BY DEF EnqReadNode
    <2>2. /\ pc[p] = "count" /\ pc'[p] = "tag" /\ \A q \in Producers \ {p} : pc'[q] = pc[q]
          /\ cpc' = cpc /\ deq' = deq /\ owed' = owed /\ log' = log
      BY <2>1, GotoFacts
    <2>3. /\ tailCount' = tailCount + 1 /\ head' = head /\ headCount' = headCount
          /\ UNCHANGED <<tail, next, data, size, used, puts>>
      BY DEF EnqReadNode
    <2> QED
      BY <1>2, <2>2, <2>3 DEF Alone

LEMMA ReadCountFacts ==
    ASSUME TypeOK, NEW p \in Producers, EnqReadCount(p)
    PROVE  /\ Alone(p) /\ pc[p] = "tag" /\ pc'[p] = "again"
           /\ enq'[p].new = enq[p].new /\ enq'[p].number = enq[p].number
           /\ enq'[p].clone.node = enq[p].clone.node /\ enq'[p].clone.count = tail.count
           /\ enq'[p] \in Enq
           /\ UNCHANGED <<tail, next, data, size, tailCount, used, puts>>
  <1>1. enq' = [enq EXCEPT ![p].clone.count = tail.count]
    BY DEF EnqReadCount
  <1>2. /\ enq'[p].new = enq[p].new /\ enq'[p].number = enq[p].number
        /\ enq'[p].clone.node = enq[p].clone.node /\ enq'[p].clone.count = tail.count
        /\ enq'[p] \in Enq /\ \A q \in Producers \ {p} : enq'[q] = enq[q]
    BY <1>1 DEF TypeOK, Enq, Top
  <1> QED
    BY <1>2, GotoFacts DEF EnqReadCount, Alone, shared, counts

LEMMA ReadAgainFacts ==
    ASSUME TypeOK, NEW p \in Producers, EnqReadAgain(p)
    PROVE  /\ Alone(p) /\ pc[p] = "again" /\ pc'[p] = "next"
           /\ enq'[p] = [enq[p] EXCEPT !.at = tail.node] /\ enq'[p] \in Enq
           /\ enq'[p].at = tail.node /\ enq'[p].new = enq[p].new /\ enq'[p].number = enq[p].number
           /\ enq'[p].clone = enq[p].clone
           /\ UNCHANGED <<tail, next, data, size, tailCount, used, puts>>
  <1>1. enq' = [enq EXCEPT ![p].at = tail.node]
    BY DEF EnqReadAgain
  <1>2. /\ enq'[p] = [enq[p] EXCEPT !.at = tail.node] /\ enq'[p] \in Enq
        /\ enq'[p].at = tail.node /\ enq'[p].new = enq[p].new /\ enq'[p].number = enq[p].number
        /\ enq'[p].clone = enq[p].clone /\ \A q \in Producers \ {p} : enq'[q] = enq[q]
    BY <1>1 DEF TypeOK, Enq, Top
  <1> QED
    BY <1>2, GotoFacts DEF EnqReadAgain, Alone, shared, counts

LEMMA ReadNextFacts ==
    ASSUME TypeOK, NEW p \in Producers, EnqReadNext(p)
    PROVE  /\ Alone(p) /\ pc[p] = "next"
           /\ pc'[p] = IF next[enq[p].at] = Null THEN "link" ELSE "help"
           /\ enq'[p].new = enq[p].new /\ enq'[p].number = enq[p].number
           /\ enq'[p].clone = enq[p].clone /\ enq'[p] \in Enq
           /\ UNCHANGED <<tail, next, data, size, tailCount, used, puts>>
  <1>1. enq' = [enq EXCEPT ![p].at = Null]
    BY DEF EnqReadNext
  <1>2. /\ enq'[p].new = enq[p].new /\ enq'[p].number = enq[p].number /\ enq'[p] \in Enq
        /\ enq'[p].clone = enq[p].clone /\ \A q \in Producers \ {p} : enq'[q] = enq[q]
    BY <1>1 DEF TypeOK, Enq, Top, Pointer
  <1> QED
    BY <1>2, GotoFacts DEF EnqReadNext, Alone, shared, counts

\* The first swap succeeds.
Linking(p) ==
    /\ pc[p] = "link" /\ pc'[p] = "size"
    /\ next[enq[p].clone.node] = Null
    /\ next' = [next EXCEPT ![enq[p].clone.node] = enq[p].new]

LEMMA LinkFacts ==
    ASSUME TypeOK, NEW p \in Producers, EnqLink(p)
    PROVE  /\ Alone(p) /\ enq' = enq /\ UNCHANGED <<tail, data, size, tailCount, used, puts>>
           /\ \/ Linking(p)
              \/ pc[p] = "link" /\ pc'[p] = "count" /\ next' = next
  <1>1. CASE Goto(p, "link", "size") /\ next[enq[p].clone.node] = Null
             /\ next' = [next EXCEPT ![enq[p].clone.node] = enq[p].new]
    BY <1>1, GotoFacts DEF EnqLink, Alone, counts, Linking
  <1>2. CASE Goto(p, "link", "count") /\ next' = next
    BY <1>2, GotoFacts DEF EnqLink, Alone, counts
  <1> QED
    BY <1>1, <1>2 DEF EnqLink

LEMMA SizeFacts ==
    ASSUME TypeOK, NEW p \in Producers, EnqSize(p)
    PROVE  /\ Alone(p) /\ pc[p] = "size" /\ pc'[p] = "swing" /\ enq' = enq /\ size' = size + 1
           /\ UNCHANGED <<tail, next, data, tailCount, used, puts>>
  BY GotoFacts DEF EnqSize, Alone

LEMMA ReadSuccFacts ==
    ASSUME TypeOK, NEW p \in Producers, EnqReadSucc(p)
    PROVE  /\ Alone(p)
           /\ (pc[p] = "swing" /\ pc'[p] = "swap") \/ (pc[p] = "help" /\ pc'[p] = "helped")
           /\ enq'[p] = [enq[p] EXCEPT !.succ = next[enq[p].clone.node]]
           /\ enq'[p].new = enq[p].new /\ enq'[p].number = enq[p].number
           /\ enq'[p].clone = enq[p].clone /\ enq'[p].succ = next[enq[p].clone.node]
           /\ UNCHANGED <<tail, next, data, size, tailCount, used, puts>>
  <1>1. enq' = [enq EXCEPT ![p].succ = next[enq[p].clone.node]]
    BY DEF EnqReadSucc
  <1>2. /\ enq'[p] = [enq[p] EXCEPT !.succ = next[enq[p].clone.node]]
        /\ enq'[p].new = enq[p].new /\ enq'[p].number = enq[p].number
        /\ enq'[p].clone = enq[p].clone /\ enq'[p].succ = next[enq[p].clone.node]
        /\ \A q \in Producers \ {p} : enq'[q] = enq[q]
    <2> DEFINE v == next[enq[p].clone.node]
    <2>1. enq' = [enq EXCEPT ![p].succ = v] /\ enq \in [Producers -> Enq]
      BY <1>1 DEF TypeOK
    <2> HIDE DEF v
    <2>2. enq'[p] = [enq[p] EXCEPT !.succ = v] /\ \A q \in Producers \ {p} : enq'[q] = enq[q]
      BY <2>1
    <2>3. enq[p] \in Enq
      BY <2>1
    <2>4. /\ enq'[p].new = enq[p].new /\ enq'[p].number = enq[p].number
          /\ enq'[p].clone = enq[p].clone /\ enq'[p].succ = v
      BY <2>2, <2>3 DEF Enq
    <2> QED
      BY <2>2, <2>4 DEF v
  <1> QED
    BY <1>2, GotoFacts DEF EnqReadSucc, Alone, shared, counts

LEMMA SwapFacts ==
    ASSUME TypeOK, NEW p \in Producers, EnqSwap(p)
    PROVE  /\ Alone(p) /\ pc[p] = "swap" /\ pc'[p] = "idle" /\ enq'[p] = NoEnq
           /\ MoveTail(enq[p].clone, enq[p].succ, enq[p].number)
           /\ UNCHANGED <<next, data, size, tailCount, used, puts>>
  BY GotoFacts DEF EnqSwap, Alone, counts, TypeOK

LEMMA HelpFacts ==
    ASSUME TypeOK, NEW p \in Producers, EnqHelp(p)
    PROVE  /\ Alone(p) /\ pc[p] = "helped" /\ pc'[p] = "count"
           /\ enq'[p] = [NoEnq EXCEPT !.new = enq[p].new] /\ enq'[p].new = enq[p].new
           /\ MoveTail(enq[p].clone, enq[p].succ, enq[p].number)
           /\ UNCHANGED <<next, data, size, tailCount, used, puts>>
  <1>1. enq' = [enq EXCEPT ![p] = [NoEnq EXCEPT !.new = enq[p].new]]
    BY DEF EnqHelp
  <1>2. /\ enq'[p] = [NoEnq EXCEPT !.new = enq[p].new] /\ enq'[p].new = enq[p].new
        /\ \A q \in Producers \ {p} : enq'[q] = enq[q]
    BY <1>1 DEF TypeOK, Enq, NoEnq
  <1> QED
    BY <1>2, GotoFacts DEF EnqHelp, Alone, counts

\* A step that neither hands out, links or takes a node, nor frees one.
Still ==
    /\ head' = head /\ next' = next /\ data' = data /\ used' = used /\ puts' = puts /\ log' = log
    /\ Unlinked' = Unlinked /\ Fresh' = Fresh /\ Leaving' = Leaving
    /\ \A q \in Unlinked \cup Fresh : New(q)' = New(q)

\* The labels at which a producer has a node to link, and those at which it has none.
Holding == {"count", "tag", "again", "next", "link", "help", "helped"}
Free    == {"idle", "size", "swing", "swap"}
Passing(p) ==
    /\ Alone(p) /\ next' = next /\ data' = data /\ used' = used /\ puts' = puts
    /\ \/ pc[p] \in Holding /\ pc'[p] \in Holding /\ enq'[p].new = enq[p].new
       \/ pc[p] \in Free /\ pc'[p] \in Free

LEMMA PassingIsStill ==
    ASSUME NEW p \in Producers, Passing(p)
    PROVE  Still
  <1>1. Unlinked' = Unlinked
    BY DEF Passing, Alone, Unlinked, Holding, Free
  <1>2. Fresh' = Fresh
    BY DEF Passing, Alone, Fresh, Holding, Free
  <1>3. Leaving' = Leaving
    BY DEF Passing, Alone, Leaving
  <1>4. \A q \in Unlinked \cup Fresh : New(q)' = New(q)
    BY DEF Passing, Alone, Unlinked, Fresh, Holding, Free, New
  <1> QED
    BY <1>1, <1>2, <1>3, <1>4 DEF Passing, Alone, Still

LEMMA EnqueueSteps ==
    ASSUME TypeOK, NEW p \in Producers, EnqueueStep(p)
    PROVE  EnqNull(p) \/ (EnqLink(p) /\ Linking(p)) \/ Passing(p)
  <1>1. CASE EnqReadNode(p)
    BY <1>1, ReadNodeFacts DEF Passing, Holding
  <1>2. CASE EnqReadCount(p)
    BY <1>2, ReadCountFacts DEF Passing, Holding
  <1>3. CASE EnqReadAgain(p)
    BY <1>3, ReadAgainFacts DEF Passing, Holding
  <1>4. CASE EnqReadNext(p)
    BY <1>4, ReadNextFacts DEF Passing, Holding
  <1>5. CASE EnqLink(p)
    BY <1>5, LinkFacts DEF Passing, Holding
  <1>6. CASE EnqSize(p)
    BY <1>6, SizeFacts DEF Passing, Free
  <1>7. CASE EnqReadSucc(p)
    BY <1>7, ReadSuccFacts DEF Passing, Holding, Free
  <1>8. CASE EnqSwap(p)
    BY <1>8, SwapFacts DEF Passing, Free
  <1>9. CASE EnqHelp(p)
    BY <1>9, HelpFacts DEF Passing, Holding
  <1> QED
    BY <1>1, <1>2, <1>3, <1>4, <1>5, <1>6, <1>7, <1>8, <1>9 DEF EnqueueStep

\* What the structure is made of stays as it is.
LEMMA StillSets ==
    ASSUME Still
    PROVE  Hooks' = Hooks /\ Buds' = Buds /\ Chained' = Chained /\ Live' = Live /\ Behinds' = Behinds
  <1>1. Hooks' = Hooks
    <2>1. /\ \A x \in Hooks : x \in Hooks'
          /\ \A x \in Hooks' : x \in Hooks
      BY DEF Still, Hooks
    <2> QED
      BY <2>1
  <1>2. Buds' = Buds
    <2>1. /\ \A x \in Buds : x \in Buds'
          /\ \A x \in Buds' : x \in Buds
      BY DEF Still, Buds
    <2> QED
      BY <2>1
  <1>3. Chained' = Chained
    BY <1>1 DEF Still, Chained
  <1>4. Live' = Live
    BY <1>2, <1>3 DEF Still, Live
  <1>5. Behinds' = Behinds
    BY <1>1, <1>3 DEF Still, Behinds
  <1> QED
    BY <1>1, <1>2, <1>3, <1>4, <1>5

LEMMA StillForest ==
    ASSUME Still, Forest(next, head.node, Hooks, Buds, Leaving, used),
           \A p, q \in Unlinked \cup Fresh : New(p) = New(q) => p = q
    PROVE  /\ Forest(next', head'.node, Hooks', Buds', Leaving', used')
           /\ \A p, q \in Unlinked' \cup Fresh' : New(p)' = New(q)' => p = q
  <1>1. Forest(next', head'.node, Hooks', Buds', Leaving', used')
    BY StillSets DEF Still
  <1>2. \A p, q \in Unlinked' \cup Fresh' : New(p)' = New(q)' => p = q
    BY DEF Still
  <1> QED
    BY <1>1, <1>2

LEMMA StillValues ==
    ASSUME Still, ValuesInv
    PROVE  ValuesInv'
  <1>1. Begun' = Begun /\ Live' = Live
    BY StillSets DEF Still, Begun
  <1> QED
    BY <1>1 DEF Still, ValuesInv

LEMMA Places ==
    ASSUME ForestInv
    PROVE  /\ head.node \in Chained /\ head.node \notin Hooks /\ head.node \notin Buds
           /\ Hooks \subseteq Chained /\ Chained \subseteq used /\ Buds \subseteq used
           /\ Chained \subseteq Nodes /\ used \subseteq Nodes /\ Buds \subseteq Nodes
           /\ \A n \in Buds : n \notin Chained
           /\ \A n \in Leaving : n \notin Chained /\ n \notin Buds /\ next[n] # Null
           /\ \A r \in {head.node} \cup Hooks : HasTrail(next, r) /\ r \in Tree(next, r)
                                                /\ Tree(next, r) \subseteq Chained
           /\ \A r, s \in {head.node} \cup Hooks : r # s => Tree(next, r) \cap Tree(next, s) = {}
           /\ \A q \in Unlinked : New(q) \in Hooks
           /\ \A q \in Fresh : New(q) \in Buds
  <1> DEFINE H == Hooks
             B == Buds
             Y == Leaving
             h == head.node
  <1>1. Forest(next, h, H, B, Y, used)
    BY DEF ForestInv
  <1>2. \A r \in {h} \cup H : HasTrail(next, r) /\ r \in Tree(next, r) /\ Tree(next, r) \subseteq Chained
    <2>1. \A r \in {h} \cup H : HasTrail(next, r) /\ r \in Tree(next, r)
                                /\ Tree(next, r) \subseteq Linked(next, h, H)
      <3> HIDE DEF H, B, Y, h
      <3> QED
        BY <1>1, RootFacts
    <2> QED
      BY <2>1 DEF Chained
  <1>3. h \in Chained /\ H \subseteq Chained
    <2> HIDE DEF H, h
    <2> QED
      BY <1>2
  <1>4. /\ h \in Nodes \ H /\ H \subseteq Nodes /\ B \subseteq Nodes /\ Y \subseteq Nodes
        /\ \A r, s \in {h} \cup H : r # s => Tree(next, r) \cap Tree(next, s) = {}
        /\ \A n \in B : n \notin Chained
        /\ \A n \in Y : n \notin Chained \cup B /\ next[n] # Null
        /\ used = (Chained \cup B) \cup Y
    <2>1. Chained = Linked(next, h, H)
      BY DEF Chained
    <2> HIDE DEF H, B, Y, h
    <2> QED
      BY <1>1, <2>1 DEF Forest
  <1>5. Chained \subseteq Nodes
    BY DEF Chained, Linked
  <1>6. /\ \A q \in Unlinked : New(q) \in Hooks
        /\ \A q \in Fresh : New(q) \in Buds
    BY DEF Hooks, Buds
  <1>7. h \notin B /\ used \subseteq Nodes /\ Chained \subseteq used /\ B \subseteq used
    <2> HIDE DEF H, B, Y, h
    <2> QED
      BY <1>3, <1>4, <1>5
  <1> QED
    BY <1>2, <1>3, <1>4, <1>5, <1>6, <1>7

LEMMA AllocSets ==
    ASSUME TypeOK, ForestInv, NEW p \in Producers, EnqAlloc(p)
    PROVE  /\ Forest(next', head'.node, Hooks', Buds', Leaving', used')
           /\ \A q, r \in Unlinked' \cup Fresh' : New(q)' = New(r)' => q = r
           /\ Hooks' = Hooks /\ Unlinked' = Unlinked /\ Chained' = Chained
           /\ Fresh' = Fresh \cup {p} /\ p \notin Fresh \cup Unlinked
           /\ \A q \in Unlinked \cup Fresh : New(q)' = New(q)
           /\ Buds' = Buds \cup {New(p)'} /\ New(p)' \in Nodes \ used
           /\ Live' = Live \cup {New(p)'} /\ New(p)' \notin Live
           /\ Behinds' = Behinds
  <1> DEFINE n == New(p)'
  <1>1. /\ Alone(p) /\ pc[p] = "idle" /\ pc'[p] = "null" /\ n \in Nodes \ used
        /\ used' = used \cup {n} /\ next' = next
    BY AllocFacts DEF New
  <1>2. /\ Unlinked' = Unlinked /\ Fresh' = Fresh \cup {p} /\ p \notin Fresh \cup Unlinked
        /\ \A q \in Unlinked \cup Fresh : New(q)' = New(q)
    BY <1>1 DEF Alone, Unlinked, Fresh, New
  <1>3. Hooks' = Hooks
    <2>1. /\ \A x \in Hooks : x \in Hooks'
          /\ \A x \in Hooks' : x \in Hooks
      BY <1>2 DEF Hooks
    <2> QED
      BY <2>1
  <1>4. Buds' = Buds \cup {n}
    <2>1. /\ \A x \in Buds : x \in Buds'
          /\ n \in Buds'
          /\ \A x \in Buds' : x \in Buds \/ x = n
      BY <1>2 DEF Buds
    <2> QED
      BY <2>1
  <1>5. Leaving' = Leaving /\ head' = head
    BY <1>1 DEF Alone, Leaving
  <1>6. Chained' = Chained
    BY <1>1, <1>3, <1>5 DEF Chained
  <1> HIDE DEF n
  <1>7. Forest(next', head'.node, Hooks', Buds', Leaving', used')
    <2>1. Forest(next, head.node, Hooks, Buds \cup {n}, Leaving, used \cup {n})
      BY <1>1, Grow DEF ForestInv
    <2> QED
      BY <1>1, <1>3, <1>4, <1>5, <2>1
  <1>8. \A q, r \in Unlinked' \cup Fresh' : New(q)' = New(r)' => q = r
    <2>1. \A q \in Unlinked \cup Fresh : New(q) \in used
      BY Places
    <2>2. \A q, r \in Unlinked \cup Fresh : New(q) = New(r) => q = r
      BY DEF ForestInv
    <2>3. n = New(p)'
      BY DEF n
    <2> QED
      BY <1>1, <1>2, <2>1, <2>2, <2>3
  <1>9. Live' = Live \cup {n} /\ n \notin Live
    <2>1. Chained \subseteq used /\ Buds \subseteq used
      BY Places
    <2>2. Live' = {m \in Nodes : (m \in Chained /\ m # head.node) \/ m \in Buds \cup {n}}
      BY <1>4, <1>5, <1>6 DEF Live
    <2> QED
      BY <1>1, <2>1, <2>2 DEF Live
  <1>10. Behinds' = Behinds
    BY <1>3, <1>5, <1>6 DEF Behinds
  <1> QED
    BY <1>1, <1>2, <1>3, <1>4, <1>6, <1>7, <1>8, <1>9, <1>10 DEF n

LEMMA NullSets ==
    ASSUME TypeOK, ForestInv, NEW p \in Producers, EnqNull(p)
    PROVE  /\ Forest(next', head'.node, Hooks', Buds', Leaving', used')
           /\ \A q, r \in Unlinked' \cup Fresh' : New(q)' = New(r)' => q = r
           /\ Unlinked' = Unlinked \cup {p} /\ p \notin Unlinked /\ p \in Fresh
           /\ Unlinked' \cup Fresh' = Unlinked \cup Fresh
           /\ \A q \in Producers : New(q)' = New(q)
           /\ Chained' = Chained \cup {New(p)} /\ New(p) \in Nodes \ Chained
           /\ \A m \in Nodes \ {New(p)} : next'[m] = next[m]
           /\ \A r \in {head.node} \cup Hooks : Tree(next', r) = Tree(next, r)
           /\ Tree(next', New(p)) = {New(p)}
           /\ Live' = Live
           /\ Behinds' = Behinds
  <1> DEFINE u == New(p)
             H == Hooks
             B == Buds
             Y == Leaving
             h == head.node
  <1>1. /\ Alone(p) /\ pc[p] = "null" /\ pc'[p] = "count" /\ enq' = enq
        /\ next' = [next EXCEPT ![u] = Null] /\ used' = used
    BY NullFacts DEF New
  <1>2. /\ Unlinked' = Unlinked \cup {p} /\ Fresh' = Fresh \ {p} /\ p \in Fresh /\ p \notin Unlinked
        /\ \A q \in Producers : New(q)' = New(q)
        /\ Unlinked' \cup Fresh' = Unlinked \cup Fresh
    BY <1>1 DEF Alone, Unlinked, Fresh, New
  <1>3. u \in Buds /\ u \in Nodes /\ u \notin Chained
    BY <1>2, Places
  <1>4. Hooks' = Hooks \cup {u}
    <2>1. /\ \A x \in Hooks : x \in Hooks'
          /\ u \in Hooks'
          /\ \A x \in Hooks' : x \in Hooks \/ x = u
      BY <1>2 DEF Hooks, Unlinked
    <2> QED
      BY <2>1
  <1>5. Buds' = Buds \ {u}
    <2>1. \A q \in Fresh : New(q) = u => q = p
      BY <1>2 DEF ForestInv
    <2>2. /\ \A x \in Buds : x # u => x \in Buds'
          /\ \A x \in Buds' : x \in Buds /\ x # u
      BY <1>2, <2>1 DEF Buds, Fresh
    <2> QED
      BY <2>2
  <1>6. Leaving' = Leaving /\ head' = head
    BY <1>1 DEF Alone, Leaving
  <1>7. next'[u] = Null /\ \A m \in Nodes \ {u} : next'[m] = next[m]
    BY <1>1, <1>3 DEF TypeOK
  <1>8. Forest(next, h, H, B, Y, used) /\ u \in B
    BY <1>3 DEF ForestInv
  <1>9. /\ Forest(next', h, H \cup {u}, B \ {u}, Y, used)
        /\ Linked(next', h, H \cup {u}) = Linked(next, h, H) \cup {u}
        /\ \A r \in {h} \cup H : Tree(next', r) = Tree(next, r)
        /\ Tree(next', u) = {u}
    <2> HIDE DEF u, H, B, Y, h
    <2> QED
      BY <1>7, <1>8, Sprout
  <1>10. Forest(next', head'.node, Hooks', Buds', Leaving', used')
    BY <1>1, <1>4, <1>5, <1>6, <1>9
  <1>11. Chained' = Chained \cup {u}
    BY <1>4, <1>6, <1>9 DEF Chained
  <1> HIDE DEF u
  <1>12. Live' = Live
    <2>1. u # head.node
      BY <1>3, Places
    <2>2. Live' = {m \in Nodes : (m \in Chained \cup {u} /\ m # head.node) \/ m \in Buds \ {u}}
      BY <1>5, <1>6, <1>11 DEF Live
    <2> QED
      BY <1>3, <2>1, <2>2 DEF Live
  <1>13. Behinds' = Behinds
    <2>1. Behinds' = {n \in Nodes : n \in Chained \cup {u} /\ n # head.node /\ n \notin Hooks \cup {u}}
      BY <1>4, <1>6, <1>11 DEF Behinds
    <2> QED
      BY <1>3, <2>1 DEF Behinds
  <1>14. \A q, r \in Unlinked' \cup Fresh' : New(q)' = New(r)' => q = r
    BY <1>2 DEF ForestInv, Unlinked, Fresh
  <1> QED
    BY <1>2, <1>3, <1>7, <1>9, <1>10, <1>11, <1>12, <1>13, <1>14 DEF u

\* The first swap links to the end of a trail that is not the producer's own.
LEMMA Linkable ==
    ASSUME TypeOK, ForestInv, OrderInv, NumbersInv, NEW p \in Producers, Linking(p)
    PROVE  /\ enq[p].clone.node \in Chained /\ enq[p].clone.node \notin Tree(next, New(p))
           /\ p \in Unlinked /\ p \in Drawn
  <1>1. p \in Drawn /\ p \in Unlinked /\ p \in Pending
    BY DEF Linking, Drawn, Unlinked, Pending
  <1>2. enq[p].clone.node \in Chained
    BY <1>1 DEF ForestInv, Linking
  <1>3. ~(enq[p].number < enq[p].number)
    <2>1. enq[p].number \in Int
      BY <1>1 DEF TypeOK, Enq
    <2> QED
      BY <2>1
  <1>4. enq[p].clone.node \notin Tree(next, New(p))
    BY <1>1, <1>3 DEF OrderInv
  <1> QED
    BY <1>1, <1>2, <1>4

LEMMA LinkSets ==
    ASSUME TypeOK, ForestInv, OrderInv, NumbersInv, NEW p \in Producers, EnqLink(p), Linking(p),
           NEW c, c = enq[p].clone.node
    PROVE  /\ Forest(next', head'.node, Hooks', Buds', Leaving', used')
           /\ \A q, r \in Unlinked' \cup Fresh' : New(q)' = New(r)' => q = r
           /\ Unlinked' = Unlinked \ {p} /\ p \in Unlinked /\ Fresh' = Fresh
           /\ \A q \in Producers : New(q)' = New(q)
           /\ Chained' = Chained /\ c \in Chained /\ New(p) \in Hooks /\ Hooks' = Hooks \ {New(p)}
           /\ next[c] = Null /\ next'[c] = New(p) /\ \A m \in Nodes \ {c} : next'[m] = next[m]
           /\ \A r \in {head.node} \cup Hooks' :
                 Tree(next', r) = IF c \in Tree(next, r) THEN Tree(next, r) \cup Tree(next, New(p))
                                  ELSE Tree(next, r)
           /\ Live' = Live
           /\ Behinds' = Behinds \cup {New(p)} /\ New(p) \in Nodes \ Behinds
  <1> DEFINE u == New(p)
             H == Hooks
             B == Buds
             Y == Leaving
             h == head.node
  <1>1. /\ Alone(p) /\ pc[p] = "link" /\ pc'[p] = "size" /\ enq' = enq /\ used' = used
        /\ next[c] = Null /\ next' = [next EXCEPT ![c] = u]
    BY LinkFacts DEF New, Linking
  <1>2. /\ Unlinked' = Unlinked \ {p} /\ Fresh' = Fresh /\ p \in Unlinked
        /\ \A q \in Producers : New(q)' = New(q)
    BY <1>1 DEF Alone, Unlinked, Fresh, New
  <1>3. c \in Chained /\ c \notin Tree(next, u) /\ u \in H /\ c \in Nodes
    BY <1>2, Linkable, Places
  <1>4. Hooks' = Hooks \ {u}
    <2>1. \A q \in Unlinked : New(q) = u => q = p
      BY <1>2 DEF ForestInv
    <2>2. /\ \A x \in Hooks : x # u => x \in Hooks'
          /\ \A x \in Hooks' : x \in Hooks /\ x # u
      BY <1>2, <2>1 DEF Hooks, Unlinked
    <2> QED
      BY <2>2
  <1>5. Buds' = Buds
    <2>1. /\ \A x \in Buds : x \in Buds'
          /\ \A x \in Buds' : x \in Buds
      BY <1>2 DEF Buds, Fresh
    <2> QED
      BY <2>1
  <1>6. Leaving' = Leaving /\ head' = head
    BY <1>1 DEF Alone, Leaving
  <1>7. next'[c] = u /\ \A m \in Nodes \ {c} : next'[m] = next[m]
    BY <1>1, <1>3 DEF TypeOK
  <1>8. Forest(next, h, H, B, Y, used) /\ c \in Linked(next, h, H)
    BY <1>3 DEF ForestInv, Chained
  <1>9. /\ Forest(next', h, H \ {u}, B, Y, used)
        /\ Linked(next', h, H \ {u}) = Linked(next, h, H)
        /\ \A r \in {h} \cup (H \ {u}) :
              Tree(next', r) = IF c \in Tree(next, r) THEN Tree(next, r) \cup Tree(next, u)
                               ELSE Tree(next, r)
    <2> DEFINE ny == next'
    <2>1. next[c] = Null /\ ny[c] = u /\ \A m \in Nodes \ {c} : ny[m] = next[m]
      BY <1>1, <1>7
    <2> HIDE DEF u, H, B, Y, h, ny
    <2>2. /\ Forest(ny, h, H \ {u}, B, Y, used)
          /\ Linked(ny, h, H \ {u}) = Linked(next, h, H)
          /\ \A r \in {h} \cup (H \ {u}) :
                Tree(ny, r) = IF c \in Tree(next, r) THEN Tree(next, r) \cup Tree(next, u)
                              ELSE Tree(next, r)
      BY <1>3, <1>8, <2>1, Graft, SMTT(30)
    <2> QED
      BY <2>2 DEF ny
  <1>10. Forest(next', head'.node, Hooks', Buds', Leaving', used')
    BY <1>1, <1>4, <1>5, <1>6, <1>9
  <1>11. Chained' = Chained
    BY <1>4, <1>6, <1>9 DEF Chained
  <1>12. \A q, r \in Unlinked' \cup Fresh' : New(q)' = New(r)' => q = r
    BY <1>2 DEF ForestInv, Unlinked, Fresh
  <1> HIDE DEF u
  <1>13. Live' = Live
    BY <1>5, <1>6, <1>11 DEF Live
  <1>14. Behinds' = Behinds \cup {u} /\ u \in Nodes \ Behinds
    <2>1. Behinds' = {n \in Nodes : n \in Chained /\ n # head.node /\ n \notin Hooks \ {u}}
      BY <1>4, <1>6, <1>11 DEF Behinds
    <2>2. u \in Nodes /\ u \in Chained /\ u # head.node
      BY <1>3, Places
    <2> QED
      BY <1>3, <2>1, <2>2 DEF Behinds
  <1> QED
    BY <1>1, <1>2, <1>3, <1>4, <1>6, <1>7, <1>9, <1>10, <1>11, <1>12, <1>13, <1>14 DEF u

\* The consumer's swap succeeds: nobody else moves the head.
LEMMA TakeFacts ==
    ASSUME TypeOK, DequeueInv, DeqSwap
    PROVE  /\ cpc = "swap" /\ cpc' = "free" /\ pc' = pc /\ puts' = puts /\ enq' = enq
           /\ head' = [node |-> deq.succ, count |-> deq.number]
           /\ deq.head = head /\ deq.succ = next[head.node] /\ deq.succ # Null
           /\ deq.tail.node # head.node /\ tail.node # head.node
           /\ log' = Append(log, data[deq.succ])
           /\ UNCHANGED <<tail, next, data, size, headCount, tailCount, used, deq, owed>>
  <1>1. cpc = "swap" /\ deq.head = head
    BY DEF DeqSwap, CGoto, DequeueInv, Behindhand
  <1>2. /\ deq.tail.node # head.node /\ tail.node # head.node
        /\ deq.succ = next[head.node] /\ deq.succ # Null /\ deq.got = data[deq.succ]
    BY <1>1 DEF DequeueInv, Behindhand
  <1> QED
    BY <1>1, <1>2 DEF DeqSwap, CGoto, counts

LEMMA TakeSets ==
    ASSUME TypeOK, ForestInv, DequeueInv, DeqSwap
    PROVE  /\ Forest(next', head'.node, Hooks', Buds', Leaving', used')
           /\ Hooks' = Hooks /\ Unlinked' = Unlinked /\ Fresh' = Fresh /\ Buds' = Buds
           /\ Chained' = Chained \ {head.node}
           /\ head'.node = deq.succ /\ deq.succ \in Chained
           /\ deq.succ \notin Hooks /\ deq.succ # head.node
           /\ Tree(next', head'.node) = Tree(next, head.node) \ {head.node}
           /\ Live' = Live \ {deq.succ} /\ deq.succ \in Live
           /\ Behinds' = Behinds \ {deq.succ} /\ deq.succ \in Behinds
  <1> DEFINE H == Hooks
             B == Buds
             h == head.node
             g == deq.succ
  <1>1. /\ cpc = "swap" /\ cpc' = "free" /\ pc' = pc /\ enq' = enq /\ deq' = deq
        /\ head' = [node |-> g, count |-> deq.number] /\ head'.node = g /\ deq.head = head
        /\ g = next[h] /\ g # Null
        /\ next' = next /\ used' = used
    BY TakeFacts
  <1>2. Hooks' = Hooks /\ Unlinked' = Unlinked /\ Fresh' = Fresh /\ Buds' = Buds
    BY <1>1 DEF Hooks, Buds, Unlinked, Fresh, New
  <1>3. Leaving = {} /\ Leaving' = {h}
    BY <1>1 DEF Leaving
  <1>4. Forest(next, h, H, B, {}, used)
    BY <1>3 DEF ForestInv
  <1>5. /\ Forest(next, g, H, B, {h}, used)
        /\ Linked(next, g, H) = Linked(next, h, H) \ {h}
        /\ Tree(next, g) = Tree(next, h) \ {h}
        /\ g \in Linked(next, h, H) /\ g \notin {h} \cup H
    <2>1. g = next[h] /\ next[h] # Null
      BY <1>1
    <2> HIDE DEF H, B, h, g
    <2> QED
      BY <1>4, <2>1, Fell
  <1>6. Forest(next', head'.node, Hooks', Buds', Leaving', used')
    BY <1>1, <1>2, <1>3, <1>5
  <1>7. Chained' = Chained \ {h} /\ g \in Chained
    BY <1>1, <1>2, <1>5 DEF Chained
  <1> HIDE DEF g, h
  <1>8. Live' = Live \ {g} /\ g \in Live
    <2>1. Live = {n \in Nodes : (n \in Chained /\ n # h) \/ n \in Buds}
      BY DEF Live, h
    <2>2. Live' = {n \in Nodes : (n \in Chained \ {h} /\ n # g) \/ n \in Buds}
      BY <1>1, <1>2, <1>7 DEF Live
    <2>3. g \in Nodes /\ g # h /\ g \notin Buds /\ h \notin Buds
      BY <1>5, <1>7, Places DEF h
    <2> QED
      BY <1>7, <2>1, <2>2, <2>3
  <1>9. Behinds' = Behinds \ {g} /\ g \in Behinds
    <2>1. Behinds = {n \in Nodes : n \in Chained /\ n # h /\ n \notin Hooks}
      BY DEF Behinds, h
    <2>2. Behinds' = {n \in Nodes : n \in Chained \ {h} /\ n # g /\ n \notin Hooks}
      BY <1>1, <1>2, <1>7 DEF Behinds
    <2>3. g \in Nodes /\ g # h /\ g \notin Hooks
      BY <1>5, <1>7, Places
    <2> QED
      BY <1>7, <2>1, <2>2, <2>3
  <1> QED
    BY <1>1, <1>2, <1>5, <1>6, <1>7, <1>8, <1>9 DEF h, g

LEMMA FreeSets ==
    ASSUME TypeOK, ForestInv, DeqFree
    PROVE  /\ Forest(next', head'.node, Hooks', Buds', Leaving', used')
           /\ Hooks' = Hooks /\ Unlinked' = Unlinked /\ Fresh' = Fresh /\ Buds' = Buds
           /\ Chained' = Chained /\ Live' = Live /\ Behinds' = Behinds
           /\ cpc = "free" /\ cpc' = "size" /\ pc' = pc /\ puts' = puts /\ enq' = enq
           /\ UNCHANGED <<head, tail, next, data, size, headCount, tailCount, deq, owed, log>>
  <1>1. /\ cpc = "free" /\ cpc' = "size" /\ pc' = pc /\ puts' = puts /\ enq' = enq
        /\ used' = used \ {deq.head.node}
        /\ UNCHANGED <<head, tail, next, data, size, headCount, tailCount, deq, owed, log>>
    BY DEF DeqFree, CGoto, NodePool!Free, counts
  <1>2. Hooks' = Hooks /\ Unlinked' = Unlinked /\ Fresh' = Fresh /\ Buds' = Buds
    BY <1>1 DEF Hooks, Buds, Unlinked, Fresh, New
  <1>3. Leaving' = {} /\ used' = used \ Leaving
    BY <1>1 DEF Leaving
  <1>4. Forest(next, head.node, Hooks, Buds, {}, used \ Leaving)
    BY Drop DEF ForestInv
  <1>5. Chained' = Chained
    BY <1>1, <1>2 DEF Chained
  <1>6. Live' = Live /\ Behinds' = Behinds
    BY <1>1, <1>2, <1>5 DEF Live, Behinds
  <1> QED
    BY <1>1, <1>2, <1>3, <1>4, <1>5, <1>6

\* A step of the consumer that leaves the list as it is.
Resting ==
    /\ pc' = pc /\ puts' = puts /\ enq' = enq
    /\ UNCHANGED <<head, next, data, used, log>>
    /\ cpc # "free" /\ cpc' # "free"

LEMMA RestingIsStill ==
    ASSUME Resting
    PROVE  Still
  BY DEF Resting, Still, Unlinked, Fresh, Leaving, New

ConsumerStep ==
    \/ DeqBegin \/ DequeueStep
    \/ (\E i \in 0 .. MaxPut : PeekBegin(i)) \/ EmptySize \/ LookStep

LEMMA ConsumerSteps ==
    ASSUME ConsumerStep
    PROVE  DeqSwap \/ DeqFree \/ Resting
  <1>1. CASE DeqBegin
    BY <1>1 DEF DeqBegin, CGoto, Resting
  <1>2. CASE DeqReadHead \/ DeqReadTail \/ DeqReadTailCount \/ DeqReadNext
    BY <1>2 DEF DeqReadHead, DeqReadTail, DeqReadTailCount, DeqReadNext, CGoto, Resting, shared
  <1>3. CASE DeqFail \/ DeqSpin \/ DeqTestTail
    BY <1>3 DEF DeqFail, DeqSpin, DeqTestTail, CGoto, Resting, shared
  <1>4. CASE DeqReadTailNext \/ DeqHelp \/ DeqData
    BY <1>4 DEF DeqReadTailNext, DeqHelp, DeqData, CGoto, Resting, shared
  <1>5. CASE DeqSize
    BY <1>5 DEF DeqSize, CGoto, Resting
  <1>6. CASE \E i \in 0 .. MaxPut : PeekBegin(i)
    BY <1>6 DEF PeekBegin, CGoto, Resting, shared
  <1>7. CASE EmptySize \/ LookStep
    BY <1>7 DEF EmptySize, LookStep, PeekStep, PeekEnd, EmptyTops, CGoto, Resting, shared
  <1> QED
    BY <1>1, <1>2, <1>3, <1>4, <1>5, <1>6, <1>7 DEF ConsumerStep, DequeueStep

\* A copy of the tail's node is kept, with the number drawn before it, or taken anew.
Kept(q) == /\ enq'[q].new = enq[q].new /\ enq'[q].number = enq[q].number
           /\ enq'[q].clone.node = enq[q].clone.node
Drew(q) == /\ q \in Unlinked /\ enq'[q].new = enq[q].new
           /\ enq'[q].clone.node = tail.node /\ enq'[q].number = tailCount + 1
Copied  == /\ \A q \in Drawn'   : (q \in Drawn /\ Kept(q)) \/ Drew(q)
           /\ \A q \in Pending' : (q \in Pending /\ Kept(q)) \/ Drew(q)

LEMMA Labels ==
    /\ Drawn \subseteq Unlinked /\ Drawn \subseteq Pending /\ Unlinked \subseteq Producers
    /\ Pending \subseteq Producers /\ Fresh \subseteq Producers /\ Seen \subseteq Pending
  BY DEF Drawn, Unlinked, Pending, Fresh, Seen

LEMMA CopiedByProducer ==
    ASSUME TypeOK, NEW p \in Producers, EnqAlloc(p) \/ EnqueueStep(p)
    PROVE  Copied
  <1>0. ASSUME Alone(p), p \notin Pending' \/ (p \in Pending /\ Kept(p)) \/ Drew(p),
               p \in Drawn' /\ p \in Pending => p \in Drawn \/ Drew(p)
        PROVE  Copied
    BY <1>0 DEF Copied, Kept, Drew, Alone, Drawn, Pending
  <1> USE DEF Kept, Drew, Drawn, Pending, Unlinked
  <1>1. CASE EnqAlloc(p)
    BY <1>0, <1>1, AllocFacts
  <1>2. CASE EnqNull(p)
    BY <1>0, <1>2, NullFacts
  <1>3. CASE EnqReadNode(p)
    BY <1>0, <1>3, ReadNodeFacts
  <1>4. CASE EnqReadCount(p)
    BY <1>0, <1>4, ReadCountFacts
  <1>5. CASE EnqReadAgain(p)
    BY <1>0, <1>5, ReadAgainFacts
  <1>6. CASE EnqReadNext(p)
    BY <1>0, <1>6, ReadNextFacts
  <1>7. CASE EnqLink(p)
    BY <1>0, <1>7, LinkFacts DEF Linking
  <1>8. CASE EnqSize(p)
    BY <1>0, <1>8, SizeFacts
  <1>9. CASE EnqReadSucc(p)
    BY <1>0, <1>9, ReadSuccFacts
  <1>10. CASE EnqSwap(p)
    BY <1>0, <1>10, SwapFacts
  <1>11. CASE EnqHelp(p)
    BY <1>0, <1>11, HelpFacts
  <1> QED
    BY <1>1, <1>2, <1>3, <1>4, <1>5, <1>6, <1>7, <1>8, <1>9, <1>10, <1>11 DEF EnqueueStep

LEMMA CopiedByConsumer ==
    ASSUME pc' = pc, enq' = enq
    PROVE  Copied
  BY DEF Copied, Kept, Drawn, Pending

\* Nobody but EnqReadNode takes a copy.
LEMMA KeptElsewhere ==
    ASSUME TypeOK, NEW p \in Producers, EnqAlloc(p) \/ EnqNull(p) \/ EnqLink(p)
    PROVE  \A q \in Drawn' : q \in Drawn /\ Kept(q)
  <1> USE DEF Kept, Alone, Drawn
  <1>1. CASE EnqAlloc(p)
    BY <1>1, AllocFacts
  <1>2. CASE EnqNull(p)
    BY <1>2, NullFacts
  <1>3. CASE EnqLink(p)
    BY <1>3, LinkFacts DEF Linking
  <1> QED
    BY <1>1, <1>2, <1>3

-----------------------------------------------------------------------------
(* The invariant is inductive: each part in turn.                          *)

Structured == TypeOK /\ Inv

LEMMA TailPlace ==
    ASSUME TypeOK, ForestInv, TailInv
    PROVE  /\ tail.node \in Tree(next, head.node) /\ tail.node \in Chained /\ tail.node \in Nodes
           /\ \A q \in Unlinked : tail.node \notin Tree(next, New(q))
  <1>1. tail.node \in Tree(next, head.node)
    BY DEF TailInv
  <1>2. Tree(next, head.node) \subseteq Chained /\ Chained \subseteq Nodes
    BY Places
  <1>3. ASSUME NEW q \in Unlinked PROVE tail.node \notin Tree(next, New(q))
    <2>1. New(q) \in Hooks /\ New(q) # head.node
      BY Places
    <2>2. Tree(next, New(q)) \cap Tree(next, head.node) = {}
      BY <2>1, Places
    <2> QED
      BY <1>1, <2>2
  <1> QED
    BY <1>1, <1>2, <1>3

LEMMA CopiesStand ==
    ASSUME TypeOK, ForestInv, TailInv, Copied,
           \A n \in Nodes : n \in Chained \/ next[n] # Null => n \in Chained' \/ next'[n] # Null
    PROVE  /\ \A p \in Pending' : enq'[p].clone.node \in Nodes
           /\ \A p \in Drawn' : enq'[p].clone.node \in Chained' \/ next'[enq'[p].clone.node] # Null
  <1>1. tail.node \in Nodes /\ tail.node \in Chained
    BY TailPlace
  <1>2. /\ \A p \in Pending : enq[p].clone.node \in Nodes
        /\ \A p \in Drawn : enq[p].clone.node \in Chained \/ next[enq[p].clone.node] # Null
        /\ Drawn \subseteq Pending
    BY Labels DEF ForestInv
  <1> QED
    BY <1>1, <1>2 DEF Copied, Kept, Drew

LEMMA ForestStep ==
    ASSUME Structured, [Next]_vars
    PROVE  ForestInv'
  <1> USE DEF Structured, Inv
  <1>1. ASSUME Forest(next', head'.node, Hooks', Buds', Leaving', used'), Copied,
               \A q, r \in Unlinked' \cup Fresh' : New(q)' = New(r)' => q = r,
               \A n \in Nodes : n \in Chained \/ next[n] # Null => n \in Chained' \/ next'[n] # Null
        PROVE  ForestInv'
    BY <1>1, CopiesStand DEF ForestInv
  <1>2. ASSUME Still, Copied PROVE ForestInv'
    <2>1. \A n \in Nodes : n \in Chained \/ next[n] # Null => n \in Chained' \/ next'[n] # Null
      BY <1>2, StillSets DEF Still
    <2> QED
      BY <1>1, <1>2, <2>1, StillForest DEF ForestInv
  <1>3. ASSUME NEW p \in Producers, EnqAlloc(p) PROVE ForestInv'
    <2>1. \A n \in Nodes : n \in Chained \/ next[n] # Null => n \in Chained' \/ next'[n] # Null
      BY <1>3, AllocSets, AllocFacts
    <2> QED
      BY <1>1, <1>3, <2>1, AllocSets, CopiedByProducer
  <1>4. ASSUME NEW p \in Producers, EnqNull(p) PROVE ForestInv'
    <2>1. \A n \in Nodes : n \in Chained \/ next[n] # Null => n \in Chained' \/ next'[n] # Null
      BY <1>4, NullSets
    <2>2. Copied
      BY <1>4, CopiedByProducer DEF EnqueueStep
    <2> QED
      BY <1>1, <1>4, <2>1, <2>2, NullSets
  <1>5. ASSUME NEW p \in Producers, EnqLink(p), Linking(p) PROVE ForestInv'
    <2> DEFINE c == enq[p].clone.node
    <2>1. /\ Forest(next', head'.node, Hooks', Buds', Leaving', used')
          /\ \A q, r \in Unlinked' \cup Fresh' : New(q)' = New(r)' => q = r
          /\ Chained' = Chained /\ c \in Chained
          /\ \A m \in Nodes \ {c} : next'[m] = next[m]
      BY <1>5, LinkSets
    <2>2. \A n \in Nodes : n \in Chained \/ next[n] # Null => n \in Chained' \/ next'[n] # Null
      BY <2>1
    <2>3. Copied
      BY <1>5, CopiedByProducer DEF EnqueueStep
    <2> QED
      BY <1>1, <2>1, <2>2, <2>3
  <1>6. CASE DeqSwap
    <2>1. \A n \in Nodes : n \in Chained \/ next[n] # Null => n \in Chained' \/ next'[n] # Null
      BY <1>6, TakeSets, TakeFacts
    <2>2. Copied
      BY <1>6, TakeFacts, CopiedByConsumer
    <2>3. \A q, r \in Unlinked' \cup Fresh' : New(q)' = New(r)' => q = r
      BY <1>6, TakeSets, TakeFacts DEF ForestInv, New
    <2> QED
      BY <1>1, <1>6, <2>1, <2>2, <2>3, TakeSets
  <1>7. CASE DeqFree
    <2>1. \A n \in Nodes : n \in Chained \/ next[n] # Null => n \in Chained' \/ next'[n] # Null
      BY <1>7, FreeSets
    <2>2. Copied
      BY <1>7, FreeSets, CopiedByConsumer
    <2>3. \A q, r \in Unlinked' \cup Fresh' : New(q)' = New(r)' => q = r
      BY <1>7, FreeSets DEF ForestInv, New
    <2> QED
      BY <1>1, <1>7, <2>1, <2>2, <2>3, FreeSets
  <1>8. CASE UNCHANGED vars
    <2>1. Still
      BY <1>8 DEF vars, shared, taker, Still, Unlinked, Fresh, Leaving, New
    <2>2. Copied
      BY <1>8, CopiedByConsumer DEF vars
    <2> QED
      BY <1>2, <2>1, <2>2
  <1>9. ASSUME NEW p \in Producers, EnqAlloc(p) \/ EnqueueStep(p) PROVE ForestInv'
    <2>1. CASE EnqueueStep(p)
      BY <1>2, <1>4, <1>5, <2>1, EnqueueSteps, PassingIsStill, CopiedByProducer
    <2> QED
      BY <1>3, <1>9, <2>1
  <1>10. CASE ConsumerStep
    BY <1>2, <1>6, <1>7, <1>10, ConsumerSteps, RestingIsStill, CopiedByConsumer DEF Resting
  <1> QED
    BY <1>8, <1>9, <1>10 DEF Next, ConsumerStep

LEMMA OrderStep ==
    ASSUME Structured, [Next]_vars
    PROVE  OrderInv'
  <1> USE DEF Structured, Inv
  <1>0. /\ tailCount \in Nat /\ \A q \in Drawn : enq[q].number \in 0 .. tailCount
        /\ \A q \in Drawn : q \in Unlinked /\ New(q) \in Hooks
    BY Labels, Places DEF TypeOK, NumbersInv
  <1>1. ASSUME Copied, \A q \in Unlinked : Tree(next', New(q)) = Tree(next, New(q))
        PROVE  OrderInv'
    <2> SUFFICES ASSUME NEW p \in Drawn', NEW q \in Drawn',
                        enq'[p].clone.node \in Tree(next', New(q)')
                 PROVE  enq'[p].number < enq'[q].number
      BY DEF OrderInv
    <2>1. q \in Unlinked /\ New(q)' = New(q) /\ ((q \in Drawn /\ Kept(q)) \/ Drew(q))
      BY <1>0, <1>1 DEF Copied, Kept, Drew, New
    <2>2. enq'[p].clone.node \in Tree(next, New(q))
      BY <1>1, <2>1
    <2>3. ~Drew(p)
      BY <2>1, <2>2, TailPlace DEF Drew
    <2>4. p \in Drawn /\ Kept(p)
      BY <1>1, <2>3 DEF Copied
    <2>5. CASE q \in Drawn /\ Kept(q)
      BY <2>2, <2>4, <2>5 DEF OrderInv, Kept
    <2>6. CASE Drew(q)
      <3>1. enq'[p].number \in 0 .. tailCount /\ enq'[q].number = tailCount + 1
        BY <1>0, <2>4, <2>6 DEF Kept, Drew
      <3> QED
        BY <1>0, <3>1
    <2> QED
      BY <2>1, <2>5, <2>6
  <1>2. ASSUME NEW x \in Producers, EnqLink(x), Linking(x) PROVE OrderInv'
    <2> DEFINE c == enq[x].clone.node
    <2> SUFFICES ASSUME NEW p \in Drawn', NEW q \in Drawn',
                        enq'[p].clone.node \in Tree(next', New(q)')
                 PROVE  enq'[p].number < enq'[q].number
      BY DEF OrderInv
    <2>1. /\ p \in Drawn /\ Kept(p) /\ q \in Drawn /\ Kept(q) /\ New(q)' = New(q)
      BY <1>2, KeptElsewhere DEF Kept, New
    <2>2. x \in Drawn
      BY <1>2, Linkable
    <2>3. New(q) \in Hooks'
      BY <2>1 DEF Hooks, Drawn, Unlinked
    <2>4. Tree(next', New(q)) = IF c \in Tree(next, New(q)) THEN Tree(next, New(q)) \cup Tree(next, New(x))
                                ELSE Tree(next, New(q))
      BY <1>2, <2>3, LinkSets
    <2>5. CASE enq[p].clone.node \in Tree(next, New(q))
      BY <2>1, <2>5 DEF OrderInv, Kept
    <2>6. CASE c \in Tree(next, New(q)) /\ enq[p].clone.node \in Tree(next, New(x))
      <3>1. enq[p].number < enq[x].number /\ enq[x].number < enq[q].number
        BY <2>1, <2>2, <2>6 DEF OrderInv
      <3>2. enq[p].number \in Int /\ enq[x].number \in Int /\ enq[q].number \in Int
        BY <1>0, <2>1, <2>2
      <3>3. enq[p].number < enq[q].number
        BY <3>1, <3>2
      <3> QED
        BY <2>1, <3>3 DEF Kept
    <2>7. enq[p].clone.node \in Tree(next', New(q))
      BY <2>1 DEF Kept
    <2> QED
      BY <2>4, <2>5, <2>6, <2>7
  <1>3. ASSUME NEW p \in Producers, EnqAlloc(p) PROVE OrderInv'
    BY <1>1, <1>3, CopiedByProducer, AllocFacts
  <1>4. ASSUME NEW p \in Producers, EnqNull(p) PROVE OrderInv'
    <2>1. \A q \in Unlinked : Tree(next', New(q)) = Tree(next, New(q))
      BY <1>4, NullSets, Places
    <2>2. Copied
      BY <1>4, CopiedByProducer DEF EnqueueStep
    <2> QED
      BY <1>1, <2>1, <2>2
  <1>5. ASSUME NEW p \in Producers, EnqueueStep(p), Passing(p) PROVE OrderInv'
    <2>1. \A q \in Unlinked : Tree(next', New(q)) = Tree(next, New(q))
      BY <1>5 DEF Passing
    <2>2. Copied
      BY <1>5, CopiedByProducer
    <2> QED
      BY <1>1, <2>1, <2>2
  <1>6. ASSUME NEW p \in Producers, EnqAlloc(p) \/ EnqueueStep(p) PROVE OrderInv'
    BY <1>2, <1>3, <1>4, <1>5, <1>6, EnqueueSteps
  <1>7. ASSUME next' = next, pc' = pc, enq' = enq PROVE OrderInv'
    BY <1>7 DEF OrderInv, Drawn, New
  <1>8. CASE ConsumerStep
    BY <1>7, <1>8, ConsumerSteps, TakeFacts, FreeSets DEF Resting
  <1>9. CASE UNCHANGED vars
    BY <1>7, <1>9 DEF vars, shared
  <1> QED
    BY <1>6, <1>8, <1>9 DEF Next, ConsumerStep

\* Who had drawn a number has it still, and nobody else has read the tail.
NumbersKept ==
    /\ \A q \in Pending' : q \in Pending /\ enq'[q].number = enq[q].number
    /\ \A q \in Seen' : q \in Seen /\ enq'[q].clone.count = enq[q].clone.count

LEMMA NumbersRest ==
    ASSUME NumbersInv, NumbersKept, tail'.count = tail.count, tailCount' = tailCount,
           SeesTail' => SeesTail /\ deq'.tail.count = deq.tail.count,
           cpc' = "helped" => cpc = "helped" /\ deq'.tnumber = deq.tnumber
    PROVE  NumbersInv'
  <1> USE DEF NumbersInv, NumbersKept
  <1>1. SeesTail' => \A p \in Pending' : enq'[p].number # deq'.tail.count
    OBVIOUS
  <1>2. cpc' = "helped" => /\ deq'.tnumber \in 0 .. tailCount'
                           /\ deq'.tnumber # tail'.count /\ deq'.tnumber # deq'.tail.count
                           /\ \A p \in Pending' : enq'[p].number # deq'.tnumber
                           /\ \A p \in Seen' : enq'[p].clone.count # deq'.tnumber
    BY DEF SeesTail
  <1> QED
    BY <1>1, <1>2

\* A number was stored in the tail, or not; its owner has it no longer.
LEMMA NumbersStored ==
    ASSUME NumbersInv, NumbersKept, tailCount' = tailCount, SeesTail' => SeesTail, cpc' = cpc, deq' = deq,
           NEW p \in Pending, p \notin Pending',
           tail'.count \in {tail.count, enq[p].number}
    PROVE  NumbersInv'
  <1> USE DEF NumbersInv, NumbersKept
  <1>1. /\ enq[p].number \in 0 .. tailCount
        /\ \A q \in Pending' : enq'[q].number # enq[p].number
    OBVIOUS
  <1>2. cpc' = "helped" => /\ deq'.tnumber \in 0 .. tailCount'
                           /\ deq'.tnumber # tail'.count /\ deq'.tnumber # deq'.tail.count
                           /\ \A q \in Pending' : enq'[q].number # deq'.tnumber
                           /\ \A q \in Seen' : enq'[q].clone.count # deq'.tnumber
    BY DEF SeesTail
  <1>3. SeesTail' => \A q \in Pending' : enq'[q].number # deq'.tail.count
    OBVIOUS
  <1> QED
    BY <1>1, <1>2, <1>3 DEF SeesTail

LEMMA MoveTailCases ==
    ASSUME NEW seen, NEW succ, NEW number, MoveTail(seen, succ, number)
    PROVE  \/ tail' = tail
           \/ tail = seen /\ tail' = [node |-> succ, count |-> number]
  BY DEF MoveTail

LEMMA NumbersByProducer ==
    ASSUME TypeOK, NumbersInv, NEW p \in Producers, EnqAlloc(p) \/ EnqueueStep(p)
    PROVE  NumbersInv'
  <1> USE DEF Alone, Pending, Drawn, Seen
  <1>1. CASE EnqAlloc(p)
    BY <1>1, AllocFacts, NumbersRest DEF NumbersKept, SeesTail
  <1>2. CASE EnqNull(p)
    BY <1>2, NullFacts, NumbersRest DEF NumbersKept, SeesTail
  <1>3. CASE EnqReadNode(p)
    <2>1. /\ Alone(p) /\ pc[p] = "count" /\ pc'[p] = "tag" /\ enq'[p].number = tailCount + 1
          /\ tailCount' = tailCount + 1 /\ tail' = tail
      BY <1>3, ReadNodeFacts
    <2>2. /\ tailCount \in Nat /\ \A x \in 0 .. tailCount : x \in 0 .. tailCount + 1 /\ x # tailCount + 1
          /\ tailCount + 1 \in 0 .. tailCount + 1
      BY DEF TypeOK
    <2>3. \A q \in Seen' : q \in Seen /\ enq'[q].clone.count = enq[q].clone.count
      BY <2>1
    <2>4. \A q \in Pending' : q = p \/ (q # p /\ q \in Pending /\ enq'[q].number = enq[q].number)
      BY <2>1
    <2>5. p \in Pending' /\ p \notin Pending /\ p \notin Seen'
      BY <2>1
    <2>6. SeesTail' => SeesTail /\ deq'.tail.count = deq.tail.count
      BY <2>1 DEF SeesTail
    <2>7. cpc' = cpc /\ deq' = deq
      BY <2>1
    <2> HIDE DEF Alone, Pending, Drawn, Seen
    <2>8. \A q \in Pending' : enq'[q].number \in 0 .. tailCount' /\ enq'[q].number # tail'.count
      BY <2>1, <2>2, <2>4 DEF NumbersInv
    <2>9. \A q \in Seen' : enq'[q].clone.count \in 0 .. tailCount'
      BY <2>1, <2>2, <2>3 DEF NumbersInv
    <2>10. \A q, r \in Pending' : q # r => enq'[q].number # enq'[r].number
      BY <2>1, <2>2, <2>4 DEF NumbersInv
    <2>11. \A q \in Pending', r \in Seen' : enq'[q].number # enq'[r].clone.count
      BY <2>1, <2>2, <2>3, <2>4 DEF NumbersInv
    <2>12. SeesTail' => /\ deq'.tail.count \in 0 .. tailCount'
                        /\ \A q \in Pending' : enq'[q].number # deq'.tail.count
      BY <2>1, <2>2, <2>4, <2>6 DEF NumbersInv
    <2>13. cpc' = "helped" => /\ deq'.tnumber \in 0 .. tailCount'
                              /\ deq'.tnumber # tail'.count /\ deq'.tnumber # deq'.tail.count
                              /\ \A q \in Pending' : enq'[q].number # deq'.tnumber
                              /\ \A q \in Seen' : enq'[q].clone.count # deq'.tnumber
      BY <2>1, <2>2, <2>3, <2>4, <2>7 DEF NumbersInv
    <2>14. tail'.count \in 0 .. tailCount'
      BY <2>1, <2>2 DEF NumbersInv
    <2> QED
      BY <2>8, <2>9, <2>10, <2>11, <2>12, <2>13, <2>14 DEF NumbersInv
  <1>4. CASE EnqReadCount(p)
    <2>1. /\ Alone(p) /\ pc[p] = "tag" /\ pc'[p] = "again" /\ enq'[p].number = enq[p].number
          /\ enq'[p].clone.count = tail.count /\ tailCount' = tailCount /\ tail' = tail
          /\ cpc' = cpc /\ deq' = deq
      BY <1>4, ReadCountFacts
    <2>2. Pending' = Pending /\ \A q \in Pending' : enq'[q].number = enq[q].number
      BY <2>1
    <2>3. \A q \in Seen' : (enq'[q].clone.count = tail.count)
                           \/ (q \in Seen /\ enq'[q].clone.count = enq[q].clone.count)
      BY <2>1
    <2> HIDE DEF Alone, Pending, Drawn, Seen
    <2>4. \A q \in Pending', r \in Seen' : enq'[q].number # enq'[r].clone.count
      BY <2>2, <2>3 DEF NumbersInv
    <2>5. \A q \in Seen' : enq'[q].clone.count \in 0 .. tailCount'
      BY <2>1, <2>3 DEF NumbersInv
    <2>6. cpc' = "helped" => /\ deq'.tnumber \in 0 .. tailCount'
                             /\ deq'.tnumber # tail'.count /\ deq'.tnumber # deq'.tail.count
                             /\ \A q \in Pending' : enq'[q].number # deq'.tnumber
                             /\ \A q \in Seen' : enq'[q].clone.count # deq'.tnumber
      BY <2>1, <2>2, <2>3 DEF NumbersInv
    <2>7. SeesTail' => /\ deq'.tail.count \in 0 .. tailCount'
                       /\ \A q \in Pending' : enq'[q].number # deq'.tail.count
      BY <2>1, <2>2 DEF NumbersInv, SeesTail
    <2>8. /\ tail'.count \in 0 .. tailCount'
          /\ \A q \in Pending' : enq'[q].number \in 0 .. tailCount' /\ enq'[q].number # tail'.count
          /\ \A q, r \in Pending' : q # r => enq'[q].number # enq'[r].number
      BY <2>1, <2>2 DEF NumbersInv
    <2> QED
      BY <2>4, <2>5, <2>6, <2>7, <2>8 DEF NumbersInv
  <1>5. CASE EnqReadAgain(p)
    BY <1>5, ReadAgainFacts, NumbersRest DEF NumbersKept, SeesTail
  <1>6. CASE EnqReadNext(p)
    BY <1>6, ReadNextFacts, NumbersRest DEF NumbersKept, SeesTail
  <1>7. CASE EnqLink(p)
    BY <1>7, LinkFacts, NumbersRest DEF NumbersKept, SeesTail, Linking
  <1>8. CASE EnqSize(p)
    BY <1>8, SizeFacts, NumbersRest DEF NumbersKept, SeesTail
  <1>9. CASE EnqReadSucc(p)
    BY <1>9, ReadSuccFacts, NumbersRest DEF NumbersKept, SeesTail
  <1>10. CASE EnqSwap(p)
    <2>1. /\ p \in Pending /\ p \notin Pending' /\ NumbersKept /\ tailCount' = tailCount
          /\ cpc' = cpc /\ deq' = deq
      BY <1>10, SwapFacts DEF NumbersKept
    <2>2. tail'.count \in {tail.count, enq[p].number}
      <3>1. MoveTail(enq[p].clone, enq[p].succ, enq[p].number)
        BY <1>10, SwapFacts
      <3>2. tail' = tail \/ tail' = [node |-> enq[p].succ, count |-> enq[p].number]
        BY <3>1 DEF MoveTail
      <3> QED
        BY <3>2
    <2> QED
      BY <2>1, <2>2, NumbersStored DEF SeesTail
  <1>11. CASE EnqHelp(p)
    <2>1. /\ p \in Pending /\ p \notin Pending' /\ NumbersKept /\ tailCount' = tailCount
          /\ cpc' = cpc /\ deq' = deq
      BY <1>11, HelpFacts DEF NumbersKept
    <2>2. tail'.count \in {tail.count, enq[p].number}
      <3>1. MoveTail(enq[p].clone, enq[p].succ, enq[p].number)
        BY <1>11, HelpFacts
      <3>2. tail' = tail \/ tail' = [node |-> enq[p].succ, count |-> enq[p].number]
        BY <3>1 DEF MoveTail
      <3> QED
        BY <3>2
    <2> QED
      BY <2>1, <2>2, NumbersStored DEF SeesTail
  <1> QED
    BY <1>1, <1>2, <1>3, <1>4, <1>5, <1>6, <1>7, <1>8, <1>9, <1>10, <1>11 DEF EnqueueStep

\* What the steps of the consumer do.
LEMMA ReadHeadFacts ==
    ASSUME TypeOK, DeqReadHead
    PROVE  /\ cpc = "node" /\ cpc' = "tail"
           /\ pc' = pc /\ puts' = puts /\ enq' = enq /\ UNCHANGED <<head, next, data, used, log>>
           /\ UNCHANGED <<tail, size, tailCount, headCount, owed>>
           /\ deq'.head = head /\ deq'.tail = deq.tail /\ deq' \in Deq
  <1>1. deq' = [deq EXCEPT !.head = head]
    BY DEF DeqReadHead
  <1>2. deq'.head = head /\ deq'.tail = deq.tail /\ deq' \in Deq
    BY <1>1 DEF TypeOK, Deq, Top
  <1> QED
    BY <1>2 DEF DeqReadHead, CGoto, shared, counts

LEMMA ReadTailFacts ==
    ASSUME TypeOK, DeqReadTail
    PROVE  /\ cpc = "tail" /\ cpc' = "tailcount"
           /\ pc' = pc /\ puts' = puts /\ enq' = enq /\ UNCHANGED <<head, next, data, used, log>>
           /\ UNCHANGED <<tail, size, tailCount, headCount, owed>>
           /\ deq'.head = deq.head /\ deq'.tail.node = tail.node /\ deq' \in Deq
  <1>1. deq' = [deq EXCEPT !.tail.node = tail.node]
    BY DEF DeqReadTail
  <1>2. deq'.head = deq.head /\ deq'.tail.node = tail.node /\ deq' \in Deq
    BY <1>1 DEF TypeOK, Deq, Top
  <1> QED
    BY <1>2 DEF DeqReadTail, CGoto, shared, counts

LEMMA ReadTailCountFacts ==
    ASSUME TypeOK, DeqReadTailCount
    PROVE  /\ cpc = "tailcount" /\ cpc' = "next"
           /\ pc' = pc /\ puts' = puts /\ enq' = enq /\ UNCHANGED <<head, next, data, used, log>>
           /\ UNCHANGED <<tail, size, tailCount, headCount, owed>>
           /\ deq'.head = deq.head /\ deq'.tail.node = deq.tail.node /\ deq'.tail.count = tail.count
           /\ deq' \in Deq
  <1>1. deq' = [deq EXCEPT !.tail.count = tail.count]
    BY DEF DeqReadTailCount
  <1>2. /\ deq'.head = deq.head /\ deq'.tail.node = deq.tail.node /\ deq'.tail.count = tail.count
        /\ deq' \in Deq
    BY <1>1 DEF TypeOK, Deq, Top
  <1> QED
    BY <1>2 DEF DeqReadTailCount, CGoto, shared, counts

LEMMA ReadHeadNextFacts ==
    ASSUME TypeOK, DeqReadNext
    PROVE  /\ cpc = "next" /\ cpc' = "test"
           /\ pc' = pc /\ puts' = puts /\ enq' = enq /\ UNCHANGED <<head, next, data, used, log>>
           /\ UNCHANGED <<tail, size, tailCount, headCount, owed>>
           /\ deq'.head = deq.head /\ deq'.tail = deq.tail /\ deq'.succ = next[deq.head.node]
  <1>1. deq' = [deq EXCEPT !.succ = next[deq.head.node]]
    BY DEF DeqReadNext
  <1>2. deq'.head = deq.head /\ deq'.tail = deq.tail /\ deq'.succ = next[deq.head.node]
    BY <1>1 DEF TypeOK, Deq, Top
  <1> QED
    BY <1>2 DEF DeqReadNext, CGoto, shared, counts

LEMMA DataFacts ==
    ASSUME TypeOK, DeqData
    PROVE  /\ cpc = "data" /\ cpc' = "swap"
           /\ pc' = pc /\ puts' = puts /\ enq' = enq /\ UNCHANGED <<head, next, data, used, log>>
           /\ UNCHANGED <<tail, size, tailCount, headCount, owed>>
           /\ deq'.head = deq.head /\ deq'.tail = deq.tail /\ deq'.succ = next[deq.head.node]
           /\ deq'.got = data[deq.succ] /\ deq.succ # Null
  <1>1. deq' = [deq EXCEPT !.got = data[deq.succ], !.succ = next[deq.head.node]]
    BY DEF DeqData
  <1>2. /\ deq'.head = deq.head /\ deq'.tail = deq.tail /\ deq'.succ = next[deq.head.node]
        /\ deq'.got = data[deq.succ]
    BY <1>1 DEF TypeOK, Deq, Top
  <1> QED
    BY <1>2 DEF DeqData, CGoto, shared, counts

LEMMA ReadTailNextFacts ==
    ASSUME TypeOK, DeqReadTailNext
    PROVE  /\ cpc = "help" /\ cpc' = "helped"
           /\ pc' = pc /\ puts' = puts /\ enq' = enq /\ UNCHANGED <<head, next, data, used, log>>
           /\ UNCHANGED <<tail, size, headCount, owed>> /\ tailCount' = tailCount + 1
           /\ deq'.head = deq.head /\ deq'.tail = deq.tail /\ deq'.tnumber = tailCount + 1
           /\ deq'.succ = next[deq.tail.node]
  <1>1. deq' = [deq EXCEPT !.tnumber = tailCount + 1, !.succ = next[deq.tail.node]]
    BY DEF DeqReadTailNext
  <1>2. /\ deq'.head = deq.head /\ deq'.tail = deq.tail /\ deq'.tnumber = tailCount + 1
        /\ deq'.succ = next[deq.tail.node]
    BY <1>1 DEF TypeOK, Deq, Top
  <1> QED
    BY <1>2 DEF DeqReadTailNext, CGoto

LEMMA NumbersByConsumer ==
    ASSUME TypeOK, NumbersInv, DequeueInv, ConsumerStep
    PROVE  NumbersInv'
  <1>1. ASSUME pc' = pc, enq' = enq PROVE NumbersKept
    BY <1>1 DEF NumbersKept, Pending, Drawn, Seen
  <1>2. CASE DeqReadTailCount
    <2>1. /\ pc' = pc /\ enq' = enq /\ tail' = tail /\ tailCount' = tailCount
          /\ deq'.tail.count = tail.count /\ cpc' = "next"
      BY <1>2, ReadTailCountFacts
    <2>2. Pending' = Pending /\ Seen' = Seen
      BY <2>1 DEF Pending, Drawn, Seen
    <2> QED
      BY <2>1, <2>2 DEF NumbersInv
  <1>3. CASE DeqReadTailNext
    <2>1. /\ pc' = pc /\ enq' = enq /\ tail' = tail /\ tailCount' = tailCount + 1
          /\ deq'.tail = deq.tail /\ deq'.tnumber = tailCount + 1 /\ cpc = "help"
      BY <1>3, ReadTailNextFacts
    <2>2. Pending' = Pending /\ Seen' = Seen
      BY <2>1 DEF Pending, Drawn, Seen
    <2>3. /\ tailCount \in Nat /\ \A x \in 0 .. tailCount : x \in 0 .. tailCount + 1 /\ x # tailCount + 1
          /\ tailCount + 1 \in 0 .. tailCount + 1
      BY DEF TypeOK
    <2>4. SeesTail
      BY <2>1 DEF SeesTail
    <2> QED
      BY <2>1, <2>2, <2>3, <2>4 DEF NumbersInv
  <1>4. CASE DeqHelp
    <2>1. /\ pc' = pc /\ enq' = enq /\ tailCount' = tailCount /\ cpc = "helped" /\ cpc' = "node"
          /\ (tail' = tail \/ tail' = [node |-> deq.succ, count |-> deq.tnumber])
      BY <1>4, MoveTailCases DEF DeqHelp, CGoto, counts
    <2>2. Pending' = Pending /\ Seen' = Seen /\ ~SeesTail'
      BY <2>1 DEF Pending, Drawn, Seen, SeesTail
    <2> QED
      BY <2>1, <2>2 DEF NumbersInv
  <1>5. CASE DeqSwap
    BY <1>1, <1>5, NumbersRest, TakeFacts DEF SeesTail
  <1>6. CASE DeqFree
    <2>1. /\ pc' = pc /\ enq' = enq /\ tail' = tail /\ tailCount' = tailCount /\ cpc' = "size"
      BY <1>6 DEF DeqFree, CGoto, counts
    <2> QED
      BY <1>1, <2>1, NumbersRest DEF SeesTail
  <1>7. CASE DeqReadNext \/ DeqTestTail \/ DeqData
    <2>1. /\ pc' = pc /\ enq' = enq /\ tail' = tail /\ tailCount' = tailCount /\ cpc' # "helped"
          /\ deq'.tail = deq.tail /\ SeesTail
      <3>1. CASE DeqReadNext
        BY <3>1, ReadHeadNextFacts DEF SeesTail
      <3>2. CASE DeqTestTail
        BY <3>2 DEF DeqTestTail, CGoto, shared, counts, SeesTail
      <3>3. CASE DeqData
        BY <3>3, DataFacts DEF SeesTail
      <3> QED
        BY <1>7, <3>1, <3>2, <3>3
    <2> QED
      BY <1>1, <2>1, NumbersRest
  <1>8. CASE DeqBegin \/ DeqReadHead \/ DeqReadTail \/ DeqFail \/ DeqSpin \/ DeqSize
    <2>1. /\ pc' = pc /\ enq' = enq /\ tail' = tail /\ tailCount' = tailCount /\ ~SeesTail' /\ cpc' # "helped"
      BY <1>8 DEF DeqBegin, DeqReadHead, DeqReadTail, DeqFail, DeqSpin, DeqSize, CGoto, shared, counts, SeesTail
    <2> QED
      BY <1>1, <2>1, NumbersRest
  <1>9. CASE (\E i \in 0 .. MaxPut : PeekBegin(i)) \/ EmptySize \/ LookStep
    <2>1. /\ pc' = pc /\ enq' = enq /\ tail' = tail /\ tailCount' = tailCount /\ ~SeesTail' /\ cpc' # "helped"
      BY <1>9 DEF PeekBegin, EmptySize, LookStep, PeekStep, PeekEnd, EmptyTops, CGoto, shared, counts, SeesTail
    <2> QED
      BY <1>1, <2>1, NumbersRest
  <1> QED
    BY <1>2, <1>3, <1>4, <1>5, <1>6, <1>7, <1>8, <1>9 DEF ConsumerStep, DequeueStep

LEMMA NumbersStep ==
    ASSUME Structured, [Next]_vars
    PROVE  NumbersInv'
  <1>1. CASE UNCHANGED vars
    BY <1>1, NumbersRest DEF Structured, Inv, vars, shared, counts, taker, NumbersKept, Pending, Drawn, Seen, SeesTail
  <1> QED
    BY <1>1, NumbersByProducer, NumbersByConsumer DEF Structured, Inv, Next, ConsumerStep

\* What a producer knows while the tail is the one it read.
Known(p) ==
    /\ p \in Seen /\ tail = enq[p].clone =>
          /\ pc[p] = "next" => enq[p].at = tail.node
          /\ pc[p] \in {"help", "helped", "size", "swing", "swap"} => next[tail.node] # Null
          /\ pc[p] \in {"helped", "swap"} => enq[p].succ = next[tail.node]
    /\ pc[p] = "next" => enq[p].at \in Nodes
KnownToConsumer ==
    /\ cpc \in {"help", "helped"} /\ tail = deq.tail => next[tail.node] # Null
    /\ cpc = "helped" /\ tail = deq.tail => deq.succ = next[tail.node]

LEMMA TailParts ==
    TailInv <=> /\ tail.node \in Tree(next, head.node)
                /\ \A p \in Producers : Known(p)
                /\ KnownToConsumer
  <1>1. Seen \subseteq Producers
    BY Labels
  <1> QED
    BY <1>1 DEF TailInv, Known, KnownToConsumer

LEMMA TailPartsNext ==
    ASSUME tail'.node \in Tree(next', head'.node), \A p \in Producers : Known(p)', KnownToConsumer'
    PROVE  TailInv'
  <1>1. Seen' \subseteq Producers
    BY DEF Seen, Pending, Drawn
  <1> QED
    BY <1>1 DEF TailInv, Known, KnownToConsumer

\* The link behind the tail is made once.
Held == tail' = tail /\ (next[tail.node] # Null => next'[tail.node] = next[tail.node])

LEMMA TailOthers ==
    ASSUME TailInv, Held, NEW p \in Producers, Alone(p), Known(p)',
           tail.node \in Tree(next', head'.node)
    PROVE  TailInv'
  <1>1. ASSUME NEW q \in Producers \ {p} PROVE Known(q)'
    <2>1. Known(q)
      BY TailParts
    <2>2. /\ pc'[q] = pc[q] /\ enq'[q] = enq[q] /\ (q \in Seen' <=> q \in Seen)
      BY DEF Alone, Seen, Pending, Drawn
    <2> QED
      BY <2>1, <2>2 DEF Known, Held
  <1>2. KnownToConsumer'
    BY TailParts DEF KnownToConsumer, Alone, Held
  <1> QED
    BY <1>1, <1>2, TailPartsNext DEF Held

\* The tail moves to the next node, with a number nobody has read.
LEMMA TailMoved ==
    ASSUME TypeOK, ForestInv, next[tail.node] # Null, tail'.node = next[tail.node],
           tail.node \in Tree(next, head.node),
           next' = next, head' = head,
           \A q \in Seen' : enq'[q].clone.count # tail'.count,
           cpc' \in {"help", "helped"} => deq'.tail.count # tail'.count,
           \A q \in Producers : pc'[q] = "next" => enq'[q].at \in Nodes
    PROVE  TailInv'
  <1>1. tail'.node \in Tree(next', head'.node)
    <2>1. HasTrail(next, head.node)
      BY Places
    <2> QED
      BY <2>1, TreeFacts
  <1>2. ASSUME NEW q \in Producers PROVE Known(q)'
    BY DEF Known
  <1>3. KnownToConsumer'
    BY DEF KnownToConsumer
  <1> QED
    BY <1>1, <1>2, <1>3, TailPartsNext

LEMMA TailByProducer ==
    ASSUME TypeOK, ForestInv, OrderInv, NumbersInv, TailInv, NEW p \in Producers,
           EnqAlloc(p) \/ EnqueueStep(p)
    PROVE  TailInv'
  <1>0. /\ tail.node \in Tree(next, head.node) /\ tail.node \in Chained /\ tail.node \in Nodes /\ Known(p)
    BY TailPlace, TailParts
  <1>1. ASSUME Alone(p), tail' = tail, next' = next, Known(p)' PROVE TailInv'
    BY <1>0, <1>1, TailOthers DEF Held, Alone
  <1>2. ASSUME p \notin Seen', pc'[p] # "next" PROVE Known(p)'
    BY <1>2 DEF Known
  <1> USE DEF Seen, Pending, Drawn
  <1>3. CASE EnqAlloc(p)
    BY <1>1, <1>2, <1>3, AllocFacts
  <1>4. CASE EnqNull(p)
    <2>1. next'[tail.node] = next[tail.node] /\ tail.node \in Tree(next', head.node)
      BY <1>0, <1>4, NullSets
    <2> QED
      BY <1>2, <1>4, <2>1, NullFacts, TailOthers DEF Held, Alone
  <1>5. CASE EnqReadNode(p)
    BY <1>1, <1>2, <1>5, ReadNodeFacts
  <1>6. CASE EnqReadCount(p)
    <2>1. Known(p)'
      BY <1>6, ReadCountFacts DEF Known
    <2> QED
      BY <1>1, <1>6, <2>1, ReadCountFacts
  <1>7. CASE EnqReadAgain(p)
    <2>1. Known(p)'
      BY <1>0, <1>7, ReadAgainFacts DEF Known
    <2> QED
      BY <1>1, <1>7, <2>1, ReadAgainFacts
  <1>8. CASE EnqReadNext(p)
    <2>1. Known(p)'
      BY <1>0, <1>8, ReadNextFacts DEF Known
    <2> QED
      BY <1>1, <1>8, <2>1, ReadNextFacts
  <1>9. CASE EnqLink(p) /\ ~Linking(p)
    <2>1. Known(p)'
      BY <1>2, <1>9, LinkFacts
    <2> QED
      BY <1>1, <1>9, <2>1, LinkFacts
  <1>10. CASE EnqLink(p) /\ Linking(p)
    <2> DEFINE c == enq[p].clone.node
    <2>1. /\ next[c] = Null /\ next'[c] = New(p) /\ New(p) \in Hooks
          /\ \A m \in Nodes \ {c} : next'[m] = next[m]
          /\ Tree(next', head.node) = IF c \in Tree(next, head.node)
                                      THEN Tree(next, head.node) \cup Tree(next, New(p))
                                      ELSE Tree(next, head.node)
      <3> HIDE DEF Seen, Pending, Drawn
      <3>1. c = enq[p].clone.node
        OBVIOUS
      <3> HIDE DEF c
      <3>2. /\ next[c] = Null /\ next'[c] = New(p) /\ New(p) \in Hooks
            /\ \A m \in Nodes \ {c} : next'[m] = next[m]
            /\ \A r \in {head.node} \cup Hooks' :
                  Tree(next', r) = IF c \in Tree(next, r) THEN Tree(next, r) \cup Tree(next, New(p))
                                   ELSE Tree(next, r)
        BY <1>10, <3>1, LinkSets
      <3> QED
        BY <3>2
    <2>2. tail.node \in Tree(next', head.node)
      BY <1>0, <2>1
    <2>3. next[tail.node] # Null => next'[tail.node] = next[tail.node]
      BY <1>0, <2>1
    <2>4. next'[c] # Null
      <3>1. Hooks \subseteq Nodes
        BY Places
      <3> QED
        BY <2>1, <3>1, NullIsNoNode
    <2>5. Known(p)'
      BY <1>10, <2>4, LinkFacts DEF Known, Linking
    <2> QED
      BY <1>10, <2>2, <2>3, <2>5, LinkFacts, TailOthers DEF Held, Alone
  <1>11. CASE EnqSize(p)
    <2>1. Known(p)'
      BY <1>0, <1>11, SizeFacts DEF Known
    <2> QED
      BY <1>1, <1>11, <2>1, SizeFacts
  <1>12. CASE EnqReadSucc(p)
    <2> DEFINE v == next[enq[p].clone.node]
    <2>1. /\ (pc[p] = "swing" /\ pc'[p] = "swap") \/ (pc[p] = "help" /\ pc'[p] = "helped")
          /\ tail' = tail /\ next' = next /\ enq'[p].clone = enq[p].clone /\ enq'[p].succ = v
      BY <1>12, ReadSuccFacts
    <2>2. p \in Seen /\ (tail = enq[p].clone => next[tail.node] # Null /\ v = next[tail.node])
      BY <1>0, <2>1 DEF Known
    <2> HIDE DEF v
    <2>3. Known(p)'
      BY <2>1, <2>2 DEF Known
    <2> QED
      BY <1>1, <1>12, <2>3, ReadSuccFacts
  <1>13. ASSUME Alone(p), pc[p] \in {"swap", "helped"}, pc'[p] \in {"idle", "count"},
                MoveTail(enq[p].clone, enq[p].succ, enq[p].number), next' = next
         PROVE  TailInv'
    <2>1. CASE tail' = tail
      BY <1>1, <1>2, <1>13, <2>1
    <2>2. CASE tail = enq[p].clone /\ tail' = [node |-> enq[p].succ, count |-> enq[p].number]
      <3>1. p \in Seen /\ p \in Pending /\ p \notin Seen'
        BY <1>13
      <3>2. next[tail.node] # Null /\ enq[p].succ = next[tail.node]
        BY <1>0, <1>13, <2>2, <3>1 DEF Known
      <3>3. \A q \in Seen' : q \in Seen /\ enq'[q].clone = enq[q].clone
        BY <1>13, <3>1 DEF Alone
      <3>4. \A q \in Seen' : enq'[q].clone.count # tail'.count
        BY <2>2, <3>1, <3>3 DEF NumbersInv
      <3>5. cpc' \in {"help", "helped"} => deq'.tail.count # tail'.count
        BY <1>13, <2>2, <3>1 DEF NumbersInv, SeesTail, Alone
      <3>6. \A q \in Producers : pc'[q] = "next" => enq'[q].at \in Nodes
        BY <1>13 DEF TailInv, Alone
      <3>7. head' = head /\ tail'.node = next[tail.node]
        BY <1>13, <2>2, <3>2 DEF Alone
      <3> QED
        BY <1>0, <1>13, <3>2, <3>4, <3>5, <3>6, <3>7, TailMoved
    <2> QED
      BY <1>13, <2>1, <2>2, MoveTailCases
  <1>14. CASE EnqSwap(p)
    BY <1>13, <1>14, SwapFacts
  <1>15. CASE EnqHelp(p)
    BY <1>13, <1>15, HelpFacts
  <1> QED
    BY <1>3, <1>4, <1>5, <1>6, <1>7, <1>8, <1>9, <1>10, <1>11, <1>12, <1>14, <1>15 DEF EnqueueStep

LEMMA TailByConsumer ==
    ASSUME TypeOK, ForestInv, NumbersInv, TailInv, DequeueInv, ConsumerStep
    PROVE  TailInv'
  <1>0. tail.node \in Tree(next, head.node) /\ KnownToConsumer /\ \A q \in Producers : Known(q)
    BY TailParts
  <1>1. ASSUME tail' = tail, next' = next, pc' = pc, enq' = enq,
               tail.node \in Tree(next', head'.node), KnownToConsumer'
        PROVE  TailInv'
    <2>1. Seen' = Seen
      BY <1>1 DEF Seen, Pending, Drawn
    <2>2. \A q \in Producers : Known(q)'
      BY <1>0, <1>1, <2>1 DEF Known
    <2> QED
      BY <1>1, <2>2, TailPartsNext
  <1>2. ASSUME tail' = tail, next' = next, pc' = pc, enq' = enq, head' = head, cpc' \notin {"help", "helped"}
        PROVE  TailInv'
    BY <1>0, <1>1, <1>2 DEF KnownToConsumer
  <1>3. CASE DeqTestTail
    <2>1. /\ tail' = tail /\ next' = next /\ pc' = pc /\ enq' = enq /\ head' = head /\ deq' = deq
          /\ cpc' = IF next[deq.tail.node] # Null THEN "help" ELSE "data"
      BY <1>3 DEF DeqTestTail, CGoto, shared
    <2>2. KnownToConsumer'
      BY <2>1 DEF KnownToConsumer
    <2> QED
      BY <1>0, <1>1, <2>1, <2>2
  <1>4. CASE DeqReadTailNext
    <2>1. KnownToConsumer'
      BY <1>0, <1>4, ReadTailNextFacts DEF KnownToConsumer
    <2> QED
      BY <1>0, <1>1, <1>4, <2>1, ReadTailNextFacts
  <1>5. CASE DeqHelp
    <2>1. /\ cpc = "helped" /\ cpc' = "node" /\ pc' = pc /\ enq' = enq /\ next' = next /\ head' = head
          /\ MoveTail(deq.tail, deq.succ, deq.tnumber)
      BY <1>5 DEF DeqHelp, CGoto
    <2>2. CASE tail' = tail
      BY <1>2, <2>1, <2>2
    <2>3. CASE tail = deq.tail /\ tail' = [node |-> deq.succ, count |-> deq.tnumber]
      <3>1. next[tail.node] # Null /\ tail'.node = next[tail.node]
        BY <1>0, <2>1, <2>3 DEF KnownToConsumer
      <3>2. \A q \in Seen' : enq'[q].clone.count # tail'.count
        BY <2>1, <2>3 DEF NumbersInv, Seen, Pending, Drawn
      <3>3. \A q \in Producers : pc'[q] = "next" => enq'[q].at \in Nodes
        BY <2>1 DEF TailInv
      <3> QED
        BY <1>0, <2>1, <3>1, <3>2, <3>3, TailMoved
    <2> QED
      BY <2>1, <2>2, <2>3, MoveTailCases
  <1>6. CASE DeqSwap
    <2>1. tail.node \in Tree(next', head'.node)
      BY <1>0, <1>6, TakeSets, TakeFacts
    <2>2. KnownToConsumer'
      BY <1>6, TakeFacts DEF KnownToConsumer
    <2> QED
      BY <1>1, <1>6, <2>1, <2>2, TakeFacts
  <1>7. CASE DeqFree
    BY <1>2, <1>7, FreeSets
  <1>8. CASE DeqBegin \/ DeqReadHead \/ DeqReadTail \/ DeqReadTailCount \/ DeqReadNext \/ DeqData
    BY <1>2, <1>8 DEF DeqBegin, DeqReadHead, DeqReadTail, DeqReadTailCount, DeqReadNext, DeqData,
                      CGoto, shared
  <1>9. CASE DeqFail \/ DeqSpin \/ DeqSize
    BY <1>2, <1>9 DEF DeqFail, DeqSpin, DeqSize, CGoto, shared
  <1>10. CASE (\E i \in 0 .. MaxPut : PeekBegin(i)) \/ EmptySize \/ LookStep
    BY <1>2, <1>10 DEF PeekBegin, EmptySize, LookStep, PeekStep, PeekEnd, EmptyTops, CGoto, shared
  <1> QED
    BY <1>3, <1>4, <1>5, <1>6, <1>7, <1>8, <1>9, <1>10 DEF ConsumerStep, DequeueStep

LEMMA TailStep ==
    ASSUME Structured, [Next]_vars
    PROVE  TailInv'
  <1>1. CASE UNCHANGED vars
    BY <1>1 DEF Structured, Inv, TailInv, vars, shared, taker, Seen, Pending, Drawn
  <1> QED
    BY <1>1, TailByProducer, TailByConsumer DEF Structured, Inv, Next, ConsumerStep

LEMMA DequeueByProducer ==
    ASSUME TypeOK, ForestInv, OrderInv, NumbersInv, TailInv, DequeueInv, NEW p \in Producers,
           EnqAlloc(p) \/ EnqueueStep(p)
    PROVE  DequeueInv'
  <1> DEFINE h == head.node
             s == next[h]
  <1>1. /\ h \in Chained /\ h \in Nodes /\ tail.node \in Tree(next, h) /\ HasTrail(next, h)
        /\ s # Null => s \in Chained /\ s \in Nodes
        /\ s # Null => next'[h] = s /\ data'[s] = data[s]
    <2>1. /\ h \in Chained /\ h \in Nodes /\ tail.node \in Tree(next, h) /\ HasTrail(next, h)
          /\ Tree(next, h) \subseteq Chained /\ Chained \subseteq Nodes /\ Chained \subseteq used
      BY Places, TailPlace
    <2>2. s # Null => s \in Chained /\ s \in Nodes
      BY <2>1, TreeFacts
    <2>3. s # Null => next'[h] = s /\ data'[s] = data[s]
      <3>1. CASE EnqAlloc(p)
        BY <2>1, <2>2, <3>1, AllocFacts
      <3>2. CASE EnqNull(p)
        BY <2>1, <3>2, NullFacts, NullSets
      <3>3. CASE EnqLink(p) /\ Linking(p)
        BY <2>1, <3>3, LinkFacts, LinkSets
      <3>4. CASE Passing(p)
        BY <3>4 DEF Passing
      <3> QED
        BY <3>1, <3>2, <3>3, <3>4, EnqueueSteps
    <2> QED
      BY <2>1, <2>2, <2>3
  <1>2. tail.node # h => tail'.node # h
    <2>1. tail' = tail \/ (next[tail.node] # Null /\ tail'.node = next[tail.node])
      <3>1. Known(p)
        BY TailParts
      <3>2. ASSUME pc[p] \in {"swap", "helped"}, MoveTail(enq[p].clone, enq[p].succ, enq[p].number)
            PROVE  tail' = tail \/ (next[tail.node] # Null /\ tail'.node = next[tail.node])
        BY <3>1, <3>2, MoveTailCases DEF Known, Seen, Pending, Drawn
      <3>3. CASE EnqSwap(p) \/ EnqHelp(p)
        BY <3>2, <3>3, SwapFacts, HelpFacts
      <3>4. CASE EnqAlloc(p) \/ EnqNull(p) \/ EnqReadNode(p) \/ EnqReadCount(p) \/ EnqReadAgain(p)
        BY <3>4, AllocFacts, NullFacts, ReadNodeFacts, ReadCountFacts, ReadAgainFacts
      <3>5. CASE EnqReadNext(p) \/ EnqLink(p) \/ EnqSize(p) \/ EnqReadSucc(p)
        BY <3>5, ReadNextFacts, LinkFacts, SizeFacts, ReadSuccFacts
      <3> QED
        BY <3>3, <3>4, <3>5 DEF EnqueueStep
    <2> QED
      BY <1>1, <2>1, TreeFacts
  <1>3. head' = head /\ cpc' = cpc /\ deq' = deq
    <2>1. Alone(p)
      <3>1. CASE EnqAlloc(p)
        BY <3>1, AllocFacts
      <3>2. CASE EnqNull(p)
        BY <3>2, NullFacts
      <3>3. CASE EnqLink(p)
        BY <3>3, LinkFacts
      <3>4. CASE Passing(p)
        BY <3>4 DEF Passing
      <3> QED
        BY <3>1, <3>2, <3>3, <3>4, EnqueueSteps
    <2> QED
      BY <2>1 DEF Alone
  <1>4. cpc = "swap" => deq.succ = s /\ s # Null
    BY DEF DequeueInv
  <1> HIDE DEF s
  <1>5. cpc \in {"test", "data", "swap"} /\ deq.tail.node # h => deq.succ = s /\ s # Null /\ next'[h] = s
    BY <1>1 DEF DequeueInv, s
  <1> QED
    BY <1>1, <1>2, <1>3, <1>4, <1>5 DEF DequeueInv

LEMMA DequeueByConsumer ==
    ASSUME TypeOK, ForestInv, TailInv, DequeueInv, ConsumerStep
    PROVE  DequeueInv'
  <1> USE DEF Behindhand
  <1>0. /\ head.node \in Nodes /\ tail.node \in Nodes
        /\ next[tail.node] # Null => next[tail.node] # head.node
        /\ tail.node # head.node => next[head.node] # Null
    <2>1. HasTrail(next, head.node) /\ head.node \in Nodes /\ tail.node \in Nodes
          /\ tail.node \in Tree(next, head.node)
      BY Places, TailPlace
    <2> QED
      BY <2>1, TreeFacts
  <1>1. CASE DeqReadHead
    BY <1>1, ReadHeadFacts DEF DequeueInv
  <1>2. CASE DeqReadTail
    BY <1>0, <1>2, ReadTailFacts DEF DequeueInv
  <1>3. CASE DeqReadTailCount
    BY <1>3, ReadTailCountFacts DEF DequeueInv
  <1>4. CASE DeqReadNext
    BY <1>0, <1>4, ReadHeadNextFacts DEF DequeueInv
  <1>5. CASE DeqTestTail
    BY <1>5 DEF DequeueInv, DeqTestTail, CGoto, shared
  <1>6. CASE DeqReadTailNext
    BY <1>6, ReadTailNextFacts DEF DequeueInv
  <1>7. CASE DeqData
    BY <1>7, DataFacts DEF DequeueInv
  <1>8. CASE DeqSwap
    BY <1>0, <1>8, TakeFacts DEF DequeueInv
  <1>9. CASE DeqFree
    BY <1>9, FreeSets DEF DequeueInv
  <1>10. CASE DeqBegin \/ DeqHelp
    BY <1>10 DEF DequeueInv, DeqBegin, DeqHelp, CGoto
  <1>11. CASE DeqFail \/ DeqSpin \/ DeqSize
    BY <1>11 DEF DequeueInv, DeqFail, DeqSpin, DeqSize, CGoto
  <1>12. CASE (\E i \in 0 .. MaxPut : PeekBegin(i)) \/ EmptySize \/ LookStep
    BY <1>12 DEF DequeueInv, PeekBegin, EmptySize, LookStep, PeekStep, PeekEnd, EmptyTops, CGoto
  <1> QED
    BY <1>1, <1>2, <1>3, <1>4, <1>5, <1>6, <1>7, <1>8, <1>9, <1>10, <1>11, <1>12 DEF ConsumerStep, DequeueStep

LEMMA DequeueStepKept ==
    ASSUME Structured, [Next]_vars
    PROVE  DequeueInv'
  <1>1. CASE UNCHANGED vars
    BY <1>1 DEF Structured, Inv, DequeueInv, vars, shared, taker, Behindhand
  <1> QED
    BY <1>1, DequeueByProducer, DequeueByConsumer DEF Structured, Inv, Next, ConsumerStep

LEMMA ValuesSame ==
    ASSUME ValuesInv, Live' = Live, data' = data, log' = log, puts' = puts,
           Unlinked' \cup Fresh' \subseteq Unlinked \cup Fresh,
           \A q \in Unlinked \cup Fresh : New(q)' = New(q)
    PROVE  ValuesInv'
  <1>1. Begun' = Begun
    BY DEF Begun
  <1>2. \A q \in Unlinked' \cup Fresh' : data'[New(q)'] = <<q, puts'[q]>> /\ puts'[q] >= 1
    BY DEF ValuesInv
  <1> QED
    BY <1>1, <1>2 DEF ValuesInv

\* MaxPut bounds the values put, so it bounds those of each producer.
LEMMA PutRoom ==
    ASSUME TypeOK, NEW p \in Producers, Cardinality(Begun) < MaxPut
    PROVE  puts[p] \in 0 .. MaxPut - 1 /\ puts[p] + 1 \in 0 .. MaxPut
  <1> DEFINE k == puts[p]
             f == [i \in 1 .. k |-> <<p, i>>]
  <1>1. k \in 0 .. MaxPut /\ MaxPut \in Nat
    BY Bounds DEF TypeOK
  <1>2. IsFiniteSet(Begun)
    <2>1. IsFiniteSet(Producers) /\ IsFiniteSet(1 .. MaxPut)
      BY <1>1, Finite, FS_Interval
    <2>2. IsFiniteSet(Values)
      BY <2>1, FS_Product DEF Values
    <2> QED
      BY <2>2, FS_Subset DEF Begun
  <1>3. k <= Cardinality(Begun)
    <2>1. f \in Injection(1 .. k, Begun)
      <3>1. \A i \in 1 .. k : <<p, i>> \in Begun
        BY <1>1 DEF Begun, Values
      <3>2. f \in [1 .. k -> Begun]
        BY <3>1
      <3>3. \A i, j \in 1 .. k : f[i] = f[j] => i = j
        OBVIOUS
      <3> HIDE DEF f
      <3> QED
        BY <3>2, <3>3 DEF Injection, IsInjective
    <2> HIDE DEF f, k
    <2>2. Cardinality(1 .. k) = k
      <3>1. 1 \in Int /\ k \in Int /\ k >= 0
        BY <1>1
      <3>2. Cardinality(1 .. k) = IF 1 > k THEN 0 ELSE k - 1 + 1
        BY <3>1, FS_Interval
      <3> QED
        BY <3>1, <3>2
    <2> QED
      BY <1>2, <2>1, <2>2, FS_Injection
  <1>4. Cardinality(Begun) \in Nat
    BY <1>2, FS_CardinalityType
  <1> HIDE DEF k
  <1>5. k \in 0 .. MaxPut - 1 /\ k + 1 \in 0 .. MaxPut
    BY <1>1, <1>3, <1>4
  <1> QED
    BY <1>5 DEF k

LEMMA ValuesByAlloc ==
    ASSUME TypeOK, ForestInv, ValuesInv, NEW p \in Producers, EnqAlloc(p)
    PROVE  ValuesInv'
  <1> DEFINE n == New(p)'
             v == <<p, puts[p] + 1>>
  <1>1. /\ Alone(p) /\ puts'[p] = puts[p] + 1 /\ log' = log /\ Cardinality(Begun) < MaxPut
        /\ data'[n] = v /\ \A m \in Nodes \ {n} : data'[m] = data[m]
        /\ puts[p] \in Nat
    <2>1. n = enq'[p].new
      BY DEF New
    <2>2. puts[p] \in Nat
      BY Bounds DEF TypeOK
    <2> HIDE DEF n
    <2>3. Alone(p) => log' = log
      BY DEF Alone
    <2> QED
      BY <2>1, <2>2, <2>3, AllocFacts
  <1>2. /\ Live' = Live \cup {n} /\ n \notin Live /\ Live \subseteq Nodes
        /\ Unlinked' = Unlinked /\ Fresh' = Fresh \cup {p} /\ p \notin Fresh \cup Unlinked
        /\ \A q \in Unlinked \cup Fresh : New(q)' = New(q) /\ New(q) # n /\ New(q) \in Nodes
    <2>1. /\ Live' = Live \cup {n} /\ n \notin Live /\ Live \subseteq Nodes
          /\ Unlinked' = Unlinked /\ Fresh' = Fresh \cup {p} /\ p \notin Fresh \cup Unlinked
          /\ \A q \in Unlinked \cup Fresh : New(q)' = New(q)
          /\ n \notin used
      BY AllocSets DEF Live
    <2>2. \A q \in Unlinked \cup Fresh : New(q) \in used /\ New(q) \in Nodes
      BY Places
    <2> HIDE DEF n
    <2> QED
      BY <2>1, <2>2
  <1>3. Begun' = Begun \cup {v} /\ v \notin Begun
    <2>1. puts[p] + 1 \in 1 .. MaxPut
      BY <1>1, PutRoom
    <2>2. v \in Values /\ ~(puts[p] + 1 <= puts[p])
      BY <1>1, <2>1 DEF Values
    <2>3. ASSUME NEW w \in Values
          PROVE  w[2] <= puts'[w[1]] <=> (w[2] <= puts[w[1]] \/ w = v)
      <3>1. w[1] \in Producers /\ w[2] \in 1 .. MaxPut /\ w = <<w[1], w[2]>>
        BY DEF Values
      <3>2. CASE w[1] # p
        BY <1>1, <3>1, <3>2 DEF Alone
      <3>3. CASE w[1] = p
        <4>1. w[2] \in Int /\ puts[p] \in Int
          BY <1>1, <3>1
        <4>2. w[2] <= puts[p] + 1 <=> (w[2] <= puts[p] \/ w[2] = puts[p] + 1)
          BY <4>1
        <4>3. w[2] = puts[p] + 1 <=> w = v
          BY <3>1, <3>3
        <4> QED
          BY <1>1, <3>3, <4>2, <4>3
      <3> QED
        BY <3>2, <3>3
    <2> HIDE DEF v
    <2>4. Begun' = {w \in Values : w[2] <= puts'[w[1]]}
      BY DEF Begun
    <2> QED
      BY <2>2, <2>3, <2>4 DEF Begun, v
  <1>4. \A m \in Live : data'[m] = data[m] /\ data[m] \in Begun
    BY <1>1, <1>2 DEF ValuesInv
  <1>5. \A i \in 1 .. Len(log) : log[i] \in Begun
    BY DEF ValuesInv
  <1>6. \A q \in Unlinked' \cup Fresh' : data'[New(q)'] = <<q, puts'[q]>> /\ puts'[q] >= 1
    <2>1. ASSUME NEW q \in Unlinked \cup Fresh PROVE data'[New(q)'] = <<q, puts'[q]>> /\ puts'[q] >= 1
      <3>1. q # p /\ q \in Producers
        BY <1>2, Labels
      <3>2. data'[New(q)'] = data[New(q)] /\ puts'[q] = puts[q]
        BY <1>1, <1>2, <3>1 DEF Alone
      <3> QED
        BY <3>2 DEF ValuesInv
    <2>2. data'[New(p)'] = <<p, puts'[p]>> /\ puts'[p] >= 1
      BY <1>1
    <2> QED
      BY <1>2, <2>1, <2>2
  <1> HIDE DEF n, v
  <1>7. \A m \in Live' : (m = n /\ data'[m] = v) \/ (m \in Live /\ m # n /\ data'[m] = data[m])
    BY <1>1, <1>2, <1>4
  <1>8. /\ \A m, k \in Live' : data'[m] = data'[k] => m = k
        /\ \A m \in Live' : data'[m] \in Begun' /\ \A i \in 1 .. Len(log') : log'[i] # data'[m]
    <2>1. \A m, k \in Live : data[m] = data[k] => m = k
      BY DEF ValuesInv
    <2>2. \A m \in Live : \A i \in 1 .. Len(log) : log[i] # data[m]
      BY DEF ValuesInv
    <2> QED
      BY <1>1, <1>3, <1>4, <1>5, <1>7, <2>1, <2>2
  <1>9. /\ \A i, j \in 1 .. Len(log') : log'[i] = log'[j] => i = j
        /\ \A i \in 1 .. Len(log') : log'[i] \in Begun'
    BY <1>1, <1>3, <1>5 DEF ValuesInv
  <1>10. \A w \in Begun' : (\E m \in Live' : data'[m] = w) \/ (\E i \in 1 .. Len(log') : log'[i] = w)
    <2>1. ASSUME NEW w \in Begun
          PROVE  (\E m \in Live : data'[m] = w) \/ (\E i \in 1 .. Len(log') : log'[i] = w)
      BY <1>1, <1>4 DEF ValuesInv
    <2> QED
      BY <1>1, <1>2, <1>3, <2>1
  <1> QED
    BY <1>6, <1>8, <1>9, <1>10 DEF ValuesInv

LEMMA ValuesByTake ==
    ASSUME TypeOK, ForestInv, DequeueInv, ValuesInv, DeqSwap
    PROVE  ValuesInv'
  <1> DEFINE s == deq.succ
             K == Len(log)
  <1>1. /\ data' = data /\ log' = Append(log, data[s]) /\ puts' = puts /\ enq' = enq
    BY TakeFacts
  <1>2. /\ Live' = Live \ {s} /\ s \in Live /\ Unlinked' = Unlinked /\ Fresh' = Fresh
    BY TakeSets
  <1>3. Begun' = Begun
    BY <1>1 DEF Begun
  <1>4. log \in Seq(Values) /\ data[s] \in Begun
    BY <1>2 DEF TypeOK, ValuesInv
  <1>5. K \in Nat /\ Len(log') = K + 1 /\ log'[K + 1] = data[s] /\ \A i \in 1 .. K : log'[i] = log[i]
    BY <1>1, <1>4
  <1> HIDE DEF s, K
  <1>6. \A i \in 1 .. Len(log') : i \in 1 .. K \/ i = K + 1
    BY <1>5
  <1>7. /\ \A i \in 1 .. K : i \in 1 .. Len(log')
        /\ K + 1 \in 1 .. Len(log')
    BY <1>5
  <1>8. /\ \A m, k \in Live : data[m] = data[k] => m = k
        /\ \A m \in Live : data[m] \in Begun /\ \A i \in 1 .. K : log[i] # data[m]
        /\ \A i, j \in 1 .. K : log[i] = log[j] => i = j
        /\ \A i \in 1 .. K : log[i] \in Begun
        /\ \A v \in Begun : (\E m \in Live : data[m] = v) \/ (\E i \in 1 .. K : log[i] = v)
        /\ \A p \in Unlinked \cup Fresh : data[New(p)] = <<p, puts[p]>> /\ puts[p] >= 1
    BY DEF ValuesInv, K
  <1>9. \A m \in Live' : data'[m] \in Begun' /\ \A i \in 1 .. Len(log') : log'[i] # data'[m]
    BY <1>1, <1>2, <1>3, <1>5, <1>6, <1>8
  <1>10. \A i, j \in 1 .. Len(log') : log'[i] = log'[j] => i = j
    BY <1>2, <1>5, <1>6, <1>8
  <1>11. \A i \in 1 .. Len(log') : log'[i] \in Begun'
    BY <1>3, <1>4, <1>5, <1>6, <1>8
  <1>12. \A v \in Begun' : (\E m \in Live' : data'[m] = v) \/ (\E i \in 1 .. Len(log') : log'[i] = v)
    BY <1>1, <1>2, <1>3, <1>5, <1>7, <1>8
  <1>13. \A p \in Unlinked' \cup Fresh' : data'[New(p)'] = <<p, puts'[p]>> /\ puts'[p] >= 1
    BY <1>1, <1>2, <1>8 DEF New
  <1> QED
    BY <1>1, <1>2, <1>8, <1>9, <1>10, <1>11, <1>12, <1>13 DEF ValuesInv

LEMMA ValuesStep ==
    ASSUME Structured, [Next]_vars
    PROVE  ValuesInv'
  <1> USE DEF Structured, Inv
  <1>1. ASSUME NEW p \in Producers, EnqNull(p) PROVE ValuesInv'
    BY <1>1, NullSets, NullFacts, ValuesSame, Labels DEF Alone
  <1>2. ASSUME NEW p \in Producers, EnqLink(p), Linking(p) PROVE ValuesInv'
    <2>1. /\ Live' = Live /\ Unlinked' = Unlinked \ {p} /\ Fresh' = Fresh
          /\ \A q \in Producers : New(q)' = New(q)
      BY <1>2, LinkSets
    <2> QED
      BY <1>2, <2>1, LinkFacts, ValuesSame, Labels DEF Alone
  <1>3. ASSUME NEW p \in Producers, EnqAlloc(p) \/ EnqueueStep(p) PROVE ValuesInv'
    BY <1>1, <1>2, <1>3, ValuesByAlloc, EnqueueSteps, PassingIsStill, StillValues
  <1>4. CASE DeqFree
    BY <1>4, FreeSets, ValuesSame DEF New
  <1>5. CASE ConsumerStep
    BY <1>4, <1>5, ConsumerSteps, ValuesByTake, RestingIsStill, StillValues
  <1>6. CASE UNCHANGED vars
    <2>1. Still
      BY <1>6 DEF vars, shared, taker, Still, Unlinked, Fresh, Leaving, New
    <2> QED
      BY <2>1, StillValues
  <1> QED
    BY <1>3, <1>5, <1>6 DEF Next, ConsumerStep

-----------------------------------------------------------------------------
(* m_lSize.                                                                *)

Counting == {p \in Producers : pc[p] = "size"}
InTaking == IF cpc \in {"free", "size"} THEN 1 ELSE 0

LEMMA CountFinite ==
    /\ IsFiniteSet(Behinds) /\ Cardinality(Behinds) \in Nat
    /\ IsFiniteSet(Counting) /\ Cardinality(Counting) \in Nat /\ Uncounted = Cardinality(Counting)
  <1>1. IsFiniteSet(Behinds)
    BY Finite, FS_Subset DEF Behinds
  <1>2. IsFiniteSet(Counting)
    BY Finite, FS_Subset DEF Counting
  <1> QED
    BY <1>1, <1>2, FS_CardinalityType DEF Uncounted, Counting

LEMMA CountStep ==
    ASSUME Structured, [Next]_vars
    PROVE  CountInv'
  <1> USE DEF Structured, Inv
  <1> DEFINE B == Cardinality(Behinds)
             C == Cardinality(Counting)
  <1>0. B \in Nat /\ C \in Nat /\ size = B - C + InTaking /\ size \in Int /\ InTaking \in {0, 1}
        /\ IsFiniteSet(Behinds) /\ IsFiniteSet(Counting)
    BY CountFinite DEF CountInv, TypeOK, InTaking
  <1>1. ASSUME size' = Cardinality(Behinds') - Cardinality(Counting') + InTaking' PROVE CountInv'
    BY <1>1 DEF CountInv, Uncounted, Counting, InTaking
  <1> HIDE DEF B, C
  <1>2. ASSUME Behinds' = Behinds, Counting' = Counting, size' = size, InTaking' = InTaking PROVE CountInv'
    BY <1>0, <1>1, <1>2 DEF B, C
  <1>3. ASSUME NEW p \in Producers, Alone(p), pc[p] # "size", pc'[p] # "size" PROVE Counting' = Counting
    BY <1>3 DEF Counting, Alone
  <1>4. ASSUME NEW p \in Producers, Alone(p) PROVE InTaking' = InTaking
    BY <1>4 DEF InTaking, Alone
  <1>5. ASSUME NEW p \in Producers, EnqAlloc(p) PROVE CountInv'
    BY <1>2, <1>3, <1>4, <1>5, AllocSets, AllocFacts
  <1>6. ASSUME NEW p \in Producers, EnqNull(p) PROVE CountInv'
    BY <1>2, <1>3, <1>4, <1>6, NullSets, NullFacts
  <1>7. ASSUME NEW p \in Producers, EnqLink(p), Linking(p) PROVE CountInv'
    <2>1. Behinds' = Behinds \cup {New(p)} /\ New(p) \notin Behinds
      BY <1>7, LinkSets
    <2>2. Counting' = Counting \cup {p} /\ p \notin Counting /\ size' = size /\ InTaking' = InTaking
      BY <1>4, <1>7, LinkFacts DEF Linking, Counting, Alone
    <2>3. Cardinality(Behinds') = B + 1 /\ Cardinality(Counting') = C + 1
      BY <1>0, <2>1, <2>2, FS_AddElement DEF B, C
    <2> QED
      BY <1>0, <1>1, <2>2, <2>3
  <1>8. ASSUME NEW p \in Producers, EnqSize(p) PROVE CountInv'
    <2>1. /\ Alone(p) /\ pc[p] = "size" /\ pc'[p] = "swing" /\ size' = size + 1 /\ Passing(p)
      BY <1>8, SizeFacts DEF Passing, Free
    <2>2. Behinds' = Behinds /\ InTaking' = InTaking
      BY <1>4, <2>1, PassingIsStill, StillSets
    <2>3. Counting' = Counting \ {p} /\ p \in Counting
      BY <2>1 DEF Counting, Alone
    <2>4. Cardinality(Counting') = C - 1
      BY <1>0, <2>3, FS_RemoveElement DEF C
    <2> QED
      BY <1>0, <1>1, <2>1, <2>2, <2>4 DEF B
  <1>9. ASSUME NEW p \in Producers, EnqueueStep(p), Passing(p), ~EnqSize(p) PROVE CountInv'
    <2>1. Behinds' = Behinds /\ InTaking' = InTaking
      BY <1>4, <1>9, PassingIsStill, StillSets DEF Passing
    <2>2. size' = size /\ pc[p] # "size" /\ pc'[p] # "size"
      <3>1. CASE EnqNull(p) \/ EnqReadNode(p) \/ EnqReadCount(p) \/ EnqReadAgain(p)
        BY <3>1, NullFacts, ReadNodeFacts, ReadCountFacts, ReadAgainFacts
      <3>2. CASE EnqReadNext(p)
        BY <3>2, ReadNextFacts
      <3>3. CASE EnqLink(p)
        BY <1>9, <3>3, LinkFacts DEF Linking, Passing, Holding, Free
      <3>4. CASE EnqReadSucc(p)
        BY <3>4, ReadSuccFacts
      <3>5. CASE EnqSwap(p) \/ EnqHelp(p)
        BY <3>5, SwapFacts, HelpFacts
      <3> QED
        BY <1>9, <3>1, <3>2, <3>3, <3>4, <3>5 DEF EnqueueStep
    <2> QED
      BY <1>2, <1>3, <1>9, <2>1, <2>2 DEF Passing
  <1>10. ASSUME NEW p \in Producers, EnqAlloc(p) \/ EnqueueStep(p) PROVE CountInv'
    BY <1>5, <1>6, <1>7, <1>8, <1>9, <1>10, EnqueueSteps
  <1>11. CASE DeqSwap
    <2>1. /\ Behinds' = Behinds \ {deq.succ} /\ deq.succ \in Behinds
      BY <1>11, TakeSets
    <2>2. Counting' = Counting /\ size' = size /\ InTaking' = 1 /\ InTaking = 0
      BY <1>11, TakeFacts DEF Counting, InTaking
    <2>3. Cardinality(Behinds') = B - 1
      BY <1>0, <2>1, FS_RemoveElement DEF B
    <2> QED
      BY <1>0, <1>1, <2>2, <2>3 DEF C
  <1>12. CASE DeqFree
    BY <1>2, <1>12, FreeSets DEF Counting, InTaking
  <1>13. CASE DeqSize
    <2>1. Counting' = Counting /\ size' = size - 1 /\ InTaking' = 0 /\ InTaking = 1
      BY <1>13 DEF DeqSize, CGoto, Counting, InTaking
    <2>2. Behinds' = Behinds
      BY <1>13, RestingIsStill, StillSets DEF DeqSize, CGoto, Resting
    <2> QED
      BY <1>0, <1>1, <2>1, <2>2 DEF B, C
  <1>14. CASE ConsumerStep /\ Resting /\ ~DeqSize
    <2>1. Behinds' = Behinds /\ Counting' = Counting
      BY <1>14, RestingIsStill, StillSets DEF Resting, Counting
    <2>2. size' = size /\ cpc \notin {"free", "size"} /\ cpc' \notin {"free", "size"}
      <3>1. CASE DeqBegin \/ DeqReadHead \/ DeqReadTail \/ DeqReadTailCount \/ DeqReadNext \/ DeqData
        BY <3>1 DEF DeqBegin, DeqReadHead, DeqReadTail, DeqReadTailCount, DeqReadNext, DeqData,
                    CGoto, shared, counts
      <3>2. CASE DeqFail \/ DeqSpin \/ DeqTestTail \/ DeqReadTailNext \/ DeqHelp
        BY <3>2 DEF DeqFail, DeqSpin, DeqTestTail, DeqReadTailNext, DeqHelp, CGoto, shared, counts
      <3>3. CASE (\E i \in 0 .. MaxPut : PeekBegin(i)) \/ EmptySize \/ LookStep
        BY <3>3 DEF PeekBegin, EmptySize, LookStep, PeekStep, PeekEnd, EmptyTops, CGoto, shared, counts
      <3>4. ~DeqSwap /\ ~DeqFree
        BY <1>14 DEF DeqFree, DeqSwap, CGoto, Resting, DequeueInv, Behindhand
      <3> QED
        BY <1>14, <3>1, <3>2, <3>3, <3>4 DEF ConsumerStep, DequeueStep
    <2> QED
      BY <1>2, <2>1, <2>2 DEF InTaking
  <1>15. CASE ConsumerStep
    BY <1>11, <1>12, <1>13, <1>14, <1>15, ConsumerSteps
  <1>16. CASE UNCHANGED vars
    <2>1. Still /\ size' = size /\ Counting' = Counting /\ InTaking' = InTaking
      BY <1>16 DEF vars, shared, taker, counts, Still, Unlinked, Fresh, Leaving, New, Counting, InTaking
    <2> QED
      BY <1>2, <2>1, StillSets
  <1> QED
    BY <1>10, <1>15, <1>16 DEF Next, ConsumerStep

-----------------------------------------------------------------------------
(* Types.                                                                  *)

SharedOK ==
    /\ head \in Top /\ tail \in Top /\ Null \notin {head.node, tail.node}
    /\ next \in [Nodes -> Pointer] /\ data \in [Nodes -> Values \cup {Null}]
    /\ size \in Int /\ headCount \in Nat /\ tailCount \in Nat /\ used \subseteq Nodes
PutterOK ==
    pc \in [Producers -> PutLabels] /\ puts \in [Producers -> 0 .. MaxPut] /\ enq \in [Producers -> Enq]
TakerOK == cpc \in TakeLabels /\ deq \in Deq /\ owed \subseteq Values /\ log \in Seq(Values)

LEMMA TypeParts == TypeOK <=> SharedOK /\ PutterOK /\ TakerOK
  BY DEF TypeOK, SharedOK, PutterOK, TakerOK

LEMMA GotoTypes ==
    ASSUME TypeOK, NEW p \in Producers, NEW f, NEW t \in PutLabels, Goto(p, f, t)
    PROVE  pc' \in [Producers -> PutLabels] /\ TakerOK'
  BY DEF TypeOK, Goto, TakerOK, taker

LEMMA MoveTailTypes ==
    ASSUME TypeOK, NEW seen, NEW succ \in Pointer, NEW number \in Nat, MoveTail(seen, succ, number),
           tail = seen => succ # Null
    PROVE  tail' \in Top /\ tail'.node # Null
  BY DEF TypeOK, MoveTail, Top

LEMMA TypeByProducer ==
    ASSUME Structured, NEW p \in Producers, EnqAlloc(p) \/ EnqueueStep(p)
    PROVE  TypeOK'
  <1> USE DEF Structured, Inv
  <1>0. /\ SharedOK /\ PutterOK /\ TakerOK /\ enq[p] \in Enq /\ tail.node \in Nodes /\ Known(p)
        /\ enq[p].new \in Pointer /\ enq[p].number \in Nat /\ enq[p].clone \in Top
        /\ enq[p].succ \in Pointer /\ NoEnq \in Enq
    <2>1. SharedOK /\ PutterOK /\ TakerOK /\ Known(p) /\ tail.node \in Nodes
      BY TypeParts, TailParts, TailPlace
    <2>2. enq[p] \in Enq
      BY <2>1 DEF PutterOK
    <2> QED
      BY <2>1, <2>2, Distinct DEF Enq
  <1>1. ASSUME SharedOK', pc' \in [Producers -> PutLabels], puts' = puts,
               enq' \in [Producers -> Enq], TakerOK'
        PROVE  TypeOK'
    BY <1>0, <1>1 DEF TypeOK, SharedOK, PutterOK, TakerOK
  <1>2. ASSUME shared' = shared PROVE SharedOK'
    BY <1>0, <1>2 DEF shared, counts, SharedOK
  <1>3. ASSUME NEW e \in Enq, enq' = [enq EXCEPT ![p] = e] PROVE enq' \in [Producers -> Enq]
    BY <1>0, <1>3 DEF PutterOK
  <1>4. CASE EnqAlloc(p)
    <2>1. PICK n \in Nodes : /\ NodePool!Alloc(n) /\ enq' = [enq EXCEPT ![p].new = n]
                             /\ data' = [data EXCEPT ![n] = <<p, puts[p] + 1>>]
      BY <1>4 DEF EnqAlloc
    <2>2. puts[p] + 1 \in 0 .. MaxPut /\ puts[p] + 1 \in 1 .. MaxPut
      <3>1. puts[p] \in 0 .. MaxPut - 1 /\ puts[p] + 1 \in 0 .. MaxPut
        BY <1>4, PutRoom DEF EnqAlloc
      <3> QED
        BY <3>1
    <2>3. data' \in [Nodes -> Values \cup {Null}]
      <3>1. <<p, puts[p] + 1>> \in Values
        BY <2>2 DEF Values
      <3> QED
        BY <1>0, <2>1, <3>1 DEF SharedOK
    <2>4. enq' \in [Producers -> Enq]
      BY <1>0, <2>1 DEF PutterOK, Enq, Pointer
    <2>5. puts' \in [Producers -> 0 .. MaxPut]
      BY <1>0, <1>4, <2>2 DEF PutterOK, EnqAlloc
    <2>6. pc' \in [Producers -> PutLabels] /\ TakerOK'
      BY <1>4, GotoTypes DEF EnqAlloc, PutLabels
    <2>7. used' \subseteq Nodes
      BY <1>0, <2>1 DEF SharedOK, NodePool!Alloc
    <2>8. SharedOK'
      BY <1>0, <1>4, <2>3, <2>7 DEF SharedOK, EnqAlloc, counts
    <2> QED
      BY <2>4, <2>5, <2>6, <2>8, TypeParts DEF TypeOK, SharedOK, TakerOK
  <1>5. CASE EnqNull(p)
    <2>1. pc' \in [Producers -> PutLabels] /\ TakerOK'
      BY <1>5, GotoTypes DEF EnqNull, PutLabels
    <2>2. SharedOK'
      BY <1>0, <1>5 DEF SharedOK, EnqNull, counts, Pointer
    <2> QED
      BY <1>0, <1>1, <1>5, <2>1, <2>2 DEF EnqNull, PutterOK
  <1>6. CASE EnqReadNode(p)
    <2>1. pc' \in [Producers -> PutLabels] /\ TakerOK'
      BY <1>6, GotoTypes DEF EnqReadNode, PutLabels
    <2>2. SharedOK'
      BY <1>0, <1>6 DEF SharedOK, EnqReadNode
    <2>3. enq' \in [Producers -> Enq]
      <3>1. enq' = [enq EXCEPT ![p].number = tailCount + 1, ![p].clone.node = tail.node]
        BY <1>6 DEF EnqReadNode
      <3>2. DOMAIN enq' = Producers /\ enq' = [q \in Producers |-> enq'[q]]
        BY <1>0, <3>1 DEF PutterOK
      <3>3. \A q \in Producers : enq'[q] \in Enq
        BY <1>0, <1>6, ReadNodeFacts DEF PutterOK, Alone
      <3> QED
        BY <3>2, <3>3
    <2> QED
      BY <1>1, <1>6, <2>1, <2>2, <2>3 DEF EnqReadNode
  <1>7. CASE EnqReadCount(p)
    <2>1. pc' \in [Producers -> PutLabels] /\ TakerOK'
      BY <1>7, GotoTypes DEF EnqReadCount, PutLabels
    <2>2. enq' \in [Producers -> Enq]
      BY <1>0, <1>7 DEF PutterOK, SharedOK, EnqReadCount, Enq, Top
    <2> QED
      BY <1>1, <1>2, <1>7, <2>1, <2>2 DEF EnqReadCount
  <1>8. CASE EnqReadAgain(p)
    <2>1. pc' \in [Producers -> PutLabels] /\ TakerOK'
      BY <1>8, GotoTypes DEF EnqReadAgain, PutLabels
    <2>2. enq' \in [Producers -> Enq]
      BY <1>0, <1>8 DEF PutterOK, SharedOK, EnqReadAgain, Enq, Top
    <2> QED
      BY <1>1, <1>2, <1>8, <2>1, <2>2 DEF EnqReadAgain
  <1>9. CASE EnqReadNext(p)
    <2>1. pc' \in [Producers -> PutLabels] /\ TakerOK'
      <3>1. Goto(p, "next", pc'[p]) /\ pc'[p] \in PutLabels
        BY <1>9, ReadNextFacts DEF EnqReadNext, PutLabels
      <3> QED
        BY <3>1, GotoTypes
    <2>2. enq' \in [Producers -> Enq]
      BY <1>0, <1>9 DEF PutterOK, EnqReadNext, Enq, Pointer
    <2> QED
      BY <1>1, <1>2, <1>9, <2>1, <2>2 DEF EnqReadNext
  <1>10. CASE EnqLink(p)
    <2>1. pc' \in [Producers -> PutLabels] /\ TakerOK'
      BY <1>10, GotoTypes DEF EnqLink, PutLabels
    <2>2. next' \in [Nodes -> Pointer]
      BY <1>0, <1>10 DEF EnqLink, SharedOK
    <2>3. SharedOK'
      BY <1>0, <1>10, <2>2 DEF SharedOK, EnqLink, counts
    <2> QED
      BY <1>0, <1>1, <1>10, <2>1, <2>3 DEF EnqLink, PutterOK
  <1>11. CASE EnqSize(p)
    <2>1. pc' \in [Producers -> PutLabels] /\ TakerOK'
      BY <1>11, GotoTypes DEF EnqSize, PutLabels
    <2>2. SharedOK'
      BY <1>0, <1>11 DEF SharedOK, EnqSize
    <2> QED
      BY <1>0, <1>1, <1>11, <2>1, <2>2 DEF EnqSize, PutterOK
  <1>12. CASE EnqReadSucc(p)
    <2>1. pc' \in [Producers -> PutLabels] /\ TakerOK'
      BY <1>12, GotoTypes DEF EnqReadSucc, PutLabels
    <2>2. enq' \in [Producers -> Enq]
      <3> DEFINE v == next[enq[p].clone.node]
      <3>1. v \in Pointer
        <4>1. p \in Pending
          BY <1>12 DEF EnqReadSucc, Goto, Pending, Drawn
        <4>2. enq[p].clone.node \in Nodes
          BY <4>1 DEF ForestInv
        <4> QED
          BY <1>0, <4>2 DEF SharedOK
      <3>2. enq' = [enq EXCEPT ![p].succ = v]
        BY <1>12 DEF EnqReadSucc
      <3> HIDE DEF v
      <3> QED
        BY <1>0, <3>1, <3>2 DEF PutterOK, Enq
    <2> QED
      BY <1>1, <1>2, <1>12, <2>1, <2>2 DEF EnqReadSucc
  <1>13. ASSUME pc[p] \in {"swap", "helped"}, MoveTail(enq[p].clone, enq[p].succ, enq[p].number)
         PROVE  tail' \in Top /\ tail'.node # Null
    <2>1. tail = enq[p].clone => enq[p].succ # Null
      BY <1>0, <1>13 DEF Known, Seen, Pending, Drawn
    <2> QED
      BY <1>0, <1>13, <2>1, MoveTailTypes
  <1>14. CASE EnqSwap(p)
    <2>1. pc' \in [Producers -> PutLabels] /\ TakerOK'
      BY <1>14, GotoTypes DEF EnqSwap, PutLabels
    <2>2. tail' \in Top /\ tail'.node # Null
      BY <1>13, <1>14, SwapFacts
    <2>3. SharedOK'
      BY <1>0, <1>14, <2>2 DEF SharedOK, EnqSwap, counts
    <2>4. enq' \in [Producers -> Enq]
      BY <1>0, <1>3, <1>14 DEF EnqSwap
    <2> QED
      BY <1>1, <1>14, <2>1, <2>3, <2>4 DEF EnqSwap
  <1>15. CASE EnqHelp(p)
    <2>1. pc' \in [Producers -> PutLabels] /\ TakerOK'
      BY <1>15, GotoTypes DEF EnqHelp, PutLabels
    <2>2. tail' \in Top /\ tail'.node # Null
      BY <1>13, <1>15, HelpFacts
    <2>3. SharedOK'
      BY <1>0, <1>15, <2>2 DEF SharedOK, EnqHelp, counts
    <2>4. enq' \in [Producers -> Enq]
      <3>1. [NoEnq EXCEPT !.new = enq[p].new] \in Enq
        BY <1>0 DEF Enq, NoEnq
      <3> QED
        BY <1>3, <1>15, <3>1 DEF EnqHelp
    <2> QED
      BY <1>1, <1>15, <2>1, <2>3, <2>4 DEF EnqHelp
  <1> QED
    BY <1>4, <1>5, <1>6, <1>7, <1>8, <1>9, <1>10, <1>11, <1>12, <1>14, <1>15 DEF EnqueueStep

LEMMA TypeByConsumer ==
    ASSUME Structured, ConsumerStep
    PROVE  TypeOK'
  <1> USE DEF Structured, Inv
  <1>0. /\ SharedOK /\ PutterOK /\ TakerOK /\ deq \in Deq /\ tail.node \in Nodes /\ head.node \in Nodes
        /\ head \in Top /\ tail \in Top /\ KnownToConsumer /\ NoDeq \in Deq
        /\ deq.succ \in Pointer /\ deq.tnumber \in Nat /\ deq.number \in Nat /\ deq.head \in Top
    <2>1. SharedOK /\ PutterOK /\ TakerOK
      BY TypeParts
    <2>2. tail.node \in Nodes /\ head.node \in Nodes /\ KnownToConsumer
      BY TailPlace, Places, TailParts
    <2>3. deq \in Deq /\ head \in Top /\ tail \in Top
      BY <2>1 DEF SharedOK, TakerOK
    <2>4. deq.succ \in Pointer /\ deq.tnumber \in Nat /\ deq.number \in Nat /\ deq.head \in Top
      BY <2>3 DEF Deq
    <2> QED
      BY <2>1, <2>2, <2>3, <2>4, Distinct
  <1>1. ASSUME SharedOK', pc' = pc, puts' = puts, enq' = enq, TakerOK' PROVE TypeOK'
    BY <1>0, <1>1 DEF TypeOK, SharedOK, PutterOK, TakerOK
  <1>2. ASSUME shared' = shared PROVE SharedOK'
    BY <1>0, <1>2 DEF shared, counts, SharedOK
  <1>3. Returned \subseteq Values
    BY DEF Returned, Begun
  <1>4. \A n \in Nodes : next[n] \in Pointer /\ data[n] \in Values \cup {Null}
    BY <1>0 DEF SharedOK
  <1>5. CASE DeqBegin
    <2>1. [NoDeq EXCEPT !.number = headCount + 1] \in Deq /\ headCount + 1 \in Nat
      BY <1>0 DEF Deq, NoDeq, SharedOK
    <2>2. TakerOK'
      BY <1>0, <1>3, <1>5, <2>1 DEF TakerOK, DeqBegin, CGoto, TakeLabels
    <2>3. SharedOK'
      BY <1>0, <1>5, <2>1 DEF SharedOK, DeqBegin
    <2> QED
      BY <1>1, <1>5, <2>2, <2>3 DEF DeqBegin, CGoto
  <1>6. CASE DeqReadHead
    <2>1. TakerOK'
      BY <1>0, <1>6, ReadHeadFacts DEF TakerOK, TakeLabels
    <2> QED
      BY <1>1, <1>2, <1>6, <2>1 DEF DeqReadHead, CGoto
  <1>7. CASE DeqReadTail
    <2>1. TakerOK'
      BY <1>0, <1>7, ReadTailFacts DEF TakerOK, TakeLabels
    <2> QED
      BY <1>1, <1>2, <1>7, <2>1 DEF DeqReadTail, CGoto
  <1>8. CASE DeqReadTailCount
    <2>1. TakerOK'
      BY <1>0, <1>8, ReadTailCountFacts DEF TakerOK, TakeLabels
    <2> QED
      BY <1>1, <1>2, <1>8, <2>1 DEF DeqReadTailCount, CGoto
  <1>9. CASE DeqReadNext
    <2>1. deq.head.node \in Nodes
      BY <1>0, <1>9 DEF DeqReadNext, CGoto, DequeueInv, Behindhand
    <2>2. deq' \in Deq
      <3> DEFINE v == next[deq.head.node]
      <3>1. v \in Pointer /\ deq' = [deq EXCEPT !.succ = v]
        BY <1>4, <1>9, <2>1 DEF DeqReadNext
      <3> HIDE DEF v
      <3> QED
        BY <1>0, <3>1 DEF Deq
    <2>3. TakerOK'
      BY <1>0, <1>9, <2>2 DEF TakerOK, TakeLabels, DeqReadNext, CGoto
    <2> QED
      BY <1>1, <1>2, <1>9, <2>3 DEF DeqReadNext, CGoto
  <1>10. CASE DeqFail
    <2>1. TakerOK'
      BY <1>0, <1>10 DEF TakerOK, TakeLabels, DeqFail, CGoto, Leave
    <2> QED
      BY <1>1, <1>2, <1>10, <2>1 DEF DeqFail, CGoto
  <1>11. CASE DeqSpin
    <2>1. [NoDeq EXCEPT !.number = deq.number] \in Deq
      BY <1>0 DEF Deq, NoDeq
    <2>2. TakerOK'
      BY <1>0, <1>11, <2>1 DEF TakerOK, TakeLabels, DeqSpin, CGoto, Again
    <2> QED
      BY <1>1, <1>2, <1>11, <2>2 DEF DeqSpin, CGoto
  <1>12. CASE DeqTestTail
    <2>1. TakerOK'
      BY <1>0, <1>12 DEF TakerOK, TakeLabels, DeqTestTail, CGoto
    <2> QED
      BY <1>1, <1>2, <1>12, <2>1 DEF DeqTestTail, CGoto
  <1>13. CASE DeqReadTailNext
    <2>1. deq.tail.node \in Nodes /\ tailCount + 1 \in Nat
      BY <1>0, <1>13 DEF DeqReadTailNext, CGoto, DequeueInv, Behindhand, SharedOK
    <2>2. deq' \in Deq
      <3> DEFINE v == next[deq.tail.node]
                 c == tailCount + 1
      <3>1. v \in Pointer /\ c \in Nat /\ deq' = [deq EXCEPT !.tnumber = c, !.succ = v]
        BY <1>4, <1>13, <2>1 DEF DeqReadTailNext
      <3> HIDE DEF v, c
      <3> QED
        BY <1>0, <3>1 DEF Deq
    <2>3. TakerOK'
      BY <1>0, <1>13, <2>2 DEF TakerOK, TakeLabels, DeqReadTailNext, CGoto
    <2>4. SharedOK'
      BY <1>0, <1>13, <2>1 DEF SharedOK, DeqReadTailNext
    <2> QED
      BY <1>1, <1>13, <2>3, <2>4 DEF DeqReadTailNext, CGoto
  <1>14. CASE DeqHelp
    <2>1. /\ cpc = "helped" /\ MoveTail(deq.tail, deq.succ, deq.tnumber)
      BY <1>14 DEF DeqHelp, CGoto
    <2>2. tail = deq.tail => deq.succ # Null
      BY <1>0, <2>1 DEF KnownToConsumer
    <2>3. tail' \in Top /\ tail'.node # Null
      BY <1>0, <2>1, <2>2, MoveTailTypes
    <2>4. SharedOK'
      BY <1>0, <1>14, <2>3 DEF SharedOK, DeqHelp, counts
    <2>5. [NoDeq EXCEPT !.number = deq.number] \in Deq
      BY <1>0 DEF Deq, NoDeq
    <2>6. TakerOK'
      BY <1>0, <1>14, <2>5 DEF TakerOK, TakeLabels, DeqHelp, CGoto, Again
    <2> QED
      BY <1>1, <1>14, <2>4, <2>6 DEF DeqHelp, CGoto
  <1>15. CASE DeqData
    <2>1. deq.head.node \in Nodes /\ deq.succ \in Nodes
      BY <1>0, <1>15 DEF DeqData, CGoto, DequeueInv, Behindhand, Pointer
    <2>2. deq' \in Deq
      <3> DEFINE v == next[deq.head.node]
                 g == data[deq.succ]
      <3>1. v \in Pointer /\ g \in Values \cup {Null} /\ deq' = [deq EXCEPT !.got = g, !.succ = v]
        BY <1>4, <1>15, <2>1 DEF DeqData
      <3> HIDE DEF v, g
      <3> QED
        BY <1>0, <3>1 DEF Deq
    <2>3. TakerOK'
      BY <1>0, <1>15, <2>2 DEF TakerOK, TakeLabels, DeqData, CGoto
    <2> QED
      BY <1>1, <1>2, <1>15, <2>3 DEF DeqData, CGoto
  <1>16. CASE DeqSwap
    <2>1. /\ head' = [node |-> deq.succ, count |-> deq.number] /\ deq.succ # Null /\ cpc' = "free"
          /\ log' = Append(log, data[deq.succ]) /\ pc' = pc /\ puts' = puts /\ enq' = enq
          /\ UNCHANGED <<tail, next, data, size, headCount, tailCount, used, deq, owed>>
      BY <1>16, TakeFacts
    <2>2. head' \in Top /\ head'.node # Null
      BY <1>0, <2>1 DEF Top
    <2>3. SharedOK'
      BY <1>0, <2>1, <2>2 DEF SharedOK
    <2>4. data[deq.succ] \in Values
      BY <1>16, TakeSets DEF ValuesInv, Begun
    <2>5. TakerOK'
      BY <1>0, <2>1, <2>4 DEF TakerOK, TakeLabels
    <2> QED
      BY <1>1, <2>1, <2>3, <2>5
  <1>17. CASE DeqFree
    <2>1. used' \subseteq Nodes
      BY <1>0, <1>17 DEF DeqFree, NodePool!Free, SharedOK
    <2>2. SharedOK' /\ TakerOK'
      BY <1>0, <1>17, <2>1, FreeSets DEF SharedOK, TakerOK, TakeLabels
    <2> QED
      BY <1>1, <1>17, <2>2, FreeSets
  <1>18. CASE DeqSize
    <2>1. TakerOK'
      BY <1>0, <1>18 DEF TakerOK, TakeLabels, DeqSize, CGoto, Leave
    <2>2. SharedOK'
      BY <1>0, <1>18 DEF SharedOK, DeqSize
    <2> QED
      BY <1>1, <1>18, <2>1, <2>2 DEF DeqSize, CGoto
  <1>19. ASSUME NEW i \in 0 .. MaxPut, PeekBegin(i) PROVE TypeOK'
    <2>1. [NoDeq EXCEPT !.want = i, !.cursor = next[head.node]] \in Deq
      <3> DEFINE v == next[head.node]
      <3>1. v \in Pointer /\ i \in Nat
        BY <1>0, <1>4, Bounds
      <3> HIDE DEF v
      <3>2. [NoDeq EXCEPT !.want = i, !.cursor = v] \in Deq
        BY <1>0, <3>1 DEF Deq, NoDeq
      <3> QED
        BY <3>2 DEF v
    <2>2. TakerOK'
      BY <1>0, <1>19, <2>1 DEF TakerOK, TakeLabels, PeekBegin, CGoto
    <2> QED
      BY <1>1, <1>2, <1>19, <2>2 DEF PeekBegin, CGoto
  <1>20. CASE PeekStep
    <2>1. deq' \in Deq
      <3> DEFINE v == next[deq.cursor]
                 w == deq.pos + 1
      <3>1. deq.cursor \in Nodes /\ w \in Nat
        BY <1>0, <1>20 DEF PeekStep, Deq, Pointer
      <3>2. v \in Pointer /\ w \in Nat /\ deq' = [deq EXCEPT !.cursor = v, !.pos = w]
        BY <1>4, <1>20, <3>1 DEF PeekStep
      <3> HIDE DEF v, w
      <3> QED
        BY <1>0, <3>2 DEF Deq
    <2>2. TakerOK'
      BY <1>0, <1>20, <2>1 DEF TakerOK, TakeLabels, PeekStep, CGoto
    <2> QED
      BY <1>1, <1>2, <1>20, <2>2 DEF PeekStep, CGoto
  <1>21. CASE PeekEnd \/ EmptyTops
    <2>1. TakerOK'
      BY <1>0, <1>21 DEF TakerOK, TakeLabels, PeekEnd, EmptyTops, CGoto, Leave
    <2> QED
      BY <1>1, <1>2, <1>21, <2>1 DEF PeekEnd, EmptyTops, CGoto
  <1>22. CASE EmptySize
    <2>1. TakerOK'
      BY <1>0, <1>3, <1>22 DEF TakerOK, TakeLabels, EmptySize, CGoto
    <2> QED
      BY <1>1, <1>2, <1>22, <2>1 DEF EmptySize, CGoto
  <1> QED
    BY <1>5, <1>6, <1>7, <1>8, <1>9, <1>10, <1>11, <1>12, <1>13, <1>14, <1>15, <1>16, <1>17, <1>18,
       <1>19, <1>20, <1>21, <1>22 DEF ConsumerStep, DequeueStep, LookStep

LEMMA TypeStep ==
    ASSUME Structured, [Next]_vars
    PROVE  TypeOK'
  <1>1. CASE UNCHANGED vars
    BY <1>1 DEF Structured, TypeOK, vars, shared, counts, taker
  <1> QED
    BY <1>1, TypeByProducer, TypeByConsumer DEF Next, ConsumerStep

-----------------------------------------------------------------------------
(* Any number of producers.                                                *)

LEMMA InitTrail ==
    ASSUME Init
    PROVE  /\ TypeOK /\ Unlinked = {} /\ Fresh = {} /\ Pending = {} /\ Drawn = {} /\ Seen = {}
           /\ Hooks = {} /\ Buds = {} /\ Leaving = {} /\ Chained = {Dummy} /\ Live = {} /\ Behinds = {}
           /\ HasTrail(next, Dummy) /\ Tree(next, Dummy) = {Dummy} /\ head.node = Dummy
           /\ Begun = {}
  <1>1. TypeOK
    BY Distinct, Bounds DEF Init, TypeOK, Top, Pointer, PutLabels, TakeLabels
  <1>2. /\ Unlinked = {} /\ Fresh = {} /\ Pending = {} /\ Drawn = {} /\ Seen = {}
    BY DEF Init, Unlinked, Fresh, Pending, Drawn, Seen
  <1>3. Hooks = {} /\ Buds = {}
    BY <1>2 DEF Hooks, Buds
  <1>4. Leaving = {} /\ head.node = Dummy /\ Dummy \in Nodes
    BY Distinct DEF Init, Leaving
  <1>5. HasTrail(next, Dummy) /\ Tree(next, Dummy) = {Dummy}
    <2>1. Dummy \in Nodes /\ next[Dummy] = Null
      BY Distinct DEF Init
    <2> QED
      BY <2>1, Single
  <1>6. Chained = {Dummy}
    BY <1>3, <1>4, <1>5 DEF Chained, Linked
  <1>7. Live = {} /\ Behinds = {}
    BY <1>3, <1>4, <1>6 DEF Live, Behinds
  <1>8. Begun = {}
    BY DEF Init, Begun, Values
  <1> QED
    BY <1>1, <1>2, <1>3, <1>4, <1>5, <1>6, <1>7, <1>8

LEMMA InitInv ==
    ASSUME Init
    PROVE  Structured
  <1> DEFINE h == head.node
  <1>1. ForestInv
    <2>1. Linked(next, Dummy, {}) = {Dummy}
      BY InitTrail DEF Chained
    <2>2. used = {Dummy} /\ Dummy \in Nodes
      BY Distinct DEF Init
    <2>3. Forest(next, Dummy, {}, {}, {}, used)
      BY <2>1, <2>2, InitTrail DEF Forest
    <2> QED
      BY <2>3, InitTrail DEF ForestInv
  <1>2. OrderInv
    BY InitTrail DEF OrderInv
  <1>3. NumbersInv
    BY InitTrail DEF NumbersInv, Init, SeesTail
  <1>4. TailInv
    BY InitTrail DEF TailInv, Init
  <1>5. DequeueInv
    BY DEF DequeueInv, Init, Behindhand
  <1>6. ValuesInv
    BY InitTrail DEF ValuesInv, Init
  <1>7. CountInv
    <2>1. Uncounted = Cardinality({}) /\ Cardinality(Behinds) = Cardinality({})
      BY InitTrail DEF Uncounted, Init
    <2>2. size = 0 /\ cpc = "idle"
      BY DEF Init
    <2> QED
      BY <2>1, <2>2, FS_EmptySet DEF CountInv
  <1> QED
    BY <1>1, <1>2, <1>3, <1>4, <1>5, <1>6, <1>7, InitTrail DEF Structured, Inv

LEMMA Inductive == Spec => []Structured
  <1>1. Init => Structured
    BY InitInv
  <1>2. Structured /\ [Next]_vars => Structured'
    BY TypeStep, ForestStep, OrderStep, NumbersStep, TailStep, DequeueStepKept, ValuesStep, CountStep
       DEF Structured, Inv
  <1> QED
    BY <1>1, <1>2, PTL DEF Spec

\* Every variable of the queue keeps its type; neither end is ever null.
THEOREM TypeCorrect == Spec => []TypeOK
  <1>1. Structured => TypeOK
    BY DEF Structured
  <1> QED
    BY <1>1, Inductive, PTL

\* The properties speak of Behind, Chain and Hanging.
LEMMA ChainFacts ==
    ASSUME TypeOK, ForestInv
    PROVE  /\ Chain \in Seq(Nodes) /\ Len(Chain) \in Nat
           /\ \A i, j \in 1 .. Len(Chain) : Chain[i] = Chain[j] => i = j
           /\ InChain = {Chain[i] : i \in 1 .. Len(Chain)}
           /\ Tree(next, head.node) = {head.node} \cup InChain /\ head.node \notin InChain
           /\ IsFiniteSet(InChain) /\ Cardinality(InChain) = Len(Chain)
  <1> DEFINE h == head.node
             c == BehindIn(next, h)
  <1>1. Chain = c
    BY BehindIs DEF Chain
  <1>2. HasTrail(next, h)
    BY Places
  <1> HIDE DEF h
  <1>3. PICK t : /\ IsTrail(next, t) /\ t[1] = h
                 /\ Tree(next, h) = {t[i] : i \in 1 .. Len(t)}
                 /\ c = [i \in 1 .. Len(t) - 1 |-> t[i + 1]]
    BY <1>2, TrailThere
  <1> DEFINE k == Len(t) - 1
  <1>4. /\ k \in Nat /\ Len(t) \in Nat \ {0} /\ t \in Seq(Nodes)
        /\ \A i \in 1 .. Len(t) : t[i] \in Nodes
        /\ \A i, j \in 1 .. Len(t) : t[i] = t[j] => i = j
    BY <1>3 DEF IsTrail
  <1>5. /\ \A i \in 1 .. k : i + 1 \in 1 .. Len(t) /\ i + 1 # 1
        /\ \A i, j \in 1 .. k : i + 1 = j + 1 => i = j
        /\ \A i \in 1 .. Len(t) : i = 1 \/ (i - 1 \in 1 .. k /\ (i - 1) + 1 = i)
        /\ 1 \in 1 .. Len(t)
    BY <1>4
  <1>6. c = [i \in 1 .. k |-> t[i + 1]]
    BY <1>3
  <1> HIDE DEF c, k
  <1>7. c \in [1 .. k -> Nodes] /\ \A i \in 1 .. k : c[i] = t[i + 1]
    BY <1>4, <1>5, <1>6
  <1>8. c \in Seq(Nodes) /\ Len(c) = k
    BY <1>4, <1>7
  <1>9. \A i, j \in 1 .. k : c[i] = c[j] => i = j
    BY <1>4, <1>5, <1>7
  <1>10. InChain = {c[i] : i \in 1 .. k}
    BY <1>1, <1>7 DEF InChain, ToSet
  <1>11. Tree(next, h) = {h} \cup InChain /\ h \notin InChain
    <2>1. \A i \in 1 .. Len(t) : t[i] = h \/ t[i] \in InChain
      BY <1>3, <1>5, <1>7, <1>10
    <2>2. \A i \in 1 .. k : c[i] \in Tree(next, h) /\ c[i] # h
      BY <1>3, <1>4, <1>5, <1>7
    <2>3. h \in Tree(next, h)
      BY <1>3, <1>5
    <2>4. \A x \in Tree(next, h) : x = h \/ x \in InChain
      BY <1>3, <2>1
    <2>5. \A x \in InChain : x \in Tree(next, h) /\ x # h
      BY <1>10, <2>2
    <2> QED
      BY <2>3, <2>4, <2>5
  <1>12. IsFiniteSet(InChain) /\ Cardinality(InChain) = k
    <2>1. IsFiniteSet(InChain)
      <3>1. InChain \subseteq Nodes
        BY <1>7, <1>10
      <3> QED
        BY <3>1, Finite, FS_Subset
    <2>2. c \in Injection(1 .. k, InChain) /\ c \in Surjection(1 .. k, InChain)
      <3>1. c \in [1 .. k -> InChain]
        BY <1>7, <1>10
      <3>2. \A v \in InChain : \E i \in 1 .. k : c[i] = v
        BY <1>10
      <3> QED
        BY <1>9, <3>1, <3>2 DEF Injection, Surjection, IsInjective
    <2>3. Cardinality(1 .. k) = k
      <3>1. Cardinality(1 .. k) = IF 1 > k THEN 0 ELSE k - 1 + 1
        BY <1>4, FS_Interval
      <3> QED
        BY <1>4, <3>1
    <2>4. Cardinality(1 .. k) = Cardinality(InChain)
      BY <2>1, <2>2, FS_Injection
    <2> QED
      BY <2>1, <2>3, <2>4
  <1> QED
    BY <1>1, <1>4, <1>8, <1>9, <1>10, <1>11, <1>12 DEF h

LEMMA HangingFacts ==
    ASSUME TypeOK, ForestInv
    PROVE  /\ Putting = Unlinked \cup Fresh
           /\ Hanging = {n \in Nodes : \E q \in Unlinked : n \in Tree(next, New(q))}
           /\ {enq[p].new : p \in Putting} = Hooks \cup Buds
           /\ Hooks \subseteq Hanging /\ head.node \notin Hanging
           /\ Chained = ({head.node} \cup InChain) \cup Hanging
           /\ \A n \in Hanging : n \notin InChain
           /\ Live = (InChain \cup Hanging) \cup Buds
           /\ Behinds = InChain \cup (Hanging \ {enq[p].new : p \in Putting})
           /\ used = (Chained \cup Buds) \cup Leaving
  <1>1. Putting = Unlinked \cup Fresh /\ {q \in Putting : pc[q] # "null"} = Unlinked
    BY DEF TypeOK, Putting, Unlinked, Fresh, PutLabels
  <1>2. Hanging = {n \in Nodes : \E q \in Unlinked : n \in Tree(next, New(q))}
    <2>1. \A q \in Unlinked : {enq[q].new} \cup ToSet(Behind(enq[q].new)) = Tree(next, New(q))
      BY BehindIs DEF Tree, New
    <2>2. Hanging = UNION {Tree(next, New(q)) : q \in Unlinked}
      BY <1>1, <2>1 DEF Hanging
    <2>3. \A q \in Unlinked : Tree(next, New(q)) \subseteq Nodes
      <3>1. \A q \in Unlinked : New(q) \in Hooks
        BY Places
      <3>2. \A r \in Hooks : Tree(next, r) \subseteq Chained
        BY Places
      <3>3. Chained \subseteq Nodes
        BY Places
      <3> QED
        BY <3>1, <3>2, <3>3
    <2> QED
      BY <2>2, <2>3
  <1>3. {enq[p].new : p \in Putting} = Hooks \cup Buds
    BY <1>1 DEF Hooks, Buds, New
  <1>4. /\ Tree(next, head.node) = {head.node} \cup InChain /\ head.node \notin InChain
        /\ head.node \in Nodes /\ InChain \subseteq Nodes
    <2>1. Tree(next, head.node) = {head.node} \cup InChain /\ head.node \notin InChain
      BY ChainFacts
    <2>2. Tree(next, head.node) \subseteq Chained /\ Chained \subseteq Nodes
      BY Places
    <2> QED
      BY <2>1, <2>2
  <1>5. \A n \in Hanging : n \notin Tree(next, head.node)
    <2>1. ASSUME NEW q \in Unlinked PROVE Tree(next, New(q)) \cap Tree(next, head.node) = {}
      <3>1. New(q) \in Hooks /\ head.node \notin Hooks
        BY Places
      <3>2. \A r, s \in {head.node} \cup Hooks : r # s => Tree(next, r) \cap Tree(next, s) = {}
        BY Places
      <3> QED
        BY <3>1, <3>2
    <2> QED
      BY <1>2, <2>1
  <1>6. Hooks \subseteq Hanging
    <2>1. \A r \in Hooks : r \in Tree(next, r) /\ r \in Nodes
      BY Places
    <2> QED
      BY <1>2, <2>1 DEF Hooks
  <1>7. Chained = ({head.node} \cup InChain) \cup Hanging
    <2>1. \A n \in Nodes : n \in Hanging <=> \E r \in Hooks : n \in Tree(next, r)
      BY <1>2 DEF Hooks
    <2>2. \A n \in Nodes : n \in Chained <=> (n \in Tree(next, head.node) \/ n \in Hanging)
      BY <2>1 DEF Chained, Linked
    <2>3. Chained \subseteq Nodes /\ Hanging \subseteq Nodes
      BY <1>2, Places
    <2> QED
      BY <1>4, <2>2, <2>3
  <1>8. Hanging \subseteq Nodes /\ Buds \subseteq Nodes /\ \A n \in Buds : n \notin Chained
    BY <1>2, Places
  <1>9. used = (Chained \cup Buds) \cup Leaving
    BY DEF ForestInv, Forest, Chained
  <1> DEFINE C == InChain
             G == Hanging
             h == head.node
             N == {enq[p].new : p \in Putting}
  <1> HIDE DEF C, G, h, N
  <1>10. Live = (C \cup G) \cup Buds
    <2>1. Live = {n \in Nodes : (n \in Chained /\ n # h) \/ n \in Buds}
      BY DEF Live, h
    <2>2. /\ Chained = ({h} \cup C) \cup G /\ h \notin C /\ h \notin G /\ C \subseteq Nodes /\ G \subseteq Nodes
          /\ Buds \subseteq Nodes
      BY <1>4, <1>5, <1>7, <1>8 DEF h, C, G
    <2> QED
      BY <2>1, <2>2
  <1>11. Behinds = C \cup (G \ N)
    <2>1. Behinds = {n \in Nodes : n \in Chained /\ n # h /\ n \notin Hooks}
      BY DEF Behinds, h
    <2>2. /\ Chained = ({h} \cup C) \cup G /\ h \notin C /\ h \notin G /\ C \subseteq Nodes /\ G \subseteq Nodes
          /\ N = Hooks \cup Buds /\ Hooks \subseteq G /\ (\A n \in G : n \notin C)
          /\ (\A n \in Buds : n \notin Chained)
      BY <1>3, <1>4, <1>5, <1>6, <1>7, <1>8 DEF h, C, G, N
    <2> QED
      BY <2>1, <2>2
  <1>12. head.node \notin Hanging /\ \A n \in Hanging : n \notin InChain
    BY <1>4, <1>5
  <1> QED
    BY <1>1, <1>2, <1>3, <1>6, <1>7, <1>9, <1>10, <1>11, <1>12 DEF C, G, N

\* No node leaks, the tail is never a node that was taken out, and no null pointer is followed.
THEOREM AccountsForNodes == Spec => []NodesAccounted
  <1>1. ASSUME Structured PROVE NodesAccounted
    <2> USE <1>1 DEF Structured, Inv
    <2>1. used = {head.node} \cup InChain \cup Hanging \cup {enq[p].new : p \in Putting}
                    \cup (IF cpc = "free" THEN {deq.head.node} ELSE {})
      <3>1. /\ used = (Chained \cup Buds) \cup Leaving
            /\ Chained = ({head.node} \cup InChain) \cup Hanging
            /\ {enq[p].new : p \in Putting} = Hooks \cup Buds /\ Hooks \subseteq Hanging
        BY HangingFacts
      <3> QED
        BY <3>1 DEF Leaving
    <2>2. tail.node \in {head.node} \cup InChain
      BY TailPlace, ChainFacts
    <2>3. cpc = "data" => deq.succ # Null
      BY DEF DequeueInv
    <2> QED
      BY <2>1, <2>2, <2>3 DEF NodesAccounted
  <1>2. Structured => NodesAccounted
    BY <1>1
  <1> QED
    BY <1>2, Inductive, PTL

LEMMA ContentsFacts ==
    ASSUME TypeOK, ForestInv, ValuesInv
    PROVE  /\ Contents \in Seq(Values) /\ Len(Contents) = Len(Chain)
           /\ \A i \in 1 .. Len(Chain) : Contents[i] = data[Chain[i]] /\ Chain[i] \in InChain
           /\ \A n \in InChain : \E i \in 1 .. Len(Chain) : Chain[i] = n
  <1> DEFINE k == Len(Chain)
             c == Chain
  <1>1. k \in Nat /\ InChain = {c[i] : i \in 1 .. k}
    BY ChainFacts
  <1>2. \A n \in InChain : data[n] \in Values
    <2>1. InChain \subseteq Live
      BY HangingFacts
    <2> QED
      BY <2>1 DEF ValuesInv, Begun
  <1>3. Contents = [i \in 1 .. k |-> data[c[i]]]
    BY DEF Contents
  <1> HIDE DEF k, c
  <1>4. \A i \in 1 .. k : data[c[i]] \in Values /\ c[i] \in InChain
    BY <1>1, <1>2
  <1>5. Contents \in Seq(Values) /\ Len(Contents) = k /\ \A i \in 1 .. k : Contents[i] = data[c[i]]
    BY <1>1, <1>3, <1>4
  <1>6. \A n \in InChain : \E i \in 1 .. k : c[i] = n
    BY <1>1
  <1> QED
    BY <1>4, <1>5, <1>6 DEF k, c

\* A value whose Enqueue has returned was taken, is in the list, or is about to be linked; it is
\* in one place only, and m_lSize counts those not taken.
THEOREM LosesNothing == Spec => []NothingLost
  <1>1. ASSUME Structured PROVE NothingLost
    <2> USE <1>1 DEF Structured, Inv
    <2> DEFINE here == Contents \o log
               k == Len(Chain)
               m == Len(log)
    <2>1. /\ Contents \in Seq(Values) /\ Len(Contents) = k /\ log \in Seq(Values)
          /\ \A i \in 1 .. k : Contents[i] = data[Chain[i]] /\ Chain[i] \in InChain
          /\ \A n \in InChain : \E i \in 1 .. k : Chain[i] = n
          /\ \A i, j \in 1 .. k : Chain[i] = Chain[j] => i = j
          /\ k \in Nat /\ m \in Nat
      BY ContentsFacts, ChainFacts DEF TypeOK
    <2>2. /\ Len(here) = k + m /\ DOMAIN here = 1 .. k + m /\ here \in Seq(Values)
          /\ \A i \in 1 .. k : here[i] = Contents[i]
          /\ \A i \in 1 .. m : here[k + i] = log[i]
      BY <2>1
    <2>3. /\ \A i \in 1 .. k + m : i \in 1 .. k \/ (i - k \in 1 .. m /\ k + (i - k) = i)
          /\ \A i \in 1 .. k : i \in 1 .. k + m
          /\ \A i \in 1 .. m : k + i \in 1 .. k + m
      BY <2>1
    <2>4. /\ Live = (InChain \cup Hanging) \cup Buds
          /\ Behinds = InChain \cup (Hanging \ {enq[p].new : p \in Putting})
          /\ \A n \in Hanging : n \notin InChain
      BY HangingFacts
    <2> HIDE DEF here, k, m
    <2>5. \A i \in 1 .. k + m :
             \/ i \in 1 .. k /\ here[i] = data[Chain[i]] /\ Chain[i] \in Live
             \/ i - k \in 1 .. m /\ k + (i - k) = i /\ here[i] = log[i - k]
      BY <2>1, <2>2, <2>3, <2>4
    <2>6. Returned \subseteq ToSet(here) \cup {data[n] : n \in Hanging}
      <3> SUFFICES ASSUME NEW v \in Returned PROVE v \in ToSet(here) \/ \E n \in Hanging : data[n] = v
        OBVIOUS
      <3>1. v \in Begun /\ v \in Values /\ (v[2] < puts[v[1]] \/ pc[v[1]] = "idle")
        BY DEF Returned, Begun
      <3>2. ToSet(here) = {here[i] : i \in 1 .. k + m}
        BY <2>2 DEF ToSet
      <3>3. (\E n \in Live : data[n] = v) \/ (\E i \in 1 .. m : log[i] = v)
        BY <3>1 DEF ValuesInv, m
      <3>4. ASSUME NEW i \in 1 .. m, log[i] = v PROVE v \in ToSet(here)
        BY <2>2, <2>3, <3>2, <3>4
      <3>5. ASSUME NEW n \in InChain, data[n] = v PROVE v \in ToSet(here)
        BY <2>1, <2>2, <2>3, <3>2, <3>5
      <3>6. ASSUME NEW n \in Buds, data[n] = v PROVE FALSE
        <4>1. PICK p \in Fresh : n = New(p)
          BY <3>6 DEF Buds
        <4>2. v = <<p, puts[p]>> /\ pc[p] = "null" /\ p \in Producers
          BY <3>6, <4>1 DEF ValuesInv, Fresh
        <4>3. puts[p] \in Int
          BY <4>2 DEF TypeOK
        <4>4. v[1] = p /\ v[2] = puts[p] /\ ~(puts[p] < puts[p])
          BY <4>2, <4>3
        <4> QED
          BY <3>1, <4>2, <4>4
      <3> QED
        BY <2>4, <3>3, <3>4, <3>5, <3>6
    <2>7. \A i, j \in DOMAIN here : here[i] = here[j] => i = j
      <3> SUFFICES ASSUME NEW i \in 1 .. k + m, NEW j \in 1 .. k + m, here[i] = here[j]
                   PROVE  i = j
        BY <2>2
      <3>1. /\ \A n, l \in Live : data[n] = data[l] => n = l
            /\ \A n \in Live : \A a \in 1 .. m : log[a] # data[n]
            /\ \A a, b \in 1 .. m : log[a] = log[b] => a = b
        BY DEF ValuesInv, m
      <3>2. CASE i \in 1 .. k /\ j \in 1 .. k /\ here[i] = data[Chain[i]] /\ here[j] = data[Chain[j]]
                 /\ Chain[i] \in Live /\ Chain[j] \in Live
        <4>1. Chain[i] = Chain[j]
          BY <3>1, <3>2
        <4> QED
          BY <2>1, <3>2, <4>1
      <3>3. CASE /\ i - k \in 1 .. m /\ k + (i - k) = i /\ here[i] = log[i - k]
                 /\ j - k \in 1 .. m /\ k + (j - k) = j /\ here[j] = log[j - k]
        <4>1. i - k = j - k
          BY <3>1, <3>3
        <4> QED
          BY <3>3, <4>1
      <3> QED
        BY <2>5, <3>1, <3>2, <3>3
    <2>8. size = Len(Contents) + Cardinality(Hanging \ {enq[p].new : p \in Putting})
                   - Uncounted + (IF cpc \in {"free", "size"} THEN 1 ELSE 0)
      <3> DEFINE G == Hanging \ {enq[p].new : p \in Putting}
      <3>1. Behinds = InChain \cup G /\ InChain \cap G = {}
        BY <2>4
      <3>2. IsFiniteSet(Behinds) /\ IsFiniteSet(InChain) /\ Cardinality(InChain) = Len(Contents)
        BY <2>1, CountFinite, ChainFacts DEF k
      <3>3. IsFiniteSet(G)
        BY <3>1, <3>2, FS_Subset
      <3> HIDE DEF G
      <3>4. Cardinality(Behinds) = Cardinality(InChain) + Cardinality(G)
        <4>1. Cardinality(InChain \cup G)
                 = Cardinality(InChain) + Cardinality(G) - Cardinality(InChain \cap G)
          BY <3>2, <3>3, FS_Union
        <4>2. Cardinality(InChain \cap G) = 0
          BY <3>1, FS_EmptySet
        <4>3. Cardinality(InChain) \in Nat /\ Cardinality(G) \in Nat
          BY <3>2, <3>3, FS_CardinalityType
        <4> QED
          BY <3>1, <4>1, <4>2, <4>3
      <3>5. size = Cardinality(Behinds) - Uncounted + (IF cpc \in {"free", "size"} THEN 1 ELSE 0)
        BY DEF CountInv
      <3>6. /\ Uncounted \in Nat /\ Cardinality(InChain) \in Nat /\ Cardinality(G) \in Nat
            /\ (IF cpc \in {"free", "size"} THEN 1 ELSE 0) \in Nat
        BY <3>2, <3>3, CountFinite, FS_CardinalityType
      <3> QED
        BY <3>2, <3>4, <3>5, <3>6 DEF G
    <2> QED
      BY <2>6, <2>7, <2>8 DEF NothingLost, here
  <1>2. Structured => NothingLost
    BY <1>1
  <1> QED
    BY <1>2, Inductive, PTL

-----------------------------------------------------------------------------
(* One producer, as the send queue of every session has: the update        *)
(* thread.                                                                 *)

OneProducer == \A p, q \in Producers : p = q

\* Nothing is linked behind a node that is not linked itself.
BareInv == \A q \in Unlinked : next[New(q)] = Null

\* Values are linked and taken in the order in which they are put.
PutBy(q)   == IF q \in Unlinked \cup Fresh THEN puts[q] - 1 ELSE puts[q]
InOrderInv ==
    /\ \A i \in 1 .. Len(log) : log[i][2] = i
    /\ \A i \in 1 .. Len(Chain) : data[Chain[i]][2] = Len(log) + i
    /\ \A q \in Producers : PutBy(q) = Len(log) + Len(Chain)

\* What had been put before the call is taken once the call has seen an empty list.
OwedInv ==
    /\ owed \subseteq Returned
    /\ cpc = "empty" \/ (cpc = "test" /\ deq.succ = Null) => owed \subseteq ToSet(log)

\* Peek walks inside the list.
PeekInv == cpc = "walk" =>
    /\ deq.pos <= deq.want /\ deq.want < Len(Chain)
    /\ deq.cursor = Chain[deq.pos + 1]

SoloInv == BareInv /\ InOrderInv /\ OwedInv /\ PeekInv

-----------------------------------------------------------------------------
(* What a step does to the list.                                           *)

LEMMA ChainIs == Chain = BehindIn(next, head.node) /\ Chain' = BehindIn(next', head'.node)
  BY DEF Chain, Behind, BehindIn, Walk, IsWalk

LEMMA BareFacts ==
    ASSUME TypeOK, ForestInv, BareInv
    PROVE  /\ Hanging = Hooks /\ Behinds = InChain /\ Cardinality(Behinds) = Len(Chain)
           /\ Live = (InChain \cup Hooks) \cup Buds
  <1>1. /\ Hanging = {n \in Nodes : \E q \in Unlinked : n \in Tree(next, New(q))}
        /\ {enq[p].new : p \in Putting} = Hooks \cup Buds
        /\ Behinds = InChain \cup (Hanging \ {enq[p].new : p \in Putting})
        /\ Live = (InChain \cup Hanging) \cup Buds
    BY HangingFacts
  <1>2. \A q \in Unlinked : Tree(next, New(q)) = {New(q)} /\ New(q) \in Nodes
    <2>1. \A q \in Unlinked : HasTrail(next, New(q)) /\ next[New(q)] = Null /\ New(q) \in Nodes
      BY Places DEF BareInv
    <2> QED
      BY <2>1, TreeFacts
  <1>3. Hanging = Hooks
    <2>1. /\ \A n \in Hanging : n \in Hooks
          /\ \A n \in Hooks : n \in Hanging
      BY <1>1, <1>2 DEF Hooks
    <2> QED
      BY <2>1
  <1>4. Behinds = InChain
    BY <1>1, <1>3
  <1> QED
    BY <1>1, <1>3, <1>4, ChainFacts

\* No node of the list is linked elsewhere.
LEMMA ChainRests ==
    ASSUME TypeOK, ForestInv, head' = head,
           \A m \in Tree(next, head.node) : next'[m] = next[m]
    PROVE  Chain' = Chain
  <1> DEFINE h == head.node
             ny == next'
  <1>1. HasTrail(next, h)
    BY Places
  <1>2. \A m \in Tree(next, h) : ny[m] = next[m]
    OBVIOUS
  <1>3. head'.node = h
    OBVIOUS
  <1> HIDE DEF h, ny
  <1>4. BehindIn(ny, h) = BehindIn(next, h)
    BY <1>1, <1>2, SameTrail
  <1> QED
    BY <1>3, <1>4, ChainIs DEF h, ny

Rests ==
    /\ Chain' = Chain /\ log' = log /\ \A n \in InChain : data'[n] = data[n]
    /\ \A q \in Producers : PutBy(q)' = PutBy(q)
Links(p) ==
    /\ EnqLink(p) /\ Linking(p) /\ log' = log /\ data' = data
    /\ Chain' = Append(Chain, New(p)) /\ data[New(p)] = <<p, puts[p]>>
    /\ PutBy(p) = puts[p] - 1 /\ PutBy(p)' = puts[p]
Takes ==
    /\ DeqSwap /\ Chain # <<>> /\ deq.succ = Chain[1] /\ Chain' = Tail(Chain)
    /\ log' = Append(log, data[Chain[1]]) /\ data' = data
    /\ \A q \in Producers : PutBy(q)' = PutBy(q)

LEMMA ChainGrows ==
    ASSUME OneProducer, Structured, BareInv, NEW p \in Producers, EnqLink(p), Linking(p)
    PROVE  Links(p)
  <1> USE DEF Structured, Inv
  <1> DEFINE h == head.node
             u == New(p)
             c == enq[p].clone.node
             ny == next'
  <1>1. /\ p \in Unlinked /\ c \in Chained /\ c \notin Tree(next, u)
    BY Linkable
  <1>2. Unlinked = {p}
    BY <1>1 DEF OneProducer, Unlinked
  <1>3. Hooks = {u}
    BY <1>2 DEF Hooks
  <1>4. /\ next[c] = Null /\ ny[c] = u /\ \A m \in Nodes \ {c} : ny[m] = next[m]
    BY LinkSets
  <1>5. /\ HasTrail(next, h) /\ HasTrail(next, u) /\ Tree(next, h) \cap Tree(next, u) = {}
    BY <1>3, Places
  <1>6. c \in Tree(next, h)
    BY <1>1, <1>3 DEF Chained, Linked
  <1>7. next[u] = Null
    BY <1>1 DEF BareInv
  <1>8. head' = head /\ log' = log /\ data' = data
    BY LinkFacts DEF Alone
  <1>9. data[u] = <<p, puts[p]>>
    BY <1>1 DEF ValuesInv
  <1>10. /\ Chain = BehindIn(next, h) /\ Chain' = BehindIn(ny, h)
    BY <1>8, ChainIs
  <1>11. u \in Nodes
    BY <1>3, Places
  <1>14. PutBy(p) = puts[p] - 1 /\ PutBy(p)' = puts[p]
    <2>1. Unlinked' = Unlinked \ {p} /\ Fresh' = Fresh /\ puts' = puts /\ p \notin Fresh
      BY LinkSets, LinkFacts DEF Linking, Fresh
    <2> QED
      BY <1>1, <2>1 DEF PutBy
  <1> HIDE DEF h, u, c, ny
  <1>12. /\ BehindIn(next, h) \in Seq(Nodes) /\ BehindIn(ny, h) \in Seq(Nodes)
         /\ Len(BehindIn(ny, h)) = Len(BehindIn(next, h)) + 1
         /\ \A i \in 1 .. Len(BehindIn(next, h)) : BehindIn(ny, h)[i] = BehindIn(next, h)[i]
         /\ BehindIn(ny, h)[Len(BehindIn(next, h)) + 1] = u
    BY <1>4, <1>5, <1>6, <1>7, JoinTrails
  <1>13. Chain' = Append(Chain, u)
    <2> DEFINE b == Chain
               d == Chain'
    <2>1. /\ b \in Seq(Nodes) /\ d \in Seq(Nodes) /\ Len(d) = Len(b) + 1
          /\ \A i \in 1 .. Len(b) : d[i] = b[i]
          /\ d[Len(b) + 1] = u
      BY <1>10, <1>12
    <2> HIDE DEF b, d
    <2>2. \A i \in 1 .. Len(b) + 1 : d[i] = Append(b, u)[i]
      BY <2>1
    <2>3. Append(b, u) \in Seq(Nodes) /\ Len(Append(b, u)) = Len(b) + 1
      BY <2>1, <1>11
    <2>4. d = Append(b, u)
      BY <2>1, <2>2, <2>3
    <2> QED
      BY <2>4 DEF b, d
  <1> QED
    BY <1>8, <1>9, <1>13, <1>14 DEF Links, u

LEMMA ChainShrinks ==
    ASSUME Structured, DeqSwap
    PROVE  Takes
  <1> USE DEF Structured, Inv
  <1> DEFINE h == head.node
             g == next[h]
  <1>1. /\ deq.succ = g /\ g # Null /\ head'.node = g /\ next' = next /\ data' = data
        /\ log' = Append(log, data[g])
    BY TakeFacts
  <1>2. HasTrail(next, h)
    BY Places
  <1>3. /\ Chain = BehindIn(next, h) /\ Chain' = BehindIn(next, g)
    BY <1>1, ChainIs
  <1> HIDE DEF h
  <1>4. /\ BehindIn(next, h) \in Seq(Nodes) /\ BehindIn(next, g) \in Seq(Nodes)
        /\ Len(BehindIn(next, h)) = Len(BehindIn(next, g)) + 1
        /\ BehindIn(next, h)[1] = g
        /\ \A i \in 1 .. Len(BehindIn(next, g)) : BehindIn(next, h)[i + 1] = BehindIn(next, g)[i]
    BY <1>1, <1>2, CutTrail
  <1> DEFINE b == Chain
             d == Chain'
  <1>5. /\ b \in Seq(Nodes) /\ d \in Seq(Nodes) /\ Len(b) = Len(d) + 1 /\ b[1] = g
        /\ \A i \in 1 .. Len(d) : b[i + 1] = d[i]
    BY <1>3, <1>4
  <1> HIDE DEF b, d, g
  <1>6. b # <<>> /\ Tail(b) \in Seq(Nodes) /\ Len(Tail(b)) = Len(d)
    BY <1>5
  <1>7. \A i \in 1 .. Len(d) : Tail(b)[i] = d[i]
    BY <1>5, <1>6
  <1>8. d = Tail(b)
    BY <1>5, <1>6, <1>7
  <1>9. \A q \in Producers : PutBy(q)' = PutBy(q)
    BY TakeSets, TakeFacts DEF PutBy
  <1> QED
    BY <1>1, <1>5, <1>6, <1>8, <1>9 DEF Takes, b, d

\* Every step leaves the list alone, puts a node at its end or takes the first.
LEMMA ChainStep ==
    ASSUME OneProducer, Structured, BareInv, [Next]_vars
    PROVE  Rests \/ (\E p \in Producers : Links(p)) \/ Takes
  <1> USE DEF Structured, Inv
  <1>1. Tree(next, head.node) \subseteq Chained /\ InChain \subseteq Tree(next, head.node)
    BY Places, ChainFacts
  <1>2. ASSUME Still PROVE Rests
    BY <1>2, ChainRests DEF Still, Rests, PutBy
  <1>3. ASSUME NEW p \in Producers, EnqAlloc(p) PROVE Rests
    <2>1. /\ head' = head /\ next' = next /\ log' = log
          /\ \A m \in used : data'[m] = data[m]
      <3>1. used \subseteq Nodes
        BY DEF TypeOK
      <3> QED
        BY <1>3, <3>1, AllocFacts DEF Alone
    <2>2. InChain \subseteq used
      BY <1>1, Places
    <2>3. ASSUME NEW q \in Producers PROVE PutBy(q)' = PutBy(q)
      <3>1. /\ Unlinked' = Unlinked /\ Fresh' = Fresh \cup {p} /\ p \notin Fresh \cup Unlinked
            /\ puts'[p] = puts[p] + 1 /\ puts[p] \in Int
            /\ q # p => puts'[q] = puts[q]
        <4>1. /\ puts'[p] = puts[p] + 1 /\ (q # p => puts'[q] = puts[q])
          BY <1>3, AllocFacts DEF Alone
        <4>2. /\ Unlinked' = Unlinked /\ Fresh' = Fresh \cup {p} /\ p \notin Fresh \cup Unlinked
          BY <1>3, AllocSets
        <4>3. puts[p] \in Int
          BY DEF TypeOK
        <4> QED
          BY <4>1, <4>2, <4>3
      <3> QED
        BY <3>1 DEF PutBy
    <2> QED
      BY <2>1, <2>2, <2>3, ChainRests DEF Rests
  <1>4. ASSUME NEW p \in Producers, EnqNull(p) PROVE Rests
    <2>1. head' = head /\ log' = log /\ data' = data
      BY <1>4, NullFacts DEF Alone
    <2>2. /\ New(p) \in Nodes \ Chained /\ \A m \in Nodes \ {New(p)} : next'[m] = next[m]
      BY <1>4, NullSets
    <2>3. \A m \in Tree(next, head.node) : next'[m] = next[m]
      BY <1>1, <2>2, Places
    <2>4. \A q \in Producers : PutBy(q)' = PutBy(q)
      BY <1>4, NullSets, NullFacts DEF PutBy
    <2> QED
      BY <2>1, <2>3, <2>4, ChainRests DEF Rests
  <1>5. ASSUME NEW p \in Producers, EnqueueStep(p) PROVE Rests \/ Links(p)
    BY <1>2, <1>4, <1>5, EnqueueSteps, PassingIsStill, ChainGrows
  <1>6. CASE DeqFree
    BY <1>6, FreeSets, ChainRests DEF Rests, PutBy
  <1>7. CASE ConsumerStep
    BY <1>2, <1>6, <1>7, ConsumerSteps, RestingIsStill, ChainShrinks
  <1>8. CASE UNCHANGED vars
    <2>1. Still
      BY <1>8 DEF vars, shared, taker, Still, Unlinked, Fresh, Leaving, New
    <2> QED
      BY <1>2, <2>1
  <1> QED
    BY <1>3, <1>5, <1>7, <1>8 DEF Next, ConsumerStep

\* The nodes of the list follow each other from the head on.
LEMMA ChainLinks ==
    ASSUME TypeOK, ForestInv
    PROVE  /\ next[head.node] = Null <=> Chain = <<>>
           /\ Chain # <<>> => Chain[1] = next[head.node]
           /\ \A i \in 1 .. Len(Chain) - 1 : Chain[i + 1] = next[Chain[i]]
  <1> DEFINE h == head.node
  <1>1. HasTrail(next, h) /\ Chain = BehindIn(next, h)
    BY Places, ChainIs
  <1> HIDE DEF h
  <1>2. PICK t : /\ IsTrail(next, t) /\ t[1] = h
                 /\ BehindIn(next, h) = [i \in 1 .. Len(t) - 1 |-> t[i + 1]]
    BY <1>1, TrailThere, SMTT(30)
  <1> DEFINE k == Len(t)
             b == Chain
  <1>3. /\ k \in Nat \ {0} /\ t \in Seq(Nodes) /\ next[t[k]] = Null
        /\ \A i \in 1 .. k - 1 : next[t[i]] = t[i + 1]
    BY <1>2 DEF IsTrail
  <1>4. b = [i \in 1 .. k - 1 |-> t[i + 1]]
    BY <1>1, <1>2
  <1>5. b \in Seq(Nodes) /\ Len(b) \in Nat
    BY ChainFacts
  <1> HIDE DEF k, b
  <1>6. Len(b) = k - 1 /\ \A i \in 1 .. k - 1 : b[i] = t[i + 1]
    BY <1>3, <1>4, <1>5
  <1>7. CASE k = 1
    BY <1>2, <1>3, <1>5, <1>6, <1>7 DEF b, h
  <1>8. CASE k # 1
    <2>1. 1 \in 1 .. k - 1 /\ 2 \in 1 .. k /\ next[t[1]] = t[2] /\ b[1] = t[2]
      BY <1>3, <1>6, <1>8
    <2>2. t[2] \in Nodes /\ t[2] # Null
      BY <1>3, <2>1, Distinct DEF k
    <2>3. b # <<>>
      BY <1>3, <1>5, <1>6, <1>8
    <2>4. \A i \in 1 .. Len(b) - 1 : b[i + 1] = next[b[i]]
      <3> SUFFICES ASSUME NEW i \in 1 .. Len(b) - 1 PROVE b[i + 1] = next[b[i]]
        OBVIOUS
      <3>1. i \in 1 .. k - 1 /\ i + 1 \in 1 .. k - 1
        BY <1>3, <1>6
      <3> QED
        BY <1>3, <1>6, <3>1
    <2> QED
      BY <1>2, <2>1, <2>2, <2>3, <2>4 DEF b, h
  <1> QED
    BY <1>3, <1>7, <1>8

\* A value whose Enqueue has returned is taken or in the list.
LEMMA ReturnedPlaces ==
    ASSUME Structured, BareInv, NEW v \in Returned
    PROVE  v \in ToSet(log) \/ \E n \in InChain : data[n] = v
  <1> USE DEF Structured, Inv
  <1>1. v \in Begun /\ (v[2] < puts[v[1]] \/ pc[v[1]] = "idle")
    BY DEF Returned
  <1>2. (\E n \in Live : data[n] = v) \/ (\E i \in 1 .. Len(log) : log[i] = v)
    BY <1>1 DEF ValuesInv
  <1>3. ASSUME NEW n \in Hooks \cup Buds, data[n] = v PROVE FALSE
    <2>1. PICK p \in Unlinked \cup Fresh : n = New(p)
      BY <1>3 DEF Hooks, Buds
    <2>2. v = <<p, puts[p]>> /\ p \in Producers /\ pc[p] # "idle"
      BY <1>3, <2>1 DEF ValuesInv, Unlinked, Fresh
    <2>3. puts[p] \in Int
      BY <2>2 DEF TypeOK
    <2>4. v[1] = p /\ v[2] = puts[p] /\ ~(puts[p] < puts[p])
      BY <2>2, <2>3
    <2> QED
      BY <1>1, <2>2, <2>4
  <1>4. Live = (InChain \cup Hooks) \cup Buds
    BY BareFacts
  <1>5. ASSUME NEW i \in 1 .. Len(log), log[i] = v PROVE v \in ToSet(log)
    BY <1>5 DEF TypeOK, ToSet
  <1> QED
    BY <1>2, <1>3, <1>4, <1>5

\* What a call finds that sees an empty list.
LEMMA EmptyChain ==
    ASSUME Structured, BareInv, Chain = <<>>
    PROVE  Returned \subseteq ToSet(log)
  <1>1. InChain = {}
    <2>1. InChain = {Chain[i] : i \in 1 .. Len(Chain)}
      BY ChainFacts DEF Structured, Inv
    <2> QED
      BY <2>1
  <1> QED
    BY <1>1, ReturnedPlaces

\* m_lSize is zero before the first value of the list is counted, but then its Enqueue has
\* not returned.
LEMMA SizeZero ==
    ASSUME OneProducer, Structured, BareInv, InOrderInv, cpc = "idle"
    PROVE  /\ size <= Len(Chain)
           /\ size = 0 => Returned \subseteq ToSet(log)
  <1> USE DEF Structured, Inv
  <1>1. /\ size = Len(Chain) - Uncounted /\ Uncounted \in Nat /\ Len(Chain) \in Nat
        /\ Uncounted = Cardinality(Counting)
    <2>1. size = Cardinality(Behinds) - Uncounted + 0
      BY DEF CountInv
    <2>2. Cardinality(Behinds) = Len(Chain) /\ Len(Chain) \in Nat
      BY BareFacts, ChainFacts
    <2>3. Uncounted = Cardinality(Counting) /\ Uncounted \in Nat
      BY CountFinite
    <2> QED
      BY <2>1, <2>2, <2>3
  <1>2. ASSUME size = 0, NEW v \in Returned PROVE v \in ToSet(log)
    <2>1. CASE Counting = {}
      <3>1. Uncounted = 0
        BY <1>1, <2>1, FS_EmptySet
      <3>2. Len(Chain) = 0
        BY <1>1, <1>2, <3>1
      <3>3. Chain = <<>>
        BY <3>2, ChainFacts
      <3> QED
        BY <3>3, EmptyChain
    <2>2. ASSUME NEW q \in Counting PROVE v \in ToSet(log)
      <3>1. Counting = {q} /\ q \in Producers /\ pc[q] = "size"
        BY DEF OneProducer, Counting
      <3>2. Uncounted = 1
        BY <1>1, <3>1, FS_Singleton
      <3>3. Len(Chain) = 1
        BY <1>1, <1>2, <3>2
      <3>4. puts[q] = Len(log) + 1
        <4>1. PutBy(q) = puts[q]
          BY <3>1 DEF PutBy, Unlinked, Fresh
        <4> QED
          BY <3>1, <3>3, <4>1 DEF InOrderInv
      <3>5. ASSUME NEW n \in InChain, data[n] = v PROVE FALSE
        <4>1. n = Chain[1]
          <5>1. InChain = {Chain[i] : i \in 1 .. Len(Chain)}
            BY ChainFacts
          <5> QED
            BY <3>3, <3>5, <5>1
        <4>2. v[2] = Len(log) + 1
          BY <3>3, <3>5, <4>1 DEF InOrderInv
        <4>3. v[1] = q
          BY <3>1 DEF OneProducer, Returned, Begun, Values
        <4>4. Len(log) + 1 \in Int
          BY DEF TypeOK
        <4>5. v[2] = puts[v[1]] /\ pc[v[1]] # "idle" /\ ~(v[2] < puts[v[1]])
          BY <3>1, <3>4, <4>2, <4>3, <4>4
        <4> QED
          BY <4>5 DEF Returned
      <3> QED
        BY <3>5, ReturnedPlaces
    <2> QED
      BY <2>1, <2>2
  <1> QED
    BY <1>1, <1>2

-----------------------------------------------------------------------------
(* Each part in turn.                                                      *)

LEMMA BareStep ==
    ASSUME OneProducer, Structured, BareInv, [Next]_vars
    PROVE  BareInv'
  <1> USE DEF Structured, Inv
  <1>1. ASSUME Still PROVE BareInv'
    BY <1>1 DEF Still, BareInv
  <1>2. ASSUME NEW p \in Producers, EnqAlloc(p) PROVE BareInv'
    <2>1. Unlinked' = Unlinked /\ \A q \in Unlinked : New(q)' = New(q)
      BY <1>2, AllocSets
    <2>2. next' = next
      BY <1>2, AllocFacts
    <2> QED
      BY <2>1, <2>2 DEF BareInv
  <1>3. ASSUME NEW p \in Producers, EnqNull(p) PROVE BareInv'
    <2>1. Unlinked' = {p}
      BY <1>3, NullSets DEF OneProducer, Unlinked
    <2>2. New(p)' = New(p) /\ New(p) \in Nodes /\ next' = [next EXCEPT ![New(p)] = Null]
      BY <1>3, NullSets, NullFacts DEF New
    <2>3. next'[New(p)'] = Null
      BY <2>2 DEF TypeOK
    <2> QED
      BY <2>1, <2>3 DEF BareInv
  <1>4. ASSUME NEW p \in Producers, EnqLink(p), Linking(p) PROVE BareInv'
    <2>1. Unlinked' = {}
      BY <1>4, LinkSets DEF OneProducer, Unlinked
    <2> QED
      BY <2>1 DEF BareInv
  <1>5. ASSUME NEW p \in Producers, EnqAlloc(p) \/ EnqueueStep(p) PROVE BareInv'
    BY <1>1, <1>2, <1>3, <1>4, <1>5, EnqueueSteps, PassingIsStill
  <1>6. CASE DeqSwap
    BY <1>6, TakeSets, TakeFacts DEF BareInv, New
  <1>7. CASE DeqFree
    BY <1>7, FreeSets DEF BareInv, New
  <1>8. CASE ConsumerStep
    BY <1>1, <1>6, <1>7, <1>8, ConsumerSteps, RestingIsStill
  <1>9. CASE UNCHANGED vars
    BY <1>9 DEF vars, shared, BareInv, Unlinked, New
  <1> QED
    BY <1>5, <1>8, <1>9 DEF Next, ConsumerStep

LEMMA InOrderStep ==
    ASSUME OneProducer, Structured, BareInv, InOrderInv, [Next]_vars
    PROVE  InOrderInv'
  <1> DEFINE b == Chain
             k == Len(b)
             m == Len(log)
  <1>1. /\ b \in Seq(Nodes) /\ k \in Nat /\ log \in Seq(Values) /\ m \in Nat
        /\ InChain = {b[i] : i \in 1 .. k}
    BY ChainFacts DEF Structured, Inv, TypeOK
  <1>2. /\ \A i \in 1 .. m : log[i][2] = i
        /\ \A i \in 1 .. k : data[b[i]][2] = m + i
        /\ \A q \in Producers : PutBy(q) = m + k
    BY DEF InOrderInv
  <1>3. CASE Rests
    <2>1. \A i \in 1 .. k : data'[b[i]] = data[b[i]]
      BY <1>1, <1>3 DEF Rests
    <2> QED
      BY <1>2, <1>3, <2>1 DEF Rests, InOrderInv
  <1>4. ASSUME NEW p \in Producers, Links(p) PROVE InOrderInv'
    <2> DEFINE u == New(p)
               d == Chain'
    <2>1. /\ d = Append(b, u) /\ log' = log /\ data' = data /\ data[u] = <<p, puts[p]>>
          /\ PutBy(p) = puts[p] - 1 /\ PutBy(p)' = puts[p] /\ puts[p] \in Int
      <3>1. puts[p] \in Int
        BY DEF Structured, TypeOK
      <3> QED
        BY <1>4, <3>1 DEF Links
    <2> HIDE DEF b, k, m, u, d
    <2>2. puts[p] = (m + k) + 1
      <3>1. puts[p] - 1 = m + k
        BY <1>2, <2>1
      <3> QED
        BY <1>1, <2>1, <3>1
    <2>3. /\ Len(d) = k + 1 /\ d[k + 1] = u /\ \A i \in 1 .. k : d[i] = b[i]
      BY <1>1, <2>1 DEF k
    <2>4. \A i \in 1 .. k + 1 : data[d[i]][2] = m + i
      <3> SUFFICES ASSUME NEW i \in 1 .. k + 1 PROVE data[d[i]][2] = m + i
        OBVIOUS
      <3>1. CASE i \in 1 .. k
        BY <1>2, <2>3, <3>1
      <3>2. CASE i = k + 1
        <4>1. data[d[i]][2] = puts[p]
          BY <2>1, <2>3, <3>2
        <4>2. puts[p] = m + i
          BY <1>1, <2>2, <3>2
        <4> QED
          BY <4>1, <4>2
      <3> QED
        BY <1>1, <3>1, <3>2
    <2>5. \A q \in Producers : PutBy(q)' = m + (k + 1)
      <3>1. PutBy(p)' = m + (k + 1)
        BY <1>1, <2>1, <2>2
      <3> QED
        BY <3>1 DEF OneProducer
    <2> QED
      BY <1>2, <2>1, <2>3, <2>4, <2>5 DEF InOrderInv, d, m
  <1>5. CASE Takes
    <2> DEFINE d == Chain'
               g == data[b[1]]
    <2>1. /\ b # <<>> /\ d = Tail(b) /\ log' = Append(log, g) /\ data' = data
          /\ \A q \in Producers : PutBy(q)' = PutBy(q)
      BY <1>5 DEF Takes
    <2> HIDE DEF b, d, g, k, m
    <2>2. k >= 1 /\ Len(d) = k - 1 /\ \A i \in 1 .. k - 1 : d[i] = b[i + 1]
      BY <1>1, <2>1 DEF k
    <2>3. g[2] = m + 1
      BY <1>1, <1>2, <2>2 DEF g
    <2>4. /\ Len(log') = m + 1 /\ log'[m + 1] = g /\ \A i \in 1 .. m : log'[i] = log[i]
      BY <1>1, <2>1 DEF m
    <2>5. \A i \in 1 .. m + 1 : log'[i][2] = i
      <3> SUFFICES ASSUME NEW i \in 1 .. m + 1 PROVE log'[i][2] = i
        OBVIOUS
      <3>1. i \in 1 .. m \/ i = m + 1
        BY <1>1
      <3> QED
        BY <1>2, <2>3, <2>4, <3>1
    <2>6. \A i \in 1 .. k - 1 : data[d[i]][2] = (m + 1) + i
      <3> SUFFICES ASSUME NEW i \in 1 .. k - 1 PROVE data[d[i]][2] = (m + 1) + i
        OBVIOUS
      <3>1. i + 1 \in 1 .. k /\ m + (i + 1) = (m + 1) + i
        BY <1>1
      <3> QED
        BY <1>2, <2>2, <3>1
    <2>7. \A q \in Producers : PutBy(q)' = (m + 1) + (k - 1)
      <3>1. (m + 1) + (k - 1) = m + k
        BY <1>1
      <3> QED
        BY <1>2, <2>1, <3>1
    <2> QED
      BY <2>1, <2>2, <2>4, <2>5, <2>6, <2>7 DEF InOrderInv, d
  <1> QED
    BY <1>3, <1>4, <1>5, ChainStep

\* What has returned stays so.
LEMMA ReturnedStays ==
    ASSUME TypeOK, [Next]_vars
    PROVE  Returned \subseteq Returned'
  <1>1. ASSUME NEW p \in Producers, Alone(p), puts'[p] = puts[p], pc[p] # "idle"
        PROVE  Returned \subseteq Returned'
    <2> SUFFICES ASSUME NEW v \in Returned PROVE v \in Returned'
      OBVIOUS
    <2>1. /\ v \in Values /\ v[1] \in Producers /\ v[2] <= puts[v[1]]
          /\ v[2] < puts[v[1]] \/ pc[v[1]] = "idle"
      BY DEF Returned, Begun, Values
    <2>2. puts'[v[1]] = puts[v[1]]
      BY <1>1, <2>1 DEF Alone
    <2>3. v[1] # p => pc'[v[1]] = pc[v[1]]
      BY <1>1, <2>1 DEF Alone
    <2> QED
      BY <1>1, <2>1, <2>2, <2>3 DEF Returned, Begun
  <1>2. ASSUME NEW p \in Producers, EnqAlloc(p) PROVE Returned \subseteq Returned'
    <2> SUFFICES ASSUME NEW v \in Returned PROVE v \in Returned'
      OBVIOUS
    <2>1. /\ v \in Values /\ v[1] \in Producers /\ v[2] <= puts[v[1]] /\ v[2] \in Int
          /\ v[2] < puts[v[1]] \/ pc[v[1]] = "idle"
      BY DEF Returned, Begun, Values
    <2>2. Alone(p) /\ puts'[p] = puts[p] + 1
      BY <1>2, AllocFacts
    <2>3. puts[p] \in Int
      BY DEF TypeOK
    <2>4. CASE v[1] = p
      <3>1. v[2] < puts'[v[1]] /\ v[2] <= puts'[v[1]]
        BY <2>1, <2>2, <2>3, <2>4
      <3> QED
        BY <2>1, <3>1 DEF Returned, Begun
    <2>5. CASE v[1] # p
      <3>1. puts'[v[1]] = puts[v[1]] /\ pc'[v[1]] = pc[v[1]]
        BY <2>1, <2>2, <2>5 DEF Alone
      <3> QED
        BY <2>1, <3>1 DEF Returned, Begun
    <2> QED
      BY <2>4, <2>5
  <1>3. ASSUME NEW p \in Producers, EnqueueStep(p) PROVE Returned \subseteq Returned'
    <2>1. CASE EnqNull(p)
      BY <1>1, <2>1, NullFacts
    <2>2. CASE EnqLink(p) /\ Linking(p)
      BY <1>1, <2>2, LinkFacts DEF Linking
    <2>3. CASE Passing(p)
      <3>1. Alone(p) /\ puts'[p] = puts[p]
        BY <2>3 DEF Passing
      <3>2. pc[p] # "idle"
        BY <1>3 DEF EnqueueStep, EnqNull, EnqReadNode, EnqReadCount, EnqReadAgain, EnqReadNext,
                    EnqLink, EnqSize, EnqReadSucc, EnqSwap, EnqHelp, Goto
      <3> QED
        BY <1>1, <3>1, <3>2
    <2> QED
      BY <1>3, <2>1, <2>2, <2>3, EnqueueSteps
  <1>4. ASSUME pc' = pc, puts' = puts PROVE Returned \subseteq Returned'
    BY <1>4 DEF Returned, Begun
  <1>5. CASE ConsumerStep
    <2>1. pc' = pc /\ puts' = puts
      BY <1>5, ConsumerSteps DEF Resting, DeqSwap, DeqFree, CGoto
    <2> QED
      BY <1>4, <2>1
  <1>6. CASE UNCHANGED vars
    BY <1>4, <1>6 DEF vars
  <1> QED
    BY <1>2, <1>3, <1>5, <1>6 DEF Next, ConsumerStep

LEMMA OwedStep ==
    ASSUME OneProducer, Structured, SoloInv, [Next]_vars
    PROVE  OwedInv'
  <1> USE DEF SoloInv
  <1>1. Returned \subseteq Returned' /\ TypeOK
    BY ReturnedStays DEF Structured
  <1>2. ToSet(log) \subseteq ToSet(log')
    <2>1. ASSUME NEW v, log' = Append(log, v) PROVE ToSet(log) \subseteq ToSet(log')
      <3>1. log \in Seq(Values) /\ Len(log) \in Nat
        BY <1>1 DEF TypeOK
      <3>2. Len(log') = Len(log) + 1 /\ \A i \in 1 .. Len(log) : log'[i] = log[i]
        BY <2>1, <3>1
      <3>3. ToSet(log) = {log[i] : i \in 1 .. Len(log)} /\ ToSet(log') = {log'[i] : i \in 1 .. Len(log')}
        BY <2>1, <3>1 DEF ToSet
      <3>4. \A i \in 1 .. Len(log) : i \in 1 .. Len(log')
        BY <3>1, <3>2
      <3> QED
        BY <3>2, <3>3, <3>4
    <2>2. CASE log' = log
      BY <2>2
    <2> QED
      BY <2>1, <2>2, ChainStep DEF Rests, Links, Takes
  <1>3. ASSUME owed' = owed, cpc' = cpc, deq' = deq PROVE OwedInv'
    BY <1>1, <1>2, <1>3 DEF OwedInv
  <1>4. ASSUME NEW p \in Producers, EnqAlloc(p) \/ EnqueueStep(p) PROVE OwedInv'
    <2>1. Alone(p)
      BY <1>1, <1>4, AllocFacts, NullFacts, LinkFacts, EnqueueSteps DEF Passing
    <2> QED
      BY <1>3, <2>1 DEF Alone
  <1>5. ASSUME owed' = owed, cpc' \notin {"empty", "test"} PROVE OwedInv'
    BY <1>1, <1>5 DEF OwedInv
  <1>6. ASSUME owed' = {} PROVE OwedInv'
    BY <1>6 DEF OwedInv
  <1>7. CASE DeqBegin
    BY <1>1, <1>7 DEF DeqBegin, CGoto, OwedInv
  <1>8. CASE DeqReadNext
    <2>1. /\ cpc = "next" /\ cpc' = "test" /\ owed' = owed /\ log' = log
          /\ deq'.succ = next[deq.head.node]
      BY <1>1, <1>8, ReadHeadNextFacts DEF DeqReadNext, CGoto
    <2>2. deq.head = head
      BY <2>1 DEF Structured, Inv, DequeueInv, Behindhand
    <2>3. deq'.succ = Null => owed \subseteq ToSet(log)
      <3>1. deq'.succ = Null => Chain = <<>>
        BY <2>1, <2>2, ChainLinks DEF Structured, Inv
      <3> QED
        BY <3>1, EmptyChain DEF OwedInv
    <2> QED
      BY <1>1, <2>1, <2>3 DEF OwedInv
  <1>9. CASE EmptySize
    <2>1. cpc = "idle" /\ log' = log
      BY <1>9 DEF EmptySize, CGoto
    <2>2. CASE size = 0
      <3>1. owed' = Returned /\ Returned \subseteq ToSet(log)
        BY <1>9, <2>1, <2>2, SizeZero DEF EmptySize
      <3> QED
        BY <1>1, <2>1, <3>1 DEF OwedInv
    <2>3. CASE size # 0
      BY <1>6, <1>9, <2>3 DEF EmptySize
    <2> QED
      BY <2>2, <2>3
  <1>10. CASE DeqReadHead \/ DeqReadTail \/ DeqReadTailCount
    BY <1>5, <1>10 DEF DeqReadHead, DeqReadTail, DeqReadTailCount, CGoto
  <1>11. CASE DeqFail \/ DeqSize \/ PeekEnd \/ EmptyTops
    BY <1>6, <1>11 DEF DeqFail, DeqSize, PeekEnd, EmptyTops, Leave
  <1>12. CASE DeqSpin \/ DeqTestTail \/ DeqReadTailNext \/ DeqHelp
    BY <1>5, <1>12 DEF DeqSpin, DeqTestTail, DeqReadTailNext, DeqHelp, CGoto
  <1>13. CASE DeqData \/ DeqSwap \/ DeqFree
    BY <1>5, <1>13 DEF DeqData, DeqSwap, DeqFree, CGoto
  <1>14. CASE PeekStep \/ (\E i \in 0 .. MaxPut : PeekBegin(i))
    BY <1>5, <1>14 DEF PeekStep, PeekBegin, CGoto
  <1>15. CASE UNCHANGED vars
    BY <1>3, <1>15 DEF vars, taker
  <1> QED
    BY <1>4, <1>7, <1>8, <1>9, <1>10, <1>11, <1>12, <1>13, <1>14, <1>15
       DEF Next, DequeueStep, LookStep

LEMMA PeekStepKept ==
    ASSUME OneProducer, Structured, SoloInv, [Next]_vars
    PROVE  PeekInv'
  <1> USE DEF SoloInv
  <1> DEFINE b == Chain
             k == Len(b)
  <1>1. /\ b \in Seq(Nodes) /\ k \in Nat /\ TypeOK
        /\ deq.pos \in Nat /\ deq.want \in Nat
    BY ChainFacts DEF Structured, Inv, TypeOK, Deq
  <1>2. ASSUME cpc' = cpc, deq' = deq, Chain' = Chain PROVE PeekInv'
    BY <1>2 DEF PeekInv
  <1>3. ASSUME NEW p \in Producers, EnqAlloc(p) \/ EnqueueStep(p) PROVE PeekInv'
    <2>1. cpc' = cpc /\ deq' = deq
      BY <1>1, <1>3, AllocFacts, NullFacts, LinkFacts, EnqueueSteps DEF Passing, Alone
    <2>2. ASSUME NEW u, Chain' = Append(b, u), cpc = "walk" PROVE PeekInv'
      <3>1. deq.pos <= deq.want /\ deq.want < k /\ deq.cursor = b[deq.pos + 1]
        BY <2>2 DEF PeekInv
      <3>2. deq.pos + 1 \in 1 .. k
        BY <1>1, <3>1
      <3>3. Len(Chain') = k + 1 /\ Chain'[deq.pos + 1] = b[deq.pos + 1]
        BY <1>1, <2>2, <3>2
      <3>4. deq.want < Len(Chain')
        BY <1>1, <3>1, <3>3
      <3> QED
        BY <2>1, <3>1, <3>3, <3>4 DEF PeekInv
    <2>3. ~DeqSwap
      BY <2>1 DEF DeqSwap, CGoto
    <2> QED
      BY <1>2, <2>1, <2>2, <2>3, ChainStep DEF Rests, Links, Takes, PeekInv
  <1>4. ASSUME cpc' # "walk" PROVE PeekInv'
    BY <1>4 DEF PeekInv
  <1>5. ASSUME cpc # "swap", pc' = pc PROVE Chain' = Chain
    <2>1. ~DeqSwap
      BY <1>5 DEF DeqSwap, CGoto
    <2>2. \A p \in Producers : ~Links(p)
      BY <1>5 DEF Links, Linking
    <2> QED
      BY <2>1, <2>2, ChainStep DEF Rests, Takes
  <1>6. ASSUME NEW i \in 0 .. MaxPut, PeekBegin(i) PROVE PeekInv'
    <2>1. /\ cpc = "idle" /\ i < size /\ pc' = pc
          /\ deq' = [NoDeq EXCEPT !.want = i, !.cursor = next[head.node]]
      BY <1>6 DEF PeekBegin, CGoto
    <2>2. deq'.want = i /\ deq'.pos = 0 /\ deq'.cursor = next[head.node]
      BY <2>1 DEF NoDeq
    <2>3. size <= k /\ size \in Int
      BY <1>1, <2>1, SizeZero DEF TypeOK
    <2>4. i \in Nat /\ i < k /\ k > 0
      BY <1>1, <2>1, <2>3, Bounds
    <2>5. b # <<>>
      BY <2>4
    <2>6. b[1] = next[head.node]
      BY <2>5, ChainLinks DEF Structured, Inv
    <2>7. Chain' = b
      BY <1>5, <2>1
    <2> HIDE DEF b, k
    <2>8. deq'.pos <= deq'.want /\ deq'.want < k /\ deq'.cursor = b[deq'.pos + 1]
      BY <2>2, <2>4, <2>6
    <2> QED
      BY <2>7, <2>8 DEF PeekInv, b, k
  <1>7. CASE PeekStep
    <2>1. /\ cpc = "walk" /\ deq.pos # deq.want /\ pc' = pc
          /\ deq' = [deq EXCEPT !.cursor = next[deq.cursor], !.pos = @ + 1]
      BY <1>7 DEF PeekStep, CGoto
    <2>2. deq'.want = deq.want /\ deq'.pos = deq.pos + 1 /\ deq'.cursor = next[deq.cursor]
      BY <1>1, <2>1 DEF TypeOK, Deq
    <2>3. deq.pos <= deq.want /\ deq.want < k /\ deq.cursor = b[deq.pos + 1]
      BY <2>1 DEF PeekInv
    <2>4. \A i \in 1 .. k - 1 : b[i + 1] = next[b[i]]
      BY ChainLinks DEF Structured, Inv
    <2>5. Chain' = b
      BY <1>5, <2>1
    <2> HIDE DEF b, k
    <2>6. deq.pos + 1 \in 1 .. k - 1 /\ deq.pos + 1 <= deq.want
      BY <1>1, <2>1, <2>3
    <2>7. deq'.pos <= deq'.want /\ deq'.want < k /\ deq'.cursor = b[deq'.pos + 1]
      BY <2>2, <2>3, <2>4, <2>6
    <2> QED
      BY <2>5, <2>7 DEF PeekInv, b, k
  <1>8. CASE DeqBegin \/ DequeueStep
    <2>1. cpc' # "walk"
      BY <1>8 DEF DeqBegin, DequeueStep, DeqReadHead, DeqReadTail, DeqReadTailCount, DeqReadNext,
                  DeqFail, DeqSpin, DeqTestTail, DeqReadTailNext, DeqHelp, DeqData, DeqSwap,
                  DeqFree, DeqSize, CGoto
    <2> QED
      BY <1>4, <2>1
  <1>9. CASE EmptySize \/ PeekEnd \/ EmptyTops
    BY <1>4, <1>9 DEF EmptySize, PeekEnd, EmptyTops, CGoto
  <1>10. CASE UNCHANGED vars
    <2>1. cpc' = cpc /\ deq' = deq /\ next' = next /\ head' = head
      BY <1>10 DEF vars, shared, taker
    <2>2. Chain' = Chain
      BY <2>1, ChainIs
    <2> QED
      BY <1>2, <2>1, <2>2
  <1> QED
    BY <1>3, <1>6, <1>7, <1>8, <1>9, <1>10 DEF Next, LookStep

LEMMA InitSolo ==
    ASSUME Init
    PROVE  SoloInv /\ Contents = <<>>
  <1>1. Structured /\ next[head.node] = Null
    BY InitInv, Distinct DEF Init
  <1>2. Chain = <<>>
    BY <1>1, ChainLinks DEF Structured, Inv
  <1>3. Contents = <<>>
    BY <1>2 DEF Contents
  <1>4. Unlinked = {} /\ Fresh = {}
    BY InitTrail
  <1>5. BareInv /\ OwedInv /\ PeekInv
    BY <1>4 DEF Init, BareInv, OwedInv, PeekInv
  <1>6. InOrderInv
    <2>1. Len(log) = 0 /\ Len(Chain) = 0
      BY <1>2 DEF Init
    <2>2. \A q \in Producers : PutBy(q) = 0
      BY <1>4 DEF Init, PutBy
    <2> QED
      BY <2>1, <2>2 DEF InOrderInv
  <1> QED
    BY <1>3, <1>5, <1>6 DEF SoloInv

LEMMA InductiveSolo ==
    ASSUME OneProducer
    PROVE  Spec => [](Structured /\ SoloInv)
  <1>1. Init => SoloInv
    BY InitSolo
  <1>2. Structured /\ SoloInv /\ [Next]_vars => SoloInv'
    BY BareStep, InOrderStep, OwedStep, PeekStepKept DEF SoloInv
  <1> QED
    BY <1>1, <1>2, Inductive, PTL DEF Spec

\* With one producer Peek finds the value at the position asked for: what PostSend hands to
\* WSASend are the values that SendComplete takes.
THEOREM PeekIsRight ==
    ASSUME OneProducer
    PROVE  Spec => []PeekFinds
  <1>1. Structured /\ SoloInv => PeekFinds
    <2> SUFFICES ASSUME Structured, SoloInv, cpc = "walk"
                 PROVE  deq.pos < Len(Chain) /\ deq.cursor = Chain[deq.pos + 1]
      BY DEF PeekFinds
    <2>1. deq.pos <= deq.want /\ deq.want < Len(Chain) /\ deq.cursor = Chain[deq.pos + 1]
      BY DEF SoloInv, PeekInv
    <2>2. deq.pos \in Nat /\ deq.want \in Nat /\ Len(Chain) \in Nat
      BY ChainFacts DEF Structured, Inv, TypeOK, Deq
    <2> QED
      BY <2>1, <2>2
  <1> QED
    BY <1>1, InductiveSolo, PTL

\* With one producer isEmpty answers TRUE, and Dequeue FALSE, only when every value whose Enqueue
\* had returned before the call has been taken.
THEOREM NoneOverlooked ==
    ASSUME OneProducer
    PROVE  Spec => []NothingOverlooked
  <1>1. Structured /\ SoloInv => NothingOverlooked
    BY DEF SoloInv, OwedInv, NothingOverlooked
  <1> QED
    BY <1>1, InductiveSolo, PTL

LEMMA FifoStep ==
    ASSUME OneProducer, Structured, SoloInv, [Next]_vars
    PROVE  [Fifo!Next]_<<Contents, log>>
  <1> USE DEF Structured, Inv, SoloInv
  <1> DEFINE b == Chain
             k == Len(b)
             c == Contents
  <1>1. /\ b \in Seq(Nodes) /\ k \in Nat /\ InChain = {b[i] : i \in 1 .. k}
        /\ c \in Seq(Values) /\ Len(c) = k /\ \A i \in 1 .. k : c[i] = data[b[i]]
    BY ChainFacts, ContentsFacts
  <1>2. /\ c = [i \in 1 .. k |-> data[b[i]]]
        /\ Contents' = [i \in 1 .. Len(Chain') |-> data'[Chain'[i]]]
    BY DEF Contents
  <1>3. CASE Rests
    <2>1. \A i \in 1 .. k : data'[b[i]] = data[b[i]]
      BY <1>1, <1>3 DEF Rests
    <2>2. Contents' = c
      BY <1>2, <1>3, <2>1 DEF Rests
    <2> QED
      BY <1>3, <2>2 DEF Rests
  <1>4. ASSUME NEW p \in Producers, Links(p) PROVE Fifo!Next
    <2> DEFINE u == New(p)
               d == Chain'
               v == data[u]
    <2>1. d = Append(b, u) /\ log' = log /\ data' = data
      BY <1>4 DEF Links
    <2>2. v \in Values
      <3>1. p \in Unlinked
        BY <1>4 DEF Links, Linking, Unlinked
      <3>2. u \in Live
        BY <3>1, BareFacts DEF Hooks
      <3> QED
        BY <3>2 DEF ValuesInv, Begun
    <2>3. Contents' = [i \in 1 .. Len(d) |-> data[d[i]]]
      BY <1>2, <2>1
    <2> HIDE DEF b, k, c, u, d, v
    <2>4. Len(d) = k + 1 /\ d[k + 1] = u /\ \A i \in 1 .. k : d[i] = b[i]
      BY <1>1, <2>1 DEF k
    <2>5. Contents' = [i \in 1 .. k + 1 |-> data[d[i]]]
      BY <2>3, <2>4
    <2>6. /\ Append(c, v) \in Seq(Values) /\ Len(Append(c, v)) = k + 1
          /\ Append(c, v)[k + 1] = v /\ \A i \in 1 .. k : Append(c, v)[i] = c[i]
      BY <1>1, <2>2
    <2>7. \A i \in 1 .. k + 1 : data[d[i]] = Append(c, v)[i]
      <3> SUFFICES ASSUME NEW i \in 1 .. k + 1 PROVE data[d[i]] = Append(c, v)[i]
        OBVIOUS
      <3>1. CASE i \in 1 .. k
        BY <1>1, <2>4, <2>6, <3>1
      <3>2. CASE i = k + 1
        BY <2>4, <2>6, <3>2 DEF v
      <3> QED
        BY <1>1, <3>1, <3>2
    <2>8. Contents' = Append(c, v)
      <3> DEFINE w == Append(c, v)
                 e == Contents'
                 S == 1 .. k + 1
      <3>1. w \in Seq(Values) /\ Len(w) = k + 1 /\ \A i \in S : data[d[i]] = w[i]
        BY <2>6, <2>7
      <3>2. e = [i \in S |-> data[d[i]]]
        BY <2>5
      <3> HIDE DEF w, e
      <3>3. w = [i \in S |-> w[i]]
        BY <3>1
      <3> HIDE DEF S
      <3>4. e = [i \in S |-> e[i]] /\ \A i \in S : e[i] = w[i]
        BY <3>1, <3>2
      <3>5. e = w
        BY <3>3, <3>4, SameFunction
      <3> QED
        BY <3>5 DEF e, w
    <2>9. Fifo!Put(v)
      BY <2>1, <2>8 DEF Fifo!Put, c
    <2> QED
      BY <2>2, <2>9 DEF Fifo!Next
  <1>5. CASE Takes
    <2> DEFINE d == Chain'
    <2>1. b # <<>> /\ d = Tail(b) /\ log' = Append(log, data[b[1]]) /\ data' = data
      BY <1>5 DEF Takes
    <2>2. Contents' = [i \in 1 .. Len(d) |-> data[d[i]]]
      BY <1>2, <2>1
    <2> HIDE DEF b, k, c, d
    <2>3. k >= 1 /\ Len(d) = k - 1 /\ \A i \in 1 .. k - 1 : d[i] = b[i + 1]
      BY <1>1, <2>1 DEF k
    <2>4. c # <<>> /\ Head(c) = data[b[1]]
      BY <1>1, <2>3
    <2>5. Tail(c) \in Seq(Values) /\ Len(Tail(c)) = k - 1 /\ \A i \in 1 .. k - 1 : Tail(c)[i] = c[i + 1]
      BY <1>1, <2>3, <2>4
    <2>6. \A i \in 1 .. k - 1 : data[d[i]] = Tail(c)[i]
      <3> SUFFICES ASSUME NEW i \in 1 .. k - 1 PROVE data[d[i]] = Tail(c)[i]
        OBVIOUS
      <3>1. i + 1 \in 1 .. k
        BY <1>1
      <3> QED
        BY <1>1, <2>3, <2>5, <3>1
    <2>7. Contents' = Tail(c)
      <3>1. Contents' = [i \in 1 .. k - 1 |-> data[d[i]]]
        BY <2>2, <2>3
      <3> DEFINE w == Tail(c)
                 e == Contents'
                 S == 1 .. k - 1
      <3>2. w \in Seq(Values) /\ Len(w) = k - 1 /\ \A i \in S : data[d[i]] = w[i]
        BY <2>5, <2>6
      <3>3. e = [i \in S |-> data[d[i]]]
        BY <3>1
      <3> HIDE DEF w, e
      <3>4. w = [i \in S |-> w[i]]
        BY <3>2
      <3> HIDE DEF S
      <3>5. e = [i \in S |-> e[i]] /\ \A i \in S : e[i] = w[i]
        BY <3>2, <3>3
      <3>6. e = w
        BY <3>4, <3>5, SameFunction
      <3> QED
        BY <3>6 DEF e, w
    <2>8. Fifo!Take
      BY <2>1, <2>4, <2>7 DEF Fifo!Take, c
    <2> QED
      BY <2>8 DEF Fifo!Next
  <1> QED
    BY <1>3, <1>4, <1>5, ChainStep

\* With one producer CQueue implements the first-in first-out queue: a value enters it with the
\* swap of the last NextNode and leaves it with the swap of the head.
THEOREM ImplementsFifo ==
    ASSUME OneProducer
    PROVE  Spec => FifoSpec
  <1>1. Init => Fifo!Init
    BY InitSolo DEF Init, Fifo!Init
  <1>2. Structured /\ SoloInv /\ [Next]_vars => [Fifo!Next]_<<Contents, log>>
    BY FifoStep
  <1> QED
    BY <1>1, <1>2, InductiveSolo, PTL DEF Spec, FifoSpec, Fifo!Spec
=============================================================================
