-------------------------- MODULE EnvironmentProofs --------------------------
(* Theorems about Environment: the heap std::priority_queue keeps, with a    *)
(* comparator that is no strict weak order, and what the environment's loops *)
(* over it do.  The first part is about any sequence, for the order that the *)
(* tokens of a queue are in; the second part says what that order is.        *)
EXTENDS Environment, FiniteSetTheorems, SequenceTheorems, TLAPS

-----------------------------------------------------------------------------
(* A set of naturals with a bound has a least and a greatest element.        *)
LEMMA LeastElement ==
  ASSUME NEW n \in Nat, NEW T, T \subseteq 1..n, T # {}
  PROVE  \E x \in T : \A y \in T : x <= y
<1> SUFFICES ASSUME \A x \in T : \E y \in T : y < x PROVE FALSE
  OBVIOUS
<1> DEFINE L == {k \in 0..n : \A y \in T : k < y}
           f == [k \in L |-> k + 1]
<1>1. IsFiniteSet(L)
  BY FS_Interval, FS_Subset, 0 \in Int, n \in Int
<1>2. 0 \in L /\ \A k \in L : k + 1 \in L \ {0}
  <2>1. 0 \in L
    OBVIOUS
  <2>2. ASSUME NEW k \in L PROVE k + 1 \in L \ {0}
    <3>1. PICK y \in T : TRUE
      OBVIOUS
    <3>2. k + 1 \in 0..n /\ k + 1 # 0
      BY <3>1
    <3>3. ASSUME NEW z \in T PROVE k + 1 < z
      <4>1. k + 1 \notin T
        BY <2>2
      <4> QED BY <2>2, <4>1
    <3> QED BY <3>2, <3>3
  <2> QED BY <2>1, <2>2
<1>3. IsFiniteSet(L \ {0}) /\ Cardinality(L \ {0}) = Cardinality(L) - 1
  BY <1>1, <1>2, FS_RemoveElement
<1>4. f \in [L -> L \ {0}]
  BY <1>2
<1>5. Cardinality(L) \in Nat
  BY <1>1, FS_CardinalityType
<1> HIDE DEF L, f
<1>6. \E x, y \in L : x # y /\ f[x] = f[y]
  BY <1>1, <1>3, <1>4, <1>5, FS_PigeonHole
<1> QED BY <1>6 DEF L, f

LEMMA GreatestElement ==
  ASSUME NEW n \in Nat, NEW T, T \subseteq 1..n, T # {}
  PROVE  \E x \in T : \A y \in T : y <= x
<1> DEFINE D == {k \in 1..n : n + 1 - k \in T}
<1>1. \A x \in T : n + 1 - x \in D
  OBVIOUS
<1>2. D # {}
  BY <1>1
<1>3. PICK d \in D : \A e \in D : d <= e
  BY <1>2, LeastElement
<1>4. n + 1 - d \in T /\ d \in 1..n
  OBVIOUS
<1>5. ASSUME NEW y \in T PROVE y <= n + 1 - d
  BY <1>1, <1>3, <1>4
<1> QED BY <1>4, <1>5

-----------------------------------------------------------------------------
(* The positions a hole rises through are a chain: each but the first is the *)
(* parent of the one before, and only the last is not passed.                *)
LEMMA RiseChain ==
  ASSUME NEW h, NEW v, NEW hole \in Nat \ {0}
  PROVE  /\ hole \in PQ!Rise(h, hole, v) /\ PQ!Rise(h, hole, v) \subseteq 1..hole
         /\ \A i \in PQ!Rise(h, hole, v) : PQ!Passes(h, v, i) => i \div 2 \in PQ!Rise(h, hole, v)
         /\ \A i \in PQ!Rise(h, hole, v) : i # hole =>
              \E c \in PQ!Rise(h, hole, v) : PQ!Passes(h, v, c) /\ c \div 2 = i
         /\ \A c, d \in PQ!Rise(h, hole, v) : d < c => PQ!Passes(h, v, c) /\ d <= c \div 2
         /\ \E i \in PQ!Rise(h, hole, v) : ~PQ!Passes(h, v, i)
<1> DEFINE V == PQ!Rise(h, hole, v)
           Above(a) == \A b \in V : b > a => b \div 2 >= a
           Under(a) == \A b \in V : b < a => PQ!Passes(h, v, a) /\ b <= a \div 2
<1>1. hole \in V /\ V \subseteq 1..hole
  BY DEF PQ!Rise
<1>2. \A S \in SUBSET (1..hole) : hole \in S /\ PQ!ClosedUpward(h, v, S) => V \subseteq S
  BY DEF PQ!Rise
<1>3. ASSUME NEW i \in V, PQ!Passes(h, v, i) PROVE i \div 2 \in V
  <2>1. i \div 2 \in 1..hole
    BY <1>1, <1>3 DEF PQ!Passes
  <2>2. \A S \in SUBSET (1..hole) : hole \in S /\ PQ!ClosedUpward(h, v, S) => i \div 2 \in S
    BY <1>2, <1>3 DEF PQ!ClosedUpward
  <2> QED BY <2>1, <2>2 DEF PQ!Rise
<1> HIDE DEF V
<1>4. ASSUME NEW i \in V, i # hole PROVE \E c \in V : PQ!Passes(h, v, c) /\ c \div 2 = i
  <2> SUFFICES ASSUME \A c \in V : PQ!Passes(h, v, c) => c \div 2 # i PROVE FALSE
    OBVIOUS
  <2>1. PQ!ClosedUpward(h, v, V \ {i})
    BY <1>3 DEF PQ!ClosedUpward
  <2> QED BY <1>1, <1>2, <1>4, <2>1
<1>5. ASSUME NEW a \in V, Above(a) PROVE Under(a)
  <2> DEFINE S == {b \in V : b >= a \/ (PQ!Passes(h, v, a) /\ b <= a \div 2)}
  <2>1. hole \in S
    BY <1>1
  <2>2. ASSUME NEW b \in S, PQ!Passes(h, v, b) PROVE b \div 2 \in S
    <3>1. b \div 2 \in V /\ a \in Nat /\ b \in Nat
      BY <1>1, <1>3, <2>2
    <3>2. CASE b > a
      BY <1>5, <3>1, <3>2
    <3>3. CASE b = a
      BY <3>1, <3>3, <2>2
    <3>4. CASE b < a
      BY <3>1, <3>4, <2>2
    <3> QED BY <3>1, <3>2, <3>3, <3>4
  <2>3. V \subseteq S
    BY <1>1, <1>2, <2>1, <2>2 DEF PQ!ClosedUpward
  <2> QED BY <1>1, <2>3
<1>6. \A a \in V : Above(a)
  <2> DEFINE S == {a \in V : Above(a)}
  <2>1. hole \in S
    BY <1>1
  <2>2. ASSUME NEW a \in S, PQ!Passes(h, v, a) PROVE a \div 2 \in S
    <3>1. a \div 2 \in V /\ a \in 1..hole /\ Under(a)
      BY <1>1, <1>3, <1>5, <2>2
    <3>2. ASSUME NEW b \in V, b > a \div 2 PROVE b \div 2 >= a \div 2
      BY <1>1, <2>2, <3>1, <3>2
    <3> QED BY <3>1, <3>2
  <2>3. V \subseteq S
    BY <1>1, <1>2, <2>1, <2>2 DEF PQ!ClosedUpward
  <2> QED BY <2>3
<1>7. \A a \in V : Under(a)
  BY <1>5, <1>6
<1>8. \E i \in V : ~PQ!Passes(h, v, i)
  <2>1. PICK i \in V : \A j \in V : i <= j
    BY <1>1, LeastElement
  <2>2. i \in 1..hole
    BY <1>1
  <2> QED BY <1>3, <2>1, <2>2 DEF PQ!Passes
<1> QED BY <1>1, <1>3, <1>4, <1>7, <1>8 DEF V

(* So are those a hole sinks through, from the top to a leaf: one only.      *)
LEMMA SinkChain ==
  ASSUME NEW h, NEW n \in Nat \ {0}
  PROVE  /\ 1 \in PQ!Sink(h, n) /\ PQ!Sink(h, n) \subseteq 1..n
         /\ \A i \in PQ!Sink(h, n) : 2 * i <= n => PQ!Child(h, n, i) \in PQ!Sink(h, n)
         /\ \A i \in PQ!Sink(h, n) : i # 1 =>
              \E p \in PQ!Sink(h, n) : 2 * p <= n /\ PQ!Child(h, n, p) = i
         /\ \A i, j \in PQ!Sink(h, n) : 2 * i > n /\ 2 * j > n => i = j
         /\ PQ!Leaf(h, n) \in PQ!Sink(h, n) /\ 2 * PQ!Leaf(h, n) > n
<1> DEFINE V == PQ!Sink(h, n)
           C(i) == PQ!Child(h, n, i)
           Above(a) == \A b \in V : b < a => 2 * b <= n /\ C(b) <= a
           Under(a) == \A b \in V : b > a => 2 * a <= n /\ b >= C(a)
<1>0. \A i \in 1..n : 2 * i <= n => C(i) \in 2..n /\ C(i) \in {2 * i, 2 * i + 1}
  BY DEF PQ!Child
<1>1. 1 \in V /\ V \subseteq 1..n
  BY DEF PQ!Sink
<1>2. \A S \in SUBSET (1..n) : 1 \in S /\ PQ!ClosedDownward(h, n, S) => V \subseteq S
  BY DEF PQ!Sink
<1>3. ASSUME NEW i \in V, 2 * i <= n PROVE C(i) \in V
  <2>1. C(i) \in 1..n
    BY <1>0, <1>1, <1>3
  <2>2. \A S \in SUBSET (1..n) : 1 \in S /\ PQ!ClosedDownward(h, n, S) => C(i) \in S
    BY <1>2, <1>3 DEF PQ!ClosedDownward
  <2> QED BY <2>1, <2>2 DEF PQ!Sink
<1> HIDE DEF V, C
<1>4. ASSUME NEW i \in V, i # 1 PROVE \E p \in V : 2 * p <= n /\ C(p) = i
  <2> SUFFICES ASSUME \A p \in V : 2 * p <= n => C(p) # i PROVE FALSE
    OBVIOUS
  <2>1. PQ!ClosedDownward(h, n, V \ {i})
    BY <1>3 DEF PQ!ClosedDownward, C
  <2> QED BY <1>1, <1>2, <1>4, <2>1
<1>5. ASSUME NEW a \in V, Above(a) PROVE Under(a)
  <2> DEFINE S == {b \in V : b <= a \/ (2 * a <= n /\ b >= C(a))}
  <2>1. 1 \in S
    BY <1>1
  <2>2. ASSUME NEW b \in S, 2 * b <= n PROVE C(b) \in S
    <3>1. C(b) \in V /\ a \in 1..n /\ b \in 1..n /\ C(b) \in Nat /\ C(b) >= 2 * b
      BY <1>0, <1>1, <1>3, <2>2
    <3>2. CASE b < a
      BY <1>5, <3>1, <3>2
    <3>3. CASE b = a
      BY <3>1, <3>3, <2>2
    <3>4. CASE b > a
      BY <1>0, <3>1, <3>4, <2>2
    <3> QED BY <3>1, <3>2, <3>3, <3>4
  <2>3. V \subseteq S
    BY <1>1, <1>2, <2>1, <2>2 DEF PQ!ClosedDownward, C
  <2> QED BY <1>1, <2>3
<1>6. \A a \in V : Above(a)
  <2> DEFINE S == {a \in V : Above(a)}
  <2>1. 1 \in S
    BY <1>1
  <2>2. ASSUME NEW a \in S, 2 * a <= n PROVE C(a) \in S
    <3>1. C(a) \in V /\ C(a) \in 1..n /\ a \in 1..n /\ Under(a) /\ C(a) >= 2 * a
      BY <1>0, <1>1, <1>3, <1>5, <2>2
    <3>2. ASSUME NEW b \in V, b < C(a) PROVE 2 * b <= n /\ C(b) <= C(a)
      <4>1. b \in 1..n /\ (2 * b <= n => C(b) \in Nat)
        BY <1>0, <1>1
      <4> QED BY <2>2, <3>1, <3>2, <4>1
    <3> QED BY <3>1, <3>2
  <2>3. V \subseteq S
    BY <1>1, <1>2, <2>1, <2>2 DEF PQ!ClosedDownward, C
  <2> QED BY <2>3
<1>7. \A a \in V : Under(a)
  BY <1>5, <1>6
<1>8. \E i \in V : 2 * i > n
  <2>1. PICK i \in V : \A j \in V : j <= i
    BY <1>1, GreatestElement
  <2>2. i \in 1..n /\ (2 * i <= n => C(i) \in Nat /\ C(i) > i)
    BY <1>0, <1>1
  <2>3. 2 * i <= n => C(i) <= i
    BY <1>3, <2>1
  <2> QED BY <2>1, <2>2, <2>3
<1>9. PQ!Leaf(h, n) \in V /\ 2 * PQ!Leaf(h, n) > n
  BY <1>8 DEF PQ!Leaf, V
<1>10. \A i, j \in V : 2 * i > n /\ 2 * j > n => i = j
  BY <1>1, <1>7
<1> QED BY <1>1, <1>3, <1>4, <1>9, <1>10 DEF V, C

-----------------------------------------------------------------------------
(* A heap for R: a token is not ordered before its parent.                   *)
Order(T, R) ==
  /\ \A s, t \in T : /\ TokenComp(s, t) => <<t, s>> \in R
                     /\ ~TokenComp(s, t) => <<s, t>> \in R
  /\ \A s, t, u \in T : <<s, t>> \in R /\ <<t, u>> \in R => <<s, u>> \in R

HeapBut(h, hole, R) ==
  \A i \in 2..Len(h) : i # hole /\ i \div 2 # hole => <<h[i \div 2], h[i]>> \in R
Heap(h, R) == HeapBut(h, 0, R)

DistinctBut(h, hole) ==
  \A i, j \in 1..Len(h) : i # hole /\ j # hole /\ h[i] = h[j] => i = j
Distinct(h) == DistinctBut(h, 0)

Contents(h) == {h[i] : i \in 1..Len(h)}
ContentsBut(h, hole) == {h[i] : i \in (1..Len(h)) \ {hole}}

LEMMA FunctionIsSeq ==
  ASSUME NEW T, NEW n \in Nat, NEW f \in [1..n -> T]
  PROVE  f \in Seq(T) /\ Len(f) = n
<1>1. f \in Seq(T)
  BY SeqDef
<1> QED BY <1>1, LenProperties

(* v sifted up from a hole without children.                                 *)
LEMMA SiftUpFacts ==
  ASSUME NEW T, NEW h \in Seq(T), NEW v \in T, NEW hole \in 1..Len(h), 2 * hole > Len(h)
  PROVE  /\ PQ!SiftUp(h, hole, v) \in Seq(T)
         /\ Len(PQ!SiftUp(h, hole, v)) = Len(h)
         /\ Contents(PQ!SiftUp(h, hole, v)) = ContentsBut(h, hole) \cup {v}
         /\ DistinctBut(h, hole) /\ v \notin ContentsBut(h, hole)
              => Distinct(PQ!SiftUp(h, hole, v))
         /\ \A R : Order(T, R) /\ HeapBut(h, hole, R) => Heap(PQ!SiftUp(h, hole, v), R)
<1> DEFINE V == PQ!Rise(h, hole, v)
           Moves(i) == PQ!Passes(h, v, i)
           g == PQ!SiftUp(h, hole, v)
           n == Len(h)
<1>1. n \in Nat /\ DOMAIN h = 1..n /\ hole \in Nat \ {0} /\ hole <= n /\ \A i \in 1..n : h[i] \in T
  BY LenProperties
<1>2. /\ hole \in V /\ V \subseteq 1..hole
      /\ \A i \in V : Moves(i) => i \div 2 \in V
      /\ \A i \in V : i # hole => \E c \in V : Moves(c) /\ c \div 2 = i
      /\ \A c, d \in V : d < c => Moves(c) /\ d <= c \div 2
      /\ \E i \in V : ~Moves(i)
  BY <1>1, RiseChain
<1>3. \A i \in V : i \in 1..n /\ (Moves(i) => i >= 2 /\ i \div 2 \in V /\ TokenComp(h[i \div 2], v))
  BY <1>1, <1>2 DEF PQ!Passes
<1>4. \A i \in V : ~Moves(i) /\ i >= 2 => ~TokenComp(h[i \div 2], v)
  BY <1>1, <1>2 DEF PQ!Passes
<1>5. g = [i \in 1..n |-> IF i \notin V THEN h[i] ELSE IF Moves(i) THEN h[i \div 2] ELSE v]
  BY <1>1 DEF PQ!SiftUp
<1> HIDE DEF V, Moves, g, n
<1>6. \A i \in V : Moves(i) => i \div 2 \in 1..n
  BY <1>3
<1>7. g \in [1..n -> T]
  BY <1>1, <1>5, <1>6
<1>8. g \in Seq(T) /\ Len(g) = n
  BY <1>1, <1>7, FunctionIsSeq
<1>9. /\ \A i \in (1..n) \ V : g[i] = h[i]
      /\ \A i \in V : g[i] = IF Moves(i) THEN h[i \div 2] ELSE v
  BY <1>3, <1>5
<1>10. Contents(g) = ContentsBut(h, hole) \cup {v}
  <2>1. ASSUME NEW i \in 1..n PROVE g[i] \in ContentsBut(h, hole) \cup {v}
    <3>1. CASE i \notin V
      BY <1>2, <1>9, <3>1 DEF ContentsBut, n
    <3>2. CASE i \in V /\ Moves(i)
      <4>1. i \div 2 \in (1..n) \ {hole}
        BY <1>1, <1>2, <1>3, <3>2
      <4> QED BY <1>9, <3>2, <4>1 DEF ContentsBut, n
    <3>3. CASE i \in V /\ ~Moves(i)
      BY <1>9, <3>3
    <3> QED BY <3>1, <3>2, <3>3
  <2>2. ASSUME NEW i \in 1..n, i # hole PROVE h[i] \in Contents(g)
    <3>1. CASE i \notin V
      BY <1>8, <1>9, <2>2, <3>1 DEF Contents
    <3>2. CASE i \in V
      <4>1. PICK c \in V : Moves(c) /\ c \div 2 = i
        BY <1>2, <2>2, <3>2
      <4> QED BY <1>3, <1>8, <1>9, <4>1 DEF Contents
    <3> QED BY <3>1, <3>2
  <2>3. v \in Contents(g)
    BY <1>2, <1>3, <1>8, <1>9 DEF Contents
  <2> QED BY <1>8, <2>1, <2>2, <2>3 DEF Contents, ContentsBut, n
<1>11. ASSUME DistinctBut(h, hole), v \notin ContentsBut(h, hole) PROVE Distinct(g)
  <2> SUFFICES ASSUME NEW i \in 1..n, NEW j \in 1..n, g[i] = g[j], i < j PROVE FALSE
    BY <1>1, <1>8 DEF Distinct, DistinctBut
  <2>1. \A k \in (1..n) \ {hole} : h[k] # v
    BY <1>11 DEF ContentsBut, n
  <2>2. \A k \in V : Moves(k) => k \div 2 \in (1..n) \ {hole}
    BY <1>1, <1>2, <1>3
  <2>3. \A k, l \in (1..n) \ {hole} : h[k] = h[l] => k = l
    BY <1>11 DEF DistinctBut, n
  <2>4. CASE i \notin V /\ j \notin V
    BY <1>2, <1>9, <2>3, <2>4
  <2>5. CASE i \in V /\ j \in V
    <3>1. Moves(j) /\ i <= j \div 2
      BY <1>2, <2>5
    <3>2. Moves(i) /\ i \div 2 = j \div 2
      BY <1>9, <2>1, <2>2, <2>3, <2>5, <3>1
    <3> QED BY <3>1, <3>2
  <2>6. CASE i \in V /\ j \notin V
    <3>1. Moves(i) /\ i \div 2 = j
      BY <1>2, <1>9, <2>1, <2>2, <2>3, <2>6
    <3> QED BY <1>2, <1>3, <2>6, <3>1
  <2>7. CASE i \notin V /\ j \in V
    <3>1. Moves(j) /\ j \div 2 = i
      BY <1>2, <1>9, <2>1, <2>2, <2>3, <2>7
    <3> QED BY <1>2, <1>3, <2>7, <3>1
  <2> QED BY <2>4, <2>5, <2>6, <2>7
<1>12. ASSUME NEW R, Order(T, R), HeapBut(h, hole, R) PROVE Heap(g, R)
  <2> SUFFICES ASSUME NEW i \in 2..n PROVE <<g[i \div 2], g[i]>> \in R
    BY <1>8 DEF Heap, HeapBut
  <2> DEFINE p == i \div 2
  <2>0. p \in 1..n /\ p < i /\ i \in 1..n /\ 2 * p <= n /\ p # hole
    BY <1>1 DEF n
  <2>1. \A k \in 2..n : k # hole /\ k \div 2 # hole => <<h[k \div 2], h[k]>> \in R
    BY <1>12 DEF HeapBut, n
  <2>2. \A s, t \in T : /\ TokenComp(s, t) => <<t, s>> \in R
                        /\ ~TokenComp(s, t) => <<s, t>> \in R
    BY <1>12 DEF Order
  <2>3. \A s, t, u \in T : <<s, t>> \in R /\ <<t, u>> \in R => <<s, u>> \in R
    BY <1>12 DEF Order
  <2> HIDE DEF p
  <2>4. p \in V => /\ Moves(p) => /\ g[p] = h[p \div 2] /\ p \div 2 \in 1..n
                                  /\ <<h[p \div 2], h[p]>> \in R
                   /\ ~Moves(p) => g[p] = v
    <3> SUFFICES ASSUME p \in V, Moves(p) PROVE p \div 2 \in 1..n /\ <<h[p \div 2], h[p]>> \in R
      BY <1>9
    <3>1. p \in 2..n /\ p \div 2 \in 1..n /\ p \div 2 < p
      BY <1>3, <1>6, <2>0
    <3>2. p <= hole
      BY <1>2
    <3>3. p \div 2 # hole
      BY <1>1, <3>1, <3>2
    <3> QED BY <2>0, <2>1, <3>1, <3>3
  <2>5. CASE i \in V /\ Moves(i)
    <3>1. g[i] = h[p] /\ p \in V /\ TokenComp(h[p], v)
      BY <1>3, <1>9, <2>5 DEF p
    <3>2. <<v, h[p]>> \in R
      BY <1>1, <2>0, <2>2, <3>1
    <3> QED BY <2>4, <3>1, <3>2 DEF p
  <2>6. CASE i \in V /\ ~Moves(i)
    <3>1. p \notin V
      BY <1>2, <2>0, <2>6
    <3>2. g[i] = v /\ g[p] = h[p] /\ ~TokenComp(h[p], v)
      BY <1>4, <1>9, <2>0, <2>6, <3>1 DEF p
    <3> QED BY <1>1, <2>0, <2>2, <3>2 DEF p
  <2>7. CASE i \notin V
    <3>1. g[i] = h[i] /\ i # hole /\ <<h[p], h[i]>> \in R
      BY <1>2, <1>9, <2>0, <2>1, <2>7 DEF p
    <3>2. CASE p \notin V
      BY <1>9, <2>0, <3>1, <3>2 DEF p
    <3>3. CASE p \in V
      <4>1. PICK c \in V : Moves(c) /\ c \div 2 = p
        BY <1>2, <2>0, <3>3
      <4>2. <<v, h[p]>> \in R
        BY <1>1, <1>3, <2>0, <2>2, <4>1
      <4>3. <<g[p], h[p]>> \in R /\ g[p] \in T
        BY <1>1, <2>4, <3>3, <4>2
      <4> QED BY <1>1, <2>0, <2>3, <3>1, <4>3 DEF p
    <3> QED BY <3>2, <3>3
  <2> QED BY <2>5, <2>6, <2>7
<1> QED BY <1>8, <1>10, <1>11, <1>12 DEF g, n

(* What a push leaves in the queue.                                          *)
LEMMA PushFacts ==
  ASSUME NEW T, NEW h \in Seq(T), NEW v \in T
  PROVE  /\ PQ!Push(h, v) \in Seq(T)
         /\ Contents(PQ!Push(h, v)) = Contents(h) \cup {v}
         /\ Distinct(h) /\ v \notin Contents(h) => Distinct(PQ!Push(h, v))
         /\ \A R : Order(T, R) /\ Heap(h, R) => Heap(PQ!Push(h, v), R)
<1> DEFINE n == Len(h) + 1
           f == Append(h, v)
<1>1. Len(h) \in Nat /\ n \in Nat \ {0}
  BY LenProperties
<1>2. f \in Seq(T) /\ Len(f) = n /\ \A i \in 1..Len(h) : f[i] = h[i]
  BY <1>1, AppendProperties
<1> HIDE DEF f
<1>3. n \in 1..Len(f) /\ 2 * n > Len(f) /\ (1..Len(f)) \ {n} = 1..Len(h)
  BY <1>1, <1>2
<1>4. PQ!Push(h, v) = PQ!SiftUp(f, n, v)
  BY DEF PQ!Push, f
<1>5. ContentsBut(f, n) = Contents(h)
  BY <1>2, <1>3 DEF ContentsBut, Contents
<1>6. Distinct(h) => DistinctBut(f, n)
  BY <1>1, <1>2, <1>3 DEF Distinct, DistinctBut
<1>7. ASSUME NEW R, Heap(h, R) PROVE HeapBut(f, n, R)
  <2> SUFFICES ASSUME NEW i \in 2..n, i # n PROVE <<f[i \div 2], f[i]>> \in R
    BY <1>2 DEF HeapBut
  <2>1. i \in 2..Len(h) /\ i \in 1..Len(h) /\ i \div 2 \in 1..Len(h) /\ i # 0 /\ i \div 2 # 0
    BY <1>1
  <2> QED BY <1>2, <1>7, <2>1 DEF Heap, HeapBut
<1> QED BY <1>2, <1>3, <1>4, <1>5, <1>6, <1>7, SiftUpFacts

(* The hole the top left has sunk to a leaf.                                 *)
LEMMA SunkFacts ==
  ASSUME NEW T, NEW h \in Seq(T), NEW n \in Nat \ {0}, Len(h) = n + 1
  PROVE  /\ PQ!Sunk(h, n) \in Seq(T) /\ Len(PQ!Sunk(h, n)) = n
         /\ PQ!Leaf(h, n) \in 1..n /\ 2 * PQ!Leaf(h, n) > n
         /\ ContentsBut(PQ!Sunk(h, n), PQ!Leaf(h, n)) = {h[i] : i \in 2..n}
         /\ Distinct(h) => DistinctBut(PQ!Sunk(h, n), PQ!Leaf(h, n))
         /\ \A R : Order(T, R) /\ Heap(h, R) => HeapBut(PQ!Sunk(h, n), PQ!Leaf(h, n), R)
<1> DEFINE V == PQ!Sink(h, n)
           C(i) == PQ!Child(h, n, i)
           leaf == PQ!Leaf(h, n)
           f == PQ!Sunk(h, n)
<1>1. \A i \in 1..n + 1 : h[i] \in T
  BY LenProperties
<1>2. /\ 1 \in V /\ V \subseteq 1..n
      /\ \A i \in V : 2 * i <= n => C(i) \in V
      /\ \A i \in V : i # 1 => \E p \in V : 2 * p <= n /\ C(p) = i
      /\ \A i, j \in V : 2 * i > n /\ 2 * j > n => i = j
      /\ leaf \in V /\ 2 * leaf > n
  BY SinkChain
<1>3. \A i \in 1..n : 2 * i <= n => C(i) \in 2..n /\ C(i) \div 2 = i
  BY DEF PQ!Child
<1>4. \A i \in 1..n : 2 * i < n =>
        \/ C(i) = 2 * i + 1 /\ ~TokenComp(h[2 * i + 1], h[2 * i])
        \/ C(i) = 2 * i /\ TokenComp(h[2 * i + 1], h[2 * i])
  BY DEF PQ!Child
<1>5. f = [i \in 1..n |-> IF i \in V /\ 2 * i <= n THEN h[C(i)] ELSE h[i]]
  BY DEF PQ!Sunk
<1> HIDE DEF V, C, leaf, f
<1>6. f \in [1..n -> T]
  BY <1>1, <1>3, <1>5
<1>7. f \in Seq(T) /\ Len(f) = n
  BY <1>6, FunctionIsSeq
<1>8. /\ \A i \in (1..n) \ V : f[i] = h[i]
      /\ \A i \in V : i # leaf => /\ f[i] = h[C(i)] /\ 2 * i <= n /\ i \in 1..n
                                 /\ C(i) \in V /\ C(i) \in 2..n /\ C(i) \div 2 = i
      /\ \A i \in V : i # 1 => i \div 2 \in V /\ i \div 2 # leaf /\ C(i \div 2) = i
  <2>1. \A i \in (1..n) \ V : f[i] = h[i]
    BY <1>5
  <2>2. ASSUME NEW i \in V, i # leaf
        PROVE  /\ f[i] = h[C(i)] /\ 2 * i <= n /\ i \in 1..n
               /\ C(i) \in V /\ C(i) \in 2..n /\ C(i) \div 2 = i
    <3>1. i \in 1..n /\ 2 * i <= n
      BY <1>2, <2>2
    <3> QED BY <1>2, <1>3, <1>5, <3>1
  <2>3. ASSUME NEW i \in V, i # 1 PROVE i \div 2 \in V /\ i \div 2 # leaf /\ C(i \div 2) = i
    <3>1. PICK p \in V : 2 * p <= n /\ C(p) = i
      BY <1>2, <2>3
    <3>2. i \div 2 = p
      BY <1>2, <1>3, <3>1
    <3> QED BY <1>2, <3>1, <3>2
  <2> QED BY <2>1, <2>2, <2>3
<1>9. ContentsBut(f, leaf) = {h[i] : i \in 2..n}
  <2>1. ASSUME NEW i \in 1..n, i # leaf PROVE \E j \in 2..n : f[i] = h[j]
    <3>1. CASE i \in V
      BY <1>8, <2>1, <3>1
    <3>2. CASE i \notin V
      <4>1. i \in 2..n
        BY <1>2, <3>2
      <4> QED BY <1>8, <3>2, <4>1
    <3> QED BY <3>1, <3>2
  <2>2. ASSUME NEW j \in 2..n PROVE \E i \in (1..n) \ {leaf} : f[i] = h[j]
    <3>1. CASE j \in V
      <4>1. j \div 2 \in V /\ j \div 2 # leaf /\ C(j \div 2) = j
        BY <1>8, <3>1
      <4> QED BY <1>8, <4>1
    <3>2. CASE j \notin V
      BY <1>2, <1>8, <3>2
    <3> QED BY <3>1, <3>2
  <2>3. ContentsBut(f, leaf) = {f[i] : i \in (1..n) \ {leaf}}
    BY <1>7 DEF ContentsBut
  <2>4. {f[i] : i \in (1..n) \ {leaf}} \subseteq {h[i] : i \in 2..n}
    BY <2>1
  <2>5. {h[i] : i \in 2..n} \subseteq {f[i] : i \in (1..n) \ {leaf}}
    <3>1. ASSUME NEW j \in 2..n PROVE h[j] \in {f[i] : i \in (1..n) \ {leaf}}
      BY <2>2
    <3> QED BY <3>1
  <2> QED BY <2>3, <2>4, <2>5
<1>10. ASSUME Distinct(h) PROVE DistinctBut(f, leaf)
  <2> SUFFICES ASSUME NEW i \in 1..n, NEW j \in 1..n, i # leaf, j # leaf, f[i] = f[j]
               PROVE  i = j
    BY <1>7 DEF DistinctBut
  <2>1. \A k, l \in 1..n + 1 : h[k] = h[l] => k = l
    BY <1>10 DEF Distinct, DistinctBut
  <2>2. \A k \in V : k # leaf => C(k) \in 1..n + 1 /\ C(k) \in V /\ f[k] = h[C(k)] /\ C(k) \div 2 = k
    BY <1>8
  <2>3. CASE i \in V /\ j \in V
    BY <2>1, <2>2, <2>3
  <2>4. CASE i \in V /\ j \notin V
    BY <1>8, <2>1, <2>2, <2>4
  <2>5. CASE i \notin V /\ j \in V
    BY <1>8, <2>1, <2>2, <2>5
  <2>6. CASE i \notin V /\ j \notin V
    BY <1>8, <2>1, <2>6
  <2> QED BY <2>3, <2>4, <2>5, <2>6
<1>11. ASSUME NEW R, Order(T, R), Heap(h, R) PROVE HeapBut(f, leaf, R)
  <2> SUFFICES ASSUME NEW i \in 2..n, i # leaf, i \div 2 # leaf PROVE <<f[i \div 2], f[i]>> \in R
    BY <1>7 DEF HeapBut
  <2> DEFINE p == i \div 2
  <2>0. p \in 1..n /\ i \in {2 * p, 2 * p + 1} /\ i \in 1..n
    OBVIOUS
  <2>1. \A k \in 2..n + 1 : <<h[k \div 2], h[k]>> \in R
    BY <1>11 DEF Heap, HeapBut
  <2>2. \A s, t \in T : /\ TokenComp(s, t) => <<t, s>> \in R
                        /\ ~TokenComp(s, t) => <<s, t>> \in R
    BY <1>11 DEF Order
  <2>3. CASE i \in V
    <3>1. f[i] = h[C(i)] /\ C(i) \in 2..n + 1 /\ C(i) \div 2 = i
      BY <1>8, <2>3
    <3>2. f[p] = h[i]
      BY <1>8, <2>3
    <3> QED BY <2>1, <3>1, <3>2
  <2>4. CASE i \notin V /\ p \notin V
    BY <1>8, <2>0, <2>1, <2>4
  <2>5. CASE i \notin V /\ p \in V
    <3>1. f[i] = h[i] /\ f[p] = h[C(p)] /\ C(p) \in V /\ C(p) # i /\ C(p) \in 2..n /\ C(p) \div 2 = p
      BY <1>8, <2>0, <2>5
    <3>2. 2 * p < n /\ {i, C(p)} = {2 * p, 2 * p + 1}
      BY <2>0, <3>1
    <3>3. h[2 * p] \in T /\ h[2 * p + 1] \in T
      BY <1>1, <2>0, <3>2
    <3>4. CASE C(p) = 2 * p + 1
      BY <1>4, <2>0, <2>2, <3>1, <3>2, <3>3, <3>4
    <3>5. CASE C(p) = 2 * p
      BY <1>4, <2>0, <2>2, <3>1, <3>2, <3>3, <3>5
    <3> QED BY <3>2, <3>4, <3>5
  <2> QED BY <2>3, <2>4, <2>5
<1> QED BY <1>2, <1>7, <1>9, <1>10, <1>11 DEF f, leaf

(* What a pop leaves in the queue.                                           *)
LEMMA PopFacts ==
  ASSUME NEW T, NEW h \in Seq(T), h # << >>, Distinct(h)
  PROVE  /\ PQ!Pop(h) \in Seq(T)
         /\ Contents(PQ!Pop(h)) = Contents(h) \ {PQ!Top(h)}
         /\ Distinct(PQ!Pop(h))
         /\ \A R : Order(T, R) /\ Heap(h, R) => Heap(PQ!Pop(h), R)
<1> DEFINE n == Len(h) - 1
           v == h[Len(h)]
<1>1. n \in Nat /\ Len(h) \in Nat /\ Len(h) = n + 1 /\ \A i \in 1..n + 1 : h[i] \in T
  BY LenProperties, EmptySeq
<1>2. \A i, j \in 1..n + 1 : h[i] = h[j] => i = j
  BY <1>1 DEF Distinct, DistinctBut
<1>3. CASE n = 0
  <2>1. PQ!Pop(h) = << >> /\ << >> \in Seq(T) /\ Len(<< >>) = 0
    BY <1>3, EmptySeq DEF PQ!Pop
  <2>2. Contents(h) = {PQ!Top(h)}
    <3>1. Len(h) = n + 1
      BY <1>1
    <3>2. 1..Len(h) = {1}
      BY <1>1, <1>3, <3>1
    <3> QED BY <3>2 DEF Contents, PQ!Top
  <2>4. Contents(<< >>) = {}
    <3>1. 1..Len(<< >>) = {}
      BY <2>1
    <3> QED BY <3>1 DEF Contents
  <2>3. Distinct(<< >>) /\ \A R : Heap(<< >>, R)
    BY <2>1 DEF Distinct, DistinctBut, Heap, HeapBut
  <2> QED BY <2>1, <2>2, <2>3, <2>4
<1>4. CASE n # 0
  <2> DEFINE f == PQ!Sunk(h, n)
             leaf == PQ!Leaf(h, n)
  <2>1. PQ!Pop(h) = PQ!SiftUp(f, leaf, v)
    BY <1>4 DEF PQ!Pop
  <2>2. n \in Nat \ {0} /\ v \in T
    BY <1>1, <1>4
  <2> HIDE DEF n, v
  <2>3. /\ f \in Seq(T) /\ Len(f) = n
        /\ leaf \in 1..n /\ 2 * leaf > n
        /\ ContentsBut(f, leaf) = {h[i] : i \in 2..n}
        /\ DistinctBut(f, leaf)
        /\ \A R : Order(T, R) /\ Heap(h, R) => HeapBut(f, leaf, R)
    BY <1>1, <2>2, SunkFacts
  <2> HIDE DEF f, leaf
  <2>4. v = h[n + 1]
    BY <1>1 DEF v
  <2>5. v \notin ContentsBut(f, leaf)
    BY <1>2, <2>2, <2>3, <2>4
  <2>6. ContentsBut(f, leaf) \cup {v} = Contents(h) \ {PQ!Top(h)}
    <3>1. Contents(h) \ {h[1]} = {h[i] : i \in 2..n + 1}
      BY <1>1, <1>2, <2>2 DEF Contents
    <3>2. {h[i] : i \in 2..n + 1} = {h[i] : i \in 2..n} \cup {h[n + 1]}
      BY <2>2
    <3> QED BY <2>3, <2>4, <3>1, <3>2 DEF PQ!Top
  <2> QED BY <2>1, <2>2, <2>3, <2>5, <2>6, SiftUpFacts
<1> QED BY <1>3, <1>4

(* The top of a heap is ordered before everything in it.                     *)
LEMMA TopFirst ==
  ASSUME NEW T, NEW h \in Seq(T), NEW R, Order(T, R), Heap(h, R), h # << >>
  PROVE  PQ!Top(h) \in Contents(h) /\ \A t \in Contents(h) : <<PQ!Top(h), t>> \in R
<1> DEFINE B == {i \in 1..Len(h) : <<h[1], h[i]>> \notin R}
<1>1. Len(h) \in Nat \ {0} /\ \A i \in 1..Len(h) : h[i] \in T
  BY LenProperties, EmptySeq
<1>2. B = {}
  <2> SUFFICES ASSUME B # {} PROVE FALSE
    OBVIOUS
  <2>1. PICK i \in B : \A j \in B : i <= j
    BY <1>1, LeastElement
  <2>2. <<h[1], h[1]>> \in R
    BY <1>1 DEF Order
  <2>3. i \in 2..Len(h) /\ i \div 2 \in 1..Len(h) /\ i \div 2 < i
    BY <1>1, <2>2
  <2>4. <<h[1], h[i \div 2]>> \in R
    BY <2>1, <2>3
  <2>5. <<h[i \div 2], h[i]>> \in R
    BY <2>3 DEF Heap, HeapBut
  <2> QED BY <1>1, <2>3, <2>4, <2>5 DEF Order
<1> QED BY <1>1, <1>2 DEF Contents, PQ!Top

-----------------------------------------------------------------------------
(* The queue of the environment.                                             *)

(* What holds whatever the program does: tokens are told apart by their ids, *)
(* and a body that has ended is that of the process being resumed.           *)
EnvironmentInv ==
  /\ TypeOK
  /\ OnePrecision
  /\ body # "running" => tkn # None /\ ~tkn.handler
  /\ Distinct(queue)
  /\ \A s, t \in Pending : s.id = t.id => s = t

LEMMA PendingContents ==
  ASSUME NEW T, NEW h \in Seq(T)
  PROVE  {h[i] : i \in DOMAIN h} = Contents(h)
BY LenProperties DEF Contents

(* What scheduling a token leaves in the queue.                              *)
Adds(v, kind, time, priority) ==
  /\ v.time = time /\ (HasPriority(v) <=> HasPriority(kind))
  /\ v.priority = priority /\ v.precision = precision
  /\ \A t \in Pending : t.id # v.id
  /\ queue' = PQ!Push(queue, v) /\ queue' \in Seq(Token)
  /\ Pending' = Pending \cup {v}
  /\ Distinct(queue') /\ used' = TRUE
  /\ disturbed' = disturbed \cup (IF HasPriority(v) THEN {v.time} ELSE {})
  /\ disturbed' \subseteq Int

LEMMA Scheduled ==
  ASSUME EnvironmentInv, precision' = precision,
         NEW kind \in TokenKind, NEW time, NEW priority \in Priorities,
         ScheduleToken(kind, time, priority)
  PROVE  \E v \in Token : Adds(v, kind, time, priority)
<1>1. PICK id \in Ids \ {t.id : t \in Pending} :
        queue' = PQ!Push(queue, [id |-> id, coro |-> kind.coro, handler |-> kind.handler,
                                 eptr |-> kind.eptr, time |-> time,
                                 priority |-> priority, precision |-> precision])
  BY DEF ScheduleToken, Pushed
<1> DEFINE v == [id |-> id, coro |-> kind.coro, handler |-> kind.handler,
                 eptr |-> kind.eptr, time |-> time,
                 priority |-> priority, precision |-> precision]
<1>2. time \in Int
  BY BoundsAssumption DEF BoundsAssumption, ScheduleToken
<1>3. v \in Token
  BY <1>2 DEF TokenKind, Token, EnvironmentInv, TypeOK
<1>4. /\ v.time = time /\ (HasPriority(v) <=> HasPriority(kind))
      /\ v.priority = priority /\ v.precision = precision /\ v.id = id
  BY DEF HasPriority
<1> HIDE DEF v
<1>5. queue \in Seq(Token) /\ Distinct(queue) /\ disturbed \subseteq Int
  BY DEF EnvironmentInv, TypeOK
<1>6. Pending = Contents(queue)
  BY <1>5, PendingContents DEF Pending
<1>7. \A t \in Pending : t.id # v.id
  BY <1>4
<1>8. queue' = PQ!Push(queue, v) /\ queue' \in Seq(Token) /\ Distinct(queue')
      /\ Contents(queue') = Pending \cup {v}
  <2>1. queue' = PQ!Push(queue, v)
    BY <1>1 DEF v
  <2>2. v \notin Contents(queue)
    BY <1>6, <1>7
  <2> QED BY <1>3, <1>5, <1>6, <2>1, <2>2, PushFacts
<1>9. Pending' = Contents(queue')
  BY <1>8, PendingContents DEF Pending
<1>10. /\ used' = TRUE
       /\ disturbed' = disturbed \cup (IF HasPriority(v) THEN {v.time} ELSE {})
  BY <1>4 DEF ScheduleToken, Marked
<1> QED BY <1>2, <1>3, <1>4, <1>5, <1>7, <1>8, <1>9, <1>10 DEF Adds

LEMMA SchedulingKeeps ==
  ASSUME EnvironmentInv, precision' = precision,
         NEW kind \in TokenKind, NEW time, NEW priority \in Priorities,
         ScheduleToken(kind, time, priority)
  PROVE  /\ queue' \in Seq(Token) /\ used' = TRUE /\ disturbed' \subseteq Int
         /\ OnePrecision' /\ Distinct(queue)'
         /\ (\A s, t \in Pending : s.id = t.id => s = t)'
<1>1. PICK v \in Token : Adds(v, kind, time, priority)
  BY Scheduled
<1>2. OnePrecision'
  BY <1>1 DEF Adds, EnvironmentInv, OnePrecision
<1>3. (\A s, t \in Pending : s.id = t.id => s = t)'
  BY <1>1 DEF Adds, EnvironmentInv
<1> QED BY <1>1, <1>2, <1>3 DEF Adds

(* What a step takes from it.                                                *)
LEMMA Stepped ==
  ASSUME EnvironmentInv, Step
  PROVE  /\ queue # << >> /\ queue' = PQ!Pop(queue)
         /\ PQ!Top(queue) \in Pending /\ PQ!Top(queue) \in Token
         /\ queue' \in Seq(Token)
         /\ Pending' = Pending \ {PQ!Top(queue)}
         /\ Distinct(queue')
         /\ now' = Latest(PQ!Top(queue).time, now)
         /\ disturbed' = {d \in disturbed : d >= now'}
<1>1. queue \in Seq(Token) /\ Distinct(queue) /\ call \in Calls
  BY DEF EnvironmentInv, TypeOK
<1>2. queue # << >>
  BY DEF Step, MoreToDo
<1>3. /\ queue' = PQ!Pop(queue) /\ now' = Latest(PQ!Top(queue).time, now)
      /\ disturbed' = {d \in disturbed : d >= now'}
  BY DEF Step, Popped, ClockAfter
<1>4. queue' \in Seq(Token) /\ Distinct(queue') /\ Contents(queue') = Contents(queue) \ {PQ!Top(queue)}
  BY <1>1, <1>2, <1>3, PopFacts
<1>5. PQ!Top(queue) \in Contents(queue) /\ PQ!Top(queue) \in Token
  <2>1. Len(queue) \in Nat \ {0} /\ queue[1] \in Token
    BY <1>1, <1>2, LenProperties, EmptySeq
  <2> QED BY <2>1 DEF Contents, PQ!Top
<1>6. Pending = Contents(queue) /\ Pending' = Contents(queue')
  BY <1>1, <1>4, PendingContents DEF Pending
<1> QED BY <1>2, <1>3, <1>4, <1>5, <1>6

LEMMA ProgramFacts ==
  ASSUME TypeOK
  PROVE  /\ \A k \in program.kinds : k \in {Wakeup, Handled, Done}
         /\ \A p \in program.priorities : p \in Priorities
         /\ \A l \in program.latencies \cup program.exceptionLatencies : l \in Int
         /\ \A o \in program.outcomes : o \in {"returned", "failed"}
BY ProgramsAssumption DEF ProgramsAssumption, TypeOK

LEMMA KindFacts ==
  ASSUME NEW k \in {Wakeup, Handled, Done}, NEW b \in BOOLEAN
  PROVE  /\ k \in TokenKind /\ [k EXCEPT !.eptr = b] \in TokenKind
         /\ ~HasPriority(k)
         /\ HasPriority([k EXCEPT !.eptr = b]) <=> k = Done /\ b
<1>1. /\ Wakeup = [coro |-> TRUE, handler |-> FALSE, eptr |-> FALSE]
      /\ Handled = [coro |-> TRUE, handler |-> TRUE, eptr |-> FALSE]
      /\ Done = [coro |-> FALSE, handler |-> FALSE, eptr |-> FALSE]
  BY DEF Kind, Wakeup, Handled, Done
<1>2. k = Wakeup \/ k = Handled \/ k = Done
  OBVIOUS
<1>3. CASE k = Wakeup
  BY <1>1, <1>3 DEF TokenKind, HasPriority
<1>4. CASE k = Handled
  BY <1>1, <1>4 DEF TokenKind, HasPriority
<1>5. CASE k = Done
  BY <1>1, <1>5 DEF TokenKind, HasPriority
<1> QED BY <1>2, <1>3, <1>4, <1>5

LEMMA Invariance == Spec => []EnvironmentInv
<1>1. Init => EnvironmentInv
  <2> SUFFICES ASSUME Init PROVE EnvironmentInv
    OBVIOUS
  <2>1. queue \in Seq(Token) /\ Pending = {} /\ Len(queue) = 0
    BY EmptySeq DEF Init, Pending
  <2>2. TypeOK
    <3>1. Idle \in Calls
      BY DEF Calls, Idle
    <3>2. queue \in Seq(Token) /\ (now \in Int /\ disturbed \subseteq Int)
      BY <2>1 DEF Init
    <3> QED BY <3>1, <3>2 DEF Init, TypeOK
  <2>3. OnePrecision /\ Distinct(queue)
    BY <2>1 DEF OnePrecision, Distinct, DistinctBut
  <2> QED BY <2>1, <2>2, <2>3 DEF EnvironmentInv, Init
<1>2. EnvironmentInv /\ [Next]_vars => EnvironmentInv'
  <2> SUFFICES ASSUME EnvironmentInv, [Next]_vars PROVE EnvironmentInv'
    OBVIOUS
  <2>1. TypeOK /\ OnePrecision /\ Distinct(queue)
    BY DEF EnvironmentInv
  <2>2. Wakeup \in TokenKind
    BY KindFacts
  <2>3. ASSUME NEW l \in program.latencies, NEW p \in program.priorities, Bind(l, p)
        PROVE  EnvironmentInv'
    <3>1. p \in Priorities /\ precision' = precision
      BY <2>1, <2>3, ProgramFacts DEF Bind
    <3>2. ScheduleToken(Wakeup, now + l, p)
      BY <2>3 DEF Bind
    <3>3. /\ queue' \in Seq(Token) /\ used' = TRUE /\ disturbed' \subseteq Int
          /\ OnePrecision' /\ Distinct(queue)'
          /\ (\A s, t \in Pending : s.id = t.id => s = t)'
      BY <2>2, <3>1, <3>2, SchedulingKeeps
    <3> QED BY <2>1, <2>3, <3>3 DEF Bind, EnvironmentInv, TypeOK
  <2>4. ASSUME NEW l \in program.latencies, NEW p \in program.priorities,
               NEW k \in program.kinds, HandlerCompletes(k, l, p)
        PROVE  EnvironmentInv'
    <3>1. p \in Priorities /\ k \in {Wakeup, Handled, Done} /\ precision' = precision
      BY <2>1, <2>4, ProgramFacts DEF HandlerCompletes
    <3>2. ScheduleToken(k, tkn.time + l, p) /\ k \in TokenKind
      BY <2>4, <3>1, KindFacts DEF HandlerCompletes
    <3>3. /\ queue' \in Seq(Token) /\ used' = TRUE /\ disturbed' \subseteq Int
          /\ OnePrecision' /\ Distinct(queue)'
          /\ (\A s, t \in Pending : s.id = t.id => s = t)'
      BY <2>2, <3>1, <3>2, SchedulingKeeps
    <3>4. body = "running" /\ tkn' = None /\ call' \in Calls
      BY <2>4 DEF HandlerCompletes, EnvironmentInv, TypeOK, Caller, Calls, Idle
    <3> QED BY <2>1, <2>4, <3>3, <3>4 DEF HandlerCompletes, EnvironmentInv, TypeOK
  <2>5. ASSUME NEW l \in program.latencies, NEW p \in program.priorities,
               NEW k \in program.kinds, BodySchedules(k, l, p)
        PROVE  EnvironmentInv'
    <3>1. p \in Priorities /\ k \in {Wakeup, Handled, Done} /\ precision' = precision
      BY <2>1, <2>5, ProgramFacts DEF BodySchedules
    <3>2. ScheduleToken(k, now + l, p) /\ k \in TokenKind
      BY <2>5, <3>1, KindFacts DEF BodySchedules
    <3>3. /\ queue' \in Seq(Token) /\ used' = TRUE /\ disturbed' \subseteq Int
          /\ OnePrecision' /\ Distinct(queue)'
          /\ (\A s, t \in Pending : s.id = t.id => s = t)'
      BY <3>1, <3>2, SchedulingKeeps
    <3> QED BY <2>1, <2>5, <3>3 DEF BodySchedules, EnvironmentInv, TypeOK
  <2>6. ASSUME NEW o \in program.outcomes, BodyReturns(o) PROVE EnvironmentInv'
    <3>1. OnePrecision' /\ Pending' = Pending
      BY <2>1, <2>6 DEF BodyReturns, OnePrecision, Pending
    <3> QED BY <2>1, <2>6, <3>1 DEF BodyReturns, EnvironmentInv, TypeOK
  <2>7. ASSUME NEW k \in program.kinds, NEW p \in program.priorities,
               NEW l \in CompletionLatencies(k), SchedulesCompletion(k, l, p)
        PROVE  EnvironmentInv'
    <3> DEFINE kind == [k EXCEPT !.eptr = (body = "failed")]
    <3>1. p \in Priorities /\ k \in {Wakeup, Handled, Done} /\ precision' = precision
      BY <2>1, <2>7, ProgramFacts DEF SchedulesCompletion
    <3>2. ScheduleToken(kind, now + l, p) /\ kind \in TokenKind
      BY <2>7, <3>1, KindFacts DEF SchedulesCompletion
    <3> HIDE DEF kind
    <3>3. /\ queue' \in Seq(Token) /\ used' = TRUE /\ disturbed' \subseteq Int
          /\ OnePrecision' /\ Distinct(queue)'
          /\ (\A s, t \in Pending : s.id = t.id => s = t)'
      BY <3>1, <3>2, SchedulingKeeps
    <3> QED BY <2>1, <2>7, <3>3 DEF SchedulesCompletion, EnvironmentInv, TypeOK
  <2>8. CASE Step
    <3>1. /\ queue # << >> /\ PQ!Top(queue) \in Token /\ queue' \in Seq(Token)
          /\ Pending' = Pending \ {PQ!Top(queue)} /\ Distinct(queue')
          /\ now' = Latest(PQ!Top(queue).time, now)
          /\ disturbed' = {d \in disturbed : d >= now'}
      BY <2>8, Stepped
    <3>2. OnePrecision' /\ (\A s, t \in Pending : s.id = t.id => s = t)'
      BY <2>1, <2>8, <3>1 DEF OnePrecision, EnvironmentInv, Step
    <3>3. UNCHANGED <<used, precision, body, program>> /\ body = "running"
      BY <2>8 DEF Step, EnvironmentInv
    <3>4. now' \in Int /\ disturbed' \subseteq Int
      BY <2>1, <3>1 DEF TypeOK, Latest, Token
    <3>5. call' \in Calls /\ tkn' \in Token \cup {None} /\ (call' = Idle => tkn' = None)
      <4>1. call \in Calls /\ call # Idle
        BY <2>1, <2>8 DEF TypeOK, Step, MoreToDo, Idle
      <4>2. \/ tkn' = PQ!Top(queue) /\ call' = call
            \/ tkn' = None /\ call' \in {Idle, Caller}
        BY <2>8 DEF Step
      <4> QED BY <3>1, <4>1, <4>2 DEF Caller, Calls, Idle
    <3>6. TypeOK'
      BY <2>1, <3>1, <3>3, <3>4, <3>5 DEF TypeOK
    <3> QED BY <2>1, <3>1, <3>2, <3>3, <3>6 DEF EnvironmentInv
  <2>9. CASE BodyEnds
    <3>1. OnePrecision' /\ Pending' = Pending
      BY <2>1, <2>9 DEF BodyEnds, OnePrecision, Pending
    <3> QED BY <2>1, <2>9, <3>1 DEF BodyEnds, EnvironmentInv, TypeOK, Caller, Calls, Idle
  <2>10. CASE HandlerThrows
    <3>1. OnePrecision' /\ Pending' = Pending
      BY <2>1, <2>10 DEF HandlerThrows, OnePrecision, Pending
    <3> QED BY <2>1, <2>10, <3>1 DEF HandlerThrows, EnvironmentInv, TypeOK, Calls, Idle
  <2>11. CASE HandlerWaits
    <3>1. OnePrecision' /\ Pending' = Pending
      BY <2>1, <2>11 DEF HandlerWaits, OnePrecision, Pending
    <3> QED BY <2>1, <2>11, <3>1 DEF HandlerWaits, EnvironmentInv, TypeOK, Caller, Calls, Idle
  <2>12. ASSUME NEW c \in Calls, Call(c) PROVE EnvironmentInv'
    <3>1. OnePrecision' /\ Pending' = Pending
      BY <2>1, <2>12 DEF Call, OnePrecision, Pending
    <3> QED BY <2>1, <2>12, <3>1 DEF Call, EnvironmentInv, TypeOK
  <2>13. CASE RunReturns
    <3>1. OnePrecision' /\ Pending' = Pending
      BY <2>1, <2>13 DEF RunReturns, OnePrecision, Pending
    <3> QED BY <2>1, <2>13, <3>1 DEF RunReturns, EnvironmentInv, TypeOK, Calls, Idle
  <2>14. CASE RunUntilReturns
    <3>1. OnePrecision' /\ Pending' = Pending
      BY <2>1, <2>14 DEF RunUntilReturns, OnePrecision, Pending
    <3>2. now' \in Int /\ disturbed' \subseteq Int
      <4>1. call.t \in Int
        <5>1. call.fn = "run_until" /\ call \in Calls
          BY <2>1, <2>14 DEF RunUntilReturns, TypeOK
        <5>2. call.t \in Horizons
          BY <5>1 DEF Calls
        <5>3. call.t \in -MaxTime..MaxTime
          BY <5>2, BoundsAssumption DEF BoundsAssumption
        <5> QED BY <5>3
      <4> QED BY <2>1, <2>14, <4>1 DEF RunUntilReturns, TypeOK, Latest
    <3> QED BY <2>1, <2>14, <3>1, <3>2 DEF RunUntilReturns, EnvironmentInv, TypeOK, Calls, Idle
  <2>15. ASSUME NEW p \in Precisions, SetPrecision(p) PROVE EnvironmentInv'
    <3>1. queue = << >> /\ queue' = << >>
      BY <2>1, <2>15 DEF SetPrecision, MayChangePrecision, EnvironmentInv, TypeOK
    <3>2. Pending' = {}
      BY <3>1 DEF Pending
    <3> QED BY <2>1, <2>15, <3>1, <3>2 DEF SetPrecision, EnvironmentInv, TypeOK, OnePrecision
  <2>16. CASE Reset
    <3>1. Pending' = {} /\ queue' \in Seq(Token) /\ Len(queue') = 0
      BY <2>16, EmptySeq DEF Reset, Pending
    <3>2. Distinct(queue')
      BY <3>1 DEF Distinct, DistinctBut
    <3> QED BY <2>1, <2>16, <3>1, <3>2 DEF Reset, EnvironmentInv, TypeOK, OnePrecision
  <2>17. CASE UNCHANGED vars
    <3>1. OnePrecision' /\ Pending' = Pending
      BY <2>1, <2>17 DEF vars, OnePrecision, Pending
    <3> QED BY <2>1, <2>17, <3>1 DEF vars, EnvironmentInv, TypeOK
  <2> QED BY <2>3, <2>4, <2>5, <2>6, <2>7, <2>8, <2>9, <2>10, <2>11, <2>12, <2>13, <2>14,
             <2>15, <2>16, <2>17 DEF Next
<1> QED BY <1>1, <1>2, PTL DEF Spec

(* Tokens, the clock and the calls keep their types; between calls no token  *)
(* is half processed, and an environment that holds tokens is marked used.   *)
THEOREM TypeCorrect == Spec => []TypeOK
BY Invariance, PTL DEF EnvironmentInv

(* No pending token's ticks are ever read in another precision than the one  *)
(* they were counted in, whatever main and the processes do.                 *)
THEOREM OnePrecisionHolds == Spec => []OnePrecision
BY Invariance, PTL DEF EnvironmentInv

-----------------------------------------------------------------------------
(* What holds in addition of a timely program: an exception token is due at  *)
(* once and nothing pending is late, so what TokenComp prefers an exception  *)
(* token to is not due before it, and the queue is a heap for Ahead.         *)
CanFail == "failed" \in program.outcomes

Ahead(D) ==
  {p \in Token \X Token : \/ p[1].time < p[2].time
                          \/ /\ p[1].time = p[2].time
                             /\ p[1].priority <= p[2].priority \/ p[1].time \in D}

TimelyInv ==
  /\ Timely(program)
  /\ CanFail => /\ \A t \in Pending : t.time >= now
                /\ tkn # None => tkn.time = now
  /\ \A t \in Pending : HasPriority(t) => CanFail /\ t.time = now /\ t.time \in disturbed
  /\ disturbed # {} => CanFail
  /\ Heap(queue, Ahead(disturbed))

LEMMA AheadMeans ==
  ASSUME NEW D, NEW s \in Token, NEW t \in Token
  PROVE  <<s, t>> \in Ahead(D) <=>
           \/ s.time < t.time
           \/ s.time = t.time /\ (s.priority <= t.priority \/ s.time \in D)
BY DEF Ahead

LEMMA NumbersOfTokens ==
  ASSUME NEW t \in Token
  PROVE  t.time \in Int /\ t.priority \in Int
BY BoundsAssumption DEF BoundsAssumption, Token

(* The comparator agrees with it where exception tokens come first anyway.   *)
LEMMA AheadOrders ==
  ASSUME NEW T \in SUBSET Token, NEW D,
         \A s, t \in T : HasPriority(t) => t.time \in D /\ t.time <= s.time
  PROVE  Order(T, Ahead(D))
<1>1. ASSUME NEW s \in T, NEW t \in T
      PROVE  /\ TokenComp(s, t) => <<t, s>> \in Ahead(D)
             /\ ~TokenComp(s, t) => <<s, t>> \in Ahead(D)
  <2>1. /\ s.time \in Int /\ s.priority \in Int /\ t.time \in Int /\ t.priority \in Int
        /\ s \in Token /\ t \in Token
    BY NumbersOfTokens
  <2>2. HasPriority(t) => t.time \in D /\ t.time <= s.time
    OBVIOUS
  <2> QED BY <2>1, <2>2, AheadMeans DEF TokenComp
<1>2. ASSUME NEW s \in T, NEW t \in T, NEW u \in T,
             <<s, t>> \in Ahead(D), <<t, u>> \in Ahead(D)
      PROVE  <<s, u>> \in Ahead(D)
  <2>1. /\ s.time \in Int /\ s.priority \in Int /\ t.time \in Int /\ t.priority \in Int
        /\ u.time \in Int /\ u.priority \in Int /\ s \in Token /\ t \in Token /\ u \in Token
    BY NumbersOfTokens
  <2>2. /\ s.time < t.time \/ (s.time = t.time /\ (s.priority <= t.priority \/ s.time \in D))
        /\ t.time < u.time \/ (t.time = u.time /\ (t.priority <= u.priority \/ t.time \in D))
    BY <1>2, <2>1, AheadMeans
  <2>3. s.time < u.time \/ (s.time = u.time /\ (s.priority <= u.priority \/ s.time \in D))
    BY <2>1, <2>2
  <2> QED BY <2>1, <2>3, AheadMeans
<1> QED BY <1>1, <1>2 DEF Order

LEMMA AheadWeakens ==
  ASSUME NEW h \in Seq(Token), NEW D, NEW E, Heap(h, Ahead(D)),
         \A t \in Contents(h) : t.time \in D => t.time \in E
  PROVE  Heap(h, Ahead(E))
<1> SUFFICES ASSUME NEW i \in 2..Len(h) PROVE <<h[i \div 2], h[i]>> \in Ahead(E)
  BY DEF Heap, HeapBut
<1>1. i \in 1..Len(h) /\ i \div 2 \in 1..Len(h) /\ i # 0 /\ i \div 2 # 0
  BY LenProperties
<1>2. h[i \div 2] \in Token /\ h[i] \in Token /\ h[i \div 2] \in Contents(h)
  BY <1>1, LenProperties DEF Contents
<1>3. <<h[i \div 2], h[i]>> \in Ahead(D)
  BY <1>1 DEF Heap, HeapBut
<1> DEFINE s == h[i \div 2]
           t == h[i]
<1> HIDE DEF s, t
<1>4. s.time < t.time \/ (s.time = t.time /\ (s.priority <= t.priority \/ s.time \in D))
  BY <1>2, <1>3, AheadMeans DEF s, t
<1>5. s.time \in D => s.time \in E
  BY <1>2 DEF s
<1>6. <<s, t>> \in Ahead(E)
  BY <1>2, <1>4, <1>5, AheadMeans DEF s, t
<1> QED BY <1>6 DEF s, t

LEMMA SeqOfContents ==
  ASSUME NEW S, NEW T, NEW h \in Seq(S), Contents(h) \subseteq T
  PROVE  h \in Seq(T)
<1>1. Len(h) \in Nat /\ h \in [1..Len(h) -> S]
  BY LenProperties
<1>2. h \in [1..Len(h) -> T]
  BY <1>1 DEF Contents
<1> QED BY <1>1, <1>2, FunctionIsSeq

(* Nothing pending goes before the top of the queue.                         *)
LEMMA TopIsFirst ==
  ASSUME EnvironmentInv, TimelyInv, queue # << >>
  PROVE  /\ PQ!Top(queue) \in Pending /\ PQ!Top(queue) \in Token
         /\ \A t \in Pending : /\ <<PQ!Top(queue), t>> \in Ahead(disturbed)
                               /\ t \in Token /\ t.time \in Int /\ PQ!Top(queue).time <= t.time
<1>1. queue \in Seq(Token) /\ now \in Int
  BY DEF EnvironmentInv, TypeOK
<1>2. Pending = Contents(queue)
  BY <1>1, PendingContents DEF Pending
<1>3. Pending \subseteq Token
  BY <1>1, <1>2, LenProperties DEF Contents
<1>4. Order(Pending, Ahead(disturbed))
  BY <1>3, AheadOrders DEF TimelyInv
<1>5. queue \in Seq(Pending) /\ Heap(queue, Ahead(disturbed))
  BY <1>1, <1>2, SeqOfContents DEF TimelyInv
<1>6. PQ!Top(queue) \in Pending /\ \A t \in Pending : <<PQ!Top(queue), t>> \in Ahead(disturbed)
  BY <1>2, <1>4, <1>5, TopFirst
<1>7. ASSUME NEW t \in Pending
      PROVE  t \in Token /\ t.time \in Int /\ PQ!Top(queue).time <= t.time
  <2> DEFINE top == PQ!Top(queue)
  <2>1. top \in Token /\ t \in Token /\ <<top, t>> \in Ahead(disturbed)
    BY <1>3, <1>6
  <2> HIDE DEF top
  <2>2. top.time \in Int /\ t.time \in Int
    BY <2>1, NumbersOfTokens
  <2>3. top.time < t.time \/ top.time = t.time
    BY <2>1, AheadMeans
  <2> QED BY <2>1, <2>2, <2>3 DEF top
<1> QED BY <1>3, <1>6, <1>7

(* Scheduling keeps it, when what is scheduled is not late.                  *)
LEMMA SchedulingTimely ==
  ASSUME EnvironmentInv, TimelyInv, UNCHANGED <<now, precision, program>>,
         NEW kind \in TokenKind, NEW time, NEW priority \in Priorities,
         ScheduleToken(kind, time, priority),
         CanFail => time >= now,
         HasPriority(kind) => CanFail /\ time = now,
         CanFail /\ tkn' # None => tkn'.time = now
  PROVE  TimelyInv'
<1>0. now' = now /\ precision' = precision /\ program' = program
  OBVIOUS
<1>1. PICK v \in Token : Adds(v, kind, time, priority)
  BY <1>0, Scheduled
<1>2. /\ v.time = time /\ (HasPriority(v) <=> HasPriority(kind))
       /\ queue' = PQ!Push(queue, v) /\ queue' \in Seq(Token)
       /\ Pending' = Pending \cup {v}
       /\ disturbed' = disturbed \cup (IF HasPriority(v) THEN {v.time} ELSE {})
  BY <1>1 DEF Adds
<1>3. queue \in Seq(Token) /\ now \in Int
  BY DEF EnvironmentInv, TypeOK
<1>4. Pending = Contents(queue) /\ Pending \subseteq Token
  BY <1>3, PendingContents, LenProperties DEF Pending, Contents
<1>5. CanFail' <=> CanFail
  BY DEF CanFail
<1>6. \A t \in Pending' : t \in Token /\ (CanFail => t.time >= now)
  BY <1>2, <1>4 DEF TimelyInv
<1>7. \A t \in Pending' : HasPriority(t) => CanFail /\ t.time = now /\ t.time \in disturbed'
  BY <1>2 DEF TimelyInv
<1>8. Heap(queue', Ahead(disturbed'))
  <2>1. Order(Pending', Ahead(disturbed'))
    <3>1. Pending' \in SUBSET Token
      BY <1>6
    <3>2. \A s, t \in Pending' : HasPriority(t) => t.time \in disturbed' /\ t.time <= s.time
      BY <1>3, <1>6, <1>7, NumbersOfTokens
    <3> QED BY <3>1, <3>2, AheadOrders
  <2>2. Heap(queue, Ahead(disturbed'))
    <3>1. Heap(queue, Ahead(disturbed))
      BY DEF TimelyInv
    <3> QED BY <1>2, <1>3, <3>1, AheadWeakens
  <2>3. queue \in Seq(Pending') /\ v \in Pending'
    BY <1>2, <1>3, <1>4, SeqOfContents
  <2> QED BY <1>2, <2>1, <2>2, <2>3, PushFacts
<1>9. disturbed' # {} => CanFail
  BY <1>2 DEF TimelyInv
<1> QED BY <1>5, <1>6, <1>7, <1>8, <1>9 DEF TimelyInv

LEMMA TimelyStep ==
  ASSUME EnvironmentInv, TimelyInv, Step
  PROVE  TimelyInv'
<1> DEFINE top == PQ!Top(queue)
<1>1. /\ queue # << >> /\ queue' = PQ!Pop(queue) /\ queue' \in Seq(Token)
      /\ top \in Pending /\ top \in Token
      /\ Pending' = Pending \ {top}
      /\ now' = Latest(top.time, now)
      /\ disturbed' = {d \in disturbed : d >= now'}
  BY Stepped
<1>2. \A t \in Pending : t \in Token /\ t.time \in Int /\ top.time <= t.time
  BY <1>1, TopIsFirst
<1>3. queue \in Seq(Token) /\ now \in Int /\ Distinct(queue) /\ disturbed \subseteq Int
  BY DEF EnvironmentInv, TypeOK
<1>4. program' = program /\ (CanFail' <=> CanFail)
  BY DEF Step, CanFail
<1>5. tkn' = None \/ tkn' = top
  BY DEF Step
<1> HIDE DEF top
<1>6. top.time \in Int
  BY <1>1, <1>2
<1>7. CanFail => now' = top.time
  BY <1>1, <1>3, <1>6 DEF TimelyInv, Latest
<1>8. \A t \in Pending' : HasPriority(t) => CanFail /\ t.time = now' /\ t.time \in disturbed'
  BY <1>1, <1>2, <1>3, <1>6, <1>7 DEF TimelyInv
<1>9. CanFail => /\ \A t \in Pending' : t.time >= now'
                 /\ tkn' # None => tkn'.time = now'
  BY <1>1, <1>2, <1>5, <1>6, <1>7
<1>10. disturbed' # {} => CanFail
  BY <1>1 DEF TimelyInv
<1>11. Heap(queue', Ahead(disturbed'))
  <2>1. Pending = Contents(queue) /\ Pending' = Contents(queue')
    BY <1>1, <1>3, PendingContents DEF Pending
  <2>2. Order(Pending, Ahead(disturbed))
    <3>1. Pending \in SUBSET Token
      BY <1>2
    <3>2. \A s, t \in Pending : HasPriority(t) => t.time \in disturbed /\ t.time <= s.time
      BY <1>2, <1>3 DEF TimelyInv
    <3> QED BY <3>1, <3>2, AheadOrders
  <2>3. queue \in Seq(Pending) /\ Heap(queue, Ahead(disturbed))
    BY <1>3, <2>1, SeqOfContents DEF TimelyInv
  <2>4. Heap(queue', Ahead(disturbed))
    BY <1>1, <1>3, <2>2, <2>3, PopFacts
  <2>5. \A t \in Contents(queue') : t.time \in disturbed => t.time \in disturbed'
    BY <1>1, <1>2, <1>6, <1>7, <2>1 DEF TimelyInv
  <2> QED BY <1>1, <2>4, <2>5, AheadWeakens
<1> QED BY <1>4, <1>8, <1>9, <1>10, <1>11 DEF TimelyInv

(* When run_until returns, what is pending is later than its horizon.        *)
LEMMA RunUntilLeaves ==
  ASSUME EnvironmentInv, TimelyInv, RunUntilReturns
  PROVE  call.t \in Horizons /\ call.t \in Int /\ \A t \in Pending : t.time \in Int /\ t.time > call.t
<1>1. call.fn = "run_until" /\ call \in Calls /\ ~MoreToDo
  BY DEF RunUntilReturns, EnvironmentInv, TypeOK
<1>2. call.t \in Horizons
  BY <1>1 DEF Calls
<1>3. call.t \in -MaxTime..MaxTime
  BY <1>2, BoundsAssumption DEF BoundsAssumption
<1>4. ASSUME NEW t \in Pending PROVE t.time \in Int /\ t.time > call.t
  <2>1. queue # << >>
    BY <1>4 DEF Pending
  <2>2. ~(PQ!Top(queue).time <= call.t)
    BY <1>1, <2>1 DEF MoreToDo
  <2>3. /\ PQ!Top(queue).time \in Int /\ t.time \in Int
        /\ PQ!Top(queue).time <= t.time
    BY <2>1, TopIsFirst
  <2> QED BY <1>3, <2>2, <2>3
<1> QED BY <1>2, <1>3, <1>4

LEMMA TimelyInvariance ==
  ASSUME \A p \in Programs : Timely(p)
  PROVE  Spec => []TimelyInv
<1>1. Init => TimelyInv
  <2> SUFFICES ASSUME Init PROVE TimelyInv
    OBVIOUS
  <2>1. Pending = {} /\ Len(queue) = 0
    BY EmptySeq DEF Init, Pending
  <2>2. Heap(queue, Ahead(disturbed))
    BY <2>1 DEF Heap, HeapBut
  <2> QED BY <2>1, <2>2 DEF TimelyInv, Init
<1>2. EnvironmentInv /\ TimelyInv /\ [Next]_vars => TimelyInv'
  <2> SUFFICES ASSUME EnvironmentInv, TimelyInv, [Next]_vars PROVE TimelyInv'
    OBVIOUS
  <2>1. TypeOK /\ Timely(program) /\ now \in Int
    BY DEF EnvironmentInv, TypeOK, TimelyInv
  <2>2. ASSUME NEW l \in program.latencies
        PROVE  l \in Int /\ (CanFail => now + l >= now)
    BY <2>1, <2>2, ProgramFacts DEF Timely, CanFail
  <2>3. Wakeup \in TokenKind /\ ~HasPriority(Wakeup)
    BY KindFacts
  <2>4. CanFail /\ tkn # None => tkn.time = now
    BY DEF TimelyInv
  <2>5. ASSUME NEW l \in program.latencies, NEW p \in program.priorities, Bind(l, p)
        PROVE  TimelyInv'
    <3>1. /\ p \in Priorities /\ UNCHANGED <<now, precision, program>> /\ tkn' = tkn
          /\ ScheduleToken(Wakeup, now + l, p)
      BY <2>1, <2>5, ProgramFacts DEF Bind
    <3> QED BY <2>2, <2>3, <2>4, <3>1, SchedulingTimely
  <2>6. ASSUME NEW l \in program.latencies, NEW p \in program.priorities,
               NEW k \in program.kinds, HandlerCompletes(k, l, p)
        PROVE  TimelyInv'
    <3>1. /\ p \in Priorities /\ UNCHANGED <<now, precision, program>> /\ tkn' = None
          /\ ScheduleToken(k, tkn.time + l, p) /\ k \in {Wakeup, Handled, Done} /\ tkn # None
      BY <2>1, <2>6, ProgramFacts DEF HandlerCompletes
    <3>2. CanFail => tkn.time + l >= now
      BY <2>2, <2>4, <3>1
    <3>3. k \in TokenKind /\ ~HasPriority(k)
      BY <3>1, KindFacts
    <3> QED BY <3>1, <3>2, <3>3, SchedulingTimely
  <2>7. ASSUME NEW l \in program.latencies, NEW p \in program.priorities,
               NEW k \in program.kinds, BodySchedules(k, l, p)
        PROVE  TimelyInv'
    <3>1. /\ p \in Priorities /\ UNCHANGED <<now, precision, program>> /\ tkn' = tkn
          /\ ScheduleToken(k, now + l, p) /\ k \in {Wakeup, Handled, Done}
      BY <2>1, <2>7, ProgramFacts DEF BodySchedules
    <3>2. k \in TokenKind /\ ~HasPriority(k)
      BY <3>1, KindFacts
    <3> QED BY <2>2, <2>4, <3>1, <3>2, SchedulingTimely
  <2>8. ASSUME NEW k \in program.kinds, NEW p \in program.priorities,
               NEW l \in CompletionLatencies(k), SchedulesCompletion(k, l, p)
        PROVE  TimelyInv'
    <3> DEFINE kind == [k EXCEPT !.eptr = (body = "failed")]
    <3>1. /\ p \in Priorities /\ UNCHANGED <<now, precision, program>> /\ tkn' = tkn
          /\ ScheduleToken(kind, now + l, p) /\ k \in {Wakeup, Handled, Done}
      BY <2>1, <2>8, ProgramFacts DEF SchedulesCompletion
    <3>2. kind \in TokenKind /\ (HasPriority(kind) <=> k = Done /\ body = "failed")
      BY <3>1, KindFacts
    <3> HIDE DEF kind
    <3>3. body = "failed" => CanFail
      BY <2>1 DEF TypeOK, CanFail
    <3>4. CASE k = Done /\ body = "failed"
      <4>1. CanFail /\ l = 0
        BY <2>1, <3>3, <3>4 DEF CompletionLatencies, Timely, CanFail
      <4>2. now + l = now
        BY <2>1, <4>1
      <4> QED BY <2>1, <2>4, <3>1, <3>2, <4>1, <4>2, SchedulingTimely
    <3>5. CASE ~(k = Done /\ body = "failed")
      <4>1. l \in program.latencies
        BY <3>5 DEF CompletionLatencies
      <4> QED BY <2>2, <2>4, <3>1, <3>2, <3>5, <4>1, SchedulingTimely
    <3> QED BY <3>4, <3>5
  <2>9. CASE Step
    BY <2>9, TimelyStep
  <2>10. CASE RunUntilReturns
    <3>1. \A t \in Pending : t.time \in Int /\ t.time > call.t
      BY <2>10, RunUntilLeaves
    <3>2. /\ queue' = queue /\ Pending' = Pending /\ tkn' = None
          /\ program' = program /\ (CanFail' <=> CanFail)
          /\ now' = Latest(now, call.t) /\ disturbed' = {d \in disturbed : d >= now'}
      BY <2>10 DEF RunUntilReturns, Pending, CanFail
    <3>3. call.t \in Int
      BY <2>10, RunUntilLeaves
    <3>4. \A t \in Pending : CanFail => t.time >= now'
      BY <2>1, <3>1, <3>2, <3>3 DEF TimelyInv, Latest
    <3>5. \A t \in Pending : HasPriority(t) => CanFail /\ t.time = now' /\ t.time \in disturbed'
      BY <2>1, <3>1, <3>2, <3>3 DEF TimelyInv, Latest
    <3>6. Heap(queue, Ahead(disturbed'))
      <4>1. queue \in Seq(Token) /\ disturbed \subseteq Int
        BY <2>1 DEF TypeOK
      <4>2. Pending = Contents(queue)
        BY <4>1, PendingContents DEF Pending
      <4>3. \A t \in Contents(queue) : t.time \in disturbed => t.time \in disturbed'
        BY <3>2, <3>4, <4>2 DEF TimelyInv
      <4> QED BY <4>1, <4>3, AheadWeakens DEF TimelyInv
    <3>7. disturbed' # {} => CanFail
      BY <3>2 DEF TimelyInv
    <3> QED BY <3>2, <3>4, <3>5, <3>6, <3>7 DEF TimelyInv
  <2>11. CASE Reset
    <3>1. queue' = << >> /\ Pending' = {} /\ disturbed' = {} /\ tkn' = None /\ program' = program
      BY <2>1, <2>11 DEF Reset, Pending, TypeOK
    <3>2. Heap(queue', Ahead(disturbed'))
      BY <3>1, EmptySeq DEF Heap, HeapBut
    <3> QED BY <2>1, <3>1, <3>2 DEF TimelyInv
  <2>12. ASSUME UNCHANGED <<now, queue, program, disturbed>>, tkn' \in {tkn, None}
         PROVE  TimelyInv'
    BY <2>12 DEF TimelyInv, CanFail, Pending
  <2>13. ASSUME NEW o \in program.outcomes, BodyReturns(o) PROVE TimelyInv'
    BY <2>12, <2>13 DEF BodyReturns
  <2>14. CASE BodyEnds
    BY <2>12, <2>14 DEF BodyEnds
  <2>15. CASE HandlerThrows
    BY <2>12, <2>15 DEF HandlerThrows
  <2>16. CASE HandlerWaits
    BY <2>12, <2>16 DEF HandlerWaits
  <2>17. ASSUME NEW c \in Calls, Call(c) PROVE TimelyInv'
    BY <2>12, <2>17 DEF Call
  <2>18. CASE RunReturns
    BY <2>12, <2>18 DEF RunReturns
  <2>19. ASSUME NEW p \in Precisions, SetPrecision(p) PROVE TimelyInv'
    BY <2>12, <2>19 DEF SetPrecision
  <2>20. CASE UNCHANGED vars
    BY <2>12, <2>20 DEF vars
  <2> QED BY <2>5, <2>6, <2>7, <2>8, <2>9, <2>10, <2>11, <2>13, <2>14, <2>15, <2>16, <2>17,
             <2>18, <2>19, <2>20 DEF Next
<1> QED BY <1>1, <1>2, Invariance, PTL DEF Spec

(* In a timely program run_until(t) returns only when all that was due by t  *)
(* has been executed, with the clock at t or later.                          *)
THEOREM RunUntilCompleteHolds ==
  ASSUME \A p \in Programs : Timely(p)
  PROVE  Spec => RunUntilComplete
<1> DEFINE Complete ==
      call.fn = "run_until" /\ tkn = None /\ call' = Idle /\ queue' = queue
      => /\ now' >= call.t
         /\ \A i \in DOMAIN queue : queue[i].time > call.t
<1>1. EnvironmentInv /\ TimelyInv /\ [Next]_vars => [Complete]_vars
  <2> SUFFICES ASSUME EnvironmentInv, TimelyInv, Next,
                      call.fn = "run_until", tkn = None, call' = Idle, queue' = queue
               PROVE  now' >= call.t /\ \A i \in DOMAIN queue : queue[i].time > call.t
    OBVIOUS
  <2>1. call # Idle /\ body = "running" /\ now \in Int
    BY DEF Idle, EnvironmentInv, TypeOK
  <2>2. ~Step
    <3> SUFFICES ASSUME Step PROVE FALSE
      OBVIOUS
    <3>1. PQ!Top(queue) \in Pending /\ Pending' = Pending \ {PQ!Top(queue)}
      BY Stepped
    <3>2. Pending' = Pending
      BY DEF Pending
    <3> QED BY <3>1, <3>2
  <2>3. RunUntilReturns
    BY <2>1, <2>2 DEF Next, Bind, HandlerCompletes, BodySchedules, BodyReturns, SchedulesCompletion,
       BodyEnds, HandlerThrows, HandlerWaits, Call, RunReturns, SetPrecision, Reset
  <2>4. /\ call.t \in Int /\ \A t \in Pending : t.time > call.t
        /\ now' = Latest(now, call.t)
    BY <2>3, RunUntilLeaves DEF RunUntilReturns
  <2>5. now' >= call.t
    BY <2>1, <2>4 DEF Latest
  <2> QED BY <2>4, <2>5 DEF Pending
<1> QED BY <1>1, Invariance, TimelyInvariance, PTL DEF Spec, RunUntilComplete

-----------------------------------------------------------------------------
(* The loops of a timely program implement EventLoop.                        *)
EventOf(t) == [id |-> t.id, time |-> t.time, priority |-> t.priority, throws |-> HasPriority(t)]
Events == {EventOf(t) : t \in Pending}

LEMMA SchedulesEvent ==
  ASSUME EnvironmentInv, precision' = precision, now' = now,
         NEW kind \in TokenKind, NEW time, NEW priority \in Priorities,
         ScheduleToken(kind, time, priority)
  PROVE  Loop!Next
<1>1. PICK v \in Token : Adds(v, kind, time, priority)
  BY Scheduled
<1> DEFINE e == EventOf(v)
<1>2. v.time \in -MaxTime..MaxTime
  BY <1>1 DEF Adds, ScheduleToken
<1>3. e \in Loop!Event
  BY <1>2 DEF EventOf, Loop!Event, Token, HasPriority
<1>4. \A f \in Events : f.id # e.id
  BY <1>1 DEF Adds, Events, EventOf
<1>5. Events' = Events \cup {e}
  BY <1>1 DEF Adds, Events, EventOf
<1>6. disturbed' = disturbed \cup (IF e.throws THEN {e.time} ELSE {})
  BY <1>1 DEF Adds, EventOf
<1> HIDE DEF e
<1>7. Loop!Schedule(e)
  BY <1>4, <1>5, <1>6 DEF Loop!Schedule, Events, EventOf
<1> QED BY <1>3, <1>7 DEF Loop!Next

LEMMA ExecutesEvent ==
  ASSUME EnvironmentInv, TimelyInv, Step
  PROVE  Loop!Next
<1> DEFINE top == PQ!Top(queue)
<1>1. /\ queue # << >> /\ top \in Pending /\ top \in Token
      /\ Pending' = Pending \ {top}
      /\ now' = Latest(top.time, now)
      /\ disturbed' = {d \in disturbed : d >= now'}
  BY Stepped
<1>2. \A t \in Pending : <<top, t>> \in Ahead(disturbed) /\ t \in Token /\ t.time \in Int
  BY <1>1, TopIsFirst
<1>3. now \in Int /\ \A s, t \in Pending : s.id = t.id => s = t
  BY DEF EnvironmentInv, TypeOK
<1> HIDE DEF top
<1>4. PICK e \in Events : e = EventOf(top)
  BY <1>1 DEF Events
<1>5. e.time = top.time /\ e.priority = top.priority /\ e.time \in Int
  BY <1>1, <1>2, <1>4 DEF EventOf
<1>6. \A f \in Events : Loop!Goes(e, f)
  <2> SUFFICES ASSUME NEW t \in Pending PROVE Loop!Goes(e, EventOf(t))
    BY DEF Events
  <2>1. t \in Token /\ <<top, t>> \in Ahead(disturbed)
    BY <1>2
  <2>2. /\ top.time \in Int /\ top.priority \in Int /\ t.time \in Int /\ t.priority \in Int
    BY <1>1, <2>1, NumbersOfTokens
  <2>3. \/ top.time < t.time
        \/ top.time = t.time /\ (top.priority <= t.priority \/ top.time \in disturbed)
    BY <1>1, <2>1, AheadMeans
  <2> QED BY <1>5, <2>2, <2>3 DEF Loop!Goes, Loop!Tie, EventOf
<1>7. Events' = Events \ {e}
  <2>1. \A t \in Pending : EventOf(t) = e => t = top
    BY <1>1, <1>3, <1>4 DEF EventOf
  <2>2. Events' = {EventOf(t) : t \in Pending \ {top}}
    BY <1>1 DEF Events, EventOf
  <2> QED BY <1>1, <1>4, <2>1, <2>2 DEF Events
<1>8. now' = Loop!Later(now, e.time)
  BY <1>1, <1>3, <1>5 DEF Latest, Loop!Later
<1>9. Loop!Execute(e)
  BY <1>1, <1>6, <1>7, <1>8 DEF Loop!Execute, Loop!Minimal, Loop!MoveTo, Events, EventOf
<1>10. \E f \in Events : Loop!Execute(f)
  BY <1>4, <1>9
<1> QED BY <1>10 DEF Loop!Next, Events, EventOf

LEMMA AdvancesTime ==
  ASSUME EnvironmentInv, TimelyInv, RunUntilReturns
  PROVE  Loop!Next
<1>1. /\ call.t \in Horizons /\ call.t \in Int
      /\ \A t \in Pending : t.time > call.t
  BY RunUntilLeaves
<1>2. call.t \in -MaxTime..MaxTime
  BY <1>1, BoundsAssumption DEF BoundsAssumption
<1>3. now' = Latest(now, call.t) /\ disturbed' = {d \in disturbed : d >= now'} /\ Events' = Events
  BY DEF RunUntilReturns, Events, Pending, EventOf
<1>4. \A f \in Events : f.time > call.t
  BY <1>1 DEF Events, EventOf
<1>5. Loop!AdvanceTo(call.t)
  BY <1>3, <1>4 DEF Loop!AdvanceTo, Loop!MoveTo, Loop!Later, Latest, Events, EventOf
<1> QED BY <1>2, <1>5 DEF Loop!Next

(* The heap of a timely program, for all that its comparator is no strict    *)
(* weak order, gives out tokens in the order an event loop promises: by time,*)
(* then by priority where no exception disturbed it, each once.              *)
THEOREM ImplementsEventLoop ==
  ASSUME \A p \in Programs : Timely(p)
  PROVE  Spec => LoopSpec
<1>1. Init => Loop!Init
  BY DEF Init, Loop!Init, Pending
<1>2. EnvironmentInv /\ TimelyInv /\ [Next]_vars => [Loop!Next]_Loop!vars
  <2> SUFFICES ASSUME EnvironmentInv, TimelyInv, [Next]_vars PROVE [Loop!Next]_Loop!vars
    OBVIOUS
  <2>1. TypeOK /\ Wakeup \in TokenKind
    BY KindFacts DEF EnvironmentInv
  <2>2. ASSUME NEW l \in program.latencies, NEW p \in program.priorities, Bind(l, p)
        PROVE  Loop!Next
    <3>1. /\ p \in Priorities /\ now' = now /\ precision' = precision
          /\ ScheduleToken(Wakeup, now + l, p)
      BY <2>1, <2>2, ProgramFacts DEF Bind
    <3> QED BY <2>1, <3>1, SchedulesEvent
  <2>3. ASSUME NEW l \in program.latencies, NEW p \in program.priorities,
               NEW k \in program.kinds, HandlerCompletes(k, l, p)
        PROVE  Loop!Next
    <3>1. /\ p \in Priorities /\ now' = now /\ precision' = precision
          /\ ScheduleToken(k, tkn.time + l, p) /\ k \in {Wakeup, Handled, Done}
      BY <2>1, <2>3, ProgramFacts DEF HandlerCompletes
    <3> QED BY <3>1, KindFacts, SchedulesEvent
  <2>4. ASSUME NEW l \in program.latencies, NEW p \in program.priorities,
               NEW k \in program.kinds, BodySchedules(k, l, p)
        PROVE  Loop!Next
    <3>1. /\ p \in Priorities /\ now' = now /\ precision' = precision
          /\ ScheduleToken(k, now + l, p) /\ k \in {Wakeup, Handled, Done}
      BY <2>1, <2>4, ProgramFacts DEF BodySchedules
    <3> QED BY <3>1, KindFacts, SchedulesEvent
  <2>5. ASSUME NEW k \in program.kinds, NEW p \in program.priorities,
               NEW l \in CompletionLatencies(k), SchedulesCompletion(k, l, p)
        PROVE  Loop!Next
    <3> DEFINE kind == [k EXCEPT !.eptr = (body = "failed")]
    <3>1. /\ p \in Priorities /\ now' = now /\ precision' = precision
          /\ ScheduleToken(kind, now + l, p) /\ k \in {Wakeup, Handled, Done}
      BY <2>1, <2>5, ProgramFacts DEF SchedulesCompletion
    <3>2. kind \in TokenKind
      BY <3>1, KindFacts
    <3> HIDE DEF kind
    <3> QED BY <3>1, <3>2, SchedulesEvent
  <2>6. CASE Step
    BY <2>6, ExecutesEvent
  <2>7. CASE RunUntilReturns
    BY <2>7, AdvancesTime
  <2>8. CASE Reset
    <3>1. now' = 0 /\ Events' = {} /\ disturbed' = {}
      BY <2>8 DEF Reset, Events, Pending
    <3>2. Loop!Clear
      BY <3>1 DEF Loop!Clear, Events, EventOf
    <3> QED BY <3>2 DEF Loop!Next
  <2>9. ASSUME UNCHANGED <<now, queue, disturbed>> PROVE UNCHANGED Loop!vars
    BY <2>9 DEF Loop!vars, Pending
  <2>10. ASSUME NEW o \in program.outcomes, BodyReturns(o) PROVE UNCHANGED Loop!vars
    BY <2>9, <2>10 DEF BodyReturns
  <2>11. CASE BodyEnds
    BY <2>9, <2>11 DEF BodyEnds
  <2>12. CASE HandlerThrows
    BY <2>9, <2>12 DEF HandlerThrows
  <2>13. CASE HandlerWaits
    BY <2>9, <2>13 DEF HandlerWaits
  <2>14. ASSUME NEW c \in Calls, Call(c) PROVE UNCHANGED Loop!vars
    BY <2>9, <2>14 DEF Call
  <2>15. CASE RunReturns
    BY <2>9, <2>15 DEF RunReturns
  <2>16. ASSUME NEW p \in Precisions, SetPrecision(p) PROVE UNCHANGED Loop!vars
    BY <2>9, <2>16 DEF SetPrecision
  <2>17. CASE UNCHANGED vars
    BY <2>9, <2>17 DEF vars
  <2> QED BY <2>2, <2>3, <2>4, <2>5, <2>6, <2>7, <2>8, <2>10, <2>11, <2>12, <2>13, <2>14,
             <2>15, <2>16, <2>17 DEF Next
<1> QED BY <1>1, <1>2, Invariance, TimelyInvariance, PTL DEF Spec, LoopSpec, Loop!Spec

(* What the event loop promises of itself.  Its times:                       *)
Ticks == -MaxTime..MaxTime

LEMMA ClockTypes ==
  /\ Ticks \subseteq Int /\ 0 \in Ticks
  /\ \A a, b \in Ticks : Loop!Later(a, b) \in Ticks
BY BoundsAssumption DEF BoundsAssumption, Ticks, Loop!Later

(* Its clock and its pending events keep their types.                        *)
THEOREM EventLoopTypes == Loop!Spec => []Loop!TypeOK
<1> USE DEF Events, EventOf
<1>1. Loop!Init => Loop!TypeOK
  BY ClockTypes DEF Loop!Init, Loop!TypeOK, Ticks
<1>2. Loop!TypeOK /\ [Loop!Next]_Loop!vars => Loop!TypeOK'
  <2> SUFFICES ASSUME Loop!TypeOK, [Loop!Next]_Loop!vars PROVE Loop!TypeOK'
    OBVIOUS
  <2>0. now \in Ticks /\ Events \subseteq Loop!Event /\ disturbed \subseteq Ticks
    BY DEF Loop!TypeOK, Ticks
  <2>1. ASSUME NEW e \in Loop!Event, Loop!Schedule(e) PROVE Loop!TypeOK'
    <3>1. e.time \in Ticks
      BY DEF Loop!Event, Ticks
    <3> QED
      BY <2>0, <2>1, <3>1 DEF Loop!Schedule, Loop!TypeOK, Ticks
  <2>2. ASSUME NEW e \in Events, Loop!Execute(e) PROVE Loop!TypeOK'
    <3>1. Loop!Later(now, e.time) \in Ticks
      BY <2>0, ClockTypes DEF Loop!Event, Ticks
    <3> QED
      BY <2>0, <2>2, <3>1 DEF Loop!Execute, Loop!MoveTo, Loop!TypeOK, Ticks
  <2>3. ASSUME NEW t \in Ticks, Loop!AdvanceTo(t) PROVE Loop!TypeOK'
    BY <2>0, <2>3, ClockTypes DEF Loop!AdvanceTo, Loop!MoveTo, Loop!TypeOK, Ticks
  <2>4. CASE Loop!Clear
    BY <2>4, ClockTypes DEF Loop!Clear, Loop!TypeOK, Ticks
  <2>5. CASE UNCHANGED Loop!vars
    BY <2>5 DEF Loop!vars, Loop!TypeOK
  <2> QED
    BY <2>1, <2>2, <2>3, <2>4, <2>5 DEF Loop!Next, Ticks
<1> QED
  BY <1>1, <1>2, PTL DEF Loop!Spec

(* Executing, advancing, scheduling or clearing, the event loop never runs   *)
(* past an event that it leaves pending and that is not late already.        *)
THEOREM EventLoopNeverRunsPast == Loop!Spec => Loop!NeverRunsPast
<1> DEFINE Past == \A e \in Events \cap Events' : now' <= Loop!Later(now, e.time)
<1> USE DEF Events, EventOf
<1>1. Loop!TypeOK /\ [Loop!Next]_Loop!vars => [Past]_Loop!vars
  <2> SUFFICES ASSUME Loop!TypeOK, Loop!Next, NEW e \in Events, e \in Events'
               PROVE  now' <= Loop!Later(now, e.time)
    OBVIOUS
  <2>1. now \in Int /\ \A f \in Events : f.time \in Int
    BY ClockTypes DEF Loop!TypeOK, Loop!Event, Ticks
  <2>2. ASSUME NEW f \in Loop!Event, Loop!Schedule(f) PROVE now' <= Loop!Later(now, e.time)
    BY <2>1, <2>2 DEF Loop!Schedule, Loop!Later
  <2>3. ASSUME NEW f \in Events, Loop!Execute(f) PROVE now' <= Loop!Later(now, e.time)
    <3>1. Loop!Goes(f, e)
      BY <2>3 DEF Loop!Execute, Loop!Minimal
    <3>2. f.time <= e.time
      BY <2>1, <3>1 DEF Loop!Goes, Loop!Tie
    <3> QED
      BY <2>1, <2>3, <3>2 DEF Loop!Execute, Loop!MoveTo, Loop!Later
  <2>4. ASSUME NEW t \in Ticks, Loop!AdvanceTo(t) PROVE now' <= Loop!Later(now, e.time)
    <3>1. t < e.time /\ t \in Int
      BY <2>4, ClockTypes DEF Loop!AdvanceTo
    <3> QED
      BY <2>1, <2>4, <3>1 DEF Loop!AdvanceTo, Loop!MoveTo, Loop!Later
  <2>5. CASE Loop!Clear
    BY <2>5 DEF Loop!Clear
  <2> QED
    BY <2>2, <2>3, <2>4, <2>5 DEF Loop!Next, Ticks
<1> QED
  BY <1>1, EventLoopTypes, PTL DEF Loop!Spec, Loop!NeverRunsPast

(* So in a timely program no step, and no return of run_until, moves the     *)
(* clock past a token that stays pending, unless the token is late already.  *)
THEOREM NeverRunsPastHolds ==
  ASSUME \A p \in Programs : Timely(p)
  PROVE  Spec => Loop!NeverRunsPast
BY ImplementsEventLoop, EventLoopNeverRunsPast, PTL DEF LoopSpec
==============================================================================
