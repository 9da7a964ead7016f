---------------------------- MODULE TimeoutsProofs ----------------------------
(* Proofs about TimeExpression and Timeouts, for every set of expressions,   *)
(* times, processes, priorities and latencies: what an expression counts, and *)
(* when a process that waits for it goes on.                                 *)
EXTENDS Timeouts, FiniteSetTheorems, TLAPS

-----------------------------------------------------------------------------
(* A set with 0 and, with each number, the next has all naturals: otherwise  *)
(* its members below one that is missing would be as many as those but 0.    *)
LEMMA AllNaturals ==
  ASSUME NEW S, 0 \in S, \A n \in S : n \in Nat => n + 1 \in S
  PROVE  \A n \in Nat : n \in S
<1> SUFFICES ASSUME NEW m \in Nat, m \notin S PROVE FALSE
  OBVIOUS
<1> DEFINE L == {k \in 0..m : k \in S}
           f == [k \in L |-> k + 1]
<1>1. IsFiniteSet(L)
  BY FS_Interval, FS_Subset, 0 \in Int, m \in Int
<1>2. 0 \in L /\ f \in [L -> L \ {0}]
  <2>1. ASSUME NEW k \in L PROVE k + 1 \in L \ {0}
    <3>1. k \in 0..m /\ k \in S
      OBVIOUS
    <3> HIDE DEF L
    <3>2. k \in Nat /\ k + 1 \in S /\ k # m
      BY <3>1
    <3> QED BY <3>1, <3>2 DEF L
  <2> QED BY <2>1
<1>3. IsFiniteSet(L \ {0}) /\ Cardinality(L \ {0}) = Cardinality(L) - 1
  BY <1>1, <1>2, FS_RemoveElement
<1>4. Cardinality(L) \in Nat
  BY <1>1, FS_CardinalityType
<1> HIDE DEF L, f
<1>5. \E x, y \in L : x # y /\ f[x] = f[y]
  BY <1>1, <1>2, <1>3, <1>4, FS_PigeonHole
<1> QED BY <1>5 DEF L, f

-----------------------------------------------------------------------------
(* The recursive definition of Expressions defines what it says: g is its    *)
(* beginning, up to n.                                                       *)
Begins(leaves, g, n) ==
  /\ DOMAIN g = 0..n
  /\ g[0] = leaves
  /\ \A k \in 1..n : g[k] = leaves \cup Over(g[k - 1])

(* There is one up to every n,                                               *)
LEMMA BeginningExists ==
  ASSUME NEW leaves
  PROVE  \A n \in Nat : \E g : Begins(leaves, g, n)
<1> DEFINE S == {n \in Nat : \E g : Begins(leaves, g, n)}
<1>1. 0 \in S
  <2>1. Begins(leaves, [k \in 0..0 |-> leaves], 0)
    BY DEF Begins
  <2> QED BY <2>1
<1>2. ASSUME NEW n \in S PROVE n + 1 \in S
  <2>1. PICK g : Begins(leaves, g, n)
    OBVIOUS
  <2> DEFINE h == [k \in 0..(n + 1) |-> IF k = n + 1 THEN leaves \cup Over(g[n]) ELSE g[k]]
  <2>2. DOMAIN h = 0..(n + 1) /\ h[0] = leaves
    BY <2>1 DEF Begins
  <2>3. ASSUME NEW k \in 1..(n + 1) PROVE h[k] = leaves \cup Over(h[k - 1])
    <3>1. CASE k = n + 1
      <4>1. h[k] = leaves \cup Over(g[n]) /\ k - 1 = n /\ h[n] = g[n]
        BY <3>1
      <4> QED BY <4>1
    <3>2. CASE k # n + 1
      <4>1. k \in 1..n /\ h[k] = g[k] /\ h[k - 1] = g[k - 1]
        BY <3>2
      <4> QED BY <2>1, <4>1 DEF Begins
    <3> QED BY <3>1, <3>2
  <2> HIDE DEF h
  <2>4. Begins(leaves, h, n + 1)
    BY <2>2, <2>3 DEF Begins
  <2> QED BY <2>4
<1> HIDE DEF S
<1>3. \A n \in Nat : n \in S
  BY <1>1, <1>2, AllNaturals
<1> QED BY <1>3 DEF S

(* and two of them agree as far as they both go.                             *)
LEMMA BeginningsAgree ==
  ASSUME NEW leaves, NEW g, NEW m \in Nat, Begins(leaves, g, m),
         NEW h, NEW n \in Nat, Begins(leaves, h, n)
  PROVE  \A k \in Nat : k <= m /\ k <= n => g[k] = h[k]
<1> DEFINE S == {k \in Nat : k <= m /\ k <= n => g[k] = h[k]}
<1>1. 0 \in S
  BY DEF Begins
<1>2. ASSUME NEW k \in S PROVE k + 1 \in S
  <2> SUFFICES ASSUME k + 1 <= m, k + 1 <= n PROVE g[k + 1] = h[k + 1]
    OBVIOUS
  <2>1. k + 1 \in 1..m /\ k + 1 \in 1..n /\ (k + 1) - 1 = k
    OBVIOUS
  <2>2. g[k] = h[k]
    OBVIOUS
  <2>3. g[k + 1] = leaves \cup Over(g[k]) /\ h[k + 1] = leaves \cup Over(h[k])
    BY <2>1 DEF Begins
  <2> QED BY <2>2, <2>3
<1> HIDE DEF S
<1>3. \A k \in Nat : k \in S
  BY <1>1, <1>2, AllNaturals
<1> QED BY <1>3 DEF S

LEMMA ExpressionsUnfold ==
  ASSUME NEW leaves
  PROVE  /\ Expressions(leaves)[0] = leaves
         /\ \A n \in Nat : Expressions(leaves)[n + 1] = leaves \cup Over(Expressions(leaves)[n])
<1> DEFINE G(n) == CHOOSE g : Begins(leaves, g, n)
           f == [n \in Nat |-> G(n)[n]]
           Fits(u) == u = [n \in Nat |-> IF n = 0 THEN leaves ELSE leaves \cup Over(u[n - 1])]
<1>1. \A n \in Nat : Begins(leaves, G(n), n)
  BY BeginningExists
<1>2. f[0] = leaves
  BY <1>1 DEF Begins
<1>3. ASSUME NEW n \in Nat, n # 0 PROVE f[n] = leaves \cup Over(f[n - 1])
  <2>1. n - 1 \in Nat /\ n \in 1..n /\ n - 1 <= n
    BY <1>3
  <2>2. Begins(leaves, G(n), n) /\ Begins(leaves, G(n - 1), n - 1)
    BY <1>1, <2>1
  <2> HIDE DEF G
  <2>3. G(n)[n - 1] = G(n - 1)[n - 1]
    BY <2>1, <2>2, BeginningsAgree
  <2>4. G(n)[n] = leaves \cup Over(G(n)[n - 1])
    BY <2>1, <2>2 DEF Begins
  <2> QED BY <2>1, <2>3, <2>4
<1> HIDE DEF f
<1>4. Fits(f)
  <2>1. f = [n \in Nat |-> f[n]]
    BY DEF f
  <2>2. \A n \in Nat : f[n] = IF n = 0 THEN leaves ELSE leaves \cup Over(f[n - 1])
    BY <1>2, <1>3
  <2> QED BY <2>1, <2>2
<1>5. Expressions(leaves) = CHOOSE u : Fits(u)
  BY DEF Expressions
<1> DEFINE E == Expressions(leaves)
<1> HIDE DEF Fits, E
<1>6. Fits(E)
  BY <1>4, <1>5 DEF E
<1>7. E = [n \in Nat |-> IF n = 0 THEN leaves ELSE leaves \cup Over(E[n - 1])]
  BY <1>6 DEF Fits
<1>8. \A n \in Nat : E[n] = IF n = 0 THEN leaves ELSE leaves \cup Over(E[n - 1])
  BY <1>7
<1>9. E[0] = leaves /\ \A n \in Nat : E[n + 1] = leaves \cup Over(E[n])
  <2>1. \A n \in Nat : n + 1 \in Nat /\ n + 1 # 0 /\ (n + 1) - 1 = n
    OBVIOUS
  <2> QED BY <1>8, <2>1
<1> QED BY <1>9 DEF E

-----------------------------------------------------------------------------
(* What an operator makes tells its operands, so what can be made of A and   *)
(* can be made of B is made of what both have.                               *)
LEMMA OverMeets ==
  ASSUME NEW A, NEW B
  PROVE  Over(A) \cap Over(B) \subseteq Over(A \cap B)
BY DEF Over

LEMMA OverGrows ==
  ASSUME NEW A, NEW B, A \subseteq B
  PROVE  Over(A) \subseteq Over(B)
BY DEF Over

Tree(n) == Expressions(Leaves \cup {Invalid})[n]

(* The time_exprs are in scope, and what is in scope is a tree, with null in *)
(* any place, and so is what a move leaves of it.                            *)
EvaluableInv ==
  /\ Exprs \subseteq DOMAIN exprs
  /\ \A x \in DOMAIN exprs : exprs[x].says \in Trees /\ exprs[x].left \in Trees

LEMMA LeavesAreTrees == Leaves \cup {Invalid} \subseteq Trees
<1>1. CASE MaxNodes = 0
  BY <1>1, ExpressionsUnfold DEF Trees
<1>2. CASE MaxNodes # 0
  <2>1. MaxNodes - 1 \in Nat /\ (MaxNodes - 1) + 1 = MaxNodes
    BY <1>2, MaxNodesAssumption
  <2> QED BY <2>1, ExpressionsUnfold DEF Trees
<1> QED BY <1>1, <1>2

LEMMA InitEvaluable == Init => EvaluableInv
BY LeavesAreTrees DEF Init, EvaluableInv

LEMMA StoreKeepsEvaluable ==
  ASSUME EvaluableInv, NEW x, NEW v, NEW E, DOMAIN E = DOMAIN exprs, Store(x, v, E)
  PROVE  EvaluableInv'
<1>1. Exprs \subseteq DOMAIN exprs'
  BY DEF Store, EvaluableInv
<1> QED BY <1>1 DEF Store, Bounded, EvaluableInv

(* An operand that is taken leaves every name in scope.                      *)
LEMMA AfterDomain ==
  ASSUME NEW E, NEW o
  PROVE  DOMAIN After(E, o) = DOMAIN E
BY DEF After

LEMMA CrashKeepsEvaluable == EvaluableInv /\ Crash => EvaluableInv'
BY DEF Crash, EvaluableInv

LEMMA NextEvaluable == EvaluableInv /\ [Next]_<<exprs, crashed>> => EvaluableInv'
<1> SUFFICES ASSUME EvaluableInv, [Next]_<<exprs, crashed>> PROVE EvaluableInv'
  OBVIOUS
<1>1. ASSUME NEW x, Assign(x) PROVE EvaluableInv'
  BY <1>1, StoreKeepsEvaluable DEF Assign
<1>2. ASSUME NEW x, NEW o, Transfer(x, o) PROVE EvaluableInv'
  BY <1>2, StoreKeepsEvaluable, CrashKeepsEvaluable, AfterDomain DEF Transfer
<1>3. ASSUME NEW x, NEW o, Unary(x, o) PROVE EvaluableInv'
  BY <1>3, StoreKeepsEvaluable, CrashKeepsEvaluable, AfterDomain DEF Unary
<1>4. ASSUME NEW x, NEW l, NEW r, Binary(x, l, r) PROVE EvaluableInv'
  <2> DEFINE E == After(exprs, l)
             F == After(E, r)
  <2>1. DOMAIN F = DOMAIN exprs
    BY AfterDomain
  <2>2. CASE Crash
    BY <2>2, CrashKeepsEvaluable
  <2>3. CASE \E v : Store(x, v, F)
    BY <2>1, <2>3, StoreKeepsEvaluable
  <2> QED BY <1>4, <2>2, <2>3 DEF Binary
<1>5. CASE UNCHANGED <<exprs, crashed>>
  BY <1>5 DEF EvaluableInv
<1> QED BY <1>1, <1>2, <1>3, <1>4, <1>5 DEF Next

(* Whatever the program makes of its expressions, they stay trees that can   *)
(* be counted.                                                               *)
THEOREM EvaluableInvariance == Spec => []EvaluableInv
BY InitEvaluable, NextEvaluable, PTL DEF Spec

(* And so they do in a simulation, whose processes move from them.           *)
LEMMA TakesKeepsEvaluable ==
  ASSUME EvaluableInv, NEW x \in Exprs, NEW how, Takes(x, how)
  PROVE  EvaluableInv'
<1> DEFINE o == [of |-> x, how |-> how]
<1>1. exprs' = IF how = "moved" THEN [exprs EXCEPT ![x].says = exprs[x].left] ELSE exprs
  BY DEF Takes, After
<1>2. CASE how = "moved"
  <2>1. exprs' = [exprs EXCEPT ![x] = [exprs[x] EXCEPT !.says = exprs[x].left]]
    BY <1>1, <1>2
  <2>2. exprs[x].says \in Trees /\ exprs[x].left \in Trees /\ x \in DOMAIN exprs
    BY DEF EvaluableInv
  <2> QED BY <2>1, <2>2 DEF EvaluableInv
<1>3. CASE how # "moved"
  BY <1>1, <1>3 DEF EvaluableInv
<1> QED BY <1>2, <1>3

THEOREM EvaluableInSimulation == TimeoutSpec => []EvaluableInv
<1>1. TimeoutInit => EvaluableInv
  BY InitEvaluable DEF TimeoutInit
<1>2. EvaluableInv /\ [TimeoutNext]_vars => EvaluableInv'
  <2> SUFFICES ASSUME EvaluableInv, [TimeoutNext]_vars PROVE EvaluableInv'
    OBVIOUS
  <2>1. CASE Build
    BY <2>1, NextEvaluable DEF Build
  <2>2. ASSUME NEW c, SetClock(c[1], c[2]) PROVE EvaluableInv'
    BY <2>2 DEF SetClock, EvaluableInv
  <2>3. ASSUME NEW x \in Exprs, NEW how, NEW p, NEW pr,
               Timeout(p, x, how, pr) \/ Until(p, x, how, pr) \/ LazyTimeout(p, x, how, pr)
        PROVE  EvaluableInv'
    BY <2>3, TakesKeepsEvaluable DEF Timeout, Until, LazyTimeout
  <2>4. ASSUME NEW x \in Exprs, NEW how, RunFor(x, how) PROVE EvaluableInv'
    BY <2>4, TakesKeepsEvaluable DEF RunFor
  <2>5. ASSUME NEW x, CopyNull(x) PROVE EvaluableInv'
    BY <2>5, CrashKeepsEvaluable DEF CopyNull
  <2>6. CASE UNCHANGED exprs
    BY <2>6 DEF EvaluableInv
  <2>7. \A p, c, pr, l : Start(p, c, pr, l) \/ Await(p, c, pr, l) => UNCHANGED exprs
    BY DEF Start, Await
  <2>8. \A p : Return(p) \/ AwaitCaptured(p) => UNCHANGED exprs
    BY DEF Return, AwaitCaptured
  <2>9. /\ RunAll => UNCHANGED exprs
        /\ \A e : Step(e) => UNCHANGED exprs
        /\ Returns \/ Stopped \/ UNCHANGED vars => UNCHANGED exprs
    BY DEF RunAll, Step, Returns, Stopped, vars
  <2> QED BY <2>1, <2>2, <2>3, <2>4, <2>5, <2>6, <2>7, <2>8, <2>9 DEF TimeoutNext, Simulation
<1> QED BY <1>1, <1>2, PTL DEF TimeoutSpec

-----------------------------------------------------------------------------
(* Division.                                                                 *)
LEMMA Divides ==
  ASSUME NEW n \in Int, NEW d \in Int, d > 0
  PROVE  /\ n \div d \in Int
         /\ 0 <= n - d * (n \div d) /\ n - d * (n \div d) < d
         /\ n % d = n - d * (n \div d)
<1>1. n \div d \in Int
  OBVIOUS
<1>2. n % d >= 0 /\ n % d < d
  OBVIOUS
<1>3. n % d = n - d * (n \div d)
  OBVIOUS
<1> QED BY <1>1, <1>2, <1>3

(* Less than d, and a multiple of d, is only 0.                              *)
LEMMA SmallMultiple ==
  ASSUME NEW d \in Int, d > 0, NEW z \in Int, Abs(d * z) < d
  PROVE  d * z = 0
<1>1. CASE z >= 1
  <2>1. d * z >= d
    BY <1>1
  <2> QED BY <2>1 DEF Abs
<1>2. CASE z <= -1
  <2>1. d * z <= -d
    BY <1>2
  <2> QED BY <2>1 DEF Abs
<1>3. CASE z = 0
  BY <1>3
<1> QED BY <1>1, <1>2, <1>3

(* A quotient leaves less than the divisor, on the side of 0.                *)
LEMMA QuotientLeaves ==
  ASSUME NEW n \in Int, NEW d \in Int, d # 0
  PROVE  /\ Quotient(n, d) \in Int
         /\ Abs(n - Quotient(n, d) * d) < Abs(d)
         /\ n >= 0 => n - Quotient(n, d) * d >= 0
         /\ n <= 0 => n - Quotient(n, d) * d <= 0
<1> DEFINE q == Abs(n) \div Abs(d)
<1>1. Abs(n) \in Int /\ Abs(d) \in Int /\ Abs(d) > 0 /\ Abs(n) >= 0
  BY DEF Abs
<1>2. q \in Int /\ 0 <= Abs(n) - Abs(d) * q /\ Abs(n) - Abs(d) * q < Abs(d)
  BY <1>1, Divides
<1>3. Quotient(n, d) = IF n * d < 0 THEN -q ELSE q
  BY DEF Quotient
<1> HIDE DEF q
<1>4. CASE n * d < 0
  <2>1. Quotient(n, d) = -q
    BY <1>3, <1>4
  <2>2. CASE n > 0 /\ d < 0
    BY <1>2, <2>1, <2>2 DEF Abs
  <2>3. CASE n < 0 /\ d > 0
    BY <1>2, <2>1, <2>3 DEF Abs
  <2> QED BY <1>4, <2>2, <2>3
<1>5. CASE ~(n * d < 0)
  <2>1. Quotient(n, d) = q
    BY <1>3, <1>5
  <2>2. CASE n >= 0 /\ d > 0
    BY <1>2, <2>1, <2>2 DEF Abs
  <2>3. CASE n <= 0 /\ d < 0
    BY <1>2, <2>1, <2>3 DEF Abs
  <2>4. CASE n = 0
    BY <1>2, <2>1, <2>4 DEF Abs
  <2> QED BY <1>5, <2>2, <2>3, <2>4
<1> QED BY <1>4, <1>5

(* Dividing once, after multiplying by c, is exact up to less than one; so is *)
(* dividing twice.  The reference is scaled by what takes it to ticks, s.    *)
LEMMA OnceDivided ==
  ASSUME NEW t \in Int, NEW T \in Int, T > 0, NEW c \in Int, c > 0, NEW s \in Int, s > 0
  PROVE  /\ Quotient(c * t, T) \in Int
         /\ Abs(t * (c * s) - Quotient(c * t, T) * (T * s)) < T * s
<1>1. c * t \in Int
  OBVIOUS
<1> DEFINE Q == Quotient(c * t, T)
           r == c * t - Q * T
<1>2. Q \in Int /\ Abs(r) < Abs(T)
  BY <1>1, QuotientLeaves
<1> HIDE DEF Q
<1>3. r \in Int /\ t * (c * s) - Q * (T * s) = r * s
  BY <1>2
<1> HIDE DEF r
<1>4. Abs(r * s) < T * s
  BY <1>2, <1>3 DEF Abs
<1> QED BY <1>2, <1>3, <1>4 DEF Q

LEMMA TwiceDivided ==
  ASSUME NEW t \in Int, NEW T \in Int, T > 0, NEW c \in Int, c > 0, NEW s \in Int, s > 0
  PROVE  /\ Quotient(Quotient(t, T), c) \in Int
         /\ Abs(t * s - Quotient(Quotient(t, T), c) * (T * (c * s))) < T * (c * s)
<1> DEFINE Q == Quotient(t, T)
           r == t - Q * T
<1>1. Q \in Int /\ Abs(r) < T
  BY QuotientLeaves DEF Abs
<1> HIDE DEF Q
<1> DEFINE P == Quotient(Q, c)
           w == Q - P * c
<1>2. P \in Int /\ Abs(w) < c
  BY <1>1, QuotientLeaves DEF Abs
<1> HIDE DEF P
<1>3. r \in Int /\ w \in Int /\ t - P * (T * c) = r + w * T
  BY <1>1, <1>2
<1> HIDE DEF r, w
<1>4. -((c - 1) * T) <= w * T /\ w * T <= (c - 1) * T
  BY <1>2, <1>3 DEF Abs
<1>5. Abs(r + w * T) < T * c
  BY <1>1, <1>3, <1>4 DEF Abs
<1>6. t * s - P * (T * (c * s)) = (r + w * T) * s
  <2>1. t * s - P * (T * (c * s)) = (t - P * (T * c)) * s
    BY <1>2
  <2> QED BY <1>3, <2>1
<1>7. T * (c * s) = (T * c) * s
  OBVIOUS
<1> DEFINE v == r + w * T
           z == T * c
<1>8. v \in Int /\ z \in Int /\ Abs(v) < z
  BY <1>3, <1>5
<1> HIDE DEF v, z
<1>9. Abs(v * s) < z * s
  BY <1>8 DEF Abs
<1> QED BY <1>2, <1>6, <1>7, <1>9 DEF P, Q, v, z

(* A time counts what it stands for up to less than one tick, and exactly    *)
(* when that is a whole number of them.                                      *)
LEMMA TimeCounted ==
  ASSUME NEW q \in Time, NEW p \in Precisions,
         NEW n, NEW d, ExactTime(q, p) = <<n, d>>
  PROVE  /\ n \in Int /\ d \in Int /\ d > 0 /\ CountOf(q, p) \in Int
         /\ Abs(n - CountOf(q, p) * d) < d
<1>1. /\ q.t \in Int /\ q.u \in 0..Finest /\ p.t \in Int /\ p.t > 0 /\ p.u \in 0..Finest
      /\ Finest \in Nat
  BY CountsAssumption, FinestAssumption DEF Precisions, Time
<1>2. n = q.t * Conv[Finest - q.u] /\ d = p.t * Conv[Finest - p.u]
  BY DEF ExactTime
<1>3. \A i \in 0..Finest : Conv[i] \in Int /\ Conv[i] > 0
  BY ConvAssumption
<1>a. \A x, y \in 0..Finest : x + y <= Finest => Conv[x + y] = Conv[x] * Conv[y]
  BY ConvAssumption
<1>4. CASE q.u < p.u
  <2> DEFINE j == p.u - q.u
             i == Finest - p.u
  <2>1. i \in 0..Finest /\ j \in 0..Finest /\ j + i = Finest - q.u /\ j + i <= Finest
    BY <1>1, <1>4
  <2> HIDE DEF i, j
  <2>2. Conv[Finest - q.u] = Conv[j] * Conv[i]
    BY <1>a, <2>1
  <2>3. CountOf(q, p) = Quotient(Conv[j] * q.t, p.t)
    BY <1>4 DEF CountOf, j
  <2>4. /\ CountOf(q, p) \in Int
        /\ Abs(q.t * (Conv[j] * Conv[i]) - CountOf(q, p) * (p.t * Conv[i])) < p.t * Conv[i]
    <3> DEFINE c == Conv[j]  s == Conv[i]  t == q.t  T == p.t
    <3>1. c \in Int /\ c > 0 /\ s \in Int /\ s > 0 /\ t \in Int /\ T \in Int /\ T > 0
      BY <1>1, <1>3, <2>1
    <3> HIDE DEF c, s, t, T
    <3>2. /\ Quotient(c * t, T) \in Int
          /\ Abs(t * (c * s) - Quotient(c * t, T) * (T * s)) < T * s
      BY <3>1, OnceDivided
    <3> QED BY <2>3, <3>2 DEF c, s, t, T
  <2>5. n \in Int /\ d \in Int /\ d > 0
    BY <1>1, <1>2, <1>3, <2>1 DEF i
  <2> QED BY <1>2, <2>2, <2>4, <2>5 DEF i
<1>5. CASE ~(q.u < p.u)
  <2> DEFINE j == q.u - p.u
             i == Finest - q.u
  <2>1. i \in 0..Finest /\ j \in 0..Finest /\ j + i = Finest - p.u /\ j + i <= Finest
    BY <1>1, <1>5
  <2> HIDE DEF i, j
  <2>2. Conv[Finest - p.u] = Conv[j] * Conv[i]
    BY <1>a, <2>1
  <2>3. CountOf(q, p) = Quotient(Quotient(q.t, p.t), Conv[j])
    BY <1>5 DEF CountOf, j
  <2>4. /\ CountOf(q, p) \in Int
        /\ Abs(q.t * Conv[i] - CountOf(q, p) * (p.t * (Conv[j] * Conv[i]))) < p.t * (Conv[j] * Conv[i])
    <3> DEFINE c == Conv[j]  s == Conv[i]  t == q.t  T == p.t
    <3>1. c \in Int /\ c > 0 /\ s \in Int /\ s > 0 /\ t \in Int /\ T \in Int /\ T > 0
      BY <1>1, <1>3, <2>1
    <3> HIDE DEF c, s, t, T
    <3>2. /\ Quotient(Quotient(t, T), c) \in Int
          /\ Abs(t * s - Quotient(Quotient(t, T), c) * (T * (c * s))) < T * (c * s)
      BY <3>1, TwiceDivided
    <3> QED BY <2>3, <3>2 DEF c, s, t, T
  <2>5. Conv[j] * Conv[i] \in Int /\ Conv[j] * Conv[i] > 0
    BY <1>3, <2>1
  <2>6. n \in Int /\ d \in Int /\ d > 0
    BY <1>1, <1>2, <1>3, <2>1, <2>2, <2>5 DEF i
  <2> QED BY <1>2, <2>2, <2>4, <2>6 DEF i
<1> QED BY <1>4, <1>5

-----------------------------------------------------------------------------
(* The fraction n / d is counted as c, but for less than l / m.              *)
Counted(n, d, c, l, m) ==
  /\ n \in Int /\ d \in Int /\ d > 0 /\ c \in Int
  /\ l \in Int /\ l >= 0 /\ m \in Int /\ m > 0
  /\ IF l = 0 THEN n - c * d = 0 ELSE Abs(n - c * d) * m < l * d

(* What is multiplied is off by as many times as much.                       *)
LEMMA ScaledCounted ==
  ASSUME NEW n, NEW d, NEW c, NEW l, NEW m, Counted(n, d, c, l, m), NEW k \in Int
  PROVE  Counted(n * k, d, c * k, l * Abs(k), m)
<1> DEFINE o == n - c * d
<1>1. /\ n \in Int /\ d \in Int /\ d > 0 /\ c \in Int
      /\ l \in Int /\ l >= 0 /\ m \in Int /\ m > 0
      /\ IF l = 0 THEN o = 0 ELSE Abs(o) * m < l * d
  BY DEF Counted
<1>2. o \in Int /\ n * k - (c * k) * d = o * k
  BY <1>1
<1> HIDE DEF o
<1>3. Abs(k) \in Int /\ Abs(k) >= 0
  BY DEF Abs
<1>4. l * Abs(k) \in Int /\ l * Abs(k) >= 0
  BY <1>1, <1>3
<1>5. CASE k = 0
  BY <1>1, <1>2, <1>4, <1>5 DEF Counted, Abs
<1>6. CASE l = 0
  <2>1. l * Abs(k) = 0 /\ o * k = 0 /\ n * k \in Int /\ c * k \in Int
    BY <1>1, <1>3, <1>6
  <2> QED BY <1>1, <1>2, <2>1 DEF Counted
<1>7. CASE k # 0 /\ l # 0
  <2>1. Abs(o * k) * m < (l * Abs(k)) * d
    BY <1>1, <1>2, <1>7 DEF Abs
  <2>2. l * Abs(k) # 0
    BY <1>1, <1>7 DEF Abs
  <2>3. n * k \in Int /\ c * k \in Int
    BY <1>1
  <2> QED BY <1>1, <1>2, <1>4, <2>1, <2>2, <2>3 DEF Counted
<1> QED BY <1>5, <1>6, <1>7

(* What is added is off by what both are.                                    *)
LEMMA SumCounted ==
  ASSUME NEW n1, NEW d1, NEW c1, NEW l1, NEW m1, Counted(n1, d1, c1, l1, m1),
         NEW n2, NEW d2, NEW c2, NEW l2, NEW m2, Counted(n2, d2, c2, l2, m2)
  PROVE  Counted(n1 * d2 + n2 * d1, d1 * d2, c1 + c2, l1 * m2 + l2 * m1, m1 * m2)
<1> DEFINE o1 == n1 - c1 * d1
           o2 == n2 - c2 * d2
<1>1. /\ n1 \in Int /\ d1 \in Int /\ d1 > 0 /\ c1 \in Int
      /\ l1 \in Int /\ l1 >= 0 /\ m1 \in Int /\ m1 > 0
      /\ n2 \in Int /\ d2 \in Int /\ d2 > 0 /\ c2 \in Int
      /\ l2 \in Int /\ l2 >= 0 /\ m2 \in Int /\ m2 > 0
  BY DEF Counted
<1>2. /\ IF l1 = 0 THEN o1 = 0 ELSE Abs(o1) * m1 < l1 * d1
      /\ IF l2 = 0 THEN o2 = 0 ELSE Abs(o2) * m2 < l2 * d2
  BY DEF Counted
<1>3. /\ o1 \in Int /\ o2 \in Int
      /\ (n1 * d2 + n2 * d1) - (c1 + c2) * (d1 * d2) = o1 * d2 + o2 * d1
  BY <1>1
<1>4. /\ n1 * d2 + n2 * d1 \in Int /\ d1 * d2 \in Int /\ d1 * d2 > 0 /\ c1 + c2 \in Int
      /\ l1 * m2 \in Int /\ l1 * m2 >= 0 /\ l2 * m1 \in Int /\ l2 * m1 >= 0
      /\ m1 * m2 \in Int /\ m1 * m2 > 0
  BY <1>1
<1> HIDE DEF o1, o2
<1>5. CASE l1 = 0 /\ l2 = 0
  BY <1>2, <1>3, <1>4, <1>5 DEF Counted
<1>6. CASE ~(l1 = 0 /\ l2 = 0)
  <2> DEFINE A1 == Abs(o1) * m1  B1 == l1 * d1  K1 == d2 * m2
             A2 == Abs(o2) * m2  B2 == l2 * d2  K2 == d1 * m1
  <2>1. Abs(o1) \in Int /\ Abs(o1) >= 0 /\ Abs(o2) \in Int /\ Abs(o2) >= 0
    BY <1>3 DEF Abs
  <2>2. /\ A1 \in Int /\ B1 \in Int /\ K1 \in Int /\ K1 > 0
        /\ A2 \in Int /\ B2 \in Int /\ K2 \in Int /\ K2 > 0
    BY <1>1, <2>1
  <2>3. /\ A1 <= B1 /\ (l1 # 0 => A1 < B1)
        /\ A2 <= B2 /\ (l2 # 0 => A2 < B2)
    BY <1>1, <1>2, <2>1 DEF Abs
  <2>4. /\ Abs(o1 * d2 + o2 * d1) * (m1 * m2) <= A1 * K1 + A2 * K2
    <3>1. Abs(o1 * d2 + o2 * d1) <= Abs(o1) * d2 + Abs(o2) * d1
      BY <1>1, <1>3 DEF Abs
    <3>2. Abs(o1 * d2 + o2 * d1) \in Int
      BY <1>1, <1>3 DEF Abs
    <3>3. Abs(o1) * d2 + Abs(o2) * d1 \in Int
      BY <1>1, <2>1
    <3>4. Abs(o1 * d2 + o2 * d1) * (m1 * m2) <= (Abs(o1) * d2 + Abs(o2) * d1) * (m1 * m2)
      BY <1>4, <3>1, <3>2, <3>3
    <3>5. (Abs(o1) * d2 + Abs(o2) * d1) * (m1 * m2) = A1 * K1 + A2 * K2
      BY <1>1, <2>1
    <3> QED BY <3>4, <3>5
  <2>5. (l1 * m2 + l2 * m1) * (d1 * d2) = B1 * K1 + B2 * K2
    BY <1>1
  <2> HIDE DEF A1, B1, A2, B2, K1, K2
  <2>6. A1 * K1 + A2 * K2 < B1 * K1 + B2 * K2
    <3>1. A1 * K1 <= B1 * K1 /\ A2 * K2 <= B2 * K2
      BY <2>2, <2>3
    <3>2. A1 * K1 < B1 * K1 \/ A2 * K2 < B2 * K2
      BY <1>6, <2>2, <2>3
    <3> QED BY <2>2, <3>1, <3>2
  <2>7. l1 * m2 + l2 * m1 # 0
    BY <1>1, <1>4, <1>6
  <2>8. Abs(o1 * d2 + o2 * d1) * (m1 * m2) < (l1 * m2 + l2 * m1) * (d1 * d2)
    <3>1. Abs(o1 * d2 + o2 * d1) * (m1 * m2) \in Int /\ A1 * K1 \in Int /\ A2 * K2 \in Int
          /\ B1 * K1 \in Int /\ B2 * K2 \in Int
      BY <1>1, <1>3, <1>4, <2>2 DEF Abs
    <3> QED BY <2>4, <2>5, <2>6, <3>1
  <2> QED BY <1>3, <1>4, <2>7, <2>8 DEF Counted
<1> QED BY <1>5, <1>6

(* What is divided is off by as many times less, and by what the division    *)
(* leaves: nothing, or less than one.                                        *)
LEMMA OverCounted ==
  ASSUME NEW n, NEW d, NEW c, NEW l, NEW m, Counted(n, d, c, l, m), NEW k \in Int, k # 0,
         NEW b \in {0, 1}, b = 0 <=> c % Abs(k) = 0
  PROVE  Counted(Fraction(n, d * k)[1], Fraction(n, d * k)[2], Quotient(c, k),
                 l * 1 + b * (m * Abs(k)), (m * Abs(k)) * 1)
<1> DEFINE o == n - c * d
           K == Abs(k)
           s == IF k < 0 THEN -1 ELSE 1
           Q == Quotient(c, k)
           r == s * c - Q * K
<1>1. /\ n \in Int /\ d \in Int /\ d > 0 /\ c \in Int
      /\ l \in Int /\ l >= 0 /\ m \in Int /\ m > 0
      /\ IF l = 0 THEN o = 0 ELSE Abs(o) * m < l * d
  BY DEF Counted
<1>2. K \in Int /\ K > 0 /\ k = s * K /\ s \in {-1, 1}
  BY DEF Abs
<1>3. Q \in Int /\ Abs(c - Q * k) < K
  BY <1>1, QuotientLeaves
<1>4. Fraction(n, d * k) = <<s * n, d * K>>
  <2>1. d * k < 0 <=> k < 0
    BY <1>1
  <2>2. CASE k < 0
    <3>1. -(d * k) = d * K /\ -n = s * n
      BY <1>1, <2>2 DEF Abs
    <3> QED BY <2>1, <2>2, <3>1 DEF Fraction
  <2>3. CASE ~(k < 0)
    <3>1. d * k = d * K /\ n = s * n
      BY <1>1, <2>3 DEF Abs
    <3> QED BY <2>1, <2>3, <3>1 DEF Fraction
  <2> QED BY <2>2, <2>3
<1> HIDE DEF o, K, Q
<1>5. r \in Int /\ Abs(r) < K
  BY <1>1, <1>2, <1>3 DEF Abs
<1>6. c % K = 0 => r = 0
  <2> SUFFICES ASSUME c % K = 0 PROVE r = 0
    OBVIOUS
  <2>1. c = K * (c \div K) /\ c \div K \in Int
    BY <1>1, <1>2, Divides
  <2>2. PICK z \in Int : c = K * z
    BY <2>1
  <2>3. r = K * (s * z - Q) /\ s * z - Q \in Int
    BY <1>2, <1>3, <2>2
  <2> QED BY <1>2, <1>5, <2>3, SmallMultiple
<1>7. o \in Int /\ s * n - Q * (d * K) = s * o + d * r
  BY <1>1, <1>2, <1>3 DEF o
<1> HIDE DEF r
<1>8. /\ s * n \in Int /\ d * K \in Int /\ d * K > 0
      /\ m * K \in Int /\ m * K > 0 /\ (m * K) * 1 = m * K
      /\ l * 1 = l /\ b * (m * K) \in Int /\ b * (m * K) >= 0
  BY <1>1, <1>2
<1>9. CASE b = 0
  <2>1. r = 0 /\ l * 1 + b * (m * K) = l
    BY <1>1, <1>6, <1>8, <1>9 DEF K
  <2>2. s * o + d * r = s * o /\ Abs(s * o) = Abs(o) /\ Abs(o) \in Int
    BY <1>1, <1>2, <1>7, <2>1 DEF Abs
  <2>3. IF l = 0 THEN s * o = 0 ELSE Abs(s * o) * (m * K) < l * (d * K)
    <3>1. CASE l = 0
      BY <1>1, <1>2, <3>1
    <3>2. CASE l # 0
      <4>1. (Abs(o) * m) * K < (l * d) * K
        <5> DEFINE x == Abs(o) * m  y == l * d
        <5>1. x \in Int /\ y \in Int /\ x < y
          BY <1>1, <2>2, <3>2
        <5> HIDE DEF x, y
        <5>2. x * K < y * K
          BY <1>2, <5>1
        <5> QED BY <5>2 DEF x, y
      <4>2. Abs(o) * (m * K) = (Abs(o) * m) * K /\ l * (d * K) = (l * d) * K
        BY <1>1, <1>2, <2>2
      <4> QED BY <2>2, <3>2, <4>1, <4>2
    <3> QED BY <3>1, <3>2
  <2>4. Counted(s * n, d * K, Q, l, m * K)
    BY <1>1, <1>3, <1>7, <1>8, <2>2, <2>3 DEF Counted
  <2>5. Fraction(n, d * k)[1] = s * n /\ Fraction(n, d * k)[2] = d * K
    BY <1>4
  <2> QED BY <1>8, <2>1, <2>4, <2>5 DEF K, Q
<1>10. CASE b = 1
  <2>1. b * (m * K) = m * K
    BY <1>8, <1>10
  <2>2. Abs(o) \in Int /\ Abs(o) >= 0 /\ Abs(o) * m <= l * d
    BY <1>1, <1>7 DEF Abs
  <2>3. Abs(s * o + d * r) <= Abs(o) + d * (K - 1)
    <3>1. -(d * (K - 1)) <= d * r /\ d * r <= d * (K - 1)
      BY <1>1, <1>2, <1>5 DEF Abs
    <3>2. s * o <= Abs(o) /\ -Abs(o) <= s * o
      BY <1>2, <1>7 DEF Abs
    <3>3. d * r \in Int /\ d * (K - 1) \in Int /\ s * o \in Int
      BY <1>1, <1>2, <1>5, <1>7
    <3> QED BY <2>2, <3>1, <3>2, <3>3 DEF Abs
  <2>4. Abs(s * o + d * r) * (m * K) < (l + m * K) * (d * K)
    <3> DEFINE a == Abs(s * o + d * r)  e == m * K  x == Abs(o) * m  y == l * d
    <3>1. a \in Int /\ a >= 0 /\ e \in Int /\ e > 0
      BY <1>1, <1>2, <1>5, <1>7, <1>8 DEF Abs
    <3>2. Abs(o) + d * (K - 1) \in Int
      BY <1>1, <1>2, <2>2
    <3>3. a * e <= (Abs(o) + d * (K - 1)) * e
      <4> DEFINE f == Abs(o) + d * (K - 1)
      <4>1. a <= f /\ f \in Int
        BY <2>3, <3>2
      <4> HIDE DEF a, e, f
      <4>2. a * e <= f * e
        BY <3>1, <4>1
      <4> QED BY <4>2 DEF f
    <3>4. (Abs(o) + d * (K - 1)) * e = x * K + d * (K - 1) * e
      BY <1>1, <1>2, <2>2
    <3>5. x * K <= y * K
      <4>1. x \in Int /\ y \in Int /\ x <= y
        BY <1>1, <2>2
      <4> HIDE DEF x, y
      <4> QED BY <1>2, <4>1
    <3>6. d * (K - 1) * e < d * K * e
      <4>1. d * (K - 1) < d * K /\ d * (K - 1) \in Int /\ d * K \in Int
        BY <1>1, <1>2
      <4> HIDE DEF e
      <4> QED BY <3>1, <4>1
    <3>7. (l + m * K) * (d * K) = y * K + d * K * e
      BY <1>1, <1>2
    <3>8. x * K \in Int /\ y * K \in Int /\ d * (K - 1) * e \in Int /\ d * K * e \in Int /\ a * e \in Int
      BY <1>1, <1>2, <2>2, <3>1
    <3> HIDE DEF a, x, y
    <3>9. a * e < (l + m * K) * (d * K)
      BY <3>3, <3>4, <3>5, <3>6, <3>7, <3>8
    <3> QED BY <3>9 DEF a
  <2>5. l + m * K \in Int /\ l + m * K > 0
    BY <1>1, <1>8
  <2>6. Counted(s * n, d * K, Q, l + m * K, m * K)
    BY <1>1, <1>3, <1>7, <1>8, <2>4, <2>5 DEF Counted
  <2>7. Fraction(n, d * k)[1] = s * n /\ Fraction(n, d * k)[2] = d * K
    BY <1>4
  <2> QED BY <1>8, <2>1, <2>6, <2>7 DEF K, Q
<1> QED BY <1>9, <1>10

-----------------------------------------------------------------------------
(* Recursion on trees.  The operands of a tree are trees, less deep.         *)
HasOperand(e) == e.op \in {"minus", "times", "over", "sum", "difference"}
HasTwo(e) == e.op \in {"sum", "difference"}
AllTrees == UNION {Tree(n) : n \in Nat}

LEMMA TreeLevels ==
  /\ Tree(0) = Leaves \cup {Invalid}
  /\ \A n \in Nat : Tree(n + 1) = (Leaves \cup {Invalid}) \cup Over(Tree(n))
  /\ \A n \in Nat : Tree(n) \subseteq Tree(n + 1)
<1>1. /\ Tree(0) = Leaves \cup {Invalid}
      /\ \A n \in Nat : Tree(n + 1) = (Leaves \cup {Invalid}) \cup Over(Tree(n))
  BY ExpressionsUnfold DEF Tree
<1> DEFINE S == {n \in Nat : Tree(n) \subseteq Tree(n + 1)}
<1>2. 0 \in S
  BY <1>1
<1>3. ASSUME NEW n \in S PROVE n + 1 \in S
  <2>1. Over(Tree(n)) \subseteq Over(Tree(n + 1))
    BY OverGrows
  <2>2. n + 1 \in Nat
    OBVIOUS
  <2> QED BY <1>1, <2>1, <2>2
<1> HIDE DEF S
<1>4. \A n \in Nat : n \in S
  BY <1>2, <1>3, AllNaturals
<1> QED BY <1>1, <1>4 DEF S

LEMMA OverShape ==
  ASSUME NEW S, NEW e \in Over(S)
  PROVE  /\ e.op \in {"minus", "times", "over", "sum", "difference"}
         /\ HasOperand(e) => e.a \in S
         /\ HasTwo(e) => e.b \in S
         /\ e.op = "times" => e.k \in Counts
         /\ e.op = "over" => e.k \in Counts \ {0}
BY DEF Over, HasOperand, HasTwo

LEMMA LeafShape ==
  ASSUME NEW e \in Leaves \cup {Invalid}
  PROVE  /\ e.op \in {"time", "unitless", "invalid"}
         /\ e.op = "time" => e.q \in Time
         /\ e.op = "unitless" => e.k \in Counts
         /\ ~HasOperand(e) /\ ~HasTwo(e)
BY DEF Leaves, Invalid, HasOperand, HasTwo

(* What g makes of a tree and of what f is of its operands: w stands for one *)
(* it has not.                                                               *)
Made(g, f, w, e) ==
  g[<<e, IF HasOperand(e) THEN f[e.a] ELSE w, IF HasTwo(e) THEN f[e.b] ELSE w>>]

LEMMA TreeRecursion ==
  ASSUME NEW V, NEW w \in V, NEW g \in [AllTrees \X V \X V -> V]
  PROVE  \E f \in [Trees -> V] : \A e \in Trees : f[e] = Made(g, f, w, e)
<1> DEFINE Holds(f, n) == f \in [Tree(n) -> V] /\ \A e \in Tree(n) : f[e] = Made(g, f, w, e)
           S == {n \in Nat : \E f : Holds(f, n)}
<1>1. ASSUME NEW n \in Nat, NEW e \in Tree(n), NEW a \in V, NEW b \in V
      PROVE  g[<<e, a, b>>] \in V
  BY <1>1 DEF AllTrees
<1>2. 0 \in S
  <2> DEFINE f == [e \in Tree(0) |-> g[<<e, w, w>>]]
  <2>1. f \in [Tree(0) -> V]
    BY <1>1
  <2>2. \A e \in Tree(0) : f[e] = Made(g, f, w, e)
    BY TreeLevels, LeafShape DEF Made
  <2> QED BY <2>1, <2>2
<1>3. ASSUME NEW n \in S PROVE n + 1 \in S
  <2>1. PICK f : Holds(f, n)
    OBVIOUS
  <2> DEFINE h == [e \in Tree(n + 1) |-> Made(g, f, w, e)]
  <2>2. ASSUME NEW e \in Tree(n + 1)
        PROVE  /\ HasOperand(e) => e.a \in Tree(n)
               /\ HasTwo(e) => e.b \in Tree(n)
    BY TreeLevels, LeafShape, OverShape
  <2>3. h \in [Tree(n + 1) -> V]
    <3>1. ASSUME NEW e \in Tree(n + 1) PROVE Made(g, f, w, e) \in V
      <4>1. /\ (IF HasOperand(e) THEN f[e.a] ELSE w) \in V
            /\ (IF HasTwo(e) THEN f[e.b] ELSE w) \in V
        BY <2>1, <2>2
      <4> QED BY <1>1, <4>1, n + 1 \in Nat DEF Made
    <3> QED BY <3>1
  <2>4. \A e \in Tree(n) : h[e] = f[e]
    BY <2>1, TreeLevels
  <2> HIDE DEF h
  <2>5. \A e \in Tree(n + 1) : Made(g, h, w, e) = Made(g, f, w, e)
    BY <2>2, <2>4 DEF Made
  <2>6. \A e \in Tree(n + 1) : h[e] = Made(g, h, w, e)
    BY <2>5 DEF h
  <2> QED BY <2>3, <2>6
<1> HIDE DEF S
<1>4. MaxNodes \in S
  BY <1>2, <1>3, AllNaturals, MaxNodesAssumption
<1> QED BY <1>4 DEF S, Trees, Tree

(* The operands of a tree that may be there may be there too.                *)
LEMMA OperandsAreTrees ==
  ASSUME NEW e \in Trees
  PROVE  /\ e \in Leaves \cup {Invalid} \/ e \in Over(Trees)
         /\ e \in AllTrees
<1>1. e \in Tree(MaxNodes)
  BY DEF Tree, Trees
<1>2. CASE MaxNodes = 0
  BY <1>1, <1>2, TreeLevels DEF AllTrees
<1>3. CASE MaxNodes # 0
  <2>1. MaxNodes - 1 \in Nat /\ (MaxNodes - 1) + 1 = MaxNodes
    BY <1>3, MaxNodesAssumption
  <2>2. Tree(MaxNodes) = (Leaves \cup {Invalid}) \cup Over(Tree(MaxNodes - 1))
    BY <2>1, TreeLevels
  <2>3. Over(Tree(MaxNodes - 1)) \subseteq Over(Trees)
    <3>1. Tree(MaxNodes - 1) \subseteq Tree(MaxNodes)
      BY <2>1, TreeLevels
    <3>2. Tree(MaxNodes) = Trees
      BY DEF Tree, Trees
    <3> QED BY <3>1, <3>2, OverGrows
  <2> QED BY <1>1, <2>2, <2>3, MaxNodesAssumption DEF AllTrees
<1> QED BY <1>2, <1>3

-----------------------------------------------------------------------------
(* The recursive definitions define what they say.                           *)
LEMMA TreeShape ==
  ASSUME NEW e \in AllTrees
  PROVE  /\ e.op \in {"time", "unitless", "invalid", "minus", "times", "over", "sum", "difference"}
         /\ e.op = "time" => e.q \in Time
         /\ e.op \in {"unitless", "times"} => e.k \in Int
         /\ e.op = "over" => e.k \in Int \ {0}
<1>1. PICK n \in Nat : e \in Tree(n)
  BY DEF AllTrees
<1>2. e \in Leaves \cup {Invalid} \/ \E S : e \in Over(S)
  <2>1. CASE n = 0
    BY <1>1, <2>1, TreeLevels
  <2>2. CASE n # 0
    <3>1. n - 1 \in Nat /\ (n - 1) + 1 = n
      BY <2>2
    <3> QED BY <1>1, <3>1, TreeLevels
  <2> QED BY <2>1, <2>2
<1> QED BY <1>2, LeafShape, OverShape, CountsAssumption

(* What a time is of the ticks of a precision is a fraction of integers.     *)
LEMMA TimeTypes ==
  ASSUME NEW q \in Time, NEW p \in Precisions
  PROVE  /\ CountOf(q, p) \in Int
         /\ ExactTime(q, p) \in Int \X Int
         /\ LossOf(q, p) \in Int \X Int
<1>1. ExactTime(q, p) = <<q.t * Conv[Finest - q.u], p.t * Conv[Finest - p.u]>>
  BY DEF ExactTime
<1> QED BY <1>1, TimeCounted DEF LossOf

(* So Count is that of the node on top, of what its operands count.          *)
LEMMA CountUnfolds ==
  ASSUME NEW p \in Precisions, NEW u \in Precisions
  PROVE  \A e \in Trees : Count(e, p, u) = CountNode(e, Count(e.a, p, u), Count(e.b, p, u), p, u)
<1> DEFINE V == Int
           zero == 0
           g == [t \in AllTrees \X V \X V |-> CountNode(t[1], t[2], t[3], p, u)]
           Fits(c) == c = [f \in Trees |-> CountNode(f, c[f.a], c[f.b], p, u)]
           count == CHOOSE c : Fits(c)
<1>1. ASSUME NEW e PROVE Count(e, p, u) = count[e]
  BY DEF Count
<1>2. ASSUME NEW f \in AllTrees, NEW a \in V, NEW b \in V PROVE CountNode(f, a, b, p, u) \in V
  <2>1. u \in Time /\ \A k \in Int \ {0} : Quotient(a, k) \in Int
    BY QuotientLeaves DEF Precisions
  <2>2. CountOf(u, p) \in Int /\ (f.op = "time" => CountOf(f.q, p) \in Int)
    BY <2>1, TimeTypes, TreeShape
  <2> QED BY <2>1, <2>2, TreeShape DEF CountNode
<1>3. \A f \in Trees : \A a, b, x, y :
         (HasOperand(f) => a = x) /\ (HasTwo(f) => b = y) =>
           CountNode(f, a, b, p, u) = CountNode(f, x, y, p, u)
  BY OperandsAreTrees, TreeShape DEF HasOperand, HasTwo, CountNode
<1>4. zero \in V
  OBVIOUS
<1> HIDE DEF V, zero
<1>5. g \in [AllTrees \X V \X V -> V]
  BY <1>2
<1>6. PICK c \in [Trees -> V] : \A f \in Trees : c[f] = Made(g, c, zero, f)
  <2> HIDE DEF g
  <2> QED BY <1>4, <1>5, TreeRecursion
<1>7. \A f \in Trees : c[f] = CountNode(f, c[f.a], c[f.b], p, u)
  <2> SUFFICES ASSUME NEW f \in Trees PROVE c[f] = CountNode(f, c[f.a], c[f.b], p, u)
    OBVIOUS
  <2> DEFINE a == IF HasOperand(f) THEN c[f.a] ELSE zero
             b == IF HasTwo(f) THEN c[f.b] ELSE zero
  <2>1. a \in V /\ b \in V /\ f \in AllTrees
    BY <1>4, <1>6, OperandsAreTrees, OverShape, LeafShape
  <2>2. c[f] = g[<<f, a, b>>]
    BY <1>6 DEF Made
  <2>3. g[<<f, a, b>>] = CountNode(f, a, b, p, u)
    BY <2>1
  <2> QED BY <1>3, <2>2, <2>3
<1>8. Fits(count)
  <2>1. Fits(c)
    BY <1>6, <1>7
  <2> HIDE DEF Fits
  <2> QED BY <2>1
<1> HIDE DEF count
<1>9. \A e \in Trees : count[e] = CountNode(e, count[e.a], count[e.b], p, u)
  BY <1>8
<1> SUFFICES ASSUME NEW e \in Trees
             PROVE  Count(e, p, u) = CountNode(e, Count(e.a, p, u), Count(e.b, p, u), p, u)
  OBVIOUS
<1>10. Count(e, p, u) = count[e] /\ Count(e.a, p, u) = count[e.a] /\ Count(e.b, p, u) = count[e.b]
  BY <1>1
<1> QED BY <1>9, <1>10

(* So is Exact,                                                              *)
LEMMA ExactUnfolds ==
  ASSUME NEW p \in Precisions, NEW u \in Precisions
  PROVE  \A e \in Trees : Exact(e, p, u) = ExactNode(e, Exact(e.a, p, u), Exact(e.b, p, u), p, u)
<1> DEFINE V == Int \X Int
           zero == <<0, 1>>
           g == [t \in AllTrees \X V \X V |-> ExactNode(t[1], t[2], t[3], p, u)]
           Fits(c) == c = [f \in Trees |-> ExactNode(f, c[f.a], c[f.b], p, u)]
           exact == CHOOSE c : Fits(c)
<1>1. ASSUME NEW e PROVE Exact(e, p, u) = exact[e]
  BY DEF Exact
<1>2. ASSUME NEW f \in AllTrees, NEW a \in V, NEW b \in V PROVE ExactNode(f, a, b, p, u) \in V
  <2>1. u \in Time
    BY DEF Precisions
  <2>2. ExactTime(u, p) \in Int \X Int /\ (f.op = "time" => ExactTime(f.q, p) \in Int \X Int)
    BY <2>1, TimeTypes, TreeShape
  <2>3. \A x \in Int \X Int, k \in Int : Scaled(x, k) \in Int \X Int /\ Divided(x, k) \in Int \X Int
    BY DEF Scaled, Divided, Fraction
  <2>4. \A x, y \in Int \X Int : Plus(x, y) \in Int \X Int
    BY DEF Plus
  <2>5. -1 \in Int
    OBVIOUS
  <2> HIDE DEF V
  <2>6. \A x \in Int \X Int : x \in V
    BY DEF V
  <2>7. a \in Int \X Int /\ b \in Int \X Int /\ <<0, 1>> \in Int \X Int
    BY DEF V
  <2> QED BY <2>2, <2>3, <2>4, <2>5, <2>6, <2>7, TreeShape DEF ExactNode
<1>3. \A f \in Trees : \A a, b, x, y :
         (HasOperand(f) => a = x) /\ (HasTwo(f) => b = y) =>
           ExactNode(f, a, b, p, u) = ExactNode(f, x, y, p, u)
  BY OperandsAreTrees, TreeShape DEF HasOperand, HasTwo, ExactNode
<1>4. zero \in V
  OBVIOUS
<1> HIDE DEF V, zero
<1>5. g \in [AllTrees \X V \X V -> V]
  BY <1>2
<1>6. PICK c \in [Trees -> V] : \A f \in Trees : c[f] = Made(g, c, zero, f)
  <2> HIDE DEF g
  <2> QED BY <1>4, <1>5, TreeRecursion
<1>7. \A f \in Trees : c[f] = ExactNode(f, c[f.a], c[f.b], p, u)
  <2> SUFFICES ASSUME NEW f \in Trees PROVE c[f] = ExactNode(f, c[f.a], c[f.b], p, u)
    OBVIOUS
  <2> DEFINE a == IF HasOperand(f) THEN c[f.a] ELSE zero
             b == IF HasTwo(f) THEN c[f.b] ELSE zero
  <2>1. a \in V /\ b \in V /\ f \in AllTrees
    BY <1>4, <1>6, OperandsAreTrees, OverShape, LeafShape
  <2>2. c[f] = g[<<f, a, b>>]
    BY <1>6 DEF Made
  <2>3. g[<<f, a, b>>] = ExactNode(f, a, b, p, u)
    BY <2>1
  <2> QED BY <1>3, <2>2, <2>3
<1>8. Fits(exact)
  <2>1. Fits(c)
    BY <1>6, <1>7
  <2> HIDE DEF Fits
  <2> QED BY <2>1
<1> HIDE DEF exact
<1>9. \A e \in Trees : exact[e] = ExactNode(e, exact[e.a], exact[e.b], p, u)
  BY <1>8
<1> SUFFICES ASSUME NEW e \in Trees
             PROVE  Exact(e, p, u) = ExactNode(e, Exact(e.a, p, u), Exact(e.b, p, u), p, u)
  OBVIOUS
<1>10. Exact(e, p, u) = exact[e] /\ Exact(e.a, p, u) = exact[e.a] /\ Exact(e.b, p, u) = exact[e.b]
  BY <1>1
<1> QED BY <1>9, <1>10

(* and so is Loss, which asks Count whether a division leaves something.     *)
LEMMA LossUnfolds ==
  ASSUME NEW p \in Precisions, NEW u \in Precisions
  PROVE  \A e \in Trees : Loss(e, p, u) = LossNode(e, Loss(e.a, p, u), Loss(e.b, p, u), p, u)
<1> DEFINE V == Int \X Int
           zero == <<0, 1>>
           g == [t \in AllTrees \X V \X V |-> LossNode(t[1], t[2], t[3], p, u)]
           Fits(c) == c = [f \in Trees |-> LossNode(f, c[f.a], c[f.b], p, u)]
           loss == CHOOSE c : Fits(c)
<1>1. ASSUME NEW e PROVE Loss(e, p, u) = loss[e]
  BY DEF Loss
<1>2. ASSUME NEW f \in AllTrees, NEW a \in V, NEW b \in V PROVE LossNode(f, a, b, p, u) \in V
  <2>1. u \in Time
    BY DEF Precisions
  <2>2. LossOf(u, p) \in Int \X Int /\ (f.op = "time" => LossOf(f.q, p) \in Int \X Int)
    BY <2>1, TimeTypes, TreeShape
  <2>3. \A x \in Int \X Int, k \in Int :
          /\ Abs(k) \in Int
          /\ Scaled(x, Abs(k)) \in Int \X Int /\ Divided(x, Abs(k)) \in Int \X Int
    BY DEF Scaled, Divided, Fraction, Abs
  <2>4. \A x, y \in Int \X Int : Plus(x, y) \in Int \X Int
    BY DEF Plus
  <2> DEFINE left == <<IF Count(f.a, p, u) % Abs(f.k) = 0 THEN 0 ELSE 1, 1>>
  <2>5. left \in Int \X Int
    OBVIOUS
  <2> HIDE DEF V
  <2>6. \A x \in Int \X Int : x \in V
    BY DEF V
  <2>7. a \in Int \X Int /\ b \in Int \X Int /\ <<0, 1>> \in Int \X Int
    BY DEF V
  <2> HIDE DEF left
  <2>8. f.op = "over" => LossNode(f, a, b, p, u) = Plus(Divided(a, Abs(f.k)), left)
    BY DEF LossNode, left
  <2>9. CASE f.op = "over"
    BY <2>3, <2>4, <2>5, <2>6, <2>7, <2>8, <2>9, TreeShape
  <2>10. CASE f.op # "over"
    BY <2>2, <2>3, <2>4, <2>6, <2>7, <2>10, TreeShape DEF LossNode
  <2> QED BY <2>9, <2>10
<1>3. \A f \in Trees : \A a, b, x, y :
         (HasOperand(f) => a = x) /\ (HasTwo(f) => b = y) =>
           LossNode(f, a, b, p, u) = LossNode(f, x, y, p, u)
  BY OperandsAreTrees, TreeShape DEF HasOperand, HasTwo, LossNode
<1>4. zero \in V
  OBVIOUS
<1> HIDE DEF V, zero
<1>5. g \in [AllTrees \X V \X V -> V]
  BY <1>2
<1>6. PICK c \in [Trees -> V] : \A f \in Trees : c[f] = Made(g, c, zero, f)
  <2> HIDE DEF g
  <2> QED BY <1>4, <1>5, TreeRecursion
<1>7. \A f \in Trees : c[f] = LossNode(f, c[f.a], c[f.b], p, u)
  <2> SUFFICES ASSUME NEW f \in Trees PROVE c[f] = LossNode(f, c[f.a], c[f.b], p, u)
    OBVIOUS
  <2> DEFINE a == IF HasOperand(f) THEN c[f.a] ELSE zero
             b == IF HasTwo(f) THEN c[f.b] ELSE zero
  <2>1. a \in V /\ b \in V /\ f \in AllTrees
    BY <1>4, <1>6, OperandsAreTrees, OverShape, LeafShape
  <2>2. c[f] = g[<<f, a, b>>]
    BY <1>6 DEF Made
  <2>3. g[<<f, a, b>>] = LossNode(f, a, b, p, u)
    BY <2>1
  <2> QED BY <1>3, <2>2, <2>3
<1>8. Fits(loss)
  <2>1. Fits(c)
    BY <1>6, <1>7
  <2> HIDE DEF Fits
  <2> QED BY <2>1
<1> HIDE DEF loss
<1>9. \A e \in Trees : loss[e] = LossNode(e, loss[e.a], loss[e.b], p, u)
  BY <1>8
<1> SUFFICES ASSUME NEW e \in Trees
             PROVE  Loss(e, p, u) = LossNode(e, Loss(e.a, p, u), Loss(e.b, p, u), p, u)
  OBVIOUS
<1>10. Loss(e, p, u) = loss[e] /\ Loss(e.a, p, u) = loss[e.a] /\ Loss(e.b, p, u) = loss[e.b]
  BY <1>1
<1> QED BY <1>9, <1>10

-----------------------------------------------------------------------------
(* Every tree counts what it says but for what it loses.                     *)
TreeCounted(e, p, u) ==
  \E n, d, l, m : /\ Exact(e, p, u) = <<n, d>> /\ Loss(e, p, u) = <<l, m>>
                  /\ Counted(n, d, Count(e, p, u), l, m)

LEMMA TimeIsCounted ==
  ASSUME NEW q \in Time, NEW p \in Precisions
  PROVE  \E n, d, l, m : /\ ExactTime(q, p) = <<n, d>> /\ LossOf(q, p) = <<l, m>>
                         /\ Counted(n, d, CountOf(q, p), l, m)
<1> DEFINE n == q.t * Conv[Finest - q.u]
           d == p.t * Conv[Finest - p.u]
           c == CountOf(q, p)
<1>1. ExactTime(q, p) = <<n, d>>
  BY DEF ExactTime
<1> HIDE DEF n, d, c
<1>2. n \in Int /\ d \in Int /\ d > 0 /\ c \in Int /\ Abs(n - c * d) < d
  BY <1>1, TimeCounted DEF c
<1>3. CASE n % d = 0
  <2>1. LossOf(q, p) = <<0, 1>>
    BY <1>1, <1>3 DEF LossOf, Whole
  <2>2. n = d * (n \div d) /\ n \div d \in Int
    BY <1>2, <1>3, Divides
  <2>3. PICK z \in Int : n = d * z
    BY <2>2
  <2>4. n - c * d = d * (z - c) /\ z - c \in Int
    BY <1>2, <2>3
  <2>5. n - c * d = 0
    BY <1>2, <2>4, SmallMultiple
  <2>6. Counted(n, d, c, 0, 1)
    BY <1>2, <2>5 DEF Counted
  <2> QED BY <1>1, <2>1, <2>6 DEF c
<1>4. CASE n % d # 0
  <2>1. LossOf(q, p) = <<1, 1>>
    BY <1>1, <1>4 DEF LossOf, Whole
  <2>2. Counted(n, d, c, 1, 1)
    BY <1>2 DEF Counted, Abs
  <2> QED BY <1>1, <2>1, <2>2 DEF c
<1> QED BY <1>3, <1>4

(* So does a node of which the operands do.                                  *)
LEMMA NodeIsCounted ==
  ASSUME NEW e \in Trees, NEW p \in Precisions, NEW u \in Precisions,
         HasOperand(e) => TreeCounted(e.a, p, u), HasTwo(e) => TreeCounted(e.b, p, u)
  PROVE  TreeCounted(e, p, u)
<1> DEFINE c == Count(e, p, u)   x == Exact(e, p, u)   y == Loss(e, p, u)
           ca == Count(e.a, p, u)   xa == Exact(e.a, p, u)   ya == Loss(e.a, p, u)
           cb == Count(e.b, p, u)   xb == Exact(e.b, p, u)   yb == Loss(e.b, p, u)
<1>1. /\ c = CountNode(e, ca, cb, p, u)
      /\ x = ExactNode(e, xa, xb, p, u)
      /\ y = LossNode(e, ya, yb, p, u)
  BY CountUnfolds, ExactUnfolds, LossUnfolds
<1>2. e \in AllTrees
  BY OperandsAreTrees
<1>3. u \in Time
  BY DEF Precisions
<1>4. HasOperand(e) => \E n, d, l, m : xa = <<n, d>> /\ ya = <<l, m>> /\ Counted(n, d, ca, l, m)
  BY DEF TreeCounted
<1>5. HasTwo(e) => \E n, d, l, m : xb = <<n, d>> /\ yb = <<l, m>> /\ Counted(n, d, cb, l, m)
  BY DEF TreeCounted
<1> DEFINE Goal == \E n, d, l, m : x = <<n, d>> /\ y = <<l, m>> /\ Counted(n, d, c, l, m)
<1>6. Goal => TreeCounted(e, p, u)
  BY DEF TreeCounted
<1> HIDE DEF c, x, y, ca, xa, ya, cb, xb, yb
<1>7. CASE e.op = "invalid"
  <2>1. c = 0 /\ x = <<0, 1>> /\ y = <<0, 1>>
    BY <1>1, <1>7 DEF CountNode, ExactNode, LossNode
  <2>2. Counted(0, 1, 0, 0, 1)
    BY DEF Counted
  <2> QED BY <1>6, <2>1, <2>2
<1>8. CASE e.op = "time"
  <2>1. c = CountOf(e.q, p) /\ x = ExactTime(e.q, p) /\ y = LossOf(e.q, p) /\ e.q \in Time
    BY <1>1, <1>2, <1>8, TreeShape DEF CountNode, ExactNode, LossNode
  <2> QED BY <1>6, <2>1, TimeIsCounted
<1>9. CASE e.op = "unitless"
  <2>1. /\ c = e.k * CountOf(u, p) /\ x = Scaled(ExactTime(u, p), e.k)
        /\ y = Scaled(LossOf(u, p), Abs(e.k))
    BY <1>1, <1>9 DEF CountNode, ExactNode, LossNode
  <2>2. PICK n, d, l, m : /\ ExactTime(u, p) = <<n, d>> /\ LossOf(u, p) = <<l, m>>
                          /\ Counted(n, d, CountOf(u, p), l, m)
    BY <1>3, TimeIsCounted
  <2>3. e.k \in Int
    BY <1>2, <1>9, TreeShape
  <2>4. Counted(n * e.k, d, CountOf(u, p) * e.k, l * Abs(e.k), m)
    BY <2>2, <2>3, ScaledCounted
  <2>5. CountOf(u, p) * e.k = e.k * CountOf(u, p)
    BY <2>2, <2>3 DEF Counted
  <2>6. x = <<n * e.k, d>> /\ y = <<l * Abs(e.k), m>>
    BY <2>1, <2>2 DEF Scaled
  <2> QED BY <1>6, <2>1, <2>4, <2>5, <2>6
<1>10. CASE HasOperand(e)
  <2>1. PICK n, d, l, m : xa = <<n, d>> /\ ya = <<l, m>> /\ Counted(n, d, ca, l, m)
    BY <1>4, <1>10
  <2>2. /\ n \in Int /\ d \in Int /\ d > 0 /\ ca \in Int
        /\ l \in Int /\ l >= 0 /\ m \in Int /\ m > 0
    BY <2>1 DEF Counted
  <2>3. CASE e.op = "minus"
    <3>1. c = -ca /\ x = Scaled(xa, -1) /\ y = ya
      BY <1>1, <2>3 DEF CountNode, ExactNode, LossNode
    <3>2. Counted(n * (-1), d, ca * (-1), l * Abs(-1), m)
      BY <2>1, -1 \in Int, ScaledCounted
    <3>3. ca * (-1) = -ca /\ l * Abs(-1) = l
      BY <2>2 DEF Abs
    <3>4. x = <<n * (-1), d>> /\ y = <<l, m>>
      BY <2>1, <3>1 DEF Scaled
    <3> QED BY <1>6, <3>1, <3>2, <3>3, <3>4
  <2>4. CASE e.op = "times"
    <3>1. c = ca * e.k /\ x = Scaled(xa, e.k) /\ y = Scaled(ya, Abs(e.k))
      BY <1>1, <2>4 DEF CountNode, ExactNode, LossNode
    <3>2. e.k \in Int
      BY <1>2, <2>4, TreeShape
    <3>3. Counted(n * e.k, d, ca * e.k, l * Abs(e.k), m)
      BY <2>1, <3>2, ScaledCounted
    <3>4. x = <<n * e.k, d>> /\ y = <<l * Abs(e.k), m>>
      BY <2>1, <3>1 DEF Scaled
    <3> QED BY <1>6, <3>1, <3>3, <3>4
  <2>5. CASE e.op = "over"
    <3> DEFINE b == IF ca % Abs(e.k) = 0 THEN 0 ELSE 1
    <3>1. c = Quotient(ca, e.k) /\ x = Divided(xa, e.k) /\ y = Plus(Divided(ya, Abs(e.k)), <<b, 1>>)
      BY <1>1, <2>5 DEF CountNode, ExactNode, LossNode, ca
    <3>2. e.k \in Int /\ e.k # 0
      BY <1>2, <2>5, TreeShape
    <3>3. b \in {0, 1} /\ (b = 0 <=> ca % Abs(e.k) = 0)
      OBVIOUS
    <3> HIDE DEF b
    <3>4. Counted(Fraction(n, d * e.k)[1], Fraction(n, d * e.k)[2], Quotient(ca, e.k),
                  l * 1 + b * (m * Abs(e.k)), (m * Abs(e.k)) * 1)
      BY <2>1, <3>2, <3>3, OverCounted
    <3>5. x = <<Fraction(n, d * e.k)[1], Fraction(n, d * e.k)[2]>>
      <4>1. x = Fraction(n, d * e.k)
        BY <2>1, <3>1 DEF Divided
      <4> QED BY <4>1 DEF Fraction
    <3>6. y = <<l * 1 + b * (m * Abs(e.k)), (m * Abs(e.k)) * 1>>
      <4>1. ~(m * Abs(e.k) < 0)
        BY <2>2, <3>2 DEF Abs
      <4>2. Divided(ya, Abs(e.k)) = <<l, m * Abs(e.k)>>
        BY <2>1, <4>1 DEF Divided, Fraction
      <4> QED BY <3>1, <4>2 DEF Plus
    <3> QED BY <1>6, <3>1, <3>4, <3>5, <3>6
  <2>6. CASE HasTwo(e)
    <3>1. PICK v, w, r, s : xb = <<v, w>> /\ yb = <<r, s>> /\ Counted(v, w, cb, r, s)
      BY <1>5, <2>6
    <3>2. /\ v \in Int /\ w \in Int /\ w > 0 /\ cb \in Int
          /\ r \in Int /\ r >= 0 /\ s \in Int /\ s > 0
      BY <3>1 DEF Counted
    <3>3. y = <<l * s + r * m, m * s>>
      <4>1. y = Plus(ya, yb)
        BY <1>1, <2>6 DEF LossNode, HasTwo
      <4> QED BY <2>1, <3>1, <4>1 DEF Plus
    <3>4. CASE e.op = "sum"
      <4>1. c = ca + cb /\ x = Plus(xa, xb)
        BY <1>1, <3>4 DEF CountNode, ExactNode
      <4>2. Counted(n * w + v * d, d * w, ca + cb, l * s + r * m, m * s)
        BY <2>1, <3>1, SumCounted
      <4>3. x = <<n * w + v * d, d * w>>
        BY <2>1, <3>1, <4>1 DEF Plus
      <4> QED BY <1>6, <3>3, <4>1, <4>2, <4>3
    <3>5. CASE e.op = "difference"
      <4>1. c = ca - cb /\ x = Plus(xa, Scaled(xb, -1))
        BY <1>1, <3>5 DEF CountNode, ExactNode
      <4>2. Counted(v * (-1), w, cb * (-1), r * Abs(-1), s)
        BY <3>1, -1 \in Int, ScaledCounted
      <4>3. r * Abs(-1) = r /\ ca + cb * (-1) = ca - cb
        BY <2>2, <3>2 DEF Abs
      <4>4. Counted(n * w + (v * (-1)) * d, d * w, ca + cb * (-1), l * s + r * m, m * s)
        BY <2>1, <4>2, <4>3, SumCounted
      <4>5. x = <<n * w + (v * (-1)) * d, d * w>>
        BY <2>1, <3>1, <4>1 DEF Plus, Scaled
      <4> QED BY <1>6, <3>3, <4>1, <4>3, <4>4, <4>5
    <3> QED BY <2>6, <3>4, <3>5 DEF HasTwo
  <2> QED BY <1>10, <2>3, <2>4, <2>5, <2>6 DEF HasOperand, HasTwo
<1> QED BY <1>2, <1>7, <1>8, <1>9, <1>10, TreeShape DEF HasOperand

LEMMA TreesAreCounted ==
  ASSUME NEW p \in Precisions, NEW u \in Precisions
  PROVE  \A e \in Trees : TreeCounted(e, p, u)
<1> DEFINE S == {n \in Nat : \A e \in Tree(n) \cap Trees : TreeCounted(e, p, u)}
<1>1. 0 \in S
  BY TreeLevels, LeafShape, NodeIsCounted
<1>2. ASSUME NEW n \in S PROVE n + 1 \in S
  <2> SUFFICES ASSUME NEW e \in Tree(n + 1), e \in Trees PROVE TreeCounted(e, p, u)
    OBVIOUS
  <2>1. CASE e \in Leaves \cup {Invalid}
    BY <2>1, LeafShape, NodeIsCounted
  <2>2. CASE e \notin Leaves \cup {Invalid}
    <3>1. e \in Over(Tree(n)) /\ e \in Over(Trees)
      BY <2>2, TreeLevels, OperandsAreTrees
    <3>2. e \in Over(Tree(n) \cap Trees)
      BY <3>1, OverMeets
    <3> QED BY <3>2, OverShape, NodeIsCounted DEF HasTwo, HasOperand
  <2> QED BY <2>1, <2>2
<1> HIDE DEF S
<1>3. MaxNodes \in S
  BY <1>1, <1>2, AllNaturals, MaxNodesAssumption
<1> QED BY <1>3 DEF S, Trees, Tree

(* That is what AccurateToItsTerms asks, of fractions.                       *)
LEMMA TreesAreAccurate == EvaluableInv => AccurateToItsTerms
<1> SUFFICES ASSUME EvaluableInv,
                    NEW x \in DOMAIN exprs, NEW p \in Precisions, NEW u \in Precisions
             PROVE  Near(Plus(Exact(exprs[x].says, p, u), <<-Count(exprs[x].says, p, u), 1>>),
                         Loss(exprs[x].says, p, u))
  BY DEF AccurateToItsTerms
<1> DEFINE e == exprs[x].says
           c == Count(e, p, u)
<1>1. PICK n, d, l, m : /\ Exact(e, p, u) = <<n, d>> /\ Loss(e, p, u) = <<l, m>>
                        /\ Counted(n, d, c, l, m)
  <2>1. TreeCounted(e, p, u)
    BY TreesAreCounted DEF EvaluableInv
  <2> QED BY <2>1 DEF TreeCounted
<1> HIDE DEF e, c
<1>2. Plus(<<n, d>>, <<-c, 1>>) = <<n - c * d, d>>
  <2>1. n * 1 + (-c) * d = n - c * d /\ d * 1 = d
    BY <1>1 DEF Counted
  <2> QED BY <2>1 DEF Plus
<1>3. Near(<<n - c * d, d>>, <<l, m>>)
  BY <1>1 DEF Near, Counted
<1> QED BY <1>1, <1>2, <1>3 DEF e, c

(* An expression counts what it says but for what its own terms lose, however *)
(* deep it is and whatever the units, the precision and the order of copies, *)
(* moves and operators that made it.                                         *)
THEOREM AccurateToItsTermsHolds == Spec => []AccurateToItsTerms
BY TreesAreAccurate, EvaluableInvariance, PTL

(* So it does in a simulation, whenever a process waits for it.              *)
THEOREM AccurateInSimulation == TimeoutSpec => []AccurateToItsTerms
BY TreesAreAccurate, EvaluableInSimulation, PTL

-----------------------------------------------------------------------------
(* Whose priority is settled: every process that is bound.  Whoever runs, is *)
(* going to be resumed, or waits for another process to end, is bound.       *)
SettledInv ==
  /\ life \in [Procs -> {"unbound", "bound", "complete"}]
  /\ DOMAIN priority = Procs /\ DOMAIN awaited = Procs
  /\ \A p \in Procs : life[p] # "unbound" => priority[p] # Inherit
  /\ \A e \in pending : e.priority # Inherit /\ e.id \in Procs /\ life[e.id] # "unbound"
  /\ \A p \in Procs : \A t \in awaited[p] :
       t.priority # Inherit /\ t.to \in Procs /\ life[t.to] # "unbound"
  /\ current # None => current \in Procs /\ life[current] # "unbound"

(* What is resolved against a settled priority is settled.                   *)
LEMMA ResolvedIsSettled ==
  ASSUME NEW given, NEW from, from # Inherit
  PROVE  Resolved(given, from) # Inherit
BY DEF Resolved

(* Nothing is bound at first.                                                *)
LEMMA TimeoutInitSettled == TimeoutInit => SettledInv
BY DEF TimeoutInit, Loop!Init, SettledInv

(* Whoever is bound takes a settled priority along, into its start token.    *)
LEMMA BindToKeepsSettled ==
  ASSUME SettledInv, NEW c \in Procs, NEW pr, NEW latency, NEW inherited, inherited # Inherit,
         BindTo(c, pr, latency, inherited)
  PROVE  /\ life' \in [Procs -> {"unbound", "bound", "complete"}]
         /\ DOMAIN priority' = Procs
         /\ \A p \in Procs : life'[p] # "unbound" => priority'[p] # Inherit
         /\ life'[c] # "unbound"
         /\ \A p \in Procs : life[p] # "unbound" => life'[p] # "unbound"
         /\ \A e \in pending' : e.priority # Inherit /\ e.id \in Procs /\ life'[e.id] # "unbound"
<1>1. Resolved(pr, inherited) # Inherit
  BY ResolvedIsSettled
<1>2. /\ life' = [life EXCEPT ![c] = "bound"]
      /\ priority' = [priority EXCEPT ![c] = Resolved(pr, inherited)]
      /\ \A e \in pending' : e \in pending \/ (e.id = c /\ e.priority = Resolved(pr, inherited))
  BY DEF BindTo, Token
<1> QED BY <1>1, <1>2 DEF SettledInv

LEMMA StartKeepsSettled ==
  ASSUME SettledInv, NEW p \in Procs, NEW c \in Children, NEW pr, NEW latency,
         Start(p, c, pr, latency)
  PROVE  SettledInv'
<1>1. c \in Procs /\ priority[p] # Inherit /\ BindTo(c, pr, latency, priority[p])
  BY DEF Start, Runs, SettledInv, Procs
<1>2. awaited' = awaited /\ current' = current
  BY DEF Start
<1> QED BY <1>1, <1>2, BindToKeepsSettled DEF SettledInv

LEMMA AwaitKeepsSettled ==
  ASSUME SettledInv, NEW p \in Procs, NEW c \in Children, NEW pr, NEW latency,
         Await(p, c, pr, latency)
  PROVE  SettledInv'
<1>1. c \in Procs /\ priority[p] # Inherit /\ life[p] # "unbound"
  BY DEF Await, Runs, SettledInv, Procs
<1>2. /\ life' \in [Procs -> {"unbound", "bound", "complete"}]
      /\ DOMAIN priority' = Procs
      /\ \A q \in Procs : life'[q] # "unbound" => priority'[q] # Inherit
      /\ life'[c] # "unbound"
      /\ \A q \in Procs : life[q] # "unbound" => life'[q] # "unbound"
      /\ \A e \in pending' : e.priority # Inherit /\ e.id \in Procs /\ life'[e.id] # "unbound"
  <2>1. CASE life[c] = "unbound"
    BY <1>1, <2>1, BindToKeepsSettled DEF Await
  <2>2. CASE life[c] # "unbound"
    BY <1>1, <2>2 DEF Await, SettledInv
  <2> QED BY <2>1, <2>2
<1>3. Resolved(pr, priority'[c]) # Inherit
  BY <1>1, <1>2, ResolvedIsSettled
<1>4. /\ DOMAIN awaited' = Procs
      /\ \A q \in Procs : \A t \in awaited'[q] :
           t \in awaited[q] \/ (t.to = p /\ t.priority = Resolved(pr, priority'[c]))
  BY DEF Await, Completion, SettledInv
<1>5. current' = None
  BY DEF Await
<1> QED BY <1>1, <1>2, <1>3, <1>4, <1>5 DEF SettledInv

LEMMA ReturnKeepsSettled ==
  ASSUME SettledInv, NEW p \in Procs, Return(p)
  PROVE  SettledInv'
<1>1. life' = [life EXCEPT ![p] = "complete"] /\ awaited' = [awaited EXCEPT ![p] = {}]
  BY DEF Return
<1>2. priority' = priority /\ current' = None
  BY DEF Return
<1>3. life[p] # "unbound"
  BY DEF Return, Runs, SettledInv
<1>4. \A e \in pending' : \/ e \in pending
                         \/ \E t \in awaited[p] : e.id = t.to /\ e.priority = t.priority
  BY DEF Return, Token
<1> QED BY <1>1, <1>2, <1>3, <1>4 DEF SettledInv

(* A wait for time resolves its priority against that of the process.        *)
LEMMA WaitUntilKeepsSettled ==
  ASSUME SettledInv, NEW p \in Procs, NEW time, NEW pr, NEW what, WaitUntil(p, time, pr, what)
  PROVE  SettledInv'
<1>1. life[p] # "unbound" /\ priority[p] # Inherit
  BY DEF WaitUntil, Runs, SettledInv
<1>2. Resolved(pr, priority[p]) # Inherit
  BY <1>1, ResolvedIsSettled
<1>3. \A e \in pending' : e \in pending \/ (e.id = p /\ e.priority = Resolved(pr, priority[p]))
  BY DEF WaitUntil, Token
<1>4. life' = life /\ priority' = priority /\ awaited' = awaited /\ current' = None
  BY DEF WaitUntil
<1> QED BY <1>1, <1>2, <1>3, <1>4 DEF SettledInv

(* co_main is bound outside every process, with the priority 0.              *)
LEMMA RunKeepsSettled ==
  ASSUME SettledInv, NEW c, Run(c)
  PROVE  SettledInv'
<1>1. awaited' = awaited /\ current' = current
  BY DEF Run
<1>2. CASE bound
  BY <1>1, <1>2 DEF Run, Bind, SettledInv
<1>3. CASE ~bound
  <2>1. BindTo(CoMain, Inherit, 0, 0) /\ CoMain \in Procs
    BY <1>3 DEF Run, Bind, Procs
  <2>2. 0 # Inherit
    BY InheritAssumption
  <2> QED BY <1>1, <2>1, <2>2, BindToKeepsSettled DEF SettledInv
<1> QED BY <1>2, <1>3

(* Nothing is scheduled, bound or resumed.                                   *)
LEMMA OthersKeepSettled ==
  ASSUME SettledInv, UNCHANGED <<life, priority, awaited, pending>>,
         current' = current
  PROVE  SettledInv'
BY DEF SettledInv

LEMMA StepKeepsSettled ==
  ASSUME SettledInv, NEW e \in pending, Step(e)
  PROVE  SettledInv'
<1>1. pending' \subseteq pending /\ current' = e.id
  BY DEF Step, Loop!Execute
<1> QED BY <1>1 DEF Step, SettledInv

LEMMA ReturnsKeepsSettled ==
  ASSUME SettledInv, Returns
  PROVE  SettledInv'
<1>1. pending' = pending
  BY DEF Returns, Loop!AdvanceTo, loop
<1> QED BY <1>1, OthersKeepSettled DEF Returns, procs

(* Every step preserves the invariant.                                       *)
LEMMA TimeoutNextSettled == SettledInv /\ [TimeoutNext]_vars => SettledInv'
<1> SUFFICES ASSUME SettledInv, [TimeoutNext]_vars PROVE SettledInv'
  OBVIOUS
<1>1. CASE Build
  BY <1>1, OthersKeepSettled DEF Build, loop, procs
<1>2. ASSUME NEW c \in Clocks, SetClock(c[1], c[2]) PROVE SettledInv'
  BY <1>2, OthersKeepSettled DEF SetClock, loop, procs
<1>3. ASSUME NEW p \in Procs, NEW pr \in GivenBy[p], NEW c \in Children, NEW l \in Latencies,
             Start(p, c, pr, l) \/ Await(p, c, pr, l)
      PROVE  SettledInv'
  BY <1>3, StartKeepsSettled, AwaitKeepsSettled
<1>4. ASSUME NEW p \in Procs, NEW pr \in GivenBy[p], NEW x \in Exprs, NEW how,
             Timeout(p, x, how, pr) \/ Until(p, x, how, pr) \/ LazyTimeout(p, x, how, pr)
      PROVE  SettledInv'
  <2>1. CASE Timeout(p, x, how, pr)
    BY <2>1, WaitUntilKeepsSettled DEF Timeout
  <2>2. CASE Until(p, x, how, pr)
    <3>1. CASE now >= Ticks(x)
      BY <2>2, <3>1, OthersKeepSettled DEF Until, loop, procs
    <3>2. CASE ~(now >= Ticks(x))
      BY <2>2, <3>2, WaitUntilKeepsSettled DEF Until
    <3> QED BY <3>1, <3>2
  <2>3. CASE LazyTimeout(p, x, how, pr)
    BY <2>3, OthersKeepSettled DEF LazyTimeout, loop
  <2> QED BY <1>4, <2>1, <2>2, <2>3
<1>5. ASSUME NEW p \in Procs, AwaitCaptured(p) PROVE SettledInv'
  <2>1. CASE now >= captured[p].time
    BY <1>5, <2>1, OthersKeepSettled DEF AwaitCaptured, loop
  <2>2. CASE ~(now >= captured[p].time)
    BY <1>5, <2>2, WaitUntilKeepsSettled DEF AwaitCaptured
  <2> QED BY <2>1, <2>2
<1>6. CASE Stopped \/ UNCHANGED vars
  BY <1>6, OthersKeepSettled DEF Stopped, vars, loop, procs
<1>7. ASSUME NEW x, CopyNull(x) PROVE SettledInv'
  BY <1>7, OthersKeepSettled DEF CopyNull, loop, procs
<1>8. ASSUME RunAll \/ \E x, how : RunFor(x, how) PROVE SettledInv'
  BY <1>8, RunKeepsSettled DEF RunAll, RunFor
<1> QED BY <1>1, <1>2, <1>3, <1>4, <1>5, <1>6, <1>7, <1>8, ReturnKeepsSettled,
           StepKeepsSettled, ReturnsKeepsSettled DEF TimeoutNext, Simulation

(* Whoever may run, or be resumed, or have a token scheduled for it has a    *)
(* priority of its own.                                                      *)
THEOREM SettledInvariance == TimeoutSpec => []SettledInv
BY TimeoutInitSettled, TimeoutNextSettled, PTL DEF TimeoutSpec

(* Inheriting is settled before a token is scheduled: the sentinel, which    *)
(* would come after every priority there is, never gets into the queue.      *)
THEOREM PrioritiesResolvedHolds == TimeoutSpec => []PrioritiesResolved
<1>1. SettledInv => PrioritiesResolved
  BY DEF SettledInv, PrioritiesResolved
<1> QED BY <1>1, SettledInvariance, PTL

-----------------------------------------------------------------------------
(* What a process waits for: what.due is counted as time, but for what.loss. *)
DueAt(what, time) ==
  /\ what = [at |-> what.at, due |-> <<what.due[1], what.due[2]>>,
             loss |-> <<what.loss[1], what.loss[2]>>]
  /\ Counted(what.due[1], what.due[2], time, what.loss[1], what.loss[2])

(* The clock is set when the simulation begins, and nothing runs before.     *)
ClockInv ==
  /\ now \in Int /\ call.t \in Int
  /\ precision # OneSecond => precision \in Precisions /\ unit \in Precisions
  /\ bound => precision # OneSecond
  /\ ~bound => \A p \in Procs : life[p] = "unbound"

(* One thing resumes a process: its token, the end of what it awaits, or     *)
(* nothing, when it runs.                                                    *)
OneWayInv ==
  /\ current # None => life[current] = "bound"
  /\ \A e \in pending : life[e.id] = "bound" /\ e.id # current
  /\ \A e, f \in pending : e.id = f.id => e = f
  /\ \A q \in Procs : \A t \in awaited[q] :
       /\ life[t.to] = "bound" /\ t.to # current
       /\ \A e \in pending : e.id # t.to
  /\ \A q, r \in Procs : \A t \in awaited[q], s \in awaited[r] : t.to = s.to => q = r /\ t = s

(* A token is for what its process asked, and late only if it was already    *)
(* when that was asked: the clock cannot move while it is pending.           *)
DueInv ==
  /\ DOMAIN asked = Procs /\ DOMAIN captured = Procs
  /\ \A q \in Procs : \A t \in awaited[q] : t.time \in Int
  /\ \A p \in Procs : captured[p] # None => DueAt(captured[p].what, captured[p].time)
  /\ \A e \in pending :
       /\ DueAt(asked[e.id], e.time)
       /\ e.time >= now \/ asked[e.id].at = now

LEMMA ExactlyIsDue ==
  ASSUME NEW t \in Int
  PROVE  DueAt(Exactly(t), t) /\ Exactly(t).at = now
<1>1. Counted(t, 1, t, 0, 1)
  BY DEF Counted
<1> QED BY <1>1 DEF DueAt, Exactly, Asked

(* An instant that an expression gives is counted as far from its base.      *)
LEMMA InstantIsDue ==
  ASSUME EvaluableInv, ClockInv, precision # OneSecond, NEW x \in Exprs, NEW base \in Int
  PROVE  /\ Ticks(x) \in Int
         /\ DueAt(InstantIn(base, x), base + Ticks(x)) /\ InstantIn(base, x).at = now
<1> DEFINE c == Ticks(x)
<1>1. exprs[x].says \in Trees
  BY DEF EvaluableInv
<1>2. precision \in Precisions /\ unit \in Precisions
  BY DEF ClockInv
<1>3. PICK n, d, l, m : /\ Exact(exprs[x].says, precision, unit) = <<n, d>>
                        /\ Loss(exprs[x].says, precision, unit) = <<l, m>>
                        /\ Counted(n, d, c, l, m)
  BY <1>1, <1>2, TreesAreCounted DEF TreeCounted, Ticks
<1> HIDE DEF c
<1>4. Counted(base * d + n * 1, 1 * d, base + c, l, m)
  <2>1. /\ base * d + n * 1 \in Int /\ 1 * d = d /\ base + c \in Int
        /\ (base * d + n * 1) - (base + c) * d = n - c * d
    BY <1>3 DEF Counted
  <2> QED BY <1>3, <2>1 DEF Counted
<1>5. InstantIn(base, x) = [at |-> now, due |-> <<base * d + n * 1, 1 * d>>, loss |-> <<l, m>>]
  BY <1>3 DEF InstantIn, Asked, Plus
<1>6. c \in Int
  BY <1>3 DEF Counted
<1> QED BY <1>4, <1>5, <1>6 DEF DueAt, c

(* What is due when it is resumed is resumed when it is due.                 *)
LEMMA DueIsNear ==
  ASSUME NEW what, NEW time, DueAt(what, time), NEW t \in Int, t >= time
  PROVE  /\ t = time => Near(Plus(what.due, <<-t, 1>>), what.loss)
         /\ Passed(Plus(what.due, <<-t, 1>>), what.loss)
<1> DEFINE n == what.due[1]  d == what.due[2]  l == what.loss[1]  m == what.loss[2]
<1>1. what.due = <<n, d>> /\ what.loss = <<l, m>> /\ Counted(n, d, time, l, m)
  BY DEF DueAt
<1> HIDE DEF n, d, l, m
<1>2. /\ n \in Int /\ d \in Int /\ d > 0 /\ time \in Int
      /\ l \in Int /\ l >= 0 /\ m \in Int /\ m > 0
      /\ IF l = 0 THEN n - time * d = 0 ELSE Abs(n - time * d) * m < l * d
  BY <1>1 DEF Counted
<1>3. Plus(what.due, <<-t, 1>>) = <<n - t * d, d>>
  <2>1. n * 1 + (-t) * d = n - t * d /\ d * 1 = d
    BY <1>2
  <2> QED BY <1>1, <2>1 DEF Plus
<1>4. t = time => Near(<<n - t * d, d>>, <<l, m>>)
  BY <1>2 DEF Near
<1>5. (n - t * d) * m <= l * d
  <2> DEFINE o == n - time * d
             v == n - t * d
  <2>1. o * m <= l * d
    <3>1. o \in Int /\ o <= Abs(o) /\ Abs(o) \in Int
      BY <1>2 DEF Abs
    <3>2. l = 0 => o = 0
      BY <1>2
    <3>3. l # 0 => Abs(o) * m < l * d
      BY <1>2
    <3>4. l * d \in Int
      BY <1>2
    <3> HIDE DEF o
    <3>5. o * m <= Abs(o) * m
      BY <1>2, <3>1
    <3>6. CASE l = 0
      BY <1>2, <3>2, <3>6
    <3>7. CASE l # 0
      BY <1>2, <3>1, <3>3, <3>4, <3>5, <3>7
    <3> QED BY <3>6, <3>7
  <2>2. o \in Int /\ v \in Int /\ v <= o
    <3>1. t * d >= time * d /\ t * d \in Int /\ time * d \in Int
      BY <1>2
    <3> QED BY <1>2, <3>1
  <2> HIDE DEF o, v
  <2>3. v * m <= o * m /\ v * m \in Int /\ o * m \in Int /\ l * d \in Int
    BY <1>2, <2>2
  <2>4. v * m <= l * d
    BY <2>1, <2>3
  <2> QED BY <2>4 DEF v
<1> QED BY <1>1, <1>3, <1>4, <1>5 DEF Passed

-----------------------------------------------------------------------------
LEMMA TimeoutInitOnTime == TimeoutInit => ClockInv /\ OneWayInv /\ DueInv
BY NoneAssumption DEF TimeoutInit, ClockInv, OneWayInv, DueInv, Loop!Init, NoCall

LEMMA ClockKept ==
  ASSUME EvaluableInv, SettledInv, ClockInv, DueInv, [TimeoutNext]_vars
  PROVE  ClockInv'
<1>1. ASSUME UNCHANGED <<now, clock, call, bound>>, bound PROVE ClockInv'
  BY <1>1 DEF ClockInv, clock
<1>2. ASSUME NEW p, Runs(p) PROVE bound
  BY <1>2 DEF Runs, ClockInv, SettledInv
<1>3. CASE Build
  BY <1>3 DEF Build, ClockInv, clock, loop, procs
<1>4. ASSUME NEW c \in Clocks, SetClock(c[1], c[2]) PROVE ClockInv'
  <2>1. c[1] \in Precisions /\ c[2] \in Precisions
    BY ClocksAssumption
  <2> QED BY <1>4, <2>1 DEF SetClock, ClockInv, loop, procs
<1>a. ASSUME NEW c, c.t \in Int, Run(c) PROVE ClockInv'
  BY <1>a DEF Run, Bind, clock, ClockInv
<1>b. CASE RunAll
  BY <1>b, <1>a DEF RunAll
<1>5. ASSUME NEW x \in Exprs, NEW how, RunFor(x, how) PROVE ClockInv'
  <2>1. Run([fn |-> "run_for", t |-> now + Ticks(x)]) /\ precision # OneSecond
    BY <1>5 DEF RunFor, Run
  <2>2. Ticks(x) \in Int
    BY <2>1, InstantIsDue, 0 \in Int
  <2> QED BY <1>a, <2>1, <2>2 DEF ClockInv
<1>6. ASSUME NEW p \in Procs, NEW pr \in GivenBy[p], NEW c \in Children, NEW l \in Latencies,
             Start(p, c, pr, l) \/ Await(p, c, pr, l)
      PROVE  ClockInv'
  BY <1>1, <1>2, <1>6 DEF Start, Await
<1>7. ASSUME NEW p \in Procs, NEW pr \in GivenBy[p], NEW x \in Exprs, NEW how,
             Timeout(p, x, how, pr) \/ Until(p, x, how, pr) \/ LazyTimeout(p, x, how, pr)
      PROVE  ClockInv'
  BY <1>1, <1>2, <1>7 DEF Timeout, Until, LazyTimeout, WaitUntil, loop, procs
<1>8. ASSUME NEW p \in Procs, Return(p) \/ AwaitCaptured(p) PROVE ClockInv'
  BY <1>1, <1>2, <1>8 DEF Return, AwaitCaptured, WaitUntil, loop
<1>9. ASSUME NEW e \in pending, Step(e) PROVE ClockInv'
  <2>1. bound
    BY DEF ClockInv, SettledInv
  <2>2. now' = Loop!Later(now, e.time) /\ UNCHANGED <<clock, call, bound>>
    BY <1>9 DEF Step, Loop!Execute, Loop!MoveTo
  <2>3. e.time \in Int
    BY DEF DueInv, DueAt, Counted
  <2>4. now' \in Int
    BY <2>2, <2>3 DEF Loop!Later, ClockInv
  <2> QED BY <2>1, <2>2, <2>4 DEF ClockInv, clock
<1>10. CASE Returns
  <2>1. call' = NoCall /\ UNCHANGED <<precision, unit, bound, life>>
    BY <1>10 DEF Returns, clock, procs
  <2>2. now' \in Int
    BY <1>10 DEF Returns, Loop!AdvanceTo, Loop!MoveTo, Loop!Later, loop, ClockInv
  <2> QED BY <2>1, <2>2 DEF ClockInv, NoCall
<1>11. ASSUME Stopped \/ UNCHANGED vars \/ \E x : CopyNull(x) PROVE ClockInv'
  <2>1. UNCHANGED <<now, precision, unit, call, bound, life>>
    BY <1>11 DEF Stopped, CopyNull, vars, clock, loop, procs
  <2> QED BY <2>1 DEF ClockInv
<1> QED BY <1>3, <1>4, <1>b, <1>5, <1>6, <1>7, <1>8, <1>9, <1>10, <1>11 DEF TimeoutNext, Simulation

(* A process that nothing resumes yet is bound: its start token is for it.   *)
LEMMA StartOnTime ==
  ASSUME SettledInv, ClockInv, OneWayInv, DueInv, LatenciesAssumption,
         NEW p \in Procs, NEW c \in Children, NEW pr, NEW l \in Latencies, Start(p, c, pr, l)
  PROVE  OneWayInv' /\ DueInv'
<1> DEFINE k == Token(c, now + l, Resolved(pr, priority[p]))
<1>1. /\ life[c] = "unbound" /\ life' = [life EXCEPT ![c] = "bound"]
      /\ pending' = pending \cup {k}
      /\ asked' = [asked EXCEPT ![c] = Exactly(now + l)]
      /\ UNCHANGED <<now, current, captured, awaited>>
  BY DEF Start, BindTo
<1>2. k.id = c /\ k.time = now + l
  BY DEF Token
<1>3. now + l \in Int /\ c \in Procs
  BY LatenciesAssumption DEF ClockInv, Procs
<1>4. DueAt(Exactly(now + l), now + l) /\ Exactly(now + l).at = now
  BY <1>3, ExactlyIsDue
<1> HIDE DEF k
<1>5. \A e \in pending : e.id # c /\ e.id \in Procs
  BY <1>1 DEF OneWayInv, SettledInv
<1>6. OneWayInv'
  <2>1. DOMAIN life = Procs /\ current = p /\ p # None /\ life[p] = "bound"
    BY DEF SettledInv, OneWayInv, Start, Runs
  <2>2. \A q \in Procs : life[q] = "bound" => life'[q] = "bound"
    BY <1>1, <2>1
  <2>3. \A q \in Procs : \A t \in awaited[q] :
          t.to # c /\ t.to \in Procs /\ life[t.to] = "bound" /\ t.to # current
    BY <1>1 DEF OneWayInv, SettledInv
  <2>4. \A e \in pending' : life'[e.id] = "bound" /\ e.id # current
    BY <1>1, <1>2, <1>3, <1>5, <2>1, <2>2 DEF OneWayInv
  <2>5. \A e, f \in pending' : e.id = f.id => e = f
    BY <1>1, <1>2, <1>5 DEF OneWayInv
  <2>6. \A q \in Procs : \A t \in awaited[q] :
          /\ life'[t.to] = "bound" /\ t.to # current
          /\ \A e \in pending' : e.id # t.to
    BY <1>1, <1>2, <2>2, <2>3 DEF OneWayInv
  <2>7. life'[current] = "bound"
    BY <2>1, <2>2
  <2> QED BY <1>1, <2>4, <2>5, <2>6, <2>7 DEF OneWayInv
<1>7. DueInv'
  BY <1>1, <1>2, <1>3, <1>4, <1>5 DEF DueInv
<1> QED BY <1>6, <1>7

LEMMA AwaitOnTime ==
  ASSUME SettledInv, ClockInv, OneWayInv, DueInv, LatenciesAssumption,
         NEW p \in Procs, NEW c \in Children, NEW pr, NEW l \in Latencies, Await(p, c, pr, l)
  PROVE  OneWayInv' /\ DueInv'
<1> DEFINE k == Token(c, now + 0, Resolved(Inherit, priority[p]))
           t == Completion(p, c, pr, l)
<1>1. /\ Runs(p) /\ current' = None
      /\ awaited' = [awaited EXCEPT ![c] = @ \cup {t}]
      /\ UNCHANGED <<now, captured>>
  BY DEF Await
<1>2. k.id = c /\ k.time = now + 0 /\ t.to = p /\ t.time = l
  BY DEF Token, Completion
<1>3. now + 0 = now /\ now \in Int /\ l \in Int /\ c \in Procs /\ current = p /\ p # None
  BY <1>1, LatenciesAssumption DEF ClockInv, Procs, Runs
<1>4. DueAt(Exactly(now), now)
  BY <1>3, ExactlyIsDue
<1>5. \/ /\ life[c] = "unbound" /\ life' = [life EXCEPT ![c] = "bound"]
         /\ pending' = pending \cup {k}
         /\ asked' = [asked EXCEPT ![c] = Exactly(now)]
      \/ UNCHANGED <<life, pending, asked>>
  BY DEF Await, BindTo
<1> HIDE DEF k, t
<1>6. life[p] = "bound" /\ \A e \in pending : e.id # p /\ e.id \in Procs
  BY <1>3 DEF OneWayInv, SettledInv
<1>7. DOMAIN awaited = Procs /\ DOMAIN life = Procs
  BY DEF SettledInv
<1>8. \A q \in Procs : \A s \in awaited'[q] : s \in awaited[q] \/ (q = c /\ s = t)
  BY <1>1, <1>7
<1>9. \A q \in Procs : \A s \in awaited[q] : s.to # p /\ s.to \in Procs
  BY <1>3 DEF OneWayInv, SettledInv
<1>10. CASE UNCHANGED <<life, pending, asked>>
  <2>1. OneWayInv'
    <3>1. \A q \in Procs : \A s \in awaited'[q] :
            /\ life[s.to] = "bound"
            /\ \A e \in pending : e.id # s.to
      <4>1. \A q \in Procs : \A s \in awaited[q] :
              life[s.to] = "bound" /\ \A e \in pending : e.id # s.to
        BY DEF OneWayInv
      <4> QED BY <1>2, <1>6, <1>8, <4>1
    <3>2. \A q, r \in Procs : \A s \in awaited'[q], v \in awaited'[r] : s.to = v.to => q = r /\ s = v
      <4>1. \A q, r \in Procs : \A s \in awaited[q], v \in awaited[r] : s.to = v.to => q = r /\ s = v
        BY DEF OneWayInv
      <4> QED BY <1>2, <1>8, <1>9, <4>1
    <3>3. \A q \in Procs : \A s \in awaited'[q] : s.to \in Procs
      BY <1>2, <1>8, <1>9
    <3>4. \A e \in pending : life[e.id] = "bound" /\ \A f \in pending : e.id = f.id => e = f
      BY DEF OneWayInv
    <3> QED BY <1>1, <1>6, <1>10, <3>1, <3>2, <3>3, <3>4, NoneAssumption DEF OneWayInv, Procs
  <2>2. DueInv'
    BY <1>1, <1>2, <1>3, <1>8, <1>10 DEF DueInv
  <2> QED BY <2>1, <2>2
<1>11. CASE /\ life[c] = "unbound" /\ life' = [life EXCEPT ![c] = "bound"]
            /\ pending' = pending \cup {k}
            /\ asked' = [asked EXCEPT ![c] = Exactly(now)]
  <2>1. c # p /\ \A e \in pending : e.id # c
    BY <1>6, <1>11 DEF OneWayInv
  <2>2. OneWayInv'
    <3>1. /\ \A q \in Procs : life[q] = "bound" => life'[q] = "bound"
          /\ life'[c] = "bound"
      BY <1>3, <1>7, <1>11
    <3>2. \A q \in Procs : \A s \in awaited'[q] :
            life[s.to] = "bound" /\ s.to # c /\ s.to \in Procs /\ \A e \in pending : e.id # s.to
      <4>1. \A q \in Procs : \A s \in awaited[q] :
              life[s.to] = "bound" /\ s.to # c /\ s.to \in Procs /\ \A e \in pending : e.id # s.to
        BY <1>9, <1>11 DEF OneWayInv
      <4> QED BY <1>2, <1>3, <1>6, <1>8, <2>1, <4>1
    <3>3. \A q, r \in Procs : \A s \in awaited'[q], v \in awaited'[r] : s.to = v.to => q = r /\ s = v
      <4>1. \A q, r \in Procs : \A s \in awaited[q], v \in awaited[r] : s.to = v.to => q = r /\ s = v
        BY DEF OneWayInv
      <4> QED BY <1>2, <1>8, <1>9, <4>1
    <3>4. \A e \in pending' : life'[e.id] = "bound" /\ e.id \in Procs
      BY <1>2, <1>3, <1>6, <1>11, <3>1 DEF OneWayInv
    <3>5. \A e, f \in pending' : e.id = f.id => e = f
      BY <1>2, <1>11, <2>1 DEF OneWayInv
    <3>6. \A q \in Procs : \A s \in awaited'[q] :
            life'[s.to] = "bound" /\ s.to \in Procs /\ \A e \in pending' : e.id # s.to
      BY <1>2, <1>11, <3>1, <3>2
    <3> QED BY <1>1, <3>3, <3>4, <3>5, <3>6, NoneAssumption DEF OneWayInv, Procs
  <2>3. DueInv'
    BY <1>1, <1>2, <1>3, <1>4, <1>6, <1>8, <1>11, <2>1 DEF DueInv
  <2> QED BY <2>2, <2>3
<1> QED BY <1>5, <1>10, <1>11

(* Who awaits a process that returns is resumed by the token of that.        *)
LEMMA ReturnOnTime ==
  ASSUME SettledInv, ClockInv, OneWayInv, DueInv, NEW p \in Procs, Return(p)
  PROVE  OneWayInv' /\ DueInv'
<1> DEFINE New == {Token(t.to, t.time + now, t.priority) : t \in awaited[p]}
<1>1. /\ pending' = pending \cup New
      /\ awaited' = [awaited EXCEPT ![p] = {}]
      /\ life' = [life EXCEPT ![p] = "complete"]
      /\ current' = None /\ current = p
      /\ UNCHANGED <<now, captured>>
  BY DEF Return, Runs
<1>2. \A k \in New : \E t \in awaited[p] : k.id = t.to /\ k.time = t.time + now
                                           /\ k = Token(t.to, t.time + now, t.priority)
  BY DEF Token
<1>3. /\ \A q \in Procs : awaited'[q] \subseteq awaited[q]
      /\ awaited'[p] = {}
      /\ \A q \in Procs : q # p => life'[q] = life[q]
  BY <1>1 DEF SettledInv
<1>4. \A q \in Procs : \A t \in awaited[q] :
        /\ t.to \in Procs /\ t.to # p /\ life[t.to] = "bound" /\ t.time \in Int
        /\ \A e \in pending : e.id # t.to
        /\ \A r \in Procs : \A s \in awaited[r] : t.to = s.to => q = r /\ t = s
  BY <1>1 DEF SettledInv, OneWayInv, DueInv
<1>5. \A e \in pending : e.id \in Procs /\ e.id # p /\ life[e.id] = "bound"
  BY <1>1 DEF SettledInv, OneWayInv
<1>6. \A k \in New : k.id \in Procs /\ k.id # p /\ life[k.id] = "bound" /\ \A e \in pending : e.id # k.id
  BY <1>2, <1>4
<1>7. \A k, j \in New : k.id = j.id => k = j
  BY <1>2, <1>4
<1>8. \A q \in Procs : \A t \in awaited'[q] : \A k \in New : k.id # t.to
  BY <1>2, <1>3, <1>4
<1>9. ASSUME NEW k \in New
      PROVE  DueAt(asked'[k.id], k.time) /\ asked'[k.id].at = now
  <2>1. PICK t \in awaited[p] : k.id = t.to /\ k.time = t.time + now
    BY <1>2
  <2> DEFINE mine == {s \in awaited[p] : s.to = k.id}
  <2>2. mine = {t}
    BY <1>4, <2>1
  <2>3. asked'[k.id] = IF mine = {} THEN asked[k.id] ELSE Exactly((CHOOSE s \in mine : TRUE).time + now)
    BY <1>6 DEF Return
  <2>4. asked'[k.id] = Exactly(t.time + now)
    BY <2>2, <2>3
  <2>5. t.time + now \in Int
    BY <1>4 DEF ClockInv
  <2> QED BY <2>1, <2>4, <2>5, ExactlyIsDue
<1>10. ASSUME NEW e \in pending PROVE asked'[e.id] = asked[e.id]
  <2>1. {s \in awaited[p] : s.to = e.id} = {}
    BY <1>4
  <2> QED BY <1>5, <2>1 DEF Return
<1>11. DOMAIN asked' = Procs
  BY DEF Return
<1> HIDE DEF New
<1>12. OneWayInv'
  <2>1. \A e \in pending' : life'[e.id] = "bound" /\ e.id # None
    BY <1>1, <1>3, <1>5, <1>6, NoneAssumption DEF Procs
  <2>2. \A e, f \in pending' : e.id = f.id => e = f
    BY <1>1, <1>6, <1>7 DEF OneWayInv
  <2>3. \A q \in Procs : \A t \in awaited'[q] :
          /\ life'[t.to] = "bound" /\ t.to # None
          /\ \A e \in pending' : e.id # t.to
    BY <1>1, <1>3, <1>4, <1>8, NoneAssumption DEF Procs
  <2>4. \A q, r \in Procs : \A t \in awaited'[q], s \in awaited'[r] : t.to = s.to => q = r /\ t = s
    BY <1>3, <1>4
  <2> QED BY <1>1, <2>1, <2>2, <2>3, <2>4 DEF OneWayInv
<1>13. DueInv'
  <2>1. \A e \in pending' : DueAt(asked'[e.id], e.time) /\ (e.time >= now \/ asked'[e.id].at = now)
    BY <1>1, <1>9, <1>10 DEF DueInv
  <2>2. \A q \in Procs : \A t \in awaited'[q] : t.time \in Int
    BY <1>3, <1>4
  <2> QED BY <1>1, <1>11, <2>1, <2>2 DEF DueInv
<1> QED BY <1>12, <1>13

(* Who waits for time is resumed by its token.                               *)
LEMMA WaitUntilOnTime ==
  ASSUME SettledInv, ClockInv, OneWayInv, DueInv,
         NEW p \in Procs, NEW time \in Int, NEW pr, NEW what, WaitUntil(p, time, pr, what),
         DueAt(what, time), time >= now \/ what.at = now,
         captured' = captured \/ captured' = [captured EXCEPT ![p] = None]
  PROVE  OneWayInv' /\ DueInv'
<1> DEFINE k == Token(p, time, Resolved(pr, priority[p]))
<1>1. /\ pending' = pending \cup {k}
      /\ asked' = [asked EXCEPT ![p] = what]
      /\ current = p /\ p # None /\ current' = None
      /\ UNCHANGED <<now, life, awaited>>
  BY DEF WaitUntil, Runs
<1>2. k.id = p /\ k.time = time
  BY DEF Token
<1> HIDE DEF k
<1>3. life[p] = "bound" /\ \A e \in pending : e.id # p /\ e.id \in Procs /\ life[e.id] = "bound"
  BY <1>1 DEF OneWayInv, SettledInv
<1>4. \A q \in Procs : \A t \in awaited[q] :
        /\ t.to # p /\ t.to \in Procs /\ life[t.to] = "bound"
        /\ \A e \in pending : e.id # t.to
  BY <1>1 DEF OneWayInv, SettledInv
<1>5. OneWayInv'
  <2>1. \A e \in pending' : life[e.id] = "bound" /\ e.id # None
    BY <1>1, <1>2, <1>3, NoneAssumption DEF Procs
  <2>2. \A e, f \in pending' : e.id = f.id => e = f
    BY <1>1, <1>2, <1>3 DEF OneWayInv
  <2>3. \A q \in Procs : \A t \in awaited[q] :
          /\ life[t.to] = "bound" /\ t.to # None
          /\ \A e \in pending' : e.id # t.to
    BY <1>1, <1>2, <1>4, NoneAssumption DEF Procs
  <2> QED BY <1>1, <2>1, <2>2, <2>3 DEF OneWayInv
<1>6. DueInv'
  <2>1. \A e \in pending' : DueAt(asked'[e.id], e.time) /\ (e.time >= now \/ asked'[e.id].at = now)
    BY <1>1, <1>2, <1>3 DEF DueInv
  <2>2. /\ DOMAIN captured' = Procs
        /\ \A q \in Procs : captured'[q] # None => captured'[q] = captured[q]
    BY DEF DueInv
  <2> QED BY <1>1, <2>1, <2>2 DEF DueInv
<1> QED BY <1>5, <1>6

(* The start token of co_main is the first there is.                         *)
LEMMA RunOnTime ==
  ASSUME SettledInv, ClockInv, OneWayInv, DueInv, NEW c, Run(c)
  PROVE  OneWayInv' /\ DueInv'
<1> DEFINE k == Token(CoMain, now + 0, Resolved(Inherit, 0))
<1>1. UNCHANGED <<now, current, captured, awaited>>
  BY DEF Run
<1>2. CASE bound
  <2>1. UNCHANGED <<life, pending, asked>>
    BY <1>2 DEF Run, Bind
  <2> QED BY <1>1, <2>1 DEF OneWayInv, DueInv
<1>3. CASE ~bound
  <2>1. /\ life' = [life EXCEPT ![CoMain] = "bound"]
        /\ pending' = pending \cup {k}
        /\ asked' = [asked EXCEPT ![CoMain] = Exactly(now)]
    BY <1>3 DEF Run, Bind, BindTo
  <2>2. k.id = CoMain /\ k.time = now
    BY DEF Token, ClockInv
  <2>3. DueAt(Exactly(now), now)
    BY ExactlyIsDue DEF ClockInv
  <2> HIDE DEF k
  <2>4. CoMain \in Procs /\ DOMAIN life = Procs /\ now \in Int
    BY DEF Procs, SettledInv, ClockInv
  <2>5. /\ pending = {} /\ current = None
        /\ \A q \in Procs : awaited[q] = {}
    BY <1>3 DEF ClockInv, OneWayInv, SettledInv
  <2>6. OneWayInv'
    BY <1>1, <2>1, <2>2, <2>4, <2>5, NoneAssumption DEF OneWayInv, Procs
  <2>7. DueInv'
    BY <1>1, <2>1, <2>2, <2>3, <2>4, <2>5 DEF DueInv
  <2> QED BY <2>6, <2>7
<1> QED BY <1>2, <1>3

(* The clock moves to what is next, and passes nothing that is pending.      *)
LEMMA StepOnTime ==
  ASSUME SettledInv, ClockInv, OneWayInv, DueInv, NEW e \in pending, Step(e)
  PROVE  OneWayInv' /\ DueInv'
<1>1. /\ pending' = pending \ {e} /\ now' = Loop!Later(now, e.time)
      /\ Loop!Minimal(e) /\ current = None /\ current' = e.id
      /\ UNCHANGED <<life, captured, awaited, asked>>
  BY DEF Step, Loop!Execute, Loop!MoveTo
<1>2. OneWayInv'
  BY <1>1 DEF OneWayInv
<1>3. \A f \in pending : f.time \in Int /\ e.time <= f.time
  <2>1. \A f \in pending : f.time \in Int
    BY DEF DueInv, DueAt, Counted
  <2>2. \A f \in pending : Loop!Goes(e, f)
    BY <1>1 DEF Loop!Minimal
  <2> QED BY <2>1, <2>2 DEF Loop!Goes
<1>4. ASSUME NEW f \in pending' PROVE f.time >= now' \/ asked[f.id].at = now'
  <2>1. f.time >= now \/ asked[f.id].at = now
    BY <1>1 DEF DueInv
  <2> QED BY <1>1, <1>3, <2>1 DEF Loop!Later, ClockInv
<1>5. DueInv'
  BY <1>1, <1>4 DEF DueInv
<1> QED BY <1>2, <1>5

LEMMA ReturnsOnTime ==
  ASSUME SettledInv, ClockInv, OneWayInv, DueInv, Returns
  PROVE  OneWayInv' /\ DueInv'
<1>1. UNCHANGED <<pending, current, life, captured, awaited, asked>>
  BY DEF Returns, procs, loop, Loop!AdvanceTo
<1>2. OneWayInv'
  BY <1>1 DEF OneWayInv
<1>3. ASSUME NEW f \in pending PROVE f.time >= now' \/ asked[f.id].at = now'
  <2>1. f.time >= now \/ asked[f.id].at = now
    BY DEF DueInv
  <2>2. f.time \in Int /\ now \in Int /\ call.t \in Int
    BY DEF DueInv, DueAt, Counted, ClockInv
  <2>3. now' = now \/ (now' = Loop!Later(now, call.t) /\ f.time > call.t)
    BY DEF Returns, Loop!AdvanceTo, Loop!MoveTo, loop
  <2> QED BY <2>1, <2>2, <2>3 DEF Loop!Later
<1>4. DueInv'
  BY <1>1, <1>3 DEF DueInv
<1> QED BY <1>2, <1>4

LEMMA OthersOnTime ==
  ASSUME OneWayInv, DueInv, UNCHANGED <<now, pending, current, life, awaited, asked>>,
         captured' = captured \/ \E p : captured' = [captured EXCEPT ![p] = None]
  PROVE  OneWayInv' /\ DueInv'
<1>1. OneWayInv'
  BY DEF OneWayInv
<1>2. /\ DOMAIN captured' = Procs
      /\ \A q \in Procs : captured'[q] # None => captured'[q] = captured[q]
  BY DEF DueInv
<1>3. DueInv'
  BY <1>2 DEF DueInv
<1> QED BY <1>1, <1>3

(* What a process waits for it has from expressions, or captured from one.   *)
LEMMA TimeOnTime ==
  ASSUME EvaluableInv, SettledInv, ClockInv, OneWayInv, DueInv,
         NEW p \in Procs, NEW x \in Exprs, NEW how, NEW pr,
         Timeout(p, x, how, pr) \/ Until(p, x, how, pr) \/ LazyTimeout(p, x, how, pr)
  PROVE  OneWayInv' /\ DueInv'
<1>1. bound /\ precision # OneSecond
  BY DEF Timeout, Until, LazyTimeout, WaitUntil, Runs, ClockInv, SettledInv
<1>2. /\ Ticks(x) \in Int /\ now \in Int
      /\ DueAt(InstantIn(now, x), now + Ticks(x)) /\ InstantIn(now, x).at = now
      /\ DueAt(InstantIn(0, x), 0 + Ticks(x)) /\ 0 + Ticks(x) = Ticks(x)
  BY <1>1, InstantIsDue DEF ClockInv
<1>3. Deadline(x) = now + Ticks(x) /\ Deadline(x) \in Int
  BY <1>2 DEF Deadline
<1>4. CASE Timeout(p, x, how, pr)
  BY <1>2, <1>3, <1>4, WaitUntilOnTime DEF Timeout
<1>5. CASE Until(p, x, how, pr)
  <2>1. CASE now >= Ticks(x)
    BY <1>5, <2>1, OthersOnTime DEF Until, loop, procs
  <2>2. CASE ~(now >= Ticks(x))
    <3>1. Ticks(x) >= now
      BY <1>2, <2>2
    <3> QED BY <1>2, <1>5, <2>2, <3>1, WaitUntilOnTime DEF Until
  <2> QED BY <2>1, <2>2
<1>6. CASE LazyTimeout(p, x, how, pr)
  <2> DEFINE what == [time |-> Deadline(x), priority |-> pr, what |-> InstantIn(now, x)]
  <2>1. /\ captured' = [captured EXCEPT ![p] = what]
        /\ UNCHANGED <<now, pending, current, life, awaited, asked>>
    BY <1>6 DEF LazyTimeout, loop
  <2>2. DueAt(what.what, what.time)
    BY <1>2, <1>3
  <2> HIDE DEF what
  <2>3. OneWayInv'
    BY <2>1 DEF OneWayInv
  <2>4. DueInv'
    BY <2>1, <2>2 DEF DueInv
  <2> QED BY <2>3, <2>4
<1> QED BY <1>4, <1>5, <1>6

LEMMA CapturedOnTime ==
  ASSUME SettledInv, ClockInv, OneWayInv, DueInv, NEW p \in Procs, AwaitCaptured(p)
  PROVE  OneWayInv' /\ DueInv'
<1> DEFINE time == captured[p].time
           what == captured[p].what
           again == [what EXCEPT !.at = now]
<1>1. /\ captured' = [captured EXCEPT ![p] = None]
      /\ DueAt(what, time)
  BY DEF AwaitCaptured, DueInv
<1>2. time \in Int /\ now \in Int
  BY <1>1 DEF DueAt, Counted, ClockInv
<1>3. DueAt(again, time)
  BY <1>1 DEF DueAt
<1>4. CASE now >= time
  <2>1. UNCHANGED <<now, pending, current, life, awaited, asked>>
    BY <1>4 DEF AwaitCaptured, loop
  <2> QED BY <1>1, <2>1, OthersOnTime
<1>5. CASE ~(now >= time)
  <2>1. WaitUntil(p, time, captured[p].priority, again)
    BY <1>5 DEF AwaitCaptured
  <2>2. time >= now
    BY <1>2, <1>5
  <2> HIDE DEF time, again
  <2> QED BY <1>1, <1>2, <1>3, <2>1, <2>2, WaitUntilOnTime
<1> QED BY <1>4, <1>5

(* Every step preserves the invariants.                                      *)
LEMMA TimeoutNextOnTime ==
  EvaluableInv /\ SettledInv /\ ClockInv /\ OneWayInv /\ DueInv /\ [TimeoutNext]_vars
    => ClockInv' /\ OneWayInv' /\ DueInv'
<1> SUFFICES ASSUME EvaluableInv, SettledInv, ClockInv, OneWayInv, DueInv, [TimeoutNext]_vars
             PROVE  OneWayInv' /\ DueInv'
  BY ClockKept
<1>1. CASE Build
  BY <1>1, OthersOnTime DEF Build, loop, procs
<1>2. ASSUME NEW c \in Clocks, SetClock(c[1], c[2]) PROVE OneWayInv' /\ DueInv'
  BY <1>2, OthersOnTime DEF SetClock, loop, procs
<1>3. ASSUME NEW p \in Procs, NEW pr \in GivenBy[p], NEW c \in Children, NEW l \in Latencies,
             Start(p, c, pr, l) \/ Await(p, c, pr, l)
      PROVE  OneWayInv' /\ DueInv'
  BY <1>3, LatenciesAssumption, StartOnTime, AwaitOnTime
<1>4. ASSUME NEW p \in Procs, NEW pr \in GivenBy[p], NEW x \in Exprs, NEW how,
             Timeout(p, x, how, pr) \/ Until(p, x, how, pr) \/ LazyTimeout(p, x, how, pr)
      PROVE  OneWayInv' /\ DueInv'
  BY <1>4, TimeOnTime
<1>5. CASE Stopped \/ UNCHANGED vars
  BY <1>5, OthersOnTime DEF Stopped, vars, loop, procs
<1>6. ASSUME NEW x, CopyNull(x) PROVE OneWayInv' /\ DueInv'
  BY <1>6, OthersOnTime DEF CopyNull, loop, procs
<1>7. ASSUME RunAll \/ \E x, how : RunFor(x, how) PROVE OneWayInv' /\ DueInv'
  BY <1>7, RunOnTime DEF RunAll, RunFor
<1> QED BY <1>1, <1>2, <1>3, <1>4, <1>5, <1>6, <1>7, ReturnOnTime, CapturedOnTime,
           StepOnTime, ReturnsOnTime DEF TimeoutNext, Simulation

(* One thing resumes each process, at the time that it asked for, and no run *)
(* of the clock makes a pending token late.                                  *)
THEOREM DueInvariance == TimeoutSpec => [](ClockInv /\ OneWayInv /\ DueInv)
BY TimeoutInitOnTime, TimeoutNextOnTime, EvaluableInSimulation, SettledInvariance, PTL
   DEF TimeoutSpec

(* A process that waits for time, for a start or for a completion goes on    *)
(* when it is due, but for what its expression loses, and at once if that    *)
(* had passed when the wait began: whatever runs before it, however main     *)
(* slices the run, in every precision and unit.                              *)
THEOREM OnTimeHolds == TimeoutSpec => OnTime
<1> DEFINE Goes(p) == current = None /\ current' = p
           Timely(p) ==
             \/ Near(Plus(asked[p].due, <<-now', 1>>), asked[p].loss)
             \/ now' = asked[p].at /\ Passed(Plus(asked[p].due, <<-now', 1>>), asked[p].loss)
<1>1. ASSUME ClockInv, SettledInv, DueInv, [TimeoutNext]_vars, NEW p \in Procs, Goes(p)
      PROVE  Timely(p)
  <2>1. p # None
    BY NoneAssumption DEF Procs
  <2>2. PICK e \in pending : Step(e)
    <3>1. Build => UNCHANGED current
      BY DEF Build, procs
    <3>2. /\ \A c : SetClock(c[1], c[2]) => UNCHANGED current
          /\ RunAll => UNCHANGED current
          /\ \A x, how : RunFor(x, how) \/ CopyNull(x) => UNCHANGED current
      BY DEF SetClock, RunAll, RunFor, Run, CopyNull, procs
    <3>3. \A q, c, pr, l : ~Start(q, c, pr, l) /\ ~Await(q, c, pr, l)
      BY <1>1 DEF Start, Await, Runs
    <3>4. \A q, x, how, pr :
            ~Timeout(q, x, how, pr) /\ ~Until(q, x, how, pr) /\ ~LazyTimeout(q, x, how, pr)
      BY <1>1 DEF Timeout, Until, LazyTimeout, WaitUntil, Runs
    <3>5. \A q : ~Return(q) /\ ~AwaitCaptured(q)
      BY <1>1 DEF Return, AwaitCaptured, Runs
    <3>6. Returns \/ Stopped \/ UNCHANGED vars => UNCHANGED current
      BY DEF Returns, Stopped, vars, procs
    <3> QED BY <1>1, <2>1, <3>1, <3>2, <3>3, <3>4, <3>5, <3>6 DEF TimeoutNext, Simulation
  <2>3. now' = Loop!Later(now, e.time) /\ e.id = p
    BY <1>1, <2>2 DEF Step, Loop!Execute, Loop!MoveTo
  <2>4. /\ DueAt(asked[p], e.time) /\ (e.time >= now \/ asked[p].at = now)
        /\ e.time \in Int /\ now \in Int
    BY <1>1, <2>2, <2>3 DEF DueInv, DueAt, Counted, ClockInv
  <2>5. now' \in Int /\ now' >= e.time /\ (now' = e.time \/ (now' = now /\ e.time < now))
    <3> DEFINE late == now >= e.time
    <3>1. now' = IF late THEN now ELSE e.time
      BY <2>3 DEF Loop!Later
    <3> QED BY <2>4, <3>1
  <2> QED BY <2>4, <2>5, DueIsNear
<1>2. ClockInv /\ SettledInv /\ DueInv /\ [TimeoutNext]_vars
        => [\A p \in Procs : Goes(p) => Timely(p)]_vars
  BY <1>1
<1> QED BY <1>2, DueInvariance, SettledInvariance, PTL DEF TimeoutSpec, OnTime
==============================================================================
