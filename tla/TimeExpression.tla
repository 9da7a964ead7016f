--------------------------- MODULE TimeExpression ---------------------------
(* Time quantities and expressions: what environment::real_to_sim makes of   *)
(* the delays and horizons a program writes, in 64-bit integers that do not  *)
(* overflow.  The program keeps time_exprs, each of which owns the tree of   *)
(* an expression that is counted later, in any precision and unit, and nodes *)
(* it has named (auto n = a + 1_s), whose time_exprs are moved out with them.*)
EXTENDS Integers, FiniteSetsExt

CONSTANTS Exprs,      \* the time_exprs
          Named,      \* the names of nodes
          Counts,     \* the counts of literals and precisions, and the scalars
          Finest,     \* the index of the finest unit; seconds are 0
          Conv,       \* conv: how many of a unit make one that is coarser by so many
          MaxNodes    \* bound on the nodes of all expressions together

ASSUME CountsAssumption == Counts \subseteq Int
ASSUME FinestAssumption == Finest \in Nat
ASSUME ConvAssumption ==
  /\ Conv \in [0..Finest -> Nat \ {0}]
  /\ \A i, j \in 0..Finest : i + j <= Finest => Conv[i + j] = Conv[i] * Conv[j]
ASSUME MaxNodesAssumption == MaxNodes \in Nat

VARIABLES
  exprs,    \* of each name in scope: what it says, and what is left of it when
            \* it is moved from
  crashed   \* a null impl_ was dereferenced

Time == [t : Counts, u : 0..Finest]
Precisions == {p \in Time : p.t > 0}

(* The nodes are compared by what they say, not by their addresses.          *)
TimeNode(q) == [op |-> "time", q |-> q]
Unitless(k) == [op |-> "unitless", k |-> k]
Minus(a) == [op |-> "minus", a |-> a]
Sum(a, b) == [op |-> "sum", a |-> a, b |-> b]
Difference(a, b) == [op |-> "difference", a |-> a, b |-> b]
Times(a, k) == [op |-> "times", a |-> a, k |-> k]
By(a, k) == [op |-> "over", a |-> a, k |-> k]

(* impl_ is null: default-constructed, or moved from.                        *)
Invalid == [op |-> "invalid"]

(* Expressions(leaves)[n] are those with at most n nodes above a leaf.  Trees *)
(* are all there can be, with null in any place.                             *)
Leaves == [op : {"time"}, q : Time] \cup [op : {"unitless"}, k : Counts]
Over(S) ==
  [op : {"minus"}, a : S] \cup [op : {"sum", "difference"}, a : S, b : S]
    \cup [op : {"times"}, a : S, k : Counts] \cup [op : {"over"}, a : S, k : Counts \ {0}]
Expressions(leaves) ==
  LET upTo[n \in Nat] == IF n = 0 THEN leaves ELSE leaves \cup Over(upTo[n - 1])
  IN  upTo
Trees == Expressions(Leaves \cup {Invalid})[MaxNodes]

-----------------------------------------------------------------------------
(* Integer division of C++: towards zero.                                    *)
Abs(n) == IF n < 0 THEN -n ELSE n
Quotient(n, d) == LET q == Abs(n) \div Abs(d) IN IF n * d < 0 THEN -q ELSE q

(* time::count                                                               *)
CountDividingFirst(q, p) ==   \* mutant of CountOf: conv * (t / precision.t)
  IF q.u < p.u THEN Conv[p.u - q.u] * Quotient(q.t, p.t)
               ELSE Quotient(Quotient(q.t, p.t), Conv[q.u - p.u])
CountOf(q, p) ==
  IF q.u < p.u THEN Quotient(Conv[p.u - q.u] * q.t, p.t)
               ELSE Quotient(Quotient(q.t, p.t), Conv[q.u - p.u])

CountNode(f, a, b, p, u) ==
  CASE f.op = "invalid"    -> 0
    [] f.op = "time"       -> CountOf(f.q, p)
    [] f.op = "unitless"   -> f.k * CountOf(u, p)
    [] f.op = "minus"      -> -a
    [] f.op = "sum"        -> a + b
    [] f.op = "difference" -> a - b
    [] f.op = "times"      -> a * f.k
    [] f.op = "over"       -> Quotient(a, f.k)
Count(e, p, u) ==
  LET count[f \in Trees] == CountNode(f, count[f.a], count[f.b], p, u) IN count[e]

Nodes(e) ==
  LET nodes[f \in Trees] ==
    CASE f.op = "invalid"                         -> 0
      [] f.op \in {"time", "unitless"}            -> 1
      [] f.op \in {"minus", "times", "over"}      -> 1 + nodes[f.a]
      [] f.op \in {"sum", "difference"}           -> 1 + nodes[f.a] + nodes[f.b]
  IN  nodes[e]

-----------------------------------------------------------------------------
Init ==
  /\ exprs = [x \in Exprs |-> [says |-> Invalid, left |-> Invalid]]
  /\ crashed = FALSE

(* An operand is taken by copying or by moving.  To copy clones every impl_  *)
(* in it, null or not; to move leaves nothing of a time_expr, and of a node  *)
(* what is no time_expr.                                                     *)
Operands == [of : DOMAIN exprs, how : {"copied", "moved"}]
Dereferences(E, o) == o.how = "copied" /\ E[o.of].says \notin Expressions(Leaves)[MaxNodes]
After(E, o) == IF o.how = "moved" THEN [E EXCEPT ![o.of].says = E[o.of].left] ELSE E

Crash == crashed' = TRUE /\ UNCHANGED exprs

(* x = v, or auto x = v, when the operands have left E.                      *)
Bounded ==
  /\ \A x \in DOMAIN exprs : exprs[x].says \in Trees /\ exprs[x].left \in Trees
  /\ MapThenSumSet(LAMBDA x : Nodes(exprs[x].says), DOMAIN exprs) <= MaxNodes

Kept(x, v) == IF x \in Exprs THEN [v EXCEPT !.left = Invalid] ELSE v

Store(x, v, E) ==
  /\ exprs' = [y \in DOMAIN E \cup {x} |-> IF y = x THEN Kept(x, v) ELSE E[y]]
  /\ Bounded'
  /\ UNCHANGED crashed

Each(Op(_), v) == [says |-> Op(v.says), left |-> Op(v.left)]
Both(Op(_, _), v, w) == [says |-> Op(v.says, w.says), left |-> Op(v.left, w.left)]
Itself(e) == [says |-> e, left |-> e]

Assign(x) ==
  \/ \E q \in Time : Store(x, Itself(TimeNode(q)), exprs)
  \/ \E k \in Counts : Store(x, Itself(Unitless(k)), exprs)

(* A time_expr from a time_expr or a node, and a node from a node.           *)
Transfer(x, o) ==
  /\ x # o.of /\ (x \in Named => o.of \in Named)
  /\ IF Dereferences(exprs, o) THEN Crash ELSE Store(x, exprs[o.of], After(exprs, o))

Unaries(v) ==
  {Each(Minus, v)} \cup {Each(LAMBDA e : Times(e, k), v) : k \in Counts}
    \cup {Each(LAMBDA e : By(e, k), v) : k \in Counts \ {0}}

Unary(x, o) ==
  IF Dereferences(exprs, o) THEN Crash
  ELSE \E v \in Unaries(exprs[o.of]) : Store(x, v, After(exprs, o))

(* make_node takes the left operand first.                                   *)
Binary(x, l, r) ==
  LET E == After(exprs, l)
  IN  IF Dereferences(exprs, l) \/ Dereferences(E, r) THEN Crash
      ELSE \/ Store(x, Both(Sum, exprs[l.of], E[r.of]), After(E, r))
           \/ Store(x, Both(Difference, exprs[l.of], E[r.of]), After(E, r))

Next ==
  /\ ~crashed
  /\ \E x \in Exprs \cup Named :
       \/ Assign(x)
       \/ \E o \in Operands : Transfer(x, o) \/ Unary(x, o)
       \/ \E l, r \in Operands : Binary(x, l, r)

Spec == Init /\ [][Next]_<<exprs, crashed>>

-----------------------------------------------------------------------------
(* An expression that is invalid counts as zero, says the comment on         *)
(* time_expr: so it can be used as what it counts, and copied like any other.*)
NoNullCloned == ~crashed

(* The reference: fractions <<n, d>> with d > 0.  Exact is the time e stands *)
(* for, in ticks; Loss what truncation may take away in all: less than one   *)
(* tick for each time that is no whole number of ticks, as often as it is    *)
(* taken, and for each division that does not come out even.                 *)
Plus(f, g) == <<f[1] * g[2] + g[1] * f[2], f[2] * g[2]>>
Fraction(n, d) == IF d < 0 THEN <<-n, -d>> ELSE <<n, d>>
Scaled(f, k) == <<f[1] * k, f[2]>>
Divided(f, k) == Fraction(f[1], f[2] * k)

ExactTime(q, p) == <<q.t * Conv[Finest - q.u], p.t * Conv[Finest - p.u]>>
Whole(f) == f[1] % f[2] = 0
LossOf(q, p) == IF Whole(ExactTime(q, p)) THEN <<0, 1>> ELSE <<1, 1>>

ExactNode(f, a, b, p, u) ==
  CASE f.op = "invalid"    -> <<0, 1>>
    [] f.op = "time"       -> ExactTime(f.q, p)
    [] f.op = "unitless"   -> Scaled(ExactTime(u, p), f.k)
    [] f.op = "minus"      -> Scaled(a, -1)
    [] f.op = "sum"        -> Plus(a, b)
    [] f.op = "difference" -> Plus(a, Scaled(b, -1))
    [] f.op = "times"      -> Scaled(a, f.k)
    [] f.op = "over"       -> Divided(a, f.k)
Exact(e, p, u) ==
  LET exact[f \in Trees] == ExactNode(f, exact[f.a], exact[f.b], p, u) IN exact[e]

LossNode(f, a, b, p, u) ==
  CASE f.op = "invalid"  -> <<0, 1>>
    [] f.op = "time"     -> LossOf(f.q, p)
    [] f.op = "unitless" -> Scaled(LossOf(u, p), Abs(f.k))
    [] f.op = "minus"    -> a
    [] f.op = "times"    -> Scaled(a, Abs(f.k))
    [] f.op = "over"     -> Plus(Divided(a, Abs(f.k)),
                                 <<IF Count(f.a, p, u) % Abs(f.k) = 0 THEN 0 ELSE 1, 1>>)
    [] f.op \in {"sum", "difference"} -> Plus(a, b)
Loss(e, p, u) ==
  LET loss[f \in Trees] == LossNode(f, loss[f.a], loss[f.b], p, u) IN loss[e]

Near(off, loss) ==
  IF loss[1] = 0 THEN off[1] = 0 ELSE Abs(off[1]) * loss[2] < loss[1] * off[2]

(* An expression counts what it says but for what its own terms lose: it is  *)
(* exact when all of them are whole numbers of ticks, and otherwise less than *)
(* Loss away, whatever the units, the precision and the order of operations. *)
AccurateToItsTerms ==
  \A x \in DOMAIN exprs, p, u \in Precisions :
    LET e == exprs[x].says
    IN  Near(Plus(Exact(e, p, u), <<-Count(e, p, u), 1>>), Loss(e, p, u))
=============================================================================
