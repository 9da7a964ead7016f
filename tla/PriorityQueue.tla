---------------------------- MODULE PriorityQueue ----------------------------
(* std::priority_queue over std::vector, as libstdc++ builds it: a binary    *)
(* heap kept in a sequence, pushed to with std::push_heap and popped from    *)
(* with std::pop_heap.  Less is the comparator the queue is built with.  The *)
(* standard asks for a strict weak order; these definitions say what the     *)
(* library does with any comparator.  Its loops are least sets of positions. *)
EXTENDS Integers, Sequences

CONSTANT Less(_, _)

(* The hole for v moves up while its parent goes after v: Rise has the       *)
(* positions it is at, from first to last.                                   *)
Passes(h, v, i) == i > 1 /\ Less(h[i \div 2], v)
ClosedUpward(h, v, S) == \A i \in S : Passes(h, v, i) => i \div 2 \in S
Rise(h, hole, v) ==
  {i \in 1..hole : \A S \in SUBSET (1..hole) : hole \in S /\ ClosedUpward(h, v, S) => i \in S}

(* Each takes its parent's element, and the last takes v.                    *)
SiftUp(h, hole, v) ==
  LET rise == Rise(h, hole, v)
  IN  [i \in DOMAIN h |-> IF i \notin rise THEN h[i]
                          ELSE IF Passes(h, v, i) THEN h[i \div 2] ELSE v]

Top(h) == h[1]

Push(h, v) == SiftUp(Append(h, v), Len(h) + 1, v)

(* The hole left by the top sinks among the first n positions, to the child  *)
(* that goes first, until there is none.                                     *)
Child(h, n, i) ==
  IF 2 * i < n /\ ~Less(h[2 * i + 1], h[2 * i]) THEN 2 * i + 1 ELSE 2 * i
ClosedDownward(h, n, S) == \A i \in S : 2 * i <= n => Child(h, n, i) \in S
Sink(h, n) ==
  {i \in 1..n : \A S \in SUBSET (1..n) : 1 \in S /\ ClosedDownward(h, n, S) => i \in S}
Leaf(h, n) == CHOOSE i \in Sink(h, n) : 2 * i > n

(* Each position on the way takes that child's element; the last element is  *)
(* sifted up from the leaf.                                                  *)
Sunk(h, n) ==
  LET sink == Sink(h, n)
  IN  [i \in 1..n |-> IF i \in sink /\ 2 * i <= n THEN h[Child(h, n, i)] ELSE h[i]]

Pop(h) ==
  LET n == Len(h) - 1
  IN  IF n = 0 THEN << >> ELSE SiftUp(Sunk(h, n), Leaf(h, n), h[Len(h)])
==============================================================================
