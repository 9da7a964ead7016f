----------------------------- MODULE MCTimeouts -----------------------------
(* Timeouts with values for TLC, whose integers have 32 bits: small factors  *)
(* between units, and counts below and above them.                           *)
EXTENDS Timeouts, TLC

MCCounts == {-3, 5}
MCConv == [d \in 0..2 |-> 3^d]

(* A tick of five of the finest unit, and of five of the one before it.      *)
Tick(u) == [t |-> 5, u |-> u]
MCClocks == {<<Tick(2), Tick(2)>>, <<Tick(1), Tick(0)>>}

(* co_main gives 1 to what it starts and waits for, and was bound with 0; the *)
(* child inherits.                                                           *)
MCGiven == [p \in Procs |-> IF p = CoMain THEN {1} ELSE {Inherit}]

(* Literals, a node, and what is invalid itself or has null in it.           *)
MCWaited ==
  {Invalid, Unitless(5), TimeNode([t |-> 5, u |-> 2]), Minus(TimeNode([t |-> 5, u |-> 1])),
   Difference(Invalid, TimeNode([t |-> -3, u |-> 1]))}

AnyNames == Permutations(Exprs)
=============================================================================
