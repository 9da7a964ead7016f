---------------------------- MODULE MCComposition ----------------------------
(* Composition with values for TLC: one composition inside another, with a   *)
(* process that appears in both; every choice of conditions is looked at.    *)
EXTENDS Composition, TLC

CONSTANTS p1, p2, t1, t2, outer, inner

Nested == outer :> {p1, inner, t1} @@ inner :> {p1, p2, t2}
Flat   == outer :> {p1, p2}
==============================================================================
