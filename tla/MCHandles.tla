------------------------------ MODULE MCHandles ------------------------------
(* Handles with values for TLC: coroutines are interchangeable.              *)
EXTENDS Handles, TLC

AnyNames == Permutations(Coros)
==============================================================================
