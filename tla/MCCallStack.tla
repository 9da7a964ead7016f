----------------------------- MODULE MCCallStack -----------------------------
(* CallStack with values for TLC: the subroutines are alike.                 *)
EXTENDS CallStack, TLC

SubSymmetry == Permutations(Subs)
==============================================================================
