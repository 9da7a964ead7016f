---------------------------- MODULE MCEnvironment ----------------------------
(* Environment with values for TLC: three tokens, three priorities, ties.  *)
EXTENDS Environment, TLC

(* Token objects and precisions are only ever compared with each other.      *)
AnyNames == Permutations(Ids) \cup Permutations(Precisions)

Program(kinds, priorities, latencies, exceptionLatencies, outcomes) ==
  [kinds |-> kinds, priorities |-> priorities, latencies |-> latencies,
   exceptionLatencies |-> exceptionLatencies, outcomes |-> outcomes]

(* A negative latency is legal, and makes a token that is late at once.      *)
LateTokens == Program({Wakeup, Handled}, {0, 1}, {-1, 0, 1}, {0}, {"returned"})
Failures == Program({Wakeup, Handled, Done}, {0}, {0, 2}, {0}, {"returned", "failed"})
LateExceptions == Program({Wakeup, Done}, {0, 1}, {0, 2}, {0, 2}, {"returned", "failed"})

(* It takes three priorities at one time for an exception token to disturb   *)
(* the order of others.                                                      *)
Disturbances == Program({Wakeup, Done}, {0, 1, 2}, {0, 2}, {0}, {"failed"})

LateTokensOrFailures == {LateTokens, Failures, Disturbances}
OnlyLateExceptions   == {LateExceptions}

(* The programs in the scope of the theorems, and the one that is not.       *)
ASSUME WhatIsTimely == (\A p \in LateTokensOrFailures : Timely(p)) /\ ~Timely(LateExceptions)
==============================================================================
