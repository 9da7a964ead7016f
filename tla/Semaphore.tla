------------------------------ MODULE Semaphore ------------------------------
(* sync::semaphore: up() and down() look at the count, wait on the event     *)
(* until it allows them, change it and wake every waiter to look again.  Both *)
(* are subroutines: what lies between two waits runs without interruption.   *)
EXTENDS Naturals, FiniteSets, SyncEvent

CONSTANTS Max,        \* max_
          Initial     \* the initial counts looked at; the code checks none

ASSUME MaxAssumption == Max \in Nat
ASSUME InitialAssumption == Initial \subseteq Nat

VARIABLES value,      \* value_
          op          \* the operation each process is blocked in
vars == <<value, op, waiters, ready>>

Init ==
  /\ value \in Initial
  /\ op = [p \in Procs |-> "idle"]
  /\ EventInit

(* p calls o, or has been woken in it: either way it looks at the count now. *)
Looks(p, o) == op[p] = "idle" \/ (op[p] = o /\ p \in ready)

(* up(): the test of its loop, and what follows.                             *)
MayUpToo == value <= Max   \* mutant of MayUp
MayUp == value < Max

Up(p) ==
  /\ Looks(p, "up")
  /\ IF MayUp
     THEN /\ value' = value + 1
          /\ op' = [op EXCEPT ![p] = "idle"]
          /\ WakeAll(p)
     ELSE /\ op' = [op EXCEPT ![p] = "up"]
          /\ Waiting(p)
          /\ UNCHANGED value

(* down(), likewise.                                                         *)
MayDown == value > 0

Down(p) ==
  /\ Looks(p, "down")
  /\ IF MayDown
     THEN /\ value' = value - 1
          /\ op' = [op EXCEPT ![p] = "idle"]
          /\ WakeAll(p)
     ELSE /\ op' = [op EXCEPT ![p] = "down"]
          /\ Waiting(p)
          /\ UNCHANGED value

Next == \E p \in Procs : Up(p) \/ Down(p)

Spec == Init /\ [][Next]_vars

(* A scheduled token is reached as time passes: every woken process runs.    *)
Resumed(p) == p \in ready /\ (Up(p) \/ Down(p))
FairSpec == Spec /\ \A p \in Procs : WF_vars(Resumed(p))

-----------------------------------------------------------------------------
TypeOK ==
  /\ value \in Nat
  /\ op \in [Procs -> {"idle", "up", "down"}]
  /\ EventTypeOK
  /\ \A p \in Procs : op[p] # "idle" <=> p \in waiters \cup ready

(* Nobody sleeps on a count that allows its operation: every change of the   *)
(* count has woken all waiters, those of the other operation and, since the  *)
(* event is shared, those of the same one.                                   *)
NoLostWakeup ==
  \A p \in waiters : IF op[p] = "down" THEN value = 0 ELSE value >= Max

(* The loops over the event implement operations that take effect at once,   *)
(* and none of them waits for ever on a count that goes on allowing it.      *)
Atomic == INSTANCE AtomicSemaphore
AtomicSpec == Atomic!Spec
AtomicSafety == Atomic!Init /\ [][Atomic!Next]_<<value, op>>
==============================================================================
