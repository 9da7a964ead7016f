--------------------------- MODULE AtomicSemaphore ---------------------------
(* What a counting semaphore promises: an operation in progress takes effect *)
(* once, at a moment the count allows it, and it does take effect if the     *)
(* count allows it from some moment on.                                      *)
EXTENDS Naturals

CONSTANTS Procs,
          Max,        \* the maximum count
          Initial     \* the initial counts looked at

VARIABLES value, op     \* op[p]: the operation p is blocked in
vars == <<value, op>>

Allowed(o) == IF o = "up" THEN value < Max ELSE value > 0
After(o) == IF o = "up" THEN value + 1 ELSE value - 1

Init ==
  /\ value \in Initial
  /\ op = [p \in Procs |-> "idle"]

Block(p, o) ==
  /\ op[p] = "idle" /\ ~Allowed(o)
  /\ op' = [op EXCEPT ![p] = o]
  /\ UNCHANGED value

(* An operation takes effect when it is called or after it has blocked.      *)
Finish(p, o) ==
  /\ op[p] \in {"idle", o} /\ Allowed(o)
  /\ value' = After(o)
  /\ op' = [op EXCEPT ![p] = "idle"]

Next == \E p \in Procs, o \in {"up", "down"} : Block(p, o) \/ Finish(p, o)

Unblocks(p) == op[p] # "idle" /\ Finish(p, op[p])

Spec == Init /\ [][Next]_vars /\ \A p \in Procs : WF_vars(Unblocks(p))
==============================================================================
