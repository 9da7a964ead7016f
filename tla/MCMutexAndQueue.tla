-------------------------- MODULE MCMutexAndQueue --------------------------
(* Mutex and Queue for TLC, side by side: a program uses the one or the      *)
(* other.  They share no state, so that what both together do adds nothing   *)
(* but the product of their states.                                          *)
EXTENDS Mutex, Queue

VARIABLE uses   \* which of the two

InitBoth == uses \in {"mutex", "queue"} /\ Init /\ QueueInit

UseMutex == uses = "mutex" /\ Next /\ UNCHANGED <<uses, queueVars>>
UseQueue == uses = "queue" /\ QueueNext /\ UNCHANGED <<uses, vars>>
NextBoth == UseMutex \/ UseQueue

allVars == <<uses, queueVars, vars>>

(* What each of them supposes: a woken process runs.                         *)
FairSpecBoth ==
  /\ InitBoth /\ [][NextBoth]_allVars
  /\ \A p \in Procs : WF_allVars(UseMutex /\ p \in woken /\ Acquire(p))
  /\ \A p \in Procs : WF_allVars(UseQueue /\ Resumed(p))
=============================================================================
