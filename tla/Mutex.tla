-------------------------------- MODULE Mutex --------------------------------
(* sync::mutex: acquire() waits on the event until the mutex is free, and    *)
(* returns a handle; the handle is moved, released or destroyed, and only    *)
(* its release frees the mutex.  Both functions are subroutines: what lies   *)
(* between two waits runs without interruption.                              *)
EXTENDS FiniteSets, Processes

VARIABLES owned,      \* owned_
          asking,     \* the processes blocked in acquire()
          holder,     \* who has the valid handle
          abandoned,  \* history: a valid handle has been destroyed
          asleep,     \* the waiters of its event,
          woken       \* and those whose tokens a wake has scheduled
vars == <<owned, asking, holder, abandoned, asleep, woken>>

Event == INSTANCE SyncEvent WITH waiters <- asleep, ready <- woken

Init ==
  /\ owned = FALSE
  /\ asking = {}
  /\ holder = {}
  /\ abandoned = FALSE
  /\ Event!EventInit

(* p calls acquire(), or has been woken in it; a holder may call it, too.    *)
Looks(p) == p \notin asking \/ p \in woken

IgnoresOwner == TRUE   \* mutant of IsFree
IsFree == ~owned

Acquire(p) ==
  /\ Looks(p)
  /\ IF IsFree
     THEN /\ owned' = TRUE
          /\ holder' = holder \cup {p}
          /\ asking' = asking \ {p}
          /\ woken' = woken \ {p}
          /\ UNCHANGED asleep
     ELSE /\ asking' = asking \cup {p}
          /\ Event!Waiting(p)
          /\ UNCHANGED <<owned, holder>>
  /\ UNCHANGED abandoned

(* release() of a handle that is not valid throws and changes nothing.       *)
Release(p) ==
  /\ p \in holder \ asking
  /\ holder' = holder \ {p}
  /\ owned' = FALSE
  /\ Event!WakeAll(p)
  /\ UNCHANGED <<asking, abandoned>>

(* The handle is moved to another process, by either, or destroyed.          *)
Move(p, q) ==
  /\ p \in holder /\ q \notin holder
  /\ p \notin asking \/ q \notin asking
  /\ holder' = (holder \ {p}) \cup {q}
  /\ UNCHANGED <<owned, asking, abandoned, asleep, woken>>

Destroy(p) ==
  /\ p \in holder \ asking
  /\ holder' = holder \ {p}
  /\ abandoned' = TRUE
  /\ UNCHANGED <<owned, asking, asleep, woken>>

Next == \E p \in Procs :
          \/ Acquire(p) \/ Release(p) \/ Destroy(p)
          \/ \E q \in Procs \ {p} : Move(p, q)

Spec == Init /\ [][Next]_vars

(* A woken process runs.                                                     *)
FairSpec == Spec /\ \A p \in Procs : WF_vars(p \in woken /\ Acquire(p))

-----------------------------------------------------------------------------
TypeOK ==
  /\ owned \in BOOLEAN
  /\ asking \subseteq Procs /\ holder \subseteq Procs
  /\ abandoned \in BOOLEAN
  /\ Event!EventTypeOK
  /\ asking = asleep \cup woken

(* There is at most one valid handle, the mutex is owned while there is one, *)
(* and when it is owned though there is none, a handle was destroyed: two    *)
(* processes are never both past acquire(), and a release never frees the    *)
(* mutex under somebody else's handle.                                       *)
MutualExclusion ==
  /\ \A p, q \in holder : p = q
  /\ IF holder # {} THEN owned ELSE owned => abandoned

(* Nobody sleeps while the mutex is free: a release wakes all who wait, and  *)
(* whoever of them loses waits for a mutex that is owned again.              *)
NoLostWakeup == asleep # {} => owned

(* A free mutex with somebody asking for it does not stay so.                *)
SomebodyAcquires == ~owned /\ asking # {} ~> owned
==============================================================================
