------------------------------ MODULE SyncEvent ------------------------------
(* sync::event as the primitives built on it use it: who waits on it, and    *)
(* whose token a wake has scheduled.  Latencies and priorities are left out: *)
(* the woken processes run in any order, and others run in between.          *)
EXTENDS Processes

VARIABLES waiters, ready

EventInit == waiters = {} /\ ready = {}

(* Mutants: a process that looks again is still taken for ready; a wake      *)
(* schedules one waiter only, or none.                                       *)
StillReady(p) == waiters' = waiters \cup {p} /\ UNCHANGED ready

WakeOne(p) ==
  \/ waiters = {} /\ ready' = ready \ {p} /\ UNCHANGED waiters
  \/ \E q \in waiters : ready' = (ready \cup {q}) \ {p} /\ waiters' = waiters \ {q}

WakeNobody(p) == ready' = ready \ {p} /\ UNCHANGED waiters

(* wait(): p suspends; if it was woken to look again, it has run.            *)
Waiting(p) ==
  /\ waiters' = waiters \cup {p}
  /\ ready' = ready \ {p}

(* wake() by p: every waiter is scheduled; p itself goes on.                 *)
WakeAll(p) ==
  /\ ready' = (ready \cup waiters) \ {p}
  /\ waiters' = {}

EventTypeOK ==
  /\ waiters \subseteq Procs
  /\ ready \subseteq Procs
  /\ waiters \cap ready = {}
==============================================================================
