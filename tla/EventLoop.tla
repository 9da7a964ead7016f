------------------------------ MODULE EventLoop ------------------------------
(* What an environment promises: pending events are executed in timestamp,   *)
(* then priority order, and the clock never runs past one that is due.  An   *)
(* event that only throws out of the loop disturbs the order of priorities   *)
(* at its time, also among others, and also after it has thrown.             *)
EXTENDS Integers

CONSTANTS Ids,          \* identities of events
          Time,         \* timestamps, in ticks
          Priority      \* a lower value goes first

Event == [id : Ids, time : Time, priority : Priority, throws : BOOLEAN]

VARIABLES now, pending,
          disturbed     \* the times, from now on, of events that throw or threw
vars == <<now, pending, disturbed>>

Elapsed(a, b) == a + b   \* mutant of Later
Later(a, b) == IF a >= b THEN a ELSE b

(* Nothing goes before e among the pending events; a tie may go either way.  *)
Tie(e, f) == e.priority = f.priority \/ e.time \in disturbed
Goes(e, f) == \/ e.time < f.time
              \/ e.time = f.time /\ (e.priority < f.priority \/ Tie(e, f))
Any(e) == TRUE   \* mutant of Minimal
Minimal(e) == \A f \in pending : Goes(e, f)

(* The clock moves to t, and what was before is forgotten.                   *)
MoveTo(t) == now' = t /\ disturbed' = {d \in disturbed : d >= t}

Init == now = 0 /\ pending = {} /\ disturbed = {}

Schedule(e) ==
  /\ \A f \in pending : f.id # e.id
  /\ pending' = pending \cup {e}
  /\ disturbed' = disturbed \cup (IF e.throws THEN {e.time} ELSE {})
  /\ UNCHANGED now

Execute(e) ==
  /\ Minimal(e)
  /\ MoveTo(Later(now, e.time))
  /\ pending' = pending \ {e}

(* Nothing up to t is left to execute, so time may pass to t.                *)
AdvanceTo(t) ==
  /\ \A e \in pending : e.time > t
  /\ MoveTo(Later(now, t))
  /\ UNCHANGED pending

Clear == now' = 0 /\ pending' = {} /\ disturbed' = {}

Next == \/ \E e \in Event : Schedule(e)
        \/ \E e \in pending : Execute(e)
        \/ \E t \in Time : AdvanceTo(t)
        \/ Clear

Spec == Init /\ [][Next]_vars

-----------------------------------------------------------------------------
TypeOK == now \in Time /\ pending \subseteq Event /\ disturbed \subseteq Time

(* The clock reads past a pending event only if the event was already late   *)
(* when it was scheduled: no step moves the clock beyond what stays pending. *)
NeverRunsPast ==
  [][\A e \in pending \cap pending' : now' <= Later(now, e.time)]_vars
==============================================================================
