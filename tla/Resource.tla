------------------------------ MODULE Resource ------------------------------
(* sync::resource: units handed out as handles, on a semaphore that counts   *)
(* those left.  A unit comes back when its handle is released; a handle that *)
(* is destroyed keeps it for ever.  A semaphore that is nobody's resource is *)
(* used directly, from any initial count.                                    *)
EXTENDS Semaphore

CONSTANTS HandleNames,   \* names for the valid handles: Max of them are enough
          Nobody

ASSUME HandleAssumption == IsFiniteSet(HandleNames) /\ Nobody \notin Procs

VARIABLES owned,      \* whether the semaphore is s_ of a resource; never changes
          holder,     \* the process that has each valid handle
          kept        \* history: units whose handle was destroyed
resourceVars == <<vars, owned, holder, kept>>

(* resource(count): s_{count, count}.                                        *)
InitialCount == Max
ResourceInit ==
  /\ Init
  /\ owned \in BOOLEAN
  /\ owned => value = InitialCount
  /\ holder = [h \in HandleNames |-> Nobody]
  /\ kept = 0

(* up() and down() of a semaphore that is not.                               *)
Direct(p) ==
  /\ ~owned
  /\ Up(p) \/ Down(p)
  /\ UNCHANGED <<owned, holder, kept>>

(* acquire(): down(), and a handle once it has returned.                     *)
HandedTo(p, h) == [holder EXCEPT ![h] = p]
Acquire(p) ==
  /\ owned
  /\ Down(p)
  /\ IF MayDown THEN \E h \in HandleNames : holder[h] = Nobody /\ holder' = HandedTo(p, h)
                ELSE UNCHANGED holder
  /\ UNCHANGED <<owned, kept>>

(* release() of a valid handle: it is not valid any more, then up().         *)
StillValid(p, h) == holder   \* mutant of Released
Released(p, h) == IF op[p] = "idle" THEN HandedTo(Nobody, h) ELSE holder

Release(p, h) ==
  /\ owned /\ (holder[h] = p \/ op[p] = "up")
  /\ Up(p)
  /\ holder' = Released(p, h)
  /\ UNCHANGED <<owned, kept>>

Move(p, q, h) ==
  /\ holder[h] = p
  /\ op[p] = "idle" \/ op[q] = "idle"
  /\ holder' = HandedTo(q, h)
  /\ UNCHANGED <<vars, owned, kept>>

Destroy(p, h) ==
  /\ holder[h] = p /\ op[p] = "idle"
  /\ holder' = HandedTo(Nobody, h)
  /\ kept' = kept + 1
  /\ UNCHANGED <<vars, owned>>

ResourceNext == \E p \in Procs :
  \/ Direct(p) \/ Acquire(p)
  \/ \E h \in HandleNames : \/ Release(p, h) \/ Destroy(p, h)
                            \/ \E q \in Procs \ {p} : Move(p, q, h)

ResourceSpec == ResourceInit /\ [][ResourceNext]_resourceVars
(* A woken process runs.                                                     *)
RunsOn(p) == p \in ready /\ (Direct(p) \/ Acquire(p) \/ \E h \in HandleNames : Release(p, h))
ResourceFairSpec == ResourceSpec /\ \A p \in Procs : WF_resourceVars(RunsOn(p))

-----------------------------------------------------------------------------
Valid == {h \in HandleNames : holder[h] # Nobody}

(* Every unit is left, held or lost with its handle: none is handed out      *)
(* twice, and none comes back without having been held.                      *)
Conserved == owned => value + Cardinality(Valid) + kept = Max

(* release() never waits, though up() may: while a unit is out, the count is *)
(* below its maximum.                                                        *)
ReleaseNeverWaits == owned => \A p \in Procs : op[p] # "up"
==============================================================================
