--------------------------- MODULE SemaphoreProofs ---------------------------
(* Proofs about Semaphore, for every set of processes, maximum and initial   *)
(* count, also an initial count above the maximum, and about Resource, for   *)
(* every number of handles.                                                  *)
EXTENDS Resource, FiniteSetTheorems, TLAPS

USE MaxAssumption, InitialAssumption, HandleAssumption

SemaphoreInv == TypeOK /\ NoLostWakeup

(* Nobody waits at first.                                                    *)
LEMMA InitInv == Init => SemaphoreInv
BY DEF Init, EventInit, SemaphoreInv, TypeOK, EventTypeOK, NoLostWakeup

(* A change of the count leaves nobody waiting, so nobody waits wrongly.     *)
LEMMA UpKeepsInv ==
  ASSUME SemaphoreInv, NEW p \in Procs, Up(p)
  PROVE  SemaphoreInv'
<1>1. CASE MayUp
  <2>1. TypeOK'
    BY <1>1 DEF Up, Looks, WakeAll, SemaphoreInv, TypeOK, EventTypeOK
  <2>2. NoLostWakeup'
    BY <1>1 DEF Up, WakeAll, NoLostWakeup
  <2> QED BY <2>1, <2>2 DEF SemaphoreInv
<1>2. CASE ~MayUp
  <2>1. TypeOK'
    BY <1>2 DEF Up, Looks, Waiting, SemaphoreInv, TypeOK, EventTypeOK
  <2>2. NoLostWakeup'
    BY <1>2 DEF Up, MayUp, Waiting, SemaphoreInv, TypeOK, EventTypeOK, NoLostWakeup
  <2> QED BY <2>1, <2>2 DEF SemaphoreInv
<1> QED BY <1>1, <1>2

(* The same of down().                                                       *)
LEMMA DownKeepsInv ==
  ASSUME SemaphoreInv, NEW p \in Procs, Down(p)
  PROVE  SemaphoreInv'
<1>1. CASE MayDown
  <2>1. TypeOK'
    BY <1>1 DEF Down, MayDown, Looks, WakeAll, SemaphoreInv, TypeOK, EventTypeOK
  <2>2. NoLostWakeup'
    BY <1>1 DEF Down, WakeAll, NoLostWakeup
  <2> QED BY <2>1, <2>2 DEF SemaphoreInv
<1>2. CASE ~MayDown
  <2>1. TypeOK'
    BY <1>2 DEF Down, Looks, Waiting, SemaphoreInv, TypeOK, EventTypeOK
  <2>2. NoLostWakeup'
    BY <1>2 DEF Down, MayDown, Waiting, SemaphoreInv, TypeOK, EventTypeOK, NoLostWakeup
  <2> QED BY <2>1, <2>2 DEF SemaphoreInv
<1> QED BY <1>1, <1>2

(* Every step preserves the invariant.                                       *)
LEMMA NextInv == SemaphoreInv /\ [Next]_vars => SemaphoreInv'
<1>1. ASSUME SemaphoreInv, UNCHANGED vars PROVE SemaphoreInv'
  BY <1>1 DEF vars, SemaphoreInv, TypeOK, EventTypeOK, NoLostWakeup
<1> QED BY <1>1, UpKeepsInv, DownKeepsInv DEF Next

(* The inductive invariant: who is blocked waits where a change of the count *)
(* wakes it, or has been woken since the last change.                        *)
THEOREM Invariance == Spec => []SemaphoreInv
BY InitInv, NextInv, PTL DEF Spec

(* The count is a natural number and a process is blocked exactly when it    *)
(* waits on the event or has been woken to look again.                       *)
THEOREM TypeCorrect == Spec => []TypeOK
<1>1. SemaphoreInv => TypeOK
  BY DEF SemaphoreInv
<1> QED BY <1>1, Invariance, PTL

(* No process waits on the event while the count allows its operation.       *)
THEOREM NoLostWakeupHolds == Spec => []NoLostWakeup
<1>1. SemaphoreInv => NoLostWakeup
  BY DEF SemaphoreInv
<1> QED BY <1>1, Invariance, PTL

(* Each segment of up() and down() is one step of the atomic semaphore, or   *)
(* none: checking the count, changing it and waking never come apart.        *)
THEOREM ImplementsAtomic == Spec => AtomicSafety
<1>1. Init => Atomic!Init
  BY DEF Init, Atomic!Init
<1>2. TypeOK /\ [Next]_vars => [Atomic!Next]_<<value, op>>
  <2> SUFFICES ASSUME TypeOK, [Next]_vars, ~UNCHANGED <<value, op>>
               PROVE  Atomic!Next
    OBVIOUS
  <2>1. ASSUME NEW p \in Procs, Up(p) PROVE Atomic!Next
    <3>1. CASE MayUp
      <4>1. Atomic!Finish(p, "up")
        BY <2>1, <3>1 DEF Up, MayUp, Looks, Atomic!Finish, Atomic!Allowed, Atomic!After, TypeOK
      <4> QED BY <4>1 DEF Atomic!Next
    <3>2. CASE ~MayUp
      <4>1. op[p] = "idle"
        BY <2>1, <3>2 DEF Up, Looks, TypeOK
      <4>2. Atomic!Block(p, "up")
        BY <2>1, <3>2, <4>1 DEF Up, MayUp, Atomic!Block, Atomic!Allowed, TypeOK
      <4> QED BY <4>2 DEF Atomic!Next
    <3> QED BY <3>1, <3>2
  <2>2. ASSUME NEW p \in Procs, Down(p) PROVE Atomic!Next
    <3>1. CASE MayDown
      <4>1. Atomic!Finish(p, "down")
        BY <2>2, <3>1 DEF Down, MayDown, Looks, Atomic!Finish, Atomic!Allowed, Atomic!After, TypeOK
      <4> QED BY <4>1 DEF Atomic!Next
    <3>2. CASE ~MayDown
      <4>1. op[p] = "idle"
        BY <2>2, <3>2 DEF Down, Looks, TypeOK
      <4>2. Atomic!Block(p, "down")
        BY <2>2, <3>2, <4>1 DEF Down, MayDown, Atomic!Block, Atomic!Allowed, TypeOK
      <4> QED BY <4>2 DEF Atomic!Next
    <3> QED BY <3>1, <3>2
  <2>3. ~UNCHANGED vars
    BY DEF vars
  <2> QED BY <2>1, <2>2, <2>3 DEF Next
<1> QED BY <1>1, <1>2, TypeCorrect, PTL DEF Spec, AtomicSafety

-----------------------------------------------------------------------------
(* The resource: its semaphore is used as any other, and each unit that is   *)
(* not left has a valid handle or has lost it.                               *)
ResourceInv ==
  /\ SemaphoreInv
  /\ owned \in BOOLEAN /\ kept \in Nat
  /\ holder \in [HandleNames -> Procs \cup {Nobody}]
  /\ Conserved
  /\ ReleaseNeverWaits

LEMMA ValidFact ==
  /\ IsFiniteSet(Valid) /\ Cardinality(Valid) \in Nat
  /\ \A h \in HandleNames : holder[h] # Nobody => Cardinality(Valid) >= 1
<1>1. IsFiniteSet(Valid) /\ Cardinality(Valid) \in Nat
  BY FS_Subset, FS_CardinalityType DEF Valid
<1>2. Cardinality(Valid) = 0 <=> Valid = {}
  BY <1>1, FS_EmptySet
<1> QED BY <1>1, <1>2 DEF Valid

(* How many handles are valid, when one is made, given up or moved.          *)
LEMMA HandedFact ==
  ASSUME NEW h \in HandleNames, NEW p \in Procs \cup {Nobody},
         holder \in [HandleNames -> Procs \cup {Nobody}], holder' = HandedTo(p, h)
  PROVE  /\ holder' \in [HandleNames -> Procs \cup {Nobody}]
         /\ holder[h] = Nobody /\ p # Nobody => Cardinality(Valid)' = Cardinality(Valid) + 1
         /\ holder[h] # Nobody /\ p = Nobody => Cardinality(Valid)' = Cardinality(Valid) - 1
         /\ holder[h] # Nobody /\ p # Nobody => Cardinality(Valid)' = Cardinality(Valid)
<1>1. \A g \in HandleNames : holder'[g] = IF g = h THEN p ELSE holder[g]
  BY DEF HandedTo
<1>2. holder' \in [HandleNames -> Procs \cup {Nobody}]
  BY DEF HandedTo
<1>3. ASSUME holder[h] = Nobody, p # Nobody
      PROVE  Cardinality(Valid)' = Cardinality(Valid) + 1
  <2>1. Valid' = Valid \cup {h} /\ h \notin Valid
    BY <1>1, <1>3 DEF Valid
  <2> QED BY <2>1, ValidFact, FS_AddElement
<1>4. ASSUME holder[h] # Nobody, p = Nobody
      PROVE  Cardinality(Valid)' = Cardinality(Valid) - 1
  <2>1. Valid' = Valid \ {h} /\ h \in Valid
    BY <1>1, <1>4 DEF Valid
  <2> QED BY <2>1, ValidFact, FS_RemoveElement
<1>5. ASSUME holder[h] # Nobody, p # Nobody
      PROVE  Cardinality(Valid)' = Cardinality(Valid)
  <2>1. Valid' = Valid
    BY <1>1, <1>5 DEF Valid
  <2> QED BY <2>1
<1> QED BY <1>2, <1>3, <1>4, <1>5

LEMMA ResourceInitInv == ResourceInit => ResourceInv
<1> SUFFICES ASSUME ResourceInit PROVE ResourceInv
  OBVIOUS
<1>1. SemaphoreInv
  BY InitInv DEF ResourceInit
<1>2. Valid = {}
  BY DEF ResourceInit, Valid
<1>3. Cardinality(Valid) = 0
  BY <1>2, FS_EmptySet
<1>4. holder \in [HandleNames -> Procs \cup {Nobody}] /\ owned \in BOOLEAN /\ kept \in Nat
  BY DEF ResourceInit
<1>5. Conserved
  BY <1>3 DEF ResourceInit, Conserved, InitialCount
<1>6. ReleaseNeverWaits
  BY DEF ResourceInit, Init, ReleaseNeverWaits
<1> QED BY <1>1, <1>4, <1>5, <1>6 DEF ResourceInv

(* A valid handle is a unit out: the count is below its maximum, and up()    *)
(* does not wait.                                                            *)
LEMMA ReleaseKeepsInv ==
  ASSUME ResourceInv, NEW p \in Procs, NEW h \in HandleNames, Release(p, h)
  PROVE  ResourceInv'
<1>1. /\ owned /\ holder[h] = p /\ p # Nobody /\ op[p] = "idle"
      /\ Up(p) /\ holder' = HandedTo(Nobody, h) /\ UNCHANGED <<owned, kept>>
  <2>1. op[p] = "idle"
    BY DEF Release, Up, Looks, ResourceInv, ReleaseNeverWaits
  <2> QED BY <2>1 DEF Release, Released, ResourceInv
<1>2. SemaphoreInv'
  BY <1>1, UpKeepsInv DEF ResourceInv
<1>3. MayUp
  <2>1. value + Cardinality(Valid) + kept = Max /\ value \in Nat /\ kept \in Nat
    BY <1>1 DEF ResourceInv, Conserved, SemaphoreInv, TypeOK
  <2> QED BY <1>1, <2>1, ValidFact DEF MayUp
<1>4. value' = value + 1 /\ op' = [op EXCEPT ![p] = "idle"]
  BY <1>1, <1>3 DEF Up
<1>5. /\ holder' \in [HandleNames -> Procs \cup {Nobody}]
      /\ Cardinality(Valid)' = Cardinality(Valid) - 1
  BY <1>1, HandedFact DEF ResourceInv
<1>6. Conserved'
  BY <1>1, <1>4, <1>5, ValidFact DEF ResourceInv, Conserved, SemaphoreInv, TypeOK
<1>7. ReleaseNeverWaits'
  BY <1>1, <1>4 DEF ResourceInv, ReleaseNeverWaits, SemaphoreInv, TypeOK
<1> QED BY <1>1, <1>2, <1>5, <1>6, <1>7 DEF ResourceInv

LEMMA AcquireKeepsInv ==
  ASSUME ResourceInv, NEW p \in Procs, Acquire(p)
  PROVE  ResourceInv'
<1>1. SemaphoreInv' /\ UNCHANGED <<owned, kept>>
  BY DownKeepsInv DEF ResourceInv, Acquire
<1>2. ReleaseNeverWaits'
  BY DEF Acquire, Down, ResourceInv, ReleaseNeverWaits, SemaphoreInv, TypeOK
<1>3. CASE MayDown
  <2>1. PICK h \in HandleNames : holder[h] = Nobody /\ holder' = HandedTo(p, h)
    BY <1>3 DEF Acquire
  <2>2. /\ holder' \in [HandleNames -> Procs \cup {Nobody}]
        /\ Cardinality(Valid)' = Cardinality(Valid) + 1
    BY <2>1, HandedFact DEF ResourceInv
  <2>3. value' = value - 1
    BY <1>3 DEF Acquire, Down
  <2>4. Conserved'
    BY <1>1, <2>2, <2>3, ValidFact DEF ResourceInv, Conserved, SemaphoreInv, TypeOK
  <2> QED BY <1>1, <1>2, <2>2, <2>4 DEF ResourceInv
<1>4. CASE ~MayDown
  BY <1>1, <1>2, <1>4 DEF Acquire, Down, ResourceInv, Conserved, Valid
<1> QED BY <1>3, <1>4

LEMMA MoveKeepsInv ==
  ASSUME ResourceInv, NEW p \in Procs, NEW q \in Procs, NEW h \in HandleNames, Move(p, q, h)
  PROVE  ResourceInv'
<1>1. /\ holder' \in [HandleNames -> Procs \cup {Nobody}]
      /\ Cardinality(Valid)' = Cardinality(Valid)
  BY HandedFact DEF Move, ResourceInv
<1>2. SemaphoreInv'
  BY DEF Move, vars, ResourceInv, SemaphoreInv, TypeOK, EventTypeOK, NoLostWakeup
<1> QED BY <1>1, <1>2 DEF Move, vars, ResourceInv, Conserved, ReleaseNeverWaits

LEMMA DestroyKeepsInv ==
  ASSUME ResourceInv, NEW p \in Procs, NEW h \in HandleNames, Destroy(p, h)
  PROVE  ResourceInv'
<1>1. /\ holder' \in [HandleNames -> Procs \cup {Nobody}]
      /\ Cardinality(Valid)' = Cardinality(Valid) - 1
  BY HandedFact DEF Destroy, ResourceInv
<1>2. SemaphoreInv'
  BY DEF Destroy, vars, ResourceInv, SemaphoreInv, TypeOK, EventTypeOK, NoLostWakeup
<1>3. kept' = kept + 1 /\ kept' \in Nat /\ UNCHANGED <<value, op, owned>>
  BY DEF Destroy, vars, ResourceInv
<1>4. Conserved'
  BY <1>1, <1>3, ValidFact DEF ResourceInv, Conserved, SemaphoreInv, TypeOK
<1> QED BY <1>1, <1>2, <1>3, <1>4 DEF ResourceInv, ReleaseNeverWaits

LEMMA ResourceNextInv == ResourceInv /\ [ResourceNext]_resourceVars => ResourceInv'
<1> SUFFICES ASSUME ResourceInv, [ResourceNext]_resourceVars PROVE ResourceInv'
  OBVIOUS
<1>1. CASE UNCHANGED resourceVars
  BY <1>1 DEF resourceVars, vars, ResourceInv, SemaphoreInv, TypeOK, EventTypeOK, NoLostWakeup,
              Conserved, Valid, ReleaseNeverWaits
<1>2. ASSUME NEW p \in Procs, Direct(p) PROVE ResourceInv'
  BY <1>2, UpKeepsInv, DownKeepsInv DEF Direct, ResourceInv, Conserved, ReleaseNeverWaits
<1> QED BY <1>1, <1>2, AcquireKeepsInv, ReleaseKeepsInv, DestroyKeepsInv, MoveKeepsInv
        DEF ResourceNext

(* The inductive invariant of the resource.                                  *)
THEOREM ResourceInvariance == ResourceSpec => []ResourceInv
BY ResourceInitInv, ResourceNextInv, PTL DEF ResourceSpec

(* Every unit of a resource is left, held or lost with its handle, whoever   *)
(* acquires, releases, moves and destroys handles in whatever order.         *)
THEOREM ConservedHolds == ResourceSpec => []Conserved
<1>1. ResourceInv => Conserved
  BY DEF ResourceInv
<1> QED BY <1>1, ResourceInvariance, PTL

(* release() is done when it is called: the up() in it never waits.          *)
THEOREM ReleaseNeverWaitsHolds == ResourceSpec => []ReleaseNeverWaits
<1>1. ResourceInv => ReleaseNeverWaits
  BY DEF ResourceInv
<1> QED BY <1>1, ResourceInvariance, PTL

(* A resource uses its semaphore as any process may: what is proved of the   *)
(* semaphore holds of it.                                                    *)
THEOREM ResourceUsesSemaphore == ResourceSpec => Spec
<1>1. ResourceInit => Init
  BY DEF ResourceInit
<1>2. [ResourceNext]_resourceVars => [Next]_vars
  BY DEF ResourceNext, resourceVars, Next, Direct, Acquire, Release, Move, Destroy
<1> QED BY <1>1, <1>2, PTL DEF ResourceSpec, Spec
==============================================================================
