------------------------- MODULE MutexAndQueueProofs -------------------------
(* Proofs about Mutex and Queue, which let their processes wait on an event  *)
(* and look again: for every set of processes, and for queues of every set of *)
(* items, bounded or not.                                                    *)
EXTENDS Mutex, Queue, TLAPS

MutexInv == TypeOK /\ MutualExclusion /\ NoLostWakeup

(* The mutex is free at first, and nobody asks for it.                       *)
LEMMA MutexInitInv == Init => MutexInv
BY DEF Init, Event!EventInit, MutexInv, TypeOK, Event!EventTypeOK, MutualExclusion, NoLostWakeup

(* A free mutex has no valid handle, so the one acquired is the only one;    *)
(* who finds it owned joins those who wait for its release.                  *)
LEMMA AcquireKeepsInv ==
  ASSUME MutexInv, NEW p \in Procs, Acquire(p)
  PROVE  MutexInv'
<1>1. CASE IsFree
  <2>1. TypeOK'
    BY <1>1 DEF Acquire, Looks, MutexInv, TypeOK, Event!EventTypeOK
  <2>2. MutualExclusion'
    BY <1>1 DEF Acquire, IsFree, MutexInv, MutualExclusion
  <2>3. NoLostWakeup'
    BY <1>1 DEF Acquire, IsFree, MutexInv, NoLostWakeup
  <2> QED BY <2>1, <2>2, <2>3 DEF MutexInv
<1>2. CASE ~IsFree
  <2>1. TypeOK'
    BY <1>2 DEF Acquire, Looks, Event!Waiting, MutexInv, TypeOK, Event!EventTypeOK
  <2>2. MutualExclusion'
    BY <1>2 DEF Acquire, MutexInv, MutualExclusion
  <2>3. NoLostWakeup'
    BY <1>2 DEF Acquire, IsFree, NoLostWakeup
  <2> QED BY <2>1, <2>2, <2>3 DEF MutexInv
<1> QED BY <1>1, <1>2

(* The handle released was the only one, and nobody is left waiting.         *)
LEMMA ReleaseKeepsInv ==
  ASSUME MutexInv, NEW p \in Procs, Release(p)
  PROVE  MutexInv'
<1>1. TypeOK'
  BY DEF Release, Event!WakeAll, MutexInv, TypeOK, Event!EventTypeOK
<1>2. MutualExclusion'
  BY DEF Release, MutexInv, MutualExclusion
<1>3. NoLostWakeup'
  BY DEF Release, Event!WakeAll, NoLostWakeup
<1> QED BY <1>1, <1>2, <1>3 DEF MutexInv

(* The one handle moves, and stays the only one.                             *)
LEMMA MoveKeepsInv ==
  ASSUME MutexInv, NEW p \in Procs, NEW r \in Procs, Move(p, r)
  PROVE  MutexInv'
<1>1. TypeOK'
  BY DEF Move, MutexInv, TypeOK, Event!EventTypeOK
<1>2. MutualExclusion'
  BY DEF Move, MutexInv, MutualExclusion
<1>3. NoLostWakeup'
  BY DEF Move, MutexInv, NoLostWakeup
<1> QED BY <1>1, <1>2, <1>3 DEF MutexInv

(* The mutex stays owned when its handle is destroyed.                       *)
LEMMA DestroyKeepsInv ==
  ASSUME MutexInv, NEW p \in Procs, Destroy(p)
  PROVE  MutexInv'
<1>1. TypeOK'
  BY DEF Destroy, MutexInv, TypeOK, Event!EventTypeOK
<1>2. MutualExclusion'
  BY DEF Destroy, MutexInv, MutualExclusion
<1>3. NoLostWakeup'
  BY DEF Destroy, MutexInv, NoLostWakeup
<1> QED BY <1>1, <1>2, <1>3 DEF MutexInv

(* Every step preserves the invariant.                                       *)
LEMMA MutexNextInv == MutexInv /\ [Next]_vars => MutexInv'
<1>1. ASSUME MutexInv, UNCHANGED vars PROVE MutexInv'
  BY <1>1 DEF vars, MutexInv, TypeOK, Event!EventTypeOK, MutualExclusion, NoLostWakeup
<1> QED BY <1>1, AcquireKeepsInv, ReleaseKeepsInv, MoveKeepsInv, DestroyKeepsInv DEF Next

(* The inductive invariant: owned_ agrees with the handles there are, and    *)
(* only while it is set does anybody wait.                                   *)
THEOREM MutexInvariance == Spec => []MutexInv
BY MutexInitInv, MutexNextInv, PTL DEF Spec

(* A process is blocked in acquire() exactly when it waits on the event or   *)
(* has been woken to look again.                                             *)
THEOREM TypeCorrect == Spec => []TypeOK
<1>1. MutexInv => TypeOK
  BY DEF MutexInv
<1> QED BY <1>1, MutexInvariance, PTL

(* No two processes are past acquire(), however handles are moved, released  *)
(* and destroyed, and no release frees the mutex under a later owner.        *)
THEOREM MutualExclusionHolds == Spec => []MutualExclusion
<1>1. MutexInv => MutualExclusion
  BY DEF MutexInv
<1> QED BY <1>1, MutexInvariance, PTL

(* No process waits on the event of a free mutex.                            *)
THEOREM NoLostWakeupHolds == Spec => []NoLostWakeup
<1>1. MutexInv => NoLostWakeup
  BY DEF MutexInv
<1> QED BY <1>1, MutexInvariance, PTL

------------------------------------------------------------------------------
USE SizeAssumption, IdleAssumption

(* The promise of AtomicQueue but for its fairness.                          *)
AtomicSafety == Atomic!Init /\ [][Atomic!Next]_Atomic!vars

QueueInv == QueueTypeOK /\ max_size \in MaxSizes

(* The queue is empty at first, and nobody waits.                            *)
LEMMA QueueInitInv == QueueInit => QueueInv
BY DEF QueueInit, EventInit, QueueInv, QueueTypeOK, EventTypeOK

(* Whoever performs an operation is blocked no more, and the waiters are     *)
(* woken; the others stay as they are.                                       *)
LEMMA PerformsKeepsInv ==
  ASSUME QueueInv, NEW p \in Procs, op[p] = Idle \/ p \in ready,
         NEW newq \in Seq(Values), Performs(p, newq)
  PROVE  QueueInv'
<1>1. q' \in Seq(Values) /\ max_size' \in MaxSizes
  BY DEF Performs, QueueInv
<1>2. op' \in [Procs -> Operations \cup {Idle}]
  BY DEF Performs, QueueInv, QueueTypeOK
<1>3. EventTypeOK'
  BY DEF Performs, WakeAll, QueueInv, QueueTypeOK, EventTypeOK
<1>4. \A r \in Procs : op'[r] # Idle <=> r \in waiters' \cup ready'
  BY DEF Performs, WakeAll, QueueInv, QueueTypeOK
<1> QED BY <1>1, <1>2, <1>3, <1>4 DEF QueueInv, QueueTypeOK

(* Whoever cannot perform his operation waits on the event.                  *)
LEMMA BlocksKeepsInv ==
  ASSUME QueueInv, NEW p \in Procs, NEW o \in Operations, Blocks(p, o)
  PROVE  QueueInv'
<1>1. o # Idle
  BY DEF Operations, Put, Pop
<1>2. op' \in [Procs -> Operations \cup {Idle}]
  BY DEF Blocks, QueueInv, QueueTypeOK
<1>3. EventTypeOK'
  BY DEF Blocks, Waiting, QueueInv, QueueTypeOK, EventTypeOK
<1>4. \A r \in Procs : op'[r] # Idle <=> r \in waiters' \cup ready'
  BY <1>1 DEF Blocks, Waiting, QueueInv, QueueTypeOK
<1> QED BY <1>2, <1>3, <1>4 DEF Blocks, QueueInv, QueueTypeOK

(* Every step preserves the invariant.                                       *)
LEMMA QueueNextInv == QueueInv /\ [QueueNext]_queueVars => QueueInv'
<1> SUFFICES ASSUME QueueInv, [QueueNext]_queueVars PROVE QueueInv'
  OBVIOUS
<1>1. ASSUME NEW p \in Procs, NEW v \in Values, DoPut(p, v) PROVE QueueInv'
  <2>1. CASE CanPut
    <3>1. Append(q, v) \in Seq(Values)
      BY DEF QueueInv, QueueTypeOK
    <3>2. op[p] = Idle \/ p \in ready
      BY <1>1 DEF DoPut, LooksFor
    <3> QED BY <1>1, <2>1, <3>1, <3>2, PerformsKeepsInv DEF DoPut
  <2>2. CASE ~CanPut
    <3>1. Put(v) \in Operations
      BY DEF Operations
    <3> QED BY <1>1, <2>2, <3>1, BlocksKeepsInv DEF DoPut
  <2> QED BY <2>1, <2>2
<1>2. ASSUME NEW p \in Procs, DoPop(p) PROVE QueueInv'
  <2>1. CASE CanPop
    <3>1. Tail(q) \in Seq(Values)
      BY <2>1 DEF CanPop, QueueInv, QueueTypeOK
    <3>2. op[p] = Idle \/ p \in ready
      BY <1>2 DEF DoPop, LooksFor
    <3> QED BY <1>2, <2>1, <3>1, <3>2, PerformsKeepsInv DEF DoPop
  <2>2. CASE ~CanPop
    <3>1. Pop \in Operations
      BY DEF Operations
    <3> QED BY <1>2, <2>2, <3>1, BlocksKeepsInv DEF DoPop
  <2> QED BY <2>1, <2>2
<1>3. CASE UNCHANGED queueVars
  BY <1>3 DEF queueVars, QueueInv, QueueTypeOK, EventTypeOK
<1> QED BY <1>1, <1>2, <1>3 DEF QueueNext

(* The inductive invariant: types, and the capacity is one of those given.   *)
THEOREM QueueInvariance == QueueSpec => []QueueInv
BY QueueInitInv, QueueNextInv, PTL DEF QueueSpec

(* The queue holds items, and a process is blocked exactly when it waits on  *)
(* the event or has been woken to look again.                                *)
THEOREM QueueTypeCorrect == QueueSpec => []QueueTypeOK
<1>1. QueueInv => QueueTypeOK
  BY DEF QueueInv
<1> QED BY <1>1, QueueInvariance, PTL

-----------------------------------------------------------------------------
(* Room for an item is what the atomic queue allows a put for.               *)
LEMMA Room ==
  ASSUME QueueInv, NEW v \in Values, Bounded \/ Len(q) < Bound
  PROVE  /\ CanPut <=> Atomic!Allowed(Put(v))
         /\ Atomic!After(Put(v)) = Append(q, v)
<1>1. Put(v).does = "put" /\ Put(v).v = v
  BY DEF Put
<1>2. max_size \in Nat /\ Bound \in Nat /\ Len(q) \in Nat
  <2>1. max_size \in Nat /\ Bound \in Nat
    BY DEF QueueInv
  <2>2. q \in Seq(Values)
    BY DEF QueueInv, QueueTypeOK
  <2> QED BY <2>1, <2>2
<1> QED BY <1>1, <1>2 DEF CanPut, Bounded, Atomic!Allowed, Atomic!After

(* An item in the queue is what it allows a pop for.                         *)
LEMMA Items ==
  ASSUME QueueInv
  PROVE  /\ CanPop <=> Atomic!Allowed(Pop)
         /\ Atomic!After(Pop) = Tail(q)
<1>1. Pop.does = "pop"
  BY DEF Pop
<1>2. Len(q) > 0 <=> q # << >>
  BY DEF QueueInv, QueueTypeOK
<1> QED BY <1>1, <1>2 DEF CanPop, Atomic!Allowed, Atomic!After

(* Each segment of put() and pop() is one step of the atomic queue, or none: *)
(* looking at the size, changing it and waking never come apart, whoever was *)
(* woken for the place or the item, so the capacity is kept and items leave  *)
(* in the order they came.                                                   *)
THEOREM ImplementsAtomic == QueueSpec => AtomicSafety
<1>1. QueueInit => Atomic!Init
  <2> SUFFICES ASSUME QueueInit PROVE Atomic!Init
    OBVIOUS
  <2>1. (IF Bounded THEN max_size ELSE Bound) \in Nat
    BY DEF QueueInit
  <2> QED BY <2>1 DEF QueueInit, Atomic!Init
<1>2. QueueInv /\ [QueueNext]_queueVars => [Atomic!Next]_Atomic!vars
  <2> SUFFICES ASSUME QueueInv, [QueueNext]_queueVars PROVE [Atomic!Next]_Atomic!vars
    OBVIOUS
  <2>1. ASSUME NEW p \in Procs, NEW o \in Operations, LooksFor(p, o), Atomic!Allowed(o),
               Performs(p, Atomic!After(o))
        PROVE  [Atomic!Next]_Atomic!vars
    <3>1. Atomic!Finish(p, o)
      BY <2>1 DEF LooksFor, Performs, Bounded, Atomic!Finish
    <3>2. o \in Atomic!Operations
      BY DEF Operations, Put, Pop, Atomic!Operations
    <3> QED BY <3>1, <3>2 DEF Atomic!Next
  <2>2. ASSUME NEW p \in Procs, NEW o \in Operations, LooksFor(p, o), ~Atomic!Allowed(o),
               Blocks(p, o)
        PROVE  [Atomic!Next]_Atomic!vars
    <3>1. CASE op[p] = Idle
      <4>1. Atomic!Block(p, o)
        BY <2>2, <3>1 DEF Blocks, Bounded, Atomic!Block
      <4>2. o \in Atomic!Operations
        BY DEF Operations, Put, Pop, Atomic!Operations
      <4> QED BY <4>1, <4>2 DEF Atomic!Next
    <3>2. CASE op[p] = o
      <4>1. op' = op
        BY <2>2, <3>2 DEF Blocks, QueueInv, QueueTypeOK
      <4> QED BY <2>2, <4>1 DEF Blocks, Bounded, Atomic!vars
    <3> QED BY <2>2, <3>1, <3>2 DEF LooksFor
  <2>3. ASSUME NEW p \in Procs, NEW v \in Values, DoPut(p, v)
        PROVE  [Atomic!Next]_Atomic!vars
    <3>1. Put(v) \in Operations
      BY DEF Operations
    <3> QED BY <2>1, <2>2, <2>3, <3>1, Room DEF DoPut
  <2>4. ASSUME NEW p \in Procs, DoPop(p) PROVE [Atomic!Next]_Atomic!vars
    <3>1. Pop \in Operations
      BY DEF Operations
    <3> QED BY <2>1, <2>2, <2>4, <3>1, Items DEF DoPop
  <2>5. CASE UNCHANGED queueVars
    BY <2>5 DEF queueVars, Bounded, Atomic!vars
  <2> QED BY <2>3, <2>4, <2>5 DEF QueueNext
<1> QED BY <1>1, <1>2, QueueInvariance, PTL DEF QueueSpec, AtomicSafety
==============================================================================
