-------------------------------- MODULE Queue --------------------------------
(* sync::queue: put() and pop() look at the size, wait on the event until it *)
(* allows them, and wake every waiter, producers and consumers alike, to look*)
(* again.  What lies between two waits runs without interruption.            *)
EXTENDS Naturals, Sequences, FiniteSets, SyncEvent

CONSTANTS Values,     \* items
          MaxSizes,   \* the max_size_ looked at, 0 for an unbounded queue
          Bound,      \* bound on the size of an unbounded queue
          Idle        \* no operation

ASSUME SizeAssumption == MaxSizes \subseteq Nat /\ Bound \in Nat
ASSUME IdleAssumption == Idle \notin [does : {"put"}, v : Values] \cup {[does |-> "pop"]}

VARIABLES max_size,   \* max_size_
          q,          \* q_
          op          \* the operation each process is blocked in
queueVars == <<max_size, q, op, waiters, ready>>

Put(v) == [does |-> "put", v |-> v]
Pop == [does |-> "pop"]
Operations == {Put(v) : v \in Values} \cup {Pop}

QueueInit ==
  /\ max_size \in MaxSizes
  /\ q = << >>
  /\ op = [p \in Procs |-> Idle]
  /\ EventInit

LooksFor(p, o) == op[p] = Idle \/ (op[p] = o /\ p \in ready)

Bounded == max_size > 0
CanPutOneMore == ~Bounded \/ max_size >= Len(q)   \* mutant of CanPut
CanPut == ~Bounded \/ max_size > Len(q)
CanPop == Len(q) > 0

(* p performs o, or waits until it is possible.                              *)
Blocks(p, o) ==
  /\ op' = [op EXCEPT ![p] = o]
  /\ Waiting(p)
  /\ UNCHANGED <<max_size, q>>

Performs(p, newq) ==
  /\ q' = newq
  /\ UNCHANGED max_size
  /\ op' = [op EXCEPT ![p] = Idle]
  /\ WakeAll(p)

DoPut(p, v) ==
  /\ LooksFor(p, Put(v))
  /\ Bounded \/ Len(q) < Bound
  /\ IF CanPut THEN Performs(p, Append(q, v)) ELSE Blocks(p, Put(v))

DoPop(p) ==
  /\ LooksFor(p, Pop)
  /\ IF CanPop THEN Performs(p, Tail(q)) ELSE Blocks(p, Pop)

QueueNext == \E p \in Procs : DoPop(p) \/ \E v \in Values : DoPut(p, v)

QueueSpec == QueueInit /\ [][QueueNext]_queueVars

(* A woken process runs.                                                     *)
Resumed(p) == p \in ready /\ (DoPop(p) \/ \E v \in Values : DoPut(p, v))
QueueFairSpec == QueueSpec /\ \A p \in Procs : WF_queueVars(Resumed(p))

-----------------------------------------------------------------------------
QueueTypeOK ==
  /\ q \in Seq(Values)
  /\ op \in [Procs -> Operations \cup {Idle}]
  /\ EventTypeOK
  /\ \A p \in Procs : op[p] # Idle <=> p \in waiters \cup ready

(* The loops over the event implement operations that take effect at once,   *)
(* in first-in-first-out order, each when there is room or an item for it:   *)
(* though a wake for one place or one item lets everybody look, the capacity *)
(* is kept, and nobody sleeps for ever on a queue that has what he wants.    *)
Atomic == INSTANCE AtomicQueue WITH items <- q,
            room <- IF Bounded THEN max_size ELSE Bound
AtomicSpec == Atomic!Spec
==============================================================================
