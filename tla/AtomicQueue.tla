----------------------------- MODULE AtomicQueue -----------------------------
(* What a bounded first-in-first-out queue promises: a put or pop in         *)
(* progress takes effect once, at a moment there is room or an item for it,  *)
(* and it does take effect if there is from some moment on.                  *)
EXTENDS Naturals, Sequences

CONSTANTS Procs, Values,
          Idle        \* no operation

VARIABLES room,       \* the number of items there is room for
          items,
          op          \* op[p]: the operation p is blocked in
vars == <<room, items, op>>

Operations == [does : {"put"}, v : Values] \cup {[does |-> "pop"]}

Allowed(o) == IF o.does = "put" THEN Len(items) < room ELSE items # << >>
After(o) == IF o.does = "put" THEN Append(items, o.v) ELSE Tail(items)

Init ==
  /\ room \in Nat
  /\ items = << >>
  /\ op = [p \in Procs |-> Idle]

Block(p, o) ==
  /\ op[p] = Idle /\ ~Allowed(o)
  /\ op' = [op EXCEPT ![p] = o]
  /\ UNCHANGED <<room, items>>

Finish(p, o) ==
  /\ op[p] \in {Idle, o} /\ Allowed(o)
  /\ items' = After(o)
  /\ op' = [op EXCEPT ![p] = Idle]
  /\ UNCHANGED room

Next == \E p \in Procs, o \in Operations : Block(p, o) \/ Finish(p, o)

Unblocks(p) == op[p] # Idle /\ Finish(p, op[p])

Spec == Init /\ [][Next]_vars /\ \A p \in Procs : WF_vars(Unblocks(p))
==============================================================================
