------------------------------- MODULE Tokens -------------------------------
(* A resume token of cxxdes and the comparator the environment's queue is    *)
(* ordered by.  Of a token's three pointers only their being null matters    *)
(* to the queue and to the dispatch in environment::step().                  *)
EXTENDS Integers

TokenKind == [coro : BOOLEAN, handler : BOOLEAN, eptr : BOOLEAN]

Kind(coro, handler, eptr) == [coro |-> coro, handler |-> handler, eptr |-> eptr]

Wakeup        == Kind(TRUE,  FALSE, FALSE)   \* start, timeout, completion
FailedWakeup  == Kind(TRUE,  FALSE, TRUE)    \* completion of a failed process
Handled       == Kind(TRUE,  TRUE,  FALSE)   \* child of an any_of / all_of
FailedHandled == Kind(TRUE,  TRUE,  TRUE)
Done          == Kind(FALSE, FALSE, FALSE)   \* completion nobody waits for
Exception     == Kind(FALSE, FALSE, TRUE)    \* the same, of a failed process

HasPriority(tkn) == ~tkn.coro /\ ~tkn.handler /\ tkn.eptr

(* environment::token_comp: a is ordered after b.                            *)
TokenComp(a, b) ==
  \/ HasPriority(b)
  \/ a.time > b.time
  \/ a.time = b.time /\ a.priority > b.priority
=============================================================================
