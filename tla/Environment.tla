----------------------------- MODULE Environment -----------------------------
(* cxxdes::core::environment: the clock, the queue of resume tokens, and the *)
(* functions that execute them (run, run_until, step, reset).  The bodies of *)
(* coroutines and handlers are open: while one runs it schedules any tokens. *)
EXTENDS Tokens, Sequences, FiniteSets

CONSTANTS Ids,             \* token objects
          Priorities,
          Programs,        \* what bodies may do: the kinds of token they make,
                           \* their priorities, the ticks after now of tokens
                           \* and of exception tokens (return_latency), how a
                           \* body may end
          Horizons,        \* arguments of run_until
          Precisions,      \* arguments of time_precision and time_unit
          MaxTime,         \* bound on timestamps
          None

ASSUME ProgramsAssumption ==
  \A p \in Programs : /\ p.kinds \subseteq {Wakeup, Handled, Done}
                      /\ p.priorities \subseteq Priorities
                      /\ p.latencies \cup p.exceptionLatencies \subseteq Int
                      /\ p.outcomes \subseteq {"returned", "failed"}
ASSUME BoundsAssumption ==
  MaxTime \in Nat /\ Horizons \subseteq -MaxTime..MaxTime /\ Priorities \subseteq Int

VARIABLES
  now,       \* now_
  queue,     \* tokens_
  used,      \* used_
  precision, \* prec_ and unit_
  call,      \* the function on the environment that main is in
  tkn,       \* the token step() is processing, None between steps
  body,      \* how far the process that was resumed for tkn is
  program,   \* the program that is run
  disturbed  \* history: the times of exception tokens, from now on

vars == <<now, queue, used, precision, call, tkn, body, program, disturbed>>

PQ == INSTANCE PriorityQueue WITH Less <- TokenComp

Pending == {queue[i] : i \in DOMAIN queue}
Latest(a, b) == IF a >= b THEN a ELSE b

Idle == [fn |-> "none", t |-> None]
Calls == [fn : {"none", "step", "run"}, t : {None}]
           \cup [fn : {"run_until"}, t : Horizons]
Token == [id : Ids, coro : BOOLEAN, handler : BOOLEAN, eptr : BOOLEAN,
          time : Int, priority : Priorities, precision : Precisions]

Init ==
  /\ now = 0
  /\ queue = << >>
  /\ used = FALSE
  /\ precision \in Precisions
  /\ call = Idle
  /\ tkn = None
  /\ body = "running"
  /\ program \in Programs
  /\ disturbed = {}

-----------------------------------------------------------------------------
(* Scheduling.  A token records the precision its ticks were counted in.     *)

Pushed(t) == PQ!Push(queue, t)
MarkForgotten == used   \* mutant of Marked
Marked == TRUE

ScheduleToken(kind, time, priority) ==
  /\ time \in -MaxTime..MaxTime
  /\ \E id \in Ids \ {t.id : t \in Pending} :
       queue' = Pushed([id |-> id, coro |-> kind.coro, handler |-> kind.handler,
                        eptr |-> kind.eptr, time |-> time,
                        priority |-> priority, precision |-> precision])
  /\ used' = Marked
  /\ disturbed' = disturbed \cup (IF HasPriority(kind) THEN {time} ELSE {})

(* main binds a process: its start token is scheduled at now + latency.      *)
Bind(latency, priority) ==
  /\ call = Idle
  /\ ScheduleToken(Wakeup, now + latency, priority)
  /\ UNCHANGED <<now, precision, call, tkn, body, program>>

(* A running process starts others, waits for time to pass, wakes others.    *)
BodySchedules(kind, latency, priority) ==
  /\ tkn # None /\ ~tkn.handler /\ body = "running"
  /\ kind.coro
  /\ ScheduleToken(kind, now + latency, priority)
  /\ UNCHANGED <<now, precision, call, tkn, body, program>>

CompletionLatencies(waiter) ==
  IF waiter = Done /\ body = "failed" THEN program.exceptionLatencies ELSE program.latencies

(* It returns or fails, and its completion tokens are scheduled one by one.  *)
BodyReturns(outcome) ==
  /\ tkn # None /\ ~tkn.handler /\ body = "running"
  /\ body' = outcome
  /\ UNCHANGED <<now, queue, used, precision, call, tkn, program, disturbed>>

SchedulesCompletion(waiter, latency, priority) ==
  /\ body # "running"
  /\ ScheduleToken([waiter EXCEPT !.eptr = (body = "failed")], now + latency, priority)
  /\ UNCHANGED <<now, precision, call, tkn, body, program>>

-----------------------------------------------------------------------------
(* Processing one token.                                                     *)

Caller == IF call.fn = "step" THEN Idle ELSE call   \* where step() returns to

(* Mutant of MoreToDo: run_until stops short of what is due at its horizon.  *)
MoreToDoBefore ==
  CASE call.fn = "run_until" -> queue # << >> /\ PQ!Top(queue).time < call.t
    [] call.fn \in {"run", "step"} -> queue # << >>
    [] OTHER -> FALSE

(* The test of the loop that main's call is.                                 *)
MoreToDo ==
  CASE call.fn = "run_until" -> queue # << >> /\ PQ!Top(queue).time <= call.t
    [] call.fn \in {"run", "step"} -> queue # << >>
    [] OTHER -> FALSE

(* The top is popped and dispatched.  An exception token throws out of the   *)
(* loop; a token with neither coroutine nor exception does nothing.          *)
ClockOf(t) == t.time   \* mutant of ClockAfter
ClockAfter(t) == Latest(t.time, now)
Popped == PQ!Pop(queue)

Step ==
  /\ tkn = None /\ MoreToDo
  /\ LET top == PQ!Top(queue) IN
     /\ queue' = Popped
     /\ now' = ClockAfter(top)
     /\ disturbed' = {d \in disturbed : d >= now'}
     /\ IF top.handler \/ top.coro THEN tkn' = top /\ UNCHANGED call
        ELSE /\ tkn' = None
             /\ call' = IF top.eptr THEN Idle ELSE Caller
  /\ UNCHANGED <<used, precision, body, program>>

(* The resumed process has suspended or ended; resume() itself never throws. *)
BodyEnds ==
  /\ tkn # None /\ ~tkn.handler
  /\ tkn' = None
  /\ call' = Caller
  /\ body' = "running"
  /\ UNCHANGED <<now, queue, used, precision, program, disturbed>>

(* The handler of an any_of or all_of throws what a failed child left it ... *)
HandlerThrows ==
  /\ tkn # None /\ tkn.handler /\ tkn.eptr
  /\ tkn' = None
  /\ call' = Idle
  /\ UNCHANGED <<now, queue, used, precision, body, program, disturbed>>

(* ... waits for more children, or has waited for enough of them already ... *)
HandlerWaits ==
  /\ tkn # None /\ tkn.handler /\ ~tkn.eptr
  /\ tkn' = None
  /\ call' = Caller
  /\ UNCHANGED <<now, queue, used, precision, body, program, disturbed>>

(* ... or schedules the completion, at the time of the child's token; that of *)
(* a composition in another has the handler of the outer one.                *)
HandlerCompletes(kind, latency, priority) ==
  /\ tkn # None /\ tkn.handler /\ ~tkn.eptr
  /\ kind.coro
  /\ ScheduleToken(kind, tkn.time + latency, priority)
  /\ tkn' = None
  /\ call' = Caller
  /\ UNCHANGED <<now, precision, body, program>>

-----------------------------------------------------------------------------
(* What main calls.                                                          *)

Call(c) ==
  /\ call = Idle
  /\ c.fn # "step" \/ queue # << >>     \* step() of an empty queue is FALSE
  /\ c # Idle
  /\ call' = c
  /\ UNCHANGED <<now, queue, used, precision, tkn, body, program, disturbed>>

RunReturns ==
  /\ call.fn = "run" /\ tkn = None /\ ~MoreToDo
  /\ call' = Idle
  /\ UNCHANGED <<now, queue, used, precision, tkn, body, program, disturbed>>

RunUntilReturns ==
  /\ call.fn = "run_until" /\ tkn = None /\ ~MoreToDo
  /\ now' = Latest(now, call.t)
  /\ disturbed' = {d \in disturbed : d >= now'}
  /\ call' = Idle
  /\ UNCHANGED <<queue, used, precision, tkn, body, program>>

(* time_precision(x) and time_unit(x) throw once the environment is used.    *)
MayChangePrecision == ~used

SetPrecision(p) ==
  /\ call = Idle /\ MayChangePrecision
  /\ precision' = p
  /\ UNCHANGED <<now, queue, used, call, tkn, body, program, disturbed>>

Reset ==
  /\ call = Idle
  /\ queue' = << >>
  /\ now' = 0
  /\ disturbed' = {}
  /\ UNCHANGED <<used, precision, call, tkn, body, program>>

Next ==
  \/ \E l \in program.latencies, p \in program.priorities :
       Bind(l, p) \/ \E k \in program.kinds : BodySchedules(k, l, p) \/ HandlerCompletes(k, l, p)
  \/ \E o \in program.outcomes : BodyReturns(o)
  \/ \E k \in program.kinds, p \in program.priorities : \E l \in CompletionLatencies(k) :
       SchedulesCompletion(k, l, p)
  \/ Step
  \/ BodyEnds
  \/ HandlerThrows
  \/ HandlerWaits
  \/ \E c \in Calls : Call(c)
  \/ RunReturns
  \/ RunUntilReturns
  \/ \E p \in Precisions : SetPrecision(p)
  \/ Reset

Spec == Init /\ [][Next]_vars

-----------------------------------------------------------------------------
(* Between calls no token is half processed, not even after an exception has *)
(* left a call; and an environment that holds tokens knows that it is used.  *)
TypeOK ==
  /\ now \in Int
  /\ queue \in Seq(Token)
  /\ used \in BOOLEAN
  /\ precision \in Precisions
  /\ call \in Calls
  /\ tkn \in Token \cup {None}
  /\ body \in {"running"} \cup program.outcomes
  /\ program \in Programs
  /\ disturbed \subseteq Int
  /\ call = Idle => tkn = None
  /\ queue # << >> => used

(* Every pending token's ticks were counted in the precision now in force,   *)
(* also after reset() and between two binds.                                 *)
OnePrecision == \A t \in Pending : t.precision = precision

(* The programs whose tokens are executed in order: those in which nothing   *)
(* fails, or else no token is scheduled into the past, and no return latency *)
(* puts an exception token after what is due before it.                      *)
Timely(p) == "failed" \in p.outcomes => p.latencies \subseteq Nat /\ p.exceptionLatencies \subseteq {0}

(* When run_until(t) returns, nothing scheduled at or before t is left, the  *)
(* clock reads at least t, and whatever is later is still scheduled.         *)
RunUntilComplete ==
  [][call.fn = "run_until" /\ tkn = None /\ call' = Idle /\ queue' = queue
      => /\ now' >= call.t
         /\ \A i \in DOMAIN queue : queue[i].time > call.t]_vars

(* The environment keeps the promises of the event loop.                     *)
Loop == INSTANCE EventLoop WITH
  Time <- -MaxTime..MaxTime, Priority <- Priorities,
  pending <- {[id |-> t.id, time |-> t.time, priority |-> t.priority,
               throws |-> HasPriority(t)] : t \in Pending}
LoopSpec == Loop!Spec
=============================================================================
