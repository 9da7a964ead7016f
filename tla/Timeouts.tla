------------------------------ MODULE Timeouts ------------------------------
(* Processes that wait for time, in a simulation: co_main and the processes  *)
(* it starts wait for a while, until an instant, or until a deadline they    *)
(* have captured, all given by time expressions, and for each other, with    *)
(* latencies and priorities that are given or inherited; main runs it all in *)
(* one go or in slices.  The environment is the event loop it implements     *)
(* (see Environment).                                                        *)
EXTENDS TimeExpression

CONSTANTS CoMain,     \* co_main()
          Children,   \* the processes it starts or awaits
          Inherit,    \* priority_consts::inherit
          GivenBy,    \* the priorities each process gives; lower goes first
          Latencies,  \* latencies of starts and returns, in ticks
          None,
          Clocks,     \* the precisions and units that simulations are run in
          MaxWaits,   \* bound on the waits
          MaxSlices,  \* bound on the calls of run_for
          MaxTime,    \* bound on the clock and on deadlines
          Waited      \* what the time_exprs may say that simulations use

ASSUME NoneAssumption == None \notin {CoMain} \cup Children
ASSUME LatenciesAssumption == Latencies \subseteq Int
ASSUME ClocksAssumption == Clocks \subseteq Precisions \X Precisions
ASSUME InheritAssumption ==
  /\ Inherit \in Int /\ Inherit > 0
  /\ \A p \in {CoMain} \cup Children : GivenBy[p] \subseteq {pr \in Int : pr <= Inherit}

Procs == {CoMain} \cup Children
OneSecond == [t |-> 1, u |-> 0]

VARIABLES
  precision, unit,    \* prec_, unit_
  now, pending,       \* now_; tokens_, each named for the process it resumes
  call,               \* what main calls: none, run, or run_for up to .t
  bound,              \* simulation::bound_
  current,            \* current_coroutine_
  life,               \* of each process: unbound, bound or complete
  priority,           \* priority_
  captured,           \* the instant a process keeps from a lazy_timeout
  awaited,            \* completion tokens of each process: [to, time, priority]
  waits, slices,
  asked               \* history: when each wait began, its due time and its loss

clock == <<precision, unit>>
loop == <<now, pending>>
procs == <<bound, current, life, priority, captured, awaited, waits, slices, asked>>
vars == <<exprs, crashed, clock, loop, call, procs>>

Loop == INSTANCE EventLoop WITH Ids <- Procs, Time <- Int, Priority <- Int, disturbed <- {}

NoCall == [fn |-> "none", t |-> 0]
Ticks(x) == Count(exprs[x].says, precision, unit)

TimeoutInit ==
  /\ Init
  /\ Loop!Init
  /\ precision = OneSecond /\ unit = OneSecond
  /\ call = NoCall
  /\ bound = FALSE
  /\ current = None
  /\ life = [p \in Procs |-> "unbound"]
  /\ priority = [p \in Procs |-> Inherit]
  /\ captured = [p \in Procs |-> None]
  /\ awaited = [p \in Procs |-> {}]
  /\ waits = 0 /\ slices = 0
  /\ asked = [p \in Procs |-> None]

(* A timeout, a return or a process without a priority of its own takes      *)
(* another's.                                                                *)
ResolvedLate(given, from) == given   \* mutant of Resolved: left to whoever reads it
Resolved(given, from) == IF given = Inherit THEN from ELSE given
Token(p, time, pr) == [id |-> p, time |-> time, priority |-> pr, throws |-> FALSE]
Asked(due, loss) == [at |-> now, due |-> due, loss |-> loss]
Exactly(t) == Asked(<<t, 1>>, <<0, 1>>)

-----------------------------------------------------------------------------
(* bind_: the start token, with the priority of c or else an inherited one.  *)
BindTo(c, pr, latency, inherited) ==
  /\ life' = [life EXCEPT ![c] = "bound"]
  /\ priority' = [priority EXCEPT ![c] = Resolved(pr, inherited)]
  /\ pending' = pending \cup {Token(c, now + latency, Resolved(pr, inherited))}

Runs(p) == current = p /\ p # None

(* co_await async(c) of a process that is not bound, with the priority and   *)
(* the latency that were set on its handle.                                  *)
Start(p, c, pr, latency) ==
  /\ Runs(p) /\ life[c] = "unbound"
  /\ BindTo(c, pr, latency, priority[p])
  /\ asked' = [asked EXCEPT ![c] = Exactly(now + latency)]
  /\ UNCHANGED <<exprs, crashed, clock, now, call, bound, current, captured, awaited, waits, slices>>

(* co_await c registers a completion token, whose time is the latency of the *)
(* return so far, and whose priority may be that of c.                       *)
Completion(p, c, pr, latency) ==
  [to |-> p, time |-> latency, priority |-> Resolved(pr, priority'[c])]

Await(p, c, pr, latency) ==
  /\ Runs(p) /\ life[c] # "complete" /\ waits < MaxWaits
  /\ IF life[c] = "unbound"
     THEN /\ BindTo(c, Inherit, 0, priority[p])
          /\ asked' = [asked EXCEPT ![c] = Exactly(now)]
     ELSE UNCHANGED <<life, priority, pending, asked>>
  /\ awaited' = [awaited EXCEPT ![c] = @ \cup {Completion(p, c, pr, latency)}]
  /\ waits' = waits + 1
  /\ current' = None
  /\ UNCHANGED <<exprs, crashed, clock, now, call, bound, captured, slices>>

(* do_return: the completion tokens are scheduled, counted from now.         *)
Return(p) ==
  /\ Runs(p)
  /\ pending' = pending \cup {Token(t.to, t.time + now, t.priority) : t \in awaited[p]}
  /\ asked' = [q \in Procs |-> LET mine == {t \in awaited[p] : t.to = q} IN
                 IF mine = {} THEN asked[q] ELSE Exactly((CHOOSE t \in mine : TRUE).time + now)]
  /\ awaited' = [awaited EXCEPT ![p] = {}]
  /\ life' = [life EXCEPT ![p] = "complete"]
  /\ current' = None
  /\ UNCHANGED <<exprs, crashed, clock, now, call, bound, priority, captured, waits, slices>>

-----------------------------------------------------------------------------
(* Waiting for time.  A timeout of x is due Ticks(x) from now, an instant at *)
(* Ticks(x); what is already past is not waited for.                         *)
DeadlineOnly(x) == Ticks(x)   \* mutant of Deadline: forgets now
Deadline(x) == now + Ticks(x)
InstantIn(base, x) ==
  Asked(Plus(<<base, 1>>, Exact(exprs[x].says, precision, unit)),
        Loss(exprs[x].says, precision, unit))

WaitUntil(p, time, pr, what) ==
  /\ Runs(p) /\ waits < MaxWaits /\ time <= MaxTime
  /\ pending' = pending \cup {Token(p, time, Resolved(pr, priority[p]))}
  /\ asked' = [asked EXCEPT ![p] = what]
  /\ waits' = waits + 1
  /\ current' = None
  /\ UNCHANGED <<clock, now, call, bound, life, priority, awaited, slices>>

(* Timeouts, instants and run_for keep x, copied or moved from; timeout() of *)
(* the environment reads it.                                                 *)
Kinds == {"copied", "moved"}
Takes(x, how) ==
  /\ ~Dereferences(exprs, [of |-> x, how |-> how])
  /\ exprs' = After(exprs, [of |-> x, how |-> how])
  /\ UNCHANGED crashed

Timeout(p, x, how, pr) ==
  /\ WaitUntil(p, Deadline(x), pr, InstantIn(now, x))
  /\ Takes(x, how)
  /\ UNCHANGED captured

Until(p, x, how, pr) ==
  /\ Takes(x, how)
  /\ IF now >= Ticks(x)
     THEN /\ Runs(p)
          /\ UNCHANGED <<clock, loop, call, procs>>
     ELSE /\ WaitUntil(p, Ticks(x), pr, InstantIn(0, x))
          /\ UNCHANGED captured

(* co_await lazy_timeout(x, pr) captures a deadline and returns the instant. *)
LazyTimeout(p, x, how, pr) ==
  /\ Runs(p) /\ captured[p] = None /\ Deadline(x) <= MaxTime /\ waits < MaxWaits
  /\ captured' = [captured EXCEPT ![p] =
       [time |-> Deadline(x), priority |-> pr, what |-> InstantIn(now, x)]]
  /\ Takes(x, how)
  /\ UNCHANGED <<clock, loop, call, bound, current, life, priority, awaited, waits, slices, asked>>

(* co_await of that instant, after whatever the process did in between.      *)
AwaitCaptured(p) ==
  /\ Runs(p) /\ captured[p] # None
  /\ captured' = [captured EXCEPT ![p] = None]
  /\ UNCHANGED <<exprs, crashed>>
  /\ IF now >= captured[p].time
     THEN UNCHANGED <<clock, loop, call, bound, current, life, priority, awaited, waits, slices, asked>>
     ELSE WaitUntil(p, captured[p].time, captured[p].priority, [captured[p].what EXCEPT !.at = now])

-----------------------------------------------------------------------------
(* main: it makes expressions, sets precision and unit while it may (the     *)
(* nodes it has named are out of scope then), and runs the simulation, which *)
(* binds co_main the first time.                                             *)
Build ==
  /\ ~bound /\ precision = OneSecond /\ unit = OneSecond
  /\ Next
  /\ UNCHANGED <<clock, loop, call, procs>>

SetClock(p, u) ==
  /\ ~bound /\ ~crashed
  /\ \A x \in Exprs : exprs[x].says \in Waited
  /\ precision' = p /\ unit' = u
  /\ exprs' = [x \in Exprs |-> exprs[x]]
  /\ UNCHANGED <<crashed, loop, call, procs>>

Bind ==
  /\ bound' = TRUE
  /\ IF bound THEN UNCHANGED <<life, priority, pending, asked>>
     ELSE /\ BindTo(CoMain, Inherit, 0, 0)
          /\ asked' = [asked EXCEPT ![CoMain] = Exactly(now)]

Run(c) ==
  /\ call = NoCall
  /\ precision # OneSecond
  /\ call' = c
  /\ slices' = IF c.fn = "run" THEN slices ELSE slices + 1
  /\ slices' <= MaxSlices
  /\ Bind
  /\ UNCHANGED <<clock, now, current, captured, awaited, waits>>

RunAll == Run([fn |-> "run", t |-> 0]) /\ UNCHANGED <<exprs, crashed>>
RunFor(x, how) ==
  /\ now + Ticks(x) <= MaxTime
  /\ Run([fn |-> "run_for", t |-> now + Ticks(x)])
  /\ Takes(x, how)

(* A process or main copies an expression that has null in some place.       *)
CopyNull(x) ==
  /\ current # None \/ (call = NoCall /\ precision # OneSecond)
  /\ Dereferences(exprs, [of |-> x, how |-> "copied"])
  /\ Crash
  /\ UNCHANGED <<clock, loop, call, procs>>

(* step() of what is next and, in run_for, not beyond its end.               *)
Step(e) ==
  /\ call # NoCall /\ current = None
  /\ call.fn = "run_for" => e.time <= call.t
  /\ Loop!Execute(e)
  /\ current' = e.id
  /\ UNCHANGED <<exprs, crashed, clock, call, bound, life, priority, captured, awaited, waits, slices, asked>>

Returns ==
  /\ call # NoCall /\ current = None
  /\ IF call.fn = "run_for" THEN Loop!AdvanceTo(call.t)
                            ELSE pending = {} /\ UNCHANGED loop
  /\ call' = NoCall
  /\ UNCHANGED <<exprs, crashed, clock, procs>>

Simulation ==
  \/ RunAll
  \/ \E x \in Exprs : CopyNull(x)
  \/ \E x \in Exprs, how \in Kinds : RunFor(x, how)
  \/ \E p \in Procs : \E pr \in GivenBy[p] :
       \/ \E c \in Children, l \in Latencies : Start(p, c, pr, l) \/ Await(p, c, pr, l)
       \/ \E x \in Exprs, how \in Kinds :
            Timeout(p, x, how, pr) \/ Until(p, x, how, pr) \/ LazyTimeout(p, x, how, pr)
       \/ \E x \in Exprs : Timeout(p, x, "read", pr)
  \/ \E p \in Procs : Return(p) \/ AwaitCaptured(p)
  \/ \E e \in pending : Step(e)
  \/ Returns

Stopped == crashed /\ UNCHANGED vars

TimeoutNext ==
  \/ Build
  \/ \E c \in Clocks : SetClock(c[1], c[2])
  \/ ~crashed /\ Simulation
  \/ Stopped

TimeoutSpec == TimeoutInit /\ [][TimeoutNext]_vars

-----------------------------------------------------------------------------
(* A process that waits for time, for a start or for a completion goes on    *)
(* when it is due: at the time its expression stands for, but for what the   *)
(* expression loses, and at once if that had passed when the wait began,     *)
(* whatever runs before it and however main slices the run.                  *)
Passed(off, loss) == off[1] * loss[2] <= loss[1] * off[2]
OnTime ==
  [][\A p \in Procs : current = None /\ current' = p =>
       \/ Near(Plus(asked[p].due, <<-now', 1>>), asked[p].loss)
       \/ now' = asked[p].at /\ Passed(Plus(asked[p].due, <<-now', 1>>), asked[p].loss)]_vars

(* Inheriting is settled before a token is scheduled: the sentinel, which    *)
(* would come after every priority there is, never gets into the queue.      *)
PrioritiesResolved ==
  /\ \A e \in pending : e.priority # Inherit
  /\ \A p \in Procs : life[p] # "unbound" => priority[p] # Inherit
=============================================================================
