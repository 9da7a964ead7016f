# A formal model of cxxdes

TLA+ modules, TLC configurations and machine-checked proofs about
[libcxxdes](../src), a header-only C++20 library for process-based discrete event
simulation. Processes are coroutines; an `environment` keeps a simulated clock and a
priority queue of resume *tokens*; synchronisation primitives, timeouts and
compositions are awaitables that register or schedule tokens. One thread runs
everything, so the hard part is not data races. It is the interleaving of
coroutines at their `co_await`s, tokens that are kept somewhere and scheduled
later, and what is left over when something fails or is reset.

All definitions are translated from `src/include/cxxdes`. `PROJECT.json` maps each
of them to the lines it stands for.

## 1. The system

| component | state | operations | talks to |
|---|---|---|---|
| environment (`core/impl/environment.ipp`, `token.ipp`) | `now_`, `tokens_` (a heap), `used_`, `prec_`/`unit_`, `coroutines_`, `current_coroutine_` | `schedule_token`, `bind`, `step`, `run`, `run_until`, `run_for`, `reset`, `time_unit`, `time_precision` | resumes processes, invokes handlers, throws what nobody awaits to main |
| processes (`coroutine.ipp`, `coroutine_data.ipp`, `async.ipp`) | `env_`, `complete_`, completion tokens (one for a unique coroutine, many for a shared one), the call stack | bind, await, `async`, return, fail, destroy | schedule their completion tokens in the environment |
| subroutines (`subroutine.ipp`, `coroutine_data.ipp`) | a stack of frames, `should_continue_`, an exception per frame | create, await, return, throw, destroy | share the process they run in |
| compositions (`any_of.ipp`, `compositions.ipp`) | one handler per await and level: `remaining`, `completion_tkn` | `await_bind`, `await_ready`, `await_suspend`, `invoke`, `await_resume` | replace the handler of their children's tokens; invoked by `step` |
| timeouts (`timeout.ipp`) | none but the token | relative, absolute (`until`), lazy | schedule their token |
| `sync::event` | the waiters' tokens | `wait`, `wake` | keeps tokens the environment cannot see |
| `sync::semaphore`, `mutex`, `queue`, `resource` | a count, a flag, a deque, and an event | `up`/`down`, `acquire`/`release`, `put`/`pop` | loops over one event; `resource` over a semaphore |
| time expressions (`misc/time.hpp`) | the tree a `time_expr` owns | `count`, the operators, copy and move | the environment's unit and precision |
| reference counting (`misc/reference_counted.hpp`) | counts | `ref`, `unref`, copying and moving a `ptr` | lifetime of `coroutine_data` and handlers |
| `simulation` (`core/simulation.hpp`) | whether `co_main` is bound | `run`, `run_for` | binds `co_main`, runs its environment |
| `_Co_with`, `sequential`, debug helpers | none | | use the above |

What is hard here, and what makes each part correct:

- **environment**: order of execution by time and priority under late tokens, ties
  and exception tokens; `run_until` complete at its horizon; no token read in a
  precision it was not counted in.
- **processes**: every suspended process is resumed by exactly one token, wherever
  that token is kept; a process that ends reports to everyone who waits, once, with
  its exception if it has one; the environment destroys at reset exactly what lives.
- **lifetimes**: a frame goes once, and not before its coroutine can no longer be
  resumed, although handles, tokens, parents, frames and the environment refer to each
  other and main, bodies, destructors and `reset()` let go of them in any order.
- **timeouts**: whatever way the time is given, and however main slices the run, a
  process goes on when it is due, behind nobody it should come before.
- **subroutines**: calls nest, `resume()` stops exactly at waits, every frame dies once.
- **compositions**: the handlers' counters agree with what happened, including
  children that were complete already and tokens of an earlier await.
- **primitives**: a wake reaches everyone it should, although all the woken look
  again one after another and others run in between; mutual exclusion, capacity and
  units are kept; release does not block.

`PROJECT.json` lists these dangers under `hazards`, with the line where each bites.

## 2. The modules

| module | models | built on |
|---|---|---|
| `Tokens` | the token and `token_comp` | |
| `PriorityQueue` | `std::priority_queue` as libstdc++ builds it (external), for *any* comparator; its loops are least sets of positions, so that they can be reasoned about | |
| `Environment` | the clock, the heap and the loops over it; bodies are open: a running body schedules any tokens | `Tokens`, `PriorityQueue` |
| `EventLoop` | abstract: what an environment promises | refined by `Environment` |
| `Process` | the life of processes: binding, awaiting, `async`, waiting on an event and waking it, completion with or without a value, failure, reset | |
| `Event` | the same with a main that uses the event on after a reset | extends `Process` |
| `SyncEvent` | the same event as a set of waiters and a set of woken, for the primitives; `Processes` names who uses them | |
| `Semaphore`, `Mutex`, `Queue` | the primitives, loops included | `SyncEvent` |
| `AtomicSemaphore`, `AtomicQueue` | abstract: operations that take effect at once | refined by `Semaphore`, `Queue` |
| `Resource` | units as handles on a semaphore | extends `Semaphore` |
| `Composition` | trees of `any_of` and `all_of`, awaited repeatedly | |
| `CallStack` | the frames of one process, `resume()`'s loop, who owns each subroutine and how often each frame is destroyed | |
| `TimeExpression` | quantities, expressions and what they count, against exact fractions; expressions and named nodes copied and moved, into each other and as operands | |
| `Timeouts` | a simulation whose processes wait for such expressions (relative, absolute, lazy) and for each other, with latencies and priorities | extends `TimeExpression`; its clock is `EventLoop` |
| `Handles` | who refers to a `coroutine_data`, its count, the frames, and destructors one by one | |
| `MC*` | values for TLC; `MCMutexAndQueue` has a `Mutex` and a `Queue` side by side, with an event each, and a program uses one of them | |
| `EnvironmentProofs` (with `EventLoop`), `ProcessProofs`, `SemaphoreProofs` (with `Resource`), `MutexAndQueueProofs`, `CallStackProofs`, `CompositionProofs`, `HandlesProofs`, `TimeoutsProofs` (with `TimeExpression`) | theorems | each extends the module it is about, and TLAPS |

**How state and steps correspond to the code.** A coroutine runs without
interruption from one suspension to the next, so an action is either what a handler
does between two suspensions or, where a body may do several things in a row and
others could tell, one of these things. `Process` has an action for each `co_await`
of a body and lets the body choose; its `current` and `raised` say who runs and
whether its `co_await` is throwing. `Semaphore`, `Mutex` and `Queue` take one action
from the entry of an operation (or from a wake inside it) to its end or to its next
wait. `Handles` has one action for each use of a handle, and then one for each
destructor it sets off (`todo` is what is left of the functions that are running), because
what a destructor lets go of may set off others. `Environment` splits `step()` in two, the pop and the return of what it
dispatched to, because the body in between schedules tokens.

**Times.** `Environment` and `Timeouts` have a clock. `Process`, `Event`, `Composition`,
`Handles` and the primitives leave times and priorities out: the latencies and priorities a
program picks can bring about any order of execution, so there any scheduled token
may be the next. What holds there holds for every choice of them. `Timeouts` does not run
the heap but the loop `Environment` is shown to implement, and adds what computes the times
and priorities of tokens: time expressions, latencies and what is inherited.

**Data left out.** Source locations, names of units of time, and
what an item of a queue is made of. Of a return value `Process` keeps whether it is there
(`values`), because `await_resume` throws when it is not. In `Process`, tokens that resume nobody (one per
`bind` and `async` of the same coroutine) count as one: how many there are
decides only how often an exception reaches main. Exceptions are told apart only by whose they are.

**The heap.** `token_comp` is not a strict weak order (section 5), so what
`std::priority_queue` does with it is not given by its documentation.
`PriorityQueue` says what libstdc++ does. An exception token does not only go first: while it rises
or another takes its place, tokens it has no quarrel with change places too. `EventLoop` says what is left of the order of
priorities, with the variable `disturbed`: the times, from now on, at which an exception token is or was scheduled. At all other times
lower priorities go first. In `Environment` the same variable is a history variable: no guard reads it.

## 3. The runs

| run | shows |
|---|---|
| `environment` | the loops over the heap implement `EventLoop` (`LoopSpec`), `run_until` leaves nothing that is due (`RunUntilComplete`), no token is reinterpreted (`OnePrecision`) |
| `environment_late_exception` | violation: with a return latency on a failing process `run_until` returns early |
| `process` | one wakeup for each suspended process, also while an event keeps it, exact management, somebody to report to, failures carried, values there when they are taken; a process whose awaited process has ended gets to run, and `run()` ends; the inductive invariant |
| `event_reset` | violation: a wake after `reset()` resumes a destroyed process |
| `mutex_and_queue` | mutual exclusion with moved and destroyed handles, no sleeping on a free mutex, a free mutex is acquired; the loops of a queue, bounded or not, implement a first-in-first-out queue whose operations take effect at once, within the capacity, and do not sleep on a possible operation |
| `resource` | the semaphore, used directly or by a resource: `up`/`down` implement atomic operations, safety and liveness, also from a count above the maximum; nobody sleeps on a count that allows them; units are conserved, `release()` never waits |
| `composition` | counters agree with what is outstanding, one resume per await, neither too early nor forgotten; awaits end if no child throws |
| `composition_failure` | violation: the failure of the last child of an `all_of` is never seen by the process that awaits it |
| `call_stack` | nesting, `resume()` returns exactly at waits, every frame is destroyed exactly once, and none while the stack still needs it |
| `timeouts` | an expression's count is off by what its terms lose to truncation and no more, also with null in it; a process that waits goes on when it is due, and at once if that has passed (`OnTime`); no token or process is left with the sentinel priority that stands for another's (`PrioritiesResolved`) |
| `invalid_expression` | violation: copying an expression that is invalid, though it counts as zero, dereferences null |
| `handles` | counts are exact, also half-way through destructors; nothing is resumed or destroyed without its frame, or destroyed twice; what cannot be reached is gone, with two exceptions the property names (section 5) |

Each property of a passing run comes with a plausible bug (an operator marked
`mutant` in the module) that makes TLC find it violated.

**Bounds.**

- `environment`: three token objects (identities are reused, so runs are unbounded
  in length), horizon 1 and timestamps up to `MaxTime` = 2: before, at and
  after the horizon, ties in time with and without a tie in priority, a full heap
  level. `Programs` are three: `LateTokens` has negative latencies and two priorities; in `Failures` processes
  fail, with exception tokens at the current time, and handlers throw; `Disturbances` has failures among three priorities, because it takes
  three at one time for an exception token to change the order of others. Late tokens and failures
  are not mixed, and section 5 says why (`Timely`). Precisions and tokens are symmetric.
- `process`, `event_reset`: three shared and one unique coroutine: enough for two waiters
  of one process, a chain of three, cycles, and a mixed case. `MaxPauses` bounds the
  timeouts and wakes waited for: 2, so that one process may wait twice or two once (`event_reset`: two
  shared coroutines and 1, which is enough for its behaviour). Each coroutine runs once, so otherwise behaviours are
  finite by themselves, up to `async` of what is started.
- `mutex_and_queue`, `resource`: four processes, so that two can wait while
  two race; a maximum of two, so the primitive can be empty, in between, full, and
  (semaphore) over-full. `resource` starts with a count of 0 to 3, and `owned` says whether the
  processes use the semaphore or a resource that owns it; two `HandleNames` are enough, since at most
  `Max` handles are valid at once. The queue starts with a `max_size` of 0
  (unbounded), 1 or 2; `Bound` limits only the unbounded one.
- `composition`: a composition in a composition, a process that is in both, a timeout in
  each, every choice of `any_of` and `all_of`, every choice of started processes;
  `MaxRounds` = 2 awaits, so that tokens of the first are processed during the second.
- `call_stack`: four subroutines (three deep with one to spare, or siblings), three waits.
- `timeouts`: two `time_expr`s, a table `Conv` of powers of 3 in place of 1000 (TLC's integers have 32 bits; nothing in the
  definitions depends on it), three units, counts of either sign and on either side of the base, one named node, and `MaxNodes` = 3
  nodes in all, null not counted: a difference of two quantities, two operators over one, an operator over null in every place, and what moving leaves of a named node of two.
  Of these, the ones in `Waited` are then waited for: a quantity, an inherited unit, an
  operator over a quantity, null, and a difference from null. `co_main` gives the priority 1, its child inherits (`GivenBy`), `Latencies` is 1; two waits (`MaxWaits`) are enough
  for each to wait for time, for one to wait for the other, or for one to wait twice; one slice (`MaxSlices`) lets
  a deadline lie before, at or beyond its end, and any `run` follows it. Two pairs of precision and unit, one with the same and one with different
  units, both with a tick of five.
- `handles`: three coroutines, so that one can be between two others in a chain, a cycle or a destructor; one variable outside of frames and one parameter in
  each frame. Each coroutine is created and completes once, so nothing else has to be bounded.

**Fairness.** Weak fairness only, and only of three things: a scheduled token
is processed while main keeps calling `run()` (the queue is processed until it
is empty, time passes); main goes on after it has caught what `run()` threw; a body
does not compute forever without a suspension (in `process`) and every leaf of a tree
ends (in `composition`). Nothing is assumed about which of several tokens goes first,
nor that a process calls an operation, releases a handle or resets.

**Deadlock.** Stopping is legal in `mutex_and_queue` and `resource` (all
processes may wait, e.g. all in `down()` at count zero), in `composition` (everything has happened,
or the process waits forever in the situation of `composition_failure`)
and in `call_stack` (the process is complete). Those configurations say
`CHECK_DEADLOCK FALSE`; the others check it. In `Timeouts` a program that has dereferenced null does nothing more (`Stopped`).

## 4. The proofs

All are checked by `tlapm` for every value of the constants, under the assumptions
named in the modules.

- `ProcessProofs`: `ProcessInv` is inductive. `OneWakeup` alone is not: that a wait adds a second token must be
  excluded, which takes that the running process is live and has none
  (`CurrentIsLive`), that what is registered with `c` is a completion of `c` and that
  an unmoved unique handle is awaited by nobody, so replacing a unique coroutine's token loses no process
  (`WaitingShape`), and that a scheduled completion is of a process that has ended
  (`QueueShape`, for `FailuresCarried`), and that an event keeps tokens of waits only, none of them scheduled as
  well (`WaitersShape`), so that `wake()` only moves wakeups. One lemma per action and per disturbed part;
  `PendingDef` and `LaunchPending` say which tokens an operation adds.
  From it: `TypeOK`, `OneWakeup`, `ManagedExactly`, `SomebodyToTell`, `FailuresCarried`.
- `SemaphoreProofs`: `TypeOK /\ NoLostWakeup` is inductive because a change of the count
  leaves no waiters; and the loops implement the safety part of `AtomicSemaphore`:
  a failed look maps to `Block` or, after a wake, to a stutter. A resource is a semaphore (`ResourceUsesSemaphore`), so this holds of it
  too; and `Conserved` and `ReleaseNeverWaits` are inductive together with it (`ResourceInv`): that a release finds room takes that units are
  conserved, and that they are takes that no release waits half-way. `HandleNames` are finitely many names for the valid handles,
  so that what is handed out is the cardinality of a set.
- `MutexAndQueueProofs`. Of `Mutex`: `TypeOK`, `MutualExclusion` and `NoLostWakeup` are inductive together: that a free mutex
  has no valid handle is what makes the one `acquire()` hands out the only one.
  Of `Queue`: `QueueTypeOK`, and the loops implement the safety part of `AtomicQueue` for every capacity. It takes
  only that who looks is not blocked or is blocked in the operation he looks for, and that the capacity is a natural number
  (`QueueInv`); nothing is supposed of who was woken for what.
- `CallStackProofs`: `CallStackInv`. `CallsNest` says of the frames on the stack who awaits whom; to be inductive it needs who *owns* whom
  as well (`Nested`): the frame below holds the subroutine above it, and what a suspended frame holds is on the stack. Then all that `destroy()` reaches from
  the coroutine's frame includes the whole stack (`Reached`). `Counts` says that a frame has been destroyed as often as its status says it was, none or once: an object that was destroyed has
  no owner left, so no closure reaches its frame again. Together they give `DestroyedOnce`. `Machine` ties the states of `resume()`'s loop to the top of the stack.
  From it: `TypeOK`, `CallsNest`, `ReturnsWhenWaiting`, `DestroyedOnce`, for any set of subroutines.
- `CompositionProofs`: `CompositionInv`, for any tree (`TreeAssumption`: finitely many children each, compositions and timeouts
  in one place only because `any_of` and `all_of` hold them by value, all below the root), any number of rounds. `CountsOutstanding` needs that each child of each open handler is
  told of by at most one token (`TokensInv`, `AskedInv`); `NotTooEarly` needs that what the handlers of this await no longer expect
  has happened (`HeardHappened`). What a composition binds, registers and finds ready, in whatever depth, is a least set of nodes.
  From it: `TypeOK`, `CountsOutstanding`, `OneResume`, `NotForgotten`, and the action property `NotTooEarly`.
- `HandlesProofs`: `HandlesInv`, for any finite numbers of coroutines and handles. A step of a destructor moves references from one place to
  another, so `CountsReferences` is shown one sum at a time (`Grouped`); that a reference given up was not the last, where the code relies on it, takes the rest.
  `Guarded`: who destroys a frame refers to its data until afterwards, so neither the promise nor the await in the frame deletes them.
  `ResetInv`: `reset()` destroys only what lives, clears the tokens after the last `destroy()`, and until then its local set refers to all that the tokens resume.
  `LifeInv`: a coroutine that was never started and has lost its frame, or is about to, has no handle left, so `~coroutine` does not destroy the frame again.
  `WakeInv`: a live process is resumed by one token at most, and none while it runs, so no token is left when its frame goes.
  `Assigning`: between the two halves of an assignment only pointers are let go.
  What follows in `todo` from what a destructor puts before it is said once (`Continues`, `Unwound`, `UnwoundInv`), for all of them.
  From it: `CountsReferences`, `FramesAreThere`.
  `NoLeak` needs `LeakInv` on top of it. `HeldInv`: a coroutine that was not started keeps its frame only while a handle holds it, or
  while the destructor of one is at work on it, unless it is `lost`; and who has completed is about to lose his. `NoRings`: neither parents nor the parameters of coroutines that were not started
  ever form a ring, because a reference of either kind is made while nothing of that kind refers to who makes it. Then a set that nothing outside refers to has no
  frame, because each would be the parameter of another in the set; and, unless a destroyed coroutine has tokens left, nothing at all, because each
  would be the parent of another.
- `TimeoutsProofs`:
  - Of `TimeExpression`: what a name says is a tree, with null in any place, and so is what moving leaves of it (`EvaluableInv`); it is all that the next result needs, and
    holds in a simulation too, where timeouts move expressions away.
  - `AccurateToItsTerms`, for every tree and every table `Conv` that is multiplicative. A quotient leaves less than its divisor, on the side of zero
    (`QuotientLeaves`), so a time is off by less than a tick, also when it is divided twice (`TimeCounted`); an error is scaled, added and divided with
    what it is an error of (`ScaledCounted`, `SumCounted`, `OverCounted`); so every node is as accurate as its operands allow (`NodeIsCounted`). What remains is an
    induction over the levels of trees. It is done with sets: a set that has 0 and, with each number, the next, has all naturals (`AllNaturals`, from the
    pigeonhole principle). The same shows that `Expressions`, `Count`, `Exact` and `Loss`, which are recursive functions, are what their definitions say
    (`ExpressionsUnfold`, `TreeRecursion`, `CountUnfolds`).
  - Of `Timeouts`: `PrioritiesResolved`, from `SettledInv`: whoever runs, or is going to be resumed, is bound, and who is bound has a priority of its own.
  - The action property `OnTime`, from three more invariants. `ClockInv`: the precision and the unit are set before anything runs. `OneWayInv`: a process is resumed by
    its token, or by the end of one process that it awaits, or runs; so what it asked for last is what its token is for. `DueInv`: a token's time is what was asked
    for, up to the loss of the expression, and a token that is late was late when it was scheduled, because the clock goes no further than what is next.
    `AccurateToItsTerms` gives the first half.
- `EnvironmentProofs`, for queues of any size:
  - Of every program: `TypeOK` and `OnePrecision`, together (`EnvironmentInv`): the latter takes that an environment that holds tokens is marked used, which `TypeOK` says and
    which `used_` is for.
  - Of every program that is `Timely` (nothing fails, or nothing is scheduled into the past and no `return_latency` delays an exception; TLC finds
    that `MCEnvironment`'s programs are): `RunUntilComplete`, and that the loops over the heap implement `EventLoop`, safety in
    full (`ImplementsEventLoop`). `EventLoop` keeps its types
    and never moves its clock beyond a pending event that was not already late, because an executed event has the least time (`EventLoopTypes`,
    `EventLoopNeverRunsPast`); so the clock of the environment never runs past what is due (`NeverRunsPastHolds`).
  - The argument. `SiftUpFacts`, `PushFacts`, `SunkFacts`, `PopFacts` and `TopFirst` are about a heap over any sequence: for a transitive relation that the comparator
    *agrees with* (`Order`: whoever goes after comes after, in it), the queue stays a heap, keeps its contents and repeats none of them. The
    comparator itself is not transitive, so the relation cannot be read off it. `Ahead` is the one to take: by time, then by priority except at disturbed
    times. `token_comp` agrees with it because in a timely program an exception token is due now and nothing is due earlier
    (`TimelyInv`). A new exception token makes `Ahead` weaker, never stronger, so what was a heap still is; and what the clock has passed can be forgotten, because
    nothing pending is before it.
  - The paths on which a hole rises and sinks are chains (`RiseChain`, `SinkChain`), shown from their being least sets. Where this needs an induction over positions, it
    is that a bounded set of naturals has a least element (`LeastElement`), which follows from the pigeonhole principle.

**Assumptions.** Besides those named above: constants of different kinds are different, and the
sets of coroutines and handles of `Handles` are finite; bounds are natural numbers,
`ProgramsAssumption` says what a body can schedule (the kinds of token the library makes), and `BoundsAssumption` that priorities are integers. `ConvAssumption` says of the table
`conv` of `time::count` that its entries are positive and that each is the product of those its index is the sum of, as powers of 1000 are; counts and latencies are integers, and priorities are integers of which
the sentinel, which is positive, is the largest (`InheritAssumption`). The bounds are in the guards, so the theorems hold for every value of them.

**Least sets.** What the code does by recursion or in a loop (destroying a frame and all it holds, binding a tree, moving a hole in a heap) is defined in
`CallStack`, `Composition` and `PriorityQueue` as the least set closed under one step. TLC evaluates that; and to prove that the set has a property it is
enough that the property is closed, without induction. `TimeExpression` evaluates trees with recursive functions over the set of all trees of bounded depth instead, because a sum
needs the values of both operands.

Only model-checked: liveness, all of it, which the prover cannot do under fairness. That is `WaiterResumed` and `RunReturns` of `Process`, `SomebodyAcquires` of `Mutex`,
`AwaitEnds` of `Composition`, and the fairness in `AtomicSpec` of `Queue` and `Resource`. Every other property of the passing runs is a theorem, within the hypotheses named above
(those of `EnvironmentProofs` on the program). That the instances satisfy the assumptions is checked by the runs.

## 5. Disagreements between the code and what is said of it

Shown by runs:

1. `environment.ipp:257`: an exception token is "before" everything, whatever its time.
   When a return latency puts it in the future, it is on top of the queue, and
   `run_until(t)` sees a top later than `t` and returns while tokens at or before `t` are
   pending, against `environment.ipp:185`.
2. `event.hpp:128`: an event keeps its waiters' tokens across `environment::reset()`, which
   destroys the waiters. A `wake()` afterwards makes `step()` resume a destroyed
   process; `coroutine_data.ipp:21` asserts that this does not happen.
3. `any_of.ipp:15`: a failed child's exception leaves `step()` before the composition
   looks at its condition. If this child was the last one needed, nobody
   resumes the process, against `coroutine_model.md:266`. (The comment at `any_of.ipp:13-14`, "this must be handled by main", agrees with the code and not with the document.)
4. `time.hpp:387`: copying a `time_expr` calls `clone()` on its `impl_` without looking whether there is one. A default-constructed
   expression "is invalid and counts as zero" (`time.hpp:318-319`), and so does one that was moved from, but copying either dereferences null. It need not be
   the whole expression: `time_expr x = -std::move(a)` for an invalid `a` is valid, counts as zero and cannot be copied (`make_node`, `time.hpp:193-213`); and
   for `auto n = a + 1_s`, `time_expr e = n` moves `a` out of `n` (`time.hpp:365`), so that a second `time_expr f = n` counts one second, and a copy of `f`
   dereferences null. `TimeExpression` has all of these (`Dereferences`, `After`); what is counted is accurate in any case (`AccurateToItsTerms`).

Seen while modelling, without a run of their own:

- The comparator puts both of an exception token and a token that is earlier, or has a
  lower priority value at the same time, before the other: it is no strict weak
  order. Which goes first depends on the order of insertion. With late tokens, or with exception tokens in the future, tokens are
  then executed out of the order of their times.
- Also with all exception tokens at the current time, and no late tokens, an exception token disturbs the order of *other* tokens: with
  a token of priority 0 pending, an exception token of priority 2 rises above it, and a token of priority 1 scheduled then, at the same time, rises
  above the exception token: it is executed first, before the one of priority 0. `docs/coroutine_model.md:78` says
  "lower values run first". `EventLoop` allows this (`Tie`, `disturbed`) and nothing more, as `environment` checks and `ImplementsEventLoop` proves.
- Awaiting a process that has failed already returns normally if it is void, and otherwise throws
  that there is no return value (`Await` with `c \in complete`, `Throws`); the exception is gone,
  although `async.ipp:6-7` recommends a later await for it.
- Copy-assigning over the last handle of a coroutine that was never started leaks its frame: the assignment
  of the pointer in it does not do what `~coroutine` does (`Copy`; the history variable `lost` excepts it from `NoLeak`).
- `reset()` while a process awaits its own ancestor, or processes await each other in a cycle, leaks their
  `coroutine_data`: tokens of destroyed processes and `parent_` refer to each other (the second half of `NoLeak`).
- `sequential.by_reference(h)` moves out of its arguments (`sequential.ipp:4`), so the caller's handle is empty afterwards.
- The exception of a process started by `async` is thrown out of `run()`, although
  `examples/exceptions.cpp:167-168` calls it lost.
- A composition that is ready when awaited has started its other children with no
  completion token registered (`Await` when the root is `Ready`): their exceptions vanish,
  and a unique coroutine dereferences a null token when it returns.

## 6. Not modelled, and why

- The operators `||`, `&&` and `,`, `sequential.by_reference` and `range_no_copy`, tags and debug helpers: they forward or read.
- Of time: narrowing a quantity to a smaller integer type, which nothing in the library does
  (`time.hpp:104-109` divides by 1000 and goes to the *finer* unit, so the quantity shrinks a
  millionfold); floating-point scalars; and overflow, from about 9 million seconds in
  picoseconds.
- Lifetimes of C++ references (the arguments `put()` keeps, what `by_reference` keeps): outside the language of the model.
- Reference counts of handlers and of tokens: a token is a value in the models; `Handles` has what a token refers to.
- What the promise of a subroutine and its `final_suspend` refer to (`subroutine.ipp:98,111`): one more reference to the `coroutine_data` of the process they run in, given up
  with their frame. `Handles` has coroutines without subroutines, `CallStack` has subroutines without counts.
- The latency and priority of a composition's completion: `Composition` has no clock.
- `_Co_with` as a coroutine of its own: its steps are those of the handle it acquires and releases, or, when the body throws, destroys.

## 7. Plan

Done: `Environment` with `EventLoop`, `Process`, `Event`, `Semaphore`, `Resource`, `Mutex`, `Queue`, `Composition`, `CallStack`, `Handles`,
`TimeExpression` and `Timeouts`, each with its proofs (`Event` with the run that refutes its property only).

Next, by importance:

1. Latency and priority of a composition's completion, in `Timeouts`.
2. Narrowing of time quantities; items that throw in construction.
