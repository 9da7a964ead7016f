------------------------------- MODULE Process -------------------------------
(* The life of processes: coroutine<T>, its coroutine_data, async(), an      *)
(* event they wait on, and the part of the environment that owns them.       *)
(* Timestamps and priorities are left out: the latencies and priorities a    *)
(* program picks can bring about any order of execution, so any scheduled    *)
(* token may be the next.                                                    *)
EXTENDS Integers, FiniteSets

CONSTANTS Coros,      \* the coroutines of the program
          Unique,     \* those that are unique_coroutines
          Valued,     \* those that return a value: T is not void
          None,       \* no coroutine; as the owner of a token, main
          MaxPauses   \* bound on the timeouts and wakes waited for

ASSUME UniqueAssumption == Unique \subseteq Coros
ASSUME ValuedAssumption == Valued \subseteq Coros
ASSUME NoneAssumption == None \notin Coros
ASSUME PausesAssumption == MaxPauses \in Nat

VARIABLES
  started,    \* env_ is set: bound, a start token was scheduled
  complete,   \* complete_
  managed,    \* environment::coroutines_
  current,    \* environment::current_coroutine_
  waiting,    \* completion_tokens_, or completion_token_ of a unique one
  queue,      \* environment::tokens_
  waiters,    \* event::tokens_
  raised,     \* an exception is being thrown at the co_await of current
  uncaught,   \* run() has thrown an exception to main
  consumed,   \* unique handles moved into an await or a bind
  pauses,     \* timeouts and wakes waited for
  failed,     \* history: processes whose body ended with an exception
  values      \* return_value_: processes that have left one

vars == <<started, complete, managed, current, waiting, queue, waiters,
          raised, uncaught, consumed, pauses, failed, values>>

(* A token resumes "to"; it is the completion of "of", or a start or timeout *)
(* when "of" is None.  The tokens that resume nobody, one for each bind and  *)
(* async of a coroutine, are alike: they count as one.                       *)
Token == [to : Coros \cup {None}, of : Coros \cup {None}, eptr : BOOLEAN]

Resume(p) == [to |-> p, of |-> None, eptr |-> FALSE]
Completion(c, to) == [to |-> to, of |-> c, eptr |-> FALSE]

Init ==
  /\ started = {} /\ complete = {} /\ managed = {}
  /\ current = None
  /\ waiting = [c \in Coros |-> {}]
  /\ queue = {} /\ waiters = {}
  /\ raised = FALSE
  /\ uncaught = FALSE
  /\ consumed = {}
  /\ pauses = 0
  /\ failed = {}
  /\ values = {}

Live(c) == c \in started \ complete
Running(p) == current = p /\ p # None /\ ~raised
MainRuns == current = None /\ ~uncaught

(* A unique handle is moved from place to place, never copied: there is one. *)
HandleCopied(c) == TRUE   \* mutant of HasHandle
HasHandle(c) == c \notin consumed

(* has_return_value(), which a void coroutine is not asked.                  *)
HasValue(c) == c \in Valued => c \in values
Emplaced(c) == values \cup ({c} \cap Valued)

(* await_resume of c, when its token carries eptr; None is a timeout.        *)
Throws(c, eptr) == eptr \/ ~HasValue(c)

-----------------------------------------------------------------------------
(* bind_: the first call schedules the start token, later ones do nothing.   *)
StartedAgain(c) == {Resume(c)}   \* mutant of StartTokens
StartTokens(c) == IF c \in started THEN {} ELSE {Resume(c)}

BindToUnmarked(c) ==      \* mutant of BindTo: env_ is not set
  /\ started' = started
  /\ managed' = IF c \in started THEN managed ELSE managed \cup {c}
  /\ queue' = queue \cup StartTokens(c)

BindTo(c) ==
  /\ started' = started \cup {c}
  /\ managed' = IF c \in started THEN managed ELSE managed \cup {c}
  /\ queue' = queue \cup StartTokens(c)

(* completion_token(): a shared coroutine keeps every token, a unique one    *)
(* the last.  Nothing is registered with a coroutine that is complete.       *)
Registered(c, t) == IF c \in Unique THEN {t} ELSE waiting[c] \cup {t}

RegisterWaiter(c, t) ==   \* mutant of Register: only what resumes someone is kept
  waiting' = IF c \in complete \/ t.to = None THEN waiting
             ELSE [waiting EXCEPT ![c] = Registered(c, t)]

Register(c, t) ==
  waiting' = IF c \in complete THEN waiting
             ELSE [waiting EXCEPT ![c] = Registered(c, t)]

Moved(c) == consumed \cup ({c} \cap Unique)

(* environment::bind, called by main with the handle.                        *)
Bind(c) ==
  /\ MainRuns /\ HasHandle(c)
  /\ BindTo(c)
  /\ Register(c, Completion(c, None))
  /\ consumed' = Moved(c)
  /\ UNCHANGED <<complete, current, waiters, raised, uncaught, pauses, failed, values>>

(* co_await async(c): starts c and goes on; the handle comes back.           *)
Async(p, c) ==
  /\ Running(p) /\ HasHandle(c)
  /\ BindTo(c)
  /\ Register(c, Completion(c, None))
  /\ UNCHANGED <<complete, current, waiters, raised, uncaught, consumed, pauses, failed, values>>

(* co_await c: starts c unless started, and suspends until it completes.  An *)
(* await of a complete process is ready and returns at once; await_resume    *)
(* throws if there is no value, because the process failed or was destroyed: *)
(* its exception went to those who waited then.                              *)
Await(p, c) ==
  /\ Running(p) /\ HasHandle(c)
  /\ BindTo(c)
  /\ Register(c, Completion(c, p))
  /\ consumed' = Moved(c)
  /\ current' = IF c \in complete THEN p ELSE None
  /\ raised' = (c \in complete /\ Throws(c, FALSE))
  /\ UNCHANGED <<complete, waiters, uncaught, pauses, failed, values>>

(* co_await timeout(t), or until(t) when t is still to come.                 *)
Delay(p) ==
  /\ Running(p) /\ pauses < MaxPauses
  /\ queue' = queue \cup {Resume(p)}
  /\ pauses' = pauses + 1
  /\ current' = None
  /\ UNCHANGED <<started, complete, managed, waiting, waiters, raised, uncaught,
                 consumed, failed, values>>

(* co_await event.wait(): never ready; the wake time is added later.         *)
Wait(p) ==
  /\ Running(p) /\ pauses < MaxPauses
  /\ waiters' = waiters \cup {Resume(p)}
  /\ pauses' = pauses + 1
  /\ current' = None
  /\ UNCHANGED <<started, complete, managed, waiting, queue, raised, uncaught,
                 consumed, failed, values>>

(* co_await event.wake(): every waiter is scheduled, the caller goes on.     *)
Woken == queue \cup waiters

Wake(p) ==
  /\ Running(p)
  /\ queue' = Woken
  /\ waiters' = {}
  /\ UNCHANGED <<started, complete, managed, current, waiting, raised, uncaught,
                 consumed, pauses, failed, values>>

-----------------------------------------------------------------------------
(* do_return: what waits for p is scheduled, with the exception if there is  *)
(* one, and p is complete and no longer managed.                             *)
ScheduledBare(p, eptr) == waiting[p]   \* mutants of Scheduled: no exception ...
ScheduledUnlessFailed(p, eptr) == IF eptr THEN {} ELSE waiting[p]   \* ... no token
Scheduled(p, eptr) == {[t EXCEPT !.eptr = eptr] : t \in waiting[p]}
StaysManaged(p) == managed   \* mutant of Unmanage
Unmanage(p) == managed \ {p}

DoReturn(p, eptr) ==
  /\ queue' = queue \cup Scheduled(p, eptr)
  /\ waiting' = [waiting EXCEPT ![p] = {}]
  /\ complete' = complete \cup {p}
  /\ managed' = Unmanage(p)
  /\ current' = None
  /\ UNCHANGED <<started, waiters, uncaught, consumed, pauses>>

(* co_return: the value is in place before what waits for p is scheduled.    *)
Return(p) ==
  /\ Running(p)
  /\ DoReturn(p, FALSE)
  /\ values' = Emplaced(p)
  /\ UNCHANGED <<raised, failed>>

(* The body throws, or lets through what its co_await has thrown.            *)
Fail(p) ==
  /\ current = p
  /\ DoReturn(p, TRUE)
  /\ raised' = FALSE
  /\ failed' = failed \cup {p}
  /\ UNCHANGED values

Catch ==
  /\ raised
  /\ raised' = FALSE
  /\ UNCHANGED <<started, complete, managed, current, waiting, queue, waiters,
                 uncaught, consumed, pauses, failed, values>>

-----------------------------------------------------------------------------
(* environment::step with t as the next token.  A resumed process finds the  *)
(* exception its await left in the token, or takes the value; an exception   *)
(* nobody waits for is thrown.                                               *)
LeftInQueue(t) == queue   \* mutant of Dequeued
Dequeued(t) == queue \ {t}

Step(t) ==
  /\ MainRuns
  /\ queue' = Dequeued(t)
  /\ current' = t.to
  /\ raised' = (t.to # None /\ Throws(t.of, t.eptr))
  /\ uncaught' = (t.to = None /\ t.eptr)
  /\ UNCHANGED <<started, complete, managed, waiting, waiters, consumed, pauses, failed, values>>

(* main catches what run() threw; it may go on calling run().                *)
MainCatches ==
  /\ uncaught
  /\ uncaught' = FALSE
  /\ UNCHANGED <<started, complete, managed, current, waiting, queue, waiters,
                 raised, consumed, pauses, failed, values>>

(* environment::reset: processes that are not complete are destroyed.  What  *)
(* a destroyed process had registered with others stays there.               *)
DestroyAll ==
  /\ MainRuns
  /\ complete' = complete \cup managed
  /\ managed' = {}
  /\ queue' = {}
  /\ UNCHANGED <<started, current, waiting, raised, uncaught, consumed, pauses, failed, values>>

(* The event "must outlive all blocked waiters unless the whole environment  *)
(* is being torn down": here it goes with them (Event: it does not).         *)
Reset == DestroyAll /\ waiters' = {}

Suspends(p) == Delay(p) \/ Wait(p) \/ (\E c \in Coros : Await(p, c))
Ends(p) == Return(p) \/ Fail(p)

Activity ==
  \/ \E c \in Coros : Bind(c)
  \/ \E p, c \in Coros : Async(p, c)
  \/ \E p \in Coros : Suspends(p) \/ Ends(p) \/ Wake(p)
  \/ Catch
  \/ \E t \in queue : Step(t)
  \/ MainCatches

Next == Activity \/ Reset

Spec == Init /\ [][Next]_vars

(* main keeps calling run(), and no body computes forever between two waits. *)
Fairness ==
  /\ WF_vars(\E t \in queue : Step(t))
  /\ WF_vars(MainCatches)
  /\ WF_vars(\E p \in Coros : (Suspends(p) \/ Ends(p)) /\ current' = None)

FairSpec == Spec /\ Fairness

-----------------------------------------------------------------------------
TypeOK ==
  /\ started \subseteq Coros /\ complete \subseteq started
  /\ managed \subseteq Coros
  /\ current \in Coros \cup {None}
  /\ waiting \in [Coros -> SUBSET Token]
  /\ queue \subseteq Token /\ waiters \subseteq Token
  /\ raised \in BOOLEAN
  /\ uncaught \in BOOLEAN
  /\ consumed \subseteq Unique
  /\ pauses \in 0..MaxPauses
  /\ failed \subseteq complete
  /\ values \subseteq Valued

(* Every token that would resume p: scheduled, kept by the event, or waiting *)
(* for a process that can still complete.                                    *)
Pending == queue \cup waiters \cup UNION {waiting[c] : c \in Coros \ complete}
Wakeups(p) == {t \in Pending : t.to = p}

(* A live process that is not running is resumed by exactly one token, so it *)
(* is never resumed twice for one wait and never forgotten, whatever the     *)
(* others do; a complete, destroyed or unstarted one by none, which is what  *)
(* coroutine_data::resume asserts.                                           *)
OneWakeup ==
  \A p \in Coros :
    IF Live(p) /\ p # current THEN \E t \in Pending : Wakeups(p) = {t}
                              ELSE Wakeups(p) = {}

(* The environment manages exactly the processes it has to destroy on reset: *)
(* bound and not complete.  A complete one left there would be destroyed     *)
(* twice, a live one missing from there would leak.                          *)
ManagedExactly == managed = started \ complete

(* A live process always has someone to report to when it ends: its failure  *)
(* is never dropped on the floor, and do_return of a unique coroutine, which *)
(* dereferences its one token unconditionally, finds it.                     *)
SomebodyToTell ==
  \A c \in Coros : Live(c) =>
    /\ waiting[c] # {}
    /\ c \in Unique => \E t \in Token : waiting[c] = {t}

(* A completion carries an exception when and only when the process it is    *)
(* the completion of has failed; otherwise the value is there to be taken,   *)
(* so that who waited is never told that there is no return value.           *)
FailuresCarried ==
  \A t \in queue : t.of # None =>
    /\ t.eptr <=> t.of \in failed
    /\ t.eptr \/ HasValue(t.of)

(* A process that waits for no wake, and for nothing that is still to end,   *)
(* gets to run, whether what it awaited returned or failed, unless a reset   *)
(* destroys it first.                                                        *)
Awaits(p, c) == c \notin complete /\ \E t \in waiting[c] : t.to = p
WaiterResumed ==
  \A p \in Coros :
    (Live(p) /\ Resume(p) \notin waiters /\ \A c \in Coros : ~Awaits(p, c))
      ~> (current = p \/ p \in complete)

(* run() returns: processes that wait for time finitely often leave nothing  *)
(* scheduled behind, whatever they await and whoever fails.                  *)
RunReturns == []<>(queue = {})

-----------------------------------------------------------------------------
(* What makes the invariants above inductive: who runs is live, who waits    *)
(* for c is registered with c only, and an unmoved unique handle is awaited  *)
(* by no process yet.                                                        *)
CurrentIsLive == (current # None => Live(current)) /\ (raised => current # None)

WaitingShape ==
  \A c \in Coros : \A t \in waiting[c] :
    /\ t.of = c /\ ~t.eptr
    /\ c \in started
    /\ c \in Unique \ consumed => t.to = None

QueueShape ==
  \A t \in queue : IF t.of = None THEN t.to # None /\ ~t.eptr
                                  ELSE t.of \in complete

(* An event keeps tokens of waits only, and none that is scheduled already.  *)
WaitersShape ==
  \A t \in waiters : t.of = None /\ t.to # None /\ ~t.eptr /\ t \notin queue

ProcessInv ==
  /\ TypeOK
  /\ CurrentIsLive
  /\ WaitingShape
  /\ QueueShape
  /\ WaitersShape
  /\ ManagedExactly
  /\ OneWakeup
  /\ SomebodyToTell
  /\ FailuresCarried
==============================================================================
