------------------------------ MODULE CallStack ------------------------------
(* The frames of one process: its coroutine and the subroutines it awaits.   *)
(* coroutine_data keeps a stack of handles, and resume() goes on with the    *)
(* top of it until a frame waits for a token or the process ends.            *)
EXTENDS Naturals, Sequences, FiniteSets, SequencesExt

CONSTANTS Main,       \* the frame of the coroutine
          Subs,       \* subroutine objects and their frames
          None,
          MaxWaits    \* bound on the waits of the process

ASSUME FramesAssumption == Main \notin Subs /\ None \notin Subs \cup {Main}
ASSUME WaitsAssumption == MaxWaits \in Nat

VARIABLES
  stack,      \* call_stack_
  again,      \* should_continue_
  loop,       \* where resume() is: not called, at its first turn, at its test
  running,    \* the frame that runs, None in resume() and outside of it
  raised,     \* an exception is being thrown at the co_await of running
  status,     \* of each frame
  awaits,     \* the subroutine each suspended frame awaits
  owner,      \* the frame whose local or temporary each subroutine object is
  destroys,   \* history: how often each frame was destroyed
  threw,      \* subroutines whose eptr is set
  token,      \* a token will resume the process
  complete,   \* complete_
  waits       \* waits so far

destruction == <<owner, destroys>>
vars == <<stack, again, loop, running, raised, status, awaits, destruction, threw,
          token, complete, waits>>

Frames == Subs \cup {Main}
Held == {"created", "suspended", "done"}   \* a frame that is there, and still

Init ==
  /\ stack = <<Main>>
  /\ again = TRUE
  /\ loop = "out"
  /\ running = None
  /\ raised = FALSE
  /\ status = [f \in Frames |-> IF f = Main THEN "created" ELSE "none"]
  /\ awaits = [f \in Frames |-> None]
  /\ owner = [s \in Subs |-> None]
  /\ destroys = [f \in Frames |-> 0]
  /\ threw = {}
  /\ token = TRUE
  /\ complete = FALSE
  /\ waits = 0

-----------------------------------------------------------------------------
(* coroutine_data::resume(): a turn of the loop resumes the top frame, which *)
(* finds the exception of the subroutine it awaited.                         *)
Resume ==
  /\ loop = "out" /\ token
  /\ token' = FALSE
  /\ loop' = "first"
  /\ UNCHANGED <<stack, again, running, raised, status, awaits, destruction, threw, complete, waits>>

Bottom == Head(stack)   \* mutant of Top
Top == Last(stack)

Turn ==
  /\ running = None
  /\ loop = "first" \/ (loop = "test" /\ again)
  /\ again' = FALSE
  /\ loop' = "test"
  /\ running' = Top
  /\ raised' = (awaits[Top] \in threw)
  /\ status' = [status EXCEPT ![Top] = "running"]
  /\ awaits' = [awaits EXCEPT ![Top] = None]
  /\ UNCHANGED <<stack, destruction, threw, token, complete, waits>>

Return ==
  /\ loop = "test" /\ running = None /\ ~again
  /\ loop' = "out"
  /\ UNCHANGED <<stack, again, running, raised, status, awaits, destruction, threw,
                 token, complete, waits>>

-----------------------------------------------------------------------------
(* A frame is destroyed with the subroutine objects it owns, each of which   *)
(* destroys its own frame, and so on.                                        *)
ClosedUnderOwning(S) == \A s \in Subs : owner[s] \in S => s \in S
OwnedFrom(f) == {g \in Frames : \A S \in SUBSET Frames :
                                   f \in S /\ ClosedUnderOwning(S) => g \in S}

Once(S) == [f \in Frames |-> IF f \in S THEN 1 ELSE 0]

Destroying(times) ==
  /\ destroys' = [f \in Frames |-> destroys[f] + times[f]]
  /\ owner' = [s \in Subs |-> IF times[s] > 0 THEN None ELSE owner[s]]

Without(times) == [f \in Frames |-> IF times[f] > 0 THEN "destroyed" ELSE status[f]]

-----------------------------------------------------------------------------
(* What the frame that runs does.                                            *)
Runs(f) == running = f /\ ~raised

(* It calls a subroutine function: an object with a suspended frame.         *)
Create(f, s) ==
  /\ Runs(f) /\ status[s] = "none"
  /\ status' = [status EXCEPT ![s] = "created"]
  /\ owner' = [owner EXCEPT ![s] = f]
  /\ UNCHANGED <<stack, again, loop, running, raised, awaits, destroys, threw, token, complete, waits>>

(* It awaits one: push_coro_; one that is done is ready, and throws again.   *)
StopsHere == FALSE   \* mutant of GoesOn: should_continue_ is not set
GoesOn == TRUE

Await(f, s) ==
  /\ Runs(f) /\ owner[s] = f /\ status[s] = "created"
  /\ stack' = Append(stack, s)
  /\ again' = GoesOn
  /\ running' = None
  /\ status' = [status EXCEPT ![f] = "suspended"]
  /\ awaits' = [awaits EXCEPT ![f] = s]
  /\ UNCHANGED <<loop, raised, destruction, threw, token, complete, waits>>

AwaitDone(f, s) ==
  /\ Runs(f) /\ owner[s] = f /\ status[s] = "done"
  /\ raised' = (s \in threw)
  /\ UNCHANGED <<stack, again, loop, running, status, awaits, destruction, threw,
                 token, complete, waits>>

(* It awaits a timeout, an event or another process.                         *)
Wait(f) ==
  /\ Runs(f) /\ waits < MaxWaits
  /\ token' = TRUE
  /\ running' = None
  /\ status' = [status EXCEPT ![f] = "suspended"]
  /\ waits' = waits + 1
  /\ UNCHANGED <<stack, again, loop, raised, awaits, destruction, threw, complete>>

(* A subroutine object goes out of scope: its frame is destroyed.            *)
Discard(f, s) ==
  /\ Runs(f) /\ owner[s] = f /\ status[s] \in {"created", "done"}
  /\ Destroying(Once(OwnedFrom(s)))
  /\ status' = Without(Once(OwnedFrom(s)))
  /\ UNCHANGED <<stack, again, loop, running, raised, awaits, threw, token, complete, waits>>

Catch ==
  /\ raised
  /\ raised' = FALSE
  /\ UNCHANGED <<stack, again, loop, running, status, awaits, destruction, threw,
                 token, complete, waits>>

(* Its body ends, which destroys its locals; an uncaught exception is kept   *)
(* for whoever awaits it.  A subroutine's frame stays with its object, and   *)
(* final_suspend pops it; the coroutine's destroys itself.                   *)
Ended(f) == Once(IF f = Main THEN OwnedFrom(f) ELSE OwnedFrom(f) \ {f})

Popped == Front(stack)
Unpopped(f) == stack   \* mutant of Stacked
Stacked(f) == IF f = Main THEN stack ELSE Popped

EndBody(f, throws) ==
  /\ running = f /\ (raised => throws)
  /\ running' = None
  /\ raised' = FALSE
  /\ stack' = Stacked(f)
  /\ again' = (f # Main)
  /\ Destroying(Ended(f))
  /\ status' = [Without(Ended(f)) EXCEPT ![f] = IF f = Main THEN "destroyed" ELSE "done"]
  /\ threw' = IF throws /\ f # Main THEN threw \cup {f} ELSE threw
  /\ complete' = (f = Main)
  /\ UNCHANGED <<loop, awaits, token, waits>>

-----------------------------------------------------------------------------
(* destroy(), from environment::reset(): the first frame is destroyed, and   *)
(* with it what it owns, the frames above it among them.                     *)
OfEachFrame(f) == Cardinality({i \in DOMAIN stack : f \in OwnedFrom(stack[i])})   \* mutant
OfTheFirst(f) == IF f \in OwnedFrom(stack[1]) THEN 1 ELSE 0
Destroyed == [f \in Frames |-> OfTheFirst(f)]

Destroy ==
  /\ loop = "out" /\ ~complete
  /\ complete' = TRUE
  /\ Destroying(Destroyed)
  /\ status' = Without(Destroyed)
  /\ stack' = << >>
  /\ token' = FALSE
  /\ UNCHANGED <<again, loop, running, raised, awaits, threw, waits>>

Next ==
  \/ Resume \/ Turn \/ Return \/ Destroy \/ Catch
  \/ \E f \in Frames : Wait(f) \/ EndBody(f, FALSE) \/ EndBody(f, TRUE)
  \/ \E f \in Frames, s \in Subs :
       Create(f, s) \/ Await(f, s) \/ AwaitDone(f, s) \/ Discard(f, s)

Spec == Init /\ [][Next]_vars

-----------------------------------------------------------------------------
TypeOK ==
  /\ stack \in Seq(Frames)
  /\ again \in BOOLEAN /\ raised \in BOOLEAN /\ token \in BOOLEAN /\ complete \in BOOLEAN
  /\ loop \in {"out", "first", "test"}
  /\ running \in Frames \cup {None}
  /\ status \in [Frames -> {"none", "running", "destroyed"} \cup Held]
  /\ awaits \in [Frames -> Subs \cup {None}]
  /\ owner \in [Subs -> Frames \cup {None}]
  /\ destroys \in [Frames -> Nat]
  /\ threw \subseteq Subs
  /\ waits \in 0..MaxWaits
  /\ \A f \in Frames : status[f] = "done" => ~Contains(stack, f)

(* Subroutine calls nest: each frame of the stack awaits the one above it,   *)
(* only the top may run, and no frame of the stack is done or destroyed      *)
(* while the process can be resumed.                                         *)
CallsNest ==
  ~complete =>
    /\ \A i \in 1..Len(stack) - 1 :
         status[stack[i]] = "suspended" /\ awaits[stack[i]] = stack[i + 1]
    /\ status[Top] \in {"created", "suspended", "running"}
    /\ running # None => running = Top

(* resume() returns when the process waits for a token or is complete, never *)
(* in the middle of a call, and never goes on while a token is out.          *)
ReturnsWhenWaiting ==
  /\ loop = "out" => (token /\ ~complete) \/ (complete /\ ~token)
  /\ token /\ loop = "test" => ~again /\ running = None

(* No frame is destroyed twice, whoever owns it and whoever runs it, nor     *)
(* while it is on the stack of a process that goes on; and when the process  *)
(* is complete, by its end, a failure or a reset, each has been destroyed.   *)
DestroyedOnce ==
  /\ \A f \in Frames : destroys[f] <= 1
  /\ ~complete => \A i \in DOMAIN stack : destroys[stack[i]] = 0
  /\ complete => \A f \in Frames : status[f] # "none" => destroys[f] = 1
==============================================================================
