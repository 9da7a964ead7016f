------------------------------- MODULE Handles -------------------------------
(* What keeps a coroutine in memory.  coroutine<T> handles, the promise in a *)
(* frame, tokens, parents, suspended awaits and the environment count their  *)
(* references to a coroutine_data; a frame goes when its coroutine ends, when*)
(* the environment is reset, or when the last handle of a coroutine that was *)
(* never started goes.  Times, exceptions and return values are left out,    *)
(* and so are tokens that resume nobody, which refer to no coroutine.        *)
EXTENDS Integers, Sequences, FiniteSets, SequencesExt

CONSTANTS Coros,      \* the coroutines that are created
          Vars,       \* the handles outside of frames: members, locals of main
          None

ASSUME FinitelyMany == IsFiniteSet(Coros) /\ IsFiniteSet(Vars)
ASSUME Names == Coros \cap Vars = {} /\ None \notin Coros \cup Vars

VARIABLES
  handle,     \* coro_data_ of each Var, and of the parameter in each frame
  awaits,     \* coro_data_ of the handle in the await a process is in
  suspended,  \* processes that are in an await, whose wrapper names them twice
  frame,      \* coroutines whose frame, with the promise, is there
  data,       \* coroutine_data that are there
  count,      \* count_
  created, started, complete,
  parent,     \* parent_
  managed,    \* environment::coroutines_
  tokens,     \* completion_tokens_: the processes that they resume
  queue,      \* environment::tokens_: [of, to], of None for starts and timeouts
  current,    \* the process that runs: current_coroutine_, and step()'s tkn
  todo,       \* what destructors, and the functions they run in, do next
  lost        \* history: never started when their last handle was overwritten

places == <<handle, awaits, suspended, frame, data>>
life == <<created, started, complete, parent, managed>>
vars == <<places, count, life, tokens, queue, current, todo, lost>>

Init ==
  /\ handle = [s \in Vars \cup Coros |-> None]
  /\ awaits = [c \in Coros |-> None]
  /\ suspended = {} /\ frame = {} /\ data = {}
  /\ count = [c \in Coros |-> 0]
  /\ created = {} /\ started = {} /\ complete = {} /\ managed = {}
  /\ parent = [c \in Coros |-> None]
  /\ tokens = [c \in Coros |-> {}]
  /\ queue = {}
  /\ current = None
  /\ todo = << >>
  /\ lost = {}

(* The program, which is main or a process a, and the handles it can name.   *)
Acts(a) == current = a /\ todo = << >>
Mine(a) == Vars \cup ({a} \ {None})

(* Things to do, and the references to c that are still to be given up.      *)
Does(what, c) == [does |-> what, c |-> c]
Unrefs(seq) == [i \in DOMAIN seq |-> Does("unref", seq[i])]
Drops(c) == IF c = None THEN << >> ELSE <<Does("drop", c)>>

Ref(cnt, c, n) == IF c = None THEN cnt ELSE [cnt EXCEPT ![c] = @ + n]

-----------------------------------------------------------------------------
(* s = f(), s = f(r) or s = f(std::move(r)), where f takes a handle by value:*)
(* a frame, which keeps the argument, and a new coroutine_data that promise  *)
(* and handle refer to.  The assignment swaps; the temporary takes away what *)
(* s had.                                                                    *)
Argument(r) == IF r = None THEN None ELSE handle[r]
Passed(r, moved) == IF moved THEN [handle EXCEPT ![r] = None] ELSE handle

(* The promise refers to the new data, and so does the handle it returns.    *)
Owned(c) == [count EXCEPT ![c] = 2]

Create(a, s, c, r, moved) ==
  /\ Acts(a) /\ c \notin created
  /\ moved => r # None
  /\ created' = created \cup {c}
  /\ frame' = frame \cup {c}
  /\ data' = data \cup {c}
  /\ count' = Ref(Owned(c), Argument(r), IF moved THEN 0 ELSE 1)
  /\ handle' = [Passed(r, moved) EXCEPT ![c] = Argument(r), ![s] = c]
  /\ todo' = Drops(Passed(r, moved)[s])
  /\ UNCHANGED <<awaits, suspended, started, complete, parent, managed, tokens,
                 queue, current, lost>>

(* s = r: memory::ptr gives up what s referred to and then takes what r does.*)
(* It is not ~coroutine that runs: a coroutine never started is not destroyed*)
LastHandle(c) == c \in frame \ started /\ count[c] = 2

Copy(a, s, r) ==
  /\ Acts(a) /\ handle[s] # handle[r]
  /\ handle' = [handle EXCEPT ![s] = None]
  /\ todo' = (IF handle[s] = None THEN << >> ELSE <<Does("unref", handle[s])>>)
               \o <<[does |-> "take", c |-> None, s |-> s, r |-> r]>>
  /\ lost' = lost \cup {c \in {handle[s]} \ {None} : LastHandle(c)}
  /\ UNCHANGED <<awaits, suspended, frame, data, count, life, tokens, queue, current>>

TakeUncounted(s, r) ==    \* mutant of Take
  /\ handle' = [handle EXCEPT ![s] = handle[r]]
  /\ UNCHANGED count

Take(s, r) ==
  /\ handle' = [handle EXCEPT ![s] = handle[r]]
  /\ count' = Ref(count, handle[r], 1)

(* s = std::move(r) swaps; the handle s ends.                                *)
Move(a, s, r) ==
  /\ Acts(a) /\ handle[s] # handle[r]
  /\ handle' = [handle EXCEPT ![s] = handle[r], ![r] = handle[s]]
  /\ UNCHANGED <<awaits, suspended, frame, data, count, life, tokens, queue, current, todo, lost>>

Drop(a, s) ==
  /\ Acts(a) /\ handle[s] # None
  /\ handle' = [handle EXCEPT ![s] = None]
  /\ todo' = Drops(handle[s])
  /\ UNCHANGED <<awaits, suspended, frame, data, count, life, tokens, queue, current, lost>>

-----------------------------------------------------------------------------
(* bind_(c) while a runs: a start token, a parent, and the environment's own.*)
StartedBy(a, c, cnt) == Ref([cnt EXCEPT ![c] = @ + 2], a, 1)

BindTo(a, c) ==
  /\ started' = started \cup {c}
  /\ managed' = IF c \in started THEN managed ELSE managed \cup {c}
  /\ parent' = IF c \in started THEN parent ELSE [parent EXCEPT ![c] = a]

Counted(a, c, cnt) == IF c \in started THEN cnt ELSE StartedBy(a, c, cnt)
Started(c) == IF c \in started THEN queue ELSE queue \cup {[of |-> None, to |-> c]}

(* environment::bind(h) by main, co_await async(h) by a process: h is copied *)
(* or moved into the call, and goes when the call ends.                      *)
Start(a, s, moved) ==
  LET c == handle[s] IN
  /\ Acts(a) /\ c # None
  /\ BindTo(a, c)
  /\ count' = Counted(a, c, count)
  /\ queue' = Started(c)
  /\ handle' = IF moved THEN [handle EXCEPT ![s] = None] ELSE handle
  /\ todo' = IF moved THEN Drops(c) ELSE << >>
  /\ UNCHANGED <<awaits, suspended, frame, data, created, complete, tokens, current, lost>>

(* The process suspends: the awaitable_wrapper in its frame refers to it     *)
(* twice and its token once; current_coroutine_ and tkn do so no more.       *)
Suspend(p, cnt) ==
  /\ suspended' = suspended \cup {p}
  /\ count' = [cnt EXCEPT ![p] = @ + 3 - 2]
  /\ current' = None
  /\ todo' = << >>

(* co_await h: the wrapper has a copy of h, or h itself.                     *)
Await(p, s, moved) ==
  LET c == handle[s]
      cnt == Counted(p, c, IF moved THEN count ELSE Ref(count, c, 1)) IN
  /\ Acts(p) /\ p # None /\ c # None /\ c \notin complete
  /\ BindTo(p, c)
  /\ queue' = Started(c)
  /\ handle' = IF moved THEN [handle EXCEPT ![s] = None] ELSE handle
  /\ awaits' = [awaits EXCEPT ![p] = c]
  /\ tokens' = [tokens EXCEPT ![c] = @ \cup {p}]
  /\ Suspend(p, cnt)
  /\ UNCHANGED <<frame, data, created, complete, lost>>

(* A complete process is not waited for: of the await only the move remains. *)
AwaitComplete(p, s) ==
  /\ Acts(p) /\ p # None /\ handle[s] \in complete
  /\ handle' = [handle EXCEPT ![s] = None]
  /\ todo' = Drops(handle[s])
  /\ UNCHANGED <<awaits, suspended, frame, data, count, life, tokens, queue, current, lost>>

Pause(p) ==
  /\ Acts(p) /\ p # None
  /\ queue' = queue \cup {[of |-> None, to |-> p]}
  /\ Suspend(p, count)
  /\ UNCHANGED <<handle, awaits, frame, data, life, tokens, lost>>

(* The body ends, or throws: do_return schedules the tokens and unmanages p, *)
(* the frame is destroyed, and step() goes on to its end.                    *)
Return(p) ==
  /\ Acts(p) /\ p # None
  /\ queue' = queue \cup {[of |-> p, to |-> q] : q \in tokens[p]}
  /\ tokens' = [tokens EXCEPT ![p] = {}]
  /\ complete' = complete \cup {p}
  /\ managed' = managed \ {p}
  /\ count' = [count EXCEPT ![p] = @ - 1]
  /\ current' = None
  /\ todo' = <<Does("frame", p)>> \o Unrefs(<<p, p>>)
  /\ UNCHANGED <<places, created, started, parent, lost>>

(* The wrapper of an await goes: its two pointers, and then its handle.      *)
Wrapped(p) == IF p \in suspended THEN 2 ELSE 0
WrapperGone(p) ==
  /\ suspended' = suspended \ {p}
  /\ awaits' = [awaits EXCEPT ![p] = None]

Step(t) ==
  /\ Acts(None) /\ t \in queue
  /\ queue' = queue \ {t}
  /\ current' = t.to
  /\ count' = [count EXCEPT ![t.to] = @ + 1 - Wrapped(t.to)]
  /\ WrapperGone(t.to)
  /\ todo' = Drops(awaits[t.to])
  /\ UNCHANGED <<handle, frame, data, life, tokens, lost>>

(* reset() moves coroutines_ to a local set, destroys what is not complete,  *)
(* in any order, clears the tokens, and gives up the set.                    *)
Reset ==
  /\ Acts(None)
  /\ managed' = {}
  /\ \E order \in SetToSeqs(managed) :
       todo' = [i \in DOMAIN order |-> Does("destroy", order[i])]
                 \o <<Does("clear", None)>> \o Unrefs(order)
  /\ UNCHANGED <<places, count, created, started, complete, parent, tokens, queue, current, lost>>

-----------------------------------------------------------------------------
(* Doing the first of the things to do; what it leads to comes before the    *)
(* rest.                                                                     *)
Then(seq) == todo' = seq \o Tail(todo)

(* unref(): the last one deletes the data, with its tokens and its parent_.  *)
Unref(c) ==
  /\ count' = [count EXCEPT ![c] = @ - 1]
  /\ IF count[c] > 1
     THEN Then(<< >>) /\ UNCHANGED <<data, tokens, parent>>
     ELSE /\ data' = data \ {c}
          /\ tokens' = [tokens EXCEPT ![c] = {}]
          /\ parent' = [parent EXCEPT ![c] = None]
          /\ \E order \in SetToSeqs(tokens[c]) :
               Then(Unrefs(order \o (IF parent[c] = None THEN << >> ELSE <<parent[c]>>)))
  /\ UNCHANGED <<handle, awaits, suspended, frame, created, started, complete, managed, queue>>

(* ~coroutine: destroy_if_not_started_, then the pointer.                    *)
OnlyOwnersLeft(c) == count[c] = 2   \* mutant of NeverStarts: it may run
PromiseLeft(c) == count[c] = 1 /\ c \notin started   \* mutant of NeverStarts
NeverStarts(c) == count[c] = 2 /\ c \notin started

DropHandle(c) ==
  /\ Then((IF NeverStarts(c) THEN <<Does("frame", c)>> ELSE << >>) \o <<Does("unref", c)>>)
  /\ UNCHANGED <<places, count, life, tokens, queue>>

(* A frame goes: what it awaits, the promise, the parameter.  Whoever lets it*)
(* go still refers to the data, so neither the promise nor the await's two   *)
(* pointers are the last to.                                                 *)
FrameGoes(c) ==
  /\ frame' = frame \ {c}
  /\ count' = [count EXCEPT ![c] = @ - Wrapped(c) - 1]
  /\ WrapperGone(c)
  /\ handle' = [handle EXCEPT ![c] = None]
  /\ Then(Drops(awaits[c]) \o Drops(handle[c]))

DestroyFrame(c) == FrameGoes(c) /\ UNCHANGED <<data, life, tokens, queue>>

(* destroy() is asked for only where it is not complete: no order of the     *)
(* destructors completes a process that is still in the set.                 *)
Destroy(c) ==
  /\ c \notin complete
  /\ complete' = complete \cup {c}
  /\ FrameGoes(c)
  /\ UNCHANGED <<data, created, started, parent, managed, tokens, queue>>

(* The tokens of the queue go; the local set of reset() still has what they  *)
(* resume.                                                                   *)
Clear ==
  /\ queue' = {}
  /\ count' = [c \in Coros |-> count[c] - Cardinality({t \in queue : t.to = c})]
  /\ Then(<< >>)
  /\ UNCHANGED <<places, life, tokens>>

Unwind ==
  /\ todo # << >>
  /\ LET do == Head(todo) IN
     \/ do.does = "unref" /\ Unref(do.c)
     \/ do.does = "drop" /\ DropHandle(do.c)
     \/ do.does = "frame" /\ DestroyFrame(do.c)
     \/ do.does = "destroy" /\ Destroy(do.c)
     \/ do.does = "clear" /\ Clear
     \/ /\ do.does = "take" /\ Take(do.s, do.r)
        /\ Then(<< >>)
        /\ UNCHANGED <<awaits, suspended, frame, data, life, tokens, queue>>
  /\ UNCHANGED <<current, lost>>

Uses(a) ==
  \E s \in Mine(a) :
    \/ Drop(a, s)
    \/ AwaitComplete(a, s)
    \/ \E moved \in BOOLEAN : Start(a, s, moved) \/ Await(a, s, moved)
    \/ \E r \in Mine(a) : Copy(a, s, r) \/ Move(a, s, r)
    \/ \E c \in Coros, r \in Mine(a) \cup {None}, moved \in BOOLEAN : Create(a, s, c, r, moved)

Next ==
  \/ \E a \in Coros \cup {None} : Uses(a)
  \/ \E p \in Coros : Pause(p) \/ Return(p)
  \/ \E t \in queue : Step(t)
  \/ Reset
  \/ Unwind

Spec == Init /\ [][Next]_vars

-----------------------------------------------------------------------------
(* The references there are to c.                                            *)
Size(S) == Cardinality(S)
References(c) ==
  Size({s \in DOMAIN handle : handle[s] = c}) + Size({p \in Coros : awaits[p] = c})
  + Size({c} \cap frame) + 2 * Size({c} \cap suspended) + Size({c} \cap managed)
  + Size({d \in Coros : c \in tokens[d]}) + Size({t \in queue : t.to = c})
  + Size({d \in Coros : parent[d] = c}) + 2 * Size({c} \cap {current})
  + Size({i \in DOMAIN todo : todo[i].c = c /\ todo[i].does \in {"unref", "drop"}})

(* The count of a coroutine_data is the number of references there are to it,*)
(* through every copy, move, start, completion and reset, and half-way       *)
(* through the destructors: so nothing refers to data that has been deleted, *)
(* and data nobody refers to is deleted.                                     *)
CountsReferences ==
  \A c \in Coros : count[c] = References(c) /\ (c \in data <=> count[c] > 0)

(* What is resumed has a frame, and what destroys a frame finds it, once: a  *)
(* process in the queue or to be destroyed by reset() has one, also when the *)
(* last handle to it has gone, and the running one keeps it until it is done.*)
Frames == {i \in DOMAIN todo : todo[i].does \in {"frame", "destroy"}}
FramesAreThere ==
  /\ todo = << >> => \A t \in queue : t.to \in frame
  /\ current # None => current \in frame \ complete
  /\ managed \subseteq frame
  /\ \A i \in Frames : todo[i].c \in frame
  /\ \A i, j \in Frames : i # j => todo[i].c # todo[j].c

(* When the destructors are done, a set of coroutines that nothing outside   *)
(* refers to is not there, unless reset() destroyed one of them while others *)
(* awaited it, and its tokens and the parents make a cycle.                  *)
Rooted == {handle[s] : s \in Vars} \cup managed \cup {t.to : t \in queue} \cup {current} \cup lost
RefersTo(d, c) == handle[d] = c \/ awaits[d] = c \/ parent[d] = c \/ c \in tokens[d]
Isolated(S) ==
  S \cap Rooted = {} /\ \A d \in Coros \ S, c \in S : ~RefersTo(d, c)

NoLeak ==
  todo = << >> =>
    \A S \in (SUBSET data) \ {{}} :
      Isolated(S) => S \cap frame = {} /\ \E d \in S \cap complete : tokens[d] # {}
==============================================================================
