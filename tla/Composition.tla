----------------------------- MODULE Composition -----------------------------
(* any_of and all_of: a process awaits a tree of compositions, whose leaves  *)
(* are processes and timeouts.  It may await the tree again, by value, while *)
(* tokens of an earlier await are still to be processed: every await makes   *)
(* handlers of its own.  Tokens are processed in any order, as in Process.   *)
EXTENDS Integers, FiniteSets

CONSTANTS Procs,      \* leaves: coroutines, which may appear in several places
          Timers,     \* leaves: timeouts
          Groups,     \* compositions
          Root,       \* the one the process awaits
          Children,   \* of each composition
          MayFail,    \* processes that may throw
          Main, Waiter,  \* what else a token goes to: main, the process
          MaxRounds   \* bound on the number of awaits

Nodes == Procs \cup Timers \cup Groups

(* The tree: a composition holds its children by value, so compositions and  *)
(* timeouts are children of one composition each, and all are below the root.*)
ASSUME TreeAssumption ==
  /\ Root \in Groups
  /\ Children \in [Groups -> SUBSET Nodes]
  /\ \A g \in Groups : IsFiniteSet(Children[g]) /\ Root \notin Children[g]
  /\ \A f, g \in Groups : f # g => Children[f] \cap Children[g] \subseteq Procs
  /\ \A S \in SUBSET Groups :
       Root \in S /\ (\A g \in S : Children[g] \cap Groups \subseteq S) => S = Groups
ASSUME KindsAssumption ==
  /\ Procs \cap Timers = {} /\ Procs \cap Groups = {} /\ Timers \cap Groups = {}
  /\ Main \notin Groups /\ Waiter \notin Groups /\ Main # Waiter
ASSUME RoundsAssumption == MaxRounds \in Nat

VARIABLES
  kind,       \* of each composition, its condition: any_of or all_of
  started, ended, failed,   \* the processes among the leaves
  asked,      \* completion_tokens_ of each: the handler and round of a token
  round,      \* the current await
  state,      \* of the process that awaits
  remaining,  \* custom_handler::remaining, of each round and composition
  open,       \* the handlers whose completion_tkn is not null
  queue,      \* environment::tokens_
  uncaught    \* run() has thrown, and main has not caught it

vars == <<kind, started, ended, failed, asked, round, state, remaining, open,
          queue, uncaught>>

Rounds == 1..MaxRounds
Handlers == Rounds \X Groups

(* The token of a node: to is where its handler, or what it resumes, is.     *)
Token(of, to, r, eptr) == [of |-> of, to |-> to, r |-> r, eptr |-> eptr]
Tokens == [of : Nodes, to : Groups \cup {Main, Waiter}, r : 0..MaxRounds, eptr : BOOLEAN]

(* Some processes of the tree have been started by main.                     *)
Init ==
  /\ kind \in [Groups -> {"any_of", "all_of"}]
  /\ started \in SUBSET Procs
  /\ ended = {} /\ failed = {}
  /\ asked = [p \in Procs |-> IF p \in started THEN {<<0, Main>>} ELSE {}]
  /\ round = 0
  /\ state = "paused"
  /\ remaining = [h \in Handlers |-> 0]
  /\ open = {}
  /\ queue = {}
  /\ uncaught = FALSE

-----------------------------------------------------------------------------
(* any_of_condition and all_of_condition.                                    *)
MetLate(g, left) == IF kind[g] = "any_of"   \* mutants of Met: off by one
                    THEN left + 1 < Cardinality(Children[g]) ELSE left = 0
MetEarly(g, left) == IF kind[g] = "any_of" THEN left < Cardinality(Children[g])
                                           ELSE left <= 1
Met(g, left) == IF kind[g] = "any_of" THEN left < Cardinality(Children[g])
                                      ELSE left = 0

(* await_ready, of the whole tree: a timeout is never ready, a process is if *)
(* it is complete, a composition by its children: the least set of those.    *)
ReadyWith(S) == {g \in Groups : Met(g, Cardinality(Children[g] \ (S \cup ended)))}
ReadyGroups == {g \in Groups : \A S \in SUBSET Groups : ReadyWith(S) \subseteq S => g \in S}
Ready == ended \cup ReadyGroups

Unskipped(g) == Children[g]   \* mutant of Unready
Unready(g) == Children[g] \ Ready

(* await_suspend goes down the tree, to what is not ready: it reaches the    *)
(* least set of compositions with the root and their unready children.       *)
SuspendedWith(S) == {Root} \cup {g \in Groups : \E f \in S : g \in Unready(f)}
Suspended == {g \in Groups : \A S \in SUBSET Groups : SuspendedWith(S) \subseteq S => g \in S}

Below == {Root} \cup UNION {Children[g] : g \in Groups}

CountUnset(g) == 0   \* mutant of CountAtFirst
CountAtFirst(g) == Cardinality(Unready(g))

(* What is suspended in round r: each handler counts its unready children,   *)
(* whose tokens are scheduled (timeouts) or registered (processes).          *)
Suspend(r) ==
  /\ remaining' = [h \in Handlers |-> IF h[1] = r /\ h[2] \in Suspended
                                      THEN CountAtFirst(h[2]) ELSE remaining[h]]
  /\ open' = open \cup ({r} \X Suspended)
  /\ queue' = queue \cup UNION {{Token(n, g, r, FALSE) : n \in Children[g] \cap Timers} :
                                g \in Suspended}
  /\ asked' = [p \in Procs |-> asked[p] \cup
                 {<<r, g>> : g \in {f \in Suspended : p \in Unready(f)}}]
  /\ state' = "waiting"

(* co_await of the tree: everything below is bound, and starts if it has not *)
(* been; a tree that is ready resumes the process at once.                   *)
Await ==
  /\ state = "running" /\ round < MaxRounds
  /\ round' = round + 1
  /\ started' = started \cup (Below \cap Procs)
  /\ IF Root \in Ready THEN UNCHANGED <<asked, state, remaining, open, queue>>
                       ELSE Suspend(round + 1)
  /\ UNCHANGED <<kind, ended, failed, uncaught>>

(* The process waits for something else, or goes on from there.              *)
Pause ==
  /\ state = "running"
  /\ state' = "paused"
  /\ UNCHANGED <<kind, started, ended, failed, asked, round, remaining, open, queue, uncaught>>

EnvironmentRuns == state # "running" /\ ~uncaught

Continue ==
  /\ EnvironmentRuns /\ state = "paused"
  /\ state' = "running"
  /\ UNCHANGED <<kind, started, ended, failed, asked, round, remaining, open, queue, uncaught>>

(* A leaf process returns or fails, and its completion tokens are scheduled. *)
Completions(p, eptr) == {Token(p, a[2], a[1], eptr) : a \in asked[p]}

End(p, fails) ==
  /\ EnvironmentRuns /\ p \in started \ ended
  /\ ended' = ended \cup {p}
  /\ failed' = IF fails THEN failed \cup {p} ELSE failed
  /\ queue' = queue \cup Completions(p, fails)
  /\ UNCHANGED <<kind, started, asked, round, state, remaining, open, uncaught>>

-----------------------------------------------------------------------------
(* step() with a token that has a handler: custom_handler::invoke.           *)
Counted(h) == remaining[h] - 1
CompletesAgain(h) == Met(h[2], Counted(h))   \* mutant of Completes
Completes(h) == h \in open /\ Met(h[2], Counted(h))

(* The completion goes to the handler of the composition around it.          *)
Above(g) == IF g = Root THEN Waiter ELSE CHOOSE f \in Groups : g \in Children[f]

Invoke(t) ==
  LET h == <<t.r, t.to>> IN
  /\ t.to \in Groups
  /\ remaining' = [remaining EXCEPT ![h] = Counted(h)]
  /\ uncaught' = t.eptr
  /\ IF ~t.eptr /\ Completes(h)
     THEN /\ open' = open \ {h}
          /\ queue' = (queue \ {t}) \cup {Token(t.to, Above(t.to), t.r, FALSE)}
     ELSE queue' = queue \ {t} /\ UNCHANGED open
  /\ UNCHANGED <<kind, started, ended, failed, asked, round, state>>

(* ... with the token of a process that main has bound ...                   *)
Report(t) ==
  /\ t.to = Main
  /\ queue' = queue \ {t}
  /\ uncaught' = t.eptr
  /\ UNCHANGED <<kind, started, ended, failed, asked, round, state, remaining, open>>

(* ... with the completion of the root.  await_resume throws in the process  *)
(* what a child that has failed left in its token; it goes on or not.        *)
Resume(t) ==
  /\ t.to = Waiter
  /\ queue' = queue \ {t}
  /\ state' = "running"
  /\ UNCHANGED <<kind, started, ended, failed, asked, round, remaining, open, uncaught>>

Step(t) == EnvironmentRuns /\ (Invoke(t) \/ Report(t) \/ Resume(t))

MainCatches ==
  /\ uncaught
  /\ uncaught' = FALSE
  /\ UNCHANGED <<kind, started, ended, failed, asked, round, state, remaining, open, queue>>

Next ==
  \/ Await \/ Pause \/ Continue
  \/ \E p \in Procs : End(p, FALSE)
  \/ \E p \in MayFail : End(p, TRUE)
  \/ \E t \in queue : Step(t)
  \/ MainCatches

Spec == Init /\ [][Next]_vars

(* main keeps calling run(), every process of the tree ends.                 *)
Fairness ==
  /\ WF_vars(\E t \in queue : Step(t))
  /\ WF_vars(MainCatches)
  /\ \A p \in Procs : WF_vars(End(p, FALSE) \/ (p \in MayFail /\ End(p, TRUE)))

FairSpec == Spec /\ Fairness

-----------------------------------------------------------------------------
TypeOK ==
  /\ kind \in [Groups -> {"any_of", "all_of"}]
  /\ started \subseteq Procs /\ ended \subseteq started /\ failed \subseteq ended \cap MayFail
  /\ asked \in [Procs -> SUBSET ((0..MaxRounds) \X (Groups \cup {Main}))]
  /\ round \in 0..MaxRounds
  /\ state \in {"running", "waiting", "paused"}
  /\ remaining \in [Handlers -> Nat]
  /\ open \subseteq Handlers
  /\ queue \subseteq Tokens
  /\ uncaught \in BOOLEAN

(* What a handler is still to hear of: a token in the queue, a process that  *)
(* is to complete, a composition that is to.                                 *)
Outstanding(h) ==
  {n \in Children[h[2]] :
     \/ \E t \in queue : t.of = n /\ t.to = h[2] /\ t.r = h[1]
     \/ n \in Procs \ ended /\ h \in asked[n]
     \/ n \in Groups /\ <<h[1], n>> \in open}

(* Every handler, of this await or of an earlier one, counts exactly what it *)
(* is still to hear of: no child is counted twice, and none is missed.       *)
CountsOutstanding ==
  \A h \in Handlers : remaining[h] = Cardinality(Outstanding(h))

(* The process is resumed once for each await that suspends: either the      *)
(* root's handler of this await is open or its completion is scheduled, never*)
(* both, and no completion of an earlier await is left over to resume it.    *)
OneResume ==
  LET resumes == {t \in queue : t.to = Waiter} IN
  IF state # "waiting" THEN resumes = {} /\ <<round, Root>> \notin open
  ELSE IF <<round, Root>> \in open THEN resumes = {}
  ELSE resumes = {Token(Root, Waiter, round, FALSE)}

(* What the tree means: a leaf has happened if its process has ended or its  *)
(* timeout's token has been processed, a composition by its children.        *)
LeavesHappened == ended \cup {n \in Timers : ~\E t \in queue : t.of = n /\ t.r = round}
HappenedWith(S) ==
  {g \in Groups : IF kind[g] = "any_of"
                  THEN \E m \in Children[g] : m \in S \cup LeavesHappened
                  ELSE \A m \in Children[g] : m \in S \cup LeavesHappened}
GroupsHappened ==
  {g \in Groups : \A S \in SUBSET Groups : HappenedWith(S) \subseteq S => g \in S}
Happened == LeavesHappened \cup GroupsHappened

(* The process does not go on before what it awaits has happened, ...        *)
NotTooEarly == [][state = "waiting" /\ state' # "waiting" => Root \in Happened]_vars

(* ... and when nothing is left to process, and no child has thrown, it does *)
(* not wait any more for what has happened.                                  *)
NotForgotten ==
  queue = {} /\ failed = {} /\ state = "waiting" => Root \notin Happened

(* If no child throws, every await of the tree ends.                         *)
AwaitEnds == state = "waiting" ~> state # "waiting" \/ failed # {}

-----------------------------------------------------------------------------
(* coroutine_model.md: exceptions of composed awaitables are "visible to the *)
(* process awaiting the composition": when all is done, it does not wait.    *)
FailureIsVisible ==
  queue = {} /\ ~uncaught /\ started = ended /\ failed # {} => state # "waiting"
==============================================================================
