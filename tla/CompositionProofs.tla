--------------------------- MODULE CompositionProofs --------------------------
(* Proofs about Composition, for every tree of any_of and all_of over any    *)
(* processes and timeouts, and any number of awaits.                         *)
EXTENDS Composition, FiniteSetTheorems, TLAPS

USE RoundsAssumption

(* A token is of this await or of an earlier one, and tells of something that*)
(* is over; there is one for each child and handler.                         *)
TokensInv ==
  \A t \in queue :
    /\ t.r \in 0..round
    /\ t.of \in Procs => t.of \in ended
    /\ t.of \in Groups => <<t.r, t.of>> \notin open
    /\ t.to \in Groups => t.r \in Rounds /\ t.of \in Children[t.to]
    /\ t.to = Main => t.of \in Procs
    /\ t.to = Waiter => t = Token(Root, Waiter, round, FALSE) /\ state = "waiting"
    /\ t.eptr => t.of \in failed
    /\ \A s \in queue : s.of = t.of /\ s.to = t.to /\ s.r = t.r => s = t

(* A process has been asked to tell main, or handlers that have it as child. *)
AskedInv ==
  \A p \in Procs : \A a \in asked[p] :
    a = <<0, Main>> \/ (\E r \in 1..round, g \in Groups : a = <<r, g>> /\ p \in Children[g])

(* Handlers are of this await or of earlier ones, the root's of this one; if *)
(* no child has thrown, none of those still open could be completed.         *)
OpenInv ==
  \A r \in Rounds, g \in Groups :
    <<r, g>> \in open => /\ r <= round
                         /\ g = Root => r = round /\ state = "waiting"
                         /\ failed = {} => ~Met(g, remaining[<<r, g>>])

(* An await that has not ended has the root's handler or its token.          *)
WaitsForRoot ==
  state = "waiting" =>
    <<round, Root>> \in open \/ Token(Root, Waiter, round, FALSE) \in queue

(* What a handler of this await has heard of has happened, and so has a      *)
(* composition whose token is scheduled.                                     *)
HeardHappened ==
  /\ \A g \in Groups :
       <<round, g>> \in open => Children[g] \ Outstanding(<<round, g>>) \subseteq Happened
  /\ \A t \in queue : t.of \in Groups /\ t.r = round => t.of \in Happened

CompositionInv ==
  /\ TypeOK
  /\ CountsOutstanding
  /\ TokensInv
  /\ AskedInv
  /\ OpenInv
  /\ WaitsForRoot
  /\ HeardHappened

-----------------------------------------------------------------------------
(* The tree.                                                                 *)

(* A composition other than the root has one composition around it, and none *)
(* is around itself.                                                         *)
LEMMA AboveFact ==
  ASSUME NEW g \in Groups
  PROVE  /\ g \notin Children[g]
         /\ g = Root => Above(g) = Waiter /\ \A f \in Groups : g \notin Children[f]
         /\ g # Root => Above(g) \in Groups /\ g \in Children[Above(g)]
         /\ \A f \in Groups : g \in Children[f] => f = Above(g)
<1> DEFINE S == Groups \ {g}
<1>1. g = Root => Above(g) = Waiter /\ \A f \in Groups : g \notin Children[f]
  BY TreeAssumption DEF Above
<1>2. g \notin Procs
  BY KindsAssumption
<1>3. \A e, f \in Groups : g \in Children[e] /\ g \in Children[f] => e = f
  BY <1>2, TreeAssumption
<1>4. ASSUME g # Root PROVE \E f \in S : g \in Children[f]
  <2> SUFFICES ASSUME \A f \in S : g \notin Children[f] PROVE FALSE
    OBVIOUS
  <2>1. S \in SUBSET Groups /\ Root \in S /\ \A f \in S : Children[f] \cap Groups \subseteq S
    BY <1>4, TreeAssumption
  <2>2. S = Groups
    BY <2>1, TreeAssumption
  <2> QED BY <2>2
<1>5. g \notin Children[g]
  BY <1>1, <1>3, <1>4
<1>6. g # Root => Above(g) \in Groups /\ g \in Children[Above(g)]
  BY <1>4 DEF Above
<1>7. \A f \in Groups : g \in Children[f] => f = Above(g)
  BY <1>1, <1>3, <1>6
<1> QED BY <1>1, <1>5, <1>6, <1>7

(* The conditions, which count, say which children are left.                 *)
LEMMA MetFact ==
  ASSUME NEW g \in Groups, NEW X \in SUBSET Children[g]
  PROVE  /\ IsFiniteSet(X) /\ Cardinality(X) \in Nat
         /\ Met(g, Cardinality(X)) <=> IF kind[g] = "any_of" THEN X # Children[g] ELSE X = {}
<1>1. IsFiniteSet(Children[g])
  BY TreeAssumption
<1>2. /\ IsFiniteSet(X) /\ Cardinality(X) \in Nat /\ Cardinality(Children[g]) \in Nat
      /\ Cardinality(X) <= Cardinality(Children[g])
      /\ Cardinality(X) = Cardinality(Children[g]) => X = Children[g]
  BY <1>1, FS_Subset, FS_CardinalityType
<1>3. Cardinality(X) = 0 <=> X = {}
  BY <1>2, FS_EmptySet
<1> QED BY <1>2, <1>3 DEF Met

(* What is ready is what its ready children make so.                         *)
LEMMA ReadyFact ==
  ASSUME NEW g \in Groups, Met(g, Cardinality(Unready(g)))
  PROVE  g \in Ready
<1> SUFFICES ASSUME NEW S \in SUBSET Groups, ReadyWith(S) \subseteq S
             PROVE  g \in S
  BY DEF Ready, ReadyGroups
<1>1. ReadyGroups \subseteq S
  BY DEF ReadyGroups
<1>2. /\ Children[g] \ (S \cup ended) \subseteq Unready(g)
      /\ Unready(g) \in SUBSET Children[g]
      /\ Children[g] \ (S \cup ended) \in SUBSET Children[g]
  BY <1>1 DEF Unready, Ready
<1>3. Met(g, Cardinality(Children[g] \ (S \cup ended)))
  BY <1>2, MetFact
<1> QED BY <1>3 DEF ReadyWith

(* What is suspended is the root, and what is unready in something suspended.*)
LEMMA SuspendedFact ==
  /\ Root \in Suspended /\ Suspended \subseteq Groups
  /\ \A f \in Suspended, g \in Groups : g \in Unready(f) => g \in Suspended
  /\ \A g \in Suspended : g = Root \/ \E f \in Suspended : g \in Unready(f)
<1>1. Root \in Suspended /\ Suspended \subseteq Groups
  BY TreeAssumption DEF Suspended, SuspendedWith
<1>2. ASSUME NEW f \in Suspended, NEW g \in Groups, g \in Unready(f)
      PROVE  g \in Suspended
  BY <1>2 DEF Suspended, SuspendedWith
<1>3. ASSUME NEW g \in Suspended, g # Root, \A f \in Suspended : g \notin Unready(f)
      PROVE  FALSE
  <2> DEFINE S == Suspended \ {g}
  <2>1. SuspendedWith(S) \subseteq S
    BY <1>1, <1>2, <1>3 DEF SuspendedWith
  <2>2. S \in SUBSET Groups
    BY <1>1
  <2>3. \A e \in Suspended, X \in SUBSET Groups : SuspendedWith(X) \subseteq X => e \in X
    BY DEF Suspended
  <2>4. g \in S
    BY <2>1, <2>2, <2>3
  <2> QED BY <2>4
<1> QED BY <1>1, <1>2, <1>3

(* So a child of something suspended is suspended exactly if it is unready,  *)
(* and a child of something else never is.                                   *)
LEMMA SuspendedChild ==
  ASSUME NEW f \in Groups, NEW g \in Groups, g \in Children[f]
  PROVE  g \in Suspended <=> f \in Suspended /\ g \in Unready(f)
<1>1. g # Root /\ \A e \in Groups : g \in Children[e] => e = f
  BY AboveFact, TreeAssumption
<1>2. \A e \in Groups : Unready(e) \subseteq Children[e]
  BY DEF Unready
<1> QED BY <1>1, <1>2, SuspendedFact

(* Nothing suspended is ready, unless the root is.                           *)
LEMMA SuspendedUnready ==
  ASSUME Root \notin Ready, NEW g \in Suspended
  PROVE  g \notin Ready /\ ~Met(g, Cardinality(Unready(g)))
BY SuspendedFact, ReadyFact DEF Unready

-----------------------------------------------------------------------------
(* What has happened.                                                        *)

(* A composition whose children have happened, as its condition asks, has.   *)
LEMMA HappenedFact ==
  ASSUME NEW g \in Groups,
         IF kind[g] = "any_of" THEN \E m \in Children[g] : m \in Happened
                               ELSE \A m \in Children[g] : m \in Happened
  PROVE  g \in Happened
<1> SUFFICES ASSUME NEW S \in SUBSET Groups, HappenedWith(S) \subseteq S
             PROVE  g \in S
  BY DEF Happened, GroupsHappened
<1>1. Happened \subseteq S \cup LeavesHappened
  BY DEF Happened, GroupsHappened
<1> QED BY <1>1 DEF HappenedWith

(* The same of the next state.                                               *)
LEMMA HappenedFactNext ==
  ASSUME NEW g \in Groups,
         IF kind'[g] = "any_of" THEN \E m \in Children[g] : m \in Happened'
                                ELSE \A m \in Children[g] : m \in Happened'
  PROVE  g \in Happened'
<1> SUFFICES ASSUME NEW S \in SUBSET Groups, HappenedWith(S)' \subseteq S
             PROVE  g \in S
  BY DEF Happened, GroupsHappened
<1>1. Happened' \subseteq S \cup LeavesHappened'
  BY DEF Happened, GroupsHappened
<1> QED BY <1>1 DEF HappenedWith

(* Within an await, what has happened has happened for good.                 *)
LEMMA HappenedGrows ==
  ASSUME kind' = kind, LeavesHappened \subseteq LeavesHappened'
  PROVE  Happened \subseteq Happened'
<1> SUFFICES ASSUME NEW g \in GroupsHappened, NEW S \in SUBSET Groups, HappenedWith(S)' \subseteq S
             PROVE  g \in S
  BY DEF Happened, GroupsHappened
<1>1. HappenedWith(S) \subseteq HappenedWith(S)'
  BY DEF HappenedWith
<1> QED BY <1>1 DEF GroupsHappened

(* What is ready when the tree is awaited has happened.                      *)
LEMMA ReadyHappened ==
  ASSUME kind' = kind, ended' = ended
  PROVE  Ready \subseteq Happened'
<1>1. ended \subseteq LeavesHappened'
  BY DEF LeavesHappened
<1> SUFFICES ASSUME NEW g \in ReadyGroups, NEW S \in SUBSET Groups, HappenedWith(S)' \subseteq S
             PROVE  g \in S
  BY <1>1 DEF Ready, ReadyGroups, Happened, GroupsHappened
<1>2. ASSUME NEW e \in ReadyWith(S) PROVE e \in S
  <2> DEFINE X == Children[e] \ (S \cup ended)
  <2>1. e \in Groups /\ Met(e, Cardinality(X))
    BY DEF ReadyWith
  <2>2. X \in SUBSET Children[e]
    OBVIOUS
  <2>3. IF kind[e] = "any_of" THEN X # Children[e] ELSE X = {}
    BY <2>1, <2>2, MetFact
  <2>4. e \in HappenedWith(S)'
    BY <1>1, <2>1, <2>3 DEF HappenedWith
  <2> QED BY <2>4
<1> QED BY <1>2 DEF ReadyGroups

-----------------------------------------------------------------------------
(* What handlers are to hear of.                                             *)
LEMMA OutstandingFact ==
  ASSUME NEW r, NEW g \in Groups, NEW n
  PROVE  n \in Outstanding(<<r, g>>) <=>
           /\ n \in Children[g]
           /\ \/ \E t \in queue : t.of = n /\ t.to = g /\ t.r = r
              \/ n \in Procs \ ended /\ <<r, g>> \in asked[n]
              \/ n \in Groups /\ <<r, n>> \in open
BY DEF Outstanding

(* The same of the next state.                                               *)
LEMMA OutstandingFactNext ==
  ASSUME NEW r, NEW g \in Groups, NEW n
  PROVE  n \in Outstanding(<<r, g>>)' <=>
           /\ n \in Children[g]
           /\ \/ \E t \in queue' : t.of = n /\ t.to = g /\ t.r = r
              \/ n \in Procs \ ended' /\ <<r, g>> \in asked'[n]
              \/ n \in Groups /\ <<r, n>> \in open'
BY DEF Outstanding

(* CountsOutstanding, by round and composition.                              *)
LEMMA CountsFact ==
  CountsOutstanding <=>
    \A r \in Rounds, g \in Groups : remaining[<<r, g>>] = Cardinality(Outstanding(<<r, g>>))
<1>1. ASSUME NEW h \in Handlers PROVE \E r \in Rounds, g \in Groups : h = <<r, g>>
  BY DEF Handlers
<1>2. \A r \in Rounds, g \in Groups : <<r, g>> \in Handlers
  BY DEF Handlers
<1> QED BY <1>1, <1>2 DEF CountsOutstanding

LEMMA CountsFactNext ==
  CountsOutstanding' <=>
    \A r \in Rounds, g \in Groups : remaining'[<<r, g>>] = Cardinality(Outstanding(<<r, g>>)')
<1>1. ASSUME NEW h \in Handlers PROVE \E r \in Rounds, g \in Groups : h = <<r, g>>
  BY DEF Handlers
<1>2. \A r \in Rounds, g \in Groups : <<r, g>> \in Handlers
  BY DEF Handlers
<1> QED BY <1>1, <1>2 DEF CountsOutstanding

(* The counts are natural numbers as long as they agree with the sets.       *)
LEMMA CountsTyped ==
  ASSUME CountsOutstanding, NEW r \in Rounds, NEW g \in Groups
  PROVE  /\ Outstanding(<<r, g>>) \in SUBSET Children[g]
         /\ remaining[<<r, g>>] = Cardinality(Outstanding(<<r, g>>))
         /\ remaining[<<r, g>>] \in Nat
         /\ Met(g, remaining[<<r, g>>]) <=>
              IF kind[g] = "any_of" THEN Outstanding(<<r, g>>) # Children[g]
                                    ELSE Outstanding(<<r, g>>) = {}
<1>1. Outstanding(<<r, g>>) \in SUBSET Children[g]
  BY OutstandingFact
<1>2. remaining[<<r, g>>] = Cardinality(Outstanding(<<r, g>>))
  BY CountsFact
<1> QED BY <1>1, <1>2, MetFact

(* If only tokens that no handler waits for come and go, nothing changes.    *)
LEMMA SameOutstanding ==
  ASSUME CompositionInv,
         UNCHANGED <<ended, asked, remaining, open>>,
         \A s : s.to \in Groups => (s \in queue' <=> s \in queue)
  PROVE  /\ \A r : \A g \in Groups : Outstanding(<<r, g>>)' = Outstanding(<<r, g>>)
         /\ CountsOutstanding'
<1>1. ASSUME NEW r, NEW g \in Groups, NEW n
      PROVE  n \in Outstanding(<<r, g>>)' <=> n \in Outstanding(<<r, g>>)
  <2>1. (\E t \in queue' : t.of = n /\ t.to = g /\ t.r = r)
          <=> (\E t \in queue : t.of = n /\ t.to = g /\ t.r = r)
    OBVIOUS
  <2> QED BY <2>1, OutstandingFact, OutstandingFactNext
<1>2. ASSUME NEW r, NEW g \in Groups PROVE Outstanding(<<r, g>>)' = Outstanding(<<r, g>>)
  <2>1. /\ Outstanding(<<r, g>>)' \subseteq Outstanding(<<r, g>>)
        /\ Outstanding(<<r, g>>) \subseteq Outstanding(<<r, g>>)'
    BY <1>1
  <2> QED BY <2>1
<1> QED BY <1>2, CountsFact, CountsFactNext DEF CompositionInv

(* The tokens have their type.                                               *)
LEMMA TokenTyped ==
  ASSUME NEW of \in Nodes, NEW to \in Groups \cup {Main, Waiter}, NEW r \in 0..MaxRounds,
         NEW eptr \in BOOLEAN
  PROVE  Token(of, to, r, eptr) \in Tokens
BY DEF Token, Tokens

-----------------------------------------------------------------------------
(* Each kind of step preserves the invariant.                                *)

(* Nothing has been awaited; main has asked for the processes it started.    *)
LEMMA InitInv == Init => CompositionInv
<1> SUFFICES ASSUME Init PROVE CompositionInv
  OBVIOUS
<1>1. TypeOK
  <2>1. asked \in [Procs -> SUBSET ((0..MaxRounds) \X (Groups \cup {Main}))]
    BY DEF Init
  <2>2. remaining \in [Handlers -> Nat]
    BY DEF Init
  <2>3. uncaught \in BOOLEAN
    BY DEF Init
  <2> QED BY <2>1, <2>2, <2>3 DEF Init, TypeOK
<1>2. CountsOutstanding
  <2> SUFFICES ASSUME NEW r \in Rounds, NEW g \in Groups
               PROVE  remaining[<<r, g>>] = Cardinality(Outstanding(<<r, g>>))
    BY CountsFact
  <2>1. r # 0 /\ <<r, g>> # <<0, Main>>
    BY DEF Rounds
  <2>2. \A n : n \notin Outstanding(<<r, g>>)
    BY <2>1, OutstandingFact DEF Init
  <2>3. Cardinality(Outstanding(<<r, g>>)) = 0
    BY <2>2, FS_EmptySet
  <2> QED BY <2>3 DEF Init, Handlers
<1>3. AskedInv
  BY DEF Init, AskedInv
<1> QED BY <1>1, <1>2, <1>3
        DEF Init, CompositionInv, TokensInv, OpenInv, WaitsForRoot, HeardHappened

(* The process or main goes on, and no token is processed.                   *)
LEMMA QuietKeepsInv ==
  ASSUME CompositionInv,
         UNCHANGED <<kind, started, ended, failed, asked, round, remaining, open, queue>>,
         state' = state \/ (state # "waiting" /\ state' \in {"running", "paused"}),
         uncaught' \in BOOLEAN
  PROVE  CompositionInv'
<1>1. TypeOK'
  BY DEF CompositionInv, TypeOK
<1>2. CountsOutstanding' /\ \A r : \A g \in Groups : Outstanding(<<r, g>>)' = Outstanding(<<r, g>>)
  BY SameOutstanding
<1>3. TokensInv'
  BY DEF CompositionInv, TokensInv
<1>4. AskedInv'
  BY DEF CompositionInv, AskedInv
<1>5. OpenInv'
  BY DEF CompositionInv, OpenInv, Met
<1>6. WaitsForRoot'
  BY DEF CompositionInv, WaitsForRoot
<1>7. HeardHappened'
  <2>1. Happened' = Happened
    BY DEF Happened, GroupsHappened, HappenedWith, LeavesHappened
  <2>2. \A g \in Groups : Outstanding(<<round, g>>)' = Outstanding(<<round, g>>)
    BY <1>2
  <2> QED BY <2>1, <2>2 DEF CompositionInv, HeardHappened
<1> QED BY <1>1, <1>2, <1>3, <1>4, <1>5, <1>6, <1>7 DEF CompositionInv

(* A token that is not for a handler is processed: main's, or the root's.    *)
LEMMA LeavesTreeKeepsInv ==
  ASSUME CompositionInv, NEW t \in queue, Report(t) \/ Resume(t)
  PROVE  CompositionInv'
<1>1. /\ t.to \notin Groups /\ queue' = queue \ {t}
      /\ UNCHANGED <<kind, started, ended, failed, asked, round, remaining, open>>
      /\ (t.to = Main /\ state' = state) \/ (t.to = Waiter /\ state' = "running")
  BY KindsAssumption DEF Report, Resume
<1>2. TypeOK'
  <2>1. uncaught' \in BOOLEAN
    BY DEF Report, Resume, CompositionInv, TypeOK, Tokens
  <2> QED BY <1>1, <2>1 DEF CompositionInv, TypeOK
<1>3. CountsOutstanding' /\ \A r : \A g \in Groups : Outstanding(<<r, g>>)' = Outstanding(<<r, g>>)
  BY <1>1, SameOutstanding
<1>4. TokensInv'
  <2>1. ASSUME t.to = Waiter, NEW s \in queue', s.to = Waiter PROVE FALSE
    BY <1>1, <2>1 DEF CompositionInv, TokensInv
  <2> QED BY <1>1, <2>1 DEF CompositionInv, TokensInv
<1>5. AskedInv'
  BY <1>1 DEF CompositionInv, AskedInv
<1>6. OpenInv'
  <2>1. t.to = Waiter => <<round, Root>> \notin open
    <3>1. t.to = Waiter => t = Token(Root, Waiter, round, FALSE)
      BY DEF CompositionInv, TokensInv
    <3> QED BY <3>1, TreeAssumption DEF CompositionInv, TokensInv, Token
  <2> QED BY <1>1, <2>1 DEF CompositionInv, OpenInv, Met
<1>7. WaitsForRoot'
  BY <1>1, KindsAssumption DEF CompositionInv, WaitsForRoot, Token
<1>8. HeardHappened'
  <2>1. Happened \subseteq Happened'
    BY <1>1, HappenedGrows DEF LeavesHappened
  <2>2. \A g \in Groups : Outstanding(<<round, g>>)' = Outstanding(<<round, g>>)
    BY <1>1, <1>3
  <2> QED BY <1>1, <2>1, <2>2 DEF CompositionInv, HeardHappened
<1> QED BY <1>2, <1>3, <1>4, <1>5, <1>6, <1>7, <1>8 DEF CompositionInv

(* A process ends: whoever has asked for it is outstanding before, by being  *)
(* asked, and after, by its token.                                           *)
LEMMA CompletionsFact ==
  ASSUME CompositionInv, NEW p \in Procs, NEW fails \in BOOLEAN, NEW s
  PROVE  s \in Completions(p, fails) <=>
           \/ s = Token(p, Main, 0, fails) /\ <<0, Main>> \in asked[p]
           \/ \E r \in 1..round, g \in Groups :
                /\ s = Token(p, g, r, fails) /\ <<r, g>> \in asked[p] /\ p \in Children[g]
<1>1. \A a \in asked[p] :
        a = <<0, Main>> \/ (\E r \in 1..round, g \in Groups : a = <<r, g>> /\ p \in Children[g])
  BY DEF CompositionInv, AskedInv
<1>2. s \in Completions(p, fails) <=> \E a \in asked[p] : s = Token(p, a[2], a[1], fails)
  BY DEF Completions
<1>3. <<0, Main>>[2] = Main /\ <<0, Main>>[1] = 0 /\ \A r, g : <<r, g>>[2] = g /\ <<r, g>>[1] = r
  OBVIOUS
<1>4. ASSUME s \in Completions(p, fails)
      PROVE  \/ s = Token(p, Main, 0, fails) /\ <<0, Main>> \in asked[p]
             \/ \E r \in 1..round, g \in Groups :
                  /\ s = Token(p, g, r, fails) /\ <<r, g>> \in asked[p] /\ p \in Children[g]
  <2>1. PICK a \in asked[p] : s = Token(p, a[2], a[1], fails)
    BY <1>2, <1>4
  <2>2. CASE a = <<0, Main>>
    BY <1>3, <2>1, <2>2
  <2>3. ASSUME NEW r \in 1..round, NEW g \in Groups, a = <<r, g>>, p \in Children[g]
        PROVE  /\ s = Token(p, g, r, fails) /\ <<r, g>> \in asked[p] /\ p \in Children[g]
    BY <1>3, <2>1, <2>3
  <2> QED BY <1>1, <2>2, <2>3
<1>5. ASSUME s = Token(p, Main, 0, fails), <<0, Main>> \in asked[p]
      PROVE  s \in Completions(p, fails)
  BY <1>2, <1>3, <1>5
<1>6. ASSUME NEW r, NEW g, s = Token(p, g, r, fails), <<r, g>> \in asked[p]
      PROVE  s \in Completions(p, fails)
  BY <1>2, <1>3, <1>6
<1> QED BY <1>4, <1>5, <1>6

LEMMA EndKeepsInv ==
  ASSUME CompositionInv, NEW p \in Procs, NEW fails \in BOOLEAN, fails => p \in MayFail,
         End(p, fails)
  PROVE  CompositionInv'
<1>1. /\ p \in started /\ p \notin ended /\ ended' = ended \cup {p}
      /\ failed' = IF fails THEN failed \cup {p} ELSE failed
      /\ queue' = queue \cup Completions(p, fails)
      /\ UNCHANGED <<kind, started, asked, round, state, remaining, open, uncaught>>
  BY DEF End
<1>2. /\ round \in 0..MaxRounds /\ 0 \in 0..MaxRounds /\ 1..round \subseteq Rounds
      /\ 1..round \subseteq 0..round /\ 0 \in 0..round
  BY DEF CompositionInv, TypeOK, Rounds
<1>3. \A s \in Completions(p, fails) :
        /\ s.of = p /\ s.eptr = fails /\ s.r \in 0..round
        /\ \/ s.to = Main /\ s = Token(p, Main, 0, fails)
           \/ s.to \in Groups /\ s.r \in Rounds /\ p \in Children[s.to]
              /\ s = Token(p, s.to, s.r, fails)
  <2> SUFFICES ASSUME NEW s \in Completions(p, fails)
               PROVE  /\ s.of = p /\ s.eptr = fails /\ s.r \in 0..round
                      /\ \/ s.to = Main /\ s = Token(p, Main, 0, fails)
                         \/ s.to \in Groups /\ s.r \in Rounds /\ p \in Children[s.to]
                            /\ s = Token(p, s.to, s.r, fails)
    OBVIOUS
  <2>1. CASE s = Token(p, Main, 0, fails)
    BY <1>2, <2>1 DEF Token
  <2>2. ASSUME NEW r \in 1..round, NEW g \in Groups, s = Token(p, g, r, fails), p \in Children[g]
        PROVE  /\ s.of = p /\ s.eptr = fails /\ s.r \in 0..round
               /\ s.to \in Groups /\ s.r \in Rounds /\ p \in Children[s.to]
               /\ s = Token(p, s.to, s.r, fails)
    BY <1>2, <2>2 DEF Token
  <2>3. CASE \E r \in 1..round, g \in Groups : s = Token(p, g, r, fails) /\ p \in Children[g]
    BY <2>2, <2>3
  <2>4. \/ s = Token(p, Main, 0, fails)
        \/ \E r \in 1..round, g \in Groups :
             /\ s = Token(p, g, r, fails) /\ <<r, g>> \in asked[p] /\ p \in Children[g]
    BY CompletionsFact, Zenon
  <2> QED BY <2>1, <2>3, <2>4
<1>4. TypeOK'
  <2>1. Completions(p, fails) \subseteq Tokens
    BY <1>2, <1>3 DEF Tokens, Token, Nodes, Rounds
  <2> QED BY <1>1, <2>1 DEF CompositionInv, TypeOK
<1>5. ASSUME NEW r, NEW g \in Groups PROVE Outstanding(<<r, g>>)' = Outstanding(<<r, g>>)
  <2>0. p \notin Groups
    BY KindsAssumption
  <2>1. ASSUME NEW n, n # p PROVE n \in Outstanding(<<r, g>>)' <=> n \in Outstanding(<<r, g>>)
    <3>1. (\E t \in queue' : t.of = n /\ t.to = g /\ t.r = r)
            <=> (\E t \in queue : t.of = n /\ t.to = g /\ t.r = r)
      BY <1>1, <1>3, <2>1
    <3> QED BY <1>1, <2>1, <3>1, OutstandingFact, OutstandingFactNext
  <2>2. p \in Outstanding(<<r, g>>) <=> p \in Children[g] /\ <<r, g>> \in asked[p]
    <3>1. \A t \in queue : t.of # p
      BY <1>1 DEF CompositionInv, TokensInv
    <3> QED BY <1>1, <2>0, <3>1, OutstandingFact
  <2>3. p \in Outstanding(<<r, g>>)' <=> p \in Children[g] /\ <<r, g>> \in asked[p]
    <3>1. \A t \in queue : t.of # p
      BY <1>1 DEF CompositionInv, TokensInv
    <3>2. g # Main
      BY KindsAssumption
    <3>3. <<r, g>> \in asked[p] => r \in 1..round
      BY <3>2 DEF CompositionInv, AskedInv
    <3>4. <<r, g>> \in asked[p] /\ p \in Children[g] => Token(p, g, r, fails) \in queue'
      BY <1>1, <3>3, CompletionsFact
    <3>5. \A t \in Completions(p, fails) : t.to = g /\ t.r = r => <<r, g>> \in asked[p]
      <4> SUFFICES ASSUME NEW t \in Completions(p, fails), t.to = g, t.r = r
                   PROVE  <<r, g>> \in asked[p]
        OBVIOUS
      <4>1. t # Token(p, Main, 0, fails)
        BY <3>2 DEF Token
      <4>2. PICK r2 \in 1..round, g2 \in Groups :
              t = Token(p, g2, r2, fails) /\ <<r2, g2>> \in asked[p]
        BY <4>1, CompletionsFact
      <4> QED BY <4>2 DEF Token
    <3>6. Token(p, g, r, fails).of = p /\ Token(p, g, r, fails).to = g /\ Token(p, g, r, fails).r = r
      BY DEF Token
    <3>7. <<r, g>> \in asked[p] /\ p \in Children[g] =>
            \E t \in queue' : t.of = p /\ t.to = g /\ t.r = r
      BY <3>4, <3>6
    <3>8. (\E t \in queue' : t.of = p /\ t.to = g /\ t.r = r) => <<r, g>> \in asked[p]
      BY <1>1, <3>1, <3>5
    <3>9. p \in ended' /\ p \in Outstanding(<<r, g>>)' <=>
            p \in Children[g] /\ \E t \in queue' : t.of = p /\ t.to = g /\ t.r = r
      BY <1>1, <2>0, OutstandingFactNext
    <3> QED BY <1>1, <3>7, <3>8, <3>9
  <2>4. /\ Outstanding(<<r, g>>)' \subseteq Outstanding(<<r, g>>)
        /\ Outstanding(<<r, g>>) \subseteq Outstanding(<<r, g>>)'
    BY <2>1, <2>2, <2>3
  <2> QED BY <2>4
<1>6. CountsOutstanding'
  BY <1>1, <1>5, CountsFact, CountsFactNext DEF CompositionInv
<1>7. TokensInv'
  <2>1. ASSUME NEW t \in queue
        PROVE  /\ t.r \in 0..round'
               /\ t.of \in Procs => t.of \in ended' /\ t.of # p
               /\ t.of \in Groups => <<t.r, t.of>> \notin open'
               /\ t.to \in Groups => t.r \in Rounds /\ t.of \in Children[t.to]
               /\ t.to = Main => t.of \in Procs
               /\ t.to = Waiter => t = Token(Root, Waiter, round', FALSE) /\ state' = "waiting"
               /\ t.eptr => t.of \in failed'
               /\ \A s \in queue : s.of = t.of /\ s.to = t.to /\ s.r = t.r => s = t
    BY <1>1 DEF CompositionInv, TokensInv
  <2>2. ASSUME NEW t \in Completions(p, fails)
        PROVE  /\ t.r \in 0..round'
               /\ t.of \in Procs => t.of \in ended'
               /\ t.of \notin Groups
               /\ t.to \in Groups => t.r \in Rounds /\ t.of \in Children[t.to]
               /\ t.to = Main => t.of \in Procs
               /\ t.to # Waiter
               /\ t.eptr => t.of \in failed'
               /\ \A s \in Completions(p, fails) : s.to = t.to /\ s.r = t.r => s = t
    BY <1>1, <1>3, KindsAssumption
  <2>3. ASSUME NEW t \in queue', NEW s \in queue', s.of = t.of, s.to = t.to, s.r = t.r
        PROVE  s = t
    <3>1. \A u \in queue : u.of # p
      BY <1>1 DEF CompositionInv, TokensInv
    <3> QED BY <1>1, <1>3, <2>1, <2>2, <2>3, <3>1
  <2>4. \A t \in queue' : t \in queue \/ t \in Completions(p, fails)
    BY <1>1
  <2> QED BY <2>1, <2>2, <2>3, <2>4 DEF TokensInv
<1>8. AskedInv' /\ OpenInv' /\ WaitsForRoot'
  BY <1>1 DEF CompositionInv, AskedInv, OpenInv, Met, WaitsForRoot
<1>9. HeardHappened'
  <2>1. \A t \in Completions(p, fails) : t.of \notin Groups /\ t.of \notin Timers
    BY <1>3, KindsAssumption
  <2>2. LeavesHappened \subseteq LeavesHappened'
    BY <1>1, <2>1 DEF LeavesHappened
  <2>3. Happened \subseteq Happened'
    BY <1>1, <2>2, HappenedGrows
  <2> QED BY <1>1, <1>5, <2>1, <2>3 DEF CompositionInv, HeardHappened
<1> QED BY <1>4, <1>6, <1>7, <1>8, <1>9 DEF CompositionInv

(* An await of a tree that is ready: no handler is made.                     *)
LEMMA AwaitReadyKeepsInv ==
  ASSUME CompositionInv, Await, Root \in Ready
  PROVE  CompositionInv'
<1>1. /\ state = "running" /\ round < MaxRounds /\ round' = round + 1
      /\ started' = started \cup (Below \cap Procs)
      /\ UNCHANGED <<kind, ended, failed, asked, state, remaining, open, queue, uncaught>>
  BY DEF Await
<1>2. /\ round \in Nat /\ round' \in 0..MaxRounds /\ round' \notin 0..round
      /\ 0..round \subseteq 0..round' /\ 1..round \subseteq 1..round'
  BY <1>1 DEF CompositionInv, TypeOK
<1>3. TypeOK'
  BY <1>1, <1>2 DEF CompositionInv, TypeOK
<1>4. CountsOutstanding'
  BY <1>1, SameOutstanding
<1>5. TokensInv'
  BY <1>1, <1>2 DEF CompositionInv, TokensInv
<1>6. AskedInv'
  BY <1>1, <1>2 DEF CompositionInv, AskedInv
<1>7. OpenInv' /\ WaitsForRoot'
  BY <1>1, <1>2 DEF CompositionInv, TypeOK, Rounds, OpenInv, WaitsForRoot, Met
<1>8. HeardHappened'
  <2>1. \A g \in Groups : <<round', g>> \notin open
    <3> SUFFICES ASSUME NEW g \in Groups, <<round', g>> \in open PROVE FALSE
      OBVIOUS
    <3>1. round' \in Rounds
      BY <1>1, <1>2 DEF Rounds
    <3> QED BY <1>1, <1>2, <3>1 DEF CompositionInv, OpenInv
  <2>2. \A t \in queue : t.r # round'
    BY <1>2 DEF CompositionInv, TokensInv
  <2> QED BY <1>1, <2>1, <2>2 DEF HeardHappened
<1> QED BY <1>3, <1>4, <1>5, <1>6, <1>7, <1>8 DEF CompositionInv

(* An await that suspends: every handler of the new round counts its unready *)
(* children, who are those that will tell it.                                *)
LEMMA AwaitFact ==
  ASSUME CompositionInv, Await, Root \notin Ready
  PROVE  /\ state = "running" /\ state' = "waiting"
         /\ round' = round + 1 /\ round \in Nat /\ round' \in Rounds
         /\ 0..round \subseteq 0..round' /\ 1..round \subseteq 1..round'
         /\ started' = started \cup (Below \cap Procs)
         /\ UNCHANGED <<kind, ended, failed, uncaught>>
         /\ \A t \in queue : t.r # round'
         /\ \A g \in Groups : <<round', g>> \notin open
         /\ \A p \in Procs, g \in Groups : <<round', g>> \notin asked[p]
         /\ \A s : s \in queue' <=>
              s \in queue \/ \E g \in Suspended : \E n \in Children[g] \cap Timers :
                               s = Token(n, g, round', FALSE)
         /\ \A p \in Procs : \A a : a \in asked'[p] <=>
              a \in asked[p] \/ \E g \in Suspended : p \in Unready(g) /\ a = <<round', g>>
         /\ \A q : \A g \in Groups : <<q, g>> \in open' <=>
              <<q, g>> \in open \/ (q = round' /\ g \in Suspended)
         /\ \A q \in Rounds, g \in Groups : remaining'[<<q, g>>] =
              IF q = round' /\ g \in Suspended THEN Cardinality(Unready(g))
                                               ELSE remaining[<<q, g>>]
<1>0. /\ state = "running" /\ round' = round + 1 /\ round < MaxRounds
      /\ started' = started \cup (Below \cap Procs)
      /\ UNCHANGED <<kind, ended, failed, uncaught>>
      /\ Suspend(round + 1)
  BY DEF Await
<1>1. /\ state = "running" /\ state' = "waiting"
      /\ round' = round + 1 /\ round < MaxRounds
      /\ started' = started \cup (Below \cap Procs)
      /\ UNCHANGED <<kind, ended, failed, uncaught>>
      /\ remaining' = [h \in Handlers |-> IF h[1] = round' /\ h[2] \in Suspended
                                          THEN CountAtFirst(h[2]) ELSE remaining[h]]
      /\ open' = open \cup ({round'} \X Suspended)
      /\ queue' = queue \cup UNION {{Token(n, g, round', FALSE) : n \in Children[g] \cap Timers} :
                                    g \in Suspended}
      /\ asked' = [p \in Procs |-> asked[p] \cup
                     {<<round', g>> : g \in {f \in Suspended : p \in Unready(f)}}]
  BY <1>0 DEF Suspend
<1>2. /\ round \in Nat /\ round' \in Rounds /\ round' \notin 0..round /\ round' # 0
      /\ 0..round \subseteq 0..round' /\ 1..round \subseteq 1..round'
  BY <1>1 DEF CompositionInv, TypeOK, Rounds
<1>3. \A t \in queue : t.r # round'
  BY <1>2 DEF CompositionInv, TokensInv
<1>4. ASSUME NEW g \in Groups, <<round', g>> \in open PROVE FALSE
  BY <1>1, <1>2, <1>4 DEF CompositionInv, OpenInv
<1>5. ASSUME NEW p \in Procs, NEW g \in Groups, <<round', g>> \in asked[p] PROVE FALSE
  BY <1>1, <1>2, <1>5 DEF CompositionInv, AskedInv
<1>6. ASSUME NEW s
      PROVE  s \in queue' <=> s \in queue \/ \E g \in Suspended : \E n \in Children[g] \cap Timers :
                                               s = Token(n, g, round', FALSE)
  <2> DEFINE Timed(g) == {Token(n, g, round', FALSE) : n \in Children[g] \cap Timers}
  <2>1. s \in queue' <=> s \in queue \/ \E g \in Suspended : s \in Timed(g)
    BY <1>1
  <2>2. \A g : s \in Timed(g) <=> \E n \in Children[g] \cap Timers : s = Token(n, g, round', FALSE)
    OBVIOUS
  <2> HIDE DEF Timed
  <2> QED BY <2>1, <2>2
<1>7. ASSUME NEW p \in Procs, NEW a
      PROVE  a \in asked'[p] <=>
               a \in asked[p] \/ \E g \in Suspended : p \in Unready(g) /\ a = <<round', g>>
  BY <1>1
<1>8. ASSUME NEW q, NEW g \in Groups
      PROVE  <<q, g>> \in open' <=> <<q, g>> \in open \/ (q = round' /\ g \in Suspended)
  BY <1>1
<1>9. ASSUME NEW q \in Rounds, NEW g \in Groups
      PROVE  remaining'[<<q, g>>] =
               IF q = round' /\ g \in Suspended THEN Cardinality(Unready(g))
                                                ELSE remaining[<<q, g>>]
  <2>1. <<q, g>> \in Handlers /\ <<q, g>>[1] = q /\ <<q, g>>[2] = g
    BY DEF Handlers
  <2> QED BY <1>1, <2>1 DEF CountAtFirst
<1> QED BY <1>1, <1>2, <1>3, <1>4, <1>5, <1>6, <1>7, <1>8, <1>9

LEMMA AwaitOutstanding ==
  ASSUME CompositionInv, Await, Root \notin Ready, NEW r, r = round + 1
  PROVE  /\ \A q \in Rounds, g \in Groups :
              q # r => Outstanding(<<q, g>>)' = Outstanding(<<q, g>>)
         /\ \A g \in Suspended : Outstanding(<<r, g>>)' = Unready(g)
         /\ \A g \in Groups \ Suspended :
              Outstanding(<<r, g>>)' = {} /\ Outstanding(<<r, g>>) = {}
<1>0. r = round'
  BY AwaitFact
<1>1. ASSUME NEW q \in Rounds, NEW g \in Groups, q # r, NEW n
      PROVE  n \in Outstanding(<<q, g>>)' <=> n \in Outstanding(<<q, g>>)
  <2>1. (\E t \in queue' : t.of = n /\ t.to = g /\ t.r = q)
          <=> (\E t \in queue : t.of = n /\ t.to = g /\ t.r = q)
    BY <1>0, <1>1, AwaitFact DEF Token
  <2>2. n \in Procs => (<<q, g>> \in asked'[n] <=> <<q, g>> \in asked[n])
    BY <1>0, <1>1, AwaitFact
  <2>3. n \in Groups => (<<q, n>> \in open' <=> <<q, n>> \in open)
    BY <1>0, <1>1, AwaitFact
  <2>4. ended' = ended
    BY <1>0, AwaitFact
  <2> QED BY <2>1, <2>2, <2>3, <2>4, OutstandingFact, OutstandingFactNext
<1>2. ASSUME NEW g \in Groups, NEW n
      PROVE  /\ n \in Outstanding(<<r, g>>)' <=> g \in Suspended /\ n \in Unready(g)
             /\ n \notin Outstanding(<<r, g>>)
  <2>1. n \notin Outstanding(<<r, g>>)
    <3>1. ~\E t \in queue : t.of = n /\ t.to = g /\ t.r = r
      BY <1>0, AwaitFact
    <3>2. n \in Procs => <<r, g>> \notin asked[n]
      BY <1>0, AwaitFact
    <3>3. n \in Groups => <<r, n>> \notin open
      BY <1>0, AwaitFact
    <3> QED BY <3>1, <3>2, <3>3, OutstandingFact
  <2>2. (\E t \in queue' : t.of = n /\ t.to = g /\ t.r = r)
          <=> n \in Children[g] \cap Timers /\ g \in Suspended
    <3>1. ASSUME NEW t \in queue', t.of = n, t.to = g, t.r = r
          PROVE  n \in Children[g] \cap Timers /\ g \in Suspended
      BY <1>0, <3>1, AwaitFact DEF Token
    <3>2. ASSUME n \in Children[g] \cap Timers, g \in Suspended
          PROVE  \E t \in queue' : t.of = n /\ t.to = g /\ t.r = r
      <4>1. Token(n, g, r, FALSE) \in queue'
        BY <1>0, <3>2, AwaitFact
      <4> QED BY <4>1 DEF Token
    <3> QED BY <3>1, <3>2
  <2>3. n \in Procs => (<<r, g>> \in asked'[n] <=> g \in Suspended /\ n \in Unready(g))
    BY <1>0, AwaitFact, SuspendedFact
  <2>4. n \in Groups => (<<r, n>> \in open' <=> n \in Suspended)
    BY <1>0, AwaitFact
  <2>5. n \in Children[g] => n \in Procs \cup Timers \cup Groups
    BY TreeAssumption DEF Nodes
  <2>6. /\ n \in Unready(g) => n \in Children[g]
        /\ n \in Procs /\ n \in Unready(g) => n \notin ended
        /\ n \in Timers /\ n \in Children[g] => n \in Unready(g)
    BY KindsAssumption DEF Unready, Ready, ReadyGroups, CompositionInv, TypeOK
  <2>7. ended' = ended
    BY <1>0, AwaitFact
  <2>8. n \in Outstanding(<<r, g>>)' <=>
          /\ n \in Children[g]
          /\ \/ n \in Children[g] \cap Timers /\ g \in Suspended
             \/ n \in Procs \ ended /\ g \in Suspended /\ n \in Unready(g)
             \/ n \in Groups /\ n \in Suspended
    <3>1. n \in Outstanding(<<r, g>>)' <=>
            /\ n \in Children[g]
            /\ \/ \E t \in queue' : t.of = n /\ t.to = g /\ t.r = r
               \/ n \in Procs \ ended' /\ <<r, g>> \in asked'[n]
               \/ n \in Groups /\ <<r, n>> \in open'
      BY OutstandingFactNext
    <3> QED BY <2>2, <2>3, <2>4, <2>7, <3>1
  <2> QED BY <2>1, <2>5, <2>6, <2>8, SuspendedChild
<1>3. ASSUME NEW q \in Rounds, NEW g \in Groups, q # r
      PROVE  Outstanding(<<q, g>>)' = Outstanding(<<q, g>>)
  BY <1>1, <1>3
<1>4. ASSUME NEW g \in Suspended PROVE Outstanding(<<r, g>>)' = Unready(g)
  BY <1>2, SuspendedFact
<1>5. ASSUME NEW g \in Groups \ Suspended
      PROVE  Outstanding(<<r, g>>)' = {} /\ Outstanding(<<r, g>>) = {}
  BY <1>2
<1> QED BY <1>3, <1>4, <1>5

LEMMA AwaitSuspendsKeepsInv ==
  ASSUME CompositionInv, Await, Root \notin Ready
  PROVE  CompositionInv'
<1>1. PICK r : r = round + 1
  OBVIOUS
<1>2. /\ r = round' /\ state = "running" /\ state' = "waiting"
      /\ round \in Nat /\ r \in Rounds /\ r \notin 0..round /\ r # 0
      /\ 0..round \subseteq 0..r /\ 1..round \subseteq 1..r /\ r \in 0..r /\ r \in 1..r
      /\ started' = started \cup (Below \cap Procs)
      /\ UNCHANGED <<kind, ended, failed, uncaught>>
  BY <1>1, AwaitFact
<1>3. /\ \A q \in Rounds, g \in Groups :
           q # r => Outstanding(<<q, g>>)' = Outstanding(<<q, g>>)
      /\ \A g \in Suspended : Outstanding(<<r, g>>)' = Unready(g)
      /\ \A g \in Groups \ Suspended : Outstanding(<<r, g>>)' = {} /\ Outstanding(<<r, g>>) = {}
  BY <1>1, AwaitOutstanding
<1>4. CountsOutstanding'
  <2> SUFFICES ASSUME NEW q \in Rounds, NEW g \in Groups
               PROVE  remaining'[<<q, g>>] = Cardinality(Outstanding(<<q, g>>)')
    BY CountsFactNext
  <2>1. remaining'[<<q, g>>] = IF q = r /\ g \in Suspended THEN Cardinality(Unready(g))
                                                          ELSE remaining[<<q, g>>]
    BY <1>2, AwaitFact
  <2>2. remaining[<<q, g>>] = Cardinality(Outstanding(<<q, g>>))
    BY CountsFact DEF CompositionInv
  <2> QED BY <1>3, <2>1, <2>2
<1>5. \A s \in queue' : \/ s \in queue
                        \/ \E g \in Suspended : \E n \in Children[g] \cap Timers :
                             s = Token(n, g, r, FALSE)
  <2>1. \A s \in queue' : s \in queue \/ \E g \in Suspended : \E n \in Children[g] \cap Timers :
                                          s = Token(n, g, round', FALSE)
    BY AwaitFact
  <2> QED BY <1>2, <2>1
<1>6. ASSUME NEW s \in queue', s \notin queue
      PROVE  /\ s.r = r /\ s.of \in Timers /\ s.of \notin Procs /\ s.of \notin Groups
             /\ s.to \in Suspended /\ s.to \in Groups /\ s.to # Main /\ s.to # Waiter
             /\ s.of \in Children[s.to] /\ s.eptr = FALSE
             /\ s = Token(s.of, s.to, r, FALSE)
  <2>1. PICK g \in Suspended, n \in Nodes : n \in Children[g] \cap Timers /\ s = Token(n, g, r, FALSE)
    BY <1>5, <1>6 DEF Nodes
  <2>2. g \in Groups /\ g # Main /\ g # Waiter /\ n \notin Procs /\ n \notin Groups
    BY <2>1, SuspendedFact, KindsAssumption
  <2> QED BY <2>1, <2>2 DEF Token
<1>7. TypeOK'
  <2>1. queue' \subseteq Tokens
    <3> SUFFICES ASSUME NEW s \in queue', s \notin queue PROVE s \in Tokens
      BY DEF CompositionInv, TypeOK
    <3>1. r \in 0..MaxRounds
      BY <1>2 DEF Rounds
    <3>2. s = Token(s.of, s.to, r, FALSE) /\ s.of \in Nodes /\ s.to \in Groups
      BY <1>6 DEF Nodes
    <3> QED BY <3>1, <3>2, TokenTyped
  <2>2. open' \subseteq Handlers
    BY <1>1, <1>2, SuspendedFact DEF Await, Suspend, Handlers, CompositionInv, TypeOK
  <2>3. remaining' \in [Handlers -> Nat]
    <3>1. \A h \in Handlers : h[2] \in Suspended => Cardinality(Unready(h[2])) \in Nat
      BY SuspendedFact, MetFact DEF Unready
    <3> QED BY <3>1 DEF Await, Suspend, CountAtFirst, CompositionInv, TypeOK
  <2>4. asked' \in [Procs -> SUBSET ((0..MaxRounds) \X (Groups \cup {Main}))]
    <3>1. \A p \in Procs : asked'[p] \subseteq (0..MaxRounds) \X (Groups \cup {Main})
      <4> SUFFICES ASSUME NEW p \in Procs, NEW a \in asked'[p]
                   PROVE  a \in (0..MaxRounds) \X (Groups \cup {Main})
        OBVIOUS
      <4>1. CASE a \in asked[p]
        BY <4>1 DEF CompositionInv, TypeOK
      <4>2. ASSUME NEW g \in Suspended, a = <<r, g>> PROVE a \in (0..MaxRounds) \X (Groups \cup {Main})
        BY <1>2, <4>2, SuspendedFact DEF Rounds
      <4> QED BY <1>2, <4>1, <4>2, AwaitFact
    <3>2. asked' = [p \in Procs |-> asked'[p]]
      BY DEF Await, Suspend
    <3> QED BY <3>1, <3>2
  <2> QED BY <1>2, <2>1, <2>2, <2>3, <2>4 DEF CompositionInv, TypeOK, Rounds
<1>8. TokensInv'
  <2>1. ASSUME NEW t \in queue
        PROVE  /\ t.r \in 0..r /\ t.r # r /\ t.to # Waiter
               /\ t.of \in Procs => t.of \in ended'
               /\ t.of \in Groups => <<t.r, t.of>> \notin open'
               /\ t.to \in Groups => t.r \in Rounds /\ t.of \in Children[t.to]
               /\ t.to = Main => t.of \in Procs
               /\ t.eptr => t.of \in failed'
               /\ \A s \in queue : s.of = t.of /\ s.to = t.to /\ s.r = t.r => s = t
    <3>1. /\ t.r \in 0..round /\ t.to # Waiter
          /\ t.of \in Procs => t.of \in ended
          /\ t.of \in Groups => <<t.r, t.of>> \notin open
          /\ t.to \in Groups => t.r \in Rounds /\ t.of \in Children[t.to]
          /\ t.to = Main => t.of \in Procs
          /\ t.eptr => t.of \in failed
          /\ \A s \in queue : s.of = t.of /\ s.to = t.to /\ s.r = t.r => s = t
      BY <1>2 DEF CompositionInv, TokensInv
    <3>2. t.r # r
      BY <1>2, <3>1
    <3>3. t.of \in Groups => <<t.r, t.of>> \notin open'
      BY <1>2, <3>1, <3>2, AwaitFact
    <3> QED BY <1>2, <3>1, <3>2, <3>3
  <2>2. \A t, s \in queue' : s.of = t.of /\ s.to = t.to /\ s.r = t.r => s = t
    BY <1>6, <2>1
  <2> QED BY <1>2, <1>6, <2>1, <2>2 DEF TokensInv
<1>9. AskedInv'
  <2> SUFFICES ASSUME NEW p \in Procs, NEW a \in asked'[p]
               PROVE  \/ a = <<0, Main>>
                      \/ \E q \in 1..r, g \in Groups : a = <<q, g>> /\ p \in Children[g]
    BY <1>2 DEF AskedInv
  <2>1. CASE a \in asked[p]
    BY <1>2, <2>1 DEF CompositionInv, AskedInv
  <2>2. ASSUME NEW g \in Suspended, p \in Unready(g), a = <<r, g>>
        PROVE  \E q \in 1..r, f \in Groups : a = <<q, f>> /\ p \in Children[f]
    BY <1>2, <2>2, SuspendedFact DEF Unready
  <2> QED BY <1>2, <2>1, <2>2, AwaitFact
<1>10. OpenInv'
  <2> SUFFICES ASSUME NEW q \in Rounds, NEW g \in Groups, <<q, g>> \in open'
               PROVE  /\ q <= r
                      /\ g = Root => q = r
                      /\ failed' = {} => ~Met(g, remaining'[<<q, g>>])
    BY <1>2 DEF OpenInv, Met
  <2>1. CASE <<q, g>> \in open
    <3>1. q # r /\ remaining'[<<q, g>>] = remaining[<<q, g>>]
      BY <1>2, <2>1, AwaitFact
    <3> QED BY <1>2, <2>1, <3>1 DEF CompositionInv, OpenInv, Rounds
  <2>2. CASE q = r /\ g \in Suspended
    <3>1. remaining'[<<q, g>>] = Cardinality(Unready(g))
      BY <1>2, <2>2, AwaitFact
    <3> QED BY <1>2, <2>2, <3>1, SuspendedUnready
  <2> QED BY <1>2, <2>1, <2>2, AwaitFact
<1>11. WaitsForRoot'
  BY <1>2, AwaitFact, SuspendedFact, TreeAssumption DEF WaitsForRoot
<1>12. HeardHappened'
  <2>1. Ready \subseteq Happened'
    BY <1>2, ReadyHappened
  <2>2. ASSUME NEW g \in Groups, <<r, g>> \in open'
        PROVE  Children[g] \ Outstanding(<<r, g>>)' \subseteq Happened'
    <3>1. g \in Suspended
      BY <1>2, <2>2, AwaitFact
    <3> QED BY <1>3, <2>1, <3>1 DEF Unready
  <2>3. ASSUME NEW t \in queue', t.of \in Groups, t.r = r PROVE FALSE
    BY <1>2, <1>6, <2>3, AwaitFact
  <2> QED BY <1>2, <2>2, <2>3 DEF HeardHappened
<1> QED BY <1>4, <1>7, <1>8, <1>9, <1>10, <1>11, <1>12 DEF CompositionInv

(* A handler hears of a child: it was outstanding and is not any more, and   *)
(* if the handler completes, its own token is outstanding in its place.      *)
LEMMA InvokeFact ==
  ASSUME CompositionInv, NEW t \in queue, Invoke(t),
         NEW r, NEW g, NEW n, r = t.r, g = t.to, n = t.of
  PROVE  /\ r \in Rounds /\ r \in 0..round /\ g \in Groups /\ n \in Children[g] /\ n # g
         /\ n \in Procs => n \in ended
         /\ n \in Groups => <<r, n>> \notin open
         /\ t.eptr => n \in failed
         /\ UNCHANGED <<kind, started, ended, failed, asked, round, state>>
         /\ uncaught' \in BOOLEAN
         /\ remaining' = [remaining EXCEPT ![<<r, g>>] = remaining[<<r, g>>] - 1]
         /\ \/ /\ ~t.eptr /\ <<r, g>> \in open /\ Met(g, remaining[<<r, g>>] - 1)
               /\ open' = open \ {<<r, g>>}
               /\ queue' = (queue \ {t}) \cup {Token(g, Above(g), r, FALSE)}
            \/ /\ t.eptr \/ <<r, g>> \notin open \/ ~Met(g, remaining[<<r, g>>] - 1)
               /\ open' = open
               /\ queue' = queue \ {t}
<1>1. g \in Groups /\ r \in Rounds /\ r \in 0..round /\ n \in Children[g]
  BY DEF Invoke, CompositionInv, TokensInv
<1>2. /\ n \in Procs => n \in ended
      /\ n \in Groups => <<r, n>> \notin open
      /\ t.eptr => n \in failed
  BY DEF CompositionInv, TokensInv
<1>3. uncaught' \in BOOLEAN
  BY DEF Invoke, CompositionInv, TypeOK, Tokens
<1>4. <<r, g>>[2] = g
  OBVIOUS
<1> QED BY <1>1, <1>2, <1>3, <1>4, AboveFact DEF Invoke, Counted, Completes

LEMMA InvokeOutstanding ==
  ASSUME CompositionInv, NEW t \in queue, Invoke(t),
         NEW r, NEW g, NEW n, r = t.r, g = t.to, n = t.of
  PROVE  /\ n \in Outstanding(<<r, g>>)
         /\ Outstanding(<<r, g>>)' = Outstanding(<<r, g>>) \ {n}
         /\ \A q \in Rounds, f \in Groups :
              q # r \/ f # g => Outstanding(<<q, f>>)' = Outstanding(<<q, f>>)
<1> DEFINE u == Token(g, Above(g), r, FALSE)
           Tells(Q, m, f, q) == \E s \in Q : s.of = m /\ s.to = f /\ s.r = q
<1>1. /\ r \in Rounds /\ g \in Groups /\ n \in Children[g] /\ n # g
      /\ n \in Procs => n \in ended
      /\ n \in Groups => <<r, n>> \notin open
      /\ UNCHANGED <<ended, asked>>
  BY InvokeFact
<1>2. n \in Outstanding(<<r, g>>)
  BY <1>1, OutstandingFact
<1>3. \A s \in queue : s.of = n /\ s.to = g /\ s.r = r => s = t
  BY DEF CompositionInv, TokensInv
<1>4. u.of = g /\ u.to = Above(g) /\ u.r = r
  BY DEF Token
<1>5. \/ <<r, g>> \in open /\ open' = open \ {<<r, g>>} /\ queue' = (queue \ {t}) \cup {u}
      \/ open' = open /\ queue' = queue \ {t}
  BY InvokeFact
<1> HIDE DEF u
<1>6. n \notin Outstanding(<<r, g>>)'
  <2>1. ~Tells(queue', n, g, r)
    BY <1>1, <1>3, <1>4, <1>5
  <2>2. ~(n \in Procs \ ended')
    BY <1>1
  <2>3. ~(n \in Groups /\ <<r, n>> \in open')
    BY <1>1, <1>5
  <2> QED BY <1>1, <2>1, <2>2, <2>3, OutstandingFactNext
<1>7. ASSUME NEW q, NEW f \in Groups, NEW m \in Children[f], q # r \/ f # g \/ m # n
      PROVE  m \in Outstanding(<<q, f>>)' <=> m \in Outstanding(<<q, f>>)
  <2>1. CASE open' = open /\ queue' = queue \ {t}
    <3>1. Tells(queue', m, f, q) <=> Tells(queue, m, f, q)
      BY <1>7, <2>1
    <3>2. <<q, m>> \in open' <=> <<q, m>> \in open
      BY <2>1
    <3> QED BY <1>1, <3>1, <3>2, OutstandingFact, OutstandingFactNext
  <2>2. CASE <<r, g>> \in open /\ open' = open \ {<<r, g>>} /\ queue' = (queue \ {t}) \cup {u}
    <3>1. CASE m = g /\ q = r
      <4>1. f = Above(g)
        BY <1>1, <3>1, AboveFact
      <4>2. Tells(queue', m, f, q)
        BY <1>4, <2>2, <3>1, <4>1
      <4>3. m \in Groups /\ <<q, m>> \in open
        BY <1>1, <2>2, <3>1
      <4> QED BY <4>2, <4>3, OutstandingFact, OutstandingFactNext
    <3>2. CASE ~(m = g /\ q = r)
      <4>1. Tells(queue', m, f, q) <=> Tells(queue, m, f, q)
        BY <1>4, <1>7, <2>2, <3>2
      <4>2. <<q, m>> \in open' <=> <<q, m>> \in open
        BY <2>2, <3>2
      <4> QED BY <1>1, <4>1, <4>2, OutstandingFact, OutstandingFactNext
    <3> QED BY <3>1, <3>2
  <2> QED BY <1>5, <2>1, <2>2
<1>8. \A q : \A f \in Groups : \A m :
        (m \in Outstanding(<<q, f>>) => m \in Children[f])
        /\ (m \in Outstanding(<<q, f>>)' => m \in Children[f])
  BY OutstandingFact, OutstandingFactNext
<1>9. /\ Outstanding(<<r, g>>)' \subseteq Outstanding(<<r, g>>) \ {n}
      /\ Outstanding(<<r, g>>) \ {n} \subseteq Outstanding(<<r, g>>)'
  BY <1>1, <1>6, <1>7, <1>8
<1>10. ASSUME NEW q \in Rounds, NEW f \in Groups, q # r \/ f # g
       PROVE  Outstanding(<<q, f>>)' = Outstanding(<<q, f>>)
  <2>1. /\ Outstanding(<<q, f>>)' \subseteq Outstanding(<<q, f>>)
        /\ Outstanding(<<q, f>>) \subseteq Outstanding(<<q, f>>)'
    BY <1>7, <1>8, <1>10
  <2> QED BY <2>1
<1>11. Outstanding(<<r, g>>)' = Outstanding(<<r, g>>) \ {n}
  BY <1>9
<1> QED BY <1>2, <1>10, <1>11

LEMMA InvokeKeepsInv ==
  ASSUME CompositionInv, NEW t \in queue, Invoke(t)
  PROVE  CompositionInv'
<1>1. PICK r, g, n : r = t.r /\ g = t.to /\ n = t.of
  OBVIOUS
<1> DEFINE u == Token(g, Above(g), r, FALSE)
           before == Outstanding(<<r, g>>)
<1>2. /\ r \in Rounds /\ r \in 0..round /\ g \in Groups /\ n \in Children[g] /\ n # g
      /\ n \in Procs => n \in ended
      /\ n \in Groups => <<r, n>> \notin open
      /\ t.eptr => n \in failed
      /\ UNCHANGED <<kind, started, ended, failed, asked, round, state>>
      /\ uncaught' \in BOOLEAN
      /\ remaining' = [remaining EXCEPT ![<<r, g>>] = remaining[<<r, g>>] - 1]
  BY <1>1, InvokeFact
<1>3. \/ /\ ~t.eptr /\ <<r, g>> \in open /\ Met(g, remaining[<<r, g>>] - 1)
         /\ open' = open \ {<<r, g>>}
         /\ queue' = (queue \ {t}) \cup {u}
      \/ /\ t.eptr \/ <<r, g>> \notin open \/ ~Met(g, remaining[<<r, g>>] - 1)
         /\ open' = open
         /\ queue' = queue \ {t}
  BY <1>1, InvokeFact
<1>4. /\ n \in before /\ Outstanding(<<r, g>>)' = before \ {n}
      /\ \A q \in Rounds, f \in Groups :
           q # r \/ f # g => Outstanding(<<q, f>>)' = Outstanding(<<q, f>>)
  BY <1>1, InvokeOutstanding
<1>5. /\ before \ {n} \in SUBSET Children[g]
      /\ remaining[<<r, g>>] - 1 = Cardinality(before \ {n}) /\ remaining[<<r, g>>] - 1 \in Nat
  <2>1. before \in SUBSET Children[g] /\ remaining[<<r, g>>] = Cardinality(before)
    BY <1>2, CountsTyped DEF CompositionInv
  <2>2. IsFiniteSet(before) /\ Cardinality(before) \in Nat
    BY <1>2, <2>1, MetFact
  <2>3. Cardinality(before \ {n}) = Cardinality(before) - 1
    BY <1>4, <2>2, FS_RemoveElement
  <2>4. Cardinality(before \ {n}) \in Nat
    BY <1>2, <2>1, MetFact
  <2> QED BY <2>1, <2>3, <2>4
<1>6. u.of = g /\ u.to = Above(g) /\ u.r = r /\ u.eptr = FALSE
  BY DEF Token
<1> HIDE DEF before
<1>7. /\ Above(g) \in Groups \cup {Waiter} /\ Above(g) # Main
      /\ Above(g) = Waiter => g = Root
      /\ Above(g) \in Groups => g \in Children[Above(g)]
      /\ g \notin Procs /\ g \notin Timers
  BY <1>2, AboveFact, KindsAssumption
<1>8. remaining' \in [Handlers -> Nat]
      /\ \A q \in Rounds, f \in Groups :
           remaining'[<<q, f>>] = IF q = r /\ f = g THEN remaining[<<r, g>>] - 1
                                                    ELSE remaining[<<q, f>>]
  <2>1. \A q \in Rounds, f \in Groups : <<q, f>> \in Handlers
    BY DEF Handlers
  <2> QED BY <1>2, <1>5, <2>1 DEF CompositionInv, TypeOK
<1>9. TypeOK'
  <2>1. r \in 0..MaxRounds /\ g \in Nodes
    BY <1>2 DEF Rounds, Nodes
  <2>2. u \in Tokens
    BY <1>7, <2>1, TokenTyped
  <2> QED BY <1>2, <1>3, <1>8, <2>2 DEF CompositionInv, TypeOK
<1>10. CountsOutstanding'
  <2> SUFFICES ASSUME NEW q \in Rounds, NEW f \in Groups
               PROVE  remaining'[<<q, f>>] = Cardinality(Outstanding(<<q, f>>)')
    BY CountsFactNext
  <2>1. remaining[<<q, f>>] = Cardinality(Outstanding(<<q, f>>))
    BY CountsFact DEF CompositionInv
  <2> QED BY <1>4, <1>5, <1>8, <2>1
<1>11. TokensInv'
  <2>1. ASSUME NEW s \in queue
        PROVE  /\ s.r \in 0..round'
               /\ s.of \in Procs => s.of \in ended'
               /\ s.of \in Groups => <<s.r, s.of>> \notin open
               /\ s.to \in Groups => s.r \in Rounds /\ s.of \in Children[s.to]
               /\ s.to = Main => s.of \in Procs
               /\ s.to = Waiter => s = Token(Root, Waiter, round', FALSE) /\ state' = "waiting"
               /\ s.eptr => s.of \in failed'
               /\ \A v \in queue : v.of = s.of /\ v.to = s.to /\ v.r = s.r => v = s
    BY <1>2 DEF CompositionInv, TokensInv
  <2>2. CASE queue' = queue \ {t} /\ open' = open
    BY <2>1, <2>2 DEF TokensInv
  <2>3. CASE <<r, g>> \in open /\ open' = open \ {<<r, g>>} /\ queue' = (queue \ {t}) \cup {u}
    <3>1. \A s \in queue : ~(s.of = g /\ s.r = r)
      BY <1>2, <2>1, <2>3
    <3>2. g = Root => u = Token(Root, Waiter, round', FALSE) /\ state' = "waiting"
      <4>1. g = Root => r = round /\ state = "waiting" /\ Above(g) = Waiter
        BY <1>2, <2>3, AboveFact DEF CompositionInv, OpenInv
      <4> QED BY <1>2, <4>1
    <3>3. <<r, g>> \notin open'
      BY <2>3
    <3> HIDE DEF u
    <3>4. /\ u.r \in 0..round'
          /\ u.of \notin Procs
          /\ u.of \in Groups => <<u.r, u.of>> \notin open'
          /\ u.to \in Groups => u.r \in Rounds /\ u.of \in Children[u.to]
          /\ u.to # Main
          /\ u.to = Waiter => u = Token(Root, Waiter, round', FALSE) /\ state' = "waiting"
          /\ ~u.eptr
      BY <1>2, <1>6, <1>7, <3>2, <3>3
    <3>5. \A s \in queue' : s = u \/ s \in queue
      BY <2>3
    <3>6. \A s, v \in queue' : v.of = s.of /\ v.to = s.to /\ v.r = s.r => v = s
      BY <1>6, <2>1, <3>1, <3>5
    <3>7. \A s \in queue : s.of \in Groups => <<s.r, s.of>> \notin open'
      BY <2>1, <2>3
    <3> QED BY <2>1, <3>4, <3>5, <3>6, <3>7 DEF TokensInv
  <2> QED BY <1>3, <2>2, <2>3
<1>12. AskedInv'
  BY <1>2 DEF CompositionInv, AskedInv
<1>13. OpenInv'
  <2> SUFFICES ASSUME NEW q \in Rounds, NEW f \in Groups, <<q, f>> \in open'
               PROVE  /\ q <= round
                      /\ f = Root => q = round /\ state = "waiting"
                      /\ failed = {} => ~Met(f, remaining'[<<q, f>>])
    BY <1>2 DEF OpenInv, Met
  <2>1. <<q, f>> \in open
    BY <1>3
  <2>2. /\ q <= round
        /\ f = Root => q = round /\ state = "waiting"
        /\ failed = {} => ~Met(f, remaining[<<q, f>>])
    BY <2>1 DEF CompositionInv, OpenInv
  <2>3. q = r /\ f = g /\ failed = {} => ~Met(g, remaining[<<r, g>>] - 1)
    BY <1>2, <1>3
  <2> QED BY <1>8, <2>2, <2>3
<1>14. WaitsForRoot'
  <2> SUFFICES ASSUME state = "waiting"
               PROVE  <<round, Root>> \in open' \/ Token(Root, Waiter, round, FALSE) \in queue'
    BY <1>2 DEF WaitsForRoot
  <2>1. CASE <<round, Root>> \in open'
    BY <2>1
  <2>2. CASE <<round, Root>> \in open /\ <<round, Root>> \notin open'
    <3>1. r = round /\ g = Root /\ Above(g) = Waiter
      BY <1>2, <1>3, <2>2, AboveFact
    <3> QED BY <1>3, <2>2, <3>1
  <2>3. CASE Token(Root, Waiter, round, FALSE) \in queue
    <3>1. Token(Root, Waiter, round, FALSE) # t
      BY <1>1, <1>2, KindsAssumption DEF Token
    <3> QED BY <1>3, <2>3, <3>1
  <2> QED BY <2>1, <2>2, <2>3 DEF CompositionInv, WaitsForRoot
<1>15. HeardHappened'
  <2>1. Happened \subseteq Happened'
    <3>1. LeavesHappened \subseteq LeavesHappened'
      BY <1>2, <1>3, <1>6, <1>7 DEF LeavesHappened
    <3> QED BY <1>2, <3>1, HappenedGrows
  <2>2. r = round => n \in Happened'
    <3> SUFFICES ASSUME r = round PROVE n \in Happened'
      OBVIOUS
    <3>1. CASE n \in Procs
      BY <1>2, <3>1 DEF Happened, LeavesHappened
    <3>2. CASE n \in Groups
      BY <1>1, <2>1, <3>2 DEF CompositionInv, HeardHappened
    <3>3. CASE n \in Timers
      <4>1. ASSUME NEW s \in queue, s.of = n, s.r = r PROVE s = t
        <5>0. /\ s.to \in Groups => s.of \in Children[s.to]
              /\ s.to = Main => s.of \in Procs
              /\ s.to = Waiter => s = Token(Root, Waiter, round, FALSE)
              /\ s.of = t.of /\ s.to = t.to /\ s.r = t.r => s = t
          BY <4>1 DEF CompositionInv, TokensInv
        <5>1. /\ s.to \in Groups => n \in Children[s.to]
              /\ s.to = Main => n \in Procs
              /\ s.to = Waiter => s.of = Root
              /\ s.of = t.of /\ s.to = t.to /\ s.r = t.r => s = t
          BY <4>1, <5>0 DEF Token
        <5>2. s.to \in Groups
          BY <3>3, <4>1, <5>1, KindsAssumption, TreeAssumption DEF CompositionInv, TypeOK, Tokens
        <5>3. s.to = g
          BY <1>2, <3>3, <5>1, <5>2, KindsAssumption, TreeAssumption
        <5> QED BY <1>1, <4>1, <5>1, <5>3
      <4>2. ~\E s \in queue' : s.of = n /\ s.r = round'
        BY <1>2, <1>3, <1>6, <1>7, <3>3, <4>1
      <4> QED BY <3>3, <4>2 DEF Happened, LeavesHappened
    <3> QED BY <1>2, <3>1, <3>2, <3>3, TreeAssumption DEF Nodes
  <2>3. r = round /\ <<r, g>> \in open => Children[g] \ (before \ {n}) \subseteq Happened'
    BY <1>2, <2>1, <2>2 DEF CompositionInv, HeardHappened, before
  <2>4. ASSUME NEW f \in Groups, <<round, f>> \in open'
        PROVE  Children[f] \ Outstanding(<<round, f>>)' \subseteq Happened'
    <3>1. round \in Rounds /\ <<round, f>> \in open
      <4>1. <<round, f>> \in open
        BY <1>3, <2>4
      <4>2. <<round, f>> \in Rounds \X Groups
        BY <4>1 DEF CompositionInv, TypeOK, Handlers
      <4> QED BY <4>1, <4>2
    <3>2. Children[f] \ Outstanding(<<round, f>>) \subseteq Happened
      BY <3>1 DEF CompositionInv, HeardHappened
    <3> QED BY <1>2, <1>4, <2>1, <2>3, <3>1, <3>2
  <2>5. <<r, g>> \in open /\ Met(g, remaining[<<r, g>>] - 1) /\ r = round => g \in Happened'
    <3> SUFFICES ASSUME <<r, g>> \in open, Met(g, remaining[<<r, g>>] - 1), r = round
                 PROVE  g \in Happened'
      OBVIOUS
    <3>1. IF kind[g] = "any_of" THEN before \ {n} # Children[g] ELSE before \ {n} = {}
      BY <1>2, <1>5, MetFact
    <3>2. IF kind'[g] = "any_of" THEN \E m \in Children[g] : m \in Happened'
                                 ELSE \A m \in Children[g] : m \in Happened'
      BY <1>2, <1>5, <2>3, <3>1
    <3> QED BY <1>2, <3>2, HappenedFactNext
  <2>6. ASSUME NEW s \in queue', s.of \in Groups, s.r = round PROVE s.of \in Happened'
    <3>1. CASE s \in queue
      BY <2>1, <2>6, <3>1 DEF CompositionInv, HeardHappened
    <3>2. CASE s \notin queue
      BY <1>3, <1>6, <2>5, <2>6, <3>2
    <3> QED BY <3>1, <3>2
  <2> QED BY <1>2, <2>4, <2>6 DEF HeardHappened
<1> QED BY <1>9, <1>10, <1>11, <1>12, <1>13, <1>14, <1>15 DEF CompositionInv

LEMMA NextInv == CompositionInv /\ [Next]_vars => CompositionInv'
<1> SUFFICES ASSUME CompositionInv, [Next]_vars PROVE CompositionInv'
  OBVIOUS
<1>1. CASE UNCHANGED vars
  <2>1. uncaught' \in BOOLEAN
    BY <1>1 DEF vars, CompositionInv, TypeOK
  <2> QED BY <1>1, <2>1, QuietKeepsInv DEF vars
<1>2. CASE Await
  BY <1>2, AwaitReadyKeepsInv, AwaitSuspendsKeepsInv
<1>3. CASE Pause \/ Continue \/ MainCatches
  <2>1. /\ UNCHANGED <<kind, started, ended, failed, asked, round, remaining, open, queue>>
        /\ state' = state \/ (state # "waiting" /\ state' \in {"running", "paused"})
    BY <1>3 DEF Pause, Continue, MainCatches
  <2>2. uncaught' \in BOOLEAN
    BY <1>3 DEF Pause, Continue, MainCatches, CompositionInv, TypeOK
  <2> QED BY <2>1, <2>2, QuietKeepsInv
<1>4. ASSUME NEW p \in Procs, End(p, FALSE) PROVE CompositionInv'
  BY <1>4, EndKeepsInv
<1>5. ASSUME NEW p \in MayFail, End(p, TRUE) PROVE CompositionInv'
  <2>1. p \in Procs
    BY <1>5 DEF End, CompositionInv, TypeOK
  <2> QED BY <1>5, <2>1, EndKeepsInv
<1>6. ASSUME NEW t \in queue, Step(t) PROVE CompositionInv'
  BY <1>6, InvokeKeepsInv, LeavesTreeKeepsInv DEF Step
<1> QED BY <1>1, <1>2, <1>3, <1>4, <1>5, <1>6 DEF Next

-----------------------------------------------------------------------------
(* The inductive invariant: counts, tokens, requests and handlers tell the   *)
(* same story of the await under way and of those before it.                 *)
THEOREM Invariance == Spec => []CompositionInv
BY InitInv, NextInv, PTL DEF Spec

(* Every variable keeps its type; no handler's count falls below zero.       *)
THEOREM TypeCorrect == Spec => []TypeOK
<1>1. CompositionInv => TypeOK
  BY DEF CompositionInv
<1> QED BY <1>1, Invariance, PTL

(* Whatever the tree and its conditions, however often it is awaited while   *)
(* tokens of earlier awaits are left over, and whoever throws: each handler  *)
(* counts exactly the children it is still to hear of.                       *)
THEOREM CountsOutstandingHolds == Spec => []CountsOutstanding
<1>1. CompositionInv => CountsOutstanding
  BY DEF CompositionInv
<1> QED BY <1>1, Invariance, PTL

(* An await that suspends is resumed by one token and no other: the root's   *)
(* handler is open or its completion is scheduled, never both.               *)
THEOREM OneResumeHolds == Spec => []OneResume
<1>1. CompositionInv => OneResume
  <2> SUFFICES ASSUME CompositionInv PROVE OneResume
    OBVIOUS
  <2> DEFINE resumes == {t \in queue : t.to = Waiter}
             root == Token(Root, Waiter, round, FALSE)
  <2>1. root.of = Root /\ root.to = Waiter /\ root.r = round /\ Root \in Groups
    BY TreeAssumption DEF Token
  <2>2. \A t \in resumes : t = root /\ state = "waiting"
    BY DEF CompositionInv, TokensInv
  <2>3. root \in queue => <<round, Root>> \notin open
    BY <2>1 DEF CompositionInv, TokensInv
  <2>4. <<round, Root>> \in open => state = "waiting"
    <3> SUFFICES ASSUME <<round, Root>> \in open PROVE state = "waiting"
      OBVIOUS
    <3>1. <<round, Root>> \in Rounds \X Groups
      BY DEF CompositionInv, TypeOK, Handlers
    <3> QED BY <2>1, <3>1 DEF CompositionInv, OpenInv
  <2>5. state = "waiting" /\ <<round, Root>> \notin open => root \in resumes
    BY <2>1 DEF CompositionInv, WaitsForRoot
  <2> HIDE DEF root
  <2>6. CASE state # "waiting"
    BY <2>2, <2>4, <2>6 DEF OneResume
  <2>7. CASE state = "waiting" /\ <<round, Root>> \in open
    BY <2>2, <2>3, <2>7 DEF OneResume
  <2>8. CASE state = "waiting" /\ <<round, Root>> \notin open
    <3>1. resumes = {root}
      BY <2>2, <2>5, <2>8
    <3> QED BY <2>8, <3>1 DEF OneResume, root
  <2> QED BY <2>6, <2>7, <2>8
<1> QED BY <1>1, Invariance, PTL

(* If no child throws, a process whose tokens have all been processed waits  *)
(* only for what has not happened: the compositions that are not open are    *)
(* all that can have.                                                        *)
THEOREM NotForgottenHolds == Spec => []NotForgotten
<1>1. CompositionInv => NotForgotten
  <2> SUFFICES ASSUME CompositionInv, queue = {}, failed = {}, state = "waiting"
               PROVE  Root \notin Happened
    BY DEF NotForgotten
  <2> DEFINE S == {g \in Groups : <<round, g>> \notin open}
  <2>1. Root \notin S /\ Root \in Groups
    BY TreeAssumption DEF CompositionInv, WaitsForRoot
  <2>2. ASSUME NEW g \in Groups, <<round, g>> \in open PROVE g \notin HappenedWith(S)
    <3>1. round \in Rounds
      <4>1. <<round, g>> \in Rounds \X Groups
        BY <2>2 DEF CompositionInv, TypeOK, Handlers
      <4> QED BY <4>1
    <3>2. ~Met(g, remaining[<<round, g>>])
      BY <2>2, <3>1 DEF CompositionInv, OpenInv
    <3>3. \A n \in Outstanding(<<round, g>>) :
            n \in Children[g] /\ (n \in Procs \ ended \/ (n \in Groups /\ <<round, n>> \in open))
      BY OutstandingFact
    <3>4. \A n \in Outstanding(<<round, g>>) : n \in Children[g] /\ n \notin S \cup LeavesHappened
      BY <3>3, KindsAssumption DEF LeavesHappened, CompositionInv, TypeOK
    <3>5. IF kind[g] = "any_of" THEN Outstanding(<<round, g>>) = Children[g]
                                ELSE Outstanding(<<round, g>>) # {}
      BY <3>1, <3>2, CountsTyped DEF CompositionInv
    <3> QED BY <3>4, <3>5 DEF HappenedWith
  <2>3. HappenedWith(S) \subseteq S
    BY <2>2 DEF HappenedWith
  <2>4. Root \notin GroupsHappened
    BY <2>1, <2>3 DEF GroupsHappened
  <2> QED BY <2>1, <2>4, KindsAssumption DEF Happened, LeavesHappened, CompositionInv, TypeOK
<1> QED BY <1>1, Invariance, PTL

(* A process that awaits a tree goes on only when the tree has happened.     *)
THEOREM NotTooEarlyHolds == Spec => NotTooEarly
<1>1. CompositionInv /\ [Next]_vars => [state = "waiting" /\ state' # "waiting" => Root \in Happened]_vars
  <2> SUFFICES ASSUME CompositionInv, [Next]_vars, state = "waiting", state' # "waiting"
               PROVE  Root \in Happened
    OBVIOUS
  <2>1. PICK t \in queue : Resume(t)
    BY DEF Next, vars, Await, Pause, Continue, End, Step, Invoke, Report, MainCatches
  <2>2. t.to = Waiter
    BY <2>1 DEF Resume
  <2>3. t = Token(Root, Waiter, round, FALSE)
    BY <2>2 DEF CompositionInv, TokensInv
  <2>4. t.of = Root /\ t.r = round
    BY <2>3 DEF Token
  <2> QED BY <2>4, TreeAssumption DEF CompositionInv, HeardHappened
<1> QED BY <1>1, Invariance, PTL DEF Spec, NotTooEarly
===============================================================================
