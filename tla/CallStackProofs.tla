--------------------------- MODULE CallStackProofs ---------------------------
(* Proofs about CallStack, for every set of subroutine frames and any number *)
(* of waits.                                                                 *)
EXTENDS CallStack, TLAPS

USE FramesAssumption, WaitsAssumption DEF destruction

OnStack == {stack[i] : i \in 1..Len(stack)}

(* Where resume() is: it goes on while a call or a return has set            *)
(* should_continue_, and a token is out only when it does not.               *)
Settled == (token /\ ~complete) \/ (complete /\ ~token)
Machine ==
  /\ running # None => loop = "test" /\ ~again /\ ~token /\ ~complete
  /\ loop = "first" => running = None /\ ~token /\ ~complete
  /\ loop = "test" /\ running = None /\ again => ~token /\ ~complete
  /\ loop = "test" /\ running = None /\ ~again => Settled
  /\ loop = "out" => running = None /\ Settled

(* The frames of the stack: the coroutine's at the bottom, each of the others*)
(* owned by the one below it, none there twice.                              *)
Chain ==
  /\ stack # << >> /\ stack[1] = Main
  /\ \A i \in 2..Len(stack) : stack[i] \in Subs /\ owner[stack[i]] = stack[i - 1]
  /\ \A i, j \in 1..Len(stack) : stack[i] = stack[j] => i = j

(* Calls nest, as in CallsNest, and only what is on the stack is suspended,  *)
(* runs, or owns a frame that is there.                                      *)
Nested ==
  /\ \A i \in 1..Len(stack) - 1 :
       status[stack[i]] = "suspended" /\ awaits[stack[i]] = stack[i + 1]
  /\ status[Top] \in {"created", "suspended", "running"}
  /\ \A f \in Frames : /\ status[f] = "running" <=> running = f
                       /\ running = f => f = Top
                       /\ status[f] \in {"suspended", "running"} => f \in OnStack
  /\ status[Main] # "done"
  /\ \A s \in Subs : /\ status[s] \in {"none", "destroyed"} => owner[s] = None
                     /\ status[s] \in Held \cup {"running"} => owner[s] \in OnStack

(* A frame that was destroyed was destroyed once, and is the past; when the  *)
(* process is complete all are.                                              *)
Counts ==
  /\ \A f \in Frames : destroys[f] = IF status[f] = "destroyed" THEN 1 ELSE 0
  /\ complete => \A f \in Frames : status[f] \in {"none", "destroyed"}

(* What destroy() reaches from the coroutine's frame holds the whole stack.  *)
Reached ==
  \A S \in SUBSET Frames : Main \in S /\ ClosedUnderOwning(S) => OnStack \subseteq S

CallStackInv ==
  /\ TypeOK
  /\ Machine
  /\ ~complete => Chain /\ Nested /\ Reached
  /\ Counts

-----------------------------------------------------------------------------
(* The stack is the sequences' own business: its top, a push and a pop.      *)
LEMMA TopFact ==
  ASSUME TypeOK, stack # << >>
  PROVE  /\ Len(stack) \in Nat \ {0} /\ Top = stack[Len(stack)] /\ Top \in Frames
         /\ \A i \in 1..Len(stack) : stack[i] \in Frames
         /\ OnStack \subseteq Frames /\ Top \in OnStack
BY DEF TypeOK, Top, Last, OnStack

LEMMA PushFact ==
  ASSUME TypeOK, NEW s \in Frames, stack' = Append(stack, s)
  PROVE  /\ stack' \in Seq(Frames) /\ Len(stack') = Len(stack) + 1
         /\ \A i \in 1..Len(stack) : stack'[i] = stack[i]
         /\ stack'[Len(stack) + 1] = s
         /\ Top' = s /\ OnStack' = OnStack \cup {s}
<1>1. /\ stack' \in Seq(Frames) /\ Len(stack') = Len(stack) + 1
      /\ \A i \in 1..Len(stack) : stack'[i] = stack[i]
      /\ stack'[Len(stack) + 1] = s
  BY DEF TypeOK
<1>2. Top' = s
  BY <1>1 DEF Top, Last
<1>3. OnStack' = OnStack \cup {s}
  BY <1>1 DEF OnStack, TypeOK
<1> QED BY <1>1, <1>2, <1>3

LEMMA PopFact ==
  ASSUME TypeOK, Len(stack) > 1, stack' = Popped
  PROVE  /\ stack' \in Seq(Frames) /\ Len(stack') = Len(stack) - 1
         /\ \A i \in 1..Len(stack) - 1 : stack'[i] = stack[i]
         /\ Top' = stack[Len(stack) - 1]
         /\ OnStack' \subseteq OnStack /\ OnStack \subseteq OnStack' \cup {Top}
<1>1. /\ stack' \in Seq(Frames) /\ Len(stack') = Len(stack) - 1
      /\ \A i \in 1..Len(stack) - 1 : stack'[i] = stack[i]
  BY DEF TypeOK, Popped, Front
<1> stack \in Seq(Frames) /\ Len(stack) \in Nat
  BY DEF TypeOK
<1>2. Top' = stack[Len(stack) - 1]
  BY <1>1 DEF Top, Last
<1>3. OnStack' \subseteq OnStack
  BY <1>1 DEF OnStack
<1>4. OnStack \subseteq OnStack' \cup {Top}
  BY <1>1 DEF OnStack, Top, Last
<1> QED BY <1>1, <1>2, <1>3, <1>4

(* The coroutine's frame alone is on the stack, not yet resumed.             *)
LEMMA InitInv == Init => CallStackInv
<1> SUFFICES ASSUME Init PROVE CallStackInv
  OBVIOUS
<1>1. Len(stack) = 1 /\ stack[1] = Main /\ stack \in Seq(Frames) /\ OnStack = {Main}
  BY DEF Init, Frames, OnStack
<1>2. TypeOK
  <2>1. \A f \in Frames : status[f] # "done"
    BY DEF Init
  <2>2. Main \in Frames
    BY DEF Frames
  <2>3. status \in [Frames -> {"none", "running", "destroyed"} \cup Held]
    BY DEF Init, Held
  <2>4. awaits \in [Frames -> Subs \cup {None}] /\ owner \in [Subs -> Frames \cup {None}]
    BY DEF Init
  <2>5. again \in BOOLEAN /\ raised \in BOOLEAN /\ token \in BOOLEAN /\ complete \in BOOLEAN
    BY DEF Init
  <2> QED BY <1>1, <2>1, <2>2, <2>3, <2>4, <2>5 DEF Init, TypeOK, Contains
<1>3. Machine /\ Counts
  BY DEF Init, Machine, Settled, Counts
<1>4. Chain
  BY <1>1 DEF Chain, Init
<1>5. Nested
  BY <1>1 DEF Nested, Init, Held, Frames, Top, Last
<1>6. Reached
  BY <1>1 DEF Reached
<1> QED BY <1>2, <1>3, <1>4, <1>5, <1>6 DEF CallStackInv

(* What only depends on the stack and on who owns what stays as it is while  *)
(* they do.                                                                  *)
LEMMA StackStays ==
  ASSUME UNCHANGED <<stack, owner>>
  PROVE  /\ Top' = Top /\ OnStack' = OnStack
         /\ Chain => Chain'
         /\ Reached => Reached'
<1>1. Top' = Top /\ OnStack' = OnStack
  BY DEF Top, OnStack
<1>2. Chain => Chain'
  BY DEF Chain
<1>3. ASSUME Reached, NEW S \in SUBSET Frames, Main \in S, ClosedUnderOwning(S)'
      PROVE  OnStack' \subseteq S
  <2>1. ClosedUnderOwning(S)
    BY <1>3 DEF ClosedUnderOwning
  <2> QED BY <1>1, <1>3, <2>1 DEF Reached
<1>4. Reached => Reached'
  BY <1>3 DEF Reached
<1> QED BY <1>1, <1>2, <1>4

-----------------------------------------------------------------------------
(* Each operation preserves the invariant.                                   *)
LEMMA ResumeKeepsInv == CallStackInv /\ Resume => CallStackInv'
<1> SUFFICES ASSUME CallStackInv, Resume PROVE CallStackInv'
  OBVIOUS
<1>1. TypeOK' /\ Machine' /\ Counts'
  BY DEF CallStackInv, Resume, TypeOK, Machine, Settled, Counts
<1>2. ~complete' => Chain' /\ Nested' /\ Reached'
  BY StackStays DEF CallStackInv, Resume, Nested
<1> QED BY <1>1, <1>2 DEF CallStackInv

LEMMA TurnKeepsInv == CallStackInv /\ Turn => CallStackInv'
<1> SUFFICES ASSUME CallStackInv, Turn PROVE CallStackInv'
  OBVIOUS
<1>1. ~complete /\ ~token /\ Chain /\ Nested /\ Reached
  BY DEF CallStackInv, Turn, Machine
<1>2. Top \in Frames /\ Top \in OnStack /\ stack # << >>
  BY <1>1, TopFact DEF CallStackInv, Chain
<1>3. TypeOK'
  <2>1. raised' \in BOOLEAN
    BY DEF Turn
  <2>2. \A f \in Frames : status'[f] = "done" => ~Contains(stack, f)'
    BY <1>2 DEF CallStackInv, Turn, TypeOK, Contains
  <2> QED BY <1>2, <2>1, <2>2 DEF CallStackInv, Turn, TypeOK
<1>4. Machine' /\ Counts'
  <2>1. Machine'
    BY <1>1, <1>2 DEF Turn, Machine, Frames
  <2>2. \A f \in Frames : status'[f] = IF f = Top THEN "running" ELSE status[f]
    BY <1>2 DEF Turn, CallStackInv, TypeOK
  <2>3. status[Top] # "destroyed"
    BY <1>1 DEF Nested
  <2>4. \A f \in Frames : status'[f] = "destroyed" <=> status[f] = "destroyed"
    BY <2>2, <2>3
  <2> QED BY <1>1, <2>1, <2>4 DEF CallStackInv, Counts, Turn
<1>5. Chain' /\ Reached'
  BY <1>1, StackStays DEF Turn
<1>6. Nested'
  <2>1. \A i \in 1..Len(stack) - 1 : stack[i] # Top
    BY <1>1, <1>2, TopFact DEF Chain, CallStackInv
  <2> QED BY <1>1, <1>2, <2>1 DEF CallStackInv, TypeOK, Turn, Nested, Top, OnStack, Held
<1> QED BY <1>1, <1>3, <1>4, <1>5, <1>6 DEF CallStackInv

LEMMA ReturnKeepsInv == CallStackInv /\ Return => CallStackInv'
<1> SUFFICES ASSUME CallStackInv, Return PROVE CallStackInv'
  OBVIOUS
<1>1. TypeOK' /\ Machine' /\ Counts'
  BY DEF CallStackInv, Return, TypeOK, Machine, Settled, Counts
<1>2. ~complete' => Chain' /\ Nested' /\ Reached'
  BY StackStays DEF CallStackInv, Return, Nested
<1> QED BY <1>1, <1>2 DEF CallStackInv

(* What the frame that runs does, it does at the top of the stack; the       *)
(* frames it may discard or await are not there.                             *)
LEMMA RunsOnTop ==
  ASSUME CallStackInv, NEW f \in Frames, running = f
  PROVE  /\ ~complete /\ ~again /\ ~token /\ loop = "test" /\ Chain /\ Nested /\ Reached
         /\ f = Top /\ f \in OnStack /\ status[f] = "running"
         /\ stack \in Seq(Frames) /\ stack # << >> /\ Len(stack) \in Nat \ {0}
         /\ f = stack[Len(stack)]
         /\ \A s \in Subs : status[s] \in {"none", "created", "done", "destroyed"} => s \notin OnStack
<1>1. running # None
  BY DEF Frames
<1>2. ~complete /\ ~again /\ ~token /\ loop = "test" /\ Chain /\ Nested /\ Reached
  BY <1>1 DEF CallStackInv, Machine
<1>3. f = Top /\ f \in OnStack /\ status[f] = "running"
  BY <1>2 DEF Nested
<1>4. /\ stack \in Seq(Frames) /\ stack # << >> /\ Len(stack) \in Nat \ {0}
      /\ f = stack[Len(stack)]
  BY <1>2, <1>3, TopFact DEF CallStackInv, TypeOK, Chain
<1>5. ASSUME NEW s \in Subs, status[s] \in {"none", "created", "done", "destroyed"}, s \in OnStack
      PROVE  FALSE
  <2>1. PICK i \in 1..Len(stack) : s = stack[i]
    BY <1>5 DEF OnStack
  <2>2. i \in 1..Len(stack) - 1
    BY <1>3, <1>4, <1>5, <2>1
  <2> QED BY <1>2, <1>5, <2>1, <2>2 DEF Nested
<1> QED BY <1>2, <1>3, <1>4, <1>5

(* What destroying the frames of S does, seen frame by frame.                *)
LEMMA DestroyingFact ==
  ASSUME TypeOK, NEW S \in SUBSET Frames, Destroying(Once(S))
  PROVE  /\ destroys' \in [Frames -> Nat] /\ owner' \in [Subs -> Frames \cup {None}]
         /\ \A f \in Frames : destroys'[f] = IF f \in S THEN destroys[f] + 1 ELSE destroys[f]
         /\ \A s \in Subs : owner'[s] = IF s \in S THEN None ELSE owner[s]
         /\ Without(Once(S)) \in [Frames -> {"none", "running", "destroyed"} \cup Held]
         /\ \A f \in Frames : Without(Once(S))[f] = IF f \in S THEN "destroyed" ELSE status[f]
<1>1. \A f \in Frames : Once(S)[f] = IF f \in S THEN 1 ELSE 0
  BY DEF Once
<1>2. Subs \subseteq Frames
  BY DEF Frames
<1>3. \A f \in Frames : Once(S)[f] > 0 <=> f \in S
  BY <1>1
<1>4. \A s \in Subs : owner'[s] = IF s \in S THEN None ELSE owner[s]
  BY <1>2, <1>3 DEF Destroying
<1>5. owner' \in [Subs -> Frames \cup {None}]
  BY <1>4 DEF Destroying, TypeOK
<1>6. \A f \in Frames : destroys'[f] = IF f \in S THEN destroys[f] + 1 ELSE destroys[f]
  BY <1>1 DEF Destroying, TypeOK
<1>7. destroys' \in [Frames -> Nat]
  <2>1. \A f \in Frames : destroys'[f] \in Nat
    BY <1>6 DEF TypeOK
  <2> QED BY <2>1 DEF Destroying
<1>8. \A f \in Frames : Without(Once(S))[f] = IF f \in S THEN "destroyed" ELSE status[f]
  BY <1>3 DEF Without
<1>9. Without(Once(S)) \in [Frames -> {"none", "running", "destroyed"} \cup Held]
  BY <1>8 DEF Without, TypeOK
<1> QED BY <1>4, <1>5, <1>6, <1>7, <1>8, <1>9

(* Only frames of the stack own subroutine objects.                          *)
LEMMA OwnersOnStack ==
  ASSUME TypeOK, Nested, NEW s \in Subs
  PROVE  /\ owner[s] \in OnStack \cup {None}
         /\ owner[s] \in Frames => status[s] \in Held \cup {"running"}
<1>1. status[s] \in {"none", "running", "destroyed"} \cup Held /\ None \notin Frames
  BY DEF TypeOK, Frames
<1> QED BY <1>1 DEF Nested

LEMMA OwnsNothing ==
  ASSUME TypeOK, Nested, NEW s \in Subs, s \notin OnStack
  PROVE  OwnedFrom(s) = {s}
<1>1. s \in Frames /\ s # None
  BY DEF Frames
<1>2. \A g \in Subs : owner[g] # s
  BY <1>1, OwnersOnStack
<1>3. ClosedUnderOwning({s})
  BY <1>2 DEF ClosedUnderOwning
<1>4. s \in OwnedFrom(s)
  BY <1>1 DEF OwnedFrom
<1>5. \A g \in OwnedFrom(s) : g \in {s}
  BY <1>1, <1>3 DEF OwnedFrom
<1> QED BY <1>4, <1>5

LEMMA TopOwns ==
  ASSUME TypeOK, Chain, Nested, NEW f \in Frames, f = Top
  PROVE  /\ OwnedFrom(f) = {f} \cup {g \in Subs : owner[g] = f}
         /\ \A g \in Subs : owner[g] = f => g \notin OnStack
<1> DEFINE Own == {f} \cup {g \in Subs : owner[g] = f}
<1>1. Len(stack) \in Nat \ {0} /\ f = stack[Len(stack)]
  BY TopFact DEF Chain
<1>2. ASSUME NEW g \in Subs, owner[g] = f, g \in OnStack PROVE FALSE
  <2>1. PICK i \in 1..Len(stack) : g = stack[i]
    BY <1>2 DEF OnStack
  <2>2. i # 1
    BY <2>1 DEF Chain
  <2>3. i \in 2..Len(stack) /\ i - 1 \in 1..Len(stack) /\ i - 1 # Len(stack)
    BY <1>1, <2>2
  <2>4. stack[i - 1] = stack[Len(stack)]
    BY <1>1, <1>2, <2>1, <2>3 DEF Chain
  <2> QED BY <1>1, <2>3, <2>4 DEF Chain
<1>3. ASSUME NEW s \in Subs, owner[s] \in Own PROVE s \in Own
  <2>1. CASE owner[s] = f
    BY <2>1
  <2>2. CASE owner[s] # f
    <3>1. owner[s] \in Subs /\ owner[owner[s]] = f
      BY <1>3, <2>2
    <3>2. owner[s] \notin OnStack /\ owner[s] # None
      BY <1>2, <3>1
    <3> QED BY <3>2, OwnersOnStack
  <2> QED BY <2>1, <2>2
<1>4. ClosedUnderOwning(Own) /\ Own \in SUBSET Frames /\ f \in Own
  BY <1>3 DEF ClosedUnderOwning, Frames
<1>5. \A g \in OwnedFrom(f) : g \in Own
  <2> HIDE DEF Own
  <2> QED BY <1>4 DEF OwnedFrom
<1>6. \A g \in Own : g \in OwnedFrom(f)
  BY <1>4 DEF OwnedFrom, ClosedUnderOwning
<1> QED BY <1>2, <1>5, <1>6

(* Destroying objects that are not awaited leaves the stack reached.         *)
LEMMA ReachedStays ==
  ASSUME TypeOK, Nested, Reached, NEW Gone \in SUBSET Subs, Gone \cap OnStack = {},
         OnStack' \subseteq OnStack,
         \A s \in Subs : owner'[s] = IF s \in Gone THEN None ELSE owner[s]
  PROVE  Reached'
<1> SUFFICES ASSUME NEW S \in SUBSET Frames, Main \in S, ClosedUnderOwning(S)'
             PROVE  OnStack' \subseteq S
  BY DEF Reached
<1>1. ASSUME NEW s \in Subs, owner[s] \in S \cup Gone PROVE s \in S \cup Gone
  <2>1. CASE s \in Gone
    BY <2>1
  <2>2. CASE s \notin Gone
    <3>1. owner[s] \in Frames /\ owner[s] # None
      BY <1>1 DEF Frames
    <3>2. owner[s] \notin Gone
      BY <3>1, OwnersOnStack
    <3> QED BY <1>1, <2>2, <3>2 DEF ClosedUnderOwning
  <2> QED BY <2>1, <2>2
<1>2. ClosedUnderOwning(S \cup Gone) /\ S \cup Gone \in SUBSET Frames
  BY <1>1 DEF ClosedUnderOwning, Frames
<1>3. OnStack \subseteq S \cup Gone
  BY <1>2 DEF Reached
<1> QED BY <1>3

LEMMA CreateKeepsInv ==
  ASSUME CallStackInv, NEW f \in Frames, NEW s \in Subs, Create(f, s)
  PROVE  CallStackInv'
<1>1. running = f /\ status[s] = "none"
  BY DEF Create, Runs
<1>2. /\ ~complete /\ Chain /\ Nested /\ Reached /\ f \in OnStack
      /\ s \notin OnStack /\ s \in Frames
  BY <1>1, RunsOnTop DEF Frames
<1>3. TypeOK'
  BY <1>1, <1>2 DEF CallStackInv, TypeOK, Create, Contains, OnStack, Held
<1>4. Machine' /\ Counts'
  BY <1>2 DEF CallStackInv, Machine, Settled, Counts, Create
<1>5. OnStack' = OnStack /\ Top' = Top
  BY DEF Create, OnStack, Top
<1>6. Chain'
  BY <1>2 DEF Create, Chain, OnStack, CallStackInv, TypeOK
<1>7. Nested'
  <2>1. \A i \in 1..Len(stack) : stack[i] # s
    BY <1>2 DEF OnStack
  <2>2. Top \in OnStack
    BY <1>2, TopFact DEF Chain, CallStackInv
  <2> QED BY <1>1, <1>2, <1>5, <2>1, <2>2 DEF Create, Nested, CallStackInv, TypeOK, Held, Frames
<1>8. Reached'
  <2> SUFFICES ASSUME NEW S \in SUBSET Frames, Main \in S, ClosedUnderOwning(S)'
               PROVE  OnStack \subseteq S
    BY <1>5 DEF Reached
  <2>1. owner[s] = None /\ None \notin Frames
    BY <1>1, <1>2 DEF Nested, Frames
  <2>2. ClosedUnderOwning(S)
    BY <2>1 DEF ClosedUnderOwning, Create, CallStackInv, TypeOK
  <2> QED BY <1>2, <2>2 DEF Reached
<1> QED BY <1>2, <1>3, <1>4, <1>6, <1>7, <1>8 DEF CallStackInv

LEMMA AwaitKeepsInv ==
  ASSUME CallStackInv, NEW f \in Frames, NEW s \in Subs, Await(f, s)
  PROVE  CallStackInv'
<1>1. running = f /\ status[s] = "created" /\ owner[s] = f /\ stack' = Append(stack, s)
  BY DEF Await, Runs
<1>2. /\ ~complete /\ ~token /\ loop = "test" /\ Chain /\ Nested /\ Reached
      /\ f = Top /\ f \in OnStack /\ status[f] = "running"
      /\ stack \in Seq(Frames) /\ Len(stack) \in Nat \ {0} /\ f = stack[Len(stack)]
      /\ s \notin OnStack /\ s \in Frames /\ f # s
  BY <1>1, RunsOnTop DEF Frames
<1>3. /\ stack' \in Seq(Frames) /\ Len(stack') = Len(stack) + 1
      /\ \A i \in 1..Len(stack) : stack'[i] = stack[i] /\ stack[i] # s
      /\ stack'[Len(stack) + 1] = s
      /\ Top' = s /\ OnStack' = OnStack \cup {s}
  BY <1>1, <1>2, PushFact DEF CallStackInv, OnStack
<1>4. TypeOK'
  <2>1. \A g \in Frames : status'[g] = "done" => g \notin OnStack'
    BY <1>1, <1>2, <1>3 DEF Await, CallStackInv, TypeOK, Contains, OnStack
  <2>2. \A g \in Frames : status'[g] = "done" => ~Contains(stack, g)'
    BY <2>1 DEF Contains, OnStack
  <2>3. status' \in [Frames -> {"none", "running", "destroyed"} \cup Held]
    BY DEF Await, CallStackInv, TypeOK, Held
  <2> QED BY <1>3, <2>2, <2>3 DEF CallStackInv, TypeOK, Await, GoesOn
<1>5. Machine' /\ Counts'
  BY <1>2 DEF CallStackInv, Machine, Counts, Await, GoesOn
<1>6. Chain'
  <2>1. stack' # << >> /\ stack'[1] = Main
    BY <1>2, <1>3 DEF Chain
  <2>2. \A i \in 2..Len(stack') : stack'[i] \in Subs /\ owner'[stack'[i]] = stack'[i - 1]
    BY <1>1, <1>2, <1>3 DEF Chain, Await
  <2>3. \A i, j \in 1..Len(stack') : stack'[i] = stack'[j] => i = j
    BY <1>2, <1>3 DEF Chain
  <2> QED BY <2>1, <2>2, <2>3 DEF Chain
<1>7. Nested'
  <2>1. \A i \in 1..Len(stack') - 1 :
          status'[stack'[i]] = "suspended" /\ awaits'[stack'[i]] = stack'[i + 1]
    <3> SUFFICES ASSUME NEW i \in 1..Len(stack)
                 PROVE  status'[stack[i]] = "suspended" /\ awaits'[stack[i]] = stack'[i + 1]
      BY <1>2, <1>3
    <3>1. CASE i = Len(stack)
      BY <1>2, <1>3, <3>1 DEF Await, CallStackInv, TypeOK
    <3>2. CASE i # Len(stack)
      <4>1. stack[i] # f /\ stack[i] \in Frames /\ i \in 1..Len(stack) - 1
        BY <1>2, <3>2 DEF Chain
      <4> QED BY <1>2, <1>3, <4>1 DEF Nested, Await, CallStackInv, TypeOK
    <3> QED BY <3>1, <3>2
  <2>2. status'[s] = "created"
    BY <1>1, <1>2 DEF Await, CallStackInv, TypeOK
  <2> QED BY <1>1, <1>2, <1>3, <2>1, <2>2 DEF Nested, Await, CallStackInv, TypeOK, Held, Frames
<1>8. Reached'
  <2> SUFFICES ASSUME NEW S \in SUBSET Frames, Main \in S, ClosedUnderOwning(S)'
               PROVE  OnStack' \subseteq S
    BY DEF Reached
  <2>1. ClosedUnderOwning(S)
    BY DEF ClosedUnderOwning, Await
  <2>2. OnStack \subseteq S
    BY <1>2, <2>1 DEF Reached
  <2>3. s \in S
    BY <1>1, <1>2, <2>1, <2>2 DEF ClosedUnderOwning, Await
  <2> QED BY <1>3, <2>2, <2>3
<1> QED BY <1>2, <1>4, <1>5, <1>6, <1>7, <1>8 DEF CallStackInv, Await

LEMMA AwaitDoneKeepsInv ==
  ASSUME CallStackInv, NEW f \in Frames, NEW s \in Subs, AwaitDone(f, s)
  PROVE  CallStackInv'
<1>1. raised' \in BOOLEAN
  BY DEF AwaitDone
<1>2. TypeOK'
  BY <1>1 DEF AwaitDone, CallStackInv, TypeOK, Contains
<1>3. Machine' /\ Counts'
  BY DEF AwaitDone, CallStackInv, Machine, Settled, Counts
<1>4. ~complete' => Chain' /\ Nested' /\ Reached'
  BY StackStays DEF AwaitDone, CallStackInv, Nested
<1> QED BY <1>2, <1>3, <1>4 DEF CallStackInv

LEMMA CatchKeepsInv == CallStackInv /\ Catch => CallStackInv'
<1> SUFFICES ASSUME CallStackInv, Catch PROVE CallStackInv'
  OBVIOUS
<1>1. TypeOK' /\ Machine' /\ Counts'
  BY DEF Catch, CallStackInv, TypeOK, Contains, Machine, Settled, Counts
<1>2. ~complete' => Chain' /\ Nested' /\ Reached'
  BY StackStays DEF Catch, CallStackInv, Nested
<1> QED BY <1>1, <1>2 DEF CallStackInv

LEMMA WaitKeepsInv ==
  ASSUME CallStackInv, NEW f \in Frames, Wait(f)
  PROVE  CallStackInv'
<1>1. running = f
  BY DEF Wait, Runs
<1>2. /\ ~complete /\ ~again /\ loop = "test" /\ Chain /\ Nested /\ Reached
      /\ f = Top /\ f \in OnStack /\ Len(stack) \in Nat \ {0} /\ f = stack[Len(stack)]
      /\ status[f] = "running"
  BY <1>1, RunsOnTop
<1>3. TypeOK'
  BY DEF Wait, CallStackInv, TypeOK, Contains, Held
<1>4. Machine' /\ Counts'
  <2>1. Machine'
    BY <1>2 DEF Wait, CallStackInv, Machine, Settled
  <2>2. \A g \in Frames : status'[g] = "destroyed" <=> status[g] = "destroyed"
    BY <1>2 DEF Wait, CallStackInv, TypeOK
  <2> QED BY <1>2, <2>1, <2>2 DEF CallStackInv, Counts, Wait
<1>5. Chain' /\ Reached'
  BY <1>2, StackStays DEF Wait
<1>6. Nested'
  <2>1. OnStack' = OnStack /\ Top' = Top
    BY DEF Wait, OnStack, Top
  <2>2. \A g \in Frames : status'[g] = IF g = f THEN "suspended" ELSE status[g]
    BY DEF Wait, CallStackInv, TypeOK
  <2>3. \A i \in 1..Len(stack) - 1 :
          status'[stack[i]] = "suspended" /\ awaits'[stack[i]] = stack[i + 1]
    <3>1. \A i \in 1..Len(stack) - 1 : stack[i] \in Frames
      BY <1>2, TopFact DEF Chain, CallStackInv
    <3> QED BY <1>2, <2>2, <3>1 DEF Wait, Nested
  <2>4. \A g \in Frames : /\ status'[g] = "running" <=> running' = g
                          /\ running' # g
                          /\ status'[g] \in {"suspended", "running"} => g \in OnStack'
    BY <1>1, <1>2, <2>1, <2>2 DEF Wait, Nested, Frames
  <2>5. status'[Main] # "done" /\ status'[Top] = "suspended"
    BY <1>2, <2>2 DEF Nested, Frames
  <2>6. \A s \in Subs : /\ status'[s] \in {"none", "destroyed"} => owner'[s] = None
                        /\ status'[s] \in Held \cup {"running"} => owner'[s] \in OnStack'
    BY <1>1, <1>2, <2>1, <2>2 DEF Wait, destruction, Nested, Held, Frames
  <2> QED BY <2>1, <2>3, <2>4, <2>5, <2>6 DEF Nested, Wait
<1> QED BY <1>2, <1>3, <1>4, <1>5, <1>6 DEF CallStackInv

LEMMA DiscardKeepsInv ==
  ASSUME CallStackInv, NEW f \in Frames, NEW s \in Subs, Discard(f, s)
  PROVE  CallStackInv'
<1>1. running = f /\ status[s] \in {"created", "done"}
  BY DEF Discard, Runs
<1>2. /\ TypeOK /\ ~complete /\ Chain /\ Nested /\ Reached /\ stack # << >>
      /\ s \notin OnStack /\ s \in Frames /\ {s} \in SUBSET Frames
  BY <1>1, RunsOnTop DEF Frames, CallStackInv
<1>3. /\ Destroying(Once({s})) /\ status' = Without(Once({s}))
      /\ UNCHANGED <<stack, again, loop, running, raised, awaits, threw, token, complete, waits>>
  BY <1>2, OwnsNothing DEF Discard
<1>4. /\ destroys' \in [Frames -> Nat] /\ owner' \in [Subs -> Frames \cup {None}]
      /\ status' \in [Frames -> {"none", "running", "destroyed"} \cup Held]
      /\ \A g \in Frames : destroys'[g] = IF g = s THEN destroys[g] + 1 ELSE destroys[g]
      /\ \A g \in Subs : owner'[g] = IF g = s THEN None ELSE owner[g]
      /\ \A g \in Frames : status'[g] = IF g = s THEN "destroyed" ELSE status[g]
  <2> DEFINE Gone == {s}
  <2>1. /\ TypeOK /\ Gone \in SUBSET Frames
        /\ Destroying(Once(Gone)) /\ status' = Without(Once(Gone))
    BY <1>2, <1>3
  <2> HIDE DEF Gone
  <2>2. /\ destroys' \in [Frames -> Nat] /\ owner' \in [Subs -> Frames \cup {None}]
        /\ status' \in [Frames -> {"none", "running", "destroyed"} \cup Held]
        /\ \A g \in Frames : destroys'[g] = IF g \in Gone THEN destroys[g] + 1 ELSE destroys[g]
        /\ \A g \in Subs : owner'[g] = IF g \in Gone THEN None ELSE owner[g]
        /\ \A g \in Frames : status'[g] = IF g \in Gone THEN "destroyed" ELSE status[g]
    BY <2>1, DestroyingFact
  <2> QED BY <2>2 DEF Gone
<1>5. TypeOK'
  BY <1>3, <1>4 DEF CallStackInv, TypeOK, Contains
<1>6. Machine'
  BY <1>2, <1>3 DEF CallStackInv, Machine, Settled
<1>7. Counts'
  <2>1. \A g \in Frames : destroys[g] = IF status[g] = "destroyed" THEN 1 ELSE 0
    BY DEF CallStackInv, Counts
  <2>2. \A g \in Frames : destroys'[g] = IF status'[g] = "destroyed" THEN 1 ELSE 0
    BY <1>1, <1>4, <2>1
  <2> QED BY <1>2, <1>3, <2>2 DEF Counts
<1>8. OnStack' = OnStack /\ Top' = Top
  BY <1>3 DEF OnStack, Top
<1>9. \A i \in 1..Len(stack) : stack[i] # s
  BY <1>2 DEF OnStack
<1>10. Chain'
  BY <1>2, <1>3, <1>4, <1>9 DEF Chain
<1>11. Nested'
  <2>1. /\ Top # s /\ Top \in Frames /\ Len(stack) \in Nat
        /\ \A i \in 1..Len(stack) : stack[i] \in Frames
    BY <1>2, TopFact
  <2>2. \A i \in 1..Len(stack) - 1 :
          status'[stack[i]] = "suspended" /\ awaits'[stack[i]] = stack[i + 1]
    <3> SUFFICES ASSUME NEW i \in 1..Len(stack) - 1
                 PROVE  status'[stack[i]] = "suspended" /\ awaits'[stack[i]] = stack[i + 1]
      OBVIOUS
    <3>1. stack[i] \in Frames /\ stack[i] # s
      BY <1>9, <2>1
    <3> QED BY <1>2, <1>3, <1>4, <3>1 DEF Nested
  <2>3. status'[Top] \in {"created", "suspended", "running"}
    BY <1>2, <1>4, <2>1 DEF Nested
  <2>4. \A g \in Frames : /\ status'[g] = "running" <=> running = g
                          /\ running = g => g = Top
                          /\ status'[g] \in {"suspended", "running"} => g \in OnStack
    BY <1>1, <1>2, <1>4 DEF Nested
  <2>5. status'[Main] # "done"
    BY <1>2, <1>4 DEF Nested, Frames
  <2>6. \A g \in Subs : /\ status'[g] \in {"none", "destroyed"} => owner'[g] = None
                        /\ status'[g] \in Held \cup {"running"} => owner'[g] \in OnStack
    BY <1>2, <1>4 DEF Nested, Held, Frames
  <2> QED BY <1>3, <1>8, <2>2, <2>3, <2>4, <2>5, <2>6 DEF Nested
<1>12. Reached'
  <2>1. {s} \in SUBSET Subs /\ {s} \cap OnStack = {}
    BY <1>2
  <2>2. \A g \in Subs : owner'[g] = IF g \in {s} THEN None ELSE owner[g]
    BY <1>4
  <2> QED BY <1>2, <1>8, <2>1, <2>2, ReachedStays
<1> QED BY <1>5, <1>6, <1>7, <1>10, <1>11, <1>12 DEF CallStackInv

(* A subroutine returns to the frame below it.                               *)
LEMMA SubReturnsKeepsInv ==
  ASSUME CallStackInv, NEW f \in Subs, NEW throws \in BOOLEAN, EndBody(f, throws)
  PROVE  CallStackInv'
<1>1. running = f /\ f \in Frames /\ f # Main
  BY DEF EndBody, Frames
<1>2. /\ ~complete /\ ~token /\ loop = "test" /\ Chain /\ Nested /\ Reached
      /\ f = Top /\ f \in OnStack /\ stack # << >>
      /\ stack \in Seq(Frames) /\ Len(stack) \in Nat \ {0} /\ f = stack[Len(stack)]
  BY <1>1, RunsOnTop
<1>3. Len(stack) > 1
  BY <1>1, <1>2 DEF Chain
<1> DEFINE Gone == {g \in Subs : owner[g] = f}
<1>4. /\ stack' = Popped /\ running' = None /\ raised' = FALSE /\ again' = TRUE /\ complete' = FALSE
      /\ Destroying(Once(Gone)) /\ status' = [Without(Once(Gone)) EXCEPT ![f] = "done"]
      /\ f \notin Gone /\ Gone \cap OnStack = {}
      /\ UNCHANGED <<loop, awaits, token, waits>>
  <2>1. OwnedFrom(f) = {f} \cup Gone /\ \A g \in Gone : g \notin OnStack
    BY <1>1, <1>2, TopOwns DEF CallStackInv
  <2>2. f \notin Gone /\ Gone \cap OnStack = {}
    BY <1>2, <2>1
  <2>3. OwnedFrom(f) \ {f} = Gone
    BY <2>1, <2>2
  <2>4. Ended(f) = Once(Gone)
    BY <1>1, <2>3 DEF Ended
  <2> QED BY <1>1, <2>2, <2>4 DEF EndBody, Stacked
<1>5. /\ stack' \in Seq(Frames) /\ Len(stack') = Len(stack) - 1
      /\ \A i \in 1..Len(stack) - 1 : stack'[i] = stack[i]
      /\ Top' = stack[Len(stack) - 1]
      /\ OnStack' \subseteq OnStack /\ OnStack \subseteq OnStack' \cup {f}
  BY <1>2, <1>3, <1>4, PopFact DEF CallStackInv
<1>6. /\ destroys' \in [Frames -> Nat] /\ owner' \in [Subs -> Frames \cup {None}]
      /\ status' \in [Frames -> {"none", "running", "destroyed"} \cup Held]
      /\ \A g \in Frames : destroys'[g] = IF g \in Gone THEN destroys[g] + 1 ELSE destroys[g]
      /\ \A g \in Subs : owner'[g] = IF g \in Gone THEN None ELSE owner[g]
      /\ \A g \in Frames : status'[g] = IF g = f THEN "done"
                                         ELSE IF g \in Gone THEN "destroyed" ELSE status[g]
  <2>1. Gone \in SUBSET Frames
    BY DEF Frames
  <2> HIDE DEF Gone
  <2>2. /\ destroys' \in [Frames -> Nat] /\ owner' \in [Subs -> Frames \cup {None}]
        /\ Without(Once(Gone)) \in [Frames -> {"none", "running", "destroyed"} \cup Held]
        /\ \A g \in Frames : destroys'[g] = IF g \in Gone THEN destroys[g] + 1 ELSE destroys[g]
        /\ \A g \in Subs : owner'[g] = IF g \in Gone THEN None ELSE owner[g]
        /\ \A g \in Frames : Without(Once(Gone))[g] = IF g \in Gone THEN "destroyed" ELSE status[g]
    BY <1>4, <2>1, DestroyingFact DEF CallStackInv
  <2>3. status' \in [Frames -> {"none", "running", "destroyed"} \cup Held]
    BY <1>1, <1>4, <2>2 DEF Held
  <2> QED BY <1>1, <1>4, <2>2, <2>3
<1>7. f \notin OnStack'
  <2>1. \A i \in 1..Len(stack) - 1 : stack[i] # f
    BY <1>2 DEF Chain
  <2> QED BY <1>2, <1>5, <2>1 DEF OnStack
<1>8. TypeOK'
  <2>1. status' \in [Frames -> {"none", "running", "destroyed"} \cup Held]
    BY <1>6
  <2>2. \A g \in Frames : status'[g] = "done" => g \notin OnStack'
    <3>1. \A g \in Frames : status[g] = "done" => g \notin OnStack
      BY DEF CallStackInv, TypeOK, Contains, OnStack
    <3> HIDE DEF Gone
    <3> QED BY <1>5, <1>6, <1>7, <3>1
  <2>3. \A g \in Frames : status'[g] = "done" => ~Contains(stack, g)'
    BY <2>2 DEF Contains, OnStack
  <2>4. threw' \subseteq Subs
    BY DEF EndBody, CallStackInv, TypeOK
  <2>5. again' \in BOOLEAN /\ raised' \in BOOLEAN /\ token' \in BOOLEAN /\ complete' \in BOOLEAN
    BY <1>4 DEF CallStackInv, TypeOK
  <2> QED BY <1>4, <1>5, <1>6, <2>1, <2>3, <2>4, <2>5 DEF CallStackInv, TypeOK, Contains
<1>9. Machine' /\ Counts'
  <2>1. Machine'
    BY <1>2, <1>4 DEF CallStackInv, Machine
  <2>2. \A g \in Gone : g \in Frames /\ status[g] # "destroyed"
    BY <1>1, <1>2, OwnersOnStack DEF CallStackInv, Held, Frames
  <2>3. status[f] # "destroyed"
    BY <1>1, <1>2 DEF Nested
  <2>4. \A g \in Frames : destroys[g] = IF status[g] = "destroyed" THEN 1 ELSE 0
    BY DEF CallStackInv, Counts
  <2> HIDE DEF Gone
  <2>5. \A g \in Frames : destroys'[g] = IF status'[g] = "destroyed" THEN 1 ELSE 0
    BY <1>4, <1>6, <2>2, <2>3, <2>4
  <2> QED BY <1>4, <2>1, <2>5 DEF Counts
<1>10. Chain'
  <2>1. stack' # << >> /\ stack'[1] = Main
    BY <1>2, <1>3, <1>5 DEF Chain
  <2>2. \A i \in 2..Len(stack') : stack'[i] \in Subs /\ owner'[stack'[i]] = stack'[i - 1]
    <3> SUFFICES ASSUME NEW i \in 2..Len(stack) - 1
                 PROVE  stack'[i] \in Subs /\ owner'[stack'[i]] = stack'[i - 1]
      BY <1>2, <1>5
    <3>1. i \in 1..Len(stack) - 1 /\ i - 1 \in 1..Len(stack) - 1 /\ i \in 2..Len(stack)
      BY <1>2
    <3>2. stack[i] \in OnStack
      BY <1>2, <3>1 DEF OnStack
    <3>3. stack[i] \notin Gone
      BY <1>4, <3>2
    <3>4. stack[i] \in Subs /\ owner[stack[i]] = stack[i - 1]
      BY <1>2, <3>1 DEF Chain
    <3> HIDE DEF Gone
    <3> QED BY <1>5, <1>6, <3>1, <3>3, <3>4
  <2>3. \A i, j \in 1..Len(stack') : stack'[i] = stack'[j] => i = j
    BY <1>2, <1>5 DEF Chain
  <2> QED BY <2>1, <2>2, <2>3 DEF Chain
<1>11. Nested'
  <2>1. \A i \in 1..Len(stack) - 1 :
          status[stack[i]] = "suspended" /\ status'[stack[i]] = "suspended"
    <3> SUFFICES ASSUME NEW i \in 1..Len(stack) - 1
                 PROVE  status[stack[i]] = "suspended" /\ status'[stack[i]] = "suspended"
      OBVIOUS
    <3>1. stack[i] \in Frames /\ status[stack[i]] = "suspended"
      BY <1>2 DEF Nested
    <3>2. stack[i] # f
      BY <1>1, <1>2, <3>1 DEF Nested
    <3>3. stack[i] \notin Gone
      BY <1>2, <1>4 DEF OnStack
    <3> HIDE DEF Gone
    <3> QED BY <1>6, <3>1, <3>2, <3>3
  <2>2. \A i \in 1..Len(stack') - 1 :
          status'[stack'[i]] = "suspended" /\ awaits'[stack'[i]] = stack'[i + 1]
    <3> HIDE DEF Gone
    <3>0. 1..Len(stack') - 1 = 1..Len(stack) - 2
      BY <1>2, <1>5
    <3> SUFFICES ASSUME NEW i \in 1..Len(stack) - 2
                 PROVE  status'[stack'[i]] = "suspended" /\ awaits'[stack'[i]] = stack'[i + 1]
      BY <3>0
    <3>1. i \in 1..Len(stack) - 1 /\ i + 1 \in 1..Len(stack) - 1
      BY <1>2
    <3> QED BY <1>2, <1>4, <1>5, <2>1, <3>1 DEF Nested
  <2>3. status'[Top'] = "suspended"
    BY <1>2, <1>3, <1>5, <2>1
  <2>4. \A g \in Frames : /\ status'[g] # "running" /\ running' # g
                          /\ status'[g] = "suspended" => g \in OnStack'
    <3>1. None \notin Frames
      BY DEF Frames
    <3> HIDE DEF Gone
    <3>2. \A g \in Frames : /\ status[g] = "running" => g = f
                            /\ status[g] = "suspended" => g \in OnStack
      BY <1>1, <1>2 DEF Nested
    <3> QED BY <1>1, <1>2, <1>4, <1>5, <1>6, <3>1, <3>2
  <2>5. status'[Main] # "done"
    BY <1>1, <1>2, <1>6 DEF Nested, Frames
  <2>6. \A s \in Subs : /\ status'[s] \in {"none", "destroyed"} => owner'[s] = None
                        /\ status'[s] \in Held \cup {"running"} => owner'[s] \in OnStack'
    <3> SUFFICES ASSUME NEW s \in Subs
                 PROVE  /\ status'[s] \in {"none", "destroyed"} => owner'[s] = None
                        /\ status'[s] \in Held \cup {"running"} => owner'[s] \in OnStack'
      OBVIOUS
    <3>1. s \in Frames /\ (s = f => owner[s] \in OnStack')
      <4>1. owner[f] = stack'[Len(stack) - 1]
        BY <1>2, <1>3, <1>5 DEF Chain
      <4> QED BY <1>3, <1>5, <4>1 DEF Frames, OnStack
    <3>2. CASE s \in Gone
      BY <1>4, <1>6, <3>1, <3>2 DEF Held
    <3>3. CASE s \notin Gone
      <4>1. owner[s] # f
        BY <3>3
      <4> HIDE DEF Gone
      <4> QED BY <1>2, <1>5, <1>6, <3>1, <3>3, <4>1 DEF Nested, Held
    <3> QED BY <3>2, <3>3
  <2> QED BY <2>2, <2>3, <2>4, <2>5, <2>6 DEF Nested
<1>12. Reached'
  <2>1. Gone \in SUBSET Subs
    OBVIOUS
  <2> HIDE DEF Gone
  <2> QED BY <1>2, <1>4, <1>5, <1>6, <2>1, ReachedStays DEF CallStackInv
<1> QED BY <1>8, <1>9, <1>10, <1>11, <1>12 DEF CallStackInv

(* The coroutine returns: its frame alone is on the stack, so all that is    *)
(* still there is its own, and goes with it.                                 *)
LEMMA MainReturnsKeepsInv ==
  ASSUME CallStackInv, NEW throws \in BOOLEAN, EndBody(Main, throws)
  PROVE  CallStackInv'
<1>1. running = Main /\ Main \in Frames
  BY DEF EndBody, Frames
<1>2. /\ ~complete /\ ~token /\ loop = "test" /\ Chain /\ Nested
      /\ Len(stack) \in Nat \ {0} /\ Main = stack[Len(stack)] /\ Main = Top
      /\ status[Main] = "running"
  BY <1>1, RunsOnTop
<1>3. OnStack = {Main}
  <2>1. stack[1] = Main /\ \A i, j \in 1..Len(stack) : stack[i] = stack[j] => i = j
    BY <1>2 DEF Chain
  <2>2. 1 \in 1..Len(stack) /\ Len(stack) \in 1..Len(stack) /\ stack[Len(stack)] = Main
    BY <1>2
  <2>3. Len(stack) = 1
    BY <2>1, <2>2
  <2>4. 1..Len(stack) = {1}
    BY <2>3
  <2> QED BY <2>1, <2>4 DEF OnStack
<1> DEFINE Gone == OwnedFrom(Main)
<1>4. /\ running' = None /\ raised' = FALSE /\ again' = FALSE /\ complete' = TRUE
      /\ Destroying(Once(Gone)) /\ status' = [Without(Once(Gone)) EXCEPT ![Main] = "destroyed"]
      /\ UNCHANGED <<stack, threw, loop, awaits, token, waits>>
  BY DEF EndBody, Stacked, Ended
<1>5. Gone \in SUBSET Frames /\ Gone = {Main} \cup {g \in Subs : owner[g] = Main}
  BY <1>1, <1>2, TopOwns DEF CallStackInv, OwnedFrom
<1>6. /\ destroys' \in [Frames -> Nat] /\ owner' \in [Subs -> Frames \cup {None}]
      /\ status' \in [Frames -> {"none", "running", "destroyed"} \cup Held]
      /\ \A g \in Frames : destroys'[g] = IF g \in Gone THEN destroys[g] + 1 ELSE destroys[g]
      /\ \A g \in Frames : status'[g] = IF g \in Gone THEN "destroyed" ELSE status[g]
  <2>1. Main \in Gone
    BY <1>5
  <2> HIDE DEF Gone
  <2>2. /\ destroys' \in [Frames -> Nat] /\ owner' \in [Subs -> Frames \cup {None}]
        /\ Without(Once(Gone)) \in [Frames -> {"none", "running", "destroyed"} \cup Held]
        /\ \A g \in Frames : destroys'[g] = IF g \in Gone THEN destroys[g] + 1 ELSE destroys[g]
        /\ \A g \in Frames : Without(Once(Gone))[g] = IF g \in Gone THEN "destroyed" ELSE status[g]
    BY <1>4, <1>5, DestroyingFact DEF CallStackInv
  <2> QED BY <1>1, <1>4, <2>1, <2>2
<1>7. \A g \in Frames : g \in Gone <=> status[g] \notin {"none", "destroyed"}
  <2> SUFFICES ASSUME NEW g \in Frames
               PROVE  g \in Gone <=> status[g] \notin {"none", "destroyed"}
    OBVIOUS
  <2>1. CASE g = Main
    BY <1>2, <1>5, <2>1 DEF Nested
  <2>2. CASE g # Main
    <3>1. g \in Subs /\ status[g] # "running" /\ Main # None
      BY <1>1, <1>2, <2>2 DEF Nested, Frames
    <3>2. status[g] \in Held => owner[g] = Main
      BY <1>2, <1>3, <3>1 DEF Nested
    <3>3. status[g] \in {"none", "running", "destroyed"} \cup Held
      BY DEF CallStackInv, TypeOK
    <3>4. status[g] \in {"none", "destroyed"} => owner[g] = None
      BY <1>2, <3>1 DEF Nested
    <3> QED BY <1>5, <2>2, <3>1, <3>2, <3>3, <3>4 DEF Held
  <2> QED BY <2>1, <2>2
<1>8. Counts'
  <2>1. \A f \in Frames : destroys[f] = IF status[f] = "destroyed" THEN 1 ELSE 0
    BY DEF CallStackInv, Counts
  <2> HIDE DEF Gone
  <2> QED BY <1>6, <1>7, <2>1 DEF Counts
<1>9. TypeOK'
  <2>1. \A f \in Frames : status'[f] # "done"
    BY <1>4, <1>8 DEF Counts
  <2>2. again' \in BOOLEAN /\ raised' \in BOOLEAN /\ token' \in BOOLEAN /\ complete' \in BOOLEAN
    BY <1>4 DEF CallStackInv, TypeOK
  <2> QED BY <1>4, <1>6, <2>1, <2>2 DEF CallStackInv, TypeOK, Contains
<1>10. Machine'
  BY <1>2, <1>4 DEF Machine, Settled
<1> QED BY <1>4, <1>8, <1>9, <1>10 DEF CallStackInv

(* reset() destroys the coroutine's frame: every frame that is there is      *)
(* owned from it, through the frames of the stack.                           *)
LEMMA DestroyKeepsInv == CallStackInv /\ Destroy => CallStackInv'
<1> SUFFICES ASSUME CallStackInv, Destroy PROVE CallStackInv'
  OBVIOUS
<1>1. running = None /\ ~complete /\ Chain /\ Nested /\ Reached /\ None \notin Frames
  BY DEF CallStackInv, Destroy, Machine, Frames
<1> DEFINE Gone == OwnedFrom(Main)
<1>2. Gone \in SUBSET Frames /\ Destroyed = Once(Gone)
  <2>1. stack[1] = Main
    BY <1>1 DEF Chain
  <2> QED BY <2>1 DEF OwnedFrom, Destroyed, OfTheFirst, Once
<1>3. \A f \in Frames : status[f] \in Held => f \in Gone
  <2> SUFFICES ASSUME NEW f \in Frames, status[f] \in Held,
                      NEW S \in SUBSET Frames, Main \in S, ClosedUnderOwning(S)
               PROVE  f \in S
    BY DEF OwnedFrom
  <2>1. f = Main \/ (f \in Subs /\ owner[f] \in OnStack)
    BY <1>1 DEF Nested, Frames
  <2>2. OnStack \subseteq S
    BY <1>1 DEF Reached
  <2> QED BY <2>1, <2>2 DEF ClosedUnderOwning
<1>4. \A f \in Gone : status[f] \notin {"none", "destroyed"}
  <2> DEFINE There == {Main} \cup {s \in Subs : owner[s] # None}
  <2>1. ClosedUnderOwning(There) /\ There \in SUBSET Frames /\ Main \in There
    BY <1>1 DEF ClosedUnderOwning, Frames
  <2>2. \A f \in Gone : f \in There
    <3> HIDE DEF There
    <3> QED BY <2>1 DEF OwnedFrom
  <2>3. status[Main] \notin {"none", "destroyed"}
    <3>1. Len(stack) \in Nat \ {0} /\ Top = stack[Len(stack)]
      BY <1>1, TopFact DEF CallStackInv, Chain
    <3>2. CASE Len(stack) = 1
      BY <1>1, <3>1, <3>2 DEF Chain, Nested
    <3>3. CASE Len(stack) # 1
      BY <1>1, <3>1, <3>3 DEF Chain, Nested
    <3> QED BY <3>2, <3>3
  <2>4. \A s \in Subs : owner[s] # None => status[s] \notin {"none", "destroyed"}
    BY <1>1 DEF Nested
  <2> QED BY <2>2, <2>3, <2>4
<1>5. /\ destroys' \in [Frames -> Nat] /\ owner' \in [Subs -> Frames \cup {None}]
      /\ status' \in [Frames -> {"none", "running", "destroyed"} \cup Held]
      /\ \A f \in Frames : destroys'[f] = IF f \in Gone THEN destroys[f] + 1 ELSE destroys[f]
      /\ \A f \in Frames : status'[f] = IF f \in Gone THEN "destroyed" ELSE status[f]
  <2> HIDE DEF Gone
  <2>1. Destroying(Once(Gone)) /\ status' = Without(Once(Gone))
    BY <1>2 DEF Destroy
  <2> QED BY <1>2, <2>1, DestroyingFact DEF CallStackInv
<1>6. Counts'
  <2> HIDE DEF Gone
  <2> SUFFICES ASSUME NEW f \in Frames
               PROVE  /\ destroys'[f] = IF status'[f] = "destroyed" THEN 1 ELSE 0
                      /\ status'[f] \in {"none", "destroyed"}
    BY DEF Counts
  <2>1. destroys[f] = IF status[f] = "destroyed" THEN 1 ELSE 0
    BY DEF CallStackInv, Counts
  <2>2. status[f] # "running" /\ status[f] \in {"none", "running", "destroyed"} \cup Held
    BY <1>1 DEF Nested, CallStackInv, TypeOK
  <2> QED BY <1>3, <1>4, <1>5, <2>1, <2>2
<1>7. TypeOK'
  <2>1. again' \in BOOLEAN /\ raised' \in BOOLEAN /\ token' \in BOOLEAN /\ complete' \in BOOLEAN
    BY DEF Destroy, CallStackInv, TypeOK
  <2>2. \A f \in Frames : status'[f] # "done"
    BY <1>6 DEF Counts, Destroy
  <2> QED BY <1>5, <2>1, <2>2 DEF Destroy, CallStackInv, TypeOK, Contains
<1>8. Machine'
  BY <1>1 DEF Destroy, Machine, Settled
<1> QED BY <1>6, <1>7, <1>8 DEF Destroy, CallStackInv

LEMMA NextInv == CallStackInv /\ [Next]_vars => CallStackInv'
<1> SUFFICES ASSUME CallStackInv, [Next]_vars PROVE CallStackInv'
  OBVIOUS
<1>1. CASE UNCHANGED vars
  <2>1. TypeOK' /\ Machine' /\ Counts'
    BY <1>1 DEF vars, CallStackInv, TypeOK, Contains, Machine, Settled, Counts
  <2>2. ~complete' => Chain' /\ Nested' /\ Reached'
    BY <1>1, StackStays DEF vars, CallStackInv, Nested
  <2> QED BY <2>1, <2>2 DEF CallStackInv
<1>2. ASSUME NEW f \in Frames, NEW throws \in BOOLEAN, EndBody(f, throws) PROVE CallStackInv'
  BY <1>2, MainReturnsKeepsInv, SubReturnsKeepsInv DEF Frames
<1> QED BY <1>1, <1>2, ResumeKeepsInv, TurnKeepsInv, ReturnKeepsInv, DestroyKeepsInv,
           CatchKeepsInv, WaitKeepsInv, CreateKeepsInv, AwaitKeepsInv, AwaitDoneKeepsInv,
           DiscardKeepsInv DEF Next

-----------------------------------------------------------------------------
(* The inductive invariant: while the process can be resumed its stack is a  *)
(* chain of calls from the coroutine's frame, each suspended in the next,    *)
(* and whatever frame is there is owned by one of them.                      *)
THEOREM Invariance == Spec => []CallStackInv
BY InitInv, NextInv, PTL DEF Spec

(* Every variable keeps its type, and no frame that is done stays on the     *)
(* stack: final_suspend has popped it.                                       *)
THEOREM TypeCorrect == Spec => []TypeOK
<1>1. CallStackInv => TypeOK
  BY DEF CallStackInv
<1> QED BY <1>1, Invariance, PTL

(* However deep the calls, whatever they throw and wherever they wait, each  *)
(* frame of the stack awaits the one above it and only the top may run.      *)
THEOREM CallsNestHolds == Spec => []CallsNest
<1>1. CallStackInv => CallsNest
  <2> SUFFICES ASSUME CallStackInv, ~complete
               PROVE  CallsNest
    BY DEF CallsNest
  <2>1. running # None => running \in Frames
    BY DEF CallStackInv, TypeOK
  <2> QED BY <2>1 DEF CallStackInv, Nested, CallsNest
<1> QED BY <1>1, Invariance, PTL

(* resume() returns with a token out to resume the process, or with the      *)
(* process complete and none: it is never left in the middle of a call, and  *)
(* never goes on past a wait.                                                *)
THEOREM ReturnsWhenWaitingHolds == Spec => []ReturnsWhenWaiting
<1>1. CallStackInv => ReturnsWhenWaiting
  BY DEF CallStackInv, Machine, Settled, ReturnsWhenWaiting
<1> QED BY <1>1, Invariance, PTL

(* However a process completes, and whoever owns its subroutines, each of its*)
(* frames is destroyed once, and not before its calls have returned or the   *)
(* process has completed.                                                    *)
THEOREM DestroyedOnceHolds == Spec => []DestroyedOnce
<1>1. CallStackInv => DestroyedOnce
  <2> SUFFICES ASSUME CallStackInv PROVE DestroyedOnce
    OBVIOUS
  <2>1. \A f \in Frames : destroys[f] = IF status[f] = "destroyed" THEN 1 ELSE 0
    BY DEF CallStackInv, Counts
  <2>2. ~complete => \A i \in 1..Len(stack) : stack[i] \in Frames /\ status[stack[i]] # "destroyed"
    <3>1. ASSUME ~complete, NEW i \in 1..Len(stack)
          PROVE  stack[i] \in Frames /\ status[stack[i]] # "destroyed"
      <4>1. Chain /\ Nested
        BY <3>1 DEF CallStackInv
      <4>2. /\ Len(stack) \in Nat \ {0} /\ Top = stack[Len(stack)]
            /\ \A j \in 1..Len(stack) : stack[j] \in Frames
        BY <4>1, TopFact DEF Chain, CallStackInv
      <4>3. CASE i = Len(stack)
        BY <4>1, <4>2, <4>3 DEF Nested
      <4>4. CASE i # Len(stack)
        BY <4>1, <4>2, <4>4 DEF Nested
      <4> QED BY <4>3, <4>4
    <3> QED BY <3>1
  <2>3. DOMAIN stack = 1..Len(stack)
    BY DEF CallStackInv, TypeOK
  <2> QED BY <2>1, <2>2, <2>3 DEF DestroyedOnce, CallStackInv, Counts
<1> QED BY <1>1, Invariance, PTL
==============================================================================
