---------------------------- MODULE ProcessProofs ----------------------------
(* Proofs about Process, for every set of coroutines, shared and unique: the *)
(* inductive invariant ProcessInv and what follows from it.                  *)
EXTENDS Process, TLAPS

USE NoneAssumption, UniqueAssumption, ValuedAssumption, PausesAssumption

-----------------------------------------------------------------------------
(* What each operation does to the tokens that can still resume a process.   *)

(* A pending token is scheduled, kept by the event, or waits for a process   *)
(* that can complete.                                                        *)
LEMMA PendingDef ==
  ASSUME NEW t
  PROVE  t \in Pending <=> \/ t \in queue \cup waiters
                           \/ \E c \in Coros \ complete : t \in waiting[c]
BY DEF Pending

(* The same of the next state.                                               *)
LEMMA PendingDefNext ==
  ASSUME NEW t
  PROVE  t \in Pending' <=> \/ t \in queue' \cup waiters'
                            \/ \E c \in Coros \ complete' : t \in waiting'[c]
BY DEF Pending

(* The tokens the operations make, and their fields.                         *)
LEMMA TokenTypes ==
  ASSUME NEW c \in Coros, NEW p \in Coros \cup {None}
  PROVE  /\ Resume(c) \in Token
         /\ Completion(c, p) \in Token
         /\ Resume(c).to = c /\ Resume(c).of = None
         /\ Completion(c, p).to = p /\ Completion(c, p).of = c
BY DEF Token, Resume, Completion

(* Starting c and registering t with it adds t, unless c is complete, and    *)
(* c's start token if this is the first bind; no token that resumes a        *)
(* process goes, because an unmoved unique handle is awaited by none.        *)
LEMMA LaunchPending ==
  ASSUME TypeOK, WaitingShape,
         NEW c \in Coros, NEW t \in Token, t.of = c,
         HasHandle(c), BindTo(c), Register(c, t), UNCHANGED <<complete, waiters>>
  PROVE  \A s : s.to \in Coros =>
           (s \in Pending' <=> \/ s \in Pending
                               \/ c \notin started /\ s = Resume(c)
                               \/ c \notin complete /\ s = t)
<1> TAKE s
<1> HAVE s.to \in Coros
<1>1. s \in queue' \cup waiters'
        <=> s \in queue \cup waiters \/ (c \notin started /\ s = Resume(c))
  BY DEF BindTo, StartTokens
<1>2. CASE c \in complete
  BY <1>1, <1>2, PendingDef, PendingDefNext DEF Register
<1>3. CASE c \notin complete
  <2>1. \A d \in Coros : waiting'[d] = IF d = c THEN Registered(c, t) ELSE waiting[d]
    BY <1>3 DEF Register, TypeOK
  <2>2. s \in Registered(c, t) <=> s \in waiting[c] \/ s = t
    BY DEF Registered, WaitingShape, HasHandle
  <2>3. (\E d \in Coros \ complete' : s \in waiting'[d])
          <=> (\E d \in Coros \ complete : s \in waiting[d]) \/ s = t
    BY <1>3, <2>1, <2>2
  <2> QED BY <1>1, <1>3, <2>3, PendingDef, PendingDefNext
<1> QED BY <1>2, <1>3

(* A return moves the tokens waiting for p to the queue.                     *)
LEMMA ReturnPending ==
  ASSUME TypeOK, NEW p \in Coros, Live(p), NEW e \in BOOLEAN, DoReturn(p, e)
  PROVE  \A s : s \in Pending' <=> \/ s \in queue \cup waiters
                                   \/ \E c \in Coros \ (complete \cup {p}) : s \in waiting[c]
                                   \/ \E t \in waiting[p] : s = [t EXCEPT !.eptr = e]
<1> TAKE s
<1>1. \A d \in Coros : waiting'[d] = IF d = p THEN {} ELSE waiting[d]
  BY DEF DoReturn, TypeOK
<1> QED BY <1>1, PendingDefNext DEF DoReturn, Scheduled

(* The form in which OneWakeup is used and proved.                           *)
LEMMA OneWakeupDef ==
  OneWakeup <=>
    \A p \in Coros :
      /\ Live(p) /\ p # current =>
           \E t \in Pending : t.to = p /\ \A s \in Pending : s.to = p => s = t
      /\ ~(Live(p) /\ p # current) => \A s \in Pending : s.to # p
<1>1. ASSUME NEW p \in Coros
      PROVE  (\E t \in Pending : Wakeups(p) = {t})
               <=> (\E t \in Pending : t.to = p /\ \A s \in Pending : s.to = p => s = t)
  BY DEF Wakeups
<1>2. ASSUME NEW p \in Coros
      PROVE  Wakeups(p) = {} <=> \A s \in Pending : s.to # p
  BY DEF Wakeups
<1> QED BY <1>1, <1>2 DEF OneWakeup

(* The same of the next state.                                               *)
LEMMA OneWakeupDefNext ==
  OneWakeup' <=>
    \A p \in Coros :
      /\ Live(p)' /\ p # current' =>
           \E t \in Pending' : t.to = p /\ \A s \in Pending' : s.to = p => s = t
      /\ ~(Live(p)' /\ p # current') => \A s \in Pending' : s.to # p
<1>1. ASSUME NEW p \in Coros
      PROVE  (\E t \in Pending' : Wakeups(p)' = {t})
               <=> (\E t \in Pending' : t.to = p /\ \A s \in Pending' : s.to = p => s = t)
  BY DEF Wakeups
<1>2. ASSUME NEW p \in Coros
      PROVE  Wakeups(p)' = {} <=> \A s \in Pending' : s.to # p
  BY DEF Wakeups
<1> QED BY <1>1, <1>2 DEF OneWakeup

(* What resumes p is not there yet when p runs, or has not been started.      *)
LEMMA NoWakeup ==
  ASSUME ProcessInv, NEW p \in Coros, p = current \/ ~Live(p)
  PROVE  Resume(p) \notin queue \cup waiters
<1>1. Resume(p).to = p
  BY TokenTypes
<1>2. Resume(p) \notin Pending
  BY <1>1, OneWakeupDef DEF ProcessInv
<1> QED BY <1>2, PendingDef

-----------------------------------------------------------------------------
(* OneWakeup is preserved, one lemma for each kind of step.                  *)

(* Bind and Async: the token registered resumes nobody.                      *)
LEMMA LaunchKeepsOneWakeup ==
  ASSUME ProcessInv, NEW c \in Coros, HasHandle(c), BindTo(c), Register(c, Completion(c, None)),
         UNCHANGED <<complete, current, waiters>>
  PROVE  OneWakeup'
<1>1. \A s : s.to \in Coros =>
        (s \in Pending' <=> \/ s \in Pending
                            \/ c \notin started /\ s = Resume(c))
  <2> DEFINE t == Completion(c, None)
  <2>1. t \in Token /\ t.of = c /\ t.to = None
    BY TokenTypes
  <2>3. Register(c, t)
    OBVIOUS
  <2> HIDE DEF t
  <2>2. \A s : s.to \in Coros =>
          (s \in Pending' <=> \/ s \in Pending
                              \/ c \notin started /\ s = Resume(c)
                              \/ c \notin complete /\ s = t)
    BY <2>1, <2>3, LaunchPending DEF ProcessInv
  <2> QED BY <2>1, <2>2
<1>2. SUFFICES ASSUME NEW p \in Coros
               PROVE  /\ Live(p)' /\ p # current' =>
                           \E t \in Pending' : t.to = p /\ \A s \in Pending' : s.to = p => s = t
                      /\ ~(Live(p)' /\ p # current') => \A s \in Pending' : s.to # p
  BY OneWakeupDefNext
<1>3. /\ Live(p) /\ p # current =>
           \E t \in Pending : t.to = p /\ \A s \in Pending : s.to = p => s = t
      /\ ~(Live(p) /\ p # current) => \A s \in Pending : s.to # p
  BY OneWakeupDef DEF ProcessInv
<1>4. Live(p)' <=> Live(p) \/ (p = c /\ c \notin started)
  BY DEF Live, BindTo, ProcessInv, TypeOK
<1>5. CASE p = c /\ c \notin started
  BY <1>1, <1>3, <1>4, <1>5, TokenTypes DEF Live, ProcessInv, CurrentIsLive
<1>6. CASE ~(p = c /\ c \notin started)
  BY <1>1, <1>3, <1>4, <1>6, TokenTypes
<1> QED BY <1>5, <1>6

(* Await: the token registered is the only one of p, which ran.              *)
LEMMA AwaitKeepsOneWakeup ==
  ASSUME ProcessInv, NEW r \in Coros, NEW c \in Coros, Await(r, c)
  PROVE  OneWakeup'
<1>0. current = r /\ Live(r)
  BY DEF Await, Running, ProcessInv, CurrentIsLive
<1>1. \A s : s.to \in Coros =>
        (s \in Pending' <=> \/ s \in Pending
                            \/ c \notin started /\ s = Resume(c)
                            \/ c \notin complete /\ s = Completion(c, r))
  <2> DEFINE t == Completion(c, r)
  <2>1. t \in Token /\ t.of = c
    BY TokenTypes
  <2>3. HasHandle(c) /\ BindTo(c) /\ Register(c, t) /\ UNCHANGED <<complete, waiters>>
    BY DEF Await
  <2> HIDE DEF t
  <2>2. \A s : s.to \in Coros =>
          (s \in Pending' <=> \/ s \in Pending
                              \/ c \notin started /\ s = Resume(c)
                              \/ c \notin complete /\ s = t)
    BY <2>1, <2>3, LaunchPending DEF ProcessInv
  <2> QED BY <2>2 DEF t
<1>2. SUFFICES ASSUME NEW p \in Coros
               PROVE  /\ Live(p)' /\ p # current' =>
                           \E t \in Pending' : t.to = p /\ \A s \in Pending' : s.to = p => s = t
                      /\ ~(Live(p)' /\ p # current') => \A s \in Pending' : s.to # p
  BY OneWakeupDefNext
<1>3. /\ Live(p) /\ p # current =>
           \E t \in Pending : t.to = p /\ \A s \in Pending : s.to = p => s = t
      /\ ~(Live(p) /\ p # current) => \A s \in Pending : s.to # p
  BY OneWakeupDef DEF ProcessInv
<1>4. Live(p)' <=> Live(p) \/ (p = c /\ c \notin started)
  BY DEF Live, BindTo, Await, ProcessInv, TypeOK
<1>5. current' = IF c \in complete THEN current ELSE None
  BY <1>0 DEF Await
<1>6. CASE p = r
  BY <1>0, <1>1, <1>3, <1>4, <1>5, <1>6, TokenTypes DEF Live
<1>7. CASE p # r /\ p = c /\ c \notin started
  BY <1>0, <1>1, <1>3, <1>4, <1>5, <1>7, TokenTypes DEF Live, ProcessInv, TypeOK
<1>8. CASE p # r /\ ~(p = c /\ c \notin started)
  BY <1>0, <1>1, <1>3, <1>4, <1>5, <1>8, TokenTypes
<1> QED BY <1>6, <1>7, <1>8

(* Delay and Wait: likewise with the token of the timeout or of the wait.    *)
LEMMA PauseKeepsOneWakeup ==
  ASSUME ProcessInv, NEW r \in Coros, Delay(r) \/ Wait(r)
  PROVE  OneWakeup'
<1>0. current = r /\ Live(r) /\ current' = None
  BY DEF Delay, Wait, Running, ProcessInv, CurrentIsLive
<1>1. \A s : s \in Pending' <=> s \in Pending \/ s = Resume(r)
  BY PendingDef, PendingDefNext DEF Delay, Wait
<1>2. SUFFICES ASSUME NEW p \in Coros
               PROVE  /\ Live(p)' /\ p # current' =>
                           \E t \in Pending' : t.to = p /\ \A s \in Pending' : s.to = p => s = t
                      /\ ~(Live(p)' /\ p # current') => \A s \in Pending' : s.to # p
  BY OneWakeupDefNext
<1>3. /\ Live(p) /\ p # current =>
           \E t \in Pending : t.to = p /\ \A s \in Pending : s.to = p => s = t
      /\ ~(Live(p) /\ p # current) => \A s \in Pending : s.to # p
  BY OneWakeupDef DEF ProcessInv
<1>4. Live(p)' <=> Live(p)
  BY DEF Live, Delay, Wait
<1> QED BY <1>0, <1>1, <1>3, <1>4, TokenTypes

(* A wake schedules the tokens the event kept.                               *)
LEMMA WakeKeepsOneWakeup ==
  ASSUME ProcessInv, NEW r \in Coros, Wake(r)
  PROVE  OneWakeup'
<1>1. \A s : s \in Pending' <=> s \in Pending
  BY PendingDef, PendingDefNext DEF Wake, Woken
<1>2. \A p \in Coros : Live(p)' <=> Live(p)
  BY DEF Live, Wake
<1>3. current' = current
  BY DEF Wake
<1> QED BY <1>1, <1>2, <1>3, OneWakeupDef, OneWakeupDefNext DEF ProcessInv

(* The waiters of r had one token each, registered with r or elsewhere; the  *)
(* first are now in the queue, and none of them would resume r itself.       *)
LEMMA ReturnKeepsOneWakeup ==
  ASSUME ProcessInv, NEW r \in Coros, current = r, NEW e \in BOOLEAN, DoReturn(r, e)
  PROVE  OneWakeup'
<1>0. Live(r) /\ current' = None
  BY DEF DoReturn, ProcessInv, CurrentIsLive
<1>1. \A s : s \in Pending' <=> \/ s \in queue \cup waiters
                                \/ \E c \in Coros \ (complete \cup {r}) : s \in waiting[c]
                                \/ \E t \in waiting[r] : s = [t EXCEPT !.eptr = e]
  BY <1>0, ReturnPending DEF ProcessInv
<1>t. \A t \in waiting[r] : [t EXCEPT !.eptr = e].to = t.to
  BY DEF ProcessInv, TypeOK, Token
<1>2. SUFFICES ASSUME NEW p \in Coros
               PROVE  /\ Live(p)' /\ p # current' =>
                           \E t \in Pending' : t.to = p /\ \A s \in Pending' : s.to = p => s = t
                      /\ ~(Live(p)' /\ p # current') => \A s \in Pending' : s.to # p
  BY OneWakeupDefNext
<1>3. /\ Live(p) /\ p # current =>
           \E t \in Pending : t.to = p /\ \A s \in Pending : s.to = p => s = t
      /\ ~(Live(p) /\ p # current) => \A s \in Pending : s.to # p
  BY OneWakeupDef DEF ProcessInv
<1>4. Live(p)' <=> Live(p) /\ p # r
  BY DEF Live, DoReturn
<1>5. ASSUME NEW s \in Pending', s.to = p
      PROVE  \E t \in Pending : t.to = p /\ (s = t \/ (t \in waiting[r] /\ s = [t EXCEPT !.eptr = e]))
  BY <1>0, <1>1, <1>t, <1>5, PendingDef DEF Live
<1>6. CASE p = r
  BY <1>3, <1>4, <1>5, <1>6
<1>7. CASE p # r /\ ~Live(p)
  BY <1>3, <1>4, <1>5, <1>7
<1>8. CASE p # r /\ Live(p)
  <2>1. PICK t \in Pending : t.to = p /\ \A s \in Pending : s.to = p => s = t
    BY <1>3, <1>8
  <2>2. CASE t \in waiting[r]
    <3> DEFINE u == [t EXCEPT !.eptr = e]
    <3>1. u \in Pending' /\ u.to = p
      BY <1>1, <1>t, <2>1, <2>2
    <3>2. t \notin queue \cup waiters /\ \A c \in Coros \ (complete \cup {r}) : t \notin waiting[c]
      BY <1>0, <2>2 DEF ProcessInv, WaitingShape, QueueShape, WaitersShape, Live
    <3>3. ASSUME NEW s \in Pending', s.to = p PROVE s = u
      <4>1. CASE s \in queue \cup waiters \/ \E c \in Coros \ (complete \cup {r}) : s \in waiting[c]
        BY <2>1, <3>2, <3>3, <4>1, PendingDef
      <4>2. CASE \E v \in waiting[r] : s = [v EXCEPT !.eptr = e]
        <5>1. PICK v \in waiting[r] : s = [v EXCEPT !.eptr = e]
          BY <4>2
        <5>2. v \in Pending /\ v.to = p
          BY <1>0, <1>t, <3>3, <5>1, PendingDef DEF Live
        <5> QED BY <2>1, <5>1, <5>2
      <4> QED BY <1>1, <4>1, <4>2
    <3> QED BY <1>4, <1>8, <1>0, <3>1, <3>3
  <2>3. CASE t \notin waiting[r]
    <3>1. t \in Pending'
      BY <1>1, <2>1, <2>3, PendingDef
    <3>2. ASSUME NEW s \in Pending', s.to = p PROVE s = t
      BY <1>5, <2>1, <2>3, <3>2
    <3> QED BY <1>4, <1>8, <1>0, <2>1, <3>1, <3>2
  <2> QED BY <2>2, <2>3
<1> QED BY <1>6, <1>7, <1>8

(* The token popped was the only one of the process that now runs.           *)
LEMMA StepKeepsOneWakeup ==
  ASSUME ProcessInv, NEW u \in queue, Step(u)
  PROVE  OneWakeup'
<1>0. current = None /\ current' = u.to /\ u \in Pending
  BY PendingDef DEF Step, MainRuns
<1>1. \A s : s \in Pending' <=> s \in Pending /\ s # u
  <2>1. u \notin waiters /\ \A c \in Coros \ complete : u \notin waiting[c]
    BY DEF ProcessInv, WaitingShape, QueueShape, WaitersShape
  <2> QED BY <2>1, PendingDef, PendingDefNext DEF Step, Dequeued
<1>2. SUFFICES ASSUME NEW p \in Coros
               PROVE  /\ Live(p)' /\ p # current' =>
                           \E t \in Pending' : t.to = p /\ \A s \in Pending' : s.to = p => s = t
                      /\ ~(Live(p)' /\ p # current') => \A s \in Pending' : s.to # p
  BY OneWakeupDefNext
<1>3. /\ Live(p) /\ p # current =>
           \E t \in Pending : t.to = p /\ \A s \in Pending : s.to = p => s = t
      /\ ~(Live(p) /\ p # current) => \A s \in Pending : s.to # p
  BY OneWakeupDef DEF ProcessInv
<1>4. Live(p)' <=> Live(p)
  BY DEF Live, Step
<1>5. p # None
  OBVIOUS
<1>6. CASE Live(p)
  <2>1. PICK t \in Pending : t.to = p /\ \A s \in Pending : s.to = p => s = t
    BY <1>0, <1>3, <1>5, <1>6
  <2>2. CASE u.to = p
    BY <1>0, <1>1, <2>1, <2>2
  <2>3. CASE u.to # p
    BY <1>0, <1>1, <1>4, <1>6, <2>1, <2>3
  <2> QED BY <2>2, <2>3
<1>7. CASE ~Live(p)
  BY <1>1, <1>3, <1>4, <1>7
<1> QED BY <1>6, <1>7

(* reset() leaves no live process and no token that anything will schedule.  *)
LEMMA ResetKeepsOneWakeup ==
  ASSUME ProcessInv, Reset
  PROVE  OneWakeup'
<1>1. /\ complete' = started /\ started' = started
      /\ queue' = {} /\ waiters' = {} /\ waiting' = waiting
  BY DEF Reset, DestroyAll, ProcessInv, ManagedExactly, TypeOK
<1>2. \A s : s \notin Pending'
  BY <1>1, PendingDefNext DEF ProcessInv, WaitingShape
<1>3. \A p \in Coros : ~Live(p)'
  BY <1>1 DEF Live
<1> QED BY <1>2, <1>3, OneWakeupDefNext

-----------------------------------------------------------------------------
(* The other parts of the invariant.                                         *)

(* A bind and the registration of a token that, unless it resumes nobody, is *)
(* the await that takes a unique handle.                                     *)
LEMMA LaunchKeepsShapes ==
  ASSUME ProcessInv, NEW c \in Coros, NEW p \in Coros \cup {None},
         HasHandle(c), BindTo(c), Register(c, Completion(c, p)),
         consumed' \in {consumed, Moved(c)}, p # None => consumed' = Moved(c),
         UNCHANGED <<complete, failed, values, waiters>>
  PROVE  /\ started' \subseteq Coros /\ complete' \subseteq started'
         /\ managed' \subseteq Coros /\ consumed' \subseteq Unique
         /\ waiting' \in [Coros -> SUBSET Token] /\ queue' \subseteq Token
         /\ WaitingShape' /\ QueueShape' /\ WaitersShape' /\ ManagedExactly'
         /\ SomebodyToTell' /\ FailuresCarried'
<1> DEFINE t == Completion(c, p)
<1>1. t \in Token /\ t.of = c /\ t.to = p /\ ~t.eptr
  BY DEF Completion, Token
<1>2. Register(c, t)
  OBVIOUS
<1> HIDE DEF t
<1>3. /\ waiting' \in [Coros -> SUBSET Token]
      /\ \A d \in Coros : d # c => waiting'[d] = waiting[d]
      /\ c \in complete => waiting'[c] = waiting[c]
      /\ c \notin complete => waiting'[c] = Registered(c, t)
  <2>1. waiting \in [Coros -> SUBSET Token]
    BY DEF ProcessInv, TypeOK
  <2>2. Registered(c, t) \in SUBSET Token
    BY <1>1, <2>1 DEF Registered
  <2>3. waiting' = IF c \in complete THEN waiting
                   ELSE [waiting EXCEPT ![c] = Registered(c, t)]
    BY <1>2 DEF Register
  <2> QED BY <2>1, <2>2, <2>3
<1>4. \A s : s \in queue' => s \in queue \/ s = Resume(c)
  BY DEF BindTo, StartTokens
<1>5. /\ started' = started \cup {c} /\ complete' = complete
      /\ consumed \subseteq consumed' /\ consumed' \subseteq Unique
  BY DEF BindTo, Moved, ProcessInv, TypeOK
<1>6. queue' \subseteq Token /\ QueueShape'
  <2>1. Resume(c) \in Token /\ Resume(c).of = None /\ Resume(c).to # None /\ ~Resume(c).eptr
    BY DEF Resume, Token
  <2> QED BY <1>4, <1>5, <2>1 DEF QueueShape, ProcessInv, TypeOK
<1>7. WaitingShape'
  <2> SUFFICES ASSUME NEW d \in Coros, NEW s \in waiting'[d]
               PROVE  /\ s.of = d /\ ~s.eptr
                      /\ d \in started'
                      /\ d \in Unique \ consumed' => s.to = None
    BY DEF WaitingShape
  <2>1. CASE s \in waiting[d]
    BY <1>5, <2>1 DEF ProcessInv, WaitingShape
  <2>2. CASE s \notin waiting[d]
    <3>1. d = c /\ s = t
      BY <1>3, <2>2 DEF Registered
    <3> QED BY <1>1, <1>5, <3>1 DEF Moved
  <2> QED BY <2>1, <2>2
<1>8. ManagedExactly'
  BY <1>5 DEF BindTo, ManagedExactly, ProcessInv, TypeOK
<1>9. SomebodyToTell'
  <2> SUFFICES ASSUME NEW d \in Coros, Live(d)'
               PROVE  waiting'[d] # {} /\ (d \in Unique => \E s \in Token : waiting'[d] = {s})
    BY DEF SomebodyToTell
  <2>1. CASE d = c
    BY <1>1, <1>3, <1>5, <2>1 DEF Registered, Live
  <2>2. CASE d # c
    BY <1>3, <1>5, <2>2 DEF ProcessInv, SomebodyToTell, Live
  <2> QED BY <2>1, <2>2
<1>10. FailuresCarried'
  BY <1>4, TokenTypes DEF FailuresCarried, HasValue, ProcessInv
<1>11. WaitersShape'
  <2>1. c \notin started => Resume(c) \notin waiters
    BY NoWakeup DEF Live
  <2>2. \A s : s \in queue' => s \in queue \/ (c \notin started /\ s = Resume(c))
    BY DEF BindTo, StartTokens
  <2> QED BY <2>1, <2>2 DEF ProcessInv, WaitersShape
<1> QED BY <1>3, <1>5, <1>6, <1>7, <1>8, <1>9, <1>10, <1>11
        DEF ManagedExactly, ProcessInv, TypeOK

(* Bind preserves the invariant.                                             *)
LEMMA BindKeepsInv ==
  ASSUME ProcessInv, NEW c \in Coros, Bind(c)
  PROVE  ProcessInv'
<1>1. OneWakeup'
  BY LaunchKeepsOneWakeup DEF Bind
<1>2. /\ started' \subseteq Coros /\ complete' \subseteq started'
      /\ managed' \subseteq Coros /\ consumed' \subseteq Unique
      /\ waiting' \in [Coros -> SUBSET Token] /\ queue' \subseteq Token
      /\ WaitingShape' /\ QueueShape' /\ WaitersShape' /\ ManagedExactly'
      /\ SomebodyToTell' /\ FailuresCarried'
  BY LaunchKeepsShapes DEF Bind
<1>3. CurrentIsLive'
  BY DEF Bind, MainRuns, CurrentIsLive, ProcessInv
<1>4. TypeOK'
  BY <1>2 DEF Bind, TypeOK, ProcessInv
<1> QED BY <1>1, <1>2, <1>3, <1>4 DEF ProcessInv

(* Async preserves the invariant.                                            *)
LEMMA AsyncKeepsInv ==
  ASSUME ProcessInv, NEW p \in Coros, NEW c \in Coros, Async(p, c)
  PROVE  ProcessInv'
<1>1. OneWakeup'
  BY LaunchKeepsOneWakeup DEF Async
<1>2. /\ started' \subseteq Coros /\ complete' \subseteq started'
      /\ managed' \subseteq Coros /\ consumed' \subseteq Unique
      /\ waiting' \in [Coros -> SUBSET Token] /\ queue' \subseteq Token
      /\ WaitingShape' /\ QueueShape' /\ WaitersShape' /\ ManagedExactly'
      /\ SomebodyToTell' /\ FailuresCarried'
  BY LaunchKeepsShapes DEF Async
<1>3. CurrentIsLive'
  BY DEF Async, BindTo, Live, CurrentIsLive, ProcessInv
<1>4. TypeOK'
  BY <1>2 DEF Async, TypeOK, ProcessInv
<1> QED BY <1>1, <1>2, <1>3, <1>4 DEF ProcessInv

(* Await preserves the invariant.                                            *)
LEMMA AwaitKeepsInv ==
  ASSUME ProcessInv, NEW p \in Coros, NEW c \in Coros, Await(p, c)
  PROVE  ProcessInv'
<1>1. OneWakeup'
  BY AwaitKeepsOneWakeup
<1>2. /\ started' \subseteq Coros /\ complete' \subseteq started'
      /\ managed' \subseteq Coros /\ consumed' \subseteq Unique
      /\ waiting' \in [Coros -> SUBSET Token] /\ queue' \subseteq Token
      /\ WaitingShape' /\ QueueShape' /\ WaitersShape' /\ ManagedExactly'
      /\ SomebodyToTell' /\ FailuresCarried'
  BY LaunchKeepsShapes DEF Await
<1>3. CurrentIsLive'
  BY DEF Await, Running, BindTo, Live, CurrentIsLive, ProcessInv
<1>4. TypeOK'
  <2>1. raised' \in BOOLEAN
    BY DEF Await
  <2>2. current' \in Coros \cup {None}
    BY DEF Await
  <2> QED BY <1>2, <2>1, <2>2 DEF Await, TypeOK, ProcessInv
<1> QED BY <1>1, <1>2, <1>3, <1>4 DEF ProcessInv

(* Delay preserves the invariant.                                            *)
LEMMA DelayKeepsInv ==
  ASSUME ProcessInv, NEW p \in Coros, Delay(p)
  PROVE  ProcessInv'
<1>1. OneWakeup'
  BY PauseKeepsOneWakeup
<1>2. Resume(p) \in Token /\ Resume(p).of = None /\ Resume(p).to # None /\ ~Resume(p).eptr
  BY DEF Resume, Token
<1>3. TypeOK'
  BY <1>2, PausesAssumption DEF Delay, ProcessInv, TypeOK
<1>4. CurrentIsLive'
  BY DEF Delay, Running, CurrentIsLive
<1>5. WaitingShape' /\ ManagedExactly'
  BY DEF Delay, ProcessInv, WaitingShape, ManagedExactly
<1>6. QueueShape' /\ FailuresCarried'
  BY <1>2 DEF Delay, ProcessInv, QueueShape, FailuresCarried, HasValue
<1>7. WaitersShape'
  <2>1. Resume(p) \notin waiters
    BY NoWakeup DEF Delay, Running
  <2> QED BY <2>1 DEF Delay, ProcessInv, WaitersShape
<1>8. SomebodyToTell'
  BY DEF Delay, ProcessInv, SomebodyToTell, Live
<1> QED BY <1>1, <1>3, <1>4, <1>5, <1>6, <1>7, <1>8 DEF ProcessInv

(* Wait preserves the invariant.                                             *)
LEMMA WaitKeepsInv ==
  ASSUME ProcessInv, NEW p \in Coros, Wait(p)
  PROVE  ProcessInv'
<1>1. OneWakeup'
  BY PauseKeepsOneWakeup
<1>2. Resume(p) \in Token /\ Resume(p).of = None /\ Resume(p).to # None /\ ~Resume(p).eptr
  BY DEF Resume, Token
<1>3. TypeOK'
  BY <1>2, PausesAssumption DEF Wait, ProcessInv, TypeOK
<1>4. CurrentIsLive'
  BY DEF Wait, Running, CurrentIsLive
<1>5. WaitingShape' /\ QueueShape' /\ ManagedExactly' /\ FailuresCarried'
  BY DEF Wait, ProcessInv, WaitingShape, QueueShape, ManagedExactly, FailuresCarried, HasValue
<1>6. WaitersShape'
  <2>1. Resume(p) \notin queue
    BY NoWakeup DEF Wait, Running
  <2> QED BY <1>2, <2>1 DEF Wait, ProcessInv, WaitersShape
<1>7. SomebodyToTell'
  BY DEF Wait, ProcessInv, SomebodyToTell, Live
<1> QED BY <1>1, <1>3, <1>4, <1>5, <1>6, <1>7 DEF ProcessInv

(* Wake preserves the invariant.                                             *)
LEMMA WakeKeepsInv ==
  ASSUME ProcessInv, NEW p \in Coros, Wake(p)
  PROVE  ProcessInv'
<1>1. OneWakeup'
  BY WakeKeepsOneWakeup
<1>2. TypeOK'
  BY DEF Wake, Woken, ProcessInv, TypeOK
<1>3. CurrentIsLive'
  BY DEF Wake, ProcessInv, CurrentIsLive, Live
<1>4. WaitingShape' /\ ManagedExactly' /\ WaitersShape'
  BY DEF Wake, ProcessInv, WaitingShape, ManagedExactly, WaitersShape
<1>5. QueueShape' /\ FailuresCarried'
  BY DEF Wake, Woken, ProcessInv, QueueShape, FailuresCarried, HasValue, WaitersShape
<1>6. SomebodyToTell'
  BY DEF Wake, ProcessInv, SomebodyToTell, Live
<1> QED BY <1>1, <1>2, <1>3, <1>4, <1>5, <1>6 DEF ProcessInv

(* Return and Fail: e says whether the completions carry an exception; if    *)
(* not the value is there.                                                   *)
LEMMA ReturnKeepsInv ==
  ASSUME ProcessInv, NEW p \in Coros, current = p, NEW e \in BOOLEAN, DoReturn(p, e),
         raised' = FALSE, failed' = IF e THEN failed \cup {p} ELSE failed,
         values' = IF e THEN values ELSE Emplaced(p)
  PROVE  ProcessInv'
<1>0. Live(p)
  BY DEF ProcessInv, CurrentIsLive
<1>1. OneWakeup'
  BY ReturnKeepsOneWakeup
<1>2. \A d \in Coros : waiting'[d] = IF d = p THEN {} ELSE waiting[d]
  BY DEF DoReturn, ProcessInv, TypeOK
<1>3. \A t \in waiting[p] : LET u == [t EXCEPT !.eptr = e] IN
        u \in Token /\ u.of = p /\ (u.eptr <=> e)
  BY DEF ProcessInv, TypeOK, WaitingShape, Token
<1>4. \A s \in queue' : s \in queue \/ (s \in Token /\ s.of = p /\ (s.eptr <=> e))
  BY <1>3 DEF DoReturn, Scheduled
<1>5. TypeOK'
  <2>1. queue' \subseteq Token
    BY <1>4 DEF ProcessInv, TypeOK
  <2>2. waiting' \in [Coros -> SUBSET Token]
    BY DEF DoReturn, ProcessInv, TypeOK
  <2>3. complete' \subseteq started' /\ failed' \subseteq complete' /\ managed' \subseteq Coros
    BY <1>0 DEF DoReturn, Unmanage, ProcessInv, TypeOK, Live
  <2>4. raised' \in BOOLEAN
    OBVIOUS
  <2>5. values' \subseteq Valued
    BY DEF Emplaced, ProcessInv, TypeOK
  <2> QED BY <2>1, <2>2, <2>3, <2>4, <2>5 DEF DoReturn, ProcessInv, TypeOK
<1>6. CurrentIsLive'
  BY DEF DoReturn, CurrentIsLive
<1>7. WaitingShape'
  BY <1>2 DEF DoReturn, ProcessInv, WaitingShape
<1>8. QueueShape'
  BY <1>4 DEF DoReturn, ProcessInv, QueueShape
<1>9. ManagedExactly'
  BY DEF DoReturn, Unmanage, ProcessInv, ManagedExactly
<1>10. SomebodyToTell'
  BY <1>2 DEF DoReturn, ProcessInv, SomebodyToTell, Live
<1>11. FailuresCarried'
  <2>1. \A s \in queue : s.of # None => s.of # p
    BY <1>0 DEF ProcessInv, QueueShape, Live
  <2>2. p \notin failed
    BY <1>0 DEF ProcessInv, TypeOK, Live
  <2>3. values \subseteq values' /\ (~e => HasValue(p)')
    BY DEF Emplaced, HasValue
  <2> QED BY <1>4, <2>1, <2>2, <2>3 DEF ProcessInv, FailuresCarried, HasValue
<1>12. WaitersShape'
  BY <1>4 DEF DoReturn, ProcessInv, WaitersShape
<1> QED BY <1>1, <1>5, <1>6, <1>7, <1>8, <1>9, <1>10, <1>11, <1>12 DEF ProcessInv

(* Step preserves the invariant.                                             *)
LEMMA StepKeepsInv ==
  ASSUME ProcessInv, NEW t \in queue, Step(t)
  PROVE  ProcessInv'
<1>1. OneWakeup'
  BY StepKeepsOneWakeup
<1>2. t \in Token /\ t.to \in Coros \cup {None} /\ t.of \in Coros \cup {None}
      /\ t.eptr \in BOOLEAN
  BY DEF ProcessInv, TypeOK, Token
<1>3. TypeOK'
  <2>1. current' \in Coros \cup {None}
    BY <1>2 DEF Step
  <2>2. raised' \in BOOLEAN
    BY <1>2 DEF Step
  <2>3. uncaught' \in BOOLEAN
    BY <1>2 DEF Step
  <2> QED BY <2>1, <2>2, <2>3 DEF Step, Dequeued, ProcessInv, TypeOK
<1>4. CurrentIsLive'
  <2>1. t \in Pending
    BY PendingDef
  <2>2. t.to # None => Live(t.to)
    BY <1>2, <2>1, OneWakeupDef DEF ProcessInv
  <2> QED BY <2>2 DEF Step, CurrentIsLive, Live
<1>5. WaitingShape' /\ ManagedExactly'
  BY DEF Step, ProcessInv, WaitingShape, ManagedExactly
<1>6. QueueShape' /\ FailuresCarried'
  BY DEF Step, Dequeued, ProcessInv, QueueShape, FailuresCarried, HasValue
<1>7. SomebodyToTell'
  BY DEF Step, ProcessInv, SomebodyToTell, Live
<1>8. WaitersShape'
  BY DEF Step, Dequeued, ProcessInv, WaitersShape
<1> QED BY <1>1, <1>3, <1>4, <1>5, <1>6, <1>7, <1>8 DEF ProcessInv

(* Reset preserves the invariant.                                            *)
LEMMA ResetKeepsInv ==
  ASSUME ProcessInv, Reset
  PROVE  ProcessInv'
<1>1. OneWakeup'
  BY ResetKeepsOneWakeup
<1>2. TypeOK'
  BY DEF Reset, DestroyAll, ProcessInv, ManagedExactly, TypeOK
<1>3. CurrentIsLive'
  BY DEF Reset, DestroyAll, MainRuns, ProcessInv, CurrentIsLive
<1>4. WaitingShape' /\ QueueShape' /\ WaitersShape' /\ FailuresCarried'
  BY DEF Reset, DestroyAll, ProcessInv, WaitingShape, QueueShape, WaitersShape,
         FailuresCarried, HasValue
<1>5. ManagedExactly' /\ SomebodyToTell'
  BY DEF Reset, DestroyAll, ProcessInv, ManagedExactly, SomebodyToTell, Live
<1> QED BY <1>1, <1>2, <1>3, <1>4, <1>5 DEF ProcessInv

(* Steps that move no token and end no process.                              *)
LEMMA OthersKeepInv ==
  ASSUME ProcessInv, Catch \/ MainCatches \/ UNCHANGED vars
  PROVE  ProcessInv'
<1>1. /\ UNCHANGED <<started, complete, managed, current, waiting, queue, waiters,
                     consumed, pauses, failed, values>>
  BY DEF Catch, MainCatches, vars
<1>u. uncaught' \in BOOLEAN
  <2>1. uncaught' = FALSE \/ uncaught' = uncaught
    BY DEF Catch, MainCatches, vars
  <2> QED BY <2>1, Zenon DEF ProcessInv, TypeOK
<1>r. raised' \in BOOLEAN /\ (raised' => raised)
  <2>1. CASE raised' = FALSE
    <3>1. ~raised'
      BY <2>1, Zenon
    <3>2. raised' \in BOOLEAN
      BY <2>1
    <3> QED BY <3>1, <3>2, Zenon
  <2>2. CASE raised' = raised
    <3>1. raised \in BOOLEAN
      BY DEF ProcessInv, TypeOK
    <3> QED BY <2>2, <3>1, Zenon
  <2>3. raised' = FALSE \/ raised' = raised
    BY DEF Catch, MainCatches, vars
  <2> QED BY <2>1, <2>2, <2>3, Zenon
<1>2. TypeOK'
  BY <1>1, <1>r, <1>u DEF ProcessInv, TypeOK
<1>3. CurrentIsLive'
  BY <1>1, <1>r DEF ProcessInv, CurrentIsLive, Live
<1>4. OneWakeup'
  BY <1>1 DEF ProcessInv, OneWakeup, Wakeups, Pending, Live
<1>5. WaitingShape' /\ QueueShape' /\ WaitersShape' /\ ManagedExactly' /\ FailuresCarried'
  BY <1>1 DEF ProcessInv, WaitingShape, QueueShape, WaitersShape, ManagedExactly,
              FailuresCarried, HasValue
<1>6. SomebodyToTell'
  BY <1>1 DEF ProcessInv, SomebodyToTell, Live
<1> QED BY <1>2, <1>3, <1>4, <1>5, <1>6 DEF ProcessInv

-----------------------------------------------------------------------------
(* The invariant holds before anything is bound.                             *)
LEMMA InitInv == Init => ProcessInv
<1> SUFFICES ASSUME Init PROVE ProcessInv
  OBVIOUS
<1>1. TypeOK
  <2>1. pauses \in 0..MaxPauses
    BY PausesAssumption DEF Init
  <2>2. raised \in BOOLEAN /\ uncaught \in BOOLEAN
    BY DEF Init
  <2> QED BY <2>1, <2>2 DEF Init, TypeOK
<1>2. CurrentIsLive
  BY DEF Init, CurrentIsLive
<1>3. /\ WaitingShape /\ QueueShape /\ WaitersShape /\ ManagedExactly
      /\ FailuresCarried /\ SomebodyToTell
  BY DEF Init, WaitingShape, QueueShape, WaitersShape, ManagedExactly, FailuresCarried,
         SomebodyToTell, Live
<1>4. OneWakeup
  BY OneWakeupDef, PendingDef DEF Init, Live
<1> QED BY <1>1, <1>2, <1>3, <1>4 DEF ProcessInv

(* Every step preserves the invariant.                                       *)
LEMMA NextInv == ProcessInv /\ [Next]_vars => ProcessInv'
<1> SUFFICES ASSUME ProcessInv, [Next]_vars PROVE ProcessInv'
  OBVIOUS
<1>1. ASSUME NEW c \in Coros, Bind(c) PROVE ProcessInv'
  BY <1>1, BindKeepsInv
<1>2. ASSUME NEW p \in Coros, NEW c \in Coros, Async(p, c) PROVE ProcessInv'
  BY <1>2, AsyncKeepsInv
<1>3. ASSUME NEW p \in Coros, Suspends(p) PROVE ProcessInv'
  BY <1>3, DelayKeepsInv, WaitKeepsInv, AwaitKeepsInv DEF Suspends
<1>4. ASSUME NEW p \in Coros, Return(p) PROVE ProcessInv'
  <2>1. raised' = FALSE
    BY <1>4 DEF Return, Running, ProcessInv, TypeOK
  <2> QED BY <1>4, <2>1, ReturnKeepsInv DEF Return, Running
<1>5. ASSUME NEW p \in Coros, Fail(p) PROVE ProcessInv'
  BY <1>5, ReturnKeepsInv DEF Fail
<1>6. ASSUME NEW t \in queue, Step(t) PROVE ProcessInv'
  BY <1>6, StepKeepsInv
<1>7. CASE Reset
  BY <1>7, ResetKeepsInv
<1>8. CASE Catch \/ MainCatches \/ UNCHANGED vars
  BY <1>8, OthersKeepInv
<1>9. ASSUME NEW p \in Coros, Wake(p) PROVE ProcessInv'
  BY <1>9, WakeKeepsInv
<1> QED BY <1>1, <1>2, <1>3, <1>4, <1>5, <1>6, <1>7, <1>8, <1>9 DEF Next, Activity, Ends

(* The inductive invariant: who runs is live, tokens sit where their process *)
(* left them, and every process has exactly the wakeups it needs.            *)
THEOREM Invariance == Spec => []ProcessInv
BY InitInv, NextInv, PTL DEF Spec

(* Every variable keeps its type.                                            *)
THEOREM TypeCorrect == Spec => []TypeOK
<1>1. ProcessInv => TypeOK
  BY DEF ProcessInv
<1> QED BY <1>1, Invariance, PTL

(* A live process that is not running has exactly one token that resumes it, *)
(* any other none: resume()'s assertion that the process is not complete     *)
(* never fails and no wait is lost.                                          *)
THEOREM OneWakeupHolds == Spec => []OneWakeup
<1>1. ProcessInv => OneWakeup
  BY DEF ProcessInv
<1> QED BY <1>1, Invariance, PTL

(* coroutines_ holds the bound processes that are not complete, no other.    *)
THEOREM ManagedExactlyHolds == Spec => []ManagedExactly
<1>1. ProcessInv => ManagedExactly
  BY DEF ProcessInv
<1> QED BY <1>1, Invariance, PTL

(* A live process has a completion token to leave its outcome in, a unique   *)
(* one exactly one: do_return never dereferences a null completion token.    *)
THEOREM SomebodyToTellHolds == Spec => []SomebodyToTell
<1>1. ProcessInv => SomebodyToTell
  BY DEF ProcessInv
<1> QED BY <1>1, Invariance, PTL

(* A scheduled completion carries an exception exactly when its process      *)
(* failed; otherwise the value is there to be taken.                         *)
THEOREM FailuresCarriedHolds == Spec => []FailuresCarried
<1>1. ProcessInv => FailuresCarried
  BY DEF ProcessInv
<1> QED BY <1>1, Invariance, PTL
==============================================================================
