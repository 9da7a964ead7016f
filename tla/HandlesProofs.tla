---------------------------- MODULE HandlesProofs ----------------------------
(* Proofs about Handles, for any finite numbers of coroutines and handles.   *)
EXTENDS Handles, FiniteSetTheorems, TLAPS

Slots == Vars \cup Coros
Maybe == Coros \cup {None}
Items == [does : {"unref", "drop", "frame", "destroy"}, c : Coros]
           \cup [does : {"clear"}, c : {None}]
           \cup [does : {"take"}, c : {None}, s : Slots, r : Slots]

Types ==
  /\ handle \in [Slots -> Maybe] /\ awaits \in [Coros -> Maybe] /\ parent \in [Coros -> Maybe]
  /\ count \in [Coros -> Int]
  /\ tokens \in [Coros -> SUBSET Coros]
  /\ queue \subseteq [of : Maybe, to : Coros] /\ IsFiniteSet(queue)
  /\ suspended \subseteq Coros /\ frame \subseteq Coros /\ data \subseteq Coros
  /\ created \subseteq Coros /\ started \subseteq Coros /\ complete \subseteq Coros
  /\ managed \subseteq Coros
  /\ current \in Maybe
  /\ todo \in Seq(Items)

(* Of what is to be done.                                                   *)
ToDo(what) == {todo[i].c : i \in {j \in DOMAIN todo : todo[j].does = what}}
Resetting == \E i \in DOMAIN todo : todo[i].does = "clear"
Going == {todo[i].c : i \in Frames}      \* coroutines whose frame is to be destroyed
Live == started \ complete

(* A handle is being assigned: its old value is given up, and nothing else   *)
(* happens before it takes the new one.                                      *)
Assigning ==
  \A i \in DOMAIN todo :
    todo[i].does = "take" =>
      /\ i = Len(todo) /\ \A j \in DOMAIN todo : j # i => todo[j].does = "unref"
      /\ handle[todo[i].s] = None
      /\ {todo[i].s, todo[i].r} \subseteq Mine(current)

(* Who destroys a frame refers to the data until afterwards.                 *)
Guarded ==
  \A i \in Frames : \E j \in DOMAIN todo :
    j > i /\ todo[j].does = "unref" /\ todo[j].c = todo[i].c

(* What reset() does: it destroys, clears the tokens, and lets go.           *)
ResetInv ==
  /\ \A i, j \in DOMAIN todo : todo[i].does = "clear" /\ todo[j].does = "clear" => i = j
  /\ \A i \in DOMAIN todo : todo[i].does = "destroy" =>
       /\ todo[i].c \in Live
       /\ \E j \in DOMAIN todo : j > i /\ todo[j].does = "clear"
  /\ \A i \in DOMAIN todo : todo[i].does = "frame" => todo[i].c \notin Live
  /\ Resetting => current = None /\ managed = {}
  /\ \A t \in queue, i \in DOMAIN todo : todo[i].does = "clear" =>
       \E j \in DOMAIN todo : j > i /\ todo[j].does = "unref" /\ todo[j].c = t.to
  /\ Live = managed \cup ToDo("destroy")

(* A live process has a frame; a coroutine that was never started loses it   *)
(* with its last handle.                                                     *)
LifeInv ==
  /\ data \cup frame \cup started \subseteq created
  /\ complete \subseteq started
  /\ Live \subseteq frame
  /\ suspended \subseteq frame \cap started
  /\ \A c \in Coros : /\ awaits[c] # None => c \in suspended /\ awaits[c] \in started
                      /\ handle[c] # None => c \in frame
                      /\ parent[c] # None => c \in started
  /\ \A c \in created \ started : c \notin frame \/ c \in Going =>
       /\ \A s \in Slots : handle[s] # c
       /\ c \notin ToDo("drop")

(* A live process is resumed by one token at most, wherever it is, and by    *)
(* none while it runs; after a reset there are tokens left of destroyed ones *)
(* only.                                                                     *)
WakeInv ==
  /\ \A t \in queue : t.to \in started /\ (t.of # None => t.of \in complete)
  /\ \A d \in Coros : /\ tokens[d] # {} => d \in started
                      /\ tokens[d] \subseteq started
  /\ \A t, u \in queue : t.to = u.to /\ t.to \in Live => t = u
  /\ \A t \in queue, d \in Coros : t.to \in Live => t.to \notin tokens[d]
  /\ \A d, e \in Coros, p \in Live : p \in tokens[d] /\ p \in tokens[e] => d = e
  /\ current # None => /\ current \in Live /\ current \notin suspended
                       /\ \A t \in queue : t.to # current
                       /\ \A d \in Coros : current \notin tokens[d]
  /\ ~Resetting => /\ \A t \in queue : t.to \in Live
                   /\ \A d \in Live : tokens[d] \subseteq Live

HandlesInv ==
  /\ Types
  /\ CountsReferences
  /\ FramesAreThere
  /\ Assigning
  /\ Guarded
  /\ ResetInv
  /\ LifeInv
  /\ WakeInv

-----------------------------------------------------------------------------
(* Counting.                                                                 *)
In(c, S) == IF c \in S THEN 1 ELSE 0
Same(x, c) == IF x = c THEN 1 ELSE 0

(* Two sets that differ in one element.                                      *)
LEMMA OneChanges ==
  ASSUME NEW S, NEW T, NEW x, IsFiniteSet(S), S \ {x} = T \ {x}
  PROVE  /\ IsFiniteSet(T) /\ Cardinality(S) \in Nat /\ Cardinality(T) \in Nat
         /\ Cardinality(T) = Cardinality(S) - In(x, S) + In(x, T)
<1> DEFINE R == S \ {x}
<1>1. IsFiniteSet(R) /\ Cardinality(R) = IF x \in S THEN Cardinality(S) - 1 ELSE Cardinality(S)
  BY FS_RemoveElement
<1>2. x \notin R /\ IsFiniteSet(R \cup {x}) /\ Cardinality(R \cup {x}) = Cardinality(R) + 1
  BY <1>1, FS_AddElement
<1>3. T = IF x \in T THEN R \cup {x} ELSE R
  OBVIOUS
<1>4. IsFiniteSet(T) /\ Cardinality(T) = IF x \in T THEN Cardinality(R) + 1 ELSE Cardinality(R)
  BY <1>1, <1>2, <1>3
<1>5. Cardinality(S) \in Nat /\ Cardinality(R) \in Nat /\ Cardinality(T) \in Nat
  BY <1>1, <1>4, FS_CardinalityType
<1> QED
  BY <1>1, <1>4, <1>5 DEF In

(* The places that refer to c.                                               *)
Holders(f, c) == Cardinality({s \in DOMAIN f : f[s] = c})

LEMMA HoldersType ==
  ASSUME NEW D, NEW R, NEW f \in [D -> R], NEW c, IsFiniteSet(D)
  PROVE  /\ Holders(f, c) \in Nat
         /\ Holders(f, c) = 0 <=> \A s \in D : f[s] # c
<1>1. IsFiniteSet({s \in D : f[s] = c})
  BY FS_Subset
<1> QED
  BY <1>1, FS_CardinalityType, FS_EmptySet, SMTT(40) DEF Holders

(* One place comes to refer to v.                                            *)
LEMMA HoldersChange ==
  ASSUME NEW f, f = [s \in DOMAIN f |-> f[s]], IsFiniteSet(DOMAIN f),
         NEW c, NEW x \in DOMAIN f, NEW v
  PROVE  Holders([f EXCEPT ![x] = v], c) = Holders(f, c) - Same(f[x], c) + Same(v, c)
<1> DEFINE g == [f EXCEPT ![x] = v]
           S == {s \in DOMAIN f : f[s] = c}
           T == {s \in DOMAIN f : g[s] = c}
<1>1. IsFiniteSet(S)
  BY FS_Subset
<1>2. S \ {x} = T \ {x}
  OBVIOUS
<1>3. Cardinality(T) = Cardinality(S) - In(x, S) + In(x, T)
  BY <1>1, <1>2, OneChanges
<1>4. In(x, S) = Same(f[x], c) /\ In(x, T) = Same(v, c)
  BY DEF In, Same
<1>5. Holders(f, c) = Cardinality(S) /\ Holders(g, c) = Cardinality(T)
  BY DEF Holders
<1> QED
  BY <1>3, <1>4, <1>5

(* The coroutines whose tokens resume c.                                     *)
Waits(tok, c) == Cardinality({d \in Coros : c \in tok[d]})

LEMMA WaitsType ==
  ASSUME NEW tok \in [Coros -> SUBSET Coros], NEW c
  PROVE  /\ Waits(tok, c) \in Nat
         /\ Waits(tok, c) = 0 <=> \A d \in Coros : c \notin tok[d]
<1>1. IsFiniteSet({d \in Coros : c \in tok[d]})
  BY FS_Subset, FinitelyMany
<1> QED
  BY <1>1, FS_CardinalityType, FS_EmptySet DEF Waits

LEMMA WaitsChange ==
  ASSUME NEW tok \in [Coros -> SUBSET Coros], NEW c, NEW d \in Coros, NEW new
  PROVE  Waits([tok EXCEPT ![d] = new], c) = Waits(tok, c) - In(c, tok[d]) + In(c, new)
<1> DEFINE g == [tok EXCEPT ![d] = new]
           S == {e \in Coros : c \in tok[e]}
           T == {e \in Coros : c \in g[e]}
<1>1. IsFiniteSet(S)
  BY FS_Subset, FinitelyMany
<1>2. S \ {d} = T \ {d}
  OBVIOUS
<1>3. Cardinality(T) = Cardinality(S) - In(d, S) + In(d, T)
  BY <1>1, <1>2, OneChanges
<1>4. In(d, S) = In(c, tok[d]) /\ In(d, T) = In(c, new)
  BY DEF In
<1> QED
  BY <1>3, <1>4 DEF Waits

(* The tokens of the queue that resume c.                                    *)
Resumes(q, c) == Cardinality({t \in q : t.to = c})

LEMMA ResumesType ==
  ASSUME NEW q, NEW c, IsFiniteSet(q)
  PROVE  /\ Resumes(q, c) \in Nat
         /\ Resumes(q, c) = 0 <=> \A t \in q : t.to # c
<1>1. IsFiniteSet({t \in q : t.to = c})
  BY FS_Subset
<1> QED
  BY <1>1, FS_CardinalityType, FS_EmptySet DEF Resumes

(* Of the tokens that resume c, one comes or goes.                           *)
LEMMA ResumesChange ==
  ASSUME NEW q, NEW r, NEW c, NEW t, IsFiniteSet(q), t.to = c,
         {u \in q : u.to = c} \ {t} = {u \in r : u.to = c} \ {t}
  PROVE  Resumes(r, c) = Resumes(q, c) - In(t, q) + In(t, r)
<1> DEFINE S == {u \in q : u.to = c}
           T == {u \in r : u.to = c}
<1>1. IsFiniteSet(S)
  BY FS_Subset
<1>2. Cardinality(T) = Cardinality(S) - In(t, S) + In(t, T)
  BY <1>1, OneChanges
<1>3. In(t, S) = In(t, q) /\ In(t, T) = In(t, r)
  BY DEF In
<1> QED
  BY <1>2, <1>3 DEF Resumes

(* The references to c that are still to be given up.                        *)
Gives(item, c) == IF item.c = c /\ item.does \in {"unref", "drop"} THEN 1 ELSE 0
Givers(seq, c) == {i \in DOMAIN seq : seq[i].c = c /\ seq[i].does \in {"unref", "drop"}}
Given(seq, c) == Cardinality(Givers(seq, c))

LEMMA GivenType ==
  ASSUME NEW X, NEW seq \in Seq(X), NEW c
  PROVE  /\ IsFiniteSet(Givers(seq, c)) /\ Given(seq, c) \in Nat
         /\ Given(seq, c) = 0 <=> Givers(seq, c) = {}
<1>1. IsFiniteSet(DOMAIN seq)
  BY FS_Interval
<1>2. IsFiniteSet(Givers(seq, c))
  BY <1>1, FS_Subset DEF Givers
<1> QED
  BY <1>2, FS_CardinalityType, FS_EmptySet DEF Given

LEMMA Joined ==
  ASSUME NEW X, NEW a \in Seq(X), NEW b \in Seq(X)
  PROVE  /\ a \o b \in Seq(X) /\ Len(a \o b) = Len(a) + Len(b)
         /\ \A i \in 1..Len(a) : (a \o b)[i] = a[i]
         /\ \A i \in 1..Len(b) : (a \o b)[Len(a) + i] = b[i]
OBVIOUS

LEMMA GivenConcat ==
  ASSUME NEW X, NEW a \in Seq(X), NEW b \in Seq(X), NEW c
  PROVE  Given(a \o b, c) = Given(a, c) + Given(b, c)
<1> DEFINE n == Len(a)
           A == Givers(a, c)
           S == Givers(b, c)
           T == {i + n : i \in S}
           f == [i \in S |-> i + n]
<1>1. IsFiniteSet(A) /\ IsFiniteSet(S)
  BY GivenType
<1>2. n \in Nat /\ S \subseteq Nat \ {0} /\ A \subseteq 1..n
  BY DEF Givers
<1>3. f \in Bijection(S, T)
  <2>1. f \in [S -> T] /\ \A t \in T : \E i \in S : f[i] = t
    OBVIOUS
  <2>2. \A i, j \in S : f[i] = f[j] => i = j
    BY <1>2
  <2> QED
    BY <2>1, <2>2 DEF Bijection, Injection, Surjection, IsInjective
<1>4. IsFiniteSet(T) /\ Cardinality(T) = Cardinality(S)
  BY <1>1, <1>3, FS_Bijection DEF ExistsBijection
<1>5. Givers(a \o b, c) = A \cup T
  <2>1. ASSUME NEW i \in Givers(a \o b, c) PROVE i \in A \cup T
    <3>1. CASE i <= n
      BY <2>1, <3>1 DEF Givers
    <3>2. CASE i > n
      <4>1. i - n \in S
        BY <2>1, <3>2 DEF Givers
      <4>2. i = (i - n) + n
        BY <2>1 DEF Givers
      <4> QED
        BY <4>1, <4>2
    <3> QED
      BY <2>1, <3>1, <3>2 DEF Givers
  <2>2. ASSUME NEW i \in A PROVE i \in Givers(a \o b, c)
    BY DEF Givers
  <2>3. ASSUME NEW i \in S PROVE i + n \in Givers(a \o b, c)
    BY DEF Givers
  <2> QED
    BY <2>1, <2>2, <2>3
<1>6. A \cap T = {}
  BY <1>2
<1>7. Cardinality(A \cup T) = Cardinality(A) + Cardinality(T) - Cardinality(A \cap T)
  <2> HIDE DEF A, T
  <2> QED
    BY <1>1, <1>4, FS_Union
<1>8. Cardinality(A \cap T) = 0 /\ Cardinality(A) \in Nat /\ Cardinality(S) \in Nat
  BY <1>1, <1>6, FS_EmptySet, FS_CardinalityType
<1>9. Given(a \o b, c) = Cardinality(A \cup T) /\ Given(a, c) = Cardinality(A) /\ Given(b, c) = Cardinality(S)
  BY <1>5 DEF Given
<1> HIDE DEF A, T, S
<1> QED
  BY <1>4, <1>7, <1>8, <1>9

LEMMA GivenShort ==
  ASSUME NEW c
  PROVE  Given(<< >>, c) = 0 /\ \A item : Given(<<item>>, c) = Gives(item, c)
<1>1. Givers(<< >>, c) = {}
  BY DEF Givers
<1>2. ASSUME NEW item PROVE Given(<<item>>, c) = Gives(item, c)
  <2>1. Givers(<<item>>, c) = IF Gives(item, c) = 1 THEN {1} ELSE {}
    BY DEF Givers, Gives
  <2> QED
    BY <2>1, FS_EmptySet, FS_Singleton DEF Given, Gives
<1> QED
  BY <1>1, <1>2, FS_EmptySet DEF Given

LEMMA GivenHead ==
  ASSUME NEW X, NEW seq \in Seq(X), seq # << >>, NEW c
  PROVE  Given(seq, c) = Gives(Head(seq), c) + Given(Tail(seq), c)
<1>1. seq = <<Head(seq)>> \o Tail(seq) /\ <<Head(seq)>> \in Seq(X) /\ Tail(seq) \in Seq(X)
  OBVIOUS
<1>2. Given(<<Head(seq)>> \o Tail(seq), c) = Given(<<Head(seq)>>, c) + Given(Tail(seq), c)
  BY <1>1, GivenConcat
<1> QED
  BY <1>1, <1>2, GivenShort

(* SetToSeqs(S): every element of S once.                                    *)
LEMMA Enumerates ==
  ASSUME NEW S, IsFiniteSet(S), NEW order \in SetToSeqs(S)
  PROVE  /\ order \in Seq(S)
         /\ \A i, j \in DOMAIN order : order[i] = order[j] => i = j
         /\ \A x \in S : \E i \in DOMAIN order : order[i] = x
<1> DEFINE n == Cardinality(S)
           D == 1..n
           R == {order[i] : i \in D}
<1>1. n \in Nat /\ order \in [D -> S] /\ \A i, j \in D : order[i] = order[j] => i = j
  BY FS_CardinalityType DEF SetToSeqs
<1>2. order \in Bijection(D, R)
  BY <1>1 DEF Bijection, Injection, Surjection, IsInjective
<1>3. IsFiniteSet(D) /\ Cardinality(D) = n
  BY <1>1, FS_Interval
<1>4. Cardinality(R) = n
  BY <1>2, <1>3, FS_Bijection DEF ExistsBijection
<1>5. R = S
  BY <1>1, <1>4, FS_Subset
<1> QED
  BY <1>1, <1>5

LEMMA GivenUnrefs ==
  ASSUME NEW S, IsFiniteSet(S), NEW order \in SetToSeqs(S), NEW c
  PROVE  /\ Unrefs(order) \in Seq({Does("unref", x) : x \in S})
         /\ Given(Unrefs(order), c) = In(c, S)
<1>1. /\ order \in Seq(S)
      /\ \A i, j \in DOMAIN order : order[i] = order[j] => i = j
      /\ \A x \in S : \E i \in DOMAIN order : order[i] = x
  BY Enumerates
<1>2. /\ Unrefs(order) \in Seq({Does("unref", x) : x \in S})
      /\ DOMAIN Unrefs(order) = DOMAIN order
      /\ \A i \in DOMAIN order : Unrefs(order)[i] = Does("unref", order[i])
  BY <1>1 DEF Unrefs
<1>3. Givers(Unrefs(order), c) = {i \in DOMAIN order : order[i] = c}
  BY <1>1, <1>2 DEF Givers, Does
<1>4. CASE c \in S
  <2>1. PICK i \in DOMAIN order : order[i] = c
    BY <1>1, <1>4
  <2>2. Givers(Unrefs(order), c) = {i}
    BY <1>1, <1>3, <2>1
  <2> QED
    BY <1>2, <1>4, <2>2, FS_Singleton DEF Given, In
<1>5. CASE c \notin S
  <2>1. Givers(Unrefs(order), c) = {}
    BY <1>1, <1>3, <1>5
  <2> QED
    BY <1>2, <1>5, <2>1, FS_EmptySet DEF Given, In
<1> QED
  BY <1>4, <1>5

LEMMA OneOf == ASSUME NEW c, NEW S PROVE Cardinality({c} \cap S) = In(c, S)
<1>1. {c} \cap S = IF c \in S THEN {c} ELSE {}
  OBVIOUS
<1> QED
  BY <1>1, FS_EmptySet, FS_Singleton DEF In

LEMMA IsCurrent == ASSUME NEW c, NEW x PROVE Cardinality({c} \cap {x}) = Same(x, c)
BY OneOf DEF In, Same

(* References(c), as a sum of the places above.                              *)
LEMMA ReferencesAre ==
  ASSUME Types, NEW c \in Coros
  PROVE  References(c) =
           Holders(handle, c) + Holders(awaits, c) + In(c, frame) + 2 * In(c, suspended)
           + In(c, managed) + Waits(tokens, c) + Resumes(queue, c) + Holders(parent, c)
           + 2 * Same(current, c) + Given(todo, c)
<1>1. DOMAIN awaits = Coros /\ DOMAIN parent = Coros
  BY DEF Types
<1> QED
  BY <1>1, OneOf, IsCurrent DEF References, Size, Holders, Waits, Resumes, Given, Givers

LEMMA PlacesFinite == IsFiniteSet(Slots)
BY FinitelyMany, FS_Union DEF Slots

(* The terms of that sum, and what the invariant says of them.               *)
LEMMA Terms ==
  ASSUME Types, NEW c \in Coros
  PROVE  /\ Holders(handle, c) \in Nat /\ Holders(awaits, c) \in Nat /\ Waits(tokens, c) \in Nat
         /\ Resumes(queue, c) \in Nat /\ Holders(parent, c) \in Nat /\ Given(todo, c) \in Nat
         /\ (Holders(handle, c) = 0 <=> \A s \in Slots : handle[s] # c)
         /\ (Holders(awaits, c) = 0 <=> \A d \in Coros : awaits[d] # c)
         /\ (Holders(parent, c) = 0 <=> \A d \in Coros : parent[d] # c)
         /\ (Waits(tokens, c) = 0 <=> \A d \in Coros : c \notin tokens[d])
         /\ (Resumes(queue, c) = 0 <=> \A t \in queue : t.to # c)
         /\ (Given(todo, c) = 0 <=> Givers(todo, c) = {})
<1>1. /\ handle \in [Slots -> Maybe] /\ awaits \in [Coros -> Maybe] /\ parent \in [Coros -> Maybe]
      /\ tokens \in [Coros -> SUBSET Coros] /\ IsFiniteSet(queue) /\ todo \in Seq(Items)
  BY DEF Types
<1>2. Holders(handle, c) \in Nat /\ (Holders(handle, c) = 0 <=> \A s \in Slots : handle[s] # c)
  BY <1>1, HoldersType, PlacesFinite
<1>3. Holders(awaits, c) \in Nat /\ (Holders(awaits, c) = 0 <=> \A d \in Coros : awaits[d] # c)
  BY <1>1, HoldersType, FinitelyMany
<1>4. Holders(parent, c) \in Nat /\ (Holders(parent, c) = 0 <=> \A d \in Coros : parent[d] # c)
  BY <1>1, HoldersType, FinitelyMany
<1>5. Waits(tokens, c) \in Nat /\ (Waits(tokens, c) = 0 <=> \A d \in Coros : c \notin tokens[d])
  BY <1>1, WaitsType
<1>6. Resumes(queue, c) \in Nat /\ (Resumes(queue, c) = 0 <=> \A t \in queue : t.to # c)
  BY <1>1, ResumesType
<1>7. Given(todo, c) \in Nat /\ (Given(todo, c) = 0 <=> Givers(todo, c) = {})
  BY <1>1, GivenType
<1> QED
  BY <1>2, <1>3, <1>4, <1>5, <1>6, <1>7

TermsAre(c) ==
  /\ Holders(handle, c) \in Nat /\ Holders(awaits, c) \in Nat /\ Waits(tokens, c) \in Nat
  /\ Resumes(queue, c) \in Nat /\ Holders(parent, c) \in Nat /\ Given(todo, c) \in Nat

LEMMA TermsNow == \A c \in Coros : Types => TermsAre(c)
BY Terms DEF TermsAre

LEMMA TermsNext == (\A c \in Coros : Types => TermsAre(c))'
BY TermsNow, PTL

Unused(c) ==
  /\ \A s \in Slots : handle[s] # c
  /\ \A d \in Coros : awaits[d] # c /\ parent[d] # c /\ c \notin tokens[d]
  /\ c \notin frame /\ c \notin suspended /\ c \notin managed /\ current # c
  /\ \A t \in queue : t.to # c
  /\ Givers(todo, c) = {}

LEMMA InUse ==
  ASSUME Types, CountsReferences, NEW c \in Coros
  PROVE  /\ count[c] \in Nat
         /\ c \in data <=> count[c] > 0
         /\ count[c] = 0 <=> Unused(c)
<1>1. /\ count[c] = References(c)
      /\ c \in data <=> count[c] > 0
  BY DEF CountsReferences
<1>2. count[c] =
         Holders(handle, c) + Holders(awaits, c) + In(c, frame) + 2 * In(c, suspended)
         + In(c, managed) + Waits(tokens, c) + Resumes(queue, c) + Holders(parent, c)
         + 2 * Same(current, c) + Given(todo, c)
  BY <1>1, ReferencesAre
<1>3. /\ Holders(handle, c) \in Nat /\ Holders(awaits, c) \in Nat /\ Waits(tokens, c) \in Nat
      /\ Resumes(queue, c) \in Nat /\ Holders(parent, c) \in Nat /\ Given(todo, c) \in Nat
  BY Terms
<1>4. /\ In(c, frame) \in Nat /\ In(c, suspended) \in Nat /\ In(c, managed) \in Nat
      /\ Same(current, c) \in Nat
      /\ (In(c, frame) = 0 <=> c \notin frame) /\ (In(c, suspended) = 0 <=> c \notin suspended)
      /\ (In(c, managed) = 0 <=> c \notin managed) /\ (Same(current, c) = 0 <=> current # c)
  BY DEF In, Same
<1>5. /\ count[c] \in Nat
      /\ count[c] = 0 <=> (/\ Holders(handle, c) = 0 /\ Holders(awaits, c) = 0 /\ Holders(parent, c) = 0
                           /\ Waits(tokens, c) = 0 /\ Resumes(queue, c) = 0 /\ Given(todo, c) = 0
                           /\ In(c, frame) = 0 /\ In(c, suspended) = 0 /\ In(c, managed) = 0
                           /\ Same(current, c) = 0)
  <2> DEFINE a == Holders(handle, c)
             b == Holders(awaits, c)
             d == In(c, frame)
             e == In(c, suspended)
             f == In(c, managed)
             g == Waits(tokens, c)
             h == Resumes(queue, c)
             i == Holders(parent, c)
             j == Same(current, c)
             k == Given(todo, c)
  <2>1. a \in Nat /\ b \in Nat /\ d \in Nat /\ e \in Nat /\ f \in Nat
    BY <1>3, <1>4
  <2>2. g \in Nat /\ h \in Nat /\ i \in Nat /\ j \in Nat /\ k \in Nat
    BY <1>3, <1>4
  <2>3. count[c] = a + b + d + 2 * e + f + g + h + i + 2 * j + k
    BY <1>2
  <2> HIDE DEF a, b, d, e, f, g, h, i, j, k
  <2>4. /\ count[c] \in Nat
        /\ count[c] = 0 <=> (/\ a = 0 /\ b = 0 /\ i = 0 /\ g = 0 /\ h = 0 /\ k = 0
                             /\ d = 0 /\ e = 0 /\ f = 0 /\ j = 0)
    BY <2>1, <2>2, <2>3
  <2> QED
    BY <2>4 DEF a, b, d, e, f, g, h, i, j, k
<1> QED
  BY <1>1, <1>4, <1>5, Terms DEF Unused

(* Half of what a step has to show of the counts: an action that neither     *)
(* makes nor deletes data gives up no last reference.                        *)
LEMMA SameData ==
  ASSUME Types', CountsReferences,
         \A c \in Coros : count'[c] = References(c)',
         data' = data,
         \A c \in Coros : count[c] > 0 <=> count'[c] > 0
  PROVE  CountsReferences'
BY DEF CountsReferences

(* In groups, so that a step has to account for few.                         *)
Places(c) == Holders(awaits, c) + In(c, frame) + 2 * In(c, suspended)
Ties(c) == In(c, managed) + Waits(tokens, c) + Resumes(queue, c) + Holders(parent, c)

Grouped(c) ==
  /\ Holders(handle, c) \in Int /\ Given(todo, c) \in Int /\ Places(c) \in Int
  /\ Ties(c) \in Int /\ Same(current, c) \in Int
  /\ References(c) = Holders(handle, c) + Given(todo, c) + Places(c) + Ties(c) + 2 * Same(current, c)

LEMMA Before == \A c \in Coros : Types => Grouped(c)
<1> SUFFICES ASSUME NEW c \in Coros, Types PROVE Grouped(c)
  OBVIOUS
<1>1. /\ Holders(handle, c) \in Nat /\ Holders(awaits, c) \in Nat /\ Waits(tokens, c) \in Nat
      /\ Resumes(queue, c) \in Nat /\ Holders(parent, c) \in Nat /\ Given(todo, c) \in Nat
  BY Terms
<1>2. /\ In(c, frame) \in Nat /\ In(c, suspended) \in Nat /\ In(c, managed) \in Nat
      /\ Same(current, c) \in Nat
  BY DEF In, Same
<1> DEFINE a == Holders(handle, c)
           b == Holders(awaits, c)
           d == In(c, frame)
           e == In(c, suspended)
           f == In(c, managed)
           g == Waits(tokens, c)
           h == Resumes(queue, c)
           i == Holders(parent, c)
           j == Same(current, c)
           k == Given(todo, c)
<1>3. a \in Nat /\ b \in Nat /\ d \in Nat /\ e \in Nat /\ f \in Nat
  BY <1>1, <1>2
<1>4. g \in Nat /\ h \in Nat /\ i \in Nat /\ j \in Nat /\ k \in Nat
  BY <1>1, <1>2
<1>5. References(c) = a + b + d + 2 * e + f + g + h + i + 2 * j + k
  BY ReferencesAre
<1>6. Places(c) = b + d + 2 * e /\ Ties(c) = f + g + h + i
  BY DEF Places, Ties
<1> HIDE DEF a, b, d, e, f, g, h, i, j, k
<1>7. /\ Places(c) \in Int /\ Ties(c) \in Int /\ a \in Int /\ j \in Int /\ k \in Int
      /\ References(c) = a + k + Places(c) + Ties(c) + 2 * j
  BY <1>3, <1>4, <1>5, <1>6
<1> QED
  BY <1>7 DEF a, j, k, Grouped

LEMMA After == (\A c \in Coros : Types => Grouped(c))'
BY Before, PTL

LEMMA ItemTypes ==
  ASSUME NEW x \in Items
  PROVE  /\ x.does \in {"unref", "drop", "frame", "destroy", "clear", "take"}
         /\ x.does \in {"unref", "drop", "frame", "destroy"} => x.c \in Coros
         /\ x.does \in {"clear", "take"} => x.c = None
         /\ x.does = "take" => x.s \in Slots /\ x.r \in Slots
BY DEF Items

LEMMA DoesTypes ==
  ASSUME NEW c \in Coros
  PROVE  /\ \A what \in {"unref", "drop", "frame", "destroy"} :
              Does(what, c) \in Items /\ Does(what, c).does = what /\ Does(what, c).c = c
         /\ Does("clear", None) \in Items
         /\ \A d : /\ Gives(Does("unref", c), d) = Same(c, d) /\ Gives(Does("drop", c), d) = Same(c, d)
                   /\ Gives(Does("frame", c), d) = 0 /\ Gives(Does("destroy", c), d) = 0
BY DEF Items, Does, Gives, Same

(* What a handle leaves behind.                                              *)
LEMMA DropsAre ==
  ASSUME NEW x \in Maybe
  PROVE  /\ Drops(x) \in Seq(Items)
         /\ \A i \in DOMAIN Drops(x) : x \in Coros /\ Drops(x)[i] = Does("drop", x)
         /\ \A c \in Coros : Given(Drops(x), c) = Same(x, c)
<1>1. CASE x = None
  <2>1. Drops(x) = << >>
    BY <1>1 DEF Drops
  <2>2. \A c \in Coros : Same(x, c) = 0
    BY <1>1, Names DEF Same
  <2> QED
    BY <2>1, <2>2, GivenShort
<1>2. CASE x # None
  <2>1. x \in Coros /\ Drops(x) = <<Does("drop", x)>>
    BY <1>2 DEF Drops, Maybe
  <2>2. Does("drop", x) \in Items /\ \A c : Gives(Does("drop", x), c) = Same(x, c)
    BY <2>1, DoesTypes
  <2> QED
    BY <2>1, <2>2, GivenShort
<1> QED
  BY <1>1, <1>2

-----------------------------------------------------------------------------
(* Steps of the program, which are taken when nothing is to be done.         *)
Quiet == \A i \in DOMAIN todo : todo[i].does \in {"unref", "drop"}

NoFrames == \A i \in DOMAIN todo : todo[i].does \in {"unref", "drop", "take"}

LEMMA NoFramesToDo ==
  Types /\ NoFrames => /\ ~Resetting /\ Frames = {} /\ Going = {} /\ ToDo("destroy") = {}
BY DEF NoFrames, Resetting, Frames, Going, ToDo

LEMMA NoFramesInv ==
  Types /\ CountsReferences /\ NoFrames /\ Assigning /\ Live = managed /\ LifeInv /\ WakeInv
    => HandlesInv
<1> SUFFICES ASSUME Types, CountsReferences, NoFrames, Assigning, Live = managed, LifeInv, WakeInv
             PROVE  HandlesInv
  OBVIOUS
<1>1. ~Resetting /\ Frames = {} /\ Going = {} /\ ToDo("destroy") = {}
  BY NoFramesToDo
<1>2. ResetInv /\ Guarded
  BY <1>1 DEF ResetInv, NoFrames, Guarded
<1>3. FramesAreThere
  BY <1>1 DEF FramesAreThere, LifeInv, WakeInv, Live
<1> QED
  BY <1>1, <1>2, <1>3 DEF HandlesInv

LEMMA QuietToDo ==
  Types /\ Quiet => ~Resetting /\ Frames = {} /\ Going = {} /\ ToDo("destroy") = {}
BY NoFramesToDo DEF Quiet, NoFrames

LEMMA QuietInv ==
  Types /\ CountsReferences /\ Quiet /\ Live = managed /\ LifeInv /\ WakeInv => HandlesInv
BY NoFramesInv DEF Quiet, NoFrames, Assigning

LEMMA NoFramesToDoNext ==
  (Types /\ NoFrames => /\ ~Resetting /\ Frames = {} /\ Going = {} /\ ToDo("destroy") = {})'
BY NoFramesToDo, PTL

LEMMA NoFramesInvNext ==
  (Types /\ CountsReferences /\ NoFrames /\ Assigning /\ Live = managed /\ LifeInv /\ WakeInv
     => HandlesInv)'
BY NoFramesInv, PTL

LEMMA QuietToDoNext ==
  (Types /\ Quiet => ~Resetting /\ Frames = {} /\ Going = {} /\ ToDo("destroy") = {})'
BY QuietToDo, PTL

LEMMA QuietInvNext ==
  (Types /\ CountsReferences /\ Quiet /\ Live = managed /\ LifeInv /\ WakeInv => HandlesInv)'
BY QuietInv, PTL

LEMMA AtRest ==
  ASSUME HandlesInv, todo = << >>
  PROVE  /\ Quiet /\ ~Resetting /\ Frames = {} /\ Going = {}
         /\ \A what : ToDo(what) = {}
         /\ Live = managed
         /\ \A c : Given(todo, c) = 0
<1>1. Quiet /\ \A what : ToDo(what) = {}
  BY DEF Quiet, ToDo
<1>2. ~Resetting /\ Frames = {} /\ Going = {}
  BY <1>1, QuietToDo DEF HandlesInv
<1>3. Live = managed
  BY <1>1 DEF HandlesInv, ResetInv
<1>4. \A c : Given(todo, c) = 0
  BY GivenShort
<1> QED
  BY <1>1, <1>2, <1>3, <1>4

LEMMA NoneIsNot == ASSUME NEW c \in Coros PROVE Same(None, c) = 0
BY Names DEF Same

LEMMA MineAre ==
  ASSUME HandlesInv, NEW a \in Maybe, Acts(a)
  PROVE  /\ Mine(a) \subseteq Slots
         /\ \A s \in Mine(a) : s \in Coros => s = a /\ s = current /\ s \in Live /\ s \in frame
         /\ \A s \in Mine(a) : handle[s] \in Maybe
         /\ a # None => a \in Coros /\ a \in Live /\ a \in frame /\ a \in created /\ a \in started
                        /\ a \notin suspended /\ awaits[a] = None
BY Names DEF HandlesInv, Types, Mine, Slots, Maybe, Acts, LifeInv, WakeInv, Live

LEMMA HandleChange ==
  ASSUME NEW f \in [Slots -> Maybe], NEW s \in Slots, NEW c \in Coros, NEW v
  PROVE  /\ Holders([f EXCEPT ![s] = v], c) = Holders(f, c) - Same(f[s], c) + Same(v, c)
         /\ Holders([f EXCEPT ![s] = None], c) = Holders(f, c) - Same(f[s], c)
         /\ Holders(f, c) \in Nat
<1>1. /\ f = [x \in DOMAIN f |-> f[x]] /\ DOMAIN f = Slots
  OBVIOUS
<1>2. ASSUME NEW w
      PROVE  Holders([f EXCEPT ![s] = w], c) = Holders(f, c) - Same(f[s], c) + Same(w, c)
  BY <1>1, HoldersChange, PlacesFinite, ZenonT(40)
<1>3. Holders(f, c) \in Nat
  BY <1>1, HoldersType, PlacesFinite
<1>4. Same(None, c) = 0 /\ Same(f[s], c) \in Nat
  BY NoneIsNot DEF Same
<1>5. Holders([f EXCEPT ![s] = None], c) = Holders(f, c) - Same(f[s], c) + 0
  BY <1>2, <1>4
<1>6. \A x, y \in Nat : x - y + 0 = x - y
  OBVIOUS
<1>7. Holders([f EXCEPT ![s] = None], c) = Holders(f, c) - Same(f[s], c)
  BY <1>3, <1>4, <1>5, <1>6
<1> QED
  BY <1>2, <1>3, <1>7

LEMMA CoroChange ==
  ASSUME NEW f \in [Coros -> Maybe], NEW s \in Coros, NEW c \in Coros, NEW v
  PROVE  /\ Holders([f EXCEPT ![s] = v], c) = Holders(f, c) - Same(f[s], c) + Same(v, c)
         /\ Holders([f EXCEPT ![s] = None], c) = Holders(f, c) - Same(f[s], c)
         /\ Holders(f, c) \in Nat
<1>1. /\ f = [x \in DOMAIN f |-> f[x]] /\ DOMAIN f = Coros
  OBVIOUS
<1>2. ASSUME NEW w
      PROVE  Holders([f EXCEPT ![s] = w], c) = Holders(f, c) - Same(f[s], c) + Same(w, c)
  BY <1>1, HoldersChange, FinitelyMany, ZenonT(40)
<1>3. Holders(f, c) \in Nat
  BY <1>1, HoldersType, FinitelyMany
<1>4. Same(None, c) = 0 /\ Same(f[s], c) \in Nat
  BY NoneIsNot DEF Same
<1>5. Holders([f EXCEPT ![s] = None], c) = Holders(f, c) - Same(f[s], c) + 0
  BY <1>2, <1>4
<1>6. \A x, y \in Nat : x - y + 0 = x - y
  OBVIOUS
<1>7. Holders([f EXCEPT ![s] = None], c) = Holders(f, c) - Same(f[s], c)
  BY <1>3, <1>4, <1>5, <1>6
<1> QED
  BY <1>2, <1>3, <1>7

(* A handle is taken away: Drop, AwaitComplete.                              *)
LetsGo(a, s) ==
  /\ Acts(a)
  /\ handle' = [handle EXCEPT ![s] = None]
  /\ todo' = Drops(handle[s])
  /\ UNCHANGED <<awaits, suspended, frame, data, count, life, tokens, queue, current, lost>>

LEMMA LetsGoKeeps ==
  ASSUME HandlesInv, NEW a \in Maybe, NEW s \in Mine(a), LetsGo(a, s)
  PROVE  HandlesInv'
<1> DEFINE d == handle[s]
<1>1. Acts(a) /\ todo = << >> /\ s \in Slots /\ d \in Maybe /\ Types
  BY MineAre DEF LetsGo, Acts, HandlesInv
<1>2. /\ Drops(d) \in Seq(Items)
      /\ \A i \in DOMAIN Drops(d) : d \in Coros /\ Drops(d)[i] = Does("drop", d)
      /\ \A c \in Coros : Given(Drops(d), c) = Same(d, c)
  BY <1>1, DropsAre
<1>3. Types'
  BY <1>1, <1>2 DEF LetsGo, Types, life, Maybe
<1>4. CountsReferences'
  <2>1. ASSUME NEW c \in Coros PROVE count'[c] = References(c)'
    <3>1. Holders(handle', c) = Holders(handle, c) - Same(d, c)
      BY <1>1, HandleChange DEF LetsGo, Types
    <3>2. Given(todo, c) = 0 /\ Given(todo', c) = Same(d, c)
      BY <1>1, <1>2, AtRest DEF LetsGo
    <3>3. Places(c)' = Places(c) /\ Ties(c)' = Ties(c) /\ current' = current /\ count' = count
      BY DEF LetsGo, Places, Ties, life
    <3>4. Grouped(c) /\ Grouped(c)' /\ count[c] = References(c)
      BY <1>1, <1>3, Before, After DEF HandlesInv, CountsReferences
    <3> QED
      BY <3>1, <3>2, <3>3, <3>4 DEF Grouped, Same
  <2> QED
    BY <1>3, <2>1, SameData DEF HandlesInv, LetsGo
<1>5. Quiet'
  BY <1>2, DoesTypes DEF Quiet, LetsGo
<1>6. Live' = managed'
  BY <1>1, AtRest DEF LetsGo, Live, life
<1>7. LifeInv'
  <2>1. Going' = {} /\ Going = {} /\ ToDo("drop")' \subseteq {d} /\ (None \notin Coros)
    BY <1>1, <1>2, <1>3, <1>5, AtRest, QuietToDoNext, DoesTypes, Names DEF ToDo, LetsGo
  <2>2. LifeInv
    BY DEF HandlesInv
  <2> QED
    BY <1>1, <2>1, <2>2 DEF LifeInv, LetsGo, life, Types, Live
<1>8. WakeInv'
  <2>1. ~Resetting /\ ~Resetting'
    BY <1>1, <1>3, <1>5, AtRest, QuietToDoNext
  <2> QED
    BY <2>1 DEF WakeInv, HandlesInv, LetsGo, life, Live
<1> QED
  BY <1>3, <1>4, <1>5, <1>6, <1>7, <1>8, QuietInvNext

LEMMA MoveKeeps ==
  ASSUME HandlesInv, NEW a \in Maybe, NEW s \in Mine(a), NEW r \in Mine(a), Move(a, s, r)
  PROVE  HandlesInv'
<1> DEFINE g == [handle EXCEPT ![s] = handle[r]]
<1>1. /\ Acts(a) /\ todo = << >> /\ s \in Slots /\ r \in Slots /\ Types /\ s # r
      /\ handle \in [Slots -> Maybe] /\ handle[s] \in Maybe /\ handle[r] \in Maybe
  BY MineAre DEF Move, Acts, HandlesInv, Types
<1>2. g \in [Slots -> Maybe] /\ g[r] = handle[r] /\ handle' = [g EXCEPT ![r] = handle[s]]
  BY <1>1 DEF Move
<1>3. Types'
  BY <1>1, <1>2 DEF Move, Types, life, Maybe
<1>4. CountsReferences'
  <2>1. ASSUME NEW c \in Coros PROVE count'[c] = References(c)'
    <3>1. /\ Holders(g, c) = Holders(handle, c) - Same(handle[s], c) + Same(handle[r], c)
          /\ Holders(handle', c) = Holders(g, c) - Same(handle[r], c) + Same(handle[s], c)
      <4>1. Holders(g, c) = Holders(handle, c) - Same(handle[s], c) + Same(handle[r], c)
        BY <1>1, HandleChange
      <4> HIDE DEF g
      <4>2. Holders([g EXCEPT ![r] = handle[s]], c) = Holders(g, c) - Same(g[r], c) + Same(handle[s], c)
        BY <1>1, <1>2, HandleChange
      <4> QED
        BY <1>2, <4>1, <4>2
    <3>2. Holders(handle, c) \in Nat /\ Same(handle[s], c) \in Nat /\ Same(handle[r], c) \in Nat
      BY <1>1, HandleChange DEF Same
    <3>3. Holders(handle', c) = Holders(handle, c)
      BY <3>1, <3>2
    <3>4. Places(c)' = Places(c) /\ Ties(c)' = Ties(c) /\ current' = current /\ count' = count /\ todo' = todo
      BY DEF Move, Places, Ties, life
    <3>5. Grouped(c) /\ Grouped(c)' /\ count[c] = References(c)
      BY <1>1, <1>3, Before, After DEF HandlesInv, CountsReferences
    <3> QED
      BY <3>3, <3>4, <3>5 DEF Grouped
  <2> QED
    BY <1>3, <2>1, SameData DEF HandlesInv, Move
<1>5. Quiet'
  BY <1>1 DEF Quiet, Move
<1>6. Live' = managed'
  BY <1>1, AtRest DEF Move, Live, life
<1>7. LifeInv'
  <2>1. Going' = {} /\ Going = {} /\ ToDo("drop")' = {} /\ (None \notin Coros)
    BY <1>1, <1>3, <1>5, AtRest, QuietToDoNext, Names DEF ToDo, Move
  <2>2. LifeInv /\ \A x \in {s, r} : x \in Coros => x \in frame
    BY <1>1, MineAre DEF HandlesInv
  <2>3. \A x \in Slots : handle'[x] \in {handle[y] : y \in Slots}
    BY <1>1, <1>2
  <2>4. ASSUME NEW c \in Coros, handle'[c] # None PROVE c \in frame
    <3>1. handle'[c] = handle[c] \/ c \in {s, r}
      BY <1>1, <2>4 DEF Move, Slots
    <3> QED
      BY <2>2, <2>4, <3>1 DEF LifeInv
  <2>5. /\ UNCHANGED <<awaits, suspended, frame, data, created, started, complete, parent>>
        /\ Live' = Live
    BY DEF Move, life, Live
  <2>6. ASSUME NEW c \in created \ started, c \notin frame \/ c \in Going
        PROVE  \A x \in Slots : handle[x] # c
    BY <2>2, <2>6 DEF LifeInv
  <2> QED
    BY <2>1, <2>2, <2>3, <2>4, <2>5, <2>6 DEF LifeInv
<1>8. WakeInv'
  <2>1. ~Resetting /\ ~Resetting'
    BY <1>1, <1>3, <1>5, AtRest, QuietToDoNext
  <2> QED
    BY <2>1 DEF WakeInv, HandlesInv, Move, life, Live
<1> QED
  BY <1>3, <1>4, <1>5, <1>6, <1>7, <1>8, QuietInvNext

(* A pointer that is overwritten.                                            *)
UnrefOf(x) == IF x = None THEN << >> ELSE <<Does("unref", x)>>

LEMMA UnrefOfAre ==
  ASSUME NEW x \in Maybe
  PROVE  /\ UnrefOf(x) \in Seq(Items)
         /\ \A i \in DOMAIN UnrefOf(x) : x \in Coros /\ UnrefOf(x)[i] = Does("unref", x)
         /\ \A c \in Coros : Given(UnrefOf(x), c) = Same(x, c)
<1>1. CASE x = None
  <2>1. UnrefOf(x) = << >>
    BY <1>1 DEF UnrefOf
  <2>2. \A c \in Coros : Same(x, c) = 0
    BY <1>1, Names DEF Same
  <2> QED
    BY <2>1, <2>2, GivenShort
<1>2. CASE x # None
  <2>1. x \in Coros /\ UnrefOf(x) = <<Does("unref", x)>>
    BY <1>2 DEF UnrefOf, Maybe
  <2>2. Does("unref", x) \in Items /\ \A c : Gives(Does("unref", x), c) = Same(x, c)
    BY <2>1, DoesTypes
  <2> QED
    BY <2>1, <2>2, GivenShort
<1> QED
  BY <1>1, <1>2

LEMMA CopyKeeps ==
  ASSUME HandlesInv, NEW a \in Maybe, NEW s \in Mine(a), NEW r \in Mine(a), Copy(a, s, r)
  PROVE  HandlesInv'
<1> DEFINE d == handle[s]
           take == [does |-> "take", c |-> None, s |-> s, r |-> r]
<1>1. Acts(a) /\ todo = << >> /\ s \in Slots /\ r \in Slots /\ d \in Maybe /\ Types
  BY MineAre DEF Copy, Acts, HandlesInv
<1>2. /\ UnrefOf(d) \in Seq(Items)
      /\ \A i \in DOMAIN UnrefOf(d) : d \in Coros /\ UnrefOf(d)[i] = Does("unref", d)
      /\ \A c \in Coros : Given(UnrefOf(d), c) = Same(d, c)
  BY <1>1, UnrefOfAre
<1>3. take \in Items /\ \A c \in Coros : Gives(take, c) = 0
  BY <1>1 DEF Items, Gives
<1>4. todo' = UnrefOf(d) \o <<take>> /\ <<take>> \in Seq(Items) /\ todo' \in Seq(Items)
  BY <1>2, <1>3 DEF Copy, UnrefOf
<1>5. Types'
  BY <1>1, <1>4 DEF Copy, Types, life, Maybe
<1>6. CountsReferences'
  <2>1. ASSUME NEW c \in Coros PROVE count'[c] = References(c)'
    <3>1. Holders(handle', c) = Holders(handle, c) - Same(d, c)
      BY <1>1, HandleChange DEF Copy, Types
    <3>2. Given(todo, c) = 0
      BY <1>1, AtRest
    <3>3. Given(todo', c) = Given(UnrefOf(d), c) + Given(<<take>>, c)
      <4> HIDE DEF d, take
      <4> QED
        BY <1>2, <1>4, GivenConcat, ZenonT(40)
    <3>4. Given(UnrefOf(d), c) = Same(d, c) /\ Given(<<take>>, c) = 0
      BY <1>2, <1>3, GivenShort
    <3>5. Places(c)' = Places(c) /\ Ties(c)' = Ties(c) /\ current' = current /\ count' = count
      BY DEF Copy, Places, Ties, life
    <3>6. Grouped(c) /\ Grouped(c)' /\ count[c] = References(c)
      BY <1>1, <1>5, Before, After DEF HandlesInv, CountsReferences
    <3> QED
      BY <3>1, <3>2, <3>3, <3>4, <3>5, <3>6 DEF Grouped, Same
  <2> QED
    BY <1>5, <2>1, SameData DEF HandlesInv, Copy
<1>7. /\ \A i \in DOMAIN todo' : \/ todo'[i] = take /\ i = Len(todo')
                                 \/ todo'[i].does = "unref" /\ i # Len(todo')
      /\ take.does = "take" /\ take.s = s /\ take.r = r
  <2>1. CASE d = None
    <3>1. todo' = <<take>>
      BY <1>4, <2>1 DEF UnrefOf
    <3> QED
      BY <3>1
  <2>2. CASE d # None
    <3>1. UnrefOf(d) = <<Does("unref", d)>>
      BY <2>2 DEF UnrefOf
    <3>3. /\ DOMAIN todo' = 1..2 /\ Len(todo') = 2
          /\ todo'[1] = Does("unref", d) /\ todo'[2] = take
      <4> HIDE DEF take
      <4> QED
        BY <1>4, <3>1
    <3> QED
      BY <3>3 DEF Does
  <2> QED
    BY <2>1, <2>2
<1>8. NoFrames'
  BY <1>7 DEF NoFrames
<1>9. Assigning'
  BY <1>1, <1>5, <1>7 DEF Assigning, Copy, Mine, Acts, Types
<1>10. Live' = managed'
  BY <1>1, AtRest DEF Copy, Live, life
<1>11. LifeInv'
  <2>1. Going' = {} /\ Going = {} /\ ToDo("drop")' = {} /\ (None \notin Coros)
    BY <1>1, <1>5, <1>7, <1>8, AtRest, NoFramesToDoNext, Names DEF ToDo
  <2>2. LifeInv
    BY DEF HandlesInv
  <2> QED
    BY <1>1, <2>1, <2>2 DEF LifeInv, Copy, life, Types, Live
<1>12. WakeInv'
  <2>1. ~Resetting /\ ~Resetting'
    BY <1>1, <1>5, <1>8, AtRest, NoFramesToDoNext
  <2> QED
    BY <2>1 DEF WakeInv, HandlesInv, Copy, life, Live
<1> QED
  BY <1>5, <1>6, <1>8, <1>9, <1>10, <1>11, <1>12, NoFramesInvNext

LEMMA CreateKeeps ==
  ASSUME HandlesInv, NEW a \in Maybe, NEW s \in Mine(a), NEW c \in Coros,
         NEW r \in Mine(a) \cup {None}, NEW moved \in BOOLEAN, Create(a, s, c, r, moved)
  PROVE  HandlesInv'
<1> DEFINE arg == Argument(r)
           P == Passed(r, moved)
           G == [P EXCEPT ![c] = arg]
           n == IF moved THEN 0 ELSE 1
<1>1. /\ Acts(a) /\ todo = << >> /\ s \in Slots /\ Types /\ c \notin created
      /\ handle \in [Slots -> Maybe] /\ (moved => r # None) /\ None \notin Slots
      /\ r # None => r \in Mine(a) /\ r \in Slots
  BY MineAre, Names DEF Create, Acts, HandlesInv, Types, Slots
<1>2. c \notin Mine(a) /\ c \in Slots /\ handle[c] = None
  BY <1>1, MineAre, Names DEF HandlesInv, LifeInv, Slots, Mine
<1>3. c \notin data /\ count[c] = 0 /\ Unused(c)
  BY <1>1, InUse DEF HandlesInv, LifeInv
<1>4. /\ arg \in Maybe /\ arg # c /\ (arg # None => r # None /\ handle[r] = arg)
      /\ P \in [Slots -> Maybe] /\ P[c] = None /\ \A x \in Slots : P[x] \in {None, handle[x]}
  BY <1>1, <1>2, <1>3 DEF Argument, Passed, Unused, Maybe
<1>5. /\ G \in [Slots -> Maybe] /\ handle' = [G EXCEPT ![s] = c] /\ s # c /\ G[s] = P[s]
      /\ todo' = Drops(P[s]) /\ P[s] \in Maybe
  BY <1>1, <1>2, <1>4 DEF Create
<1>6. /\ Drops(P[s]) \in Seq(Items)
      /\ \A i \in DOMAIN Drops(P[s]) : P[s] \in Coros /\ Drops(P[s])[i] = Does("drop", P[s])
      /\ \A d \in Coros : Given(Drops(P[s]), d) = Same(P[s], d)
  <2> HIDE DEF P
  <2> QED
    BY <1>5, DropsAre
<1>7. /\ count' \in [Coros -> Int]
      /\ \A d \in Coros : count'[d] = (IF d = c THEN 2 ELSE count[d]) + n * Same(arg, d)
  BY <1>1, <1>4, Names DEF Create, Ref, Owned, Same, Types, Maybe
<1>8. /\ created' = created \cup {c} /\ frame' = frame \cup {c} /\ data' = data \cup {c}
      /\ UNCHANGED <<awaits, suspended, started, complete, parent, managed, tokens, queue, current>>
  BY DEF Create
<1>9. Types'
  <2>1. handle' \in [Slots -> Maybe]
    <3> HIDE DEF G, P
    <3> QED
      BY <1>5 DEF Maybe
  <2>2. todo' \in Seq(Items)
    BY <1>5, <1>6
  <2> QED
    BY <1>1, <1>7, <1>8, <2>1, <2>2 DEF Types
<1>10. ASSUME NEW d \in Coros
       PROVE  /\ count'[d] = References(d)'
              /\ d \in data' <=> count'[d] > 0
  <2>1. Holders(P, d) = Holders(handle, d) - (1 - n) * Same(arg, d)
    <3>1. CASE moved
      <4>1. P = [handle EXCEPT ![r] = None] /\ r \in Slots /\ arg = handle[r] /\ n = 0
        BY <1>1, <3>1 DEF Passed, Argument
      <4>2. Holders([handle EXCEPT ![r] = None], d) = Holders(handle, d) - Same(handle[r], d)
        BY <1>1, <4>1, HandleChange, ZenonT(40)
      <4> QED
        BY <4>1, <4>2 DEF Same
    <3>2. CASE ~moved
      <4>1. P = handle /\ n = 1 /\ Holders(handle, d) \in Nat
        BY <1>1, <3>2, HandleChange DEF Passed
      <4> QED
        BY <4>1 DEF Same
    <3> QED
      BY <3>1, <3>2
  <2>2. Holders(G, d) = Holders(P, d) + Same(arg, d)
    <3> HIDE DEF P, arg
    <3>1. Holders([P EXCEPT ![c] = arg], d) = Holders(P, d) - Same(P[c], d) + Same(arg, d)
      BY <1>2, <1>4, HandleChange
    <3>2. Same(P[c], d) = 0 /\ Holders(P, d) \in Nat
      BY <1>2, <1>4, NoneIsNot, HandleChange
    <3> QED
      BY <3>1, <3>2 DEF Same
  <2>3. Holders(handle', d) = Holders(G, d) - Same(P[s], d) + Same(c, d)
    <3> HIDE DEF P, G
    <3>1. G \in [Slots -> Maybe] /\ s \in Slots /\ G[s] = P[s]
      BY <1>1, <1>5
    <3>2. Holders([G EXCEPT ![s] = c], d) = Holders(G, d) - Same(G[s], d) + Same(c, d)
      BY <3>1, HandleChange
    <3> QED
      BY <1>5, <3>1, <3>2
  <2>4. Given(todo, d) = 0 /\ Given(todo', d) = Same(P[s], d)
    BY <1>1, <1>5, <1>6, AtRest
  <2>5. Places(d)' = Places(d) + Same(c, d)
    <3>1. In(d, frame') = In(d, frame) + Same(c, d)
      BY <1>3, <1>8 DEF In, Same, Unused
    <3>2. /\ Places(d)' = Holders(awaits, d) + In(d, frame') + 2 * In(d, suspended)
          /\ Places(d) = Holders(awaits, d) + In(d, frame) + 2 * In(d, suspended)
      BY <1>8 DEF Places
    <3>3. Holders(awaits, d) \in Nat
      BY <1>1, Terms
    <3> QED
      BY <3>1, <3>2, <3>3 DEF In, Same
  <2>6. Ties(d)' = Ties(d) /\ current' = current
    BY <1>8 DEF Ties
  <2>7. Grouped(d) /\ Grouped(d)' /\ count[d] = References(d)
    BY <1>1, <1>9, Before, After DEF HandlesInv, CountsReferences
  <2>8. /\ count[c] = 0 /\ (d = c => Same(arg, d) = 0) /\ n \in {0, 1} /\ Same(arg, d) \in {0, 1}
        /\ count'[d] = (IF d = c THEN 2 ELSE count[d]) + n * Same(arg, d)
    BY <1>3, <1>4, <1>7 DEF Same
  <2>9. count'[d] = References(d)'
    <3> HIDE DEF P, G, n, arg
    <3> QED
      BY <2>1, <2>2, <2>3, <2>4, <2>5, <2>6, <2>7, <2>8 DEF Grouped, Same
  <2>10. count[d] = 0 => Same(arg, d) = 0
    BY <1>1, <1>4, InUse, Names DEF HandlesInv, Unused, Same
  <2>11. count[d] \in Nat /\ (d \in data <=> count[d] > 0)
    BY <1>1, InUse DEF HandlesInv
  <2>12. d \in data' <=> count'[d] > 0
    <3> HIDE DEF n, arg
    <3> QED
      BY <1>8, <2>8, <2>10, <2>11 DEF Same
  <2> QED
    BY <2>9, <2>12
<1>11. CountsReferences'
  BY <1>10 DEF CountsReferences
<1>12. Quiet'
  BY <1>5, <1>6, DoesTypes DEF Quiet
<1>13. Live' = managed'
  BY <1>1, <1>8, AtRest DEF Live
<1>14. LifeInv'
  <2>1. Going' = {} /\ Going = {} /\ ToDo("drop")' \subseteq {P[s]} /\ (None \notin Coros)
    BY <1>1, <1>5, <1>6, <1>9, <1>12, AtRest, QuietToDoNext, DoesTypes, Names DEF ToDo
  <2>2. LifeInv
    BY DEF HandlesInv
  <2>3. \A x \in Slots : handle'[x] \in {None, arg, c, handle[x]}
    BY <1>4, <1>5
  <2>4. ASSUME NEW x \in Coros, handle'[x] # None PROVE x \in frame'
    <3>1. x = c \/ x = s \/ handle'[x] = P[x]
      BY <1>4, <1>5, <2>4 DEF Slots
    <3>2. s \in Coros => s \in frame
      BY <1>1, MineAre
    <3> QED
      BY <1>4, <1>8, <2>2, <2>4, <3>1, <3>2 DEF LifeInv, Slots
  <2>5. ASSUME NEW x \in created' \ started', x \notin frame'
        PROVE  (\A y \in Slots : handle'[y] # x) /\ x # P[s]
    <3>1. x \in created \ started /\ x # c /\ x \notin frame /\ x \in Coros
      BY <1>1, <1>8, <2>5 DEF Types
    <3>2. \A y \in Slots : handle[y] # x
      BY <2>2, <3>1 DEF LifeInv
    <3> QED
      BY <1>1, <1>4, <2>1, <2>3, <3>1, <3>2
  <2> HIDE DEF P
  <2>6. ASSUME NEW x \in created' \ started', x \notin frame' \/ x \in Going'
        PROVE  (\A y \in Slots : handle'[y] # x) /\ x \notin ToDo("drop")'
    BY <2>1, <2>5, <2>6
  <2>7. Live' = Live
    BY <1>8 DEF Live
  <2> QED
    BY <1>8, <2>2, <2>4, <2>6, <2>7 DEF LifeInv
<1>15. WakeInv'
  <2>1. ~Resetting /\ ~Resetting'
    BY <1>1, <1>9, <1>12, AtRest, QuietToDoNext
  <2> QED
    BY <1>8, <2>1 DEF WakeInv, HandlesInv, Live
<1> QED
  BY <1>9, <1>11, <1>12, <1>13, <1>14, <1>15, QuietInvNext

(* What bind_() of a coroutine that was not started adds.                    *)
Bound(a, c, d) == IF c \in started THEN 0 ELSE 2 * Same(c, d) + Same(a, d)

LEMMA NotStarted ==
  ASSUME HandlesInv, NEW c \in Coros, c \notin started, NEW s \in Slots, handle[s] = c, todo = << >>
  PROVE  /\ c \notin managed /\ c \notin complete /\ c \notin suspended /\ c \in frame
         /\ c \in created /\ parent[c] = None /\ tokens[c] = {} /\ current # c
         /\ \A t \in queue : t.to # c
         /\ \A d \in Coros : c \notin tokens[d]
<1>1. c \in data
  BY InUse DEF HandlesInv, Unused
<1>2. c \in created /\ c \notin complete /\ c \notin Live
  BY <1>1 DEF HandlesInv, LifeInv, Live
<1>3. c \in frame
  BY <1>2 DEF HandlesInv, LifeInv
<1> QED
  BY <1>2, <1>3, AtRest, Names DEF HandlesInv, LifeInv, WakeInv, Live

LEMMA BindAdds ==
  ASSUME HandlesInv, NEW a \in Maybe, Acts(a), NEW c \in Coros, NEW s \in Slots, handle[s] = c,
         BindTo(a, c), queue' = Started(c)
  PROVE  /\ \A cnt \in [Coros -> Int] :
              /\ Counted(a, c, cnt) \in [Coros -> Int]
              /\ \A d \in Coros : Counted(a, c, cnt)[d] = cnt[d] + Bound(a, c, d)
         /\ IsFiniteSet(queue') /\ queue' \subseteq [of : Maybe, to : Coros]
         /\ managed' \subseteq Coros /\ started' \subseteq Coros /\ parent' \in [Coros -> Maybe]
         /\ \A d \in Coros :
              /\ In(d, managed') + Resumes(queue', d) + Holders(parent', d)
                   = In(d, managed) + Resumes(queue, d) + Holders(parent, d) + Bound(a, c, d)
              /\ Bound(a, c, d) \in Nat
              /\ Bound(a, c, d) > 0 => count[d] > 0
<1>1. Types /\ todo = << >> /\ (a # None => a \in started /\ current = a)
  BY MineAre DEF HandlesInv, Acts
<1>2. ASSUME NEW cnt \in [Coros -> Int]
      PROVE  /\ Counted(a, c, cnt) \in [Coros -> Int]
             /\ \A d \in Coros : Counted(a, c, cnt)[d] = cnt[d] + Bound(a, c, d)
  BY <1>1, Names DEF Counted, StartedBy, Ref, Bound, Same, Maybe
<1>3. /\ IsFiniteSet(queue') /\ queue' \subseteq [of : Maybe, to : Coros]
      /\ managed' \subseteq Coros /\ started' \subseteq Coros /\ parent' \in [Coros -> Maybe]
  <2>1. IsFiniteSet(queue) /\ IsFiniteSet(queue \cup {[of |-> None, to |-> c]})
    BY <1>1, FS_AddElement DEF Types
  <2>2. queue' = queue \/ queue' = queue \cup {[of |-> None, to |-> c]}
    BY DEF Started
  <2>3. /\ managed \subseteq Coros /\ started \subseteq Coros /\ parent \in [Coros -> Maybe]
        /\ queue \subseteq [of : Maybe, to : Coros]
    BY <1>1 DEF Types
  <2> QED
    BY <2>1, <2>2, <2>3 DEF BindTo, Maybe
<1>4. ASSUME NEW d \in Coros
      PROVE  In(d, managed') + Resumes(queue', d) + Holders(parent', d)
               = In(d, managed) + Resumes(queue, d) + Holders(parent, d) + Bound(a, c, d)
  <2>1. Resumes(queue, d) \in Nat /\ Holders(parent, d) \in Nat
    BY <1>1, Terms
  <2>2. CASE c \in started
    <3>1. managed' = managed /\ queue' = queue /\ parent' = parent /\ Bound(a, c, d) = 0
      BY <2>2 DEF BindTo, Started, Bound
    <3> QED
      BY <2>1, <3>1 DEF In
  <2>3. CASE c \notin started
    <3> DEFINE t == [of |-> None, to |-> c]
    <3>1. /\ managed' = managed \cup {c} /\ queue' = queue \cup {t}
          /\ parent' = [parent EXCEPT ![c] = a] /\ Bound(a, c, d) = 2 * Same(c, d) + Same(a, d)
      BY <2>3 DEF BindTo, Started, Bound
    <3>2. c \notin managed /\ parent[c] = None /\ \A u \in queue : u.to # c
      BY <1>1, <2>3, NotStarted
    <3>3. In(d, managed') = In(d, managed) + Same(c, d)
      BY <3>1, <3>2 DEF In, Same
    <3>4. Resumes(queue', d) = Resumes(queue, d) + Same(c, d)
      <4>1. CASE d = c
        <5>1. Resumes(queue', d) = Resumes(queue, d) - In(t, queue) + In(t, queue')
          <6>1. IsFiniteSet(queue) /\ t.to = d
            BY <1>1, <4>1 DEF Types
          <6>2. {u \in queue : u.to = d} \ {t} = {u \in queue' : u.to = d} \ {t}
            BY <3>1
          <6> QED
            BY <6>1, <6>2, ResumesChange
        <5>2. In(t, queue) = 0 /\ In(t, queue') = 1
          BY <3>1, <3>2 DEF In
        <5> QED
          BY <2>1, <4>1, <5>1, <5>2 DEF Same
      <4>2. CASE d # c
        <5>1. {u \in queue : u.to = d} = {u \in queue' : u.to = d}
          BY <3>1, <4>2
        <5> QED
          BY <2>1, <4>2, <5>1, SMTT(40) DEF Resumes, Same
      <4> QED
        BY <4>1, <4>2
    <3>5. Holders(parent', d) = Holders(parent, d) + Same(a, d)
      <4>1. parent \in [Coros -> Maybe]
        BY <1>1 DEF Types
      <4>2. Holders([parent EXCEPT ![c] = a], d) = Holders(parent, d) - Same(parent[c], d) + Same(a, d)
        BY <4>1, CoroChange, ZenonT(40)
      <4>3. Same(parent[c], d) = 0
        BY <3>2, NoneIsNot
      <4> QED
        BY <2>1, <3>1, <4>2, <4>3 DEF Same
    <3> QED
      BY <2>1, <3>1, <3>3, <3>4, <3>5 DEF In, Same
  <2> QED
    BY <2>2, <2>3
<1>5. ASSUME NEW d \in Coros
      PROVE  Bound(a, c, d) \in Nat /\ (Bound(a, c, d) > 0 => count[d] > 0)
  <2>1. count[d] \in Nat /\ (count[d] = 0 => Unused(d))
    BY <1>1, InUse DEF HandlesInv
  <2>2. Bound(a, c, d) > 0 => d = c \/ (d = a /\ current = d)
    BY <1>1, Names DEF Bound, Same
  <2> QED
    BY <2>1, <2>2 DEF Bound, Same, Unused
<1> QED
  BY <1>2, <1>3, <1>4, <1>5

LEMMA StartKeeps ==
  ASSUME HandlesInv, NEW a \in Maybe, NEW s \in Mine(a), NEW moved \in BOOLEAN, Start(a, s, moved)
  PROVE  HandlesInv'
<1> DEFINE c == handle[s]
           k == IF moved THEN 1 ELSE 0
<1>1. /\ Acts(a) /\ todo = << >> /\ s \in Slots /\ Types /\ c \in Coros /\ BindTo(a, c)
      /\ count' = Counted(a, c, count) /\ queue' = Started(c)
      /\ handle' = IF moved THEN [handle EXCEPT ![s] = None] ELSE handle
      /\ todo' = IF moved THEN Drops(c) ELSE << >>
      /\ UNCHANGED <<awaits, suspended, frame, data, created, complete, tokens, current>>
      /\ handle \in [Slots -> Maybe] /\ count \in [Coros -> Int]
  BY MineAre DEF Start, Acts, HandlesInv, Maybe, Types
<1>2. /\ \A cnt \in [Coros -> Int] :
           /\ Counted(a, c, cnt) \in [Coros -> Int]
           /\ \A d \in Coros : Counted(a, c, cnt)[d] = cnt[d] + Bound(a, c, d)
      /\ IsFiniteSet(queue') /\ queue' \subseteq [of : Maybe, to : Coros]
      /\ managed' \subseteq Coros /\ started' \subseteq Coros /\ parent' \in [Coros -> Maybe]
      /\ \A d \in Coros :
           /\ In(d, managed') + Resumes(queue', d) + Holders(parent', d)
                = In(d, managed) + Resumes(queue, d) + Holders(parent, d) + Bound(a, c, d)
           /\ Bound(a, c, d) \in Nat
           /\ Bound(a, c, d) > 0 => count[d] > 0
  <2> HIDE DEF c
  <2> QED
    BY <1>1, BindAdds DEF c
<1>3. /\ todo' \in Seq(Items)
      /\ \A i \in DOMAIN todo' : todo'[i] = Does("drop", c)
      /\ \A d \in Coros : Given(todo', d) = k * Same(c, d)
  <2>1. /\ Drops(c) \in Seq(Items)
        /\ \A i \in DOMAIN Drops(c) : Drops(c)[i] = Does("drop", c)
        /\ \A d \in Coros : Given(Drops(c), d) = Same(c, d)
    BY <1>1, DropsAre DEF Maybe
  <2>2. CASE moved
    BY <1>1, <2>1, <2>2 DEF Same
  <2>3. CASE ~moved
    BY <1>1, <2>3, GivenShort DEF Same
  <2> QED
    BY <2>2, <2>3
<1>4. Types'
  BY <1>1, <1>2, <1>3 DEF Types, Maybe
<1>5. ASSUME NEW d \in Coros
      PROVE  count'[d] = References(d)' /\ (count[d] > 0 <=> count'[d] > 0)
  <2>1. Holders(handle', d) = Holders(handle, d) - k * Same(c, d)
    <3>1. CASE moved
      <4>1. handle' = [handle EXCEPT ![s] = None]
        BY <1>1, <3>1
      <4>2. Holders([handle EXCEPT ![s] = None], d) = Holders(handle, d) - Same(handle[s], d)
        BY <1>1, HandleChange
      <4>3. k * Same(c, d) = Same(c, d)
        BY <3>1 DEF Same
      <4> QED
        BY <4>1, <4>2, <4>3
    <3>2. CASE ~moved
      <4>1. handle' = handle /\ k * Same(c, d) = 0 /\ Holders(handle, d) \in Nat
        BY <1>1, <3>2, Terms DEF Same
      <4> QED
        BY <4>1
    <3> QED
      BY <3>1, <3>2
  <2>2. Given(todo, d) = 0 /\ Given(todo', d) = k * Same(c, d) /\ k * Same(c, d) \in Nat
    BY <1>1, <1>3, AtRest DEF Same
  <2>3. Places(d)' = Places(d) /\ current' = current
    BY <1>1 DEF Places
  <2>4. Ties(d)' = Ties(d) + Bound(a, c, d)
    <3>1. /\ Ties(d) = In(d, managed) + Waits(tokens, d) + Resumes(queue, d) + Holders(parent, d)
          /\ Ties(d)' = In(d, managed') + Waits(tokens, d) + Resumes(queue', d) + Holders(parent', d)
      BY <1>1 DEF Ties
    <3>2. /\ Waits(tokens, d) \in Nat /\ Resumes(queue, d) \in Nat /\ Holders(parent, d) \in Nat
          /\ Resumes(queue', d) \in Nat /\ Holders(parent', d) \in Nat
          /\ In(d, managed) \in Nat /\ In(d, managed') \in Nat
      BY <1>1, <1>4, Terms, TermsNext DEF In, TermsAre
    <3> DEFINE m == In(d, managed)
               w == Waits(tokens, d)
               q == Resumes(queue, d)
               p == Holders(parent, d)
               m1 == In(d, managed')
               q1 == Resumes(queue', d)
               p1 == Holders(parent', d)
               b == Bound(a, c, d)
    <3>3. m \in Int /\ w \in Int /\ q \in Int /\ p \in Int
      BY <3>2
    <3>4. m1 \in Int /\ q1 \in Int /\ p1 \in Int /\ b \in Int
      BY <1>2, <3>2
    <3>5. m1 + q1 + p1 = m + q + p + b
      BY <1>2
    <3>6. Ties(d) = m + w + q + p /\ Ties(d)' = m1 + w + q1 + p1
      BY <3>1
    <3> HIDE DEF m, w, q, p, m1, q1, p1, b
    <3>7. Ties(d)' = Ties(d) + b
      BY <3>3, <3>4, <3>5, <3>6
    <3> QED
      BY <3>7 DEF b
  <2>5. Grouped(d) /\ Grouped(d)' /\ count[d] = References(d)
    BY <1>1, <1>4, Before, After DEF HandlesInv, CountsReferences
  <2>6. count'[d] = count[d] + Bound(a, c, d) /\ Bound(a, c, d) \in Nat
    BY <1>1, <1>2
  <2> HIDE DEF c, k
  <2>7. count'[d] = References(d)'
    BY <2>1, <2>2, <2>3, <2>4, <2>5, <2>6 DEF Grouped, Same
  <2>8. count[d] \in Nat
    BY <1>1, InUse DEF HandlesInv
  <2> QED
    BY <1>2, <2>6, <2>7, <2>8
<1>6. CountsReferences'
  BY <1>1, <1>4, <1>5, SameData DEF HandlesInv
<1>7. Quiet'
  BY <1>1, <1>3, DoesTypes DEF Quiet
<1>8. /\ c \in created /\ (c \in frame' \/ c \in started)
      /\ started' = started \cup {c} /\ started \subseteq started'
      /\ Live' = Live \cup ({c} \ complete) /\ (c \notin started => c \notin complete)
      /\ Live' = managed'
  <2>1. c \notin started => c \notin complete /\ c \in frame /\ c \in created
    BY <1>1, NotStarted
  <2>2. c \in started => c \in created
    BY DEF HandlesInv, LifeInv
  <2>3. Live = managed
    BY <1>1, AtRest
  <2> QED
    BY <1>1, <2>1, <2>2, <2>3 DEF BindTo, Live
<1>9. LifeInv'
  <2>1. Going' = {} /\ Going = {} /\ ToDo("drop")' \subseteq {c} /\ (None \notin Coros)
    BY <1>1, <1>3, <1>4, <1>7, AtRest, QuietToDoNext, DoesTypes, Names DEF ToDo
  <2>2. LifeInv
    BY DEF HandlesInv
  <2>3. \A x \in Slots : handle'[x] \in {None, handle[x]}
    BY <1>1
  <2>4. \A x \in Coros : parent'[x] = parent[x] \/ x = c
    BY <1>1 DEF BindTo, Types
  <2>5. c \notin started => c \in frame
    BY <1>1, NotStarted
  <2>6. Coros \subseteq Slots
    BY DEF Slots
  <2>7. ASSUME NEW x \in created \ started', x \notin frame \/ x \in Going'
        PROVE  (\A y \in Slots : handle'[y] # x) /\ x \notin ToDo("drop")'
    BY <1>1, <1>8, <2>1, <2>2, <2>3, <2>7 DEF LifeInv, Types
  <2>8. /\ data \cup frame \cup started' \subseteq created /\ complete \subseteq started'
        /\ Live' \subseteq frame /\ suspended \subseteq frame \cap started'
    BY <1>8, <2>2, <2>5 DEF LifeInv, Live
  <2>9. ASSUME NEW x \in Coros
        PROVE  /\ awaits[x] # None => x \in suspended /\ awaits[x] \in started'
               /\ handle'[x] # None => x \in frame
               /\ parent'[x] # None => x \in started'
    BY <1>8, <2>2, <2>3, <2>4, <2>6 DEF LifeInv
  <2> QED
    BY <1>1, <2>7, <2>8, <2>9 DEF LifeInv
<1>10. WakeInv'
  <2>1. ~Resetting /\ ~Resetting' /\ WakeInv
    BY <1>1, <1>4, <1>7, AtRest, QuietToDoNext DEF HandlesInv
  <2>2. CASE c \in started
    <3>1. /\ queue' = queue /\ started' = started /\ UNCHANGED <<tokens, current, suspended, complete>>
      BY <1>1, <1>8, <2>2 DEF Started
    <3> QED
      BY <2>1, <3>1 DEF WakeInv, Live
  <2>3. CASE c \notin started
    <3>1. /\ current # c /\ c \notin complete /\ c \notin suspended /\ tokens[c] = {}
          /\ (\A t \in queue : t.to # c) /\ (\A d \in Coros : c \notin tokens[d])
      BY <1>1, <2>3, NotStarted
    <3>2. /\ queue' = queue \cup {[of |-> None, to |-> c]} /\ Live' = Live \cup {c}
          /\ UNCHANGED <<tokens, current, suspended, complete>>
      BY <1>1, <1>8, <2>3 DEF Started
    <3>3. \A t \in queue' : t \in queue \/ (t.to = c /\ t.of = None /\ t = [of |-> None, to |-> c])
      BY <3>2
    <3> HIDE DEF c
    <3> QED
      BY <1>8, <2>1, <3>1, <3>2, <3>3 DEF WakeInv
  <2> QED
    BY <2>2, <2>3
<1> QED
  BY <1>4, <1>6, <1>7, <1>8, <1>9, <1>10, QuietInvNext

LEMMA TokenAdds ==
  ASSUME NEW q, IsFiniteSet(q), NEW o, NEW p \in Coros, NEW d \in Coros,
         [of |-> o, to |-> p] \notin q
  PROVE  /\ Resumes(q \cup {[of |-> o, to |-> p]}, d) = Resumes(q, d) + Same(p, d)
         /\ Resumes(q, d) \in Nat
<1> DEFINE t == [of |-> o, to |-> p]
           r == q \cup {t}
<1>1. Resumes(q, d) \in Nat
  BY ResumesType
<1>2. CASE d = p
  <2>1. t.to = d /\ {u \in q : u.to = d} \ {t} = {u \in r : u.to = d} \ {t}
    BY <1>2
  <2>2. Resumes(r, d) = Resumes(q, d) - In(t, q) + In(t, r)
    <3> HIDE DEF t, r
    <3> QED
      BY <2>1, ResumesChange
  <2>3. In(t, q) = 0 /\ In(t, r) = 1
    BY DEF In
  <2> QED
    BY <1>1, <1>2, <2>2, <2>3 DEF Same
<1>3. CASE d # p
  <2>1. {u \in q : u.to = d} = {u \in r : u.to = d}
    BY <1>3
  <2> QED
    BY <1>1, <1>3, <2>1 DEF Resumes, Same
<1> QED
  BY <1>2, <1>3

LEMMA Running ==
  ASSUME HandlesInv, NEW p \in Coros, Acts(p)
  PROVE  /\ todo = << >> /\ current = p /\ p \in Live /\ p \in frame /\ p \in created /\ p \in started
         /\ p \notin complete /\ p \notin suspended /\ awaits[p] = None
         /\ (\A t \in queue : t.to # p) /\ (\A d \in Coros : p \notin tokens[d])
         /\ p \in data /\ count[p] > 1
<1>1. /\ todo = << >> /\ current = p /\ p \in Live /\ p \in frame /\ p \in created /\ p \in started
      /\ p \notin complete /\ p \notin suspended /\ awaits[p] = None
      /\ (\A t \in queue : t.to # p) /\ (\A d \in Coros : p \notin tokens[d])
  BY Names DEF HandlesInv, LifeInv, WakeInv, Live, Acts, Maybe
<1>2. p \in data
  BY <1>1, InUse DEF HandlesInv, Unused
<1>3. Grouped(p) /\ count[p] = References(p) /\ TermsAre(p) /\ Same(current, p) = 1
  BY <1>1, Before, TermsNow DEF HandlesInv, CountsReferences, Same
<1>4. Places(p) \in Nat /\ Ties(p) \in Nat
  BY <1>3 DEF Places, Ties, TermsAre, In
<1>5. count[p] > 1
  BY <1>3, <1>4 DEF Grouped, TermsAre
<1> QED
  BY <1>1, <1>2, <1>5

LEMMA PauseKeeps ==
  ASSUME HandlesInv, NEW p \in Coros, Pause(p)
  PROVE  HandlesInv'
<1> DEFINE t == [of |-> None, to |-> p]
<1>1. /\ Acts(p) /\ todo = << >> /\ Types /\ current = p /\ current' = None /\ todo' = << >>
      /\ queue' = queue \cup {t} /\ suspended' = suspended \cup {p}
      /\ count' = [count EXCEPT ![p] = @ + 3 - 2] /\ count \in [Coros -> Int]
      /\ UNCHANGED <<handle, awaits, frame, data, created, started, complete, parent, managed, tokens>>
  BY DEF Pause, Suspend, Acts, HandlesInv, Types, life
<1>2. /\ p \in Live /\ p \in frame /\ p \in started /\ p \notin complete /\ p \notin suspended
      /\ (\A u \in queue : u.to # p) /\ (\A d \in Coros : p \notin tokens[d])
      /\ p \in data /\ count[p] > 1
  BY <1>1, Running
<1>3. t \notin queue /\ IsFiniteSet(queue) /\ IsFiniteSet(queue')
  BY <1>1, <1>2, FS_AddElement DEF Types
<1>4. Types'
  BY <1>1, <1>3 DEF Types, Maybe
<1>5. ASSUME NEW d \in Coros
      PROVE  count'[d] = References(d)' /\ (count[d] > 0 <=> count'[d] > 0)
  <2>1. Resumes(queue', d) = Resumes(queue, d) + Same(p, d)
    <3>1. Resumes(queue \cup {t}, d) = Resumes(queue, d) + Same(p, d)
      BY <1>3, TokenAdds
    <3> QED
      BY <1>1, <3>1
  <2>2. In(d, suspended') = In(d, suspended) + Same(p, d)
    BY <1>1, <1>2 DEF In, Same
  <2>3. TermsAre(d) /\ Same(p, d) \in Nat /\ In(d, suspended) \in Nat /\ In(d, frame) \in Nat
        /\ In(d, managed) \in Nat
    BY <1>1, TermsNow DEF Same, In
  <2>4. Places(d)' = Places(d) + 2 * Same(p, d)
    BY <1>1, <2>2, <2>3 DEF Places, TermsAre
  <2>5. Ties(d)' = Ties(d) + Same(p, d)
    BY <1>1, <2>1, <2>3 DEF Ties, TermsAre
  <2>6. Same(current, d) = Same(p, d) /\ Same(current', d) = 0
    BY <1>1, NoneIsNot
  <2>7. Grouped(d) /\ Grouped(d)' /\ count[d] = References(d) /\ todo' = todo /\ handle' = handle
    BY <1>1, <1>4, Before, After DEF HandlesInv, CountsReferences
  <2>8. count'[d] = count[d] + Same(p, d) /\ count[d] \in Int
    BY <1>1 DEF Same
  <2>9. count'[d] = References(d)'
    BY <2>3, <2>4, <2>5, <2>6, <2>7, <2>8 DEF Grouped
  <2> QED
    BY <1>2, <2>8, <2>9 DEF Same
<1>6. CountsReferences'
  BY <1>1, <1>4, <1>5, SameData DEF HandlesInv
<1>7. Quiet'
  BY <1>1 DEF Quiet
<1>8. Live' = managed' /\ Live' = Live
  BY <1>1, AtRest DEF Live
<1>9. Going' = {} /\ Going = {} /\ ToDo("drop")' = {} /\ (None \notin Coros) /\ ~Resetting /\ ~Resetting'
  BY <1>1, <1>4, <1>7, AtRest, QuietToDoNext, Names DEF ToDo
<1>10. LifeInv'
  <2>1. LifeInv
    BY DEF HandlesInv
  <2> QED
    BY <1>1, <1>2, <1>8, <1>9, <2>1 DEF LifeInv
<1>11. WakeInv'
  <2>1. WakeInv
    BY DEF HandlesInv
  <2>2. \A u \in queue' : u \in queue \/ (u = t /\ u.to = p /\ u.of = None)
    BY <1>1
  <2> HIDE DEF t
  <2> QED
    BY <1>1, <1>2, <1>8, <1>9, <2>1, <2>2 DEF WakeInv
<1> QED
  BY <1>4, <1>6, <1>7, <1>8, <1>10, <1>11, QuietInvNext

LEMMA AwaitKeeps ==
  ASSUME HandlesInv, NEW p \in Coros, NEW s \in Mine(p), NEW moved \in BOOLEAN, Await(p, s, moved)
  PROVE  HandlesInv'
<1> DEFINE c == handle[s]
           k == IF moved THEN 1 ELSE 0
           taken == IF moved THEN count ELSE Ref(count, c, 1)
<1>1. /\ Acts(p) /\ todo = << >> /\ s \in Slots /\ Types /\ c \in Coros /\ c # None
      /\ c \notin complete /\ BindTo(p, c) /\ queue' = Started(c)
      /\ handle' = IF moved THEN [handle EXCEPT ![s] = None] ELSE handle
      /\ awaits' = [awaits EXCEPT ![p] = c] /\ tokens' = [tokens EXCEPT ![c] = @ \cup {p}]
      /\ current = p /\ current' = None /\ todo' = << >> /\ suspended' = suspended \cup {p}
      /\ count' = [Counted(p, c, taken) EXCEPT ![p] = @ + 3 - 2]
      /\ UNCHANGED <<frame, data, created, complete>>
      /\ handle \in [Slots -> Maybe] /\ count \in [Coros -> Int] /\ p \in Maybe
      /\ awaits \in [Coros -> Maybe] /\ tokens \in [Coros -> SUBSET Coros]
  BY MineAre DEF Await, Suspend, Acts, HandlesInv, Maybe, Types
<1>2. /\ p \in Live /\ p \in frame /\ p \in started /\ p \notin complete /\ p \notin suspended
      /\ (\A u \in queue : u.to # p) /\ (\A d \in Coros : p \notin tokens[d])
      /\ p \in data /\ count[p] > 1 /\ awaits[p] = None
  BY <1>1, Running
<1>3. /\ \A cnt \in [Coros -> Int] :
           /\ Counted(p, c, cnt) \in [Coros -> Int]
           /\ \A d \in Coros : Counted(p, c, cnt)[d] = cnt[d] + Bound(p, c, d)
      /\ IsFiniteSet(queue') /\ queue' \subseteq [of : Maybe, to : Coros]
      /\ managed' \subseteq Coros /\ started' \subseteq Coros /\ parent' \in [Coros -> Maybe]
      /\ \A d \in Coros :
           /\ In(d, managed') + Resumes(queue', d) + Holders(parent', d)
                = In(d, managed) + Resumes(queue, d) + Holders(parent, d) + Bound(p, c, d)
           /\ Bound(p, c, d) \in Nat
           /\ Bound(p, c, d) > 0 => count[d] > 0
  <2> HIDE DEF c
  <2> QED
    BY <1>1, BindAdds DEF c
<1>4. /\ taken \in [Coros -> Int]
      /\ \A d \in Coros : taken[d] = count[d] + (1 - k) * Same(c, d)
  BY <1>1 DEF Ref, Same
<1>5. /\ count' \in [Coros -> Int]
      /\ \A d \in Coros : count'[d] = taken[d] + Bound(p, c, d) + Same(p, d)
  <2> HIDE DEF taken, c
  <2>1. /\ Counted(p, c, taken) \in [Coros -> Int]
        /\ \A d \in Coros : Counted(p, c, taken)[d] = taken[d] + Bound(p, c, d)
    BY <1>3, <1>4
  <2> DEFINE given == Counted(p, c, taken)
  <2> HIDE DEF given
  <2>2. /\ given \in [Coros -> Int] /\ count' = [given EXCEPT ![p] = @ + 3 - 2]
        /\ \A d \in Coros : given[d] = taken[d] + Bound(p, c, d)
    BY <1>1, <2>1 DEF given
  <2>3. \A d \in Coros : count'[d] = given[d] + Same(p, d)
    BY <2>2 DEF Same
  <2> QED
    BY <2>2, <2>3
<1>6. Types'
  <2>1. tokens' \in [Coros -> SUBSET Coros] /\ awaits' \in [Coros -> Maybe] /\ handle' \in [Slots -> Maybe]
    BY <1>1 DEF Maybe
  <2> QED
    BY <1>1, <1>3, <1>5, <2>1 DEF Types, Maybe
<1>7. ASSUME NEW d \in Coros
      PROVE  count'[d] = References(d)' /\ (count[d] > 0 <=> count'[d] > 0)
  <2>1. Holders(handle', d) = Holders(handle, d) - k * Same(c, d)
    <3>1. CASE moved
      <4>1. handle' = [handle EXCEPT ![s] = None]
        BY <1>1, <3>1
      <4>2. Holders([handle EXCEPT ![s] = None], d) = Holders(handle, d) - Same(handle[s], d)
        BY <1>1, HandleChange
      <4>3. k * Same(c, d) = Same(c, d)
        BY <3>1 DEF Same
      <4> QED
        BY <4>1, <4>2, <4>3
    <3>2. CASE ~moved
      <4>1. handle' = handle /\ k * Same(c, d) = 0 /\ Holders(handle, d) \in Nat
        BY <1>1, <3>2, Terms DEF Same
      <4> QED
        BY <4>1
    <3> QED
      BY <3>1, <3>2
  <2>2. TermsAre(d) /\ TermsAre(d)' /\ Same(p, d) \in Nat /\ Same(c, d) \in Nat
        /\ In(d, suspended) \in Nat /\ In(d, frame) \in Nat
        /\ In(d, managed) \in Nat /\ In(d, managed') \in Nat
    BY <1>1, <1>6, TermsNow, TermsNext DEF Same, In
  <2>3. Places(d)' = Places(d) + Same(c, d) + 2 * Same(p, d)
    <3>1. Holders(awaits', d) = Holders(awaits, d) + Same(c, d)
      <4>1. Holders([awaits EXCEPT ![p] = c], d) = Holders(awaits, d) - Same(awaits[p], d) + Same(c, d)
        BY <1>1, CoroChange, ZenonT(40)
      <4>2. Same(awaits[p], d) = 0
        BY <1>2, NoneIsNot
      <4> QED
        BY <1>1, <2>2, <4>1, <4>2 DEF TermsAre
    <3>2. In(d, suspended') = In(d, suspended) + Same(p, d)
      BY <1>1, <1>2 DEF In, Same
    <3>3. frame' = frame
      BY <1>1
    <3> HIDE DEF c
    <3> QED
      BY <2>2, <3>1, <3>2, <3>3 DEF Places, TermsAre
  <2>4. Ties(d)' = Ties(d) + Bound(p, c, d) + Same(p, d)
    <3>1. Waits(tokens', d) = Waits(tokens, d) + Same(p, d)
      <4>1. Waits([tokens EXCEPT ![c] = tokens[c] \cup {p}], d)
              = Waits(tokens, d) - In(d, tokens[c]) + In(d, tokens[c] \cup {p})
        BY <1>1, WaitsChange
      <4>2. In(d, tokens[c] \cup {p}) = In(d, tokens[c]) + Same(p, d)
        BY <1>1, <1>2 DEF In, Same
      <4>3. In(d, tokens[c]) \in Nat /\ tokens' = [tokens EXCEPT ![c] = tokens[c] \cup {p}]
        BY <1>1 DEF In
      <4> QED
        BY <2>2, <4>1, <4>2, <4>3 DEF TermsAre
    <3> DEFINE m == In(d, managed)
               w == Waits(tokens, d)
               q == Resumes(queue, d)
               r == Holders(parent, d)
               m1 == In(d, managed')
               w1 == Waits(tokens', d)
               q1 == Resumes(queue', d)
               r1 == Holders(parent', d)
               b == Bound(p, c, d)
               x == Same(p, d)
    <3>3. m \in Int /\ w \in Int /\ q \in Int /\ r \in Int
      BY <2>2 DEF TermsAre
    <3>4. m1 \in Int /\ w1 \in Int /\ q1 \in Int /\ r1 \in Int /\ b \in Int /\ x \in Int
      BY <1>3, <2>2 DEF TermsAre
    <3>5. m1 + q1 + r1 = m + q + r + b /\ w1 = w + x
      BY <1>3, <3>1
    <3>6. Ties(d) = m + w + q + r /\ Ties(d)' = m1 + w1 + q1 + r1
      BY DEF Ties
    <3> HIDE DEF m, w, q, r, m1, w1, q1, r1, b, x
    <3>7. Ties(d)' = Ties(d) + b + x
      BY <3>3, <3>4, <3>5, <3>6
    <3> QED
      BY <3>7 DEF b, x
  <2>5. Same(current, d) = Same(p, d) /\ Same(current', d) = 0
    BY <1>1, NoneIsNot
  <2>6. Grouped(d) /\ Grouped(d)' /\ count[d] = References(d) /\ todo' = todo
    BY <1>1, <1>6, Before, After DEF HandlesInv, CountsReferences
  <2>7. /\ count'[d] = count[d] + (1 - k) * Same(c, d) + Bound(p, c, d) + Same(p, d)
        /\ Bound(p, c, d) \in Nat /\ count[d] \in Nat /\ k \in {0, 1}
    BY <1>1, <1>3, <1>4, <1>5, InUse DEF HandlesInv
  <2>8. count'[d] = References(d)'
    <3> DEFINE b == Bound(p, c, d)
               x == Same(p, d)
               y == Same(c, d)
               h == Holders(handle, d)
               h1 == Holders(handle', d)
               P == Places(d)
               P1 == Places(d)'
               T == Ties(d)
               T1 == Ties(d)'
               g == Given(todo, d)
    <3>1. b \in Int /\ x \in Int /\ y \in {0, 1} /\ h \in Int /\ h1 \in Int /\ g \in Int /\ k \in {0, 1}
      BY <2>2, <2>6, <2>7 DEF Grouped, Same
    <3>2. P \in Int /\ P1 \in Int /\ T \in Int /\ T1 \in Int /\ count[d] \in Int
      BY <2>6, <2>7 DEF Grouped
    <3>3. /\ count[d] = h + g + P + T + 2 * x
          /\ References(d)' = h1 + g + P1 + T1 + 2 * 0
          /\ count'[d] = count[d] + (1 - k) * y + b + x
          /\ h1 = h - k * y /\ P1 = P + y + 2 * x /\ T1 = T + b + x
      BY <2>1, <2>3, <2>4, <2>5, <2>6, <2>7 DEF Grouped
    <3> HIDE DEF b, x, y, h, h1, P, P1, T, T1, g, k
    <3> QED
      BY <3>1, <3>2, <3>3
  <2>9. Same(c, d) > 0 => count[d] > 0
    BY <1>1, InUse DEF HandlesInv, Unused, Same
  <2> HIDE DEF c, k
  <2> QED
    BY <1>2, <1>3, <2>2, <2>7, <2>8, <2>9 DEF Same
<1>8. CountsReferences'
  BY <1>1, <1>6, <1>7, SameData DEF HandlesInv
<1>9. Quiet'
  BY <1>1 DEF Quiet
<1>10. /\ started' = started \cup {c} /\ started \subseteq started'
       /\ Live' = Live \cup {c} /\ Live' = managed' /\ Live = managed
  BY <1>1, AtRest DEF BindTo, Live
<1>11. Going' = {} /\ Going = {} /\ ToDo("drop")' = {} /\ (None \notin Coros) /\ ~Resetting /\ ~Resetting'
  BY <1>1, <1>6, <1>9, AtRest, QuietToDoNext, Names DEF ToDo
<1>12. LifeInv'
  <2>2. LifeInv
    BY DEF HandlesInv
  <2>3. \A x \in Slots : handle'[x] \in {None, handle[x]}
    BY <1>1
  <2>4. \A x \in Coros : (parent'[x] = parent[x] \/ x = c) /\ (awaits'[x] = awaits[x] \/ (x = p /\ awaits'[x] = c))
    BY <1>1 DEF BindTo, Types
  <2>5. c \notin started => c \in frame /\ c \in created
    BY <1>1, NotStarted
  <2>6. Coros \subseteq Slots
    BY DEF Slots
  <2>7. ASSUME NEW x \in created \ started', x \notin frame \/ x \in Going'
        PROVE  (\A y \in Slots : handle'[y] # x) /\ x \notin ToDo("drop")'
    BY <1>1, <1>10, <1>11, <2>2, <2>3, <2>7 DEF LifeInv, Types
  <2>8. /\ data \cup frame \cup started' \subseteq created /\ complete \subseteq started'
        /\ Live' \subseteq frame /\ suspended' \subseteq frame \cap started'
    BY <1>1, <1>2, <1>10, <2>2, <2>5 DEF LifeInv, Live
  <2>9. ASSUME NEW x \in Coros
        PROVE  /\ awaits'[x] # None => x \in suspended' /\ awaits'[x] \in started'
               /\ handle'[x] # None => x \in frame
               /\ parent'[x] # None => x \in started'
    BY <1>1, <1>10, <2>2, <2>3, <2>4, <2>6 DEF LifeInv
  <2> QED
    BY <1>1, <2>7, <2>8, <2>9 DEF LifeInv
<1>13. WakeInv'
  <2>1. WakeInv
    BY DEF HandlesInv
  <2>2. /\ \A x \in Coros : \A y : y \in tokens'[x] <=> (y \in tokens[x] \/ (x = c /\ y = p))
        /\ \A x \in Coros : tokens'[x] # {} => tokens[x] # {} \/ x = c
    BY <1>1
  <2>3. /\ \A t \in queue' : t \in queue \/ (c \notin started /\ t = [of |-> None, to |-> c]
                                             /\ t.to = c /\ t.of = None)
        /\ queue \subseteq queue'
    BY <1>1 DEF Started
  <2>4. c \notin started => /\ p # c /\ (\A t \in queue : t.to # c) /\ (\A d \in Coros : c \notin tokens[d])
                            /\ tokens[c] = {}
    BY <1>1, NotStarted
  <2>5. c \in started => Live' = Live /\ c \in Live
    BY <1>1, <1>10 DEF Live
  <2> HIDE DEF c
  <2>6. /\ \A t \in queue' : t.to \in started' /\ (t.of # None => t.of \in complete')
        /\ \A d \in Coros : /\ tokens'[d] # {} => d \in started'
                            /\ tokens'[d] \subseteq started'
    BY <1>1, <1>2, <1>10, <2>1, <2>2, <2>3 DEF WakeInv
  <2>7. \A t, u \in queue' : t.to = u.to /\ t.to \in Live' => t = u
    BY <1>10, <2>1, <2>3, <2>4, <2>5 DEF WakeInv
  <2>8. \A t \in queue', d \in Coros : t.to \in Live' => t.to \notin tokens'[d]
    BY <1>2, <1>10, <2>1, <2>2, <2>3, <2>4, <2>5 DEF WakeInv
  <2>9. \A d, e \in Coros, y \in Live' : y \in tokens'[d] /\ y \in tokens'[e] => d = e
    BY <1>2, <1>10, <2>1, <2>2, <2>4, <2>5 DEF WakeInv
  <2>10. ~Resetting' => /\ \A t \in queue' : t.to \in Live'
                        /\ \A d \in Live' : tokens'[d] \subseteq Live'
    BY <1>1, <1>2, <1>10, <1>11, <2>1, <2>2, <2>3, <2>4, <2>5 DEF WakeInv, Live, Types
  <2> QED
    BY <1>1, <2>6, <2>7, <2>8, <2>9, <2>10 DEF WakeInv
<1> QED
  BY <1>6, <1>8, <1>9, <1>10, <1>12, <1>13, QuietInvNext

LEMMA ReturnKeeps ==
  ASSUME HandlesInv, NEW p \in Coros, Return(p)
  PROVE  HandlesInv'
<1> DEFINE new == {[of |-> p, to |-> q] : q \in tokens[p]}
<1>1. /\ Acts(p) /\ todo = << >> /\ Types /\ current = p /\ current' = None
      /\ queue' = queue \cup new /\ tokens' = [tokens EXCEPT ![p] = {}]
      /\ complete' = complete \cup {p} /\ managed' = managed \ {p}
      /\ count' = [count EXCEPT ![p] = @ - 1] /\ count \in [Coros -> Int]
      /\ todo' = <<Does("frame", p)>> \o Unrefs(<<p, p>>)
      /\ UNCHANGED <<handle, awaits, suspended, frame, data, created, started, parent>>
      /\ tokens \in [Coros -> SUBSET Coros] /\ p \in Maybe /\ IsFiniteSet(queue)
  BY DEF Return, Acts, HandlesInv, Types, places, Maybe
<1>2. /\ p \in Live /\ p \in frame /\ p \in started /\ p \notin complete /\ p \notin suspended
      /\ (\A u \in queue : u.to # p) /\ (\A d \in Coros : p \notin tokens[d])
      /\ p \in data /\ count[p] > 1 /\ Live = managed /\ ~Resetting /\ WakeInv /\ LifeInv
  BY <1>1, Running, AtRest DEF HandlesInv
<1>3. /\ tokens[p] \subseteq Live
      /\ \A u \in queue : u.to \notin tokens[p]
  BY <1>2 DEF WakeInv
<1>4. IsFiniteSet(queue')
  <2> DEFINE f == [q \in tokens[p] |-> [of |-> p, to |-> q]]
  <2>1. IsFiniteSet(tokens[p])
    BY <1>1, FS_Subset, FinitelyMany
  <2>2. f \in Surjection(tokens[p], new)
    BY DEF Surjection
  <2>3. IsFiniteSet(new)
    BY <2>1, <2>2, FS_Surjection
  <2> QED
    BY <1>1, <2>3, FS_Union
<1>5. /\ Unrefs(<<p, p>>) \in Seq(Items) /\ <<Does("frame", p)>> \in Seq(Items) /\ todo' \in Seq(Items)
      /\ DOMAIN Unrefs(<<p, p>>) = 1..2 /\ Len(todo') = 3 /\ DOMAIN todo' = 1..3
      /\ \A i \in 1..2 : Unrefs(<<p, p>>)[i] = Does("unref", p)
      /\ todo'[1] = Does("frame", p) /\ todo'[2] = Does("unref", p) /\ todo'[3] = Does("unref", p)
  <2>1. /\ DOMAIN Unrefs(<<p, p>>) = 1..2 /\ Does("unref", p) \in Items /\ Does("frame", p) \in Items
        /\ \A i \in 1..2 : Unrefs(<<p, p>>)[i] = Does("unref", p)
    BY DoesTypes DEF Unrefs
  <2>2. Unrefs(<<p, p>>) \in Seq(Items)
    BY <2>1 DEF Unrefs
  <2> DEFINE U == Unrefs(<<p, p>>)
             x == Does("frame", p)
             y == Does("unref", p)
  <2>3. /\ U \in Seq(Items) /\ DOMAIN U = 1..2 /\ Len(U) = 2 /\ U[1] = y /\ U[2] = y
        /\ <<x>> \in Seq(Items) /\ todo' = <<x>> \o U
    BY <1>1, <2>1, <2>2
  <2> HIDE DEF U, x, y
  <2>4. /\ todo' \in Seq(Items) /\ Len(todo') = 3 /\ DOMAIN todo' = 1..3
        /\ todo'[1] = x /\ todo'[2] = y /\ todo'[3] = y
    <3> DEFINE v == <<x>>
    <3>1. Len(v) = 1 /\ v[1] = x /\ v \in Seq(Items) /\ todo' = v \o U
      BY <2>3
    <3> HIDE DEF v
    <3>2. /\ todo' \in Seq(Items) /\ Len(todo') = 1 + 2
          /\ \A i \in 1..1 : todo'[i] = v[i]
          /\ \A i \in 1..2 : todo'[1 + i] = U[i]
      BY <2>3, <3>1, Joined
    <3>3. todo'[1] = v[1] /\ todo'[1 + 1] = U[1] /\ todo'[1 + 2] = U[2]
      BY <3>2
    <3> QED
      BY <2>3, <3>1, <3>2, <3>3
  <2> QED
    BY <2>1, <2>2, <2>4 DEF x, y
<1>6. Types'
  <2>1. queue' \subseteq [of : Maybe, to : Coros]
    BY <1>1 DEF Types
  <2> QED
    BY <1>1, <1>4, <1>5, <2>1 DEF Types, Maybe
<1>7. ASSUME NEW d \in Coros
      PROVE  count'[d] = References(d)' /\ (count[d] > 0 <=> count'[d] > 0)
  <2>1. TermsAre(d) /\ TermsAre(d)' /\ Same(p, d) \in Nat /\ In(d, tokens[p]) \in Nat
        /\ In(d, managed) \in Nat
    BY <1>1, <1>6, TermsNow, TermsNext DEF In, Same
  <2>2. Resumes(queue', d) = Resumes(queue, d) + In(d, tokens[p])
    <3>1. CASE d \in tokens[p]
      <4> DEFINE t == [of |-> p, to |-> d]
      <4>1. t.to = d /\ t \notin queue /\ t \in queue'
        BY <1>1, <1>3, <3>1
      <4>2. {u \in queue : u.to = d} \ {t} = {u \in queue' : u.to = d} \ {t}
        BY <1>1
      <4> HIDE DEF t
      <4>3. IsFiniteSet(queue)
        BY <1>1
      <4>4. Resumes(queue', d) = Resumes(queue, d) - In(t, queue) + In(t, queue')
        BY <4>1, <4>2, <4>3, ResumesChange
      <4> QED
        BY <2>1, <3>1, <4>1, <4>4 DEF In, TermsAre
    <3>2. CASE d \notin tokens[p]
      <4>1. {u \in queue : u.to = d} = {u \in queue' : u.to = d}
        BY <1>1, <3>2
      <4>2. Resumes(queue', d) = Resumes(queue, d)
        BY <4>1, Zenon DEF Resumes
      <4> QED
        BY <2>1, <3>2, <4>2 DEF In, TermsAre
    <3> QED
      BY <3>1, <3>2
  <2>3. Waits(tokens', d) = Waits(tokens, d) - In(d, tokens[p])
    <3>1. Waits([tokens EXCEPT ![p] = {}], d) = Waits(tokens, d) - In(d, tokens[p]) + In(d, {})
      BY <1>1, WaitsChange
    <3>2. In(d, {}) = 0
      BY DEF In
    <3> QED
      BY <1>1, <2>1, <3>1, <3>2 DEF TermsAre
  <2>4. In(d, managed') = In(d, managed) - Same(p, d)
    BY <1>1, <1>2 DEF In, Same
  <2>5. Ties(d)' = Ties(d) - Same(p, d)
    <3>1. parent' = parent
      BY <1>1
    <3> QED
      BY <2>1, <2>2, <2>3, <2>4, <3>1 DEF Ties, TermsAre
  <2>6. Places(d)' = Places(d) /\ handle' = handle
    BY <1>1 DEF Places
  <2>7. Same(current, d) = Same(p, d) /\ Same(current', d) = 0
    BY <1>1, NoneIsNot
  <2>8. Given(todo, d) = 0 /\ Given(todo', d) = 2 * Same(p, d)
    <3>1. Given(todo', d) = Given(<<Does("frame", p)>>, d) + Given(Unrefs(<<p, p>>), d)
      BY <1>1, <1>5, GivenConcat
    <3>2. Given(<<Does("frame", p)>>, d) = 0
      <4>1. Gives(Does("frame", p), d) = 0
        BY DoesTypes
      <4> QED
        BY <4>1, GivenShort
    <3>3. Given(Unrefs(<<p, p>>), d) = 2 * Same(p, d)
      <4>1. Givers(Unrefs(<<p, p>>), d) = IF p = d THEN {1} \cup {2} ELSE {}
        BY <1>5, DoesTypes DEF Givers
      <4>2. Cardinality({1} \cup {2}) = 2 /\ Cardinality({}) = 0
        <5> DEFINE S == {1}
        <5>1. \A x : IsFiniteSet({x}) /\ Cardinality({x}) = 1
          BY FS_Singleton, Zenon
        <5>2. 2 \notin S
          OBVIOUS
        <5>3. IsFiniteSet(S) /\ Cardinality(S) = 1 /\ 2 \notin S
          BY <5>1, <5>2, Zenon
        <5> HIDE DEF S
        <5>4. Cardinality(S \cup {2}) = 2
          BY <5>3, FS_AddElement
        <5> QED
          BY <5>4, FS_EmptySet DEF S
      <4>3. CASE p = d
        BY <4>1, <4>2, <4>3 DEF Given, Same
      <4>4. CASE p # d
        BY <4>1, <4>2, <4>4 DEF Given, Same
      <4> QED
        BY <4>3, <4>4
    <3> QED
      BY <1>1, <2>1, <3>1, <3>2, <3>3, AtRest
  <2>9. Grouped(d) /\ Grouped(d)' /\ count[d] = References(d)
    BY <1>1, <1>6, Before, After DEF HandlesInv, CountsReferences
  <2>10. count'[d] = count[d] - Same(p, d) /\ count[d] \in Int
    BY <1>1 DEF Same
  <2>11. count'[d] = References(d)'
    BY <2>1, <2>5, <2>6, <2>7, <2>8, <2>9, <2>10 DEF Grouped
  <2> QED
    BY <1>2, <2>10, <2>11 DEF Same
<1>8. CountsReferences'
  BY <1>1, <1>6, <1>7, SameData DEF HandlesInv
<1>9. /\ Does("frame", p).does = "frame" /\ Does("unref", p).does = "unref"
      /\ Does("frame", p).c = p /\ Does("unref", p).c = p
  BY DoesTypes
<1>10. Frames' = {1} /\ Going' = {p} /\ ~Resetting' /\ ToDo("drop")' = {} /\ ToDo("destroy")' = {}
       /\ Assigning' /\ Guarded'
  BY <1>5, <1>9 DEF Frames, Going, Resetting, ToDo, Assigning, Guarded
<1>11. Live' = Live \ {p} /\ Live' = managed'
  BY <1>1, <1>2 DEF Live
<1>12. ResetInv'
  BY <1>5, <1>9, <1>10, <1>11 DEF ResetInv
<1>13. LifeInv'
  BY <1>1, <1>2, <1>10, <1>11 DEF LifeInv, Live
<1>14. FramesAreThere'
  BY <1>1, <1>2, <1>5, <1>9, <1>10, <1>11 DEF FramesAreThere, LifeInv
<1>15. WakeInv'
  <2>1. /\ \A x \in Coros : \A y : y \in tokens'[x] <=> (y \in tokens[x] /\ x # p)
        /\ \A u \in queue' : u \in queue \/ (u.of = p /\ u.to \in tokens[p] /\ u = [of |-> p, to |-> u.to])
    BY <1>1
  <2>2. /\ \A t \in queue' : t.to \in started' /\ (t.of # None => t.of \in complete')
        /\ \A d \in Coros : /\ tokens'[d] # {} => d \in started'
                            /\ tokens'[d] \subseteq started'
    BY <1>1, <1>2, <2>1 DEF WakeInv
  <2>3. \A t, u \in queue' : t.to = u.to /\ t.to \in Live' => t = u
    BY <1>2, <1>3, <1>11, <2>1 DEF WakeInv
  <2>4. \A t \in queue', d \in Coros : t.to \in Live' => t.to \notin tokens'[d]
    BY <1>2, <1>3, <1>11, <2>1 DEF WakeInv
  <2>5. \A d, e \in Coros, y \in Live' : y \in tokens'[d] /\ y \in tokens'[e] => d = e
    BY <1>2, <1>11, <2>1 DEF WakeInv
  <2>6. /\ \A t \in queue' : t.to \in Live'
        /\ \A d \in Live' : tokens'[d] \subseteq Live'
    BY <1>1, <1>2, <1>3, <1>11, <2>1 DEF WakeInv, Live, Types
  <2> QED
    BY <1>1, <2>2, <2>3, <2>4, <2>5, <2>6 DEF WakeInv
<1> QED
  BY <1>6, <1>8, <1>10, <1>12, <1>13, <1>14, <1>15 DEF HandlesInv

LEMMA StepKeeps ==
  ASSUME HandlesInv, NEW t \in queue, Step(t)
  PROVE  HandlesInv'
<1> DEFINE p == t.to
           x == awaits[p]
<1>1. /\ current = None /\ todo = << >> /\ Types /\ p \in Coros /\ x \in Maybe
      /\ queue' = queue \ {t} /\ current' = p
      /\ count' = [count EXCEPT ![p] = @ + 1 - Wrapped(p)]
      /\ suspended' = suspended \ {p} /\ awaits' = [awaits EXCEPT ![p] = None]
      /\ todo' = Drops(x) /\ count \in [Coros -> Int] /\ awaits \in [Coros -> Maybe]
      /\ UNCHANGED <<handle, frame, data, created, started, complete, parent, managed, tokens>>
      /\ IsFiniteSet(queue)
  BY DEF Step, WrapperGone, Acts, HandlesInv, Types, life
<1>2. /\ Live = managed /\ ~Resetting /\ WakeInv /\ LifeInv
      /\ p \in Live /\ p \in frame /\ p \in started
      /\ (\A u \in queue : u.to = p => u = t) /\ (\A d \in Coros : p \notin tokens[d])
  BY <1>1, AtRest DEF HandlesInv, WakeInv, LifeInv
<1>3. /\ Drops(x) \in Seq(Items)
      /\ \A i \in DOMAIN Drops(x) : x \in Coros /\ Drops(x)[i] = Does("drop", x)
      /\ \A c \in Coros : Given(Drops(x), c) = Same(x, c)
  <2> HIDE DEF x
  <2> QED
    BY <1>1, DropsAre
<1>4. Types'
  <2>1. IsFiniteSet(queue') /\ queue' \subseteq queue
    BY <1>1, FS_Subset
  <2>2. awaits' \in [Coros -> Maybe] /\ count' \in [Coros -> Int]
    BY <1>1 DEF Wrapped, Maybe
  <2> HIDE DEF x
  <2> QED
    BY <1>1, <1>3, <2>1, <2>2 DEF Types, Maybe
<1>5. ASSUME NEW d \in Coros
      PROVE  count'[d] = References(d)' /\ (count[d] > 0 <=> count'[d] > 0)
  <2>1. TermsAre(d) /\ TermsAre(d)' /\ Same(p, d) \in Nat /\ Same(x, d) \in Nat
        /\ In(d, managed) \in Nat /\ In(d, suspended) \in Nat /\ In(d, frame) \in Nat
        /\ Wrapped(p) \in Nat
    BY <1>1, <1>4, TermsNow, TermsNext DEF In, Same, Wrapped
  <2>2. Resumes(queue', d) = Resumes(queue, d) - Same(p, d)
    <3>1. CASE d = p
      <4>1. t.to = d /\ t \in queue /\ t \notin queue'
        BY <1>1, <3>1
      <4>2. {u \in queue : u.to = d} \ {t} = {u \in queue' : u.to = d} \ {t}
        BY <1>1
      <4>3. IsFiniteSet(queue)
        BY <1>1
      <4>4. Resumes(queue', d) = Resumes(queue, d) - In(t, queue) + In(t, queue')
        BY <4>1, <4>2, <4>3, ResumesChange
      <4> QED
        BY <2>1, <3>1, <4>1, <4>4 DEF In, TermsAre, Same
    <3>2. CASE d # p
      <4>1. {u \in queue : u.to = d} = {u \in queue' : u.to = d}
        BY <1>1, <3>2
      <4>2. Resumes(queue', d) = Resumes(queue, d)
        BY <4>1, Zenon DEF Resumes
      <4> QED
        BY <2>1, <3>2, <4>2 DEF Same, TermsAre
    <3> QED
      BY <3>1, <3>2
  <2>3. Ties(d)' = Ties(d) - Same(p, d)
    <3>1. UNCHANGED <<managed, tokens, parent>>
      BY <1>1
    <3> QED
      BY <2>1, <2>2, <3>1 DEF Ties, TermsAre
  <2>4. Holders(awaits', d) = Holders(awaits, d) - Same(x, d)
    <3>1. Holders([awaits EXCEPT ![p] = None], d) = Holders(awaits, d) - Same(awaits[p], d)
      BY <1>1, CoroChange
    <3> QED
      BY <1>1, <3>1
  <2>5. 2 * In(d, suspended') = 2 * In(d, suspended) - Wrapped(p) * Same(p, d)
    BY <1>1 DEF In, Same, Wrapped
  <2>6. Places(d)' = Places(d) - Same(x, d) - Wrapped(p) * Same(p, d)
    <3>1. In(d, frame') = In(d, frame) /\ In(d, suspended') \in Nat /\ Wrapped(p) * Same(p, d) \in Nat
      BY <1>1, <2>1 DEF In, Wrapped, Same
    <3> DEFINE a == Holders(awaits, d)
               a1 == Holders(awaits', d)
               f == In(d, frame)
               g == In(d, suspended)
               g1 == In(d, suspended')
               w == Wrapped(p) * Same(p, d)
               y == Same(x, d)
    <3>2. a \in Nat /\ a1 \in Nat /\ f \in Nat /\ g \in Nat /\ g1 \in Nat /\ w \in Nat /\ y \in Nat
      BY <2>1, <3>1 DEF TermsAre
    <3>3. /\ a1 = a - y /\ 2 * g1 = 2 * g - w
          /\ Places(d) = a + f + 2 * g /\ Places(d)' = a1 + f + 2 * g1
      BY <2>4, <2>5, <3>1 DEF Places
    <3> HIDE DEF a, a1, f, g, g1, w, y
    <3>4. Places(d)' = Places(d) - y - w
      BY <3>2, <3>3
    <3> QED
      BY <3>4 DEF y, w
  <2>7. Same(current, d) = 0 /\ Same(current', d) = Same(p, d) /\ handle' = handle
    BY <1>1, NoneIsNot
  <2>8. Given(todo, d) = 0 /\ Given(todo', d) = Same(x, d)
    BY <1>1, <1>3, AtRest
  <2>9. Grouped(d) /\ Grouped(d)' /\ count[d] = References(d)
    BY <1>1, <1>4, Before, After DEF HandlesInv, CountsReferences
  <2>10. count'[d] = count[d] + Same(p, d) - Wrapped(p) * Same(p, d)
         /\ Wrapped(p) * Same(p, d) \in Nat /\ count[d] \in Nat
    BY <1>1, InUse DEF Same, Wrapped, HandlesInv
  <2>11. count'[d] = References(d)'
    <3> DEFINE h == Holders(handle, d)
               P == Places(d)
               P1 == Places(d)'
               T == Ties(d)
               T1 == Ties(d)'
               w == Wrapped(p) * Same(p, d)
               y == Same(x, d)
               z == Same(p, d)
    <3>1. h \in Int /\ P \in Int /\ P1 \in Int /\ T \in Int /\ T1 \in Int
          /\ w \in Int /\ y \in Int /\ z \in Int /\ count[d] \in Int
      BY <2>1, <2>9, <2>10 DEF Grouped
    <3>2. /\ count[d] = h + 0 + P + T + 2 * 0
          /\ References(d)' = h + y + P1 + T1 + 2 * z
          /\ count'[d] = count[d] + z - w
          /\ P1 = P - y - w /\ T1 = T - z
      BY <2>3, <2>6, <2>7, <2>8, <2>9, <2>10 DEF Grouped
    <3> HIDE DEF h, P, P1, T, T1, w, y, z
    <3> QED
      BY <3>1, <3>2
  <2>12. d = p => count[d] > 0 /\ count'[d] > 0
    <3> SUFFICES ASSUME d = p PROVE count[d] > 0 /\ count'[d] > 0
      OBVIOUS
    <3>1. count[d] > 0
      BY <1>1, InUse DEF HandlesInv, Unused
    <3>2. In(d, frame') \in Nat /\ In(d, suspended') \in Nat /\ In(d, managed') \in Nat
          /\ Same(current', d) = 1
      BY <1>1 DEF In, Same
    <3>3. Places(d)' \in Nat
      BY <2>1, <3>2 DEF Places, TermsAre
    <3>4. Ties(d)' \in Nat
      BY <2>1, <3>2 DEF Ties, TermsAre
    <3>5. References(d)' > 0
      BY <2>1, <2>9, <3>2, <3>3, <3>4 DEF Grouped, TermsAre
    <3> QED
      BY <2>11, <3>1, <3>5
  <2>13. d # p => Same(p, d) = 0 /\ Wrapped(p) * Same(p, d) = 0
    BY <2>1 DEF Same
  <2> QED
    BY <2>10, <2>11, <2>12, <2>13
<1>6. CountsReferences'
  BY <1>1, <1>4, <1>5, SameData DEF HandlesInv
<1>7. Quiet'
  BY <1>1, <1>3, DoesTypes DEF Quiet
<1>8. Live' = managed' /\ Live' = Live
  BY <1>1, <1>2 DEF Live
<1>9. Going' = {} /\ Going = {} /\ ToDo("drop")' \subseteq {x} /\ (None \notin Coros) /\ ~Resetting'
  BY <1>1, <1>3, <1>4, <1>7, AtRest, QuietToDoNext, DoesTypes, Names DEF ToDo
<1>10. LifeInv'
  <2>1. x # None => x \in started
    BY <1>1, <1>2 DEF LifeInv
  <2>2. \A c \in Coros : awaits'[c] # None => c # p /\ awaits'[c] = awaits[c]
    BY <1>1
  <2> HIDE DEF x
  <2>3. ASSUME NEW c \in created \ started, c \notin frame \/ c \in Going'
        PROVE  (\A s \in Slots : handle[s] # c) /\ c \notin ToDo("drop")'
    BY <1>1, <1>2, <1>9, <2>1, <2>3 DEF LifeInv, Types
  <2> QED
    BY <1>1, <1>2, <1>8, <2>2, <2>3 DEF LifeInv
<1>11. WakeInv'
  <2> HIDE DEF x
  <2> QED
    BY <1>1, <1>2, <1>8, <1>9, Names DEF WakeInv
<1> QED
  BY <1>4, <1>6, <1>7, <1>8, <1>10, <1>11, QuietInvNext

LEMMA ResetKeeps ==
  ASSUME HandlesInv, Reset
  PROVE  HandlesInv'
<1>1. PICK order \in SetToSeqs(managed) :
        todo' = [i \in DOMAIN order |-> Does("destroy", order[i])] \o <<Does("clear", None)>> \o Unrefs(order)
  BY DEF Reset
<1> DEFINE A == [i \in DOMAIN order |-> Does("destroy", order[i])]
           C == <<Does("clear", None)>>
           U == Unrefs(order)
           n == Len(order)
<1>2. /\ current = None /\ todo = << >> /\ Types /\ managed' = {}
      /\ UNCHANGED <<handle, awaits, suspended, frame, data, count, created, started, complete,
                     parent, tokens, queue, current>>
  BY DEF Reset, Acts, HandlesInv, places
<1>3. /\ Live = managed /\ ~Resetting /\ WakeInv /\ LifeInv /\ managed \subseteq Coros /\ IsFiniteSet(managed)
      /\ managed \subseteq frame
  BY <1>2, AtRest, FinitelyMany, FS_Subset DEF HandlesInv, Types, LifeInv
<1>4. /\ order \in Seq(managed) /\ n \in Nat /\ DOMAIN order = 1..n
      /\ \A i, j \in DOMAIN order : order[i] = order[j] => i = j
      /\ \A x \in managed : \E i \in DOMAIN order : order[i] = x
  BY <1>3, Enumerates
<1> HIDE DEF n
<1>5. /\ A \in Seq(Items) /\ Len(A) = n /\ \A i \in 1..n : A[i] = Does("destroy", order[i])
      /\ C \in Seq(Items) /\ Len(C) = 1 /\ C[1] = Does("clear", None)
      /\ U \in Seq(Items) /\ Len(U) = n /\ \A i \in 1..n : U[i] = Does("unref", order[i])
  <2>1. \A i \in 1..n : order[i] \in Coros
    BY <1>3, <1>4
  <2>2. \A i \in 1..n : Does("destroy", order[i]) \in Items /\ Does("unref", order[i]) \in Items
    BY <2>1, DoesTypes
  <2>3. Does("clear", None) \in Items
    BY DEF Does, Items
  <2>4. A \in Seq(Items) /\ Len(A) = n /\ \A i \in 1..n : A[i] = Does("destroy", order[i])
    BY <1>4, <2>2
  <2>5. U \in Seq(Items) /\ Len(U) = n /\ \A i \in 1..n : U[i] = Does("unref", order[i])
    BY <1>4, <2>2 DEF Unrefs
  <2> QED
    BY <2>3, <2>4, <2>5
<1>6. /\ todo' \in Seq(Items) /\ DOMAIN todo' = 1..(n + 1 + n)
      /\ \A i \in 1..n : todo'[i] = Does("destroy", order[i])
      /\ todo'[n + 1] = Does("clear", None)
      /\ \A i \in 1..n : todo'[n + 1 + i] = Does("unref", order[i])
  <2> DEFINE B == A \o C
  <2> HIDE DEF A, C, U
  <2>1. /\ B \in Seq(Items) /\ Len(B) = n + 1 /\ B[n + 1] = C[1]
        /\ \A i \in 1..n : B[i] = A[i]
    <3>1. A \in Seq(Items) /\ C \in Seq(Items)
      BY <1>5
    <3>2. /\ B \in Seq(Items) /\ Len(B) = Len(A) + Len(C)
          /\ \A i \in 1..Len(A) : B[i] = A[i]
          /\ \A i \in 1..Len(C) : B[Len(A) + i] = C[i]
      BY <3>1, Joined
    <3> HIDE DEF B
    <3>3. n \in Nat /\ Len(A) = n /\ Len(C) = 1
      BY <1>4, <1>5
    <3>4. B[n + 1] = C[1]
      BY <3>2, <3>3
    <3> QED
      BY <3>2, <3>3, <3>4
  <2>2. todo' = B \o U
    BY <1>1 DEF A, C, U
  <2> HIDE DEF B
  <2>3. /\ todo' \in Seq(Items) /\ Len(todo') = (n + 1) + n
        /\ \A i \in 1..(n + 1) : todo'[i] = B[i]
        /\ \A i \in 1..n : todo'[(n + 1) + i] = U[i]
    <3>1. B \in Seq(Items) /\ U \in Seq(Items)
      BY <1>5, <2>1
    <3>2. /\ B \o U \in Seq(Items) /\ Len(B \o U) = Len(B) + Len(U)
          /\ \A i \in 1..Len(B) : (B \o U)[i] = B[i]
          /\ \A i \in 1..Len(U) : (B \o U)[Len(B) + i] = U[i]
      BY <3>1, Joined
    <3> QED
      BY <1>4, <1>5, <2>1, <2>2, <3>2
  <2>4. DOMAIN todo' = 1..(n + 1 + n)
    BY <1>4, <2>3
  <2>5. \A i \in 1..n : todo'[i] = Does("destroy", order[i])
    BY <1>4, <1>5, <2>1, <2>3
  <2>6. todo'[n + 1] = Does("clear", None)
    BY <1>4, <1>5, <2>1, <2>3
  <2>7. \A i \in 1..n : todo'[n + 1 + i] = Does("unref", order[i])
    BY <1>4, <1>5, <2>3
  <2> QED
    BY <2>3, <2>4, <2>5, <2>6, <2>7
<1>7. Types'
  BY <1>2, <1>6 DEF Types
<1>8. ASSUME NEW d \in Coros
      PROVE  count'[d] = References(d)'
  <2>1. Given(todo', d) = In(d, managed)
    <3>1. Given(A, d) = 0
      <4>1. Givers(A, d) = {}
        BY <1>4, <1>5 DEF Givers, Does
      <4> QED
        BY <4>1, FS_EmptySet DEF Given
    <3>2. Given(C, d) = 0
      <4>1. Gives(Does("clear", None), d) = 0
        BY DEF Gives, Does
      <4> QED
        BY <4>1, GivenShort
    <3>3. Given(U, d) = In(d, managed)
      BY <1>3, GivenUnrefs
    <3> HIDE DEF A, C, U
    <3>4. Given(A \o C, d) = Given(A, d) + Given(C, d) /\ A \o C \in Seq(Items)
      BY <1>5, GivenConcat, Joined
    <3>5. Given((A \o C) \o U, d) = Given(A \o C, d) + Given(U, d)
      BY <1>5, <3>4, GivenConcat, ZenonT(40)
    <3>6. todo' = (A \o C) \o U
      BY <1>1 DEF A, C, U
    <3> QED
      BY <3>1, <3>2, <3>3, <3>4, <3>5, <3>6 DEF In
  <2>2. TermsAre(d) /\ In(d, managed') = 0 /\ In(d, managed) \in Nat
    BY <1>2, TermsNow DEF In
  <2>3. Ties(d)' = Ties(d) - In(d, managed)
    <3>1. UNCHANGED <<queue, tokens, parent>>
      BY <1>2
    <3> QED
      BY <2>2, <3>1 DEF Ties, TermsAre
  <2>4. Places(d)' = Places(d) /\ handle' = handle /\ current' = current /\ count' = count
    BY <1>2 DEF Places
  <2>5. Given(todo, d) = 0 /\ Grouped(d) /\ Grouped(d)' /\ count[d] = References(d)
    BY <1>2, <1>7, AtRest, Before, After DEF HandlesInv, CountsReferences
  <2> QED
    BY <2>1, <2>2, <2>3, <2>4, <2>5 DEF Grouped
<1>9. CountsReferences'
  BY <1>2, <1>7, <1>8, SameData DEF HandlesInv
<1>10. \A i \in DOMAIN todo' :
         /\ todo'[i].does = "destroy" <=> i \in 1..n
         /\ todo'[i].does = "clear" <=> i = n + 1
         /\ todo'[i].does = "unref" <=> i \in (n + 2)..(n + 1 + n)
         /\ i \in 1..n => todo'[i].c = order[i]
         /\ i \in (n + 2)..(n + 1 + n) => todo'[i].c = order[i - n - 1]
         /\ todo'[i].does \in {"destroy", "clear", "unref"}
  <2> SUFFICES ASSUME NEW i \in DOMAIN todo'
               PROVE  /\ todo'[i].does = "destroy" <=> i \in 1..n
                      /\ todo'[i].does = "clear" <=> i = n + 1
                      /\ todo'[i].does = "unref" <=> i \in (n + 2)..(n + 1 + n)
                      /\ i \in 1..n => todo'[i].c = order[i]
                      /\ i \in (n + 2)..(n + 1 + n) => todo'[i].c = order[i - n - 1]
                      /\ todo'[i].does \in {"destroy", "clear", "unref"}
    OBVIOUS
  <2>1. CASE i \in 1..n
    <3>1. todo'[i] = Does("destroy", order[i])
      BY <1>6, <2>1
    <3>2. todo'[i].does = "destroy" /\ todo'[i].c = order[i]
      BY <3>1 DEF Does
    <3>3. i # n + 1 /\ i \notin (n + 2)..(n + 1 + n)
      BY <1>4, <2>1
    <3> QED
      BY <2>1, <3>2, <3>3
  <2>2. CASE i = n + 1
    BY <1>4, <1>6, <2>2 DEF Does
  <2>3. CASE i \in (n + 2)..(n + 1 + n)
    <3>1. i - n - 1 \in 1..n /\ n + 1 + (i - n - 1) = i
      BY <1>4, <2>3
    <3>2. todo'[i] = Does("unref", order[i - n - 1])
      BY <1>6, <3>1
    <3> QED
      BY <1>4, <2>3, <3>2 DEF Does
  <2> QED
    BY <1>4, <1>6, <2>1, <2>2, <2>3
<1>11. /\ Frames' = 1..n /\ 1..n \subseteq DOMAIN todo' /\ n + 1 \in DOMAIN todo'
       /\ \A i \in 1..n : /\ i + n + 1 \in DOMAIN todo' /\ i + n + 1 > i /\ i + n + 1 > n + 1
                          /\ todo'[i + n + 1].does = "unref" /\ todo'[i + n + 1].c = order[i]
       /\ ToDo("drop")' = {} /\ Live' = Live /\ ToDo("destroy")' = managed /\ Going' = managed
       /\ Resetting'
  <2>1. Frames' = 1..n /\ 1..n \subseteq DOMAIN todo' /\ n + 1 \in DOMAIN todo'
    <3>1. 1..n \subseteq DOMAIN todo' /\ n + 1 \in DOMAIN todo'
      BY <1>4, <1>6
    <3>2. \A i \in DOMAIN todo' : todo'[i].does \in {"frame", "destroy"} <=> i \in 1..n
      BY <1>10
    <3> QED
      BY <3>1, <3>2 DEF Frames
  <2>2. ASSUME NEW i \in 1..n
        PROVE  /\ i + n + 1 \in DOMAIN todo' /\ i + n + 1 > i /\ i + n + 1 > n + 1
               /\ todo'[i + n + 1].does = "unref" /\ todo'[i + n + 1].c = order[i]
    <3>1. i + n + 1 \in (n + 2)..(n + 1 + n) /\ (i + n + 1) - n - 1 = i /\ i + n + 1 \in DOMAIN todo'
      BY <1>4, <1>6
    <3> QED
      BY <1>4, <1>10, <3>1
  <2>3. {todo'[i].c : i \in 1..n} = managed
    BY <1>4, <1>10, <2>1
  <2>4. ToDo("destroy")' = {todo'[i].c : i \in 1..n}
    <3>1. {j \in DOMAIN todo' : todo'[j].does = "destroy"} = 1..n
      BY <1>10, <2>1
    <3> QED
      BY <3>1, Zenon DEF ToDo
  <2>5. Going' = {todo'[i].c : i \in 1..n}
    BY <2>1, Zenon DEF Going
  <2>6. ToDo("drop")' = {} /\ Resetting'
    BY <1>10, <2>1 DEF ToDo, Resetting
  <2>7. Live' = Live
    BY <1>2 DEF Live
  <2> QED
    BY <2>1, <2>2, <2>3, <2>4, <2>5, <2>6, <2>7
<1>12. Assigning' /\ Guarded'
  <2>1. Assigning'
    BY <1>10 DEF Assigning
  <2>2. ASSUME NEW i \in Frames'
        PROVE  \E j \in DOMAIN todo' : j > i /\ todo'[j].does = "unref" /\ todo'[j].c = todo'[i].c
    <3>1. i \in 1..n /\ todo'[i].c = order[i]
      BY <1>10, <1>11
    <3> QED
      BY <1>11, <3>1
  <2> QED
    BY <2>1, <2>2 DEF Guarded
<1>13. ResetInv'
  <2>1. \A i, j \in DOMAIN todo' : todo'[i].does = "clear" /\ todo'[j].does = "clear" => i = j
    BY <1>10
  <2>2. ASSUME NEW i \in DOMAIN todo', todo'[i].does = "destroy"
        PROVE  todo'[i].c \in Live' /\ \E j \in DOMAIN todo' : j > i /\ todo'[j].does = "clear"
    <3>1. i \in 1..n /\ n + 1 > i /\ todo'[n + 1].does = "clear" /\ todo'[i].c = order[i]
      BY <1>4, <1>10, <1>11, <2>2
    <3> QED
      BY <1>3, <1>4, <1>11, <3>1
  <2>3. \A i \in DOMAIN todo' : todo'[i].does = "frame" => todo'[i].c \notin Live'
    BY <1>10
  <2>4. ASSUME NEW t \in queue', NEW i \in DOMAIN todo', todo'[i].does = "clear"
        PROVE  \E j \in DOMAIN todo' : j > i /\ todo'[j].does = "unref" /\ todo'[j].c = t.to
    <3>1. t.to \in managed /\ i = n + 1
      BY <1>2, <1>3, <1>10, <2>4 DEF WakeInv
    <3>2. PICK k \in 1..n : order[k] = t.to
      BY <1>4, <3>1
    <3> QED
      BY <1>11, <3>1, <3>2
  <2> QED
    BY <1>2, <1>3, <1>11, <2>1, <2>2, <2>3, <2>4 DEF ResetInv
<1>14. FramesAreThere'
  <2>1. \A i \in Frames' : i \in DOMAIN order /\ todo'[i].c = order[i] /\ order[i] \in managed
    <3>1. \A i \in 1..n : todo'[i].c = order[i]
      BY <1>10, <1>11
    <3> QED
      BY <1>4, <1>11, <3>1
  <2>2. \A i, j \in Frames' : i # j => todo'[i].c # todo'[j].c
    BY <1>4, <2>1
  <2>3. todo' # << >>
    <3>1. DOMAIN todo' # {}
      BY <1>11
    <3> QED
      BY <3>1
  <2> QED
    BY <1>2, <1>3, <1>11, <2>1, <2>2, <2>3 DEF FramesAreThere
<1>15. LifeInv'
  <2>1. managed \subseteq started
    BY <1>3 DEF Live
  <2> QED
    BY <1>2, <1>3, <1>11, <2>1 DEF LifeInv
<1>16. WakeInv'
  BY <1>2, <1>3, <1>11 DEF WakeInv
<1> QED
  BY <1>7, <1>9, <1>12, <1>13, <1>14, <1>15, <1>16 DEF HandlesInv

-----------------------------------------------------------------------------
(* Doing the first of the things to do: what it leads to, and then the rest. *)
Plain(seq) == \A i \in DOMAIN seq : seq[i].does \in {"unref", "drop"}

GuardedIn(w) ==
  \A i \in DOMAIN w : w[i].does \in {"frame", "destroy"} =>
    \E j \in DOMAIN w : j > i /\ w[j].does = "unref" /\ w[j].c = w[i].c
FramesDiffer(w) ==
  \A i, j \in DOMAIN w :
    w[i].does \in {"frame", "destroy"} /\ w[j].does \in {"frame", "destroy"} /\ i # j => w[i].c # w[j].c
OneClear(w) ==
  \A i, j \in DOMAIN w : w[i].does = "clear" /\ w[j].does = "clear" => i = j
ClearFollows(w) ==
  \A i \in DOMAIN w : w[i].does = "destroy" => \E j \in DOMAIN w : j > i /\ w[j].does = "clear"
HeldAfterClear(w, q) ==
  \A t \in q, i \in DOMAIN w : w[i].does = "clear" =>
    \E j \in DOMAIN w : j > i /\ w[j].does = "unref" /\ w[j].c = t.to

LEMMA Spliced ==
  ASSUME NEW X, NEW seq \in Seq(X), NEW old \in Seq(X), old # << >>, NEW new, new = seq \o Tail(old)
  PROVE  /\ new \in Seq(X) /\ Len(seq) \in Nat
         /\ \A i \in DOMAIN seq : i \in DOMAIN new /\ new[i] = seq[i]
         /\ \A k \in DOMAIN old : k # 1 =>
              k + Len(seq) - 1 \in DOMAIN new /\ new[k + Len(seq) - 1] = old[k]
         /\ \A i \in DOMAIN new : i \notin DOMAIN seq =>
              /\ i - Len(seq) + 1 \in DOMAIN old /\ i - Len(seq) + 1 # 1
              /\ new[i] = old[i - Len(seq) + 1]
<1> DEFINE tl == Tail(old)
           n == Len(seq)
           m == Len(old)
<1>1. /\ tl \in Seq(X) /\ Len(tl) = m - 1 /\ m \in Nat /\ m > 0 /\ n \in Nat
      /\ DOMAIN old = 1..m /\ DOMAIN seq = 1..n
      /\ \A i \in 1..(m - 1) : tl[i] = old[i + 1]
  OBVIOUS
<1>2. new = seq \o tl
  OBVIOUS
<1> HIDE DEF tl
<1>3. /\ new \in Seq(X) /\ Len(new) = Len(seq) + Len(tl)
      /\ \A i \in 1..Len(seq) : new[i] = seq[i]
      /\ \A i \in 1..Len(tl) : new[Len(seq) + i] = tl[i]
  <2>1. /\ seq \o tl \in Seq(X) /\ Len(seq \o tl) = Len(seq) + Len(tl)
        /\ \A i \in 1..Len(seq) : (seq \o tl)[i] = seq[i]
        /\ \A i \in 1..Len(tl) : (seq \o tl)[Len(seq) + i] = tl[i]
    <3>1. tl \in Seq(X)
      BY <1>1
    <3> QED
      BY <3>1, Joined
  <2> QED
    BY <1>2, <2>1
<1> HIDE DEF n, m
<1>4. /\ DOMAIN new = 1..(n + (m - 1)) /\ Len(seq) = n
      /\ \A i \in 1..n : new[i] = seq[i]
      /\ \A i \in 1..(m - 1) : new[n + i] = old[i + 1]
  <2>1. Len(new) = n + (m - 1) /\ Len(seq) = n
    BY <1>1, <1>3 DEF n
  <2> QED
    BY <1>1, <1>3, <2>1
<1>5. \A k \in 2..m : new[k + n - 1] = old[k]
  <2> SUFFICES ASSUME NEW k \in 2..m PROVE new[k + n - 1] = old[k]
    OBVIOUS
  <2>1. k - 1 \in 1..(m - 1) /\ n + (k - 1) = k + n - 1 /\ (k - 1) + 1 = k
    BY <1>1
  <2>2. new[n + (k - 1)] = old[(k - 1) + 1]
    BY <1>4, <2>1
  <2> QED
    BY <2>1, <2>2
<1>6. \A i \in (n + 1)..(n + (m - 1)) : new[i] = old[i - n + 1]
  <2> SUFFICES ASSUME NEW i \in (n + 1)..(n + (m - 1)) PROVE new[i] = old[i - n + 1]
    OBVIOUS
  <2>1. i - n \in 1..(m - 1) /\ n + (i - n) = i
    BY <1>1
  <2>2. new[n + (i - n)] = old[(i - n) + 1]
    BY <1>4, <2>1
  <2> QED
    BY <2>1, <2>2
<1>7. /\ \A i \in DOMAIN seq : i \in DOMAIN new /\ new[i] = seq[i]
      /\ \A k \in DOMAIN old : k # 1 => k + n - 1 \in DOMAIN new /\ new[k + n - 1] = old[k]
  <2>1. \A i \in 1..n : i \in 1..(n + (m - 1))
    BY <1>1
  <2>2. \A k \in 1..m : k # 1 => k \in 2..m /\ k + n - 1 \in 1..(n + (m - 1))
    BY <1>1
  <2> QED
    BY <1>1, <1>4, <1>5, <2>1, <2>2
<1>8. \A i \in DOMAIN new : i \notin DOMAIN seq =>
        i - n + 1 \in DOMAIN old /\ i - n + 1 # 1 /\ new[i] = old[i - n + 1]
  <2>1. \A i \in 1..(n + (m - 1)) : i \notin 1..n =>
          i - n + 1 \in 1..m /\ i - n + 1 # 1 /\ i \in (n + 1)..(n + (m - 1))
    BY <1>1
  <2> QED
    BY <1>1, <1>4, <1>6, <2>1
<1> QED
  BY <1>1, <1>3, <1>4, <1>7, <1>8

FollowsFrom(new, seq, old) ==
  /\ new \in Seq(Items)
  /\ \A i \in DOMAIN new : \/ \E j \in DOMAIN seq : new[i] = seq[j]
                           \/ \E k \in DOMAIN old : k # 1 /\ new[i] = old[k]
  /\ \A i \in DOMAIN seq : i \in DOMAIN new /\ new[i] = seq[i]
  /\ \A k \in DOMAIN old : k # 1 => \E i \in DOMAIN new : new[i] = old[k]
  /\ GuardedIn(old) => GuardedIn(new)
  /\ FramesDiffer(old) => FramesDiffer(new)
  /\ OneClear(old) => OneClear(new)
  /\ ClearFollows(old) => ClearFollows(new)
  /\ \A q : HeldAfterClear(old, q) => HeldAfterClear(new, q)

LEMMA Continues ==
  ASSUME NEW seq \in Seq(Items), NEW old \in Seq(Items), old # << >>, NEW new,
         new = seq \o Tail(old), Plain(seq)
  PROVE  FollowsFrom(new, seq, old)
<1> DEFINE n == Len(seq)
<1>1. /\ new \in Seq(Items) /\ n \in Nat
      /\ \A i \in DOMAIN seq : i \in DOMAIN new /\ new[i] = seq[i]
      /\ \A k \in DOMAIN old : k # 1 => k + n - 1 \in DOMAIN new /\ new[k + n - 1] = old[k]
      /\ \A i \in DOMAIN new : i \notin DOMAIN seq =>
           i - n + 1 \in DOMAIN old /\ i - n + 1 # 1 /\ new[i] = old[i - n + 1]
  BY Spliced
<1>2. DOMAIN old \subseteq Nat /\ DOMAIN new \subseteq Nat /\ \A k \in DOMAIN old : k >= 1
  BY <1>1
<1> HIDE DEF n
(* What is not of seq comes from old, at a place that only depends on n.     *)
<1>3. ASSUME NEW i \in DOMAIN new, new[i].does \notin {"unref", "drop"}
      PROVE  i - n + 1 \in DOMAIN old /\ i - n + 1 # 1 /\ new[i] = old[i - n + 1]
  BY <1>1, <1>3 DEF Plain
<1>4. ASSUME NEW i \in DOMAIN new, i - n + 1 \in DOMAIN old, i - n + 1 # 1,
             NEW j \in DOMAIN old, j > i - n + 1
      PROVE  j + n - 1 \in DOMAIN new /\ j + n - 1 > i /\ new[j + n - 1] = old[j]
  <2>1. i \in Nat /\ j \in Nat /\ n \in Nat /\ i - n + 1 >= 1
    BY <1>1, <1>2, <1>4
  <2>2. j # 1 /\ j + n - 1 > i
    BY <1>4, <2>1
  <2> QED
    BY <1>1, <2>2
<1>5. GuardedIn(old) => GuardedIn(new)
  <2> SUFFICES ASSUME GuardedIn(old), NEW i \in DOMAIN new, new[i].does \in {"frame", "destroy"}
               PROVE  \E j \in DOMAIN new : j > i /\ new[j].does = "unref" /\ new[j].c = new[i].c
    BY DEF GuardedIn
  <2>1. i - n + 1 \in DOMAIN old /\ i - n + 1 # 1 /\ new[i] = old[i - n + 1]
    BY <1>3
  <2>2. PICK j \in DOMAIN old : j > i - n + 1 /\ old[j].does = "unref" /\ old[j].c = new[i].c
    BY <2>1, ZenonT(40) DEF GuardedIn
  <2> QED
    BY <1>4, <2>1, <2>2, ZenonT(40)
<1>6. FramesDiffer(old) => FramesDiffer(new)
  <2> SUFFICES ASSUME FramesDiffer(old), NEW i \in DOMAIN new, NEW j \in DOMAIN new, i # j,
                      new[i].does \in {"frame", "destroy"}, new[j].does \in {"frame", "destroy"}
               PROVE  new[i].c # new[j].c
    BY DEF FramesDiffer
  <2>1. i - n + 1 \in DOMAIN old /\ new[i] = old[i - n + 1]
    BY <1>3
  <2>2. j - n + 1 \in DOMAIN old /\ new[j] = old[j - n + 1]
    BY <1>3
  <2>3. i - n + 1 # j - n + 1
    BY <1>1, <1>2
  <2> QED
    BY <2>1, <2>2, <2>3 DEF FramesDiffer
<1>7. OneClear(old) => OneClear(new)
  <2> SUFFICES ASSUME OneClear(old), NEW i \in DOMAIN new, NEW j \in DOMAIN new,
                      new[i].does = "clear", new[j].does = "clear"
               PROVE  i = j
    BY DEF OneClear
  <2>1. i - n + 1 \in DOMAIN old /\ new[i] = old[i - n + 1]
    BY <1>3
  <2>2. j - n + 1 \in DOMAIN old /\ new[j] = old[j - n + 1]
    BY <1>3
  <2>3. i - n + 1 = j - n + 1
    BY <2>1, <2>2 DEF OneClear
  <2> QED
    BY <1>1, <1>2, <2>3
<1>8. ClearFollows(old) => ClearFollows(new)
  <2> SUFFICES ASSUME ClearFollows(old), NEW i \in DOMAIN new, new[i].does = "destroy"
               PROVE  \E j \in DOMAIN new : j > i /\ new[j].does = "clear"
    BY DEF ClearFollows
  <2>1. i - n + 1 \in DOMAIN old /\ i - n + 1 # 1 /\ new[i] = old[i - n + 1]
    BY <1>3
  <2>2. PICK j \in DOMAIN old : j > i - n + 1 /\ old[j].does = "clear"
    BY <2>1 DEF ClearFollows
  <2> QED
    BY <1>4, <2>1, <2>2
<1>9. ASSUME NEW q PROVE HeldAfterClear(old, q) => HeldAfterClear(new, q)
  <2> SUFFICES ASSUME HeldAfterClear(old, q), NEW t \in q, NEW i \in DOMAIN new, new[i].does = "clear"
               PROVE  \E j \in DOMAIN new : j > i /\ new[j].does = "unref" /\ new[j].c = t.to
    BY DEF HeldAfterClear
  <2>1. i - n + 1 \in DOMAIN old /\ i - n + 1 # 1 /\ new[i] = old[i - n + 1]
    BY <1>3
  <2>2. PICK j \in DOMAIN old : j > i - n + 1 /\ old[j].does = "unref" /\ old[j].c = t.to
    BY <2>1 DEF HeldAfterClear
  <2> QED
    BY <1>4, <2>1, <2>2
<1> QED
  BY <1>1, <1>5, <1>6, <1>7, <1>8, <1>9 DEF FollowsFrom

(* What is left to do, and where it comes from.                              *)
LEMMA Unwound ==
  ASSUME HandlesInv, todo # << >>, NEW seq \in Seq(Items), Plain(seq), todo' = seq \o Tail(todo)
  PROVE  /\ todo' \in Seq(Items) /\ Head(todo) \in Items /\ 1 \in DOMAIN todo /\ Head(todo) = todo[1]
         /\ GuardedIn(todo') /\ FramesDiffer(todo') /\ OneClear(todo') /\ ClearFollows(todo')
         /\ HeldAfterClear(todo', queue)
         /\ ToDo("destroy")' = ToDo("destroy") \ (IF Head(todo).does = "destroy" THEN {Head(todo).c} ELSE {})
         /\ Going' = Going \ (IF Head(todo).does \in {"frame", "destroy"} THEN {Head(todo).c} ELSE {})
         /\ Resetting' <=> Resetting /\ Head(todo).does # "clear"
         /\ \A i \in DOMAIN todo' : \/ \E j \in DOMAIN seq : todo'[i] = seq[j]
                                    \/ \E k \in DOMAIN todo : k # 1 /\ todo'[i] = todo[k]
         /\ \A c \in Coros : /\ Given(todo', c) = Given(seq, c) + Given(todo, c) - Gives(Head(todo), c)
                             /\ Given(seq, c) \in Nat
<1> DEFINE h == Head(todo)
<1>1. /\ todo \in Seq(Items) /\ h \in Items /\ 1 \in DOMAIN todo /\ h = todo[1]
      /\ Tail(todo) \in Seq(Items)
  BY DEF HandlesInv, Types
<1>2. /\ GuardedIn(todo) /\ FramesDiffer(todo) /\ OneClear(todo) /\ ClearFollows(todo)
      /\ HeldAfterClear(todo, queue)
  <2>1. GuardedIn(todo)
    BY DEF HandlesInv, Guarded, GuardedIn, Frames
  <2>2. FramesDiffer(todo)
    BY DEF HandlesInv, FramesAreThere, FramesDiffer, Frames
  <2>3. OneClear(todo)
    BY DEF HandlesInv, ResetInv, OneClear
  <2>4. ClearFollows(todo)
    BY DEF HandlesInv, ResetInv, ClearFollows
  <2>5. HeldAfterClear(todo, queue)
    BY DEF HandlesInv, ResetInv, HeldAfterClear
  <2> QED
    BY <2>1, <2>2, <2>3, <2>4, <2>5
<1>3. /\ todo' \in Seq(Items)
      /\ \A i \in DOMAIN todo' : \/ \E j \in DOMAIN seq : todo'[i] = seq[j]
                                 \/ \E k \in DOMAIN todo : k # 1 /\ todo'[i] = todo[k]
      /\ \A k \in DOMAIN todo : k # 1 => \E i \in DOMAIN todo' : todo'[i] = todo[k]
      /\ GuardedIn(todo') /\ FramesDiffer(todo') /\ OneClear(todo') /\ ClearFollows(todo')
      /\ HeldAfterClear(todo', queue)
  <2>1. todo \in Seq(Items)
    BY <1>1
  <2>2. FollowsFrom(todo', seq, todo)
    BY <2>1, Continues, Zenon
  <2> QED
    BY <1>2, <2>2 DEF FollowsFrom
<1> HIDE DEF h
<1>4. \A i \in DOMAIN todo' : todo'[i].does \notin {"unref", "drop"} =>
        \E k \in DOMAIN todo : k # 1 /\ todo'[i] = todo[k]
  BY <1>3 DEF Plain
<1>5. ToDo("destroy")' = ToDo("destroy") \ (IF h.does = "destroy" THEN {h.c} ELSE {})
  <2>1. ASSUME NEW c \in ToDo("destroy")'
        PROVE  c \in ToDo("destroy") /\ (h.does = "destroy" => c # h.c)
    <3>1. PICK i \in DOMAIN todo' : todo'[i].does = "destroy" /\ todo'[i].c = c
      BY DEF ToDo
    <3>2. PICK k \in DOMAIN todo : k # 1 /\ todo'[i] = todo[k]
      BY <1>4, <3>1
    <3>3. todo[k].does = "destroy" /\ todo[k].c = c
      BY <3>1, <3>2
    <3> QED
      BY <1>1, <1>2, <3>2, <3>3 DEF ToDo, FramesDiffer
  <2>2. ASSUME NEW c \in ToDo("destroy"), h.does = "destroy" => c # h.c
        PROVE  c \in ToDo("destroy")'
    <3>1. PICK k \in DOMAIN todo : todo[k].does = "destroy" /\ todo[k].c = c
      BY DEF ToDo
    <3>2. k # 1
      BY <1>1, <2>2, <3>1
    <3>3. PICK i \in DOMAIN todo' : todo'[i] = todo[k]
      BY <1>3, <3>2
    <3>4. todo'[i].does = "destroy" /\ todo'[i].c = c
      BY <3>1, <3>3
    <3> QED
      BY <3>4 DEF ToDo
  <2> QED
    BY <2>1, <2>2
<1>6. Going' = Going \ (IF h.does \in {"frame", "destroy"} THEN {h.c} ELSE {})
  <2>1. ASSUME NEW c \in Going'
        PROVE  c \in Going /\ (h.does \in {"frame", "destroy"} => c # h.c)
    <3>1. PICK i \in DOMAIN todo' : todo'[i].does \in {"frame", "destroy"} /\ todo'[i].c = c
      BY DEF Going, Frames
    <3>2. PICK k \in DOMAIN todo : k # 1 /\ todo'[i] = todo[k]
      BY <1>4, <3>1
    <3>3. todo[k].does \in {"frame", "destroy"} /\ todo[k].c = c
      BY <3>1, <3>2
    <3> QED
      BY <1>1, <1>2, <3>2, <3>3 DEF Going, Frames, FramesDiffer
  <2>2. ASSUME NEW c \in Going, h.does \in {"frame", "destroy"} => c # h.c
        PROVE  c \in Going'
    <3>1. PICK k \in DOMAIN todo : todo[k].does \in {"frame", "destroy"} /\ todo[k].c = c
      BY DEF Going, Frames
    <3>2. k # 1
      BY <1>1, <2>2, <3>1
    <3>3. PICK i \in DOMAIN todo' : todo'[i] = todo[k]
      BY <1>3, <3>2
    <3>4. todo'[i].does \in {"frame", "destroy"} /\ todo'[i].c = c
      BY <3>1, <3>3
    <3> QED
      BY <3>4 DEF Going, Frames
  <2> QED
    BY <2>1, <2>2
<1>7. Resetting' <=> Resetting /\ h.does # "clear"
  <2>1. ASSUME Resetting' PROVE Resetting /\ h.does # "clear"
    <3>1. PICK i \in DOMAIN todo' : todo'[i].does = "clear"
      BY <2>1 DEF Resetting
    <3>2. PICK k \in DOMAIN todo : k # 1 /\ todo'[i] = todo[k]
      BY <1>4, <3>1
    <3> QED
      BY <1>1, <1>2, <3>1, <3>2 DEF Resetting, OneClear
  <2>2. ASSUME Resetting, h.does # "clear" PROVE Resetting'
    <3>1. PICK k \in DOMAIN todo : todo[k].does = "clear"
      BY <2>2 DEF Resetting
    <3>2. PICK i \in DOMAIN todo' : todo'[i] = todo[k]
      BY <1>1, <1>3, <2>2, <3>1
    <3> QED
      BY <3>1, <3>2 DEF Resetting
  <2> QED
    BY <2>1, <2>2
<1>8. ASSUME NEW c \in Coros
      PROVE  Given(todo', c) = Given(seq, c) + Given(todo, c) - Gives(h, c) /\ Given(seq, c) \in Nat
  <2>1. Given(todo, c) = Gives(h, c) + Given(Tail(todo), c)
    BY <1>1, GivenHead DEF h
  <2>2. Given(todo', c) = Given(seq, c) + Given(Tail(todo), c)
    BY <1>1, GivenConcat
  <2>3. Given(seq, c) \in Nat /\ Given(Tail(todo), c) \in Nat /\ Gives(h, c) \in Nat
    BY <1>1, GivenType DEF Gives
  <2> QED
    BY <2>1, <2>2, <2>3
<1> QED
  BY <1>1, <1>3, <1>5, <1>6, <1>7, <1>8 DEF h

(* Then these parts of the invariant follow from the others.                 *)
LEMMA UnwoundInv ==
  ASSUME HandlesInv, todo # << >>, NEW seq \in Seq(Items), Plain(seq), todo' = seq \o Tail(todo),
         managed' = managed, current' = current, queue' \subseteq queue,
         Live' = Live \ (IF Head(todo).does = "destroy" THEN {Head(todo).c} ELSE {}),
         frame' = frame \ (IF Head(todo).does \in {"frame", "destroy"} THEN {Head(todo).c} ELSE {}),
         Types', CountsReferences', Assigning', LifeInv', WakeInv'
  PROVE  HandlesInv'
<1> DEFINE h == Head(todo)
<1>1. /\ h \in Items /\ 1 \in DOMAIN todo /\ h = todo[1]
      /\ GuardedIn(todo') /\ FramesDiffer(todo') /\ OneClear(todo') /\ ClearFollows(todo')
      /\ HeldAfterClear(todo', queue)
      /\ ToDo("destroy")' = ToDo("destroy") \ (IF h.does = "destroy" THEN {h.c} ELSE {})
      /\ Going' = Going \ (IF h.does \in {"frame", "destroy"} THEN {h.c} ELSE {})
      /\ Resetting' <=> Resetting /\ h.does # "clear"
      /\ \A i \in DOMAIN todo' : \/ \E j \in DOMAIN seq : todo'[i] = seq[j]
                                 \/ \E k \in DOMAIN todo : k # 1 /\ todo'[i] = todo[k]
  BY Unwound
<1> HIDE DEF h
<1>2. ResetInv /\ FramesAreThere /\ h.does = "destroy" => Resetting
  BY <1>1 DEF HandlesInv, ResetInv, Resetting
<1>3. /\ Live' = Live \ (IF h.does = "destroy" THEN {h.c} ELSE {})
      /\ frame' = frame \ (IF h.does \in {"frame", "destroy"} THEN {h.c} ELSE {})
  BY DEF h
<1>4. Live' = managed' \cup ToDo("destroy")'
  <2>1. Live = managed \cup ToDo("destroy") /\ (Resetting => managed = {})
    BY DEF HandlesInv, ResetInv
  <2>2. h.does = "destroy" => Resetting
    BY <1>2 DEF HandlesInv
  <2> QED
    BY <1>1, <1>3, <2>1, <2>2
<1>5. ResetInv'
  <2>1. \A i, j \in DOMAIN todo' : todo'[i].does = "clear" /\ todo'[j].does = "clear" => i = j
    BY <1>1 DEF OneClear
  <2>2. ASSUME NEW i \in DOMAIN todo', todo'[i].does = "destroy"
        PROVE  todo'[i].c \in Live' /\ \E j \in DOMAIN todo' : j > i /\ todo'[j].does = "clear"
    <3>1. todo'[i].c \in ToDo("destroy")'
      BY <2>2 DEF ToDo
    <3> QED
      BY <1>1, <1>4, <2>2, <3>1 DEF ClearFollows
  <2>3. ASSUME NEW i \in DOMAIN todo', todo'[i].does = "frame"
        PROVE  todo'[i].c \notin Live'
    <3>1. PICK k \in DOMAIN todo : todo'[i] = todo[k]
      BY <1>1, <2>3 DEF Plain
    <3> QED
      BY <1>3, <2>3, <3>1 DEF HandlesInv, ResetInv
  <2>4. Resetting' => current' = None /\ managed' = {}
    BY <1>1 DEF HandlesInv, ResetInv
  <2>5. \A t \in queue', i \in DOMAIN todo' : todo'[i].does = "clear" =>
          \E j \in DOMAIN todo' : j > i /\ todo'[j].does = "unref" /\ todo'[j].c = t.to
    BY <1>1 DEF HeldAfterClear
  <2> QED
    BY <1>4, <2>1, <2>2, <2>3, <2>4, <2>5 DEF ResetInv
<1>6. Guarded'
  BY <1>1 DEF GuardedIn, Guarded, Frames
<1>7. FramesAreThere'
  <2>1. \A i, j \in Frames' : i # j => todo'[i].c # todo'[j].c
    BY <1>1 DEF FramesDiffer, Frames
  <2>2. ASSUME NEW i \in Frames' PROVE todo'[i].c \in frame'
    <3>1. todo'[i].c \in Going'
      BY DEF Going
    <3>2. todo'[i].c \in Going /\ (h.does \in {"frame", "destroy"} => todo'[i].c # h.c)
      BY <1>1, <3>1
    <3>3. Going \subseteq frame
      BY DEF HandlesInv, FramesAreThere, Going
    <3> QED
      BY <1>3, <3>2, <3>3
  <2>3. todo' = << >> => ~Resetting'
    BY DEF Resetting
  <2> QED
    BY <1>4, <2>1, <2>2, <2>3 DEF FramesAreThere, LifeInv, WakeInv, Live
<1> QED
  BY <1>5, <1>6, <1>7 DEF HandlesInv

LEMMA NoTakes ==
  ASSUME HandlesInv, todo # << >>, Head(todo).does \notin {"unref", "take"}
  PROVE  \A k \in DOMAIN todo : todo[k].does # "take"
<1>1. 1 \in DOMAIN todo /\ Head(todo) = todo[1]
  BY DEF HandlesInv, Types
<1> QED
  BY <1>1 DEF HandlesInv, Assigning

(* What is in A \o B is in one of them.                                      *)
LEMMA FromEither ==
  ASSUME NEW X, NEW A \in Seq(X), NEW B \in Seq(X), NEW seq, seq = A \o B
  PROVE  \A i \in DOMAIN seq :
           (\E j \in DOMAIN A : seq[i] = A[j]) \/ (\E j \in DOMAIN B : seq[i] = B[j])
<1> DEFINE n == Len(A)
           m == Len(B)
<1>1. /\ seq \in Seq(X) /\ Len(seq) = n + m
      /\ \A i \in 1..n : seq[i] = A[i]
      /\ \A i \in 1..m : seq[n + i] = B[i]
  BY Joined
<1>2. n \in Nat /\ m \in Nat /\ DOMAIN A = 1..n /\ DOMAIN B = 1..m
  OBVIOUS
<1>3. DOMAIN seq = 1..(n + m)
  BY <1>1
<1> HIDE DEF n, m
<1>4. ASSUME NEW i \in 1..(n + m), i \notin 1..n
      PROVE  i - n \in 1..m /\ seq[i] = B[i - n]
  <2>1. i - n \in 1..m /\ n + (i - n) = i
    BY <1>2, <1>4
  <2> QED
    BY <1>1, <2>1
<1> QED
  BY <1>1, <1>2, <1>3, <1>4

LEMMA FrameGoesKeeps ==
  ASSUME HandlesInv, NEW c \in Coros, todo # << >>,
         Head(todo).does \in {"frame", "destroy"}, Head(todo).c = c, FrameGoes(c),
         complete' = IF Head(todo).does = "destroy" THEN complete \cup {c} ELSE complete,
         UNCHANGED <<data, created, started, parent, managed, tokens, queue, current>>
  PROVE  HandlesInv'
<1> DEFINE h == Head(todo)
           x == awaits[c]
           y == handle[c]
           seq == Drops(x) \o Drops(y)
           w == Wrapped(c) + 1
<1>1. /\ Types /\ c \in Slots /\ x \in Maybe /\ y \in Maybe
      /\ handle \in [Slots -> Maybe] /\ awaits \in [Coros -> Maybe] /\ count \in [Coros -> Int]
      /\ 1 \in DOMAIN todo /\ Head(todo) = todo[1] /\ h \in Items
  BY DEF HandlesInv, Types, Slots
<1>2. /\ frame' = frame \ {c} /\ suspended' = suspended \ {c}
      /\ count' = [count EXCEPT ![c] = @ - Wrapped(c) - 1]
      /\ awaits' = [awaits EXCEPT ![c] = None] /\ handle' = [handle EXCEPT ![c] = None]
      /\ todo' = seq \o Tail(todo)
  BY DEF FrameGoes, WrapperGone, Then
<1>3. c \in frame /\ c \in Going /\ LifeInv /\ WakeInv
  BY <1>1 DEF HandlesInv, FramesAreThere, Frames, Going
<1>4. /\ seq \in Seq(Items) /\ Plain(seq)
      /\ \A i \in DOMAIN seq : seq[i].does = "drop" /\ seq[i].c \in {x, y}
      /\ \A d \in Coros : Given(seq, d) = Same(x, d) + Same(y, d)
  <2> DEFINE A == Drops(x)
             B == Drops(y)
  <2> HIDE DEF x, y
  <2>1. /\ A \in Seq(Items) /\ \A i \in DOMAIN A : x \in Coros /\ A[i] = Does("drop", x)
        /\ \A d \in Coros : Given(A, d) = Same(x, d)
    BY <1>1, DropsAre
  <2>2. /\ B \in Seq(Items) /\ \A i \in DOMAIN B : y \in Coros /\ B[i] = Does("drop", y)
        /\ \A d \in Coros : Given(B, d) = Same(y, d)
    BY <1>1, DropsAre
  <2>3. A \in Seq(Items) /\ B \in Seq(Items) /\ seq = A \o B
    BY <2>1, <2>2
  <2> HIDE DEF A, B, seq
  <2>4. seq \in Seq(Items) /\ \A d \in Coros : Given(seq, d) = Given(A, d) + Given(B, d)
    BY <2>3, GivenConcat
  <2>5. \A i \in DOMAIN seq : (\E j \in DOMAIN A : seq[i] = A[j]) \/ (\E j \in DOMAIN B : seq[i] = B[j])
    BY <2>3, FromEither
  <2>6. \A i \in DOMAIN seq : seq[i].does = "drop" /\ seq[i].c \in {x, y}
    BY <2>1, <2>2, <2>5 DEF Does
  <2> QED
    BY <2>1, <2>2, <2>4, <2>6 DEF Plain
<1> HIDE DEF seq
<1>5. /\ todo' \in Seq(Items) /\ GuardedIn(todo)
      /\ ToDo("destroy")' = ToDo("destroy") \ (IF h.does = "destroy" THEN {c} ELSE {})
      /\ Going' = Going \ {c}
      /\ Resetting' <=> Resetting
      /\ \A i \in DOMAIN todo' : \/ \E j \in DOMAIN seq : todo'[i] = seq[j]
                                 \/ \E k \in DOMAIN todo : k # 1 /\ todo'[i] = todo[k]
      /\ \A d \in Coros : /\ Given(todo', d) = Given(seq, d) + Given(todo, d) - Gives(h, d)
                          /\ Given(seq, d) \in Nat
  <2>1. GuardedIn(todo)
    BY DEF HandlesInv, Guarded, GuardedIn, Frames
  <2> QED
    BY <1>2, <1>4, <2>1, Unwound
<1> HIDE DEF h
<1>6. Types'
  <2>1. awaits' \in [Coros -> Maybe] /\ handle' \in [Slots -> Maybe] /\ count' \in [Coros -> Int]
    BY <1>1, <1>2 DEF Wrapped, Maybe
  <2> QED
    BY <1>1, <1>2, <1>5, <2>1 DEF Types
<1>7. ASSUME NEW d \in Coros
      PROVE  count'[d] = References(d)' /\ (count[d] > 0 <=> count'[d] > 0)
  <2>1. TermsAre(d) /\ TermsAre(d)' /\ Same(c, d) \in Nat /\ Same(x, d) \in Nat /\ Same(y, d) \in Nat
        /\ In(d, managed) \in Nat /\ In(d, suspended) \in Nat /\ In(d, frame) \in Nat
        /\ In(d, suspended') \in Nat /\ In(d, frame') \in Nat /\ Wrapped(c) * Same(c, d) \in Nat
    BY <1>1, <1>6, TermsNow, TermsNext DEF In, Same, Wrapped
  <2>2. Holders(awaits', d) = Holders(awaits, d) - Same(x, d)
    <3>1. Holders([awaits EXCEPT ![c] = None], d) = Holders(awaits, d) - Same(awaits[c], d)
      BY <1>1, CoroChange
    <3> QED
      BY <1>2, <3>1
  <2>3. Holders(handle', d) = Holders(handle, d) - Same(y, d)
    <3>1. Holders([handle EXCEPT ![c] = None], d) = Holders(handle, d) - Same(handle[c], d)
      BY <1>1, HandleChange
    <3> QED
      BY <1>2, <3>1
  <2>4. 2 * In(d, suspended') = 2 * In(d, suspended) - Wrapped(c) * Same(c, d)
    BY <1>2 DEF In, Same, Wrapped
  <2>5. In(d, frame') = In(d, frame) - Same(c, d)
    BY <1>2, <1>3 DEF In, Same
  <2>6. Places(d)' = Places(d) - Same(x, d) - Same(c, d) - Wrapped(c) * Same(c, d)
    <3> DEFINE a == Holders(awaits, d)
               a1 == Holders(awaits', d)
               f == In(d, frame)
               f1 == In(d, frame')
               g == In(d, suspended)
               g1 == In(d, suspended')
               v == Wrapped(c) * Same(c, d)
               u == Same(x, d)
               z == Same(c, d)
    <3>1. a \in Nat /\ a1 \in Nat /\ f \in Nat /\ f1 \in Nat /\ g \in Nat /\ g1 \in Nat /\ v \in Nat /\ u \in Nat
          /\ z \in Nat
      BY <2>1 DEF TermsAre
    <3>2. /\ a1 = a - u /\ 2 * g1 = 2 * g - v /\ f1 = f - z
          /\ Places(d) = a + f + 2 * g /\ Places(d)' = a1 + f1 + 2 * g1
      BY <2>2, <2>4, <2>5 DEF Places
    <3> HIDE DEF a, a1, f, f1, g, g1, v, u, z
    <3>3. Places(d)' = Places(d) - u - z - v
      BY <3>1, <3>2
    <3> QED
      BY <3>3 DEF v, u, z
  <2>7. Ties(d)' = Ties(d) /\ current' = current
    BY DEF Ties
  <2>8. Given(todo', d) = Given(todo, d) + Same(x, d) + Same(y, d)
    <3>1. Gives(h, d) = 0
      BY DEF Gives, h
    <3>2. Given(todo', d) = (Same(x, d) + Same(y, d)) + Given(todo, d) - 0
      BY <1>4, <1>5, <3>1
    <3>3. Given(todo, d) \in Nat
      BY <2>1 DEF TermsAre
    <3> HIDE DEF x, y
    <3> QED
      BY <2>1, <3>2, <3>3
  <2>9. Grouped(d) /\ Grouped(d)' /\ count[d] = References(d)
    BY <1>1, <1>6, Before, After DEF HandlesInv, CountsReferences
  <2>10. count'[d] = count[d] - Same(c, d) - Wrapped(c) * Same(c, d) /\ count[d] \in Nat
    BY <1>1, <1>2, InUse DEF Same, Wrapped, HandlesInv
  <2>11. count'[d] = References(d)'
    <3> DEFINE k == Holders(handle, d)
               k1 == Holders(handle', d)
               P == Places(d)
               P1 == Places(d)'
               T == Ties(d)
               T1 == Ties(d)'
               g == Given(todo, d)
               g1 == Given(todo', d)
               v == Wrapped(c) * Same(c, d)
               a == Same(x, d)
               b == Same(y, d)
               z == Same(c, d)
               e == Same(current, d)
    <3>1. k \in Int /\ P \in Int /\ P1 \in Int /\ T \in Int /\ T1 \in Int /\ k1 \in Int /\ g \in Int
          /\ g1 \in Int /\ v \in Int /\ a \in Int /\ b \in Int /\ z \in Int /\ e \in Int /\ count[d] \in Int
      BY <2>1, <2>9, <2>10 DEF Grouped
    <3>2. /\ count[d] = k + g + P + T + 2 * e
          /\ References(d)' = k1 + g1 + P1 + T1 + 2 * e
          /\ count'[d] = count[d] - z - v
          /\ P1 = P - a - z - v /\ T1 = T /\ k1 = k - b /\ g1 = g + a + b
      BY <2>3, <2>6, <2>7, <2>8, <2>9, <2>10 DEF Grouped
    <3> HIDE DEF k, k1, P, P1, T, T1, g, g1, v, a, b, z, e
    <3> QED
      BY <3>1, <3>2
  <2>12. d = c => count[d] > 0 /\ count'[d] > 0
    <3> SUFFICES ASSUME d = c PROVE count[d] > 0 /\ count'[d] > 0
      OBVIOUS
    <3>1. count[d] > 0
      BY <1>1, <1>3, InUse DEF HandlesInv, Unused
    <3>2. PICK j \in DOMAIN todo : j > 1 /\ todo[j].does = "unref" /\ todo[j].c = c
      BY <1>1, <1>5, SMTT(40) DEF GuardedIn, h
    <3>3. j \in Givers(todo, c)
      BY <3>2 DEF Givers
    <3>4. Given(todo, c) # 0
      BY <1>1, <3>3, Terms
    <3> HIDE DEF x, y, w
    <3>5. Given(todo', d) > 0
      <4>1. Given(todo, d) \in Nat /\ Given(todo, d) # 0
        BY <2>1, <3>4 DEF TermsAre
      <4> QED
        BY <2>1, <2>8, <4>1
    <3>6. Places(d)' \in Nat
      <4>1. Holders(awaits', d) \in Nat
        BY <2>1 DEF TermsAre
      <4>2. Places(d)' = Holders(awaits', d) + In(d, frame') + 2 * In(d, suspended')
        BY DEF Places
      <4> QED
        BY <2>1, <4>1, <4>2
    <3>7. In(d, managed') \in Nat /\ Same(current', d) \in Nat
      BY DEF In, Same
    <3>8. Ties(d)' \in Nat
      <4>1. Waits(tokens', d) \in Nat /\ Resumes(queue', d) \in Nat /\ Holders(parent', d) \in Nat
        BY <2>1 DEF TermsAre
      <4>2. Ties(d)' = In(d, managed') + Waits(tokens', d) + Resumes(queue', d) + Holders(parent', d)
        BY DEF Ties
      <4> QED
        BY <3>7, <4>1, <4>2
    <3>9. References(d)' > 0
      <4>1. Holders(handle', d) \in Nat
        BY <2>1 DEF TermsAre
      <4>2. References(d)' = Holders(handle', d) + Given(todo', d) + Places(d)' + Ties(d)' + 2 * Same(current', d)
        BY <2>9 DEF Grouped
      <4>3. Given(todo', d) \in Int
        BY <2>9 DEF Grouped
      <4> QED
        BY <3>5, <3>6, <3>7, <3>8, <4>1, <4>2, <4>3
    <3> QED
      BY <2>11, <3>1, <3>9
  <2>13. d # c => Same(c, d) = 0 /\ Wrapped(c) * Same(c, d) = 0
    <3>1. d # c => Same(c, d) = 0
      BY DEF Same
    <3>2. Wrapped(c) * 0 = 0
      BY DEF Wrapped
    <3> QED
      BY <3>1, <3>2
  <2> QED
    BY <2>10, <2>11, <2>12, <2>13
<1>8. CountsReferences'
  BY <1>6, <1>7, SameData DEF HandlesInv
<1>9. /\ Live' = Live \ (IF h.does = "destroy" THEN {c} ELSE {})
      /\ h.does = "destroy" => Resetting /\ current = None
      /\ h.does = "frame" => c \notin Live
  <2>1. Live' = Live \ (IF h.does = "destroy" THEN {c} ELSE {})
    BY DEF Live, h
  <2>2. h.does = "destroy" => Resetting
    BY <1>1 DEF HandlesInv, ResetInv, Resetting, h
  <2>3. Resetting => current = None
    BY DEF HandlesInv, ResetInv
  <2>4. h.does = "frame" => c \notin Live
    BY <1>1 DEF HandlesInv, ResetInv, h
  <2> QED
    BY <2>1, <2>2, <2>3, <2>4
<1>10. Assigning'
  <2>1. \A k \in DOMAIN todo : todo[k].does # "take"
    BY NoTakes
  <2>2. \A i \in DOMAIN todo' : todo'[i].does # "take"
    BY <1>4, <1>5, <2>1 DEF Plain
  <2> QED
    BY <2>2 DEF Assigning
<1>11. h.does \in {"frame", "destroy"}
  BY DEF h
<1>12. LifeInv'
  <2>1. x # None => x \in started
    BY <1>3 DEF LifeInv
  <2>2. ToDo("drop")' \subseteq ToDo("drop") \cup {x, y}
    <3>1. ASSUME NEW d \in ToDo("drop")' PROVE d \in ToDo("drop") \cup {x, y}
      <4>1. PICK i \in DOMAIN todo' : todo'[i].does = "drop" /\ todo'[i].c = d
        BY DEF ToDo
      <4> QED
        BY <1>4, <1>5, <4>1 DEF ToDo
    <3> QED
      BY <3>1
  <2>3. \A s \in Slots : handle'[s] # None => s # c /\ handle'[s] = handle[s]
    BY <1>1, <1>2
  <2>4. \A d \in Coros : awaits'[d] # None => d # c /\ awaits'[d] = awaits[d]
    BY <1>1, <1>2
  <2>5. Live' \subseteq frame' /\ suspended' \subseteq frame' \cap started
    BY <1>2, <1>3, <1>9, <1>11 DEF LifeInv
  <2>6. ASSUME NEW d \in created \ started, d \notin frame' \/ d \in Going'
        PROVE  (\A s \in Slots : handle'[s] # d) /\ d \notin ToDo("drop")'
    <3>1. d \notin frame \/ d \in Going
      BY <1>2, <1>3, <1>5, <2>6
    <3>2. (\A s \in Slots : handle[s] # d) /\ d \notin ToDo("drop") /\ d # None
      BY <1>1, <1>3, <3>1, Names DEF LifeInv, Types
    <3>3. d # y
      BY <1>1, <3>2
    <3>4. d # x
      BY <2>1, <2>6, <3>2
    <3> QED
      BY <2>2, <2>3, <3>2, <3>3, <3>4
  <2>7. Coros \subseteq Slots /\ complete' \subseteq started
    <3>1. h.does = "destroy" => c \in Live
      BY <1>1 DEF HandlesInv, ResetInv, h
    <3>2. complete' \subseteq complete \cup (IF h.does = "destroy" THEN {c} ELSE {})
      BY DEF h
    <3> QED
      BY <1>3, <3>1, <3>2 DEF Slots, LifeInv, Live
  <2>8. data \cup frame' \cup started \subseteq created
    BY <1>2, <1>3 DEF LifeInv
  <2>9. ASSUME NEW d \in Coros
        PROVE  /\ awaits'[d] # None => d \in suspended' /\ awaits'[d] \in started
               /\ handle'[d] # None => d \in frame'
               /\ parent[d] # None => d \in started
    BY <1>2, <1>3, <2>3, <2>4, <2>7 DEF LifeInv
  <2> HIDE DEF x, y
  <2> QED
    BY <2>5, <2>6, <2>7, <2>8, <2>9 DEF LifeInv
<1>13. WakeInv'
  BY <1>2, <1>3, <1>5, <1>9, <1>11 DEF WakeInv, h
<1> QED
  BY <1>2, <1>4, <1>6, <1>8, <1>9, <1>10, <1>12, <1>13, UnwoundInv DEF h

-----------------------------------------------------------------------------
(* What a coroutine_data that is deleted refers to: its tokens and parent.   *)
LEMMA UnrefsJoin ==
  ASSUME NEW X, NEW A \in Seq(X), NEW B \in Seq(X)
  PROVE  Unrefs(A \o B) = Unrefs(A) \o Unrefs(B)
<1> DEFINE n == Len(A)
           m == Len(B)
           U == Unrefs(A)
           V == Unrefs(B)
           R == {Does("unref", x) : x \in X}
<1>1. /\ A \o B \in Seq(X) /\ Len(A \o B) = n + m
      /\ \A i \in 1..n : (A \o B)[i] = A[i]
      /\ \A i \in 1..m : (A \o B)[n + i] = B[i]
  BY Joined
<1>2. /\ n \in Nat /\ m \in Nat /\ DOMAIN A = 1..n /\ DOMAIN B = 1..m /\ DOMAIN (A \o B) = 1..(n + m)
      /\ \A i \in 1..n : A[i] \in X
      /\ \A i \in 1..m : B[i] \in X
  BY <1>1
<1>3. /\ U \in Seq(R) /\ V \in Seq(R) /\ Len(U) = n /\ Len(V) = m
      /\ \A i \in 1..n : U[i] = Does("unref", A[i])
      /\ \A i \in 1..m : V[i] = Does("unref", B[i])
  BY <1>2 DEF Unrefs
<1> HIDE DEF U, V, R
<1>4. /\ U \o V \in Seq(R) /\ Len(U \o V) = Len(U) + Len(V)
      /\ \A i \in 1..Len(U) : (U \o V)[i] = U[i]
      /\ \A i \in 1..Len(V) : (U \o V)[Len(U) + i] = V[i]
  <2>1. U \in Seq(R) /\ V \in Seq(R)
    BY <1>3
  <2> QED
    BY <2>1, Joined
<1> DEFINE W == U \o V
           J == A \o B
<1>5. /\ DOMAIN W = 1..(n + m) /\ W \in Seq(R)
      /\ \A i \in 1..n : W[i] = Does("unref", A[i])
      /\ \A i \in 1..m : W[n + i] = Does("unref", B[i])
  <2>1. Len(W) = n + m /\ W \in Seq(R)
    BY <1>3, <1>4
  <2> QED
    BY <1>3, <1>4, <2>1
<1>6. /\ DOMAIN J = 1..(n + m)
      /\ \A i \in 1..n : J[i] = A[i]
      /\ \A i \in 1..m : J[n + i] = B[i]
  BY <1>1, <1>2
<1> HIDE DEF W, J, n, m
<1>7. ASSUME NEW i \in 1..(n + m) PROVE W[i] = Does("unref", J[i])
  <2>1. CASE i \in 1..n
    BY <1>5, <1>6, <2>1
  <2>2. CASE i \notin 1..n
    <3>1. i - n \in 1..m /\ n + (i - n) = i
      BY <1>2, <2>2
    <3>2. W[n + (i - n)] = Does("unref", B[i - n]) /\ J[n + (i - n)] = B[i - n]
      BY <1>5, <1>6, <3>1
    <3> QED
      BY <3>1, <3>2
  <2> QED
    BY <2>1, <2>2
<1>8. W = [i \in 1..(n + m) |-> Does("unref", J[i])]
  <2>1. W = [i \in DOMAIN W |-> W[i]]
    BY <1>5
  <2> QED
    BY <1>5, <1>7, <2>1
<1>9. Unrefs(J) = [i \in 1..(n + m) |-> Does("unref", J[i])]
  BY <1>6 DEF Unrefs
<1> QED
  BY <1>8, <1>9 DEF W, J, U, V

LEMMA Appended ==
  ASSUME NEW A \in Seq(Items), NEW B \in Seq(Items),
         \A i \in DOMAIN A : A[i].does = "unref", \A i \in DOMAIN B : B[i].does = "unref"
  PROVE  /\ A \o B \in Seq(Items)
         /\ \A i \in DOMAIN (A \o B) : (A \o B)[i].does = "unref"
         /\ \A d \in Coros : Given(A \o B, d) = Given(A, d) + Given(B, d)
<1> DEFINE seq == A \o B
<1>1. seq = A \o B /\ seq \in Seq(Items)
  BY Joined
<1>2. \A d \in Coros : Given(seq, d) = Given(A, d) + Given(B, d)
  BY GivenConcat
<1> HIDE DEF seq
<1>3. \A i \in DOMAIN seq : (\E j \in DOMAIN A : seq[i] = A[j]) \/ (\E j \in DOMAIN B : seq[i] = B[j])
  BY <1>1, FromEither, SMTT(40)
<1>4. \A i \in DOMAIN seq : seq[i].does = "unref"
  BY <1>3
<1> QED
  BY <1>1, <1>2, <1>4 DEF seq

LEMMA Deleted ==
  ASSUME Types, NEW c \in Coros, NEW order \in SetToSeqs(tokens[c]),
         NEW seq, seq = Unrefs(order \o (IF parent[c] = None THEN << >> ELSE <<parent[c]>>))
  PROVE  /\ seq \in Seq(Items)
         /\ \A i \in DOMAIN seq : seq[i].does = "unref"
         /\ \A d \in Coros : Given(seq, d) = In(d, tokens[c]) + Same(parent[c], d)
<1> DEFINE x == parent[c]
           S == tokens[c]
           p == IF x = None THEN << >> ELSE <<x>>
           A == Unrefs(order)
           B == UnrefOf(x)
<1>1. S \subseteq Coros /\ IsFiniteSet(S) /\ x \in Maybe
  <2>1. S \subseteq Coros /\ x \in Maybe
    BY DEF Types
  <2> QED
    BY <2>1, FinitelyMany, FS_Subset
<1> HIDE DEF S, x
<1>2. order \in SetToSeqs(S) /\ seq = Unrefs(order \o p)
  BY DEF S, x
<1>3. order \in Seq(Coros)
  BY <1>1, <1>2, Enumerates
<1>4. p \in Seq(Coros) /\ Unrefs(p) = B
  <2>1. CASE x = None
    BY <2>1 DEF Unrefs, UnrefOf
  <2>2. CASE x # None
    BY <1>1, <2>2 DEF Unrefs, UnrefOf, Maybe
  <2> QED
    BY <2>1, <2>2
<1> HIDE DEF p
<1>5. seq = A \o B
  BY <1>2, <1>3, <1>4, UnrefsJoin, ZenonT(40)
<1>6. /\ A \in Seq(Items) /\ \A i \in DOMAIN A : A[i].does = "unref"
      /\ \A d \in Coros : Given(A, d) = In(d, S)
  <2>1. A \in Seq({Does("unref", z) : z \in S}) /\ \A d : Given(A, d) = In(d, S)
    BY <1>1, <1>2, GivenUnrefs
  <2>2. {Does("unref", z) : z \in S} \subseteq Items /\ \A y \in {Does("unref", z) : z \in S} : y.does = "unref"
    BY <1>1, DoesTypes
  <2>3. A \in Seq(Items)
    <3> DEFINE Z == {Does("unref", z) : z \in S}
    <3> HIDE DEF Z
    <3>1. A \in Seq(Z) /\ Z \subseteq Items
      BY <2>1, <2>2 DEF Z
    <3> HIDE DEF A
    <3> QED
      BY <3>1
  <2>4. \A i \in DOMAIN A : A[i] \in {Does("unref", z) : z \in S}
    BY <2>1
  <2> QED
    BY <2>1, <2>2, <2>3, <2>4
<1>7. /\ B \in Seq(Items) /\ \A i \in DOMAIN B : B[i].does = "unref"
      /\ \A d \in Coros : Given(B, d) = Same(x, d)
  BY <1>1, UnrefOfAre DEF Does
<1> HIDE DEF A, B
<1>8. /\ A \o B \in Seq(Items)
      /\ \A i \in DOMAIN (A \o B) : (A \o B)[i].does = "unref"
      /\ \A d \in Coros : Given(A \o B, d) = Given(A, d) + Given(B, d)
  BY <1>6, <1>7, Appended, Zenon
<1>9. /\ seq \in Seq(Items)
      /\ \A i \in DOMAIN seq : seq[i].does = "unref"
      /\ \A d \in Coros : Given(seq, d) = Given(A, d) + Given(B, d)
  BY <1>5, <1>8, Zenon
<1> QED
  BY <1>6, <1>7, <1>9 DEF S, x

(* The assignment at the end of what is to be done stays there.              *)
LEMMA StillAssigning ==
  ASSUME Assigning, NEW seq \in Seq(Items), todo \in Seq(Items), todo # << >>,
         todo' = seq \o Tail(todo), \A i \in DOMAIN seq : seq[i].does = "unref",
         handle' = handle, current' = current
  PROVE  Assigning'
<1> DEFINE n == Len(seq)
<1>1. /\ todo' \in Seq(Items) /\ n \in Nat
      /\ \A i \in DOMAIN seq : i \in DOMAIN todo' /\ todo'[i] = seq[i]
      /\ \A k \in DOMAIN todo : k # 1 => k + n - 1 \in DOMAIN todo' /\ todo'[k + n - 1] = todo[k]
      /\ \A i \in DOMAIN todo' : i \notin DOMAIN seq =>
           i - n + 1 \in DOMAIN todo /\ i - n + 1 # 1 /\ todo'[i] = todo[i - n + 1]
  <2>1. todo \in Seq(Items)
    OBVIOUS
  <2> QED
    BY <2>1, Spliced, SMTT(40)
<1>2. DOMAIN todo' = 1..Len(todo') /\ DOMAIN todo = 1..Len(todo) /\ Len(todo) \in Nat /\ Len(todo') \in Nat
  BY <1>1
<1> HIDE DEF n
<1>3. SUFFICES ASSUME NEW i \in DOMAIN todo', todo'[i].does = "take"
      PROVE  /\ i = Len(todo')
             /\ \A j \in DOMAIN todo' : j # i => todo'[j].does = "unref"
             /\ handle[todo'[i].s] = None
             /\ {todo'[i].s, todo'[i].r} \subseteq Mine(current)
  BY DEF Assigning, Mine
<1>4. i - n + 1 \in DOMAIN todo /\ i - n + 1 # 1 /\ todo'[i] = todo[i - n + 1]
  BY <1>1, <1>3
<1>5. /\ i - n + 1 = Len(todo) /\ handle[todo'[i].s] = None
      /\ {todo'[i].s, todo'[i].r} \subseteq Mine(current)
      /\ \A j \in DOMAIN todo : j # i - n + 1 => todo[j].does = "unref"
  BY <1>3, <1>4 DEF Assigning
<1>6. ASSUME NEW j \in DOMAIN todo', j # i PROVE todo'[j].does = "unref" /\ j <= i
  <2>1. i \in Nat /\ j \in Nat
    BY <1>2
  <2>2. CASE j \in DOMAIN seq
    <3>1. i \notin DOMAIN seq
      BY <1>1, <1>3
    <3>2. DOMAIN seq = 1..n
      BY <1>1 DEF n
    <3> QED
      BY <1>1, <1>2, <2>1, <2>2, <3>1, <3>2
  <2>3. CASE j \notin DOMAIN seq
    <3>1. j - n + 1 \in DOMAIN todo /\ todo'[j] = todo[j - n + 1]
      BY <1>1, <2>3
    <3>2. j - n + 1 # i - n + 1
      BY <1>1, <1>6, <2>1
    <3>3. j - n + 1 <= i - n + 1
      BY <1>2, <1>5, <3>1
    <3>4. j <= i
      <4>1. n \in Nat
        BY <1>1
      <4> QED
        BY <2>1, <3>3, <4>1
    <3> QED
      BY <1>5, <3>1, <3>2, <3>4
  <2> QED
    BY <2>2, <2>3
<1>7. i = Len(todo')
  <2>1. Len(todo') \in DOMAIN todo' /\ i <= Len(todo')
    BY <1>2
  <2> QED
    BY <1>2, <1>6, <2>1
<1> QED
  BY <1>5, <1>6, <1>7

(* unref(), of data that is deleted or is not.                               *)
LEMMA UnrefSteps ==
  ASSUME HandlesInv, NEW c \in Coros, Unref(c)
  PROVE  \E seq \in Seq(Items) :
           /\ \A i \in DOMAIN seq : seq[i].does = "unref"
           /\ todo' = seq \o Tail(todo)
           /\ IF count[c] > 1
              THEN (\A d \in Coros : Given(seq, d) = 0) /\ UNCHANGED <<data, tokens, parent>>
              ELSE /\ \A d \in Coros : Given(seq, d) = In(d, tokens[c]) + Same(parent[c], d)
                   /\ data' = data \ {c}
                   /\ tokens' = [tokens EXCEPT ![c] = {}]
                   /\ parent' = [parent EXCEPT ![c] = None]
<1>1. CASE count[c] > 1
  <2>1. << >> \in Seq(Items) /\ todo' = << >> \o Tail(todo) /\ UNCHANGED <<data, tokens, parent>>
    <3>1. Then(<< >>) /\ UNCHANGED <<data, tokens, parent>>
      BY <1>1, Zenon DEF Unref
    <3>2. << >> \in Seq(Items)
      OBVIOUS
    <3> QED
      BY <3>1, <3>2, Zenon DEF Then
  <2>2. \A d \in Coros : Given(<< >>, d) = 0
    BY GivenShort
  <2>3. \A i \in DOMAIN << >> : << >>[i].does = "unref"
    OBVIOUS
  <2> QED
    BY <1>1, <2>1, <2>2, <2>3
<1>2. CASE ~(count[c] > 1)
  <2>1. /\ data' = data \ {c}
        /\ tokens' = [tokens EXCEPT ![c] = {}]
        /\ parent' = [parent EXCEPT ![c] = None]
    BY <1>2 DEF Unref
  <2>2. PICK order \in SetToSeqs(tokens[c]) :
          todo' = Unrefs(order \o (IF parent[c] = None THEN << >> ELSE <<parent[c]>>)) \o Tail(todo)
    BY <1>2 DEF Unref, Then
  <2> DEFINE seq == Unrefs(order \o (IF parent[c] = None THEN << >> ELSE <<parent[c]>>))
  <2>3. /\ seq \in Seq(Items)
        /\ \A i \in DOMAIN seq : seq[i].does = "unref"
        /\ \A d \in Coros : Given(seq, d) = In(d, tokens[c]) + Same(parent[c], d)
    BY Deleted DEF HandlesInv
  <2>4. todo' = seq \o Tail(todo)
    BY <2>2
  <2> HIDE DEF seq
  <2> QED
    BY <1>2, <2>1, <2>3, <2>4
<1> QED
  BY <1>1, <1>2

LEMMA UnrefKeeps ==
  ASSUME HandlesInv, NEW c \in Coros, todo # << >>, Head(todo).does = "unref", Head(todo).c = c,
         Unref(c), UNCHANGED <<current, lost>>
  PROVE  HandlesInv'
<1> DEFINE h == Head(todo)
<1>1. /\ Types /\ count \in [Coros -> Int] /\ parent \in [Coros -> Maybe]
      /\ tokens \in [Coros -> SUBSET Coros] /\ todo \in Seq(Items)
      /\ 1 \in DOMAIN todo /\ Head(todo) = todo[1] /\ h \in Items
      /\ LifeInv /\ WakeInv /\ Assigning
  BY DEF HandlesInv, Types
<1>2. /\ count' = [count EXCEPT ![c] = @ - 1]
      /\ UNCHANGED <<handle, awaits, suspended, frame, created, started, complete, managed, queue, current>>
  BY DEF Unref
<1>3. PICK seq \in Seq(Items) :
        /\ \A i \in DOMAIN seq : seq[i].does = "unref"
        /\ todo' = seq \o Tail(todo)
        /\ IF count[c] > 1
           THEN (\A d \in Coros : Given(seq, d) = 0) /\ UNCHANGED <<data, tokens, parent>>
           ELSE /\ \A d \in Coros : Given(seq, d) = In(d, tokens[c]) + Same(parent[c], d)
                /\ data' = data \ {c}
                /\ tokens' = [tokens EXCEPT ![c] = {}]
                /\ parent' = [parent EXCEPT ![c] = None]
  BY UnrefSteps
<1>4. /\ todo' \in Seq(Items)
      /\ Going' = Going /\ (Resetting' <=> Resetting)
      /\ \A i \in DOMAIN todo' : \/ \E j \in DOMAIN seq : todo'[i] = seq[j]
                                 \/ \E k \in DOMAIN todo : k # 1 /\ todo'[i] = todo[k]
      /\ \A d \in Coros : /\ Given(todo', d) = Given(seq, d) + Given(todo, d) - Gives(h, d)
                          /\ Given(seq, d) \in Nat
  <2>1. Plain(seq)
    BY <1>3 DEF Plain
  <2> QED
    BY <1>3, <2>1, Unwound
<1>5. /\ tokens' \in [Coros -> SUBSET Coros] /\ parent' \in [Coros -> Maybe] /\ data' \subseteq data
      /\ \A d \in Coros : tokens'[d] \subseteq tokens[d] /\ parent'[d] \in {None, parent[d]}
  <2>1. CASE count[c] > 1
    <3>1. tokens' = tokens /\ parent' = parent /\ data' = data
      BY <1>3, <2>1
    <3> QED
      BY <1>1, <3>1
  <2>2. CASE ~(count[c] > 1)
    <3>1. tokens' = [tokens EXCEPT ![c] = {}] /\ data' = data \ {c}
      BY <1>3, <2>2
    <3>2. parent' = [parent EXCEPT ![c] = None]
      BY <1>3, <2>2
    <3>3. tokens' \in [Coros -> SUBSET Coros] /\ \A d \in Coros : tokens'[d] \subseteq tokens[d]
      BY <1>1, <3>1
    <3>4. parent' \in [Coros -> Maybe] /\ \A d \in Coros : parent'[d] \in {None, parent[d]}
      BY <1>1, <3>2 DEF Maybe
    <3> QED
      BY <3>1, <3>3, <3>4
  <2> QED
    BY <2>1, <2>2
<1>6. Types'
  <2>1. count' \in [Coros -> Int]
    BY <1>1, <1>2
  <2> QED
    BY <1>1, <1>2, <1>4, <1>5, <2>1 DEF Types
<1> HIDE DEF h
<1>7. ASSUME NEW d \in Coros PROVE Ties(d)' + Given(seq, d) = Ties(d)
  <2>1. TermsAre(d) /\ Same(parent[c], d) \in Nat /\ In(d, tokens[c]) \in Nat /\ In(d, managed) \in Nat
    BY <1>1, TermsNow DEF In, Same
  <2>2. CASE count[c] > 1
    <3>1. Ties(d)' = Ties(d)
      BY <1>2, <1>3, <2>2 DEF Ties
    <3>2. Ties(d) \in Int
      BY <1>1, Before DEF Grouped
    <3> QED
      BY <1>3, <2>2, <3>1, <3>2
  <2>3. CASE ~(count[c] > 1)
    <3>1. Waits(tokens', d) = Waits(tokens, d) - In(d, tokens[c])
      <4>1. Waits([tokens EXCEPT ![c] = {}], d) = Waits(tokens, d) - In(d, tokens[c]) + In(d, {})
        BY <1>1, WaitsChange
      <4>2. In(d, {}) = 0
        BY DEF In
      <4>3. Waits(tokens, d) \in Nat
        BY <2>1 DEF TermsAre
      <4>4. \A x, y \in Nat : x - y + 0 = x - y
        OBVIOUS
      <4>5. Waits([tokens EXCEPT ![c] = {}], d) = Waits(tokens, d) - In(d, tokens[c])
        BY <2>1, <4>1, <4>2, <4>3, <4>4
      <4> QED
        BY <1>3, <2>3, <4>5
    <3>2. Holders(parent', d) = Holders(parent, d) - Same(parent[c], d)
      <4>1. Holders([parent EXCEPT ![c] = None], d) = Holders(parent, d) - Same(parent[c], d)
        BY <1>1, CoroChange
      <4> QED
        BY <1>3, <2>3, <4>1
    <3> DEFINE m == In(d, managed)
               w == Waits(tokens, d)
               w1 == Waits(tokens', d)
               q == Resumes(queue, d)
               p == Holders(parent, d)
               p1 == Holders(parent', d)
               a == In(d, tokens[c])
               b == Same(parent[c], d)
    <3>3. m \in Int /\ w \in Int /\ q \in Int /\ p \in Int /\ a \in Int /\ b \in Int
      BY <2>1 DEF TermsAre
    <3>4. Ties(d) = m + w + q + p /\ Ties(d)' = m + w1 + q + p1 /\ Given(seq, d) = a + b
          /\ w1 = w - a /\ p1 = p - b
      BY <1>2, <1>3, <2>3, <3>1, <3>2 DEF Ties
    <3> HIDE DEF m, w, w1, q, p, p1, a, b
    <3> QED
      BY <3>3, <3>4
  <2> QED
    BY <2>2, <2>3
<1>8. ASSUME NEW d \in Coros PROVE count'[d] = References(d)'
  <2>1. Grouped(d) /\ Grouped(d)' /\ count[d] = References(d)
    BY <1>1, <1>6, Before, After DEF HandlesInv, CountsReferences
  <2>2. Gives(h, d) = Same(c, d) /\ Same(c, d) \in Nat
    BY DEF Gives, Same, h
  <2>3. count'[d] = count[d] - Same(c, d)
    BY <1>1, <1>2 DEF Same
  <2>4. Places(d)' = Places(d)
    BY <1>2 DEF Places
  <2> DEFINE k == Holders(handle, d)
             P == Places(d)
             T == Ties(d)
             T1 == Ties(d)'
             g == Given(todo, d)
             g1 == Given(todo', d)
             u == Given(seq, d)
             z == Same(c, d)
             e == Same(current, d)
  <2>5. k \in Int /\ P \in Int /\ T \in Int /\ T1 \in Int /\ g \in Int /\ g1 \in Int /\ u \in Int
        /\ z \in Int /\ e \in Int
    BY <1>4, <2>1, <2>2 DEF Grouped
  <2>6. /\ count[d] = k + g + P + T + 2 * e
        /\ References(d)' = k + g1 + P + T1 + 2 * e
        /\ count'[d] = count[d] - z /\ T1 + u = T /\ g1 = u + g - z
    BY <1>2, <1>4, <1>7, <2>1, <2>2, <2>3, <2>4 DEF Grouped
  <2> HIDE DEF k, P, T, T1, g, g1, u, z, e
  <2> QED
    BY <2>5, <2>6, SMTT(40)
<1>9. CountsReferences'
  <2>1. count[c] > 0
    <3>1. 1 \in Givers(todo, c)
      BY <1>1 DEF Givers, h
    <3> QED
      BY <1>1, <3>1, InUse DEF HandlesInv, Unused
  <2>2. ASSUME NEW d \in Coros PROVE d \in data' <=> count'[d] > 0
    <3>1. count[d] \in Nat /\ (d \in data <=> count[d] > 0)
      BY <1>1, InUse DEF HandlesInv
    <3>2. CASE d # c
      BY <1>1, <1>2, <1>3, <3>1, <3>2
    <3>3. CASE d = c
      BY <1>1, <1>2, <1>3, <2>1, <3>1, <3>3
    <3> QED
      BY <3>2, <3>3
  <2> QED
    BY <1>8, <2>2 DEF CountsReferences
<1>10. Assigning'
  BY <1>1, <1>2, <1>3, StillAssigning
<1>11. Live' = Live
  BY <1>2 DEF Live
<1>12. LifeInv'
  <2>1. ToDo("drop")' \subseteq ToDo("drop")
    BY <1>3, <1>4 DEF ToDo
  <2>2. \A d \in Coros : parent'[d] # None => d \in started
    BY <1>1, <1>5 DEF LifeInv
  <2> QED
    BY <1>1, <1>2, <1>4, <1>5, <1>11, <2>1, <2>2 DEF LifeInv
<1>13. WakeInv'
  <2>1. \A d \in Coros : /\ tokens'[d] # {} => d \in started
                        /\ tokens'[d] \subseteq started
    BY <1>1, <1>5 DEF WakeInv
  <2>2. \A t \in queue, d \in Coros : t.to \in Live => t.to \notin tokens'[d]
    BY <1>1, <1>5 DEF WakeInv
  <2>3. \A d, e \in Coros, p \in Live : p \in tokens'[d] /\ p \in tokens'[e] => d = e
    BY <1>1, <1>5 DEF WakeInv
  <2>4. \A d \in Coros : current # None => current \notin tokens'[d]
    BY <1>1, <1>5 DEF WakeInv
  <2>5. \A d \in Live : ~Resetting => tokens'[d] \subseteq Live
    <3>1. Live \subseteq Coros
      BY <1>1 DEF Types, Live
    <3> QED
      BY <1>1, <1>5, <3>1 DEF WakeInv
  <2> QED
    BY <1>1, <1>2, <1>4, <1>11, <2>1, <2>2, <2>3, <2>4, <2>5 DEF WakeInv
<1>14. Plain(seq)
  BY <1>3 DEF Plain
<1>15. h.does = "unref"
  BY DEF h
<1> QED
  BY <1>2, <1>3, <1>6, <1>9, <1>10, <1>11, <1>12, <1>13, <1>14, <1>15, UnwoundInv DEF h

-----------------------------------------------------------------------------
(* ~coroutine: only the pointer goes, or the frame of a coroutine that was   *)
(* never started goes before it.                                             *)
PrefixedBy(new, x, mid) ==
  /\ new \in Seq(Items)
  /\ 1 \in DOMAIN new /\ new[1] = x
  /\ \A k \in DOMAIN mid : k \in Nat /\ k >= 1 /\ k + 1 \in DOMAIN new /\ new[k + 1] = mid[k]
  /\ \A i \in DOMAIN new : i \in Nat /\ i >= 1 /\ (i # 1 => i - 1 \in DOMAIN mid /\ new[i] = mid[i - 1])

LEMMA Prefixed ==
  ASSUME NEW x \in Items, NEW mid \in Seq(Items), NEW new, new = <<x>> \o mid
  PROVE  PrefixedBy(new, x, mid)
<1> DEFINE A == <<x>>
           m == Len(mid)
<1>1. A \in Seq(Items) /\ Len(A) = 1 /\ A[1] = x /\ m \in Nat /\ DOMAIN mid = 1..m
  OBVIOUS
<1>2. /\ A \o mid \in Seq(Items) /\ Len(A \o mid) = Len(A) + Len(mid)
      /\ \A i \in 1..Len(A) : (A \o mid)[i] = A[i]
      /\ \A i \in 1..Len(mid) : (A \o mid)[Len(A) + i] = mid[i]
  <2>1. A \in Seq(Items) /\ mid \in Seq(Items)
    BY <1>1
  <2> HIDE DEF A
  <2> QED
    BY <2>1, Joined
<1>3. new = A \o mid
  OBVIOUS
<1> HIDE DEF A, m
<1>4. new \in Seq(Items) /\ Len(new) = 1 + m /\ new[1] = x /\ \A i \in 1..m : new[1 + i] = mid[i]
  <2>1. Len(mid) = m
    BY DEF m
  <2> QED
    BY <1>1, <1>2, <1>3, <2>1
<1>5. DOMAIN new = 1..(1 + m)
  BY <1>1, <1>4
<1>6. ASSUME NEW k \in 1..m PROVE k \in Nat /\ k >= 1 /\ k + 1 \in 1..(1 + m) /\ new[k + 1] = mid[k]
  <2>1. k + 1 = 1 + k
    OBVIOUS
  <2> QED
    BY <1>1, <1>4, <2>1
<1>7. ASSUME NEW i \in 1..(1 + m), i # 1 PROVE i - 1 \in 1..m /\ new[i] = mid[i - 1]
  <2>1. i - 1 \in 1..m /\ 1 + (i - 1) = i
    BY <1>1, <1>7
  <2> QED
    BY <1>4, <2>1
<1> QED
  BY <1>1, <1>4, <1>5, <1>6, <1>7 DEF PrefixedBy

LEMMA DropsPointer ==
  ASSUME HandlesInv, NEW c \in Coros, todo # << >>, Head(todo).does = "drop", Head(todo).c = c,
         todo' = <<Does("unref", c)>> \o Tail(todo),
         UNCHANGED <<places, count, life, tokens, queue, current, lost>>
  PROVE  HandlesInv'
<1> DEFINE h == Head(todo)
           seq == <<Does("unref", c)>>
<1>1. /\ Types /\ 1 \in DOMAIN todo /\ Head(todo) = todo[1] /\ h \in Items
      /\ LifeInv /\ WakeInv
  BY DEF HandlesInv, Types
<1>2. UNCHANGED <<handle, awaits, suspended, frame, data, count, created, started, complete, parent,
                  managed, tokens, queue, current>>
  BY DEF places, life
<1>3. /\ seq \in Seq(Items) /\ todo' = seq \o Tail(todo)
      /\ \A i \in DOMAIN seq : seq[i].does = "unref"
      /\ \A d \in Coros : Given(seq, d) = Same(c, d)
  <2>1. /\ Does("unref", c) \in Items /\ Does("unref", c).does = "unref"
        /\ \A d : Gives(Does("unref", c), d) = Same(c, d)
    BY DoesTypes
  <2>2. \A d : Given(<<Does("unref", c)>>, d) = Gives(Does("unref", c), d)
    BY GivenShort
  <2> QED
    BY <2>1, <2>2
<1> HIDE DEF seq
<1>4. Plain(seq)
  BY <1>3 DEF Plain
<1>5. /\ todo' \in Seq(Items)
      /\ Going' = Going /\ (Resetting' <=> Resetting)
      /\ \A i \in DOMAIN todo' : \/ \E j \in DOMAIN seq : todo'[i] = seq[j]
                                 \/ \E k \in DOMAIN todo : k # 1 /\ todo'[i] = todo[k]
      /\ \A d \in Coros : Given(todo', d) = Given(seq, d) + Given(todo, d) - Gives(h, d)
  BY <1>3, <1>4, Unwound
<1>6. Types'
  BY <1>1, <1>2, <1>5 DEF Types
<1> HIDE DEF h
<1>7. ASSUME NEW d \in Coros PROVE count'[d] = References(d)'
  <2>1. Grouped(d) /\ Grouped(d)' /\ count[d] = References(d)
    BY <1>1, <1>6, Before, After DEF HandlesInv, CountsReferences
  <2>2. Gives(h, d) = Same(c, d) /\ Same(c, d) \in Int
    BY DEF Gives, Same, h
  <2>3. Given(todo', d) = Given(todo, d)
    <3>1. Given(todo', d) = Same(c, d) + Given(todo, d) - Same(c, d) /\ Given(todo, d) \in Int
      BY <1>3, <1>5, <2>1, <2>2 DEF Grouped
    <3> QED
      BY <2>2, <3>1
  <2>4. Places(d)' = Places(d) /\ Ties(d)' = Ties(d)
    BY <1>2 DEF Places, Ties
  <2> QED
    BY <1>2, <2>1, <2>3, <2>4 DEF Grouped
<1>8. CountsReferences'
  BY <1>2, <1>7 DEF CountsReferences, HandlesInv
<1>9. Assigning'
  <2>1. \A k \in DOMAIN todo : todo[k].does # "take"
    BY NoTakes
  <2> QED
    BY <1>3, <1>5, <2>1 DEF Assigning
<1>10. Live' = Live
  BY <1>2 DEF Live
<1>11. LifeInv'
  <2>1. ToDo("drop")' \subseteq ToDo("drop")
    BY <1>3, <1>5 DEF ToDo
  <2> QED
    BY <1>1, <1>2, <1>5, <1>10, <2>1 DEF LifeInv
<1>12. WakeInv'
  BY <1>1, <1>2, <1>5, <1>10 DEF WakeInv
<1>13. h.does = "drop"
  BY DEF h
<1> QED
  BY <1>2, <1>3, <1>4, <1>6, <1>8, <1>9, <1>10, <1>11, <1>12, <1>13, UnwoundInv DEF h

(* Promise and handle are the only references there are.                     *)
LEMMA LastIsGoing ==
  ASSUME HandlesInv, NEW c \in Coros, todo # << >>, Head(todo).does = "drop", Head(todo).c = c,
         NeverStarts(c)
  PROVE  /\ c \in frame /\ c \notin Going /\ c \notin started
         /\ \A s \in Slots : handle[s] # c
         /\ \A k \in DOMAIN todo : k # 1 => ~(todo[k].does = "drop" /\ todo[k].c = c)
<1>1. /\ Types /\ LifeInv /\ CountsReferences /\ 1 \in DOMAIN todo /\ Head(todo) = todo[1]
      /\ todo \in Seq(Items)
  BY DEF HandlesInv, Types
<1>2. c \notin started /\ count[c] = 2
  BY DEF NeverStarts
<1>3. c \in created /\ c \in ToDo("drop")
  <2>1. c \in data
    BY <1>1, <1>2, InUse
  <2> QED
    BY <1>1, <2>1 DEF LifeInv, ToDo
<1>4. c \in frame /\ c \notin Going
  BY <1>1, <1>2, <1>3 DEF LifeInv
<1>5. /\ Holders(handle, c) \in Nat /\ Holders(awaits, c) \in Nat /\ Waits(tokens, c) \in Nat
      /\ Resumes(queue, c) \in Nat /\ Holders(parent, c) \in Nat /\ Given(todo, c) \in Nat
  BY <1>1, Terms
<1>6. /\ In(c, frame) = 1 /\ In(c, suspended) \in Nat /\ In(c, managed) \in Nat
      /\ Same(current, c) \in Nat
  BY <1>4 DEF In, Same
<1>7. /\ Given(todo, c) = 1 + Given(Tail(todo), c)
      /\ Given(Tail(todo), c) \in Nat /\ Tail(todo) \in Seq(Items)
  <2>1. Given(todo, c) = Gives(Head(todo), c) + Given(Tail(todo), c)
    BY <1>1, GivenHead
  <2>2. Tail(todo) \in Seq(Items)
    BY <1>1
  <2>3. Given(Tail(todo), c) \in Nat
    BY <2>2, GivenType
  <2>4. Gives(Head(todo), c) = 1
    BY DEF Gives
  <2> QED
    BY <2>1, <2>2, <2>3, <2>4
<1>8. Holders(handle, c) = 0 /\ Given(Tail(todo), c) = 0
  <2>1. count[c] = Holders(handle, c) + Holders(awaits, c) + In(c, frame) + 2 * In(c, suspended)
                   + In(c, managed) + Waits(tokens, c) + Resumes(queue, c) + Holders(parent, c)
                   + 2 * Same(current, c) + Given(todo, c)
    BY <1>1, ReferencesAre DEF CountsReferences
  <2> DEFINE a == Holders(handle, c)
             b == Holders(awaits, c)
             e == In(c, suspended)
             f == In(c, managed)
             g == Waits(tokens, c)
             h == Resumes(queue, c)
             i == Holders(parent, c)
             j == Same(current, c)
             k == Given(Tail(todo), c)
  <2>2. a \in Nat /\ b \in Nat /\ e \in Nat /\ f \in Nat /\ g \in Nat /\ h \in Nat /\ i \in Nat /\ j \in Nat
        /\ k \in Nat
    BY <1>5, <1>6, <1>7
  <2>3. 2 = a + b + 1 + 2 * e + f + g + h + i + 2 * j + (1 + k)
    BY <1>2, <1>6, <1>7, <2>1
  <2> HIDE DEF a, b, e, f, g, h, i, j, k
  <2>4. a = 0 /\ k = 0
    BY <2>2, <2>3
  <2> QED
    BY <2>4 DEF a, k
<1>9. \A s \in Slots : handle[s] # c
  BY <1>1, <1>8, Terms
<1>10. ASSUME NEW k \in DOMAIN todo, k # 1 PROVE ~(todo[k].does = "drop" /\ todo[k].c = c)
  <2>1. Givers(Tail(todo), c) = {}
    BY <1>7, <1>8, GivenType
  <2>2. k - 1 \in DOMAIN Tail(todo) /\ Tail(todo)[k - 1] = todo[k]
    BY <1>1, <1>10
  <2> QED
    BY <2>1, <2>2 DEF Givers
<1> QED
  BY <1>2, <1>4, <1>9, <1>10

FrameFirst(c) ==
  todo' = <<Does("frame", c)>> \o (<<Does("unref", c)>> \o Tail(todo))

LEMMA DropsFrame ==
  ASSUME HandlesInv, NEW c \in Coros, todo # << >>, Head(todo).does = "drop", Head(todo).c = c,
         NeverStarts(c),
         FrameFirst(c),
         UNCHANGED <<places, count, life, tokens, queue, current, lost>>
  PROVE  HandlesInv'
<1> DEFINE h == Head(todo)
           f == Does("frame", c)
           u == Does("unref", c)
           seq == <<u>>
           mid == seq \o Tail(todo)
<1>1. /\ Types /\ 1 \in DOMAIN todo /\ Head(todo) = todo[1] /\ h \in Items
      /\ LifeInv /\ WakeInv /\ ResetInv /\ FramesAreThere /\ todo \in Seq(Items)
      /\ Tail(todo) \in Seq(Items)
  BY DEF HandlesInv, Types
<1>2. UNCHANGED <<handle, awaits, suspended, frame, data, count, created, started, complete, parent,
                  managed, tokens, queue, current>>
  BY DEF places, life
<1>3. /\ c \in frame /\ c \notin Going /\ c \notin started
      /\ \A s \in Slots : handle[s] # c
      /\ \A k \in DOMAIN todo : k # 1 => ~(todo[k].does = "drop" /\ todo[k].c = c)
  BY LastIsGoing
<1>4. /\ f \in Items /\ u \in Items /\ f.does = "frame" /\ f.c = c /\ u.does = "unref" /\ u.c = c
      /\ \A d : Gives(f, d) = 0 /\ Gives(u, d) = Same(c, d)
  BY DoesTypes
<1> HIDE DEF f, u
<1>5. /\ seq \in Seq(Items) /\ DOMAIN seq = {1} /\ seq[1] = u /\ Plain(seq)
      /\ \A d : Given(seq, d) = Same(c, d)
  <2>1. \A d : Given(<<u>>, d) = Gives(u, d)
    BY GivenShort
  <2>2. seq \in Seq(Items) /\ DOMAIN seq = {1} /\ seq[1] = u
    BY <1>4
  <2>3. Plain(seq)
    BY <1>4, <2>2 DEF Plain
  <2> QED
    BY <1>4, <2>1, <2>2, <2>3
<1> HIDE DEF seq, mid
<1>6. /\ FollowsFrom(mid, seq, todo)
      /\ 1 \in DOMAIN mid /\ mid[1] = u
      /\ \A k \in DOMAIN todo : k # 1 => \E i \in DOMAIN mid : mid[i] = todo[k]
  <2>1. todo \in Seq(Items) /\ mid = seq \o Tail(todo)
    BY <1>1 DEF mid
  <2>2. FollowsFrom(mid, seq, todo)
    BY <1>5, <2>1, Continues, Zenon
  <2> QED
    BY <1>5, <2>2 DEF FollowsFrom
<1>7. /\ mid \in Seq(Items)
      /\ \A i \in DOMAIN mid : mid[i] = u \/ \E k \in DOMAIN todo : k # 1 /\ mid[i] = todo[k]
      /\ GuardedIn(mid) /\ FramesDiffer(mid) /\ OneClear(mid) /\ ClearFollows(mid)
      /\ HeldAfterClear(mid, queue)
  <2>1. GuardedIn(todo)
    BY DEF HandlesInv, Guarded, GuardedIn, Frames
  <2>2. FramesDiffer(todo)
    BY DEF HandlesInv, FramesAreThere, FramesDiffer, Frames
  <2>3. OneClear(todo)
    BY DEF HandlesInv, ResetInv, OneClear
  <2>4. ClearFollows(todo)
    BY DEF HandlesInv, ResetInv, ClearFollows
  <2>5. HeldAfterClear(todo, queue)
    BY DEF HandlesInv, ResetInv, HeldAfterClear
  <2> QED
    BY <1>5, <1>6, <2>1, <2>2, <2>3, <2>4, <2>5 DEF FollowsFrom
<1>8. todo' = <<f>> \o mid
  BY DEF FrameFirst, f, u, seq, mid
<1>9. /\ todo' \in Seq(Items)
      /\ 1 \in DOMAIN todo' /\ todo'[1] = f
      /\ \A k \in DOMAIN mid : k \in Nat /\ k >= 1 /\ k + 1 \in DOMAIN todo' /\ todo'[k + 1] = mid[k]
      /\ \A i \in DOMAIN todo' : i \in Nat /\ i >= 1 /\ (i # 1 => i - 1 \in DOMAIN mid /\ todo'[i] = mid[i - 1])
  <2>1. PrefixedBy(todo', f, mid)
    BY <1>4, <1>7, <1>8, Prefixed, Zenon
  <2> QED
    BY <2>1 DEF PrefixedBy
(* What is neither of the two items was to be done before.                   *)
<1>10. \A i \in DOMAIN todo' : i = 1 \/ todo'[i] = u \/ \E k \in DOMAIN todo : k # 1 /\ todo'[i] = todo[k]
  BY <1>7, <1>9
<1>11. \A k \in DOMAIN todo : k # 1 => \E i \in DOMAIN todo' : todo'[i] = todo[k]
  BY <1>6, <1>9
<1> HIDE DEF h
<1>12. h.does = "drop" /\ h.c = c
  BY DEF h
<1>13. /\ Going' = Going \cup {c}
       /\ ToDo("destroy")' = ToDo("destroy")
       /\ Resetting' <=> Resetting
       /\ ToDo("drop")' \subseteq ToDo("drop") \ {c}
  <2>1. \A i \in DOMAIN todo' : todo'[i].does \in {"destroy", "clear"} =>
          \E k \in DOMAIN todo : todo'[i] = todo[k]
    BY <1>4, <1>9, <1>10
  <2>2. ToDo("destroy")' = ToDo("destroy")
    <3>1. ASSUME NEW d \in ToDo("destroy")' PROVE d \in ToDo("destroy")
      <4>1. PICK i \in DOMAIN todo' : todo'[i].does = "destroy" /\ todo'[i].c = d
        BY DEF ToDo
      <4>2. PICK k \in DOMAIN todo : todo'[i] = todo[k]
        BY <2>1, <4>1
      <4> QED
        BY <4>1, <4>2 DEF ToDo
    <3>2. ASSUME NEW d \in ToDo("destroy") PROVE d \in ToDo("destroy")'
      <4>1. PICK k \in DOMAIN todo : todo[k].does = "destroy" /\ todo[k].c = d
        BY DEF ToDo
      <4>2. k # 1
        BY <1>1, <1>12, <4>1 DEF h
      <4>3. PICK i \in DOMAIN todo' : todo'[i] = todo[k]
        BY <1>11, <4>2
      <4> QED
        BY <4>1, <4>3 DEF ToDo
    <3> QED
      BY <3>1, <3>2
  <2>3. Resetting' <=> Resetting
    <3>1. ASSUME Resetting PROVE Resetting'
      <4>1. PICK k \in DOMAIN todo : todo[k].does = "clear"
        BY <3>1 DEF Resetting
      <4>2. k # 1
        BY <1>1, <1>12, <4>1 DEF h
      <4>3. PICK i \in DOMAIN todo' : todo'[i] = todo[k]
        BY <1>11, <4>2
      <4> QED
        BY <4>1, <4>3 DEF Resetting
    <3>2. ASSUME Resetting' PROVE Resetting
      <4>1. PICK i \in DOMAIN todo' : todo'[i].does = "clear"
        BY <3>2 DEF Resetting
      <4>2. PICK k \in DOMAIN todo : todo'[i] = todo[k]
        BY <2>1, <4>1
      <4> QED
        BY <4>1, <4>2 DEF Resetting
    <3> QED
      BY <3>1, <3>2
  <2>4. ASSUME NEW d \in ToDo("drop")' PROVE d \in ToDo("drop") \ {c}
    <3>1. PICK i \in DOMAIN todo' : todo'[i].does = "drop" /\ todo'[i].c = d
      BY DEF ToDo
    <3>2. PICK k \in DOMAIN todo : k # 1 /\ todo'[i] = todo[k]
      BY <1>4, <1>9, <1>10, <3>1
    <3>3. todo[k].does = "drop" /\ todo[k].c = d
      BY <3>1, <3>2
    <3> QED
      BY <1>3, <3>2, <3>3 DEF ToDo
  <2>5. ASSUME NEW d \in Going' PROVE d \in Going \cup {c}
    <3>1. PICK i \in DOMAIN todo' : todo'[i].does \in {"frame", "destroy"} /\ todo'[i].c = d
      BY DEF Going, Frames
    <3>2. CASE i = 1
      BY <1>4, <1>9, <3>1, <3>2
    <3>3. CASE i # 1
      <4>1. PICK k \in DOMAIN todo : todo'[i] = todo[k]
        BY <1>4, <1>10, <3>1, <3>3
      <4>2. todo[k].does \in {"frame", "destroy"} /\ todo[k].c = d
        BY <3>1, <4>1
      <4> QED
        BY <4>2 DEF Going, Frames
    <3> QED
      BY <3>2, <3>3
  <2>6. ASSUME NEW d \in Going PROVE d \in Going'
    <3>1. PICK k \in DOMAIN todo : todo[k].does \in {"frame", "destroy"} /\ todo[k].c = d
      BY DEF Going, Frames
    <3>2. k # 1
      BY <1>1, <1>12, <3>1 DEF h
    <3>3. PICK i \in DOMAIN todo' : todo'[i] = todo[k]
      BY <1>11, <3>2
    <3>4. todo'[i].does \in {"frame", "destroy"} /\ todo'[i].c = d
      BY <3>1, <3>3
    <3> QED
      BY <3>4 DEF Going, Frames
  <2>7. c \in Going'
    BY <1>4, <1>9 DEF Going, Frames
  <2> QED
    BY <2>2, <2>3, <2>4, <2>5, <2>6, <2>7
<1>14. Types'
  BY <1>1, <1>2, <1>9 DEF Types
<1>15. \A d \in Coros : Given(todo', d) = Given(todo, d)
  <2> SUFFICES ASSUME NEW d \in Coros PROVE Given(todo', d) = Given(todo, d)
    OBVIOUS
  <2>1. Given(todo, d) = Gives(h, d) + Given(Tail(todo), d) /\ Given(Tail(todo), d) \in Nat
    BY <1>1, GivenHead, GivenType DEF h
  <2>2. Given(mid, d) = Given(seq, d) + Given(Tail(todo), d)
    <3>1. seq \in Seq(Items) /\ Tail(todo) \in Seq(Items)
      BY <1>1, <1>5
    <3>2. Given(seq \o Tail(todo), d) = Given(seq, d) + Given(Tail(todo), d)
      BY <3>1, GivenConcat, Zenon
    <3> QED
      BY <3>2 DEF mid
  <2>3. Given(todo', d) = 0 + Given(mid, d)
    <3>1. <<f>> \in Seq(Items) /\ mid \in Seq(Items)
      BY <1>4, <1>7
    <3>2. Given(<<f>> \o mid, d) = Given(<<f>>, d) + Given(mid, d)
      BY <3>1, GivenConcat, Zenon
    <3>3. Given(<<f>>, d) = 0
      BY <1>4, GivenShort
    <3> QED
      BY <1>8, <3>2, <3>3
  <2>4. Gives(h, d) = Same(c, d) /\ Same(c, d) \in Nat
    BY <1>12 DEF Gives, Same
  <2> QED
    BY <1>5, <2>1, <2>2, <2>3, <2>4
<1>16. CountsReferences'
  <2>1. ASSUME NEW d \in Coros PROVE count'[d] = References(d)'
    <3>1. Grouped(d) /\ Grouped(d)' /\ count[d] = References(d)
      BY <1>1, <1>14, Before, After DEF HandlesInv, CountsReferences
    <3>2. Places(d)' = Places(d) /\ Ties(d)' = Ties(d)
      BY <1>2 DEF Places, Ties
    <3> QED
      BY <1>2, <1>15, <3>1, <3>2 DEF Grouped
  <2> QED
    BY <1>2, <2>1 DEF CountsReferences, HandlesInv
<1>17. Assigning'
  <2>1. \A k \in DOMAIN todo : todo[k].does # "take"
    BY NoTakes
  <2> QED
    BY <1>4, <1>9, <1>10, <2>1 DEF Assigning
<1>18. Live' = Live /\ c \notin Live
  BY <1>2, <1>3 DEF Live
<1>19. Guarded'
  <2>1. SUFFICES ASSUME NEW i \in DOMAIN todo', todo'[i].does \in {"frame", "destroy"}
                 PROVE  \E j \in DOMAIN todo' : j > i /\ todo'[j].does = "unref" /\ todo'[j].c = todo'[i].c
    BY Zenon DEF Guarded, Frames
  <2>2. CASE i = 1
    <3>1. 1 + 1 \in DOMAIN todo' /\ todo'[1 + 1] = u
      BY <1>6, <1>9
    <3> QED
      BY <1>4, <1>9, <2>2, <3>1
  <2>3. CASE i # 1
    <3>1. i - 1 \in DOMAIN mid /\ todo'[i] = mid[i - 1] /\ i \in Nat
      BY <1>9, <2>3
    <3>2. PICK j \in DOMAIN mid : j > i - 1 /\ mid[j].does = "unref" /\ mid[j].c = mid[i - 1].c
      BY <1>7, <2>1, <3>1 DEF GuardedIn
    <3>3. j + 1 \in DOMAIN todo' /\ todo'[j + 1] = mid[j] /\ j + 1 > i
      <4>1. j \in Nat /\ j + 1 \in DOMAIN todo' /\ todo'[j + 1] = mid[j]
        BY <1>9
      <4> QED
        BY <3>1, <3>2, <4>1
    <3> QED
      BY <3>1, <3>2, <3>3
  <2> QED
    BY <2>2, <2>3
<1>20. ResetInv'
  <2>1. ASSUME NEW i \in DOMAIN todo', todo'[i].does \notin {"frame", "unref"}
        PROVE  i \in Nat /\ i - 1 \in DOMAIN mid /\ todo'[i] = mid[i - 1]
    BY <1>4, <1>9, <2>1
  <2>2. ASSUME NEW i \in DOMAIN todo', NEW j \in DOMAIN todo', todo'[i].does = "clear", todo'[j].does = "clear"
        PROVE  i = j
    <3>1. i \in Nat /\ i - 1 \in DOMAIN mid /\ todo'[i] = mid[i - 1]
      BY <2>1, <2>2
    <3>2. j \in Nat /\ j - 1 \in DOMAIN mid /\ todo'[j] = mid[j - 1]
      BY <2>1, <2>2
    <3>3. i - 1 = j - 1
      BY <1>7, <2>2, <3>1, <3>2 DEF OneClear
    <3> QED
      BY <3>1, <3>2, <3>3
  <2>3. ASSUME NEW i \in DOMAIN todo', todo'[i].does = "destroy"
        PROVE  todo'[i].c \in Live' /\ \E j \in DOMAIN todo' : j > i /\ todo'[j].does = "clear"
    <3>1. i \in Nat /\ i - 1 \in DOMAIN mid /\ todo'[i] = mid[i - 1]
      BY <2>1, <2>3
    <3>2. PICK j \in DOMAIN mid : j > i - 1 /\ mid[j].does = "clear"
      BY <1>7, <2>3, <3>1 DEF ClearFollows
    <3>3. j + 1 \in DOMAIN todo' /\ todo'[j + 1] = mid[j] /\ j + 1 > i
      <4>1. j \in Nat /\ j + 1 \in DOMAIN todo' /\ todo'[j + 1] = mid[j]
        BY <1>9
      <4> QED
        BY <3>1, <3>2, <4>1
    <3>4. todo'[i].c \in ToDo("destroy")
      BY <1>13, <2>3 DEF ToDo
    <3> QED
      BY <1>1, <1>18, <3>2, <3>3, <3>4 DEF ResetInv
  <2>4. ASSUME NEW i \in DOMAIN todo', todo'[i].does = "frame" PROVE todo'[i].c \notin Live'
    <3>1. CASE i = 1
      BY <1>4, <1>9, <1>18, <3>1
    <3>2. CASE i # 1
      <4>1. PICK k \in DOMAIN todo : todo'[i] = todo[k]
        BY <1>4, <1>10, <2>4, <3>2
      <4> QED
        BY <1>1, <1>18, <2>4, <4>1 DEF ResetInv
    <3> QED
      BY <3>1, <3>2
  <2>5. Resetting' => current' = None /\ managed' = {}
    BY <1>1, <1>2, <1>13 DEF ResetInv
  <2>6. ASSUME NEW t \in queue', NEW i \in DOMAIN todo', todo'[i].does = "clear"
        PROVE  \E j \in DOMAIN todo' : j > i /\ todo'[j].does = "unref" /\ todo'[j].c = t.to
    <3>1. i \in Nat /\ i - 1 \in DOMAIN mid /\ todo'[i] = mid[i - 1]
      BY <2>1, <2>6
    <3>2. PICK j \in DOMAIN mid : j > i - 1 /\ mid[j].does = "unref" /\ mid[j].c = t.to
      BY <1>2, <1>7, <2>6, <3>1 DEF HeldAfterClear
    <3>3. j + 1 \in DOMAIN todo' /\ todo'[j + 1] = mid[j] /\ j + 1 > i
      <4>1. j \in Nat /\ j + 1 \in DOMAIN todo' /\ todo'[j + 1] = mid[j]
        BY <1>9
      <4> QED
        BY <3>1, <3>2, <4>1
    <3> QED
      BY <3>2, <3>3
  <2>7. Live' = managed' \cup ToDo("destroy")'
    BY <1>1, <1>2, <1>13, <1>18 DEF ResetInv
  <2> QED
    BY <2>2, <2>3, <2>4, <2>5, <2>6, <2>7 DEF ResetInv
<1>21. LifeInv'
  <2>1. c \in Coros /\ \A d \in created \ started : d \notin frame \/ d \in Going' => d \notin frame \/ d \in Going \/ d = c
    BY <1>13
  <2>2. \A d \in created \ started : d \notin frame \/ d \in Going' =>
          (\A s \in Slots : handle[s] # d) /\ d \notin ToDo("drop")'
    BY <1>1, <1>3, <1>13, <2>1 DEF LifeInv
  <2> QED
    BY <1>1, <1>2, <1>18, <2>2 DEF LifeInv
<1>22. WakeInv'
  BY <1>1, <1>2, <1>13, <1>18 DEF WakeInv
<1>23. FramesAreThere'
  <2>1. ASSUME NEW i \in Frames', NEW j \in Frames', i # j PROVE todo'[i].c # todo'[j].c
    <3>1. ASSUME NEW k \in Frames', k # 1
          PROVE  k - 1 \in DOMAIN mid /\ todo'[k] = mid[k - 1] /\ todo'[k].c \in Going /\ k \in Nat
      <4>1. PICK l \in DOMAIN todo : todo'[k] = todo[l]
        BY <1>4, <1>10, <3>1 DEF Frames
      <4>2. todo'[k].c \in Going
        BY <3>1, <4>1 DEF Frames, Going
      <4> QED
        BY <1>9, <3>1, <4>2 DEF Frames
    <3>2. todo'[1].c = c
      BY <1>4, <1>9
    <3>3. CASE i = 1 \/ j = 1
      BY <1>3, <2>1, <3>1, <3>2, <3>3
    <3>4. CASE i # 1 /\ j # 1
      <4>1. i - 1 \in DOMAIN mid /\ todo'[i] = mid[i - 1] /\ i \in Nat
        BY <3>1, <3>4
      <4>2. j - 1 \in DOMAIN mid /\ todo'[j] = mid[j - 1] /\ j \in Nat
        BY <3>1, <3>4
      <4>3. i - 1 # j - 1
        BY <2>1, <4>1, <4>2
      <4>4. todo'[i].does \in {"frame", "destroy"} /\ todo'[j].does \in {"frame", "destroy"}
        BY DEF Frames
      <4> QED
        BY <1>7, <4>1, <4>2, <4>3, <4>4 DEF FramesDiffer
    <3> QED
      BY <3>3, <3>4
  <2>2. ASSUME NEW i \in Frames' PROVE todo'[i].c \in frame'
    <3>1. todo'[i].c \in Going'
      BY DEF Going
    <3>2. Going \subseteq frame
      BY <1>1 DEF FramesAreThere, Going
    <3> QED
      BY <1>2, <1>3, <1>13, <3>1, <3>2
  <2>3. todo' # << >>
    BY <1>9
  <2>4. current' # None => current' \in frame' \ complete'
    BY <1>1, <1>2 DEF FramesAreThere
  <2>5. managed' \subseteq frame'
    BY <1>1, <1>2 DEF FramesAreThere
  <2> QED
    BY <2>1, <2>2, <2>3, <2>4, <2>5 DEF FramesAreThere
<1> QED
  BY <1>14, <1>16, <1>17, <1>19, <1>20, <1>21, <1>22, <1>23 DEF HandlesInv

LEMMA DropHandleKeeps ==
  ASSUME HandlesInv, NEW c \in Coros, todo # << >>, Head(todo).does = "drop", Head(todo).c = c,
         DropHandle(c), UNCHANGED <<current, lost>>
  PROVE  HandlesInv'
<1>1. UNCHANGED <<places, count, life, tokens, queue, current, lost>>
  BY DEF DropHandle
<1>2. Tail(todo) \in Seq(Items) /\ Does("unref", c) \in Items /\ Does("frame", c) \in Items
  BY DoesTypes DEF HandlesInv, Types
<1>3. CASE NeverStarts(c)
  <2>1. todo' = (<<Does("frame", c)>> \o <<Does("unref", c)>>) \o Tail(todo)
    BY <1>3 DEF DropHandle, Then
  <2>2. todo' = <<Does("frame", c)>> \o (<<Does("unref", c)>> \o Tail(todo))
    BY <1>2, <2>1
  <2>3. FrameFirst(c)
    BY <2>2 DEF FrameFirst
  <2> QED
    BY <1>1, <1>3, <2>3, DropsFrame
<1>4. CASE ~NeverStarts(c)
  <2>1. todo' = (<< >> \o <<Does("unref", c)>>) \o Tail(todo)
    BY <1>4 DEF DropHandle, Then
  <2>2. todo' = <<Does("unref", c)>> \o Tail(todo)
    BY <2>1
  <2> QED
    BY <1>1, <2>2, DropsPointer
<1> QED
  BY <1>3, <1>4

-----------------------------------------------------------------------------
(* The end of what reset() does, and of an assignment.                       *)
LEMMA ClearKeeps ==
  ASSUME HandlesInv, todo # << >>, Head(todo).does = "clear", Clear, UNCHANGED <<current, lost>>
  PROVE  HandlesInv'
<1> DEFINE h == Head(todo)
           seq == << >>
<1>1. /\ Types /\ 1 \in DOMAIN todo /\ Head(todo) = todo[1] /\ todo \in Seq(Items)
      /\ LifeInv /\ WakeInv /\ ResetInv /\ count \in [Coros -> Int] /\ IsFiniteSet(queue)
  BY DEF HandlesInv, Types
<1>2. /\ UNCHANGED <<handle, awaits, suspended, frame, data, created, started, complete, parent,
                     managed, tokens, current>>
      /\ queue' = {}
      /\ count' = [d \in Coros |-> count[d] - Resumes(queue, d)]
      /\ todo' = seq \o Tail(todo)
  BY DEF Clear, places, life, Resumes, Then
<1>3. /\ seq \in Seq(Items) /\ Plain(seq) /\ \A d : Given(seq, d) = 0
  BY GivenShort DEF Plain
<1> HIDE DEF seq
<1>4. /\ todo' \in Seq(Items)
      /\ Going' = Going /\ ~Resetting'
      /\ \A i \in DOMAIN todo' : \/ \E j \in DOMAIN seq : todo'[i] = seq[j]
                                 \/ \E k \in DOMAIN todo : k # 1 /\ todo'[i] = todo[k]
      /\ \A d \in Coros : Given(todo', d) = Given(seq, d) + Given(todo, d) - Gives(h, d)
  BY <1>2, <1>3, Unwound
<1> HIDE DEF h
<1>5. h.does = "clear" /\ \A d : Gives(h, d) = 0
  BY DEF h, Gives
<1>6. \A k \in DOMAIN todo : k # 1 => \E i \in DOMAIN todo' : todo'[i] = todo[k]
  <2>1. FollowsFrom(todo', seq, todo)
    BY <1>1, <1>2, <1>3, Continues, Zenon
  <2> QED
    BY <2>1 DEF FollowsFrom
(* Everything is destroyed by now.                                           *)
<1>7. Resetting /\ current = None /\ managed = {} /\ Live = {}
  <2>1. Resetting
    BY <1>1 DEF Resetting
  <2>2. ASSUME NEW i \in DOMAIN todo, todo[i].does = "destroy" PROVE FALSE
    <3>1. PICK j \in DOMAIN todo : j > i /\ todo[j].does = "clear"
      BY <1>1, <2>2 DEF ResetInv
    <3>2. j = 1
      BY <1>1, <3>1 DEF ResetInv
    <3>3. i \in Nat /\ i >= 1
      BY <1>1
    <3> QED
      BY <3>1, <3>2, <3>3
  <2>3. ToDo("destroy") = {}
    BY <2>2 DEF ToDo
  <2> QED
    BY <1>1, <2>1, <2>3 DEF ResetInv
<1>8. Types'
  <2>1. \A d \in Coros : Resumes(queue, d) \in Nat
    BY <1>1, ResumesType
  <2>2. count' \in [Coros -> Int]
    BY <1>1, <1>2, <2>1
  <2>3. IsFiniteSet(queue')
    BY <1>2, FS_EmptySet
  <2> QED
    BY <1>1, <1>2, <1>4, <2>2, <2>3 DEF Types
<1>9. ASSUME NEW d \in Coros
      PROVE  count'[d] = References(d)' /\ (count[d] > 0 <=> count'[d] > 0)
  <2>1. TermsAre(d) /\ TermsAre(d)' /\ Grouped(d) /\ Grouped(d)' /\ count[d] = References(d)
    BY <1>1, <1>8, Before, After, TermsNow, TermsNext DEF HandlesInv, CountsReferences
  <2>2. Resumes({}, d) = 0
    BY FS_EmptySet DEF Resumes
  <2>3. In(d, managed) \in Nat /\ In(d, frame) \in Nat /\ In(d, suspended) \in Nat /\ Same(current, d) \in Nat
    BY DEF In, Same
  <2>4. Ties(d)' = Ties(d) - Resumes(queue, d)
    <3> DEFINE m == In(d, managed)
               w == Waits(tokens, d)
               q == Resumes(queue, d)
               p == Holders(parent, d)
    <3>1. m \in Nat /\ w \in Nat /\ q \in Nat /\ p \in Nat
      BY <2>1, <2>3 DEF TermsAre
    <3>2. Ties(d) = m + w + q + p /\ Ties(d)' = m + w + 0 + p
      BY <1>2, <2>2 DEF Ties
    <3> HIDE DEF m, w, q, p
    <3>3. Ties(d)' = Ties(d) - q
      BY <3>1, <3>2
    <3> QED
      BY <3>3 DEF q
  <2>5. Given(todo', d) = Given(todo, d)
    <3>1. Given(todo', d) = 0 + Given(todo, d) - 0 /\ Given(todo, d) \in Nat
      BY <1>3, <1>4, <1>5, <2>1 DEF TermsAre
    <3> QED
      BY <3>1
  <2>6. Places(d)' = Places(d)
    BY <1>2 DEF Places
  <2>7. count'[d] = count[d] - Resumes(queue, d)
    BY <1>2
  <2>8. count'[d] = References(d)'
    <3> DEFINE k == Holders(handle, d)
               P == Places(d)
               T == Ties(d)
               T1 == Ties(d)'
               g == Given(todo, d)
               q == Resumes(queue, d)
               e == Same(current, d)
    <3>1. k \in Int /\ P \in Int /\ T \in Int /\ T1 \in Int /\ g \in Int /\ q \in Int /\ e \in Int
      BY <2>1 DEF Grouped, TermsAre
    <3>2. /\ count[d] = k + g + P + T + 2 * e
          /\ References(d)' = k + g + P + T1 + 2 * e
          /\ count'[d] = count[d] - q /\ T1 = T - q
      BY <1>2, <2>1, <2>4, <2>5, <2>6, <2>7 DEF Grouped
    <3> HIDE DEF k, P, T, T1, g, q, e
    <3> QED
      BY <3>1, <3>2
  <2>9. count[d] \in Nat /\ Resumes(queue, d) \in Nat
    BY <1>1, <2>1, InUse DEF HandlesInv, TermsAre
  <2>10. CASE Resumes(queue, d) = 0
    BY <2>7, <2>8, <2>9, <2>10
  <2>11. CASE Resumes(queue, d) # 0
    <3>1. PICK t \in queue : t.to = d
      BY <1>1, <2>11, ResumesType
    <3>2. PICK j \in DOMAIN todo : j > 1 /\ todo[j].does = "unref" /\ todo[j].c = d
      BY <1>1, <3>1 DEF ResetInv
    <3>3. PICK i \in DOMAIN todo' : todo'[i] = todo[j]
      BY <1>6, <3>2
    <3>4. i \in Givers(todo', d)
      BY <3>2, <3>3 DEF Givers
    <3>5. Given(todo', d) # 0 /\ Given(todo', d) \in Nat
      BY <1>4, <3>4, GivenType
    <3>6. Places(d) \in Nat
      <4>1. Holders(awaits, d) \in Nat
        BY <2>1 DEF TermsAre
      <4> QED
        BY <2>3, <4>1 DEF Places
    <3>7. Ties(d)' \in Nat
      <4>1. Waits(tokens', d) \in Nat /\ Resumes(queue', d) \in Nat /\ Holders(parent', d) \in Nat
        BY <2>1 DEF TermsAre
      <4>2. In(d, managed') \in Nat
        BY DEF In
      <4>3. Ties(d)' = In(d, managed') + Waits(tokens', d) + Resumes(queue', d) + Holders(parent', d)
        BY DEF Ties
      <4> QED
        BY <4>1, <4>2, <4>3
    <3>8. References(d)' > 0
      <4>1. Holders(handle', d) \in Nat
        BY <2>1 DEF TermsAre
      <4>2. References(d)' = Holders(handle', d) + Given(todo', d) + Places(d) + Ties(d)' + 2 * Same(current, d)
        BY <1>2, <2>1, <2>6 DEF Grouped
      <4> QED
        BY <2>3, <3>5, <3>6, <3>7, <4>1, <4>2
    <3> QED
      BY <2>7, <2>8, <2>9, <3>8
  <2> QED
    BY <2>8, <2>10, <2>11
<1>10. CountsReferences'
  BY <1>2, <1>8, <1>9, SameData DEF HandlesInv
<1>11. Live' = Live
  BY <1>2 DEF Live
<1>12. DOMAIN seq = {}
  BY DEF seq
<1>13. Assigning'
  <2>1. \A k \in DOMAIN todo : todo[k].does # "take"
    BY NoTakes
  <2> QED
    BY <1>4, <1>12, <2>1 DEF Assigning
<1>14. LifeInv'
  <2>1. ToDo("drop")' \subseteq ToDo("drop")
    BY <1>4, <1>12 DEF ToDo
  <2> QED
    BY <1>1, <1>2, <1>4, <1>11, <2>1 DEF LifeInv
<1>15. WakeInv'
  BY <1>1, <1>2, <1>7, <1>11 DEF WakeInv
<1> QED
  BY <1>2, <1>3, <1>5, <1>8, <1>10, <1>11, <1>13, <1>14, <1>15, UnwoundInv DEF h

LEMMA TakeKeeps ==
  ASSUME HandlesInv, todo # << >>, Head(todo).does = "take",
         Take(Head(todo).s, Head(todo).r), Then(<< >>),
         UNCHANGED <<awaits, suspended, frame, data, life, tokens, queue, current, lost>>
  PROVE  HandlesInv'
<1> DEFINE h == Head(todo)
           s == h.s
           r == h.r
           x == handle[r]
           seq == << >>
<1>1. /\ Types /\ 1 \in DOMAIN todo /\ Head(todo) = todo[1] /\ h \in Items /\ todo \in Seq(Items)
      /\ LifeInv /\ WakeInv /\ ResetInv /\ Assigning
      /\ handle \in [Slots -> Maybe] /\ count \in [Coros -> Int] /\ current \in Maybe
  BY DEF HandlesInv, Types
<1>2. s \in Slots /\ r \in Slots /\ x \in Maybe
  BY <1>1, ItemTypes
<1>3. /\ handle' = [handle EXCEPT ![s] = x]
      /\ count' = Ref(count, x, 1)
      /\ todo' = seq \o Tail(todo)
      /\ UNCHANGED <<awaits, suspended, frame, data, created, started, complete, parent,
                     managed, tokens, queue, current>>
  BY DEF Take, Then, life
<1>4. /\ seq \in Seq(Items) /\ Plain(seq) /\ DOMAIN seq = {} /\ \A d : Given(seq, d) = 0
  BY GivenShort DEF Plain
<1>5. /\ handle[s] = None /\ s \in Mine(current)
      /\ \A k \in DOMAIN todo : k # 1 => todo[k].does = "unref"
  BY <1>1 DEF Assigning
<1> HIDE DEF seq
<1>6. /\ todo' \in Seq(Items)
      /\ Going' = Going /\ (Resetting' <=> Resetting)
      /\ \A i \in DOMAIN todo' : \/ \E j \in DOMAIN seq : todo'[i] = seq[j]
                                 \/ \E k \in DOMAIN todo : k # 1 /\ todo'[i] = todo[k]
      /\ \A d \in Coros : Given(todo', d) = Given(seq, d) + Given(todo, d) - Gives(h, d)
  BY <1>3, <1>4, Unwound
<1> HIDE DEF h, s, r, x
<1>7. h.does = "take" /\ \A d : Gives(h, d) = 0
  BY DEF h, Gives
<1>8. Types'
  <2>1. handle' \in [Slots -> Maybe]
    BY <1>1, <1>2, <1>3
  <2>2. count' \in [Coros -> Int]
    BY <1>1, <1>2, <1>3 DEF Ref, Maybe
  <2> QED
    BY <1>1, <1>3, <1>6, <2>1, <2>2 DEF Types
<1>9. ASSUME NEW d \in Coros
      PROVE  count'[d] = References(d)' /\ (count[d] > 0 <=> count'[d] > 0)
  <2>1. Grouped(d) /\ Grouped(d)' /\ count[d] = References(d) /\ count[d] \in Nat
    BY <1>1, <1>8, Before, After, InUse DEF HandlesInv, CountsReferences
  <2>2. Same(x, d) \in Nat
    BY DEF Same
  <2>3. Holders(handle', d) = Holders(handle, d) + Same(x, d)
    <3>1. Holders([handle EXCEPT ![s] = x], d) = Holders(handle, d) - Same(handle[s], d) + Same(x, d)
      BY <1>1, <1>2, HandleChange
    <3>2. Same(handle[s], d) = 0
      BY <1>5, NoneIsNot
    <3>3. Holders(handle, d) \in Int
      BY <2>1 DEF Grouped
    <3>4. \A y, z \in Int : y - 0 + z = y + z
      OBVIOUS
    <3>5. Holders([handle EXCEPT ![s] = x], d) = Holders(handle, d) + Same(x, d)
      BY <2>2, <3>1, <3>2, <3>3, <3>4
    <3> QED
      BY <1>3, <3>5
  <2>4. Given(todo', d) = Given(todo, d)
    <3>1. Given(todo', d) = 0 + Given(todo, d) - 0 /\ Given(todo, d) \in Int
      BY <1>4, <1>6, <1>7, <2>1 DEF Grouped
    <3> QED
      BY <3>1
  <2>5. Places(d)' = Places(d) /\ Ties(d)' = Ties(d)
    BY <1>3 DEF Places, Ties
  <2>6. count'[d] = count[d] + Same(x, d)
    BY <1>1, <1>2, <1>3, <2>1, Names DEF Ref, Same, Maybe
  <2>7. count'[d] = References(d)'
    <3> DEFINE k == Holders(handle, d)
               P == Places(d)
               T == Ties(d)
               g == Given(todo, d)
               a == Same(x, d)
               e == Same(current, d)
    <3>1. k \in Int /\ P \in Int /\ T \in Int /\ g \in Int /\ a \in Int /\ e \in Int
      BY <2>1, <2>2 DEF Grouped
    <3>2. /\ count[d] = k + g + P + T + 2 * e
          /\ References(d)' = (k + a) + g + P + T + 2 * e
          /\ count'[d] = count[d] + a
      BY <1>3, <2>1, <2>3, <2>4, <2>5, <2>6 DEF Grouped
    <3> HIDE DEF k, P, T, g, a, e
    <3> QED
      BY <3>1, <3>2
  <2>8. Same(x, d) # 0 => count[d] > 0
    <3>1. Same(x, d) # 0 => handle[r] = d
      BY DEF Same, x
    <3>2. count[d] = 0 => handle[r] # d
      BY <1>1, <1>2, InUse DEF HandlesInv, Unused
    <3> QED
      BY <2>1, <3>1, <3>2
  <2> QED
    BY <2>1, <2>2, <2>6, <2>7, <2>8
<1>10. CountsReferences'
  BY <1>3, <1>8, <1>9, SameData DEF HandlesInv
<1>11. Live' = Live
  BY <1>3 DEF Live
<1>12. \A i \in DOMAIN todo' : todo'[i].does = "unref"
  BY <1>4, <1>5, <1>6
<1>13. Assigning'
  BY <1>12 DEF Assigning
<1>14. LifeInv'
  <2>1. ToDo("drop")' = {}
    BY <1>12 DEF ToDo
  <2>2. s \in Coros => s \in frame
    BY <1>1, <1>5, Names DEF Mine, LifeInv, WakeInv, Maybe, Slots
  <2>3. \A z \in Slots : handle'[z] \in {handle[z], x}
    BY <1>1, <1>2, <1>3
  <2>4. \A d \in Coros : d \in Slots /\ (handle'[d] # None => d \in frame)
    BY <1>1, <1>2, <1>3, <2>2 DEF LifeInv, Slots
  <2>5. ASSUME NEW d \in created \ started, d \notin frame \/ d \in Going
        PROVE  \A z \in Slots : handle'[z] # d
    <3>1. \A z \in Slots : handle[z] # d
      BY <1>1, <2>5 DEF LifeInv, Types
    <3> QED
      BY <1>2, <2>3, <3>1 DEF x
  <2> QED
    BY <1>1, <1>3, <1>6, <1>11, <2>1, <2>4, <2>5 DEF LifeInv
<1>15. WakeInv'
  BY <1>1, <1>3, <1>6, <1>11 DEF WakeInv
<1> QED
  BY <1>3, <1>4, <1>7, <1>8, <1>10, <1>11, <1>13, <1>14, <1>15, UnwoundInv DEF h

-----------------------------------------------------------------------------
LEMMA InitHolds == Init => HandlesInv
<1> SUFFICES ASSUME Init PROVE HandlesInv
  OBVIOUS
<1>1. Types
  BY FS_EmptySet DEF Init, Types, Slots, Maybe
<1>2. Quiet /\ Live = managed
  BY DEF Init, Quiet, Live
<1>3. ASSUME NEW c \in Coros PROVE count[c] = References(c) /\ (c \in data <=> count[c] > 0)
  <2>1. /\ {s \in DOMAIN handle : handle[s] = c} = {} /\ {p \in Coros : awaits[p] = c} = {}
        /\ {c} \cap frame = {} /\ {c} \cap suspended = {} /\ {c} \cap managed = {}
        /\ {d \in Coros : c \in tokens[d]} = {} /\ {t \in queue : t.to = c} = {}
        /\ {d \in Coros : parent[d] = c} = {} /\ {c} \cap {current} = {}
        /\ {i \in DOMAIN todo : todo[i].c = c /\ todo[i].does \in {"unref", "drop"}} = {}
    BY Names DEF Init
  <2>2. Cardinality({}) = 0
    BY FS_EmptySet
  <2>3. References(c) = 0 + 0 + 0 + 2 * 0 + 0 + 0 + 0 + 0 + 2 * 0 + 0
    BY <2>1, <2>2, Zenon DEF References, Size
  <2> QED
    BY <2>3 DEF Init
<1>4. CountsReferences
  BY <1>3 DEF CountsReferences
<1>5. LifeInv
  BY <1>2 DEF Init, LifeInv, Live
<1>6. WakeInv
  BY <1>2 DEF Init, WakeInv, Live
<1> QED
  BY <1>1, <1>2, <1>4, <1>5, <1>6, QuietInv

(* A use of a handle, by main or by the process that runs.                   *)
LEMMA UsesKeep ==
  ASSUME HandlesInv, NEW a \in Maybe, Uses(a)
  PROVE  HandlesInv'
<1>1. PICK s \in Mine(a) :
        \/ Drop(a, s)
        \/ AwaitComplete(a, s)
        \/ \E moved \in BOOLEAN : Start(a, s, moved) \/ Await(a, s, moved)
        \/ \E r \in Mine(a) : Copy(a, s, r) \/ Move(a, s, r)
        \/ \E c \in Coros, r \in Mine(a) \cup {None}, moved \in BOOLEAN : Create(a, s, c, r, moved)
  BY DEF Uses
<1>2. CASE Drop(a, s)
  <2>1. LetsGo(a, s)
    BY <1>2 DEF Drop, LetsGo
  <2> QED
    BY <2>1, LetsGoKeeps
<1>3. CASE AwaitComplete(a, s)
  <2>1. LetsGo(a, s)
    BY <1>3 DEF AwaitComplete, LetsGo
  <2> QED
    BY <2>1, LetsGoKeeps
<1>4. ASSUME NEW moved \in BOOLEAN, Start(a, s, moved) PROVE HandlesInv'
  BY <1>4, StartKeeps
<1>5. ASSUME NEW moved \in BOOLEAN, Await(a, s, moved) PROVE HandlesInv'
  <2>1. a \in Coros
    BY <1>5 DEF Await, Maybe
  <2> QED
    BY <1>5, <2>1, AwaitKeeps
<1>6. ASSUME NEW r \in Mine(a), Copy(a, s, r) PROVE HandlesInv'
  BY <1>6, CopyKeeps
<1>7. ASSUME NEW r \in Mine(a), Move(a, s, r) PROVE HandlesInv'
  BY <1>7, MoveKeeps
<1>8. ASSUME NEW c \in Coros, NEW r \in Mine(a) \cup {None}, NEW moved \in BOOLEAN,
             Create(a, s, c, r, moved)
      PROVE  HandlesInv'
  BY <1>8, CreateKeeps
<1> QED
  BY <1>1, <1>2, <1>3, <1>4, <1>5, <1>6, <1>7, <1>8

(* The first of the things to do.                                            *)
LEMMA UnwindKeeps ==
  ASSUME HandlesInv, Unwind
  PROVE  HandlesInv'
<1> DEFINE do == Head(todo)
<1>1. /\ todo # << >>
      /\ \/ do.does = "unref" /\ Unref(do.c)
         \/ do.does = "drop" /\ DropHandle(do.c)
         \/ do.does = "frame" /\ DestroyFrame(do.c)
         \/ do.does = "destroy" /\ Destroy(do.c)
         \/ do.does = "clear" /\ Clear
         \/ /\ do.does = "take" /\ Take(do.s, do.r)
            /\ Then(<< >>)
            /\ UNCHANGED <<awaits, suspended, frame, data, life, tokens, queue>>
      /\ UNCHANGED <<current, lost>>
  BY DEF Unwind
<1>2. do \in Items
  BY <1>1 DEF HandlesInv, Types
<1>3. do.does \in {"unref", "drop", "frame", "destroy"} => do.c \in Coros
  BY <1>2, ItemTypes
<1>4. CASE do.does = "unref" /\ Unref(do.c)
  BY <1>1, <1>3, <1>4, UnrefKeeps
<1>5. CASE do.does = "drop" /\ DropHandle(do.c)
  BY <1>1, <1>3, <1>5, DropHandleKeeps
<1>6. CASE do.does = "frame" /\ DestroyFrame(do.c)
  <2>1. FrameGoes(do.c) /\ UNCHANGED <<data, created, started, complete, parent, managed, tokens, queue>>
    BY <1>6 DEF DestroyFrame, life
  <2> QED
    BY <1>1, <1>3, <1>6, <2>1, FrameGoesKeeps
<1>7. CASE do.does = "destroy" /\ Destroy(do.c)
  <2>1. /\ FrameGoes(do.c) /\ complete' = complete \cup {do.c}
        /\ UNCHANGED <<data, created, started, parent, managed, tokens, queue>>
    BY <1>7 DEF Destroy
  <2> QED
    BY <1>1, <1>3, <1>7, <2>1, FrameGoesKeeps
<1>8. CASE do.does = "clear" /\ Clear
  BY <1>1, <1>8, ClearKeeps
<1>9. CASE /\ do.does = "take" /\ Take(do.s, do.r)
           /\ Then(<< >>)
           /\ UNCHANGED <<awaits, suspended, frame, data, life, tokens, queue>>
  BY <1>1, <1>9, TakeKeeps
<1> QED
  BY <1>1, <1>4, <1>5, <1>6, <1>7, <1>8, <1>9

LEMMA StutterKeeps ==
  ASSUME HandlesInv, UNCHANGED vars
  PROVE  HandlesInv'
<1>1. /\ UNCHANGED <<handle, awaits, suspended, frame, data, count, created, started, complete, parent>>
      /\ UNCHANGED <<managed, tokens, queue, current, todo, lost>>
  BY DEF vars, places, life
<1>2. Types'
  BY <1>1 DEF HandlesInv, Types
<1>3. CountsReferences'
  <2>1. \A c \in Coros : References(c)' = References(c)
    BY <1>1, Zenon DEF References, Size
  <2> QED
    BY <1>1, <2>1 DEF HandlesInv, CountsReferences
<1>4. FramesAreThere' /\ Guarded'
  BY <1>1 DEF HandlesInv, FramesAreThere, Guarded, Frames
<1>5. Assigning'
  BY <1>1 DEF HandlesInv, Assigning, Mine
<1>6. Live' = Live /\ Going' = Going /\ (Resetting' <=> Resetting) /\ \A what : ToDo(what)' = ToDo(what)
  BY <1>1 DEF Live, Going, Frames, Resetting, ToDo
<1>7. ResetInv' /\ LifeInv' /\ WakeInv'
  BY <1>1, <1>6 DEF HandlesInv, ResetInv, LifeInv, WakeInv
<1> QED
  BY <1>2, <1>3, <1>4, <1>5, <1>7 DEF HandlesInv

LEMMA NextKeeps == HandlesInv /\ [Next]_vars => HandlesInv'
<1> SUFFICES ASSUME HandlesInv, [Next]_vars PROVE HandlesInv'
  OBVIOUS
<1>1. ASSUME NEW a \in Coros \cup {None}, Uses(a) PROVE HandlesInv'
  BY <1>1, UsesKeep DEF Maybe
<1>2. ASSUME NEW p \in Coros, Pause(p) PROVE HandlesInv'
  BY <1>2, PauseKeeps
<1>3. ASSUME NEW p \in Coros, Return(p) PROVE HandlesInv'
  BY <1>3, ReturnKeeps
<1>4. ASSUME NEW t \in queue, Step(t) PROVE HandlesInv'
  BY <1>4, StepKeeps
<1>5. CASE Reset
  BY <1>5, ResetKeeps
<1>6. CASE Unwind
  BY <1>6, UnwindKeeps
<1>7. CASE UNCHANGED vars
  BY <1>7, StutterKeeps
<1> QED
  BY <1>1, <1>2, <1>3, <1>4, <1>5, <1>6, <1>7 DEF Next

(* Every state the program can reach, also between two destructors of one    *)
(* statement, satisfies the invariant.                                       *)
THEOREM HandlesInvariance == Spec => []HandlesInv
<1>1. Init => HandlesInv
  BY InitHolds
<1>2. HandlesInv /\ [Next]_vars => HandlesInv'
  BY NextKeeps
<1> QED
  BY <1>1, <1>2, PTL DEF Spec

(* memory::ptr counts right: however many coroutines and handles there are,  *)
(* count_ is the number of references at every moment, so that unref() never *)
(* deletes data somebody refers to, and always deletes what nobody does.     *)
THEOREM CountsReferencesHolds == Spec => []CountsReferences
<1>1. HandlesInv => CountsReferences
  BY DEF HandlesInv
<1> QED
  BY <1>1, HandlesInvariance, PTL

(* resume() and destroy() find the frame: no token outlives the frame of the *)
(* process it resumes, and reset(), a return and the last handle of a        *)
(* coroutine that never started never destroy the same frame twice.          *)
THEOREM FramesAreThereHolds == Spec => []FramesAreThere
<1>1. HandlesInv => FramesAreThere
  BY DEF HandlesInv
<1> QED
  BY <1>1, HandlesInvariance, PTL

-----------------------------------------------------------------------------
(* That nothing is left behind needs to know what holds a frame that is not  *)
(* in use: a process that has returned is about to lose its own, and a       *)
(* coroutine that was never started is named by a handle, unless its last    *)
(* one was overwritten.                                                      *)
Idle == frame \ (started \cup Going)

Held(c) == (\E s \in Slots : handle[s] = c) \/ c \in ToDo("drop")

HeldInv ==
  /\ complete \cap frame \subseteq Going
  /\ \A c \in Idle \ lost : Held(c)
  /\ \A i \in DOMAIN todo : todo[i].does = "unref" /\ todo[i].c \in Idle => i = 1

(* Nor do parameters hold one another in a ring before they are started, or  *)
(* parents ever: of any set of them there is one that none of them refers to.*)
Acyclic(refers, S) == \A R \in SUBSET S : R # {} => \E d \in R : \A e \in R : refers[e] # d

NoRings ==
  /\ \A c \in Coros : parent[c] # None => parent[c] \in started
  /\ Acyclic(parent, Coros)
  /\ Acyclic(handle, Coros \ started)

LeakInv == HeldInv /\ NoRings

LEMMA AcyclicKept ==
  ASSUME NEW f, NEW g, NEW S, NEW T \in SUBSET S, Acyclic(f, S), None \notin T,
         \A e \in T : g[e] \in {f[e], None}
  PROVE  Acyclic(g, T)
<1> SUFFICES ASSUME NEW R \in SUBSET T, R # {}
             PROVE  \E d \in R : \A e \in R : g[e] # d
  BY DEF Acyclic
<1>1. PICK d \in R : \A e \in R : f[e] # d
  BY DEF Acyclic
<1> QED
  BY <1>1

(* What c comes to refer to makes no ring as long as nothing refers to c.    *)
LEMMA AcyclicWith ==
  ASSUME NEW f, NEW g, NEW S, NEW T \in SUBSET S, Acyclic(f, S), None \notin T,
         NEW c, \A e \in T : g[e] # c,
         \A e \in T \ {c} : g[e] \in {f[e], None}
  PROVE  Acyclic(g, T)
<1> SUFFICES ASSUME NEW R \in SUBSET T, R # {}
             PROVE  \E d \in R : \A e \in R : g[e] # d
  BY DEF Acyclic
<1>1. CASE c \in R
  BY <1>1
<1>2. CASE c \notin R
  <2>1. PICK d \in R : \A e \in R : f[e] # d
    BY DEF Acyclic
  <2> QED
    BY <1>2, <2>1
<1> QED
  BY <1>1, <1>2

(* A step that starts nothing and gives no new value to a parameter of what  *)
(* is not started, nor a parent to anything.                                 *)
LEMMA NoNewRings ==
  ASSUME NoRings, started' = started,
         \A e \in Coros : parent'[e] \in {parent[e], None},
         \A e \in Coros \ started : handle'[e] \in {handle[e], None}
  PROVE  NoRings'
<1>1. Acyclic(parent', Coros)
  BY AcyclicKept, Names DEF NoRings
<1>2. Acyclic(handle', Coros \ started)
  BY AcyclicKept, Names DEF NoRings
<1> QED
  BY <1>1, <1>2 DEF NoRings

(* A coroutine that a process, or main, starts is nobody's parent yet.       *)
LEMMA BindMakesNoRing ==
  ASSUME HandlesInv, NoRings, NEW a \in Maybe, Acts(a), NEW s \in Mine(a), NEW c \in Coros,
         BindTo(a, c),
         \A x \in Slots : handle'[x] \in {handle[x], None}
  PROVE  NoRings'
<1>1. /\ parent \in [Coros -> Maybe] /\ (a # None => a \in started) /\ None \notin Coros
      /\ \A e \in Coros : parent[e] # None => parent[e] \in started
  BY MineAre, Names DEF HandlesInv, Types, NoRings
<1>2. started' = started \cup {c}
  BY DEF BindTo
<1>3. Acyclic(handle', Coros \ started')
  BY <1>1, <1>2, AcyclicKept DEF NoRings, Slots
<1>4. CASE c \in started
  <2>1. parent' = parent /\ started' = started
    BY <1>2, <1>4 DEF BindTo
  <2> QED
    BY <1>3, <2>1 DEF NoRings
<1>5. CASE c \notin started
  <2>1. parent' = [parent EXCEPT ![c] = a]
    BY <1>5 DEF BindTo
  <2>2. \A e \in Coros : parent'[e] = IF e = c THEN a ELSE parent[e]
    BY <1>1, <2>1
  <2>3. \A e \in Coros : parent'[e] # c
    BY <1>1, <1>5, <2>2
  <2>4. Acyclic(parent', Coros)
    BY <1>1, <2>2, <2>3, AcyclicWith DEF NoRings
  <2>5. \A e \in Coros : parent'[e] # None => parent'[e] \in started'
    BY <1>1, <1>2, <2>2
  <2> QED
    BY <1>3, <2>4, <2>5 DEF NoRings
<1> QED
  BY <1>4, <1>5

(* Steps of the program that leave at most a handle to be dropped.           *)
LEMMA LeavesDrop ==
  ASSUME NEW d \in Maybe, todo' = Drops(d)
  PROVE  /\ Going' = {}
         /\ d # None => d \in ToDo("drop")'
         /\ \A i \in DOMAIN todo' : todo'[i].does # "unref"
<1>1. CASE d = None
  <2>1. todo' = << >>
    BY <1>1 DEF Drops
  <2> QED
    BY <1>1, <2>1 DEF Going, Frames
<1>2. CASE d # None
  <2>1. todo' = <<Does("drop", d)>>
    BY <1>2 DEF Drops
  <2>2. DOMAIN todo' = {1} /\ todo'[1].does = "drop" /\ todo'[1].c = d
    BY <2>1 DEF Does
  <2> QED
    BY <2>2 DEF Going, Frames, ToDo
<1> QED
  BY <1>1, <1>2

LEMMA HeldWhenDropped ==
  ASSUME HandlesInv, HeldInv, todo = << >>, NEW d \in Maybe, todo' = Drops(d),
         frame' \subseteq Coros, complete' \cap frame' \subseteq complete \cap frame,
         \A c \in frame' \ (started' \cup lost') :
           \/ c = d
           \/ \E s \in Slots : handle'[s] = c
           \/ /\ c \in frame \ (started \cup lost)
              /\ \A s \in Slots : handle[s] = c => c = d \/ \E r \in Slots : handle'[r] = c
  PROVE  HeldInv'
<1>1. Going = {} /\ ToDo("drop") = {}
  BY AtRest
<1>2. /\ Going' = {} /\ (d # None => d \in ToDo("drop")')
      /\ \A i \in DOMAIN todo' : todo'[i].does # "unref"
  BY LeavesDrop
<1>3. complete' \cap frame' \subseteq Going'
  BY <1>1 DEF HeldInv
<1>4. ASSUME NEW c \in Idle' \ lost' PROVE (\E s \in Slots : handle'[s] = c) \/ c \in ToDo("drop")'
  <2>1. c \in frame' \ (started' \cup lost')
    BY <1>4 DEF Idle
  <2>2. CASE c = d
    BY <1>2, <2>1, <2>2, Names
  <2>3. CASE c \in frame \ (started \cup lost)
                /\ \A s \in Slots : handle[s] = c => c = d \/ \E r \in Slots : handle'[r] = c
    <3>1. \E s \in Slots : handle[s] = c
      BY <1>1, <2>3 DEF HeldInv, Idle, Held
    <3> QED
      BY <2>2, <2>3, <3>1
  <2> QED
    BY <2>1, <2>2, <2>3
<1> QED
  BY <1>2, <1>3, <1>4 DEF HeldInv, Held

LEMMA LetsGoLeaves ==
  ASSUME HandlesInv, LeakInv, NEW a \in Maybe, NEW s \in Mine(a), LetsGo(a, s)
  PROVE  LeakInv'
<1>1. todo = << >> /\ s \in Slots /\ handle[s] \in Maybe /\ handle \in [Slots -> Maybe] /\ frame \subseteq Coros
  BY MineAre DEF LetsGo, Acts, HandlesInv, Types
<1>2. /\ handle' = [handle EXCEPT ![s] = None] /\ todo' = Drops(handle[s])
      /\ UNCHANGED <<frame, started, complete, parent, lost>>
  BY DEF LetsGo, life
<1>3. \A x \in Slots : handle'[x] = IF x = s THEN None ELSE handle[x]
  BY <1>1, <1>2
<1>4. HeldInv'
  <2>1. \A c \in frame' \ (started' \cup lost') : \A x \in Slots : handle[x] = c =>
          c = handle[s] \/ \E r \in Slots : handle'[r] = c
    BY <1>3
  <2> QED
    BY <1>1, <1>2, <2>1, HeldWhenDropped DEF LeakInv
<1>5. NoRings'
  BY <1>1, <1>2, <1>3, NoNewRings DEF LeakInv, Slots
<1> QED
  BY <1>4, <1>5 DEF LeakInv

LEMMA MoveLeaves ==
  ASSUME HandlesInv, LeakInv, NEW a \in Maybe, NEW s \in Mine(a), NEW r \in Mine(a), Move(a, s, r)
  PROVE  LeakInv'
<1>1. /\ todo = << >> /\ s \in Slots /\ r \in Slots /\ handle \in [Slots -> Maybe] /\ frame \subseteq Coros
      /\ \A x \in {s, r} : x \in Coros => x \in started
  BY MineAre DEF Move, Acts, HandlesInv, Types, Live
<1>2. /\ handle' = [handle EXCEPT ![s] = handle[r], ![r] = handle[s]] /\ todo' = todo
      /\ UNCHANGED <<frame, started, complete, parent, lost>>
  BY DEF Move, life
<1>3. /\ \A x \in Slots : x \notin {s, r} => handle'[x] = handle[x]
      /\ {handle[s], handle[r]} = {handle'[s], handle'[r]}
  BY <1>1, <1>2
<1>4. HeldInv'
  <2>1. \A c \in frame' \ (started' \cup lost') : \A x \in Slots : handle[x] = c =>
          \E y \in Slots : handle'[y] = c
    BY <1>1, <1>3
  <2>2. todo' = Drops(None) /\ None \in Maybe
    BY <1>1, <1>2 DEF Drops, Maybe
  <2> QED
    BY <1>1, <1>2, <2>1, <2>2, HeldWhenDropped DEF LeakInv
<1>5. NoRings'
  BY <1>1, <1>2, <1>3, NoNewRings DEF LeakInv, Slots
<1> QED
  BY <1>4, <1>5 DEF LeakInv

LEMMA CreateLeaves ==
  ASSUME HandlesInv, LeakInv, NEW a \in Maybe, NEW s \in Mine(a), NEW c \in Coros,
         NEW r \in Mine(a) \cup {None}, NEW moved \in BOOLEAN, Create(a, s, c, r, moved)
  PROVE  LeakInv'
<1> DEFINE arg == Argument(r)
           P == Passed(r, moved)
<1>1. /\ todo = << >> /\ s \in Slots /\ c \in Slots /\ c \notin created /\ frame \subseteq Coros
      /\ handle \in [Slots -> Maybe] /\ (moved => r # None) /\ None \notin Slots
      /\ r # None => r \in Slots
      /\ s \in Coros => s \in started
  BY MineAre, Names DEF Create, Acts, HandlesInv, Types, Slots, Live
<1>2. /\ c \notin data /\ Unused(c) /\ c \notin started /\ c \notin complete
      /\ s # c /\ handle[c] = None
  BY <1>1, InUse, Names DEF HandlesInv, LifeInv
<1>3. /\ P \in [Slots -> Maybe] /\ (\A x \in Slots : P[x] \in {None, handle[x]})
      /\ arg \in Maybe /\ arg # c
      /\ \A x \in Slots : handle[x] = P[x] \/ handle[x] = arg
  BY <1>1, <1>2 DEF Argument, Passed, Unused, Maybe
<1>4. /\ handle' = [P EXCEPT ![c] = arg, ![s] = c] /\ todo' = Drops(P[s])
      /\ frame' = frame \cup {c} /\ UNCHANGED <<started, complete, parent, lost>>
  BY DEF Create
<1> HIDE DEF P, arg
<1>5. /\ \A x \in Slots : x \notin {c, s} => handle'[x] = P[x]
      /\ handle'[c] = arg /\ handle'[s] = c
  BY <1>1, <1>2, <1>3, <1>4
<1>6. HeldInv'
  <2>1. \A d \in frame \ (started \cup lost) : \A x \in Slots : handle[x] = d =>
          d = P[s] \/ \E y \in Slots : handle'[y] = d
    <3> SUFFICES ASSUME NEW d \in frame, NEW x \in Slots, handle[x] = d
                 PROVE  d = P[s] \/ \E y \in Slots : handle'[y] = d
      OBVIOUS
    <3>1. x # c
      BY <1>1, <1>2, Names
    <3> QED
      BY <1>1, <1>3, <1>5, <3>1
  <2>2. \A d \in frame' \ (started' \cup lost') :
          \/ \E y \in Slots : handle'[y] = d
          \/ d \in frame \ (started \cup lost)
    BY <1>1, <1>4, <1>5
  <2>3. frame' \subseteq Coros /\ complete' \cap frame' \subseteq complete \cap frame /\ P[s] \in Maybe
    BY <1>1, <1>2, <1>3, <1>4
  <2> QED
    BY <1>1, <1>4, <2>1, <2>2, <2>3, HeldWhenDropped DEF LeakInv
<1>7. NoRings'
  <2>1. \A e \in Coros \ started : handle'[e] # c
    BY <1>1, <1>2, <1>3, <1>5, Names DEF Unused, Slots
  <2>2. \A e \in (Coros \ started) \ {c} : handle'[e] \in {handle[e], None}
    BY <1>1, <1>3, <1>5 DEF Slots
  <2>3. Acyclic(handle', Coros \ started)
    <3> DEFINE S == Coros \ started
    <3>1. /\ S \in SUBSET S /\ None \notin S /\ Acyclic(handle, S)
          /\ \A e \in S : handle'[e] # c
          /\ \A e \in S \ {c} : handle'[e] \in {handle[e], None}
      BY <2>1, <2>2, Names DEF LeakInv, NoRings
    <3> HIDE DEF S
    <3>2. Acyclic(handle', S)
      BY <3>1, AcyclicWith
    <3> QED
      BY <3>2 DEF S
  <2> QED
    BY <1>4, <2>3 DEF LeakInv, NoRings
<1> QED
  BY <1>6, <1>7 DEF LeakInv

LEMMA StartLeaves ==
  ASSUME HandlesInv, LeakInv, NEW a \in Maybe, NEW s \in Mine(a), NEW moved \in BOOLEAN,
         Start(a, s, moved)
  PROVE  LeakInv'
<1> DEFINE c == handle[s]
           d == IF moved THEN c ELSE None
<1>1. /\ Acts(a) /\ todo = << >> /\ s \in Slots /\ c \in Coros /\ d \in Maybe /\ BindTo(a, c)
      /\ handle \in [Slots -> Maybe] /\ frame \subseteq Coros
      /\ handle' = IF moved THEN [handle EXCEPT ![s] = None] ELSE handle
      /\ UNCHANGED <<frame, complete, lost>>
  BY MineAre DEF Start, Acts, HandlesInv, Types, Maybe
<1>2. todo' = Drops(d)
  BY <1>1, Names DEF Start, Drops, Maybe
<1>3. /\ \A x \in Slots : handle'[x] \in {handle[x], None}
      /\ \A x \in Slots : handle'[x] = handle[x] \/ handle[x] = d
  BY <1>1
<1>4. started' = started \cup {c}
  BY <1>1 DEF BindTo
<1> HIDE DEF c, d
<1>5. HeldInv'
  <2>1. \A e \in frame' \ (started' \cup lost') : e \in frame \ (started \cup lost)
    BY <1>1, <1>4
  <2>2. \A e : \A x \in Slots : handle[x] = e => e = d \/ \E r \in Slots : handle'[r] = e
    BY <1>3
  <2> QED
    BY <1>1, <1>2, <2>1, <2>2, HeldWhenDropped DEF LeakInv
<1>6. NoRings'
  BY <1>1, <1>3, BindMakesNoRing DEF LeakInv
<1> QED
  BY <1>5, <1>6 DEF LeakInv

LEMMA AwaitLeaves ==
  ASSUME HandlesInv, LeakInv, NEW p \in Coros, NEW s \in Mine(p), NEW moved \in BOOLEAN,
         Await(p, s, moved)
  PROVE  LeakInv'
<1> DEFINE c == handle[s]
<1>1. /\ Acts(p) /\ p \in Maybe /\ todo = << >> /\ s \in Slots /\ c \in Coros /\ BindTo(p, c)
      /\ handle \in [Slots -> Maybe] /\ frame \subseteq Coros
      /\ handle' = IF moved THEN [handle EXCEPT ![s] = None] ELSE handle
      /\ UNCHANGED <<frame, complete, lost>>
  BY MineAre DEF Await, Acts, HandlesInv, Types, Maybe
<1>2. todo' = Drops(None) /\ None \in Maybe
  BY DEF Await, Suspend, Drops, Maybe
<1>3. /\ \A x \in Slots : handle'[x] \in {handle[x], None}
      /\ \A x \in Slots : handle'[x] = handle[x] \/ handle[x] = c
  BY <1>1
<1>4. started' = started \cup {c}
  BY <1>1 DEF BindTo
<1> HIDE DEF c
<1>5. HeldInv'
  <2>1. \A e \in frame' \ (started' \cup lost') : e \in frame \ (started \cup lost) /\ e # c
    BY <1>1, <1>4
  <2>2. \A e : e # c => \A x \in Slots : handle[x] = e => \E r \in Slots : handle'[r] = e
    BY <1>3
  <2> QED
    BY <1>1, <1>2, <2>1, <2>2, HeldWhenDropped DEF LeakInv
<1>6. NoRings'
  BY <1>1, <1>3, BindMakesNoRing DEF LeakInv
<1> QED
  BY <1>5, <1>6 DEF LeakInv

(* Steps that leave handles, parents and what is started as they are.        *)
LEMMA NothingLeaves ==
  ASSUME HandlesInv, LeakInv, todo = << >>, NEW d \in Maybe, todo' = Drops(d),
         UNCHANGED <<handle, frame, started, complete, parent, lost>>
  PROVE  LeakInv'
<1>1. frame \subseteq Coros
  BY DEF HandlesInv, Types
<1>2. HeldInv'
  BY <1>1, HeldWhenDropped DEF LeakInv
<1>3. NoRings'
  BY NoNewRings DEF LeakInv
<1> QED
  BY <1>2, <1>3 DEF LeakInv

LEMMA PauseLeaves ==
  ASSUME HandlesInv, LeakInv, NEW p \in Coros, Pause(p)
  PROVE  LeakInv'
<1>1. /\ todo = << >> /\ todo' = Drops(None) /\ None \in Maybe
      /\ UNCHANGED <<handle, frame, started, complete, parent, lost>>
  BY DEF Pause, Suspend, Acts, Drops, Maybe, life
<1> QED
  BY <1>1, NothingLeaves

LEMMA StepLeaves ==
  ASSUME HandlesInv, LeakInv, NEW t \in queue, Step(t)
  PROVE  LeakInv'
<1>1. /\ todo = << >> /\ todo' = Drops(awaits[t.to]) /\ awaits[t.to] \in Maybe
      /\ UNCHANGED <<handle, frame, started, complete, parent, lost>>
  BY DEF Step, Acts, HandlesInv, Types, life
<1> QED
  BY <1>1, NothingLeaves

(* What a sequence that is put together consists of.                         *)
Consists(seq, A, B) ==
  /\ seq \in Seq(Items)
  /\ \A i \in DOMAIN seq : (\E j \in DOMAIN A : seq[i] = A[j]) \/ (\E j \in DOMAIN B : seq[i] = B[j])
  /\ \A j \in DOMAIN A : \E i \in DOMAIN seq : seq[i] = A[j]
  /\ \A j \in DOMAIN B : \E i \in DOMAIN seq : seq[i] = B[j]

LEMMA Consisting ==
  ASSUME NEW A \in Seq(Items), NEW B \in Seq(Items)
  PROVE  Consists(A \o B, A, B)
<1> DEFINE seq == A \o B
           n == Len(A)
           m == Len(B)
<1>1. /\ seq \in Seq(Items) /\ Len(seq) = n + m
      /\ \A i \in 1..n : seq[i] = A[i]
      /\ \A i \in 1..m : seq[n + i] = B[i]
  BY Joined
<1>2. n \in Nat /\ m \in Nat /\ DOMAIN A = 1..n /\ DOMAIN B = 1..m
  OBVIOUS
<1> HIDE DEF seq, n, m
<1>3. DOMAIN seq = 1..(n + m)
  BY <1>1, <1>2
<1>4. ASSUME NEW i \in DOMAIN seq
      PROVE  (\E j \in DOMAIN A : seq[i] = A[j]) \/ (\E j \in DOMAIN B : seq[i] = B[j])
  <2>1. CASE i \in 1..n
    BY <1>1, <1>2, <2>1
  <2>2. CASE i \notin 1..n
    <3>1. i - n \in 1..m /\ n + (i - n) = i
      BY <1>2, <1>3, <2>2
    <3> QED
      BY <1>1, <1>2, <3>1
  <2> QED
    BY <2>1, <2>2
<1>5. \A j \in 1..n : j \in DOMAIN seq
  BY <1>2, <1>3
<1>6. \A j \in 1..m : n + j \in DOMAIN seq
  BY <1>2, <1>3
<1>7. Consists(seq, A, B)
  BY <1>1, <1>2, <1>4, <1>5, <1>6 DEF Consists
<1> QED
  BY <1>7 DEF seq

(* A return, and a reset: what is let go of has been started.                *)
LEMMA ReturnLeaves ==
  ASSUME HandlesInv, LeakInv, NEW p \in Coros, Return(p)
  PROVE  LeakInv'
<1>1. /\ Acts(p) /\ todo = << >> /\ p \in started /\ Going = {} /\ ToDo("drop") = {}
      /\ complete' = complete \cup {p}
      /\ UNCHANGED <<handle, frame, started, parent, lost>>
  BY Running, AtRest DEF Return, places
<1> DEFINE A == <<Does("frame", p)>>
           U == Unrefs(<<p, p>>)
<1>2. /\ A \in Seq(Items) /\ U \in Seq(Items) /\ todo' = A \o U
      /\ 1 \in DOMAIN A /\ A[1].does = "frame" /\ A[1].c = p
      /\ \A i \in DOMAIN A : A[i].c = p
      /\ \A i \in DOMAIN U : U[i].c = p
  <2>1. Does("frame", p) \in Items /\ Does("unref", p) \in Items
    BY DoesTypes
  <2>2. A \in Seq(Items) /\ U \in Seq(Items)
    BY <2>1 DEF Unrefs
  <2>3. todo' = A \o U
    BY DEF Return
  <2> QED
    BY <2>2, <2>3 DEF Does, Unrefs
<1> HIDE DEF A, U
<1>3. Consists(todo', A, U)
  BY <1>2, Consisting, Zenon
<1>4. p \in Going' /\ \A i \in DOMAIN todo' : todo'[i].c = p
  <2>1. PICK i \in DOMAIN todo' : todo'[i] = A[1]
    BY <1>2, <1>3 DEF Consists
  <2>2. i \in Frames' /\ todo'[i].c = p
    BY <1>2, <2>1 DEF Frames
  <2>3. p \in Going'
    BY <2>2 DEF Going
  <2> QED
    BY <1>2, <1>3, <2>3 DEF Consists
<1>5. HeldInv'
  BY <1>1, <1>4 DEF LeakInv, HeldInv, Idle, Held
<1>6. NoRings'
  BY <1>1, NoNewRings DEF LeakInv
<1> QED
  BY <1>5, <1>6 DEF LeakInv

LEMMA ResetLeaves ==
  ASSUME HandlesInv, LeakInv, Reset
  PROVE  LeakInv'
<1>1. /\ todo = << >> /\ Going = {} /\ ToDo("drop") = {} /\ managed \subseteq started
      /\ IsFiniteSet(managed) /\ managed \subseteq Coros
      /\ UNCHANGED <<handle, frame, started, complete, parent, lost>>
  BY AtRest, FinitelyMany, FS_Subset DEF Reset, Acts, HandlesInv, Types, Live, places
<1>2. PICK order \in SetToSeqs(managed) :
        todo' = [i \in DOMAIN order |-> Does("destroy", order[i])] \o <<Does("clear", None)>> \o Unrefs(order)
  BY DEF Reset
<1>3. order \in Seq(managed)
  BY <1>1, <1>2, Enumerates
<1> DEFINE A == [i \in DOMAIN order |-> Does("destroy", order[i])]
           C == <<Does("clear", None)>>
           U == Unrefs(order)
<1>4. /\ A \in Seq(Items) /\ C \in Seq(Items) /\ U \in Seq(Items)
      /\ \A i \in DOMAIN A : A[i].does # "unref"
      /\ \A i \in DOMAIN C : C[i].does # "unref"
      /\ \A i \in DOMAIN U : U[i].c \in managed
  <2>1. \A i \in DOMAIN order : order[i] \in managed /\ order[i] \in Coros
    BY <1>1, <1>3
  <2>2. /\ \A i \in DOMAIN order : Does("destroy", order[i]) \in Items /\ Does("unref", order[i]) \in Items
        /\ Does("clear", None) \in Items
    BY <2>1, DoesTypes DEF Does, Items
  <2>3. A \in Seq(Items) /\ U \in Seq(Items) /\ C \in Seq(Items)
    BY <1>3, <2>2 DEF Unrefs
  <2> QED
    BY <2>1, <2>3 DEF Does, Unrefs
<1>5. todo' = (A \o C) \o U
  BY <1>2
<1> HIDE DEF A, C, U
<1>6. ASSUME NEW i \in DOMAIN todo', todo'[i].does = "unref"
      PROVE  todo'[i].c \in started
  <2> DEFINE B == A \o C
  <2>1. B \in Seq(Items) /\ todo' = B \o U
    BY <1>4, <1>5
  <2>2. Consists(B, A, C)
    BY <1>4, Consisting, Zenon
  <2> HIDE DEF B
  <2>3. Consists(todo', B, U)
    BY <1>4, <2>1, Consisting, Zenon
  <2>4. \A j \in DOMAIN B : B[j].does # "unref"
    BY <1>4, <2>2 DEF Consists
  <2> QED
    BY <1>1, <1>4, <1>6, <2>3, <2>4 DEF Consists
<1>7. HeldInv'
  BY <1>1, <1>6 DEF LeakInv, HeldInv, Idle, Held
<1>8. NoRings'
  BY <1>1, NoNewRings DEF LeakInv
<1> QED
  BY <1>7, <1>8 DEF LeakInv

(* Of a frame that was never started, the promise and the handles are what   *)
(* refers to the data, and an unref() that is the next thing done.           *)
LEMMA OnlyHandles ==
  ASSUME HandlesInv, LeakInv, NEW c \in Idle
  PROVE  /\ count[c] = Holders(handle, c) + Given(todo, c) + 1
         /\ Holders(handle, c) \in Nat /\ Given(todo, c) \in Nat
         /\ Holders(handle, c) = 0 <=> \A s \in Slots : handle[s] # c
<1>1. /\ Types /\ c \in Coros /\ c \in frame /\ c \notin started /\ c \notin complete
      /\ None \notin Coros
  BY Names DEF HandlesInv, Types, Idle, LifeInv
<1>2. /\ \A d \in Coros : awaits[d] # c /\ parent[d] # c /\ c \notin tokens[d]
      /\ c \notin suspended /\ c \notin managed /\ current # c
      /\ \A t \in queue : t.to # c
  BY <1>1 DEF HandlesInv, LifeInv, WakeInv, ResetInv, Live, LeakInv, NoRings
<1>3. /\ Holders(awaits, c) = 0 /\ Holders(parent, c) = 0 /\ Waits(tokens, c) = 0
      /\ Resumes(queue, c) = 0 /\ Holders(handle, c) \in Nat /\ Given(todo, c) \in Nat
  BY <1>1, <1>2, Terms
<1>4. /\ In(c, frame) = 1 /\ In(c, suspended) = 0 /\ In(c, managed) = 0 /\ Same(current, c) = 0
  BY <1>1, <1>2 DEF In, Same
<1>5. count[c] = Holders(handle, c) + 0 + 1 + 2 * 0 + 0 + 0 + 0 + 0 + 2 * 0 + Given(todo, c)
  BY <1>1, <1>3, <1>4, ReferencesAre DEF HandlesInv, CountsReferences
<1> QED
  BY <1>1, <1>3, <1>5, Terms

(* Two that hold c: one of them is not the one that was picked.              *)
LEMMA AnotherHandle ==
  ASSUME handle \in [Slots -> Maybe], NEW c \in Coros, NEW s \in Slots, Holders(handle, c) > 1
  PROVE  \E r \in Slots : r # s /\ handle[r] = c
<1> SUFFICES ASSUME \A r \in Slots : r # s => handle[r] # c PROVE FALSE
  OBVIOUS
<1>1. {r \in DOMAIN handle : handle[r] = c} \subseteq {s}
  OBVIOUS
<1>2. Cardinality({s}) = 1 /\ IsFiniteSet({s})
  BY FS_Singleton
<1>3. Holders(handle, c) <= 1
  BY <1>1, <1>2, FS_Subset DEF Holders
<1>4. Holders(handle, c) \in Nat
  BY HoldersType, PlacesFinite
<1> QED
  BY <1>3, <1>4

LEMMA AnotherGiver ==
  ASSUME Types, NEW c \in Coros, NEW k \in DOMAIN todo, Given(todo, c) > 1
  PROVE  \E i \in DOMAIN todo : i # k /\ i \in Givers(todo, c)
<1> SUFFICES ASSUME \A i \in DOMAIN todo : i # k => i \notin Givers(todo, c) PROVE FALSE
  OBVIOUS
<1>1. Givers(todo, c) \subseteq {k}
  BY DEF Givers
<1>2. Cardinality({k}) = 1 /\ IsFiniteSet({k})
  BY FS_Singleton
<1>3. Given(todo, c) <= 1
  BY <1>1, <1>2, FS_Subset DEF Given
<1>4. Given(todo, c) \in Nat
  BY Terms
<1> QED
  BY <1>3, <1>4

LEMMA CopyLeaves ==
  ASSUME HandlesInv, LeakInv, NEW a \in Maybe, NEW s \in Mine(a), NEW r \in Mine(a), Copy(a, s, r)
  PROVE  LeakInv'
<1> DEFINE d == handle[s]
           take == [does |-> "take", c |-> None, s |-> s, r |-> r]
<1>1. /\ Types /\ todo = << >> /\ s \in Slots /\ r \in Slots /\ d \in Maybe
      /\ handle \in [Slots -> Maybe] /\ handle' = [handle EXCEPT ![s] = None]
      /\ lost' = lost \cup {c \in {d} \ {None} : LastHandle(c)}
      /\ UNCHANGED <<frame, started, complete, parent>>
  BY MineAre DEF Copy, Acts, HandlesInv, Types, life
<1>2. Going = {} /\ ToDo("drop") = {} /\ \A c : Given(todo, c) = 0
  BY <1>1, AtRest
<1>3. \A i \in DOMAIN todo' : todo'[i].does = "unref" => i = 1
  <2>1. CASE d = None
    <3>1. todo' = << >> \o <<take>>
      BY <2>1 DEF Copy
    <3>2. todo' = <<take>>
      BY <3>1
    <3> QED
      BY <3>2
  <2>2. CASE d # None
    <3> DEFINE u == Does("unref", d)
    <3>1. todo' = <<u>> \o <<take>>
      BY <2>2 DEF Copy
    <3>2. take.does = "take"
      OBVIOUS
    <3> HIDE DEF u, take
    <3>3. DOMAIN todo' = 1..2 /\ todo'[2] = take
      BY <3>1
    <3> QED
      BY <3>2, <3>3
  <2> QED
    BY <2>1, <2>2
<1>4. ASSUME NEW c \in Idle' \ lost' PROVE Held(c)'
  <2>1. c \in Idle /\ c \notin lost /\ c \in Coros /\ c \in frame \ started
    BY <1>1, <1>2, <1>4 DEF Idle, Types
  <2>2. PICK x \in Slots : handle[x] = c
    BY <1>2, <2>1 DEF LeakInv, HeldInv, Held
  <2>3. CASE c # d
    BY <1>1, <2>2, <2>3 DEF Held
  <2>4. CASE c = d
    <3>1. count[c] # 2
      BY <1>1, <1>4, <2>1, <2>4, Names DEF LastHandle
    <3>2. /\ count[c] = Holders(handle, c) + Given(todo, c) + 1
          /\ Holders(handle, c) \in Nat /\ Holders(handle, c) # 0
      BY <2>1, <2>2, OnlyHandles
    <3>3. Holders(handle, c) > 1
      BY <1>2, <3>1, <3>2
    <3>4. PICK y \in Slots : y # s /\ handle[y] = c
      BY <1>1, <2>1, <3>3, AnotherHandle
    <3> QED
      BY <1>1, <3>4 DEF Held
  <2> QED
    BY <2>3, <2>4
<1>5. HeldInv'
  <2>1. complete' \cap frame' \subseteq Going'
    BY <1>1, <1>2 DEF LeakInv, HeldInv
  <2> QED
    BY <1>3, <1>4, <2>1 DEF HeldInv
<1>6. NoRings'
  BY <1>1, NoNewRings DEF LeakInv, Slots
<1> QED
  BY <1>5, <1>6 DEF LeakInv

-----------------------------------------------------------------------------
(* Destructors: what is left to do after the first thing is done.            *)
LEMMA Remains ==
  ASSUME HandlesInv, todo # << >>, NEW seq \in Seq(Items), todo' = seq \o Tail(todo)
  PROVE  /\ 1 \in DOMAIN todo /\ Head(todo) = todo[1]
         /\ \A k \in DOMAIN todo : k # 1 => \E i \in DOMAIN todo' : todo'[i] = todo[k]
         /\ \A i \in DOMAIN seq : i \in DOMAIN todo' /\ todo'[i] = seq[i]
         /\ \A i \in DOMAIN todo' : \/ i \in DOMAIN seq /\ todo'[i] = seq[i]
                                    \/ \E k \in DOMAIN todo : k # 1 /\ todo'[i] = todo[k]
<1>1. todo \in Seq(Items)
  BY DEF HandlesInv, Types
<1>2. 1 \in DOMAIN todo /\ Head(todo) = todo[1]
  BY <1>1
<1> DEFINE n == Len(seq)
<1>3. /\ todo' \in Seq(Items) /\ n \in Nat
      /\ \A i \in DOMAIN seq : i \in DOMAIN todo' /\ todo'[i] = seq[i]
      /\ \A k \in DOMAIN todo : k # 1 => k + n - 1 \in DOMAIN todo' /\ todo'[k + n - 1] = todo[k]
      /\ \A i \in DOMAIN todo' : i \notin DOMAIN seq =>
           i - n + 1 \in DOMAIN todo /\ i - n + 1 # 1 /\ todo'[i] = todo[i - n + 1]
  BY <1>1, Spliced, SMTT(40)
<1> HIDE DEF n
<1> QED
  BY <1>2, <1>3

(* The first of the things to do, with what it leads to.                     *)
Leads(seq) ==
  /\ todo # << >> /\ seq \in Seq(Items) /\ todo' = seq \o Tail(todo)
  /\ started' = started /\ lost' = lost

Goes == IF Head(todo).does \in {"frame", "destroy"} THEN {Head(todo).c} ELSE {}

LEMMA HeldUnwound ==
  ASSUME HandlesInv, HeldInv, NEW seq, Leads(seq),
         frame' = frame \ Goes, complete' \subseteq complete \cup Goes,
         \A i \in DOMAIN seq : seq[i].does = "unref" /\ seq[i].c \in Idle' => i = 1,
         \A c \in Idle' : (\E s \in Slots : handle[s] = c) => Held(c)',
         \A c \in Idle' \ lost' : Head(todo).does = "drop" /\ Head(todo).c = c => Held(c)'
  PROVE  HeldInv'
<1> DEFINE h == Head(todo)
<1>1. /\ 1 \in DOMAIN todo /\ h = todo[1]
      /\ \A k \in DOMAIN todo : k # 1 => \E i \in DOMAIN todo' : todo'[i] = todo[k]
      /\ \A i \in DOMAIN seq : i \in DOMAIN todo' /\ todo'[i] = seq[i]
      /\ \A i \in DOMAIN todo' : \/ i \in DOMAIN seq /\ todo'[i] = seq[i]
                                 \/ \E k \in DOMAIN todo : k # 1 /\ todo'[i] = todo[k]
  BY Remains DEF Leads
<1>2. started' = started /\ lost' = lost /\ Goes = IF h.does \in {"frame", "destroy"} THEN {h.c} ELSE {}
  BY DEF Leads, Goes
<1> HIDE DEF h
<1>3. ASSUME NEW c \in Going PROVE c \in Going' \/ c \in Goes
  <2>1. PICK k \in DOMAIN todo : todo[k].does \in {"frame", "destroy"} /\ todo[k].c = c
    BY DEF Going, Frames
  <2>2. CASE k = 1
    BY <1>1, <1>2, <2>1, <2>2
  <2>3. CASE k # 1
    <3>1. PICK i \in DOMAIN todo' : todo'[i] = todo[k]
      BY <1>1, <2>3
    <3>2. i \in Frames' /\ todo'[i].c = c
      BY <2>1, <3>1 DEF Frames
    <3> QED
      BY <3>2 DEF Going
  <2> QED
    BY <2>2, <2>3
<1>4. Idle' \subseteq Idle
  BY <1>2, <1>3 DEF Idle
<1>5. complete' \cap frame' \subseteq Going'
  BY <1>3 DEF HeldInv
<1>6. ASSUME NEW c \in Idle' \ lost' PROVE Held(c)'
  <2>1. Held(c)
    BY <1>2, <1>4, <1>6 DEF HeldInv
  <2>2. CASE \E s \in Slots : handle[s] = c
    BY <1>6, <2>2
  <2>3. CASE c \in ToDo("drop")
    <3>1. PICK k \in DOMAIN todo : todo[k].does = "drop" /\ todo[k].c = c
      BY <2>3 DEF ToDo
    <3>2. CASE k = 1
      BY <1>1, <1>2, <1>6, <3>1, <3>2 DEF h
    <3>3. CASE k # 1
      <4>1. PICK i \in DOMAIN todo' : todo'[i] = todo[k]
        BY <1>1, <3>3
      <4>2. c \in ToDo("drop")'
        BY <3>1, <4>1 DEF ToDo
      <4> QED
        BY <4>2 DEF Held
    <3> QED
      BY <3>2, <3>3
  <2> QED
    BY <2>1, <2>2, <2>3 DEF Held
<1>7. ASSUME NEW i \in DOMAIN todo', todo'[i].does = "unref", todo'[i].c \in Idle' PROVE i = 1
  <2>1. CASE i \in DOMAIN seq /\ todo'[i] = seq[i]
    BY <1>7, <2>1
  <2>2. CASE \E k \in DOMAIN todo : k # 1 /\ todo'[i] = todo[k]
    BY <1>4, <1>7, <2>2 DEF HeldInv
  <2> QED
    BY <1>1, <2>1, <2>2
<1> QED
  BY <1>5, <1>6, <1>7 DEF HeldInv

LEMMA Pair == ASSUME NEW x, NEW y PROVE <<x>> \o <<y>> = <<x, y>>
<1> DEFINE X == {x, y}
           a == <<x>>
           b == <<y>>
           r == <<x, y>>
           w == a \o b
<1>1. a \in Seq(X) /\ b \in Seq(X) /\ Len(a) = 1 /\ Len(b) = 1 /\ a[1] = x /\ b[1] = y
  OBVIOUS
<1>2. r \in Seq(X) /\ Len(r) = 2 /\ r[1] = x /\ r[2] = y
  OBVIOUS
<1> HIDE DEF X, a, b, r
<1>3. /\ w \in Seq(X) /\ Len(w) = Len(a) + Len(b)
      /\ \A i \in 1..Len(a) : w[i] = a[i]
      /\ \A i \in 1..Len(b) : w[Len(a) + i] = b[i]
  <2>1. a \in Seq(X) /\ b \in Seq(X)
    BY <1>1
  <2> QED
    BY <2>1, Joined
<1> HIDE DEF w
<1>4. Len(w) = 2 /\ w[1] = x /\ w[1 + 1] = y
  BY <1>1, <1>3
<1>5. w = r
  BY <1>2, <1>3, <1>4
<1> QED
  BY <1>5 DEF w, a, b, r

LEMMA UnrefLeaves ==
  ASSUME HandlesInv, LeakInv, NEW c \in Coros, todo # << >>, Head(todo).does = "unref", Head(todo).c = c,
         Unref(c), UNCHANGED <<current, lost>>
  PROVE  LeakInv'
<1>1. PICK seq \in Seq(Items) :
        /\ \A i \in DOMAIN seq : seq[i].does = "unref"
        /\ todo' = seq \o Tail(todo)
        /\ IF count[c] > 1
           THEN (\A d \in Coros : Given(seq, d) = 0) /\ UNCHANGED <<data, tokens, parent>>
           ELSE /\ \A d \in Coros : Given(seq, d) = In(d, tokens[c]) + Same(parent[c], d)
                /\ data' = data \ {c}
                /\ tokens' = [tokens EXCEPT ![c] = {}]
                /\ parent' = [parent EXCEPT ![c] = None]
  BY UnrefSteps
<1>2. /\ UNCHANGED <<handle, frame, started, complete, lost>> /\ frame \subseteq Coros
      /\ parent \in [Coros -> Maybe] /\ tokens \in [Coros -> SUBSET Coros] /\ None \notin Coros
  BY Names DEF Unref, HandlesInv, Types
<1>3. \A d \in Coros : parent'[d] \in {parent[d], None}
  BY <1>1, <1>2
<1>4. Goes = {}
  BY DEF Goes
<1>5. ASSUME NEW i \in DOMAIN seq, seq[i].c \in Idle' PROVE FALSE
  <2> DEFINE d == seq[i].c
  <2>1. d \in Coros /\ d \notin started
    BY <1>2, <1>5 DEF Idle
  <2>2. Given(seq, d) \in Nat /\ (Given(seq, d) = 0 <=> Givers(seq, d) = {})
    BY GivenType
  <2>3. i \in Givers(seq, d)
    BY <1>1 DEF Givers
  <2> HIDE DEF d
  <2>4. In(d, tokens[c]) = 0 /\ Same(parent[c], d) = 0
    BY <1>2, <2>1 DEF HandlesInv, WakeInv, LeakInv, NoRings, In, Same
  <2> QED
    BY <1>1, <2>1, <2>2, <2>3, <2>4
<1>6. Leads(seq)
  BY <1>1, <1>2 DEF Leads
<1>7. \A d \in Idle' : (\E s \in Slots : handle[s] = d) => Held(d)'
  BY <1>2 DEF Held
<1>8. HeldInv'
  BY <1>2, <1>4, <1>5, <1>6, <1>7, HeldUnwound DEF LeakInv
<1>9. NoRings'
  BY <1>2, <1>3, NoNewRings DEF LeakInv
<1> QED
  BY <1>8, <1>9 DEF LeakInv

(* A frame goes, and what was its parameter is dropped.                      *)
LEMMA FrameGoesLeaves ==
  ASSUME HandlesInv, LeakInv, NEW c \in Coros, todo # << >>,
         Head(todo).does \in {"frame", "destroy"}, Head(todo).c = c, FrameGoes(c),
         complete' \subseteq complete \cup {c}, UNCHANGED <<started, parent, lost>>
  PROVE  LeakInv'
<1> DEFINE x == awaits[c]
           y == handle[c]
           A == Drops(x)
           B == Drops(y)
           seq == A \o B
<1>1. /\ handle \in [Slots -> Maybe] /\ c \in Slots /\ x \in Maybe /\ y \in Maybe
      /\ frame' = frame \ {c} /\ handle' = [handle EXCEPT ![c] = None]
      /\ todo' = seq \o Tail(todo)
      /\ Goes = {c} /\ None \notin Coros /\ frame \subseteq Coros
  BY Names DEF HandlesInv, Types, FrameGoes, Then, Goes, Slots
<1> HIDE DEF x, y
<1>2. /\ A \in Seq(Items) /\ \A i \in DOMAIN A : A[i] = Does("drop", x)
      /\ B \in Seq(Items) /\ \A i \in DOMAIN B : B[i] = Does("drop", y)
      /\ y \in Coros => 1 \in DOMAIN B
  BY <1>1, DropsAre DEF Drops
<1> HIDE DEF A, B
<1>3. Consists(seq, A, B)
  BY <1>2, Consisting, Zenon
<1> HIDE DEF seq
<1>4. Leads(seq)
  BY <1>1, <1>3 DEF Leads, Consists
<1>5. \A i \in DOMAIN seq : seq[i].does # "unref"
  BY <1>2, <1>3 DEF Consists, Does
<1>6. ASSUME NEW d \in Idle', NEW s \in Slots, handle[s] = d PROVE Held(d)'
  <2>1. d \in Coros
    BY <1>1, <1>6 DEF Idle
  <2>2. CASE s # c
    BY <1>1, <1>6, <2>2 DEF Held
  <2>3. CASE s = c
    <3>1. d = y /\ y \in Coros
      BY <1>6, <2>1, <2>3 DEF y
    <3>2. PICK i \in DOMAIN seq : seq[i] = B[1]
      BY <1>2, <1>3, <3>1 DEF Consists
    <3>3. seq[i].does = "drop" /\ seq[i].c = d
      BY <1>2, <3>1, <3>2 DEF Does
    <3>4. i \in DOMAIN todo' /\ todo'[i] = seq[i]
      BY <1>4, Remains DEF Leads
    <3>5. d \in ToDo("drop")'
      BY <3>3, <3>4 DEF ToDo
    <3> QED
      BY <3>5 DEF Held
  <2> QED
    BY <2>2, <2>3
<1>7. HeldInv'
  BY <1>1, <1>4, <1>5, <1>6, HeldUnwound DEF LeakInv
<1>8. NoRings'
  BY <1>1, NoNewRings DEF LeakInv, Slots
<1> QED
  BY <1>7, <1>8 DEF LeakInv

(* The pointer that goes is the head, so it is not what still holds c.       *)
LEMMA DropHandleLeaves ==
  ASSUME HandlesInv, LeakInv, NEW c \in Coros, todo # << >>, Head(todo).does = "drop", Head(todo).c = c,
         DropHandle(c), UNCHANGED <<current, lost>>
  PROVE  LeakInv'
<1> DEFINE f == Does("frame", c)
           u == Does("unref", c)
           seq == IF NeverStarts(c) THEN <<f, u>> ELSE <<u>>
<1>1. /\ Types /\ todo \in Seq(Items) /\ handle \in [Slots -> Maybe] /\ 1 \in DOMAIN todo /\ Head(todo) = todo[1]
      /\ UNCHANGED <<handle, frame, started, complete, parent, count, lost>>
      /\ Goes = {}
  BY DEF DropHandle, HandlesInv, Types, places, life, Goes
<1>2. f \in Items /\ u \in Items /\ f.does = "frame" /\ u.does = "unref" /\ f.c = c /\ u.c = c
  BY DoesTypes
<1>3. todo' = seq \o Tail(todo)
  <2>1. todo' = ((IF NeverStarts(c) THEN <<f>> ELSE << >>) \o <<u>>) \o Tail(todo)
    BY DEF DropHandle, Then
  <2> HIDE DEF f, u
  <2>2. <<f>> \o <<u>> = <<f, u>>
    BY Pair
  <2>3. << >> \o <<u>> = <<u>>
    OBVIOUS
  <2> QED
    BY <2>1, <2>2, <2>3, Zenon
<1> HIDE DEF f, u
<1>4. /\ seq \in Seq(Items)
      /\ \A i \in DOMAIN seq : seq[i] = u => i = 1 \/ NeverStarts(c)
      /\ \A i \in DOMAIN seq : seq[i] \in {f, u}
      /\ NeverStarts(c) => 1 \in DOMAIN seq /\ seq[1] = f
  BY <1>2
<1> HIDE DEF seq
<1>5. Leads(seq)
  BY <1>1, <1>3, <1>4 DEF Leads
<1>6. /\ \A k \in DOMAIN todo : k # 1 => \E i \in DOMAIN todo' : todo'[i] = todo[k]
      /\ \A i \in DOMAIN seq : i \in DOMAIN todo' /\ todo'[i] = seq[i]
  BY <1>3, <1>4, Remains
<1>7. NeverStarts(c) => c \in Going'
  <2> SUFFICES ASSUME NeverStarts(c) PROVE c \in Going'
    OBVIOUS
  <2>1. 1 \in DOMAIN todo' /\ todo'[1].does = "frame" /\ todo'[1].c = c
    BY <1>2, <1>4, <1>6
  <2> QED
    BY <2>1 DEF Going, Frames
<1>8. ASSUME NEW i \in DOMAIN seq, seq[i].does = "unref", seq[i].c \in Idle' PROVE i = 1
  <2>1. seq[i] = u
    BY <1>2, <1>4, <1>8
  <2> QED
    BY <1>2, <1>4, <1>7, <1>8, <2>1 DEF Idle
<1>9. ASSUME c \in Idle' \ lost' PROVE Held(c)'
  <2>1. c \in Idle /\ ~NeverStarts(c) /\ c \notin started
    <3>1. c \in frame /\ c \notin started /\ c \notin Going'
      BY <1>1, <1>9 DEF Idle
    <3>2. c \notin Going
      <4> SUFFICES ASSUME c \in Going PROVE FALSE
        OBVIOUS
      <4>1. PICK k \in DOMAIN todo : todo[k].does \in {"frame", "destroy"} /\ todo[k].c = c
        BY DEF Going, Frames
      <4>2. PICK i \in DOMAIN todo' : todo'[i] = todo[k]
        BY <1>1, <1>6, <4>1
      <4>3. c \in Going'
        BY <4>1, <4>2 DEF Going, Frames
      <4> QED
        BY <3>1, <4>3
    <3> QED
      BY <1>7, <3>1, <3>2 DEF Idle
  <2>2. /\ count[c] = Holders(handle, c) + Given(todo, c) + 1 /\ count[c] # 2
        /\ Holders(handle, c) \in Nat /\ Given(todo, c) \in Nat
        /\ Holders(handle, c) = 0 <=> \A s \in Slots : handle[s] # c
    BY <2>1, OnlyHandles DEF NeverStarts
  <2>3. CASE \E s \in Slots : handle[s] = c
    BY <1>1, <2>3 DEF Held
  <2>4. CASE ~\E s \in Slots : handle[s] = c
    <3>1. Given(todo, c) # 1 /\ Given(todo, c) # 0
      <4>1. 1 \in Givers(todo, c)
        BY <1>1 DEF Givers
      <4> QED
        BY <1>1, <2>2, <2>4, <4>1, Terms
    <3>2. PICK k \in DOMAIN todo : k # 1 /\ k \in Givers(todo, c)
      BY <1>1, <2>2, <3>1, AnotherGiver
    <3>3. todo[k].does = "drop" /\ todo[k].c = c
      BY <2>1, <3>2 DEF Givers, LeakInv, HeldInv
    <3>4. PICK i \in DOMAIN todo' : todo'[i] = todo[k]
      BY <1>6, <3>2
    <3>5. c \in ToDo("drop")'
      BY <3>3, <3>4 DEF ToDo
    <3> QED
      BY <3>5 DEF Held
  <2> QED
    BY <2>3, <2>4
<1>10. \A d \in Idle' : (\E s \in Slots : handle[s] = d) => Held(d)'
  BY <1>1 DEF Held
<1>11. HeldInv'
  BY <1>1, <1>5, <1>8, <1>9, <1>10, HeldUnwound DEF LeakInv
<1>12. NoRings'
  BY <1>1, NoNewRings DEF LeakInv
<1> QED
  BY <1>11, <1>12 DEF LeakInv

LEMMA ClearLeaves ==
  ASSUME HandlesInv, LeakInv, todo # << >>, Head(todo).does = "clear", Clear, UNCHANGED <<current, lost>>
  PROVE  LeakInv'
<1> DEFINE seq == << >>
<1>1. /\ UNCHANGED <<handle, frame, started, complete, parent, lost>> /\ Goes = {}
  BY DEF Clear, places, life, Goes
<1>2. Leads(seq) /\ DOMAIN seq = {}
  BY <1>1 DEF Clear, Then, Leads
<1> HIDE DEF seq
<1>3. \A d \in Idle' : (\E s \in Slots : handle[s] = d) => Held(d)'
  BY <1>1 DEF Held
<1>4. HeldInv'
  BY <1>1, <1>2, <1>3, HeldUnwound DEF LeakInv
<1>5. NoRings'
  BY <1>1, NoNewRings DEF LeakInv
<1> QED
  BY <1>4, <1>5 DEF LeakInv

LEMMA TakeLeaves ==
  ASSUME HandlesInv, LeakInv, todo # << >>, Head(todo).does = "take",
         Take(Head(todo).s, Head(todo).r), Then(<< >>),
         UNCHANGED <<awaits, suspended, frame, data, life, tokens, queue, current, lost>>
  PROVE  LeakInv'
<1> DEFINE seq == << >>
           s == Head(todo).s
           r == Head(todo).r
<1>1. /\ UNCHANGED <<frame, started, complete, parent, lost>> /\ Goes = {}
      /\ handle' = [handle EXCEPT ![s] = handle[r]] /\ None \notin Coros
      /\ 1 \in DOMAIN todo /\ Head(todo) = todo[1]
      /\ frame \subseteq Coros /\ handle \in [Slots -> Maybe]
  BY Names DEF Take, life, Goes, HandlesInv, Types
<1>2. Leads(seq) /\ DOMAIN seq = {}
  BY <1>1 DEF Then, Leads
<1>3. handle[s] = None /\ s \in Mine(current)
  BY <1>1 DEF HandlesInv, Assigning
<1>4. s \in Coros => s \in started
  BY <1>3, Names DEF Mine, HandlesInv, WakeInv, Live
<1> HIDE DEF seq, s, r
<1>5. ASSUME NEW d \in Idle', NEW x \in Slots, handle[x] = d PROVE Held(d)'
  <2>1. d \in Coros
    BY <1>1, <1>5 DEF Idle
  <2>2. x # s
    BY <1>1, <1>3, <1>5, <2>1
  <2> QED
    BY <1>1, <1>5, <2>2 DEF Held
<1>6. HeldInv'
  BY <1>1, <1>2, <1>5, HeldUnwound DEF LeakInv
<1>7. NoRings'
  BY <1>1, <1>4, NoNewRings DEF LeakInv, Slots
<1> QED
  BY <1>6, <1>7 DEF LeakInv

LEMMA UnwindLeaves ==
  ASSUME HandlesInv, LeakInv, Unwind
  PROVE  LeakInv'
<1> DEFINE do == Head(todo)
<1>1. /\ todo # << >>
      /\ \/ do.does = "unref" /\ Unref(do.c)
         \/ do.does = "drop" /\ DropHandle(do.c)
         \/ do.does = "frame" /\ DestroyFrame(do.c)
         \/ do.does = "destroy" /\ Destroy(do.c)
         \/ do.does = "clear" /\ Clear
         \/ /\ do.does = "take" /\ Take(do.s, do.r)
            /\ Then(<< >>)
            /\ UNCHANGED <<awaits, suspended, frame, data, life, tokens, queue>>
      /\ UNCHANGED <<current, lost>>
  BY DEF Unwind
<1>2. do \in Items
  BY <1>1 DEF HandlesInv, Types
<1>3. do.does \in {"unref", "drop", "frame", "destroy"} => do.c \in Coros
  BY <1>2, ItemTypes
<1>4. CASE do.does = "unref" /\ Unref(do.c)
  BY <1>1, <1>3, <1>4, UnrefLeaves
<1>5. CASE do.does = "drop" /\ DropHandle(do.c)
  BY <1>1, <1>3, <1>5, DropHandleLeaves
<1>6. CASE do.does = "frame" /\ DestroyFrame(do.c)
  <2>1. FrameGoes(do.c) /\ UNCHANGED <<started, complete, parent>>
    BY <1>6 DEF DestroyFrame, life
  <2>2. complete' \subseteq complete \cup {do.c}
    BY <2>1
  <2> QED
    BY <1>1, <1>3, <1>6, <2>1, <2>2, FrameGoesLeaves
<1>7. CASE do.does = "destroy" /\ Destroy(do.c)
  <2>1. FrameGoes(do.c) /\ complete' = complete \cup {do.c} /\ UNCHANGED <<started, parent>>
    BY <1>7 DEF Destroy
  <2>2. complete' \subseteq complete \cup {do.c}
    BY <2>1
  <2> QED
    BY <1>1, <1>3, <1>7, <2>1, <2>2, FrameGoesLeaves
<1>8. CASE do.does = "clear" /\ Clear
  BY <1>1, <1>8, ClearLeaves
<1>9. CASE /\ do.does = "take" /\ Take(do.s, do.r)
           /\ Then(<< >>)
           /\ UNCHANGED <<awaits, suspended, frame, data, life, tokens, queue>>
  BY <1>1, <1>9, TakeLeaves
<1> QED
  BY <1>1, <1>4, <1>5, <1>6, <1>7, <1>8, <1>9

LEMMA UsesLeave ==
  ASSUME HandlesInv, LeakInv, NEW a \in Maybe, Uses(a)
  PROVE  LeakInv'
<1>1. PICK s \in Mine(a) :
        \/ Drop(a, s)
        \/ AwaitComplete(a, s)
        \/ \E moved \in BOOLEAN : Start(a, s, moved) \/ Await(a, s, moved)
        \/ \E r \in Mine(a) : Copy(a, s, r) \/ Move(a, s, r)
        \/ \E c \in Coros, r \in Mine(a) \cup {None}, moved \in BOOLEAN : Create(a, s, c, r, moved)
  BY DEF Uses
<1>2. CASE Drop(a, s) \/ AwaitComplete(a, s)
  <2>1. LetsGo(a, s)
    BY <1>2 DEF Drop, AwaitComplete, LetsGo
  <2> QED
    BY <2>1, LetsGoLeaves
<1>3. ASSUME NEW moved \in BOOLEAN, Start(a, s, moved) PROVE LeakInv'
  BY <1>3, StartLeaves
<1>4. ASSUME NEW moved \in BOOLEAN, Await(a, s, moved) PROVE LeakInv'
  <2>1. a \in Coros
    BY <1>4 DEF Await, Maybe
  <2> QED
    BY <1>4, <2>1, AwaitLeaves
<1>5. ASSUME NEW r \in Mine(a), Copy(a, s, r) PROVE LeakInv'
  BY <1>5, CopyLeaves
<1>6. ASSUME NEW r \in Mine(a), Move(a, s, r) PROVE LeakInv'
  BY <1>6, MoveLeaves
<1>7. ASSUME NEW c \in Coros, NEW r \in Mine(a) \cup {None}, NEW moved \in BOOLEAN,
             Create(a, s, c, r, moved)
      PROVE  LeakInv'
  BY <1>7, CreateLeaves
<1> QED
  BY <1>1, <1>2, <1>3, <1>4, <1>5, <1>6, <1>7

LEMMA NextLeaves == HandlesInv /\ LeakInv /\ [Next]_vars => LeakInv'
<1> SUFFICES ASSUME HandlesInv, LeakInv, [Next]_vars PROVE LeakInv'
  OBVIOUS
<1>1. ASSUME NEW a \in Coros \cup {None}, Uses(a) PROVE LeakInv'
  BY <1>1, UsesLeave DEF Maybe
<1>2. ASSUME NEW p \in Coros, Pause(p) PROVE LeakInv'
  BY <1>2, PauseLeaves
<1>3. ASSUME NEW p \in Coros, Return(p) PROVE LeakInv'
  BY <1>3, ReturnLeaves
<1>4. ASSUME NEW t \in queue, Step(t) PROVE LeakInv'
  BY <1>4, StepLeaves
<1>5. CASE Reset
  BY <1>5, ResetLeaves
<1>6. CASE Unwind
  BY <1>6, UnwindLeaves
<1>7. CASE UNCHANGED vars
  <2>1. UNCHANGED <<handle, frame, started, complete, parent, todo, lost>>
    BY <1>7 DEF vars, places, life
  <2>2. Going' = Going /\ ToDo("drop")' = ToDo("drop")
    BY <2>1 DEF Going, Frames, ToDo
  <2>3. HeldInv'
    BY <2>1, <2>2 DEF LeakInv, HeldInv, Idle, Held
  <2>4. NoRings'
    BY <2>1, NoNewRings DEF LeakInv
  <2> QED
    BY <2>3, <2>4 DEF LeakInv
<1> QED
  BY <1>1, <1>2, <1>3, <1>4, <1>5, <1>6, <1>7 DEF Next

LEMMA InitLeaves == Init => LeakInv
BY Names DEF Init, LeakInv, HeldInv, Idle, NoRings, Acyclic

(* Through every use of a handle, and half-way through the destructors, a    *)
(* frame is idle only while a handle names it, and no ring of parameters or  *)
(* of parents is made.                                                       *)
THEOREM LeakInvariance == Spec => []LeakInv
<1>1. Init => LeakInv
  BY InitLeaves
<1>2. HandlesInv /\ LeakInv /\ [Next]_vars => LeakInv'
  BY NextLeaves
<1> QED
  BY <1>1, <1>2, HandlesInvariance, PTL DEF Spec

(* At rest a set that only its own members refer to has no frame in it: one  *)
(* that is live is managed, and one that was never started is the parameter  *)
(* of another, and so on, for ever.                                          *)
LEMMA NoFrameLeft ==
  ASSUME HandlesInv, LeakInv, todo = << >>, NEW S \in SUBSET data, Isolated(S)
  PROVE  S \cap frame = {}
<1> DEFINE R == S \cap frame
<1>1. /\ Going = {} /\ ToDo("drop") = {} /\ Live = managed /\ S \subseteq Coros /\ None \notin Coros
  BY AtRest, Names DEF HandlesInv, Types
<1>2. ASSUME NEW c \in R PROVE c \in Coros \ started /\ \E e \in R : handle[e] = c
  <2>1. c \in S /\ c \in frame /\ c \in Coros
    BY <1>1
  <2>2. c \notin complete /\ c \notin managed /\ c \notin lost
    BY <1>1, <2>1 DEF LeakInv, HeldInv, Isolated, Rooted
  <2>3. c \notin started
    BY <1>1, <2>2 DEF Live
  <2>4. PICK e \in Slots : handle[e] = c
    BY <1>1, <2>1, <2>2, <2>3 DEF LeakInv, HeldInv, Idle, Held
  <2>5. e \in Coros
    BY <2>1, <2>4 DEF Isolated, Rooted, Slots
  <2>6. e \in S
    BY <2>1, <2>4, <2>5 DEF Isolated, RefersTo
  <2>7. e \in frame
    BY <1>1, <2>1, <2>4, <2>5 DEF HandlesInv, LifeInv
  <2> QED
    BY <2>1, <2>3, <2>4, <2>6, <2>7
<1>3. R = {}
  BY <1>2 DEF LeakInv, NoRings, Acyclic
<1> QED
  BY <1>3

(* Nor, unless its tokens were never triggered, is there any of it: what     *)
(* remains would be parents of one another.                                  *)
LEMMA TokensAreLeft ==
  ASSUME HandlesInv, LeakInv, todo = << >>, NEW S \in SUBSET data, S # {}, Isolated(S)
  PROVE  \E d \in S \cap complete : tokens[d] # {}
<1> SUFFICES ASSUME \A d \in S \cap complete : tokens[d] = {} PROVE FALSE
  OBVIOUS
<1>1. /\ S \cap frame = {} /\ Live = managed /\ S \subseteq Coros /\ managed \subseteq frame
      /\ Types /\ None \notin Coros
  BY NoFrameLeft, AtRest, Names DEF HandlesInv, Types, FramesAreThere
<1>2. ASSUME NEW c \in S PROVE \E d \in S : parent[d] = c
  <2>1. c \in Coros /\ c \in data /\ c \notin frame /\ ~Unused(c)
    BY <1>1, InUse DEF HandlesInv
  <2>2. /\ \A t \in queue : t.to # c
        /\ current # c /\ c \notin managed /\ c \notin suspended
        /\ \A s \in Vars : handle[s] # c
    BY <1>1, <2>1 DEF Isolated, Rooted, HandlesInv, LifeInv
  <2>3. Givers(todo, c) = {}
    BY DEF Givers
  <2>4. \A d \in Coros : RefersTo(d, c) => d \in S
    BY DEF Isolated
  <2>5. \A d \in Coros : handle[d] # c
    BY <1>1, <2>1, <2>4 DEF RefersTo, HandlesInv, LifeInv
  <2>6. \A d \in Coros : awaits[d] # c
    BY <1>1, <2>1, <2>4 DEF RefersTo, HandlesInv, LifeInv
  <2>7. ASSUME NEW d \in Coros, c \in tokens[d] PROVE FALSE
    <3>1. d \in S /\ d \in started
      BY <2>4, <2>7 DEF RefersTo, HandlesInv, WakeInv
    <3>2. d \in complete
      BY <1>1, <3>1 DEF Live
    <3> QED
      BY <2>7, <3>1, <3>2
  <2>8. \E d \in Coros : parent[d] = c
    BY <2>1, <2>2, <2>3, <2>5, <2>6, <2>7 DEF Unused, Slots
  <2> QED
    BY <2>4, <2>8 DEF RefersTo
<1> QED
  BY <1>1, <1>2 DEF LeakInv, NoRings, Acyclic

(* Reference counting leaves nothing behind, however many coroutines and     *)
(* handles there are: when the destructors are done, what no variable, no    *)
(* token of the queue and no managed process leads to has been freed, except *)
(* what reset() destroyed while others awaited it, or what was lost when an  *)
(* assignment overwrote the last handle of a coroutine never started.        *)
THEOREM NoLeakHolds == Spec => []NoLeak
<1>1. HandlesInv /\ LeakInv => NoLeak
  BY NoFrameLeft, TokensAreLeft DEF NoLeak
<1> QED
  BY <1>1, HandlesInvariance, LeakInvariance, PTL
=============================================================================
