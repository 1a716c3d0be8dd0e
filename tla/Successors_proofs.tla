-------------------------- MODULE Successors_proofs --------------------------
(***************************************************************************)
(* Proofs about Successors for any bindings and algorithms, any number of  *)
(* generations and any reserve: a staged root is what its plan says, which *)
(* decides what each resume makes of it, and why identifiers and ages      *)
(* survive every successor.                                                *)
(***************************************************************************)
EXTENDS SuccessorsInvariant, FiniteSetTheorems, WellFoundedInduction, TLAPS

-----------------------------------------------------------------------------
(* Numbers.                                                                *)

\* What the assumptions on the constants say of them one by one.
LEMMA ConstantFacts ==
  /\ Bindings \subseteq Nat \ {0} /\ IsFiniteSet(Bindings)
  /\ Algorithms \subseteq Nat \ {0} /\ IsFiniteSet(Algorithms)
  /\ Cardinality(Algorithms) \in Nat /\ MaxBindings \in Nat /\ Reserve \in Nat
  /\ LastNumber \in Nat /\ MaxTime \in Nat
BY GenerationsAssumption, SuccessorsAssumption, FS_CardinalityType

\* A nonempty set of naturals has a least element.
LEMMA LeastNumber ==
  ASSUME NEW T \in SUBSET Nat, T # {}
  PROVE  \E n \in T : \A m \in T : n <= m
<1>1. \E n \in T : \A m \in T : ~(<<m, n>> \in OpToRel(<, Nat))
  BY NatLessThanWellFounded, WFMin, Zenon
<1>2. PICK n \in T : \A m \in T : ~(<<m, n>> \in OpToRel(<, Nat))
  BY <1>1
<1>3. \A m \in T : ~(m < n)
  BY <1>2, Zenon DEF OpToRel
<1> QED BY <1>3

\* A finite set of naturals has an upper bound.
LEMMA UpperBound ==
  ASSUME NEW S \in SUBSET Nat, IsFiniteSet(S)
  PROVE  \E m \in Nat : \A n \in S : n <= m
<1> DEFINE Bounded(F) == \E m \in Nat : \A n \in F : n <= m
           T == {Cardinality(F) : F \in {F \in SUBSET S : ~Bounded(F)}}
<1>1. \A F \in SUBSET S : IsFiniteSet(F) /\ Cardinality(F) \in Nat
  BY FS_Subset, FS_CardinalityType
<1>2. SUFFICES ASSUME ~Bounded(S) PROVE FALSE
  OBVIOUS
<1>3. T \subseteq Nat /\ T # {}
  <2>1. T \subseteq Nat
    <3> HIDE DEF Bounded
    <3> QED BY <1>1
  <2>2. Cardinality(S) \in T
    <3> HIDE DEF Bounded
    <3> QED BY <1>2
  <2> QED BY <2>1, <2>2
<1>4. \E n \in T : \A m \in T : n <= m
  <2> HIDE DEF T
  <2> QED BY <1>3, LeastNumber
<1>5. PICK F \in SUBSET S : /\ ~Bounded(F)
                            /\ \A m \in T : Cardinality(F) <= m
  <2> HIDE DEF Bounded
  <2> QED BY <1>4
<1>6. PICK x \in F : TRUE
  BY <1>5
<1>7. F \ {x} \in SUBSET S /\ Cardinality(F \ {x}) < Cardinality(F)
  <2>1. Cardinality(F \ {x}) = Cardinality(F) - 1
    BY <1>1, <1>6, FS_RemoveElement
  <2> QED BY <1>1, <2>1
<1>8. Bounded(F \ {x})
  <2>1. ~(Cardinality(F) <= Cardinality(F \ {x}))
    BY <1>1, <1>7
  <2> HIDE DEF Bounded
  <2> QED BY <1>5, <1>7, <2>1
<1>9. PICK m \in Nat : \A n \in F \ {x} : n <= m
  BY <1>8
<1>10. /\ \A n \in F : n <= (IF m <= x THEN x ELSE m)
       /\ (IF m <= x THEN x ELSE m) \in Nat
  BY <1>6, <1>9
<1> QED BY <1>5, <1>10

\* The highest number of a bounded set is above all of it.
LEMMA HighestIsAbove ==
  ASSUME NEW S \in SUBSET Nat, NEW m \in Nat, \A n \in S : n <= m
  PROVE  Highest(S) \in Nat /\ \A n \in S : n <= Highest(S)
<1> DEFINE T == {u \in Nat : \A n \in S : n <= u}
<1>1. PICK u \in T : \A v \in T : u <= v
  <2>1. T \in SUBSET Nat /\ m \in T
    OBVIOUS
  <2> HIDE DEF T
  <2> QED BY <2>1, LeastNumber
<1>2. u \in Nat /\ \A n \in S : n <= u
  BY <1>1
<1>3. u \in S \cup {0}
  <2>1. SUFFICES ASSUME u \notin S, u # 0 PROVE FALSE
    BY <1>2
  <2>2. u - 1 \in Nat /\ \A n \in S : n <= u - 1
    BY <1>2, <2>1
  <2>3. u - 1 \in T
    BY <2>2
  <2>4. u <= u - 1
    BY <1>1, <2>3
  <2> QED BY <1>2, <2>4
<1>4. \E h \in S \cup {0} : \A n \in S : n <= h
  BY <1>2, <1>3
<1>5. Highest(S) \in S \cup {0} /\ \A n \in S : n <= Highest(S)
  BY <1>4 DEF Highest
<1>6. S \cup {0} \subseteq Nat
  OBVIOUS
<1> QED BY <1>5, <1>6

\* The lowest number of a nonempty set is in it and below all of it.
LEMMA LowestIsLeast ==
  ASSUME NEW S \in SUBSET Nat, S # {}
  PROVE  Lowest(S) \in S /\ \A n \in S : Lowest(S) <= n
<1>1. \E m \in S : \A n \in S : m <= n
  BY LeastNumber
<1> QED BY <1>1 DEF Lowest

LEMMA ProductsGrow ==
  ASSUME NEW k \in Nat, NEW x \in Nat, NEW y \in Nat, x <= y
  PROVE  x * k \in Nat /\ y * k \in Nat /\ x * k <= y * k
<1>1. (y - x) \in Nat /\ y = x + (y - x)
  OBVIOUS
<1>2. (y - x) * k \in Nat /\ x * k \in Nat
  BY <1>1, SMT
<1>3. y * k = x * k + (y - x) * k
  BY <1>1, SMT
<1> QED BY <1>2, <1>3

\* Allocated identifiers are new, and one number is above them all.
LEMMA AllocatedAbove ==
  ASSUME NEW used \in SUBSET Nat, NEW top \in Nat, \A id \in used : id <= top
  PROVE  /\ \A b \in Bindings, a \in Algorithms :
              Allocate(used, b, a) \in Nat /\ Allocate(used, b, a) \notin used
         /\ \E m \in Nat : \A b \in Bindings, a \in Algorithms :
              Allocate(used, b, a) <= m
<1> DEFINE high == Highest(used)
           size == Cardinality(Algorithms)
<1>1. high \in Nat /\ \A id \in used : id <= high
  BY HighestIsAbove
<1>2. size \in Nat
  BY ConstantFacts
<1>3. PICK lastB \in Nat : \A b \in Bindings : b <= lastB
  BY ConstantFacts, UpperBound
<1>4. PICK lastA \in Nat : \A a \in Algorithms : a <= lastA
  BY ConstantFacts, UpperBound
<1> HIDE DEF high, size
<1>5. ASSUME NEW b \in Bindings, NEW a \in Algorithms
      PROVE  /\ high + (b - 1) * size + a \in Nat
             /\ high + (b - 1) * size + a > high
             /\ high + (b - 1) * size + a <= high + lastB * size + lastA
  <2>1. b \in Nat /\ b # 0 /\ a \in Nat /\ a # 0 /\ b <= lastB /\ a <= lastA
    BY <1>3, <1>4, ConstantFacts
  <2>2. b - 1 \in Nat /\ b - 1 <= lastB
    BY <2>1
  <2>3. /\ (b - 1) * size \in Nat /\ lastB * size \in Nat
        /\ (b - 1) * size <= lastB * size
    BY <1>2, <2>2, ProductsGrow
  <2> QED BY <1>1, <2>1, <2>3
<1>6. high + lastB * size + lastA \in Nat
  <2>1. lastB * size \in Nat
    BY <1>2, ProductsGrow
  <2> QED BY <1>1, <2>1
<1>7. \A b, a : Allocate(used, b, a) = high + (b - 1) * size + a
  BY DEF Allocate, high, size
<1>8. \A b \in Bindings, a \in Algorithms :
        Allocate(used, b, a) \in Nat /\ Allocate(used, b, a) \notin used
  <2>1. SUFFICES ASSUME NEW b \in Bindings, NEW a \in Algorithms
                 PROVE  Allocate(used, b, a) \in Nat /\ Allocate(used, b, a) \notin used
    OBVIOUS
  <2>2. Allocate(used, b, a) \in Nat /\ Allocate(used, b, a) > high
    BY <1>5, <1>7
  <2> QED BY <1>1, <2>2
<1>9. \A b \in Bindings, a \in Algorithms :
        Allocate(used, b, a) <= high + lastB * size + lastA
  BY <1>5, <1>7
<1> QED BY <1>6, <1>8, <1>9

-----------------------------------------------------------------------------
(* Contents.                                                               *)

Bounded(S) == \E m \in Nat : \A id \in S : id <= m

\* An identifier of a content, and its place.
LEMMA IdHasPlace ==
  ASSUME NEW c
  PROVE  \A id : id \in Ids(c) <=>
           \E b \in DOMAIN c : \E a \in DOMAIN c[b].keys : id = c[b].keys[a]
<1>1. \A id, b : id \in KeysOf(c, b) <=> \E a \in DOMAIN c[b].keys : id = c[b].keys[a]
  BY DEF KeysOf
<1>2. \A id : id \in Ids(c) <=> \E b \in DOMAIN c : id \in KeysOf(c, b)
  BY DEF Ids
<1> QED BY <1>1, <1>2

LEMMA IdIsNumber ==
  ASSUME NEW c, ContentOK(c)
  PROVE  Ids(c) \subseteq Nat
<1>1. \A b \in DOMAIN c : \A a \in DOMAIN c[b].keys : c[b].keys[a] \in Nat
  BY DEF ContentOK, ProfileOK, CredentialsOK
<1> QED BY <1>1, IdHasPlace

\* Fresh keys for a set of algorithms.
LEMMA FreshKeysAreNew ==
  ASSUME NEW used \in SUBSET Nat, Bounded(used), NEW b \in Bindings,
         NEW A \in SUBSET Algorithms
  PROVE  /\ CredentialsOK(FreshKeys(used, b, A)) /\ DOMAIN FreshKeys(used, b, A) = A
         /\ \A a \in A : FreshKeys(used, b, A)[a] = Allocate(used, b, a)
         /\ \A a \in A : FreshKeys(used, b, A)[a] \notin used
<1>1. PICK top \in Nat : \A id \in used : id <= top
  BY DEF Bounded
<1>2. \A a \in A : Allocate(used, b, a) \in Nat /\ Allocate(used, b, a) \notin used
  BY <1>1, AllocatedAbove
<1> QED BY <1>2 DEF FreshKeys, CredentialsOK

LEMMA NewKeysForProfile ==
  ASSUME NEW p, ProfileOK(p), NEW keys, CredentialsOK(keys)
  PROVE  LET q == [p EXCEPT !.keys = keys]
         IN /\ ProfileOK(q) /\ q.keys = keys
            /\ q.status = p.status /\ q.rollout = p.rollout
<1>1. [p EXCEPT !.keys = keys] =
        [status |-> p.status, rollout |-> p.rollout, keys |-> keys]
  BY DEF ProfileOK
<1> QED BY <1>1 DEF ProfileOK

\* The rotating planners replace the keys of the chosen bindings.
LEMMA PlannedContent ==
  ASSUME NEW c, ContentOK(c), NEW S \in SUBSET DOMAIN c, NEW algorithms,
         \A b \in S : algorithms[b] \in SUBSET Algorithms,
         NEW used \in SUBSET Nat, Bounded(used), Ids(c) \subseteq used
  PROVE  LET new == Planned(c, S, algorithms, used)
         IN /\ ContentOK(new) /\ DOMAIN new = DOMAIN c /\ Bounded(Ids(new))
            /\ \A b \in DOMAIN c : /\ new[b].status = c[b].status
                                   /\ new[b].rollout = c[b].rollout
            /\ \A b \in DOMAIN c \ S : new[b] = c[b]
            /\ \A b \in S : /\ DOMAIN new[b].keys = algorithms[b]
                            /\ KeysOf(new, b) \cap used = {}
<1> DEFINE new == Planned(c, S, algorithms, used)
           fresh(b) == FreshKeys(used, b, algorithms[b])
<1>1. DOMAIN c \subseteq Bindings /\ \A b \in DOMAIN c : ProfileOK(c[b])
  BY DEF ContentOK
<1>2. ASSUME NEW b \in S
      PROVE  /\ CredentialsOK(fresh(b)) /\ DOMAIN fresh(b) = algorithms[b]
             /\ \A a \in algorithms[b] : fresh(b)[a] \notin used
             /\ \A a \in algorithms[b] : fresh(b)[a] = Allocate(used, b, a)
  BY <1>1, FreshKeysAreNew
<1>3. /\ new = [b \in DOMAIN c |-> new[b]] /\ DOMAIN new = DOMAIN c
      /\ \A b \in DOMAIN c \ S : new[b] = c[b]
      /\ \A b \in S : new[b] = [c[b] EXCEPT !.keys = fresh(b)]
  BY DEF Planned
<1> HIDE DEF new, fresh
<1>4. \A b \in S : /\ ProfileOK(new[b]) /\ new[b].keys = fresh(b)
                   /\ new[b].status = c[b].status /\ new[b].rollout = c[b].rollout
  <2>1. TAKE b \in S
  <2>2. ProfileOK(c[b]) /\ CredentialsOK(fresh(b)) /\ new[b] = [c[b] EXCEPT !.keys = fresh(b)]
    BY <1>1, <1>2, <1>3
  <2> QED BY <2>2, NewKeysForProfile
<1>5. ContentOK(new)
  BY <1>1, <1>3, <1>4 DEF ContentOK
<1>6. \A b \in S : DOMAIN new[b].keys = algorithms[b] /\ KeysOf(new, b) \cap used = {}
  BY <1>2, <1>4 DEF KeysOf
<1>7. Bounded(Ids(new))
  <2>1. PICK top \in Nat : \A id \in used : id <= top
    BY DEF Bounded
  <2>2. PICK m \in Nat : \A b \in Bindings, a \in Algorithms : Allocate(used, b, a) <= m
    BY <2>1, AllocatedAbove
  <2>3. \A id \in Ids(new) : id \in Nat /\ (id <= top \/ id <= m)
    <3>1. TAKE id \in Ids(new)
    <3>2. PICK b \in DOMAIN new : \E a \in DOMAIN new[b].keys : id = new[b].keys[a]
      BY IdHasPlace
    <3>3. PICK a \in DOMAIN new[b].keys : id = new[b].keys[a]
      BY <3>2
    <3>4. id \in Nat
      BY <1>5, IdIsNumber
    <3>5. CASE b \in S
      <4>1. a \in Algorithms /\ id = Allocate(used, b, a)
        BY <1>2, <1>4, <3>3, <3>5
      <4> QED BY <1>1, <1>3, <2>2, <3>4, <4>1
    <3>6. CASE b \notin S
      <4>1. id \in Ids(c)
        BY <1>3, <3>3, <3>6, IdHasPlace
      <4> QED BY <2>1, <3>4, <4>1
    <3> QED BY <3>5, <3>6
  <2>4. top + m \in Nat /\ \A id \in Ids(new) : id <= top + m
    BY <2>3
  <2> QED BY <2>4 DEF Bounded
<1>8. \A b \in DOMAIN c : new[b].status = c[b].status /\ new[b].rollout = c[b].rollout
  BY <1>3, <1>4
<1> QED BY <1>3, <1>5, <1>6, <1>7, <1>8 DEF new

\* A creation adds the chosen bindings with fresh keys, disabled.
LEMMA CreatedContent ==
  ASSUME NEW c, ContentOK(c), NEW S \in SUBSET Bindings, S \cap DOMAIN c = {},
         NEW algorithms \in SUBSET Algorithms,
         NEW used \in SUBSET Nat, Bounded(used), Ids(c) \subseteq used
  PROVE  LET new == PlanCreate(c, S, algorithms, used)
         IN /\ ContentOK(new) /\ DOMAIN new = DOMAIN c \cup S /\ Bounded(Ids(new))
            /\ \A b \in DOMAIN c : new[b] = c[b]
            /\ \A b \in S : /\ new[b] = Disabled(new[b].keys)
                            /\ DOMAIN new[b].keys = algorithms
                            /\ KeysOf(new, b) \cap used = {}
<1> DEFINE new == PlanCreate(c, S, algorithms, used)
           fresh(b) == FreshKeys(used, b, algorithms)
<1>1. DOMAIN c \subseteq Bindings /\ \A b \in DOMAIN c : ProfileOK(c[b])
  BY DEF ContentOK
<1>2. ASSUME NEW b \in S
      PROVE  /\ CredentialsOK(fresh(b)) /\ DOMAIN fresh(b) = algorithms
             /\ \A a \in algorithms : fresh(b)[a] \notin used
             /\ \A a \in algorithms : fresh(b)[a] = Allocate(used, b, a)
  BY FreshKeysAreNew
<1>3. /\ new = [b \in DOMAIN c \cup S |-> new[b]] /\ DOMAIN new = DOMAIN c \cup S
      /\ \A b \in DOMAIN c : new[b] = c[b]
      /\ \A b \in S : new[b] = Disabled(fresh(b))
  BY DEF PlanCreate
<1> HIDE DEF new, fresh
<1>4. \A b \in S : /\ ProfileOK(new[b]) /\ new[b].keys = fresh(b)
                   /\ new[b] = Disabled(new[b].keys)
  BY <1>2, <1>3 DEF Disabled, ProfileOK, Rollouts
<1>5. ContentOK(new)
  BY <1>1, <1>3, <1>4 DEF ContentOK
<1>6. \A b \in S : DOMAIN new[b].keys = algorithms /\ KeysOf(new, b) \cap used = {}
  BY <1>2, <1>4 DEF KeysOf
<1>7. Bounded(Ids(new))
  <2>1. PICK top \in Nat : \A id \in used : id <= top
    BY DEF Bounded
  <2>2. PICK m \in Nat : \A b \in Bindings, a \in Algorithms : Allocate(used, b, a) <= m
    BY <2>1, AllocatedAbove
  <2>3. \A id \in Ids(new) : id \in Nat /\ (id <= top \/ id <= m)
    <3>1. TAKE id \in Ids(new)
    <3>2. PICK b \in DOMAIN new : \E a \in DOMAIN new[b].keys : id = new[b].keys[a]
      BY IdHasPlace
    <3>3. PICK a \in DOMAIN new[b].keys : id = new[b].keys[a]
      BY <3>2
    <3>4. id \in Nat
      BY <1>5, IdIsNumber
    <3>5. CASE b \in S
      <4>1. a \in Algorithms /\ id = Allocate(used, b, a)
        BY <1>2, <1>4, <3>3, <3>5
      <4> QED BY <2>2, <3>4, <3>5, <4>1
    <3>6. CASE b \notin S
      <4>1. id \in Ids(c)
        BY <1>3, <3>3, <3>6, IdHasPlace
      <4> QED BY <2>1, <3>4, <4>1
    <3> QED BY <3>5, <3>6
  <2>4. top + m \in Nat /\ \A id \in Ids(new) : id <= top + m
    BY <2>3
  <2> QED BY <2>4 DEF Bounded
<1> QED BY <1>3, <1>4, <1>5, <1>6, <1>7 DEF new

\* An activation changes no keys.
LEMMA ActivatedContent ==
  ASSUME NEW c, ContentOK(c), NEW b \in DOMAIN c, NEW rollout \in Rollouts
  PROVE  LET new == PlanActivation(c, b, rollout)
         IN /\ ContentOK(new) /\ DOMAIN new = DOMAIN c /\ Ids(new) = Ids(c)
            /\ \A d \in DOMAIN c : new[d].keys = c[d].keys
            /\ \A d \in DOMAIN c \ {b} : new[d] = c[d]
<1> DEFINE new == PlanActivation(c, b, rollout)
           on == [status |-> "active", rollout |-> rollout, keys |-> c[b].keys]
<1>1. DOMAIN c \subseteq Bindings /\ \A d \in DOMAIN c : ProfileOK(c[d])
  BY DEF ContentOK
<1>2. new = [d \in DOMAIN c |-> IF d = b THEN on ELSE c[d]]
  BY DEF PlanActivation
<1>3. ProfileOK(on) /\ on.keys = c[b].keys
  BY <1>1 DEF ProfileOK
<1> HIDE DEF on, new
<1>4. /\ new = [d \in DOMAIN c |-> new[d]] /\ DOMAIN new = DOMAIN c
      /\ \A d \in DOMAIN c : ProfileOK(new[d]) /\ new[d].keys = c[d].keys
      /\ \A d \in DOMAIN c \ {b} : new[d] = c[d]
  BY <1>1, <1>2, <1>3
<1>5. ContentOK(new)
  BY <1>1, <1>4 DEF ContentOK
<1>6. Ids(new) = Ids(c)
  <2>1. \A d \in DOMAIN c : KeysOf(new, d) = KeysOf(c, d)
    BY <1>4 DEF KeysOf
  <2> QED BY <1>4, <2>1 DEF Ids
<1> QED BY <1>4, <1>5, <1>6 DEF new

\* A rebase takes one binding from the source as it is.
LEMMA RebasedContent ==
  ASSUME NEW c, ContentOK(c), NEW source, ContentOK(source),
         NEW b \in DOMAIN c, b \in DOMAIN source
  PROVE  LET new == Rebase(c, source, b)
         IN /\ ContentOK(new) /\ DOMAIN new = DOMAIN c
            /\ Ids(new) \subseteq Ids(c) \cup Ids(source)
            /\ new[b] = source[b] /\ \A d \in DOMAIN c \ {b} : new[d] = c[d]
<1> DEFINE new == Rebase(c, source, b)
<1>1. DOMAIN c \subseteq Bindings /\ \A d \in DOMAIN c : ProfileOK(c[d])
  BY DEF ContentOK
<1>2. ProfileOK(source[b])
  BY DEF ContentOK
<1>3. /\ new = [d \in DOMAIN c |-> new[d]] /\ DOMAIN new = DOMAIN c
      /\ new[b] = source[b] /\ \A d \in DOMAIN c \ {b} : new[d] = c[d]
  BY DEF Rebase, ContentOK
<1> HIDE DEF new
<1>4. ContentOK(new)
  BY <1>1, <1>2, <1>3 DEF ContentOK
<1>5. Ids(new) \subseteq Ids(c) \cup Ids(source)
  <2>1. \A id \in Ids(new) : id \in Ids(c) \/ id \in Ids(source)
    BY <1>3, IdHasPlace
  <2> QED BY <2>1
<1> QED BY <1>3, <1>4, <1>5 DEF new

-----------------------------------------------------------------------------
(* Staging.                                                                *)

Holds(n, b, a, id) ==
  /\ b \in DOMAIN roots[n].content /\ a \in DOMAIN roots[n].content[b].keys
  /\ roots[n].content[b].keys[a] = id

\* What a planner may hand to Stage: an identifier that some root uses already
\* is one that a root has in the same place.
Successor(content) ==
  /\ ContentOK(content) /\ Bounded(Ids(content))
  /\ \A b \in DOMAIN content : \A a \in DOMAIN content[b].keys :
       \/ content[b].keys[a] \notin Used
       \/ \E n \in DOMAIN roots : Holds(n, b, a, content[b].keys[a])

\* Identifiers in use, root by root and place by place.
LEMMA UsedHasPlace ==
  /\ \A id : id \in Used <=> \E n \in DOMAIN roots : id \in Ids(roots[n].content)
  /\ \A id : id \in Used <=>
       \E n \in DOMAIN roots : \E b \in DOMAIN roots[n].content :
         \E a \in DOMAIN roots[n].content[b].keys : id = roots[n].content[b].keys[a]
<1>1. \A id : id \in Used <=> \E n \in DOMAIN roots : id \in Ids(roots[n].content)
  BY DEF Used
<1> QED BY <1>1, IdHasPlace

LEMMA UsedFacts ==
  ASSUME TypeOK, HistoryInv
  PROVE  /\ Used \in SUBSET Nat /\ Bounded(Used)
         /\ current > 0 => /\ current \in DOMAIN roots /\ current \in Nat
                           /\ ContentOK(Content) /\ Ids(Content) \subseteq Used
<1>1. \A n \in DOMAIN roots : ContentOK(roots[n].content)
  BY DEF TypeOK, RootOK
<1>2. \A n \in DOMAIN roots : Ids(roots[n].content) \subseteq Nat
  BY <1>1, IdIsNumber
<1>3. Used \in SUBSET Nat
  BY <1>2, UsedHasPlace
<1>4. Bounded(Used)
  BY DEF HistoryInv, Bounded
<1>5. ASSUME current > 0
      PROVE  /\ current \in DOMAIN roots /\ current \in Nat
             /\ ContentOK(Content) /\ Ids(Content) \subseteq Used
  <2>1. current \in DOMAIN roots /\ current \in Nat
    BY <1>5, ConstantFacts DEF HistoryInv, TypeOK
  <2> QED BY <1>1, <2>1, UsedHasPlace DEF Content
<1> QED BY <1>3, <1>4, <1>5

\* The roots after staging.
Appended(native, kind, S, algorithms, source, content) ==
  /\ current + 1 \notin DOMAIN roots /\ current < LastNumber /\ Complete(content)
  /\ DOMAIN roots' = DOMAIN roots \cup {current + 1}
  /\ roots' = [n \in DOMAIN roots' |-> roots'[n]]
  /\ \A n \in DOMAIN roots : roots'[n] = roots[n]
  /\ roots'[current + 1] =
       [created |-> now, native |-> native, content |-> content]
  /\ plan' = [kind |-> kind, of |-> S, algorithms |-> algorithms,
              source |-> source]
  /\ current' = current /\ now' = now

LEMMA StagedRoots ==
  ASSUME NEW native, NEW kind, NEW S, NEW algorithms, NEW source, NEW content,
         Stage(native, kind, S, algorithms, source, content)
  PROVE  Appended(native, kind, S, algorithms, source, content)
BY DEF Stage, Pending, Appended

\* The places of the new root and those of the older ones stay apart.
LEMMA StagedPlaces ==
  ASSUME TypeOK, PlacesUnique, NEW native, NEW kind, NEW S, NEW algorithms,
         NEW source, NEW content,
         Stage(native, kind, S, algorithms, source, content), Successor(content)
  PROVE  PlacesUnique'
<1>0. Appended(native, kind, S, algorithms, source, content)
  BY StagedRoots
<1> DEFINE Place(c, b, a) == b \in DOMAIN c /\ a \in DOMAIN c[b].keys
           Same(c, d) == \A b, a, e, f :
             Place(c, b, a) /\ Place(d, e, f) /\ c[b].keys[a] = d[e].keys[f] =>
               b = e /\ a = f
<1>1. \A m, n \in DOMAIN roots : Same(roots[m].content, roots[n].content)
  BY DEF PlacesUnique
<1>2. \A n \in DOMAIN roots : \A b, a : Place(roots[n].content, b, a) =>
        roots[n].content[b].keys[a] \in Used
  BY UsedHasPlace
<1>3. \A b, a : Place(content, b, a) =>
        \/ content[b].keys[a] \notin Used
        \/ \E n \in DOMAIN roots : /\ Place(roots[n].content, b, a)
                                   /\ roots[n].content[b].keys[a] = content[b].keys[a]
  BY DEF Successor, Holds
<1>4. Same(content, content)
  BY <1>0 DEF Complete, Appended
<1>5. \A n \in DOMAIN roots : Same(content, roots[n].content)
  <2>1. SUFFICES ASSUME NEW n \in DOMAIN roots, NEW b, NEW a, NEW e, NEW f,
                        Place(content, b, a), Place(roots[n].content, e, f),
                        content[b].keys[a] = roots[n].content[e].keys[f]
                 PROVE  b = e /\ a = f
    OBVIOUS
  <2>2. content[b].keys[a] \in Used
    <3> HIDE DEF Place
    <3> QED BY <1>2, <2>1
  <2>3. PICK m \in DOMAIN roots :
          /\ Place(roots[m].content, b, a)
          /\ roots[m].content[b].keys[a] = content[b].keys[a]
    <3> HIDE DEF Place
    <3> QED BY <1>3, <2>1, <2>2
  <2> HIDE DEF Place
  <2> QED BY <1>1, <2>1, <2>3
<1>6. \A n \in DOMAIN roots : Same(roots[n].content, content)
  <2> HIDE DEF Place
  <2> QED BY <1>5
<1>7. \A m, n \in DOMAIN roots' : Same(roots'[m].content, roots'[n].content)
  <2> HIDE DEF Same
  <2>1. roots'[current + 1].content = content
    BY <1>0 DEF Appended
  <2> QED BY <1>1, <1>4, <1>5, <1>6, <2>1, <1>0 DEF Appended
<1> QED BY <1>7 DEF PlacesUnique

\* Staging a successor keeps the history; what is left to show of an action is
\* that the new root is what its plan says.
StagedAs(native, kind, S, algorithms, source, content) ==
  /\ TypeOK' /\ HistoryInv' /\ PlacesUnique'
  /\ Candidate'.content = content /\ Candidate'.native = native
  /\ Older' = Used /\ current' = current
  /\ current > 0 => Content' = Content
  /\ \A n \in DOMAIN roots : n \in DOMAIN roots' /\ roots'[n] = roots[n]
  /\ plan'.kind = kind /\ plan'.of = S /\ plan'.algorithms = algorithms
  /\ plan'.source = source

LEMMA StageKeeps ==
  ASSUME SuccessorsInv, NEW native \in BOOLEAN, NEW kind \in Kinds \ {"none"},
         NEW S \in SUBSET Bindings, NEW algorithms \in SUBSET Algorithms,
         NEW source \in Nat, NEW content,
         Stage(native, kind, S, algorithms, source, content), Successor(content)
  PROVE  StagedAs(native, kind, S, algorithms, source, content)
<1>0. Appended(native, kind, S, algorithms, source, content)
  BY StagedRoots
<1>1. TypeOK /\ HistoryInv /\ PlacesUnique
  BY DEF SuccessorsInv
<1>2. ContentOK(content) /\ Bounded(Ids(content)) /\ Complete(content)
  BY <1>1, <1>0 DEF Successor, Appended
<1>3. current \in Nat /\ now \in Nat /\ LastNumber \in Nat
  BY <1>1, ConstantFacts DEF TypeOK
<1>4. /\ roots'[current + 1].content = content /\ roots'[current + 1].created = now
      /\ roots'[current + 1].native = native
      /\ \A n \in DOMAIN roots' : n \in DOMAIN roots \/ n = current + 1
  BY <1>1, <1>0 DEF Appended
<1>5. TypeOK'
  <2>1. plan' \in Plans
    BY <1>1, <1>0 DEF Plans, Appended
  <2>2. RootOK(roots'[current + 1])
    BY <1>1, <1>2, <1>3, <1>0 DEF RootOK, Appended
  <2>3. DOMAIN roots' \subseteq 1..(current' + 1) \cap 1..LastNumber
    BY <1>1, <1>3, <1>0 DEF TypeOK, Appended
  <2>4. \A n \in DOMAIN roots' : RootOK(roots'[n])
    BY <1>1, <1>4, <2>2, <1>0 DEF TypeOK, Appended
  <2>5. current' \in 0..LastNumber /\ now' \in 0..MaxTime
    BY <1>1, <1>0 DEF TypeOK, Appended
  <2> QED BY <1>1, <2>1, <2>3, <2>4, <2>5, <1>0 DEF TypeOK, Appended
<1>6. \A id \in Used' : id \in Used \/ id \in Ids(content)
  <2>1. TAKE id \in Used'
  <2>2. PICK n \in DOMAIN roots' : id \in Ids(roots'[n].content)
    BY DEF Used
  <2> QED BY <1>1, <1>4, <2>2, <1>0, UsedHasPlace DEF Appended
<1>7. HistoryInv'
  <2>1. current' > 0 => current' \in DOMAIN roots'
    BY <1>1, <1>0 DEF HistoryInv, Appended
  <2>2. \A n \in DOMAIN roots' :
          Complete(roots'[n].content) /\ roots'[n].created <= now'
    <3>1. \A n \in DOMAIN roots : Complete(roots[n].content) /\ roots[n].created <= now
      BY <1>1 DEF HistoryInv
    <3>2. now <= now
      BY <1>3
    <3> QED BY <1>1, <1>2, <1>4, <3>1, <3>2, <1>0 DEF Appended
  <2>3. PICK m \in Nat : \A id \in Used : id <= m
    BY <1>1 DEF HistoryInv
  <2>4. PICK k \in Nat : \A id \in Ids(content) : id <= k
    BY <1>2 DEF Bounded
  <2>5. \A id \in Used' : id <= m + k
    <3>1. Used \subseteq Nat /\ Ids(content) \subseteq Nat
      BY <1>1, <1>2, UsedFacts, IdIsNumber
    <3>2. TAKE id \in Used'
    <3>3. id \in Nat /\ (id <= m \/ id <= k)
      BY <1>6, <2>3, <2>4, <3>1
    <3> QED BY <3>3
  <2>6. m + k \in Nat
    OBVIOUS
  <2> QED BY <2>1, <2>2, <2>5, <2>6 DEF HistoryInv
<1>8. PlacesUnique'
  BY <1>1, StagedPlaces
<1>9. Candidate'.content = content /\ Candidate'.native = native
  BY <1>1, <1>4, <1>0 DEF Candidate, Appended
<1>10. current > 0 => Content' = Content
  BY <1>1, <1>0 DEF Content, HistoryInv, Appended
<1>11. Older' = Used
  <2>1. \A id : id \in Older' <=>
          \E n \in DOMAIN roots' \ {current' + 1} : id \in Ids(roots'[n].content)
    BY DEF Older
  <2>2. DOMAIN roots' \ {current' + 1} = DOMAIN roots
    BY <1>1, <1>0 DEF Appended
  <2>3. \A id : id \in Older' <=> id \in Used
    BY <1>1, <2>1, <2>2, <1>0, UsedHasPlace DEF Appended
  <2> QED BY <2>3
<1>12. /\ \A n \in DOMAIN roots : n \in DOMAIN roots' /\ roots'[n] = roots[n]
       /\ current' = current
       /\ plan'.kind = kind /\ plan'.of = S /\ plan'.algorithms = algorithms
       /\ plan'.source = source
  BY <1>0 DEF Appended
<1> QED BY <1>5, <1>7, <1>8, <1>9, <1>10, <1>11, <1>12 DEF StagedAs

-----------------------------------------------------------------------------
(* Actions.                                                                *)

\* A content whose bindings have fresh keys, or the keys the current has.
LEMMA FreshOrCarried ==
  ASSUME SuccessorsInv, current > 0, NEW content, ContentOK(content),
         Bounded(Ids(content)),
         \A b \in DOMAIN content :
           \/ KeysOf(content, b) \cap Used = {}
           \/ b \in DOMAIN Content /\ content[b].keys = Content[b].keys
  PROVE  Successor(content)
<1>1. current \in DOMAIN roots
  BY UsedFacts DEF SuccessorsInv
<1>2. SUFFICES ASSUME NEW b \in DOMAIN content, NEW a \in DOMAIN content[b].keys
               PROVE  \/ content[b].keys[a] \notin Used
                      \/ \E n \in DOMAIN roots : Holds(n, b, a, content[b].keys[a])
  BY DEF Successor
<1>3. CASE KeysOf(content, b) \cap Used = {}
  BY <1>3 DEF KeysOf
<1>4. CASE b \in DOMAIN Content /\ content[b].keys = Content[b].keys
  BY <1>1, <1>4 DEF Holds, Content
<1> QED BY <1>2, <1>3, <1>4

LEMMA FirstCreation ==
  ASSUME SuccessorsInv, current = 0, NEW S \in SUBSET Bindings,
         NEW algorithms \in SUBSET Algorithms, Create(S, algorithms)
  PROVE  SuccessorsInv'
<1> DEFINE new == PlanCreate(<<>>, S, algorithms, Used)
<1>1. Used \in SUBSET Nat /\ Bounded(Used)
  BY UsedFacts DEF SuccessorsInv
<1>2. ContentOK(<<>>) /\ DOMAIN <<>> = {} /\ Ids(<<>>) = {}
  <2>1. DOMAIN <<>> = {}
    OBVIOUS
  <2>2. <<>> = [b \in {} |-> <<>>[b]]
    BY <2>1
  <2> QED BY <2>1, <2>2 DEF ContentOK, Ids
<1>3. /\ ContentOK(new) /\ DOMAIN new = S /\ Bounded(Ids(new))
      /\ \A b \in S : KeysOf(new, b) \cap Used = {}
  <2>1. S \cap DOMAIN <<>> = {} /\ Ids(<<>>) \subseteq Used
    BY <1>2
  <2>2. /\ ContentOK(new) /\ DOMAIN new = DOMAIN <<>> \cup S /\ Bounded(Ids(new))
        /\ \A b \in S : KeysOf(new, b) \cap Used = {}
    BY <1>1, <1>2, <2>1, CreatedContent
  <2> HIDE DEF new
  <2> QED BY <1>2, <2>2
<1>4. PICK native \in BOOLEAN : Stage(native, "create", S, algorithms, 0, new)
  BY DEF Create
<1> HIDE DEF new
<1>5. Successor(new)
  BY <1>3 DEF Successor, KeysOf
<1>6. StagedAs(native, "create", S, algorithms, 0, new)
  <2>1. "create" \in Kinds \ {"none"} /\ 0 \in Nat
    BY DEF Kinds
  <2> QED BY <1>4, <1>5, <2>1, StageKeeps
<1>7. CandidateInv'
  BY <1>6 DEF CandidateInv, StagedAs
<1> QED BY <1>6, <1>7 DEF SuccessorsInv, StagedAs

LEMMA LaterCreation ==
  ASSUME SuccessorsInv, current > 0, NEW S \in SUBSET Bindings,
         NEW algorithms \in SUBSET Algorithms, Create(S, algorithms)
  PROVE  SuccessorsInv'
<1> DEFINE new == PlanCreate(Content, S, algorithms, Used)
<1>1. /\ Used \in SUBSET Nat /\ Bounded(Used)
      /\ ContentOK(Content) /\ Ids(Content) \subseteq Used
  BY UsedFacts DEF SuccessorsInv
<1>2. current # 0
  BY UsedFacts DEF SuccessorsInv
<1>3. S # {} /\ algorithms # {} /\ S \cap DOMAIN Content = {}
  BY <1>2 DEF Create
<1>4. /\ ContentOK(new) /\ DOMAIN new = DOMAIN Content \cup S /\ Bounded(Ids(new))
      /\ \A b \in DOMAIN Content : new[b] = Content[b]
      /\ \A b \in S : /\ new[b] = Disabled(new[b].keys)
                      /\ DOMAIN new[b].keys = algorithms
                      /\ KeysOf(new, b) \cap Used = {}
  BY <1>1, <1>3, CreatedContent
<1>5. PICK native \in BOOLEAN : Stage(native, "create", S, algorithms, 0, new)
  BY <1>2 DEF Create
<1> HIDE DEF new
<1>6. Successor(new)
  BY <1>4, FreshOrCarried
<1>7. StagedAs(native, "create", S, algorithms, 0, new)
  <2>1. "create" \in Kinds \ {"none"} /\ 0 \in Nat
    BY DEF Kinds
  <2> QED BY <1>5, <1>6, <2>1, StageKeeps
<1>8. Added(Content, new, S, algorithms, Used)
  BY <1>3, <1>4 DEF Added
<1>9. CandidateInv'
  BY <1>2, <1>7, <1>8
     DEF CandidateInv, CreatePlan, ActivatePlan, RekeyPlan, RollbackPlan, StagedAs
<1> QED BY <1>7, <1>9 DEF SuccessorsInv, StagedAs

LEMMA ActivateKeeps ==
  ASSUME SuccessorsInv, NEW b \in Bindings, NEW rollout \in {"enforce", "observe"},
         Activate(b, rollout)
  PROVE  SuccessorsInv'
<1> DEFINE new == PlanActivation(Content, b, rollout)
<1>1. current > 0 /\ b \in DOMAIN Content /\ rollout \in Rollouts
  BY DEF Activate, Rollouts
<1>2. /\ Bounded(Used) /\ ContentOK(Content) /\ Ids(Content) \subseteq Used
      /\ current # 0
  BY <1>1, UsedFacts DEF SuccessorsInv
<1>3. /\ ContentOK(new) /\ DOMAIN new = DOMAIN Content /\ Ids(new) = Ids(Content)
      /\ \A d \in DOMAIN Content : new[d].keys = Content[d].keys
      /\ \A d \in DOMAIN Content \ {b} : new[d] = Content[d]
  BY <1>1, <1>2, ActivatedContent
<1>4. PICK native \in BOOLEAN : Stage(native, "activate", {b}, {}, 0, new)
  BY DEF Activate
<1> HIDE DEF new
<1>5. Bounded(Ids(new))
  BY <1>2, <1>3 DEF Bounded
<1>6. Successor(new)
  BY <1>1, <1>3, <1>5, FreshOrCarried
<1>7. StagedAs(native, "activate", {b}, {}, 0, new)
  <2>1. /\ "activate" \in Kinds \ {"none"} /\ 0 \in Nat
        /\ {b} \in SUBSET Bindings /\ {} \in SUBSET Algorithms
    BY DEF Kinds
  <2> QED BY <1>4, <1>6, <2>1, StageKeeps
<1>8. CandidateInv'
  BY <1>1, <1>2, <1>3, <1>7
     DEF CandidateInv, CreatePlan, ActivatePlan, RekeyPlan, RollbackPlan, StagedAs
<1> QED BY <1>7, <1>8 DEF SuccessorsInv, StagedAs

\* What the three rotating planners have in common.
LEMMA RekeyedContent ==
  ASSUME SuccessorsInv, current > 0, NEW S \in SUBSET Active(Content), S # {},
         NEW algorithms,
         \A b \in S : /\ algorithms[b] \in SUBSET Algorithms
                      /\ DOMAIN Content[b].keys \subseteq algorithms[b]
  PROVE  LET new == Planned(Content, S, algorithms, Used)
         IN /\ Successor(new) /\ Rekeyed(Content, new, S, Used)
            /\ \A b \in S : DOMAIN new[b].keys = algorithms[b]
<1> DEFINE new == Planned(Content, S, algorithms, Used)
<1>1. /\ Used \in SUBSET Nat /\ Bounded(Used) /\ ContentOK(Content)
      /\ Ids(Content) \subseteq Used
  BY UsedFacts DEF SuccessorsInv
<1>2. S \in SUBSET DOMAIN Content
  BY DEF Active
<1>3. /\ ContentOK(new) /\ DOMAIN new = DOMAIN Content /\ Bounded(Ids(new))
      /\ \A b \in DOMAIN Content : /\ new[b].status = Content[b].status
                                   /\ new[b].rollout = Content[b].rollout
      /\ \A b \in DOMAIN Content \ S : new[b] = Content[b]
      /\ \A b \in S : /\ DOMAIN new[b].keys = algorithms[b]
                      /\ KeysOf(new, b) \cap Used = {}
  BY <1>1, <1>2, PlannedContent
<1> HIDE DEF new
<1>4. Successor(new)
  <2>1. \A b \in DOMAIN new :
          \/ KeysOf(new, b) \cap Used = {}
          \/ b \in DOMAIN Content /\ new[b].keys = Content[b].keys
    BY <1>3
  <2> QED BY <1>3, <2>1, FreshOrCarried
<1>5. Rekeyed(Content, new, S, Used)
  BY <1>3 DEF Rekeyed, SameFacts
<1> QED BY <1>3, <1>4, <1>5 DEF new

LEMMA RotateKeeps ==
  ASSUME SuccessorsInv, NEW b \in Bindings, NEW algorithms \in SUBSET Algorithms,
         Rotate(b, algorithms)
  PROVE  SuccessorsInv'
<1> DEFINE sets == [d \in {b} |-> algorithms]
           new == Planned(Content, {b}, sets, Used)
<1>1. /\ current > 0 /\ {b} \in SUBSET Active(Content)
      /\ DOMAIN Content[b].keys \subseteq algorithms
  BY DEF Rotate, CanRotate
<1>2. Successor(new) /\ Rekeyed(Content, new, {b}, Used)
  <2>1. \A d \in {b} : /\ sets[d] \in SUBSET Algorithms
                       /\ DOMAIN Content[d].keys \subseteq sets[d]
    BY <1>1
  <2> HIDE DEF sets
  <2> QED BY <1>1, <2>1, RekeyedContent
<1>3. Stage(FALSE, "rotate", {b}, algorithms, 0, new)
  BY DEF Rotate, PlanRotation
<1> HIDE DEF new, sets
<1>4. StagedAs(FALSE, "rotate", {b}, algorithms, 0, new)
  <2>1. /\ "rotate" \in Kinds \ {"none"} /\ 0 \in Nat
        /\ {b} \in SUBSET Bindings /\ FALSE \in BOOLEAN
    BY DEF Kinds
  <2> QED BY <1>2, <1>3, <2>1, StageKeeps
<1>5. current # 0
  BY <1>1, UsedFacts DEF SuccessorsInv
<1>6. CandidateInv'
  BY <1>1, <1>2, <1>4, <1>5
     DEF CandidateInv, CreatePlan, ActivatePlan, RekeyPlan, RollbackPlan, StagedAs
<1> QED BY <1>4, <1>6 DEF SuccessorsInv, StagedAs

LEMMA CampaignKeeps ==
  ASSUME SuccessorsInv, Campaign
  PROVE  SuccessorsInv'
<1> DEFINE due == Due(roots, Content, now)
           new == Planned(Content, due, OwnAlgorithms(Content), Used)
<1>1. /\ current > 0 /\ due # {} /\ due \in SUBSET Active(Content)
      /\ Cardinality(Active(Content)) <= MaxBindings
  BY DEF Campaign, CanCampaign, Due
<1>2. Stage(TRUE, "campaign", due, {}, 0, new)
  BY DEF Campaign, PlanGlobalRotation
<1>3. ContentOK(Content) /\ current # 0
  BY <1>1, UsedFacts DEF SuccessorsInv
<1> HIDE DEF due
<1>4. /\ Successor(new) /\ Rekeyed(Content, new, due, Used)
      /\ \A b \in due : DOMAIN new[b].keys = DOMAIN Content[b].keys
  <2> DEFINE own == OwnAlgorithms(Content)
  <2>1. \A b \in due : /\ own[b] \in SUBSET Algorithms
                       /\ DOMAIN Content[b].keys \subseteq own[b]
                       /\ own[b] = DOMAIN Content[b].keys
    BY <1>1, <1>3 DEF OwnAlgorithms, Active, ContentOK, ProfileOK, CredentialsOK
  <2> HIDE DEF own
  <2>2. /\ Successor(new) /\ Rekeyed(Content, new, due, Used)
        /\ \A b \in due : DOMAIN new[b].keys = own[b]
    BY <1>1, <2>1, RekeyedContent DEF own
  <2> HIDE DEF new
  <2> QED BY <2>1, <2>2
<1> HIDE DEF new
<1>5. StagedAs(TRUE, "campaign", due, {}, 0, new)
  <2>1. /\ "campaign" \in Kinds \ {"none"} /\ 0 \in Nat /\ TRUE \in BOOLEAN
        /\ due \in SUBSET Bindings /\ {} \in SUBSET Algorithms
    BY <1>1, <1>3 DEF Kinds, ContentOK, Active
  <2> QED BY <1>2, <1>4, <2>1, StageKeeps
<1>6. CandidateInv'
  BY <1>1, <1>3, <1>4, <1>5
     DEF CandidateInv, CreatePlan, ActivatePlan, RekeyPlan, RollbackPlan, StagedAs
<1> QED BY <1>5, <1>6 DEF SuccessorsInv, StagedAs

LEMMA ExtendKeeps ==
  ASSUME SuccessorsInv, NEW algorithms \in SUBSET Algorithms, Extend(algorithms)
  PROVE  SuccessorsInv'
<1> DEFINE S == Active(Content)
           sets == [b \in Active(Content) |-> algorithms]
           new == Planned(Content, S, sets, Used)
<1>1. /\ current > 0 /\ S # {} /\ Cardinality(S) <= MaxBindings
      /\ \A b \in S : DOMAIN Content[b].keys \subseteq algorithms
  BY DEF Extend, CanExtend
<1>2. Stage(TRUE, "extension", S, algorithms, 0, new)
  BY DEF Extend, PlanGlobalExtension
<1>3. ContentOK(Content) /\ current # 0
  BY <1>1, UsedFacts DEF SuccessorsInv
<1>4. /\ Successor(new) /\ Rekeyed(Content, new, S, Used)
      /\ \A b \in S : DOMAIN new[b].keys = algorithms
  <2>1. \A b \in S : /\ sets[b] = algorithms
                     /\ sets[b] \in SUBSET Algorithms
                     /\ DOMAIN Content[b].keys \subseteq sets[b]
    BY <1>1
  <2>2. S \in SUBSET Active(Content)
    OBVIOUS
  <2> HIDE DEF sets, S
  <2>3. /\ Successor(new) /\ Rekeyed(Content, new, S, Used)
        /\ \A b \in S : DOMAIN new[b].keys = sets[b]
    BY <1>1, <2>1, <2>2, RekeyedContent
  <2> QED BY <2>1, <2>3
<1>5. S \in SUBSET Bindings
  BY <1>3 DEF ContentOK, Active
<1> HIDE DEF new, sets
<1>6. StagedAs(TRUE, "extension", S, algorithms, 0, new)
  <2>1. /\ "extension" \in Kinds \ {"none"} /\ 0 \in Nat /\ TRUE \in BOOLEAN
    BY DEF Kinds
  <2> HIDE DEF S
  <2> QED BY <1>2, <1>4, <1>5, <2>1, StageKeeps
<1>7. CandidateInv'
  BY <1>1, <1>3, <1>4, <1>6
     DEF CandidateInv, CreatePlan, ActivatePlan, RekeyPlan, RollbackPlan, StagedAs
<1> QED BY <1>6, <1>7 DEF SuccessorsInv, StagedAs

LEMMA RollBackKeeps ==
  ASSUME SuccessorsInv, NEW b \in Bindings, NEW source \in DOMAIN roots,
         RollBack(b, source)
  PROVE  SuccessorsInv'
<1> DEFINE old == roots[source].content
           new == Rebase(Content, old, b)
<1>1. current > 0 /\ source < current /\ CanRollBack(Content, old, b)
  BY DEF RollBack
<1>2. b \in DOMAIN Content /\ b \in DOMAIN old
  BY <1>1 DEF CanRollBack, Active
<1>3. /\ ContentOK(Content) /\ ContentOK(old) /\ source \in Nat /\ current # 0
      /\ current \in DOMAIN roots
  <2>1. ContentOK(old) /\ source \in Nat
    BY UsedFacts, ConstantFacts DEF SuccessorsInv, TypeOK, RootOK
  <2> QED BY <1>1, <2>1, UsedFacts DEF SuccessorsInv
<1>4. /\ ContentOK(new) /\ DOMAIN new = DOMAIN Content
      /\ Ids(new) \subseteq Ids(Content) \cup Ids(old)
      /\ new[b] = old[b] /\ \A d \in DOMAIN Content \ {b} : new[d] = Content[d]
  <2> HIDE DEF old
  <2>1. ContentOK(new) /\ DOMAIN new = DOMAIN Content
    BY <1>2, <1>3, RebasedContent
  <2>2. Ids(new) \subseteq Ids(Content) \cup Ids(old)
    BY <1>2, <1>3, RebasedContent
  <2>3. new[b] = old[b]
    BY <1>2, <1>3, RebasedContent
  <2>4. \A d \in DOMAIN Content \ {b} : new[d] = Content[d]
    BY <1>2, <1>3, RebasedContent
  <2> HIDE DEF new
  <2> QED BY <2>1, <2>2, <2>3, <2>4
<1>5. Stage(FALSE, "rollback", {b}, {}, source, new)
  BY DEF RollBack
<1>6. Successor(new)
  <2>1. Ids(new) \subseteq Used
    BY <1>1, <1>4, UsedFacts, UsedHasPlace DEF SuccessorsInv
  <2>2. Bounded(Ids(new))
    <3>1. Bounded(Used)
      BY UsedFacts DEF SuccessorsInv
    <3> HIDE DEF new
    <3> QED BY <2>1, <3>1 DEF Bounded
  <2>3. ASSUME NEW d \in DOMAIN new, NEW a \in DOMAIN new[d].keys
        PROVE  \E n \in DOMAIN roots : Holds(n, d, a, new[d].keys[a])
    <3> HIDE DEF new
    <3>1. CASE d = b
      <4>1. Holds(source, d, a, new[d].keys[a])
        BY <1>2, <1>4, <2>3, <3>1 DEF Holds
      <4> QED BY <4>1
    <3>2. CASE d # b
      <4>1. Holds(current, d, a, new[d].keys[a])
        BY <1>4, <2>3, <3>2 DEF Holds, Content
      <4> QED BY <1>3, <4>1
    <3> QED BY <3>1, <3>2
  <2> HIDE DEF new
  <2> QED BY <1>4, <2>2, <2>3 DEF Successor
<1>7. StagedAs(FALSE, "rollback", {b}, {}, source, new)
  <2>1. /\ "rollback" \in Kinds \ {"none"} /\ FALSE \in BOOLEAN
        /\ {b} \in SUBSET Bindings /\ {} \in SUBSET Algorithms
    BY DEF Kinds
  <2> HIDE DEF new
  <2> QED BY <1>3, <1>5, <1>6, <2>1, StageKeeps
<1>8. RollbackPlan'
  <2>1. roots'[source].content = old
    BY <1>7 DEF StagedAs
  <2>2. /\ ~Candidate'.native
        /\ plan'.source < current' /\ plan'.source \in DOMAIN roots'
        /\ plan'.of = {b}
        /\ CanRollBack(Content', roots'[plan'.source].content, b)
        /\ Candidate'.content = Rebase(Content', roots'[plan'.source].content, b)
    BY <1>1, <1>7, <2>1 DEF StagedAs
  <2> QED BY <2>2 DEF RollbackPlan
<1>9. CandidateInv'
  BY <1>1, <1>3, <1>7, <1>8
     DEF CandidateInv, CreatePlan, ActivatePlan, RekeyPlan, StagedAs
<1> QED BY <1>7, <1>9 DEF SuccessorsInv, StagedAs

\* The first step of a chain: nothing is retained.
LEMMA InitHolds == Init => SuccessorsInv
<1>1. SUFFICES ASSUME Init PROVE SuccessorsInv
  OBVIOUS
<1>2. roots = <<>> /\ current = 0 /\ now = 0 /\ DOMAIN roots = {}
  BY <1>1 DEF Init
<1>3. TypeOK
  <2>1. roots = [n \in DOMAIN roots |-> roots[n]]
    BY <1>2
  <2>2. plan \in Plans
    BY <1>1 DEF Init, Plans, Kinds
  <2> QED BY <1>2, <2>1, <2>2, ConstantFacts DEF TypeOK
<1>4. HistoryInv
  <2>1. \A id \in Used : id <= 0
    BY <1>2, UsedHasPlace
  <2> QED BY <1>2, <2>1 DEF HistoryInv
<1>5. PlacesUnique /\ CandidateInv
  BY <1>2 DEF PlacesUnique, CandidateInv, Pending
<1> QED BY <1>3, <1>4, <1>5 DEF SuccessorsInv

LEMMA CommitKeeps ==
  ASSUME SuccessorsInv, Commit
  PROVE  SuccessorsInv'
<1>1. /\ current + 1 \in DOMAIN roots /\ current' = current + 1
      /\ roots' = roots /\ now' = now /\ plan' = plan
  BY DEF Commit, Pending
<1>2. current \in Nat /\ LastNumber \in Nat /\ DOMAIN roots \subseteq 1..(current + 1)
  BY ConstantFacts DEF SuccessorsInv, TypeOK
<1>3. TypeOK'
  BY <1>1, <1>2 DEF SuccessorsInv, TypeOK
<1>4. Used' = Used
  BY <1>1 DEF Used
<1>5. HistoryInv'
  BY <1>1, <1>4 DEF SuccessorsInv, HistoryInv
<1>6. PlacesUnique'
  BY <1>1 DEF SuccessorsInv, PlacesUnique
<1>7. ~Pending'
  BY <1>1, <1>2 DEF Pending
<1> QED BY <1>3, <1>5, <1>6, <1>7 DEF SuccessorsInv, CandidateInv

LEMMA PurgeKeeps ==
  ASSUME SuccessorsInv, Purge
  PROVE  SuccessorsInv'
<1> DEFINE eligible == {n \in Native : ~Reserved(n)}
           gone == Lowest(eligible)
<1>1. /\ ~Pending /\ eligible # {} /\ roots' = [n \in DOMAIN roots \ {gone} |-> roots[n]]
      /\ current' = current /\ now' = now /\ plan' = plan
  BY DEF Purge, Removed
<1>2. current \in Nat /\ Reserve \in Nat /\ DOMAIN roots \subseteq Nat
  BY ConstantFacts DEF SuccessorsInv, TypeOK
<1>3. eligible \in SUBSET Nat /\ \A n \in eligible : n < current
  BY <1>2 DEF Native, Reserved
<1>4. gone < current
  <2> HIDE DEF eligible
  <2> QED BY <1>1, <1>3, LowestIsLeast
<1> HIDE DEF gone, eligible
<1>5. /\ DOMAIN roots' \subseteq DOMAIN roots
      /\ \A n \in DOMAIN roots' : roots'[n] = roots[n]
      /\ roots' = [n \in DOMAIN roots' |-> roots'[n]]
      /\ \A n \in DOMAIN roots : n # gone => n \in DOMAIN roots'
  BY <1>1
<1>6. TypeOK'
  <2>1. \A n \in DOMAIN roots' : RootOK(roots'[n])
    BY <1>5 DEF SuccessorsInv, TypeOK
  <2> QED BY <1>1, <1>5, <2>1 DEF SuccessorsInv, TypeOK
<1>7. HistoryInv'
  <2>1. \A id \in Used' : id \in Used
    BY <1>5 DEF Used
  <2>2. current > 0 => current \in DOMAIN roots'
    BY <1>2, <1>4, <1>5 DEF SuccessorsInv, HistoryInv
  <2> QED BY <1>1, <1>5, <2>1, <2>2 DEF SuccessorsInv, HistoryInv
<1>8. PlacesUnique'
  BY <1>5 DEF SuccessorsInv, PlacesUnique
<1>9. ~Pending'
  BY <1>1, <1>5 DEF Pending
<1> QED BY <1>6, <1>7, <1>8, <1>9 DEF SuccessorsInv, CandidateInv

LEMMA ClockKeeps ==
  ASSUME SuccessorsInv, Tick \/ UNCHANGED vars
  PROVE  SuccessorsInv'
<1>1. /\ roots' = roots /\ current' = current /\ plan' = plan
      /\ now \in Nat /\ MaxTime \in Nat /\ now <= now'
      /\ now' \in 0..MaxTime
  BY ConstantFacts DEF SuccessorsInv, TypeOK, Tick, vars
<1>2. TypeOK'
  BY <1>1 DEF SuccessorsInv, TypeOK
<1>3. HistoryInv'
  <2>1. \A n \in DOMAIN roots : roots[n].created \in Nat /\ roots[n].created <= now
    BY DEF SuccessorsInv, TypeOK, HistoryInv, RootOK
  <2>2. Used' = Used
    BY <1>1 DEF Used
  <2> QED BY <1>1, <2>1, <2>2 DEF SuccessorsInv, HistoryInv
<1>4. PlacesUnique'
  BY <1>1 DEF SuccessorsInv, PlacesUnique
<1>5. Content' = Content /\ Candidate' = Candidate /\ Older' = Older /\ Pending' = Pending
  BY <1>1 DEF Content, Candidate, Older, Pending
<1>6. CandidateInv'
  BY <1>1, <1>5 DEF SuccessorsInv, CandidateInv, CreatePlan, ActivatePlan,
                    RekeyPlan, RollbackPlan
<1> QED BY <1>2, <1>3, <1>4, <1>6 DEF SuccessorsInv

\* The invariant is inductive.
THEOREM Invariance == Spec => []SuccessorsInv
<1>1. ASSUME SuccessorsInv, [Next]_vars
      PROVE  SuccessorsInv'
  <2>1. CASE \E S \in SUBSET Bindings, algorithms \in SUBSET Algorithms :
               Create(S, algorithms)
    <3>1. PICK S \in SUBSET Bindings, algorithms \in SUBSET Algorithms :
            Create(S, algorithms)
      BY <2>1
    <3>2. current = 0 \/ current > 0
      BY <1>1, ConstantFacts DEF SuccessorsInv, TypeOK
    <3> QED BY <1>1, <3>1, <3>2, FirstCreation, LaterCreation
  <2>2. CASE \E b \in Bindings, rollout \in {"enforce", "observe"} :
               Activate(b, rollout)
    BY <1>1, <2>2, ActivateKeeps
  <2>3. CASE \E b \in Bindings, algorithms \in SUBSET Algorithms :
               Rotate(b, algorithms)
    BY <1>1, <2>3, RotateKeeps
  <2>4. CASE Campaign
    BY <1>1, <2>4, CampaignKeeps
  <2>5. CASE \E algorithms \in SUBSET Algorithms : Extend(algorithms)
    BY <1>1, <2>5, ExtendKeeps
  <2>6. CASE \E b \in Bindings, source \in DOMAIN roots : RollBack(b, source)
    BY <1>1, <2>6, RollBackKeeps
  <2>7. CASE Commit
    BY <1>1, <2>7, CommitKeeps
  <2>8. CASE Purge
    BY <1>1, <2>8, PurgeKeeps
  <2>9. CASE Tick \/ UNCHANGED vars
    BY <1>1, <2>9, ClockKeeps
  <2> QED BY <1>1, <2>1, <2>2, <2>3, <2>4, <2>5, <2>6, <2>7, <2>8, <2>9 DEF Next
<1> QED BY <1>1, InitHolds, PTL DEF Spec

\* Numbers, times, contents and plans stay what they are taken for.
THEOREM TypeCorrectness == Spec => []TypeOK
<1>1. SuccessorsInv => TypeOK
  BY DEF SuccessorsInv
<1> QED BY <1>1, Invariance, PTL

-----------------------------------------------------------------------------
(* What a staged root has in common with the roots below it.               *)

\* The generations a validator compares, both complete.
LEMMA PendingFacts ==
  ASSUME SuccessorsInv, Pending
  PROVE  /\ current \in Nat /\ current + 1 \in DOMAIN roots
         /\ ContentOK(Candidate.content) /\ Complete(Candidate.content)
         /\ \A n \in DOMAIN roots : n \in Nat /\ n <= current + 1
         /\ current > 0 => /\ current \in DOMAIN roots /\ ContentOK(Content)
                           /\ Complete(Content) /\ Ids(Content) \subseteq Older
<1>1. current \in Nat /\ \A n \in DOMAIN roots : n \in Nat /\ n <= current + 1
  BY ConstantFacts DEF SuccessorsInv, TypeOK
<1>2. \A n \in DOMAIN roots : ContentOK(roots[n].content) /\ Complete(roots[n].content)
  BY DEF SuccessorsInv, TypeOK, RootOK, HistoryInv
<1>3. current + 1 \in DOMAIN roots
  BY DEF Pending
<1>4. ASSUME current > 0
      PROVE  current \in DOMAIN roots /\ Ids(Content) \subseteq Older
  <2>1. current \in DOMAIN roots \ {current + 1}
    BY <1>1, <1>4 DEF SuccessorsInv, HistoryInv
  <2> QED BY <2>1 DEF Older, Content
<1> QED BY <1>1, <1>2, <1>3, <1>4 DEF Content, Candidate

\* A validator that looks for the roots below the candidate finds the older ones.
LEMMA OlderIsBelow ==
  ASSUME SuccessorsInv, Pending
  PROVE  /\ UNION {Ids(roots[n].content) : n \in {m \in DOMAIN roots : m < current + 1}}
              = Older
         /\ \A n \in DOMAIN roots : n < current + 1 => Ids(roots[n].content) \subseteq Older
<1>1. {m \in DOMAIN roots : m < current + 1} = DOMAIN roots \ {current + 1}
  BY PendingFacts
<1>2. UNION {Ids(roots[n].content) : n \in {m \in DOMAIN roots : m < current + 1}}
        = Older
  BY <1>1 DEF Older
<1> QED BY <1>1, <1>2 DEF Older

\* A complete profile has a credential.
LEMMA SomeCredential ==
  ASSUME NEW c, ContentOK(c), Complete(c), NEW b \in DOMAIN c
  PROVE  /\ DOMAIN c[b].keys # {} /\ KeysOf(c, b) # {}
         /\ KeysOf(c, b) \subseteq Ids(c)
<1>1. c[b].keys \in [DOMAIN c[b].keys -> Nat] /\ c[b].keys # <<>>
  BY DEF ContentOK, ProfileOK, CredentialsOK, Complete
<1>2. DOMAIN c[b].keys # {}
  <2> DEFINE k == c[b].keys
  <2>1. SUFFICES ASSUME DOMAIN k = {} PROVE k = <<>>
    BY <1>1
  <2>2. k = [x \in {} |-> k[x]]
    BY <1>1, <2>1
  <2>3. DOMAIN <<>> = {} /\ <<>> = [x \in {} |-> <<>>[x]]
    OBVIOUS
  <2>4. [x \in {} |-> k[x]] = [x \in {} |-> <<>>[x]]
    OBVIOUS
  <2> QED BY <2>2, <2>3, <2>4
<1> QED BY <1>2 DEF KeysOf, Ids

\* The diff of a staged rotation, campaign or extension.
LEMMA RekeyedDiff ==
  ASSUME SuccessorsInv, Pending, current > 0,
         plan.kind \in {"rotate", "campaign", "extension"}
  PROVE  /\ plan.of # {} /\ plan.of \subseteq Active(Content)
         /\ plan.of \in SUBSET Bindings /\ IsFiniteSet(Active(Content))
         /\ SameFacts(Content, Candidate.content)
         /\ Differing(Content, Candidate.content) = plan.of
         /\ \A b \in plan.of :
              /\ Replaced(Content, Candidate.content, b)
              /\ KeysOf(Candidate.content, b) \cap Older = {}
              /\ KeysOf(Content, b) \cap KeysOf(Candidate.content, b) = {}
<1> DEFINE old == Content
           new == Candidate.content
           S == plan.of
<1>1. Rekeyed(old, new, S, Older)
  BY DEF SuccessorsInv, CandidateInv, RekeyPlan
<1>2. /\ ContentOK(old) /\ Complete(old) /\ Ids(old) \subseteq Older
      /\ ContentOK(new) /\ Complete(new)
  BY PendingFacts
<1> HIDE DEF old, new, S
<1>3. S # {} /\ S \subseteq Active(old) /\ SameFacts(old, new)
  BY <1>1 DEF Rekeyed
<1>4. DOMAIN new = DOMAIN old /\ S \subseteq DOMAIN old /\ DOMAIN old \subseteq Bindings
  BY <1>2, <1>3 DEF SameFacts, Active, ContentOK
<1>5. IsFiniteSet(Active(old))
  BY <1>4, ConstantFacts, FS_Subset DEF Active
<1>6. ASSUME NEW b \in S
      PROVE  /\ KeysOf(new, b) \cap Older = {} /\ KeysOf(old, b) \subseteq Older
             /\ DOMAIN old[b].keys # {} /\ DOMAIN old[b].keys \subseteq DOMAIN new[b].keys
  BY <1>1, <1>2, <1>4, SomeCredential DEF Rekeyed
<1>7. ASSUME NEW b \in S
      PROVE  /\ \A a \in DOMAIN old[b].keys : new[b].keys[a] # old[b].keys[a]
             /\ \A a \in DOMAIN new[b].keys : new[b].keys[a] \notin Ids(old)
  <2>1. \A a \in DOMAIN new[b].keys : new[b].keys[a] \notin Older
    BY <1>6 DEF KeysOf
  <2>2. \A a \in DOMAIN old[b].keys : old[b].keys[a] \in Older
    BY <1>6 DEF KeysOf
  <2> QED BY <1>2, <1>6, <2>1, <2>2
<1>8. Differing(old, new) = S
  <2>1. \A b \in S : old[b].keys # new[b].keys
    BY <1>6, <1>7
  <2>2. \A b \in DOMAIN old \ S : old[b].keys = new[b].keys
    BY <1>1 DEF Rekeyed
  <2> QED BY <1>4, <2>1, <2>2 DEF Differing
<1>9. \A b \in S : Replaced(old, new, b) /\ KeysOf(old, b) \cap KeysOf(new, b) = {}
  BY <1>6, <1>7 DEF Replaced
<1> QED BY <1>3, <1>4, <1>5, <1>6, <1>8, <1>9 DEF old, new, S

\* The kinds a plan of a staged root may be of.
LEMMA StagedKinds ==
  ASSUME SuccessorsInv, Pending, current > 0
  PROVE  plan.kind \in {"create", "activate", "rotate", "campaign", "extension", "rollback"}
BY DEF SuccessorsInv, CandidateInv, TypeOK, Plans, Kinds

\* A staged rollback.
LEMMA RebasedDiff ==
  ASSUME SuccessorsInv, Pending, current > 0, plan.kind = "rollback"
  PROVE  \E b \in Bindings :
           /\ plan.of = {b} /\ plan.source < current /\ plan.source \in DOMAIN roots
           /\ CanRollBack(Content, roots[plan.source].content, b)
           /\ Candidate.content = Rebase(Content, roots[plan.source].content, b)
           /\ b \in DOMAIN Content /\ DOMAIN Candidate.content = DOMAIN Content
           /\ \A d \in DOMAIN Content \ {b} : Candidate.content[d] = Content[d]
           /\ KeysOf(Candidate.content, b) \cap Older # {}
<1>1. PICK b \in Bindings :
        /\ plan.of = {b} /\ plan.source < current /\ plan.source \in DOMAIN roots
        /\ CanRollBack(Content, roots[plan.source].content, b)
        /\ Candidate.content = Rebase(Content, roots[plan.source].content, b)
  BY DEF SuccessorsInv, CandidateInv, RollbackPlan
<1> DEFINE source == roots[plan.source].content
<1>2. b \in DOMAIN Content /\ b \in DOMAIN source
  BY <1>1 DEF CanRollBack, Active
<1>3. ContentOK(source) /\ Complete(source)
  BY <1>1 DEF SuccessorsInv, TypeOK, RootOK, HistoryInv
<1>4. Ids(source) \subseteq Older
  BY <1>1, PendingFacts, OlderIsBelow
<1>5. ContentOK(Content)
  BY PendingFacts
<1> HIDE DEF source
<1>6. /\ DOMAIN Candidate.content = DOMAIN Content /\ Candidate.content[b] = source[b]
      /\ \A d \in DOMAIN Content \ {b} : Candidate.content[d] = Content[d]
  BY <1>1, <1>2, <1>5 DEF Rebase, ContentOK, source
<1>7. KeysOf(Candidate.content, b) = KeysOf(source, b)
  BY <1>6 DEF KeysOf
<1>8. KeysOf(source, b) # {} /\ KeysOf(source, b) \subseteq Older
  BY <1>2, <1>3, <1>4, SomeCredential
<1> QED BY <1>1, <1>2, <1>6, <1>7, <1>8

-----------------------------------------------------------------------------
(* What the resumes accept.                                                *)

\* No other planner makes a native root with the facts of its predecessor and
\* other keys: manual ones publish the earlier format, a creation adds bindings,
\* an activation carries all keys over.
LEMMA AutoTakesCampaigns ==
  ASSUME SuccessorsInv, Pending, current > 0, AutoResumes
  PROVE  plan.kind \in {"campaign", "extension"}
<1> DEFINE old == Content
           new == Candidate.content
<1>1. /\ Candidate.native /\ DOMAIN old = DOMAIN new
      /\ Differing(old, new) # {}
  BY DEF AutoResumes, CampaignIntent, SameFacts
<1>2. plan.kind # "create"
  BY <1>1 DEF SuccessorsInv, CandidateInv, CreatePlan, Added
<1>3. plan.kind # "activate"
  <2>1. plan.kind = "activate" => Differing(old, new) = {}
    BY DEF SuccessorsInv, CandidateInv, ActivatePlan, Differing
  <2> QED BY <1>1, <2>1
<1>4. plan.kind # "rotate" /\ plan.kind # "rollback"
  BY <1>1 DEF SuccessorsInv, CandidateInv, RekeyPlan, RollbackPlan
<1> QED BY <1>2, <1>3, <1>4, StagedKinds

\* A campaign or extension passes, under the key types its result allows.
LEMMA CampaignsResume ==
  ASSUME SuccessorsInv, Pending, current > 0,
         plan.kind \in {"campaign", "extension"}
  PROVE  /\ AutoResumes /\ Differing(Content, Candidate.content) = plan.of
         /\ plan.kind = "extension" =>
              \A set \in SUBSET Algorithms :
                ExtensionResumes(set) <=> set = plan.algorithms
         /\ plan.kind = "campaign" =>
              \A set \in SUBSET Algorithms : ExtensionResumes(set) =>
                /\ plan.of = Active(Content)
                /\ \A b \in plan.of : DOMAIN Content[b].keys = set
<1> DEFINE old == Content
           new == Candidate.content
<1>1. /\ plan.of # {} /\ plan.of \subseteq Active(old) /\ IsFiniteSet(Active(old))
      /\ SameFacts(old, new) /\ Differing(old, new) = plan.of
      /\ \A b \in plan.of : /\ Replaced(old, new, b)
                            /\ KeysOf(old, b) \cap KeysOf(new, b) = {}
  BY RekeyedDiff
<1>2. /\ Candidate.native /\ Cardinality(Active(old)) <= MaxBindings
      /\ plan.kind = "extension" =>
           /\ plan.of = Active(old)
           /\ \A b \in plan.of : DOMAIN new[b].keys = plan.algorithms
      /\ plan.kind = "campaign" =>
           \A b \in plan.of : DOMAIN new[b].keys = DOMAIN old[b].keys
  BY DEF SuccessorsInv, CandidateInv, RekeyPlan
<1>3. Complete(new) /\ ContentOK(new)
  BY PendingFacts
<1>4. /\ AutoResumes <=> /\ Candidate.native /\ CampaignIntent(old, new)
                         /\ Differing(old, new) # {}
      /\ \A set : ExtensionResumes(set) <=>
           AutoResumes /\ ExtensionIntent(old, new, set)
  BY DEF AutoResumes, ExtensionResumes
<1> HIDE DEF old, new
<1>5. Cardinality(Differing(old, new)) <= MaxBindings
  <2>1. /\ IsFiniteSet(plan.of)
        /\ Cardinality(plan.of) <= Cardinality(Active(old))
    BY <1>1, FS_Subset
  <2>2. Cardinality(plan.of) \in Nat /\ Cardinality(Active(old)) \in Nat
    BY <1>1, <2>1, FS_CardinalityType
  <2> QED BY <1>1, <1>2, <2>1, <2>2, ConstantFacts
<1>6. CampaignIntent(old, new)
  BY <1>1, <1>5 DEF CampaignIntent, Replaced, Active
<1>7. AutoResumes
  BY <1>4, <1>1, <1>2, <1>6
<1>8. ASSUME plan.kind = "extension", NEW set \in SUBSET Algorithms
      PROVE  ExtensionIntent(old, new, set) <=> set = plan.algorithms
  <2>1. PICK b \in plan.of : b \in Active(old) /\ b \in DOMAIN new
    BY <1>1 DEF SameFacts, Active
  <2>2. DOMAIN new[b].keys # {}
    BY <1>3, <2>1, SomeCredential
  <2> QED BY <1>1, <1>2, <1>6, <1>8, <2>1, <2>2 DEF ExtensionIntent
<1>9. ASSUME plan.kind = "campaign", NEW set, ExtensionIntent(old, new, set)
      PROVE  plan.of = Active(old) /\ \A b \in plan.of : DOMAIN old[b].keys = set
  BY <1>1, <1>2, <1>9 DEF ExtensionIntent
<1>10. plan.kind = "extension" =>
         \A set \in SUBSET Algorithms : ExtensionResumes(set) <=> set = plan.algorithms
  BY <1>4, <1>8, <1>7
<1>11. plan.kind = "campaign" =>
         \A set \in SUBSET Algorithms : ExtensionResumes(set) =>
           plan.of = Active(old) /\ \A b \in plan.of : DOMAIN old[b].keys = set
  BY <1>4, <1>9
<1> QED BY <1>1, <1>7, <1>10, <1>11 DEF old, new

LEMMA CampaignsRecognised ==
  ASSUME SuccessorsInv
  PROVE  CampaignRecognised
BY AutoTakesCampaigns, CampaignsResume DEF CampaignRecognised

\* Only a diff of one enforced binding with keys unknown below passes for a
\* rotation, and no other planner makes one.
LEMMA RotationsKnown ==
  ASSUME SuccessorsInv
  PROVE  OnlyRotationsResumeAsRotations
<1> DEFINE old == Content
           new == Candidate.content
<1>1. SUFFICES ASSUME NEW b \in Bindings, Pending, current > 0,
                      RotationResumes(b)
               PROVE  /\ plan.kind \in {"rotate", "campaign", "extension"}
                      /\ plan.of = {b}
  BY DEF OnlyRotationsResumeAsRotations
<1>2. RotatedOne(old, new, b) /\ KeysOf(new, b) \cap Older = {}
  BY <1>1, OlderIsBelow DEF RotationResumes, RotationIntent, Content, Candidate
<1>3. SameFacts(old, new) /\ Differing(old, new) = {b} /\ DOMAIN old = DOMAIN new
  BY <1>2 DEF RotatedOne, SameFacts
<1>4. plan.kind # "create"
  BY <1>1, <1>3 DEF SuccessorsInv, CandidateInv, CreatePlan, Added
<1>5. plan.kind # "activate"
  <2>1. plan.kind = "activate" => Differing(old, new) = {}
    BY <1>1 DEF SuccessorsInv, CandidateInv, ActivatePlan, Differing
  <2> QED BY <1>3, <2>1
<1>6. plan.kind # "rollback"
  <2>1. SUFFICES ASSUME plan.kind = "rollback" PROVE FALSE
    OBVIOUS
  <2>2. PICK d \in Bindings : /\ \A e \in DOMAIN old \ {d} : new[e] = old[e]
                              /\ KeysOf(new, d) \cap Older # {}
    BY <1>1, <2>1, RebasedDiff
  <2>3. d = b
    BY <1>3, <2>2 DEF Differing
  <2> QED BY <1>2, <2>2, <2>3
<1>7. plan.kind \in {"rotate", "campaign", "extension"}
  BY <1>1, <1>4, <1>5, <1>6, StagedKinds
<1>8. Differing(old, new) = plan.of
  BY <1>1, <1>7, RekeyedDiff
<1> QED BY <1>3, <1>7, <1>8

LEMMA RotationsResume ==
  ASSUME SuccessorsInv
  PROVE  EnforcedRotationResumes
<1> DEFINE old == Content
           new == Candidate.content
<1>1. SUFFICES ASSUME Pending, plan.kind = "rotate", NEW b \in plan.of,
                      old[b].rollout = "enforce"
               PROVE  RotationResumes(b)
  BY DEF EnforcedRotationResumes
<1>2. current > 0
  BY <1>1, ConstantFacts DEF SuccessorsInv, CandidateInv, TypeOK
<1>3. /\ plan.of \subseteq Active(old) /\ SameFacts(old, new)
      /\ Differing(old, new) = plan.of /\ Replaced(old, new, b)
      /\ KeysOf(new, b) \cap Older = {}
  BY <1>1, <1>2, RekeyedDiff
<1>4. plan.of = {b}
  BY <1>1, <1>2 DEF SuccessorsInv, CandidateInv, RekeyPlan
<1> HIDE DEF old, new
<1>5. RotatedOne(old, new, b)
  BY <1>1, <1>3, <1>4 DEF RotatedOne, Active
<1> QED BY <1>1, <1>3, <1>5, PendingFacts, OlderIsBelow
        DEF RotationResumes, RotationIntent, Content, Candidate, old, new

\* What a candidate that passes for a rollback shows: another state of the
\* binding, with the keys and the rollout the source has.
LEMMA RollbackShows ==
  ASSUME SuccessorsInv, Pending, current > 0, NEW b \in Bindings,
         NEW source \in DOMAIN roots, RollbackResumes(b, source)
  PROVE  /\ DOMAIN Candidate.content = DOMAIN Content /\ b \in DOMAIN Content
         /\ Candidate.content[b] = roots[source].content[b]
         /\ Candidate.content[b] # Content[b]
         /\ KeysOf(Candidate.content, b) \cap Older # {}
<1> DEFINE old == Content
           new == Candidate.content
           src == roots[source].content
<1>1. source < current /\ CanRollBack(old, src, b) /\ new = Rebase(old, src, b)
  BY DEF RollbackResumes, RollbackIntent, Content, Candidate
<1>2. b \in DOMAIN old /\ b \in DOMAIN src /\ src[b] # old[b]
  BY <1>1 DEF CanRollBack, Active
<1>3. ContentOK(src) /\ Complete(src) /\ Ids(src) \subseteq Older
  <2>1. source < current + 1
    BY <1>1, PendingFacts
  <2> QED BY <2>1, OlderIsBelow DEF SuccessorsInv, TypeOK, RootOK, HistoryInv
<1>4. ContentOK(old)
  BY PendingFacts
<1> HIDE DEF src
<1>5. DOMAIN new = DOMAIN old /\ new[b] = src[b]
  BY <1>1, <1>2, <1>4 DEF Rebase, ContentOK
<1>6. KeysOf(new, b) = KeysOf(src, b)
  BY <1>5 DEF KeysOf
<1>7. KeysOf(src, b) # {} /\ KeysOf(src, b) \subseteq Older
  BY <1>2, <1>3, SomeCredential
<1> QED BY <1>2, <1>5, <1>6, <1>7 DEF src

\* A rebase shows keys that the source has, so nothing with fresh keys is one;
\* what remains is a rollback, or an activation, which carries all keys over.
LEMMA RollbacksKnown ==
  ASSUME SuccessorsInv
  PROVE  OnlyRollbacksResumeAsRollbacks
<1> DEFINE Taken(b, source) ==
             /\ plan.of = {b}
             /\ \/ /\ plan.kind = "rollback"
                   /\ roots[source].content[b] = roots[plan.source].content[b]
                \/ /\ plan.kind = "activate"
                   /\ roots[source].content[b].keys = Content[b].keys
<1>1. SUFFICES ASSUME Pending, current > 0
               PROVE  /\ plan.kind = "rollback" =>
                           \A b \in plan.of : RollbackResumes(b, plan.source)
                      /\ \A b \in Bindings, source \in DOMAIN roots :
                           RollbackResumes(b, source) => Taken(b, source)
  BY DEF OnlyRollbacksResumeAsRollbacks
<1>2. ASSUME plan.kind = "rollback", NEW b \in plan.of
      PROVE  RollbackResumes(b, plan.source)
  <2>1. /\ plan.of = {b} /\ plan.source < current
        /\ CanRollBack(Content, roots[plan.source].content, b)
        /\ Candidate.content = Rebase(Content, roots[plan.source].content, b)
    BY <1>1, <1>2, RebasedDiff
  <2> QED BY <2>1 DEF RollbackResumes, RollbackIntent, Content, Candidate
<1>3. ASSUME NEW b \in Bindings, NEW source \in DOMAIN roots,
             RollbackResumes(b, source)
      PROVE  Taken(b, source)
  <2> DEFINE old == Content
             new == Candidate.content
             src == roots[source].content
  <2>1. /\ DOMAIN new = DOMAIN old /\ b \in DOMAIN old
        /\ new[b] = src[b] /\ new[b] # old[b] /\ KeysOf(new, b) \cap Older # {}
    BY <1>1, <1>3, RollbackShows
  <2>2. plan.kind # "create"
    BY <1>1, <2>1 DEF SuccessorsInv, CandidateInv, CreatePlan, Added
  <2>3. plan.kind \notin {"rotate", "campaign", "extension"}
    <3>1. SUFFICES ASSUME plan.kind \in {"rotate", "campaign", "extension"}
                   PROVE  FALSE
      OBVIOUS
    <3>2. Rekeyed(old, new, plan.of, Older)
      BY <1>1, <3>1 DEF SuccessorsInv, CandidateInv, RekeyPlan
    <3> QED BY <2>1, <3>2 DEF Rekeyed
  <2>4. CASE plan.kind = "rollback"
    <3>1. PICK d \in Bindings :
            /\ plan.of = {d} /\ plan.source < current /\ plan.source \in DOMAIN roots
            /\ CanRollBack(old, roots[plan.source].content, d)
            /\ new = Rebase(old, roots[plan.source].content, d)
            /\ \A e \in DOMAIN old \ {d} : new[e] = old[e]
      BY <1>1, <2>4, RebasedDiff
    <3>2. d = b
      BY <2>1, <3>1
    <3>3. RollbackResumes(b, plan.source)
      BY <1>2, <2>4, <3>1, <3>2
    <3>4. new[b] = roots[plan.source].content[b]
      BY <1>1, <3>1, <3>3, RollbackShows
    <3> QED BY <2>1, <2>4, <3>1, <3>2, <3>4
  <2>5. CASE plan.kind = "activate"
    <3>1. /\ \A d \in DOMAIN old : new[d].keys = old[d].keys
          /\ \A d \in DOMAIN old \ plan.of : new[d] = old[d]
          /\ \E d \in Bindings : plan.of = {d}
      BY <1>1, <2>5 DEF SuccessorsInv, CandidateInv, ActivatePlan
    <3>2. plan.of = {b}
      BY <2>1, <3>1
    <3>3. src[b].keys = old[b].keys
      BY <2>1, <3>1
    <3> QED BY <2>5, <3>2, <3>3
  <2> QED BY <1>1, <2>2, <2>3, <2>4, <2>5, StagedKinds
<1> QED BY <1>2, <1>3

\* A creation is told by its bindings, and they by their algorithms.
LEMMA CreationsKnown ==
  ASSUME SuccessorsInv
  PROVE  CreationResumesByItsRequest
<1> DEFINE old == Content
           new == Candidate.content
<1>1. SUFFICES ASSUME Pending, current > 0, NEW S \in SUBSET Bindings,
                      NEW set \in SUBSET Algorithms
               PROVE  CreateIntent(roots, current, current + 1, S, set) <=>
                        /\ plan.kind = "create" /\ S = plan.of
                        /\ set = plan.algorithms /\ Cardinality(S) <= MaxBindings
  BY DEF CreationResumesByItsRequest, CreateResumes
<1>2. CreateIntent(roots, current, current + 1, S, set) <=>
        /\ S # {} /\ set # {} /\ S \cap DOMAIN old = {}
        /\ DOMAIN new = DOMAIN old \cup S
        /\ \A b \in DOMAIN old : new[b] = old[b]
        /\ \A b \in S : /\ new[b] = Disabled(new[b].keys)
                        /\ DOMAIN new[b].keys = set
                        /\ KeysOf(new, b) \cap Older = {}
        /\ Cardinality(S) <= MaxBindings
  BY <1>1, PendingFacts, OlderIsBelow DEF CreateIntent, Content, Candidate
<1>3. CASE plan.kind = "create"
  <2>1. Added(old, new, plan.of, plan.algorithms, Older)
    BY <1>1, <1>3 DEF SuccessorsInv, CandidateInv, CreatePlan
  <2> HIDE DEF old, new
  <2>2. ASSUME S = plan.of, set = plan.algorithms, Cardinality(S) <= MaxBindings
        PROVE  CreateIntent(roots, current, current + 1, S, set)
    BY <1>2, <2>1, <2>2 DEF Added
  <2>3. ASSUME CreateIntent(roots, current, current + 1, S, set)
        PROVE  S = plan.of /\ set = plan.algorithms /\ Cardinality(S) <= MaxBindings
    <3>1. S = plan.of
      BY <1>2, <2>1, <2>3 DEF Added
    <3>2. PICK b \in S : TRUE
      BY <1>2, <2>3
    <3> QED BY <1>2, <2>1, <2>3, <3>1, <3>2 DEF Added
  <2> QED BY <1>3, <2>2, <2>3
<1>4. CASE plan.kind # "create"
  <2>1. DOMAIN new = DOMAIN old
    <3>1. CASE plan.kind = "activate"
      BY <1>1, <3>1 DEF SuccessorsInv, CandidateInv, ActivatePlan
    <3>2. CASE plan.kind = "rollback"
      BY <1>1, <3>2, RebasedDiff
    <3>3. CASE plan.kind \in {"rotate", "campaign", "extension"}
      BY <1>1, <3>3, RekeyedDiff DEF SameFacts
    <3> QED BY <1>1, <1>4, <3>1, <3>2, <3>3, StagedKinds
  <2>2. ~CreateIntent(roots, current, current + 1, S, set)
    <3> HIDE DEF old, new
    <3> QED BY <1>2, <2>1
  <2> QED BY <1>4, <2>2
<1> QED BY <1>3, <1>4

\* A staged root is resumed by the command that planned it, and by another one
\* in the three cases that ResumeMatchesPlan names and in no other.
THEOREM ResumesMatch == Spec => []ResumeMatchesPlan
<1>1. SuccessorsInv => ResumeMatchesPlan
  BY CampaignsRecognised, RotationsKnown, RotationsResume, RollbacksKnown,
     CreationsKnown DEF ResumeMatchesPlan
<1> QED BY <1>1, Invariance, PTL

-----------------------------------------------------------------------------
(* Identifiers.                                                            *)

\* A staged root takes from older roots only what its predecessor has, unless
\* it is a rollback.
LEMMA NothingForgottenReturns ==
  ASSUME SuccessorsInv, Pending, current > 0, plan.kind # "rollback"
  PROVE  \A n \in DOMAIN roots \ {current + 1} :
           Ids(Candidate.content) \cap Ids(roots[n].content) \subseteq Ids(Content)
<1> DEFINE old == Content
           new == Candidate.content
<1>1. ASSUME NEW b \in DOMAIN new
      PROVE  \/ KeysOf(new, b) \cap Older = {}
             \/ b \in DOMAIN old /\ new[b].keys = old[b].keys
  <2>1. CASE plan.kind = "create"
    BY <1>1, <2>1 DEF SuccessorsInv, CandidateInv, CreatePlan, Added
  <2>2. CASE plan.kind = "activate"
    BY <1>1, <2>2 DEF SuccessorsInv, CandidateInv, ActivatePlan
  <2>3. CASE plan.kind \in {"rotate", "campaign", "extension"}
    BY <1>1, <2>3 DEF SuccessorsInv, CandidateInv, RekeyPlan, Rekeyed, SameFacts
  <2> QED BY <2>1, <2>2, <2>3, StagedKinds
<1>2. SUFFICES ASSUME NEW n \in DOMAIN roots \ {current + 1}, NEW id \in Ids(new),
                      id \in Ids(roots[n].content)
               PROVE  id \in Ids(old)
  OBVIOUS
<1>3. id \in Older
  BY <1>2 DEF Older
<1> HIDE DEF old, new
<1>4. PICK b \in DOMAIN new : id \in KeysOf(new, b)
  BY <1>2 DEF Ids
<1>5. b \in DOMAIN old /\ new[b].keys = old[b].keys
  BY <1>1, <1>3, <1>4
<1>6. id \in KeysOf(old, b)
  BY <1>4, <1>5 DEF KeysOf
<1> QED BY <1>5, <1>6 DEF Ids

\* Among the retained roots an identifier keeps its binding and algorithm, and
\* only a rollback brings a forgotten one back (SelectorsStayUnique).
THEOREM SelectorsUnique == Spec => []SelectorsStayUnique
<1>1. SuccessorsInv => SelectorsStayUnique
  BY NothingForgottenReturns DEF SelectorsStayUnique, SuccessorsInv, PlacesUnique
<1> QED BY <1>1, Invariance, PTL

\* Because places are unique, what the diff of a retirement names is what the
\* current generation lacks (RetirementIsTheDifference).
THEOREM RetirementRemovesTheDifference == Spec => []RetirementIsTheDifference
<1>1. ASSUME SuccessorsInv, ~Pending, current > 1, current - 1 \in DOMAIN roots,
             NEW b, RotatedOne(roots[current - 1].content, Content, b)
      PROVE  Retiring(roots[current - 1].content, Content)
               = Ids(roots[current - 1].content) \ Ids(Content)
  <2> DEFINE old == roots[current - 1].content
             new == Content
  <2>1. current \in DOMAIN roots
    BY <1>1, ConstantFacts DEF SuccessorsInv, TypeOK, HistoryInv
  <2>2. \A d \in DOMAIN old, e \in DOMAIN new :
          \A f \in DOMAIN old[d].keys, g \in DOMAIN new[e].keys :
            old[d].keys[f] = new[e].keys[g] => d = e /\ f = g
    BY <1>1, <2>1 DEF SuccessorsInv, PlacesUnique, Content
  <2> HIDE DEF old, new
  <2>3. /\ DOMAIN new = DOMAIN old /\ Differing(old, new) = {b} /\ b \in DOMAIN old
        /\ \A a \in DOMAIN old[b].keys : new[b].keys[a] # old[b].keys[a]
        /\ \A d \in DOMAIN old : d # b => new[d].keys = old[d].keys
    BY <1>1 DEF RotatedOne, SameFacts, Differing, Replaced, old, new
  <2>4. Retiring(old, new) = KeysOf(old, b)
    BY <2>3 DEF Retiring
  <2>5. \A id \in KeysOf(old, b) : id \in Ids(old) /\ id \notin Ids(new)
    <3>1. TAKE id \in KeysOf(old, b)
    <3>2. PICK a \in DOMAIN old[b].keys : id = old[b].keys[a]
      BY DEF KeysOf
    <3>3. id \in Ids(old)
      BY <2>3, <3>2, IdHasPlace
    <3>4. ASSUME id \in Ids(new) PROVE FALSE
      <4>1. PICK e \in DOMAIN new : \E g \in DOMAIN new[e].keys : id = new[e].keys[g]
        BY <3>4, IdHasPlace
      <4>2. PICK g \in DOMAIN new[e].keys : id = new[e].keys[g]
        BY <4>1
      <4>3. old[b].keys[a] = new[e].keys[g] /\ b \in DOMAIN old
        BY <2>3, <3>2, <4>2
      <4>4. b = e /\ a = g
        BY <2>2, <3>2, <4>1, <4>2, <4>3
      <4> QED BY <2>3, <3>2, <4>3, <4>4
    <3> QED BY <3>3, <3>4
  <2>6. \A id \in Ids(old) : id \in KeysOf(old, b) \/ id \in Ids(new)
    <3>1. TAKE id \in Ids(old)
    <3>2. PICK d \in DOMAIN old : \E f \in DOMAIN old[d].keys : id = old[d].keys[f]
      BY IdHasPlace
    <3>3. CASE d = b
      BY <3>2, <3>3 DEF KeysOf
    <3>4. CASE d # b
      BY <2>3, <3>2, <3>4, IdHasPlace
    <3> QED BY <3>3, <3>4
  <2> QED BY <2>4, <2>5, <2>6 DEF old, new
<1>2. SuccessorsInv => RetirementIsTheDifference
  BY <1>1 DEF RetirementIsTheDifference, Retirable
<1> QED BY <1>2, Invariance, PTL

-----------------------------------------------------------------------------
(* Ages.                                                                   *)

\* A step after which a root is staged appended it, created now.
LEMMA StagedStep ==
  ASSUME SuccessorsInv, [Next]_vars, ~Pending, Pending'
  PROVE  \E native, kind, S, algorithms, source, content :
           Appended(native, kind, S, algorithms, source, content)
<1>1. ASSUME NEW native, NEW kind, NEW S, NEW algorithms, NEW source, NEW content,
             Stage(native, kind, S, algorithms, source, content)
      PROVE  Appended(native, kind, S, algorithms, source, content)
  BY <1>1, StagedRoots
<1>2. ~Commit /\ ~Tick /\ ~UNCHANGED vars
  BY DEF Commit, Tick, vars, Pending
<1>3. ~Purge
  BY DEF Purge, Removed, Pending
<1>4. \E native, kind, S, algorithms, source, content :
        Stage(native, kind, S, algorithms, source, content)
  <2>1. CASE \E S \in SUBSET Bindings, algorithms \in SUBSET Algorithms :
               Create(S, algorithms)
    BY <2>1 DEF Create
  <2>2. CASE \E b \in Bindings, rollout \in {"enforce", "observe"} :
               Activate(b, rollout)
    BY <2>2 DEF Activate
  <2>3. CASE \E b \in Bindings, algorithms \in SUBSET Algorithms :
               Rotate(b, algorithms)
    BY <2>3 DEF Rotate
  <2>4. CASE Campaign
    BY <2>4 DEF Campaign
  <2>5. CASE \E algorithms \in SUBSET Algorithms : Extend(algorithms)
    BY <2>5 DEF Extend
  <2>6. CASE \E b \in Bindings, source \in DOMAIN roots : RollBack(b, source)
    BY <2>6 DEF RollBack
  <2> QED BY <1>2, <1>3, <2>1, <2>2, <2>3, <2>4, <2>5, <2>6 DEF Next
<1> QED BY <1>1, <1>4

\* One more time that is no earlier leaves the lowest what it is.
LEMMA LowestStays ==
  ASSUME NEW T \in SUBSET Nat, T # {}, NEW t \in Nat, \A n \in T : n <= t
  PROVE  Lowest(T \cup {t}) = Lowest(T)
<1>1. Lowest(T) \in T /\ \A n \in T : Lowest(T) <= n
  BY LowestIsLeast
<1>2. T \cup {t} \in SUBSET Nat /\ T \cup {t} # {}
  OBVIOUS
<1>3. /\ Lowest(T \cup {t}) \in T \cup {t}
      /\ \A n \in T \cup {t} : Lowest(T \cup {t}) <= n
  <2> DEFINE U == T \cup {t}
  <2> HIDE DEF U
  <2>1. U \in SUBSET Nat /\ U # {}
    BY <1>2 DEF U
  <2>2. Lowest(U) \in U /\ \A n \in U : Lowest(U) <= n
    BY <2>1, LowestIsLeast
  <2> QED BY <2>2 DEF U
<1>4. Lowest(T) \in Nat /\ Lowest(T \cup {t}) \in Nat
  BY <1>1, <1>2, <1>3
<1>5. Lowest(T \cup {t}) <= Lowest(T)
  BY <1>1, <1>3
<1>6. Lowest(T) <= Lowest(T \cup {t})
  BY <1>1, <1>3
<1> QED BY <1>4, <1>5, <1>6

\* The times that date the keys of a binding.
Times(history, c, b) ==
  UNION {{history[n].created : n \in Holding(history, b, a, c[b].keys[a])} :
           a \in DOMAIN c[b].keys}

LEMMA TimesAre ==
  ASSUME NEW history, NEW c, NEW b
  PROVE  \A t : t \in Times(history, c, b) <=>
           \E a \in DOMAIN c[b].keys :
             \E n \in DOMAIN history :
               /\ b \in DOMAIN history[n].content
               /\ a \in DOMAIN history[n].content[b].keys
               /\ history[n].content[b].keys[a] = c[b].keys[a]
               /\ t = history[n].created
<1>1. \A t : t \in Times(history, c, b) <=>
        \E a \in DOMAIN c[b].keys :
          t \in {history[n].created : n \in Holding(history, b, a, c[b].keys[a])}
  BY DEF Times
<1>2. \A t, a :
        t \in {history[n].created : n \in Holding(history, b, a, c[b].keys[a])} <=>
        \E n \in Holding(history, b, a, c[b].keys[a]) : t = history[n].created
  OBVIOUS
<1>3. \A a, n : n \in Holding(history, b, a, c[b].keys[a]) <=>
        /\ n \in DOMAIN history /\ b \in DOMAIN history[n].content
        /\ a \in DOMAIN history[n].content[b].keys
        /\ history[n].content[b].keys[a] = c[b].keys[a]
  BY DEF Holding
<1> QED BY <1>1, <1>2, <1>3

\* A root appended with the keys of the current one adds the present to them.
LEMMA CarriedAge ==
  ASSUME SuccessorsInv, current > 0, NEW native, NEW kind, NEW S, NEW algorithms,
         NEW source, NEW new, Appended(native, kind, S, algorithms, source, new),
         NEW b, b \in DOMAIN Content, b \in DOMAIN new, new[b].keys = Content[b].keys
  PROVE  Since(roots', new, b) = Since(roots, Content, b)
<1> DEFINE K == Content[b].keys
           T == Times(roots, Content, b)
<1>1. /\ current \in DOMAIN roots /\ ContentOK(Content) /\ current \in Nat
      /\ Content = roots[current].content
  BY UsedFacts DEF SuccessorsInv, Content
<1>2. Complete(Content)
  BY <1>1 DEF SuccessorsInv, HistoryInv
<1>3. PICK k \in DOMAIN K : TRUE
  BY <1>1, <1>2, SomeCredential
<1>4. /\ DOMAIN roots' = DOMAIN roots \cup {current + 1}
      /\ current + 1 \notin DOMAIN roots
      /\ \A n \in DOMAIN roots : roots'[n] = roots[n]
      /\ roots'[current + 1].content = new /\ roots'[current + 1].created = now
  BY DEF Appended
<1>5. \A n \in DOMAIN roots : roots[n].created \in Nat /\ roots[n].created <= now
  BY DEF SuccessorsInv, TypeOK, RootOK, HistoryInv
<1>6. T \in SUBSET Nat /\ \A t \in T : t <= now
  <2>1. \A t \in T : \E n \in DOMAIN roots : t = roots[n].created
    BY TimesAre
  <2> HIDE DEF T
  <2> QED BY <1>5, <2>1
<1>7. roots[current].created \in T
  <2>1. /\ b \in DOMAIN roots[current].content
        /\ k \in DOMAIN roots[current].content[b].keys
        /\ roots[current].content[b].keys[k] = Content[b].keys[k]
    BY <1>1, <1>3
  <2>2. k \in DOMAIN Content[b].keys
    BY <1>3
  <2> QED BY <1>1, <2>1, <2>2, TimesAre
<1>8. Times(roots', new, b) = T \cup {now}
  <2>1. ASSUME NEW t \in Times(roots', new, b)
        PROVE  t \in T \cup {now}
    <3>1. PICK a \in DOMAIN new[b].keys, n \in DOMAIN roots' :
            /\ b \in DOMAIN roots'[n].content
            /\ a \in DOMAIN roots'[n].content[b].keys
            /\ roots'[n].content[b].keys[a] = new[b].keys[a]
            /\ t = roots'[n].created
      BY TimesAre
    <3>2. CASE n = current + 1
      BY <1>4, <3>1, <3>2
    <3>3. CASE n \in DOMAIN roots
      <4>1. roots'[n] = roots[n]
        BY <1>4, <3>3
      <4>2. t \in T
        BY <3>1, <3>3, <4>1, TimesAre
      <4> QED BY <4>2
    <3> QED BY <1>4, <3>2, <3>3
  <2>2. ASSUME NEW t \in T
        PROVE  t \in Times(roots', new, b)
    <3>1. PICK a \in DOMAIN Content[b].keys, n \in DOMAIN roots :
            /\ b \in DOMAIN roots[n].content
            /\ a \in DOMAIN roots[n].content[b].keys
            /\ roots[n].content[b].keys[a] = Content[b].keys[a]
            /\ t = roots[n].created
      BY TimesAre
    <3>2. n \in DOMAIN roots' /\ roots'[n] = roots[n]
      BY <1>4
    <3> QED BY <3>1, <3>2, TimesAre
  <2>3. now \in Times(roots', new, b)
    <3>1. /\ current + 1 \in DOMAIN roots' /\ k \in DOMAIN new[b].keys
          /\ b \in DOMAIN roots'[current + 1].content
          /\ k \in DOMAIN roots'[current + 1].content[b].keys
          /\ roots'[current + 1].content[b].keys[k] = new[b].keys[k]
          /\ now = roots'[current + 1].created
      BY <1>3, <1>4
    <3> QED BY <3>1, TimesAre
  <2> HIDE DEF T
  <2> QED BY <2>1, <2>2, <2>3
<1>9. Lowest(T \cup {now}) = Lowest(T)
  <2>1. now \in Nat
    BY ConstantFacts DEF SuccessorsInv, TypeOK
  <2> HIDE DEF T
  <2> QED BY <1>6, <1>7, <2>1, LowestStays
<1>10. /\ Since(roots', new, b) = Lowest(Times(roots', new, b))
       /\ Since(roots, Content, b) = Lowest(T)
  BY DEF Since, Times
<1> QED BY <1>8, <1>9, <1>10

\* A key keeps its age through every successor that carries it over
\* (AgeSurvivesSuccessors).
THEOREM AgesSurvive == Spec => AgeSurvivesSuccessors
<1>1. ASSUME SuccessorsInv, [Next]_vars, Staged,
             NEW b \in Active(Content) \cap Active(Candidate'.content),
             Candidate'.content[b].keys = Content[b].keys
      PROVE  Since(roots', Candidate'.content, b) = Since(roots, Content, b)
  <2>1. ~Pending /\ Pending' /\ current > 0
    BY <1>1 DEF Staged
  <2>2. PICK native, kind, S, algorithms, source, content :
          Appended(native, kind, S, algorithms, source, content)
    BY <1>1, <2>1, StagedStep
  <2>3. Candidate'.content = content
    BY <2>2 DEF Appended, Candidate
  <2>4. b \in DOMAIN Content /\ b \in DOMAIN content
    BY <1>1, <2>3 DEF Active
  <2> QED BY <1>1, <2>1, <2>2, <2>3, <2>4, CarriedAge
<1>2. SuccessorsInv /\ [Next]_vars =>
        [Staged => \A b \in Active(Content) \cap Active(Candidate'.content) :
           Candidate'.content[b].keys = Content[b].keys =>
             Since(roots', Candidate'.content, b) = Since(roots, Content, b)]_vars
  BY <1>1
<1> QED BY <1>2, Invariance, PTL DEF Spec, AgeSurvivesSuccessors
=============================================================================
