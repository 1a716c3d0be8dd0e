------------------------- MODULE CnameSlots_proofs --------------------------
(***************************************************************************)
(* Proofs about the slots of a domain behind a CNAME target, for any set   *)
(* of keys, any delays, and any number of commands, faults and removals by *)
(* other hosts.                                                            *)
(***************************************************************************)
EXTENDS CnameInvariant, FiniteSetTheorems, SequenceTheorems,
        WellFoundedInduction, TLAPS

-----------------------------------------------------------------------------
(* Constants, entries and calls.                                           *)

LEMMA ConstantFacts ==
  /\ IsFiniteSet(Keys) /\ Horizon \in Nat /\ ExpireAfter \in Nat
  /\ Tombstone \notin Keys /\ NoRecord \notin Keys /\ NoKey \notin Keys
  /\ Keys \subseteq Names /\ SlotNames \subseteq Names /\ Temporary \in Names
  /\ Keys \cap SlotNames = {} /\ Temporary \notin Keys /\ Temporary \notin SlotNames
BY LifecycleAssumption DEF Horizon, Names, Temporary, SlotNames

LEMMA SlotFacts ==
  /\ Slot[1] = "slot1" /\ Slot[2] = "slot2" /\ Slot[3] = "slot3"
  /\ \A a, b \in {1, 2, 3} : Slot[a] = Slot[b] => a = b
  /\ \A a \in {1, 2, 3} : Slot[a] \in SlotNames /\ Slot[a] \in Names
BY DEF Slot, SlotNames, Names

LEMMA FieldTypes ==
  ASSUME NEW d \in Directory
  PROVE  /\ d.present \subseteq Keys /\ d.active \subseteq Keys
         /\ d.revoked \subseteq Keys /\ d.wild \subseteq Keys
         /\ d.name \in [Keys -> Names] /\ d.rank \in [Keys -> Nat]
         /\ d.age \in [Keys -> Nat] /\ d.idle \in [Keys -> Nat]
         /\ IsFiniteSet(d.present) /\ Cardinality(d.present) \in Nat
<1>1. /\ d.present \subseteq Keys /\ d.active \subseteq Keys
      /\ d.revoked \subseteq Keys /\ d.wild \subseteq Keys
      /\ d.name \in [Keys -> Names] /\ d.rank \in [Keys -> Nat]
      /\ d.age \in [Keys -> Nat] /\ d.idle \in [Keys -> Nat]
  BY DEF Directory
<1>2. IsFiniteSet(d.present) /\ Cardinality(d.present) \in Nat
  BY <1>1, ConstantFacts, FS_Subset, FS_CardinalityType
<1> QED BY <1>1, <1>2

\* e differs from d in nothing that the slots depend on.
Alike(e, d) ==
  /\ e \in Directory /\ e.present = d.present /\ e.active = d.active
  /\ e.name = d.name /\ e.rank = d.rank

\* A write renews the time of modification.
LEMMA ModifiedFields ==
  ASSUME NEW d \in Directory, NEW k \in Keys
  PROVE  Alike(Modified(d, k), d)
<1>1. Modified(d, k) = [d EXCEPT !.idle = [d.idle EXCEPT ![k] = 0]]
  BY DEF Modified
<1>2. [d.idle EXCEPT ![k] = 0] \in [Keys -> Nat]
  BY FieldTypes
<1> QED BY <1>1, <1>2 DEF Directory, Alike

LEMMA RevokedFields ==
  ASSUME NEW d \in Directory, NEW k \in Keys
  PROVE  Alike(Revoked(d, k), d)
<1> DEFINE m == Modified(d, k)
<1>1. Revoked(d, k) = [m EXCEPT !.revoked = m.revoked \cup {k}]
  BY DEF Revoked
<1>2. Alike(m, d)
  BY ModifiedFields
<1> HIDE DEF m
<1> QED BY <1>1, <1>2 DEF Directory, Alike

LEMMA SwitchedFields ==
  ASSUME NEW d \in Directory, NEW k \in Keys
  PROVE  /\ Enabled(d, k) \in Directory /\ Disabled(d, k) \in Directory
         /\ Enabled(d, k).active = d.active \cup {k}
         /\ Disabled(d, k).active = d.active \ {k}
         /\ \A e \in {Enabled(d, k), Disabled(d, k)} :
              e.present = d.present /\ e.name = d.name /\ e.rank = d.rank
<1> DEFINE m == Modified(d, k)
<1>1. /\ Enabled(d, k) = [m EXCEPT !.active = m.active \cup {k}]
      /\ Disabled(d, k) = [m EXCEPT !.active = m.active \ {k}]
  BY DEF Enabled, Disabled
<1>2. Alike(m, d)
  BY ModifiedFields
<1> HIDE DEF m
<1>3. /\ Enabled(d, k) \in Directory /\ Disabled(d, k) \in Directory
      /\ Enabled(d, k).active = m.active \cup {k}
      /\ Disabled(d, k).active = m.active \ {k}
      /\ \A e \in {Enabled(d, k), Disabled(d, k)} :
           e.present = m.present /\ e.name = m.name /\ e.rank = m.rank
  BY <1>1, <1>2 DEF Directory, Alike
<1> QED BY <1>2, <1>3 DEF Alike

LEMMA RenamedFields ==
  ASSUME NEW d \in Directory, NEW k \in Keys, NEW n \in Names
  PROVE  /\ Renamed(d, k, n) \in Directory
         /\ Renamed(d, k, n).present = d.present /\ Renamed(d, k, n).active = d.active
         /\ Renamed(d, k, n).rank = d.rank
         /\ Renamed(d, k, n).name = [d.name EXCEPT ![k] = n]
<1> DEFINE m == Modified(d, k)
           f == [m.name EXCEPT ![k] = n]
<1>1. Renamed(d, k, n) = [m EXCEPT !.name = f]
  BY DEF Renamed
<1>2. Alike(m, d)
  BY ModifiedFields
<1>3. f \in [Keys -> Names] /\ f = [d.name EXCEPT ![k] = n]
  BY <1>2, FieldTypes DEF Alike
<1> HIDE DEF m, f
<1> QED BY <1>1, <1>2, <1>3 DEF Directory, Alike

LEMMA StoredFields ==
  ASSUME NEW d \in Directory, NEW k \in Keys, wildcard \in BOOLEAN
  PROVE  /\ Stored(d, k) \in Directory
         /\ Stored(d, k).present = d.present \cup {k}
         /\ Stored(d, k).active = d.active
         /\ Stored(d, k).name = [d.name EXCEPT ![k] = k]
         /\ Stored(d, k).rank = [d.rank EXCEPT ![k] = Cardinality(d.present) + 1]
<1> DEFINE m == Modified(d, k)
           r == Cardinality(d.present) + 1
           w == IF wildcard THEN m.wild \cup {k} ELSE m.wild \ {k}
           p == m.present \cup {k}
           n == [m.name EXCEPT ![k] = k]
           g == [m.age EXCEPT ![k] = 0]
           t == [m.rank EXCEPT ![k] = r]
<1>1. Stored(d, k) = [m EXCEPT !.present = p, !.name = n, !.age = g, !.rank = t,
                        !.wild = w]
  BY DEF Stored
<1>2. Alike(m, d)
  BY ModifiedFields
<1>3. r \in Nat /\ k \in Names
  BY FieldTypes, ConstantFacts
<1>4. /\ p \subseteq Keys /\ n \in [Keys -> Names] /\ g \in [Keys -> Nat]
      /\ t \in [Keys -> Nat] /\ w \subseteq Keys
      /\ m.active \subseteq Keys /\ m.revoked \subseteq Keys /\ m.idle \in [Keys -> Nat]
  <2> HIDE DEF m, r
  <2>1. m \in Directory
    BY <1>2 DEF Alike
  <2> QED BY <1>3, <2>1, FieldTypes
<1>5. p = d.present \cup {k} /\ n = [d.name EXCEPT ![k] = k]
      /\ t = [d.rank EXCEPT ![k] = r] /\ m.active = d.active
  BY <1>2 DEF Alike
<1>6. m \in Directory
  BY <1>2 DEF Alike
<1> HIDE DEF m, p, n, g, t, w
<1>7. Stored(d, k) = [present |-> p, active |-> m.active, revoked |-> m.revoked,
                       wild |-> w, name |-> n, rank |-> t, age |-> g,
                       idle |-> m.idle]
  BY <1>1, <1>6 DEF Directory
<1>8. Stored(d, k) \in Directory
  BY <1>4, <1>7 DEF Directory
<1> QED BY <1>5, <1>7, <1>8

\* The ranks once the entry of rank r is gone.
Closed(rank, k) ==
  [j \in Keys |-> IF j = k THEN 0
                  ELSE IF rank[j] > rank[k] THEN rank[j] - 1 ELSE rank[j]]

LEMMA DroppedFields ==
  ASSUME NEW d \in Directory, NEW k \in Keys
  PROVE  /\ Dropped(d, k) \in Directory
         /\ Dropped(d, k).present = d.present \ {k}
         /\ Dropped(d, k).active = d.active \ {k}
         /\ Dropped(d, k).name = [d.name EXCEPT ![k] = k]
         /\ Dropped(d, k).rank = Closed(d.rank, k)
<1> DEFINE m == Modified(d, k)
           p == m.present \ {k}
           a == m.active \ {k}
           v == m.revoked \ {k}
           w == m.wild \ {k}
           n == [m.name EXCEPT ![k] = k]
           g == [m.age EXCEPT ![k] = 0]
           r == [j \in Keys |-> IF j = k THEN 0
                                ELSE IF m.rank[j] > d.rank[k] THEN m.rank[j] - 1
                                ELSE m.rank[j]]
<1>1. Dropped(d, k) = [m EXCEPT !.present = p, !.active = a, !.revoked = v,
                        !.wild = w, !.name = n, !.age = g, !.rank = r]
  BY DEF Dropped
<1>2. Alike(m, d)
  BY ModifiedFields
<1>3. r = Closed(d.rank, k)
  BY <1>2 DEF Alike, Closed
<1>4. /\ p \subseteq Keys /\ a \subseteq Keys /\ v \subseteq Keys
      /\ w \subseteq Keys /\ n \in [Keys -> Names] /\ g \in [Keys -> Nat]
      /\ m.idle \in [Keys -> Nat]
  <2> HIDE DEF m
  <2>1. m \in Directory
    BY <1>2 DEF Alike
  <2> QED BY <2>1, FieldTypes, ConstantFacts
<1>5. r \in [Keys -> Nat]
  <2>1. \A j \in Keys : d.rank[j] \in Nat
    BY FieldTypes
  <2> HIDE DEF r
  <2> QED BY <1>3, <2>1 DEF Closed
<1>6. p = d.present \ {k} /\ n = [d.name EXCEPT ![k] = k] /\ a = d.active \ {k}
  BY <1>2 DEF Alike
<1>7. m \in Directory
  BY <1>2 DEF Alike
<1> HIDE DEF m, p, a, v, w, n, g, r
<1>8. Dropped(d, k) = [present |-> p, active |-> a, revoked |-> v, wild |-> w,
                       name |-> n, rank |-> r, age |-> g, idle |-> m.idle]
  BY <1>1, <1>7 DEF Directory
<1>9. Dropped(d, k) \in Directory
  BY <1>4, <1>5, <1>8 DEF Directory
<1> QED BY <1>3, <1>6, <1>8, <1>9

-----------------------------------------------------------------------------
(* Ranks.                                                                  *)

LEMMA StoredRanked ==
  ASSUME NEW d \in Directory, NEW k \in Keys \ d.present, wildcard \in BOOLEAN,
         WellRanked(d)
  PROVE  WellRanked(Stored(d, k))
<1> DEFINE n == Cardinality(d.present)
           e == Stored(d, k)
<1>1. /\ e.present = d.present \cup {k} /\ e.rank = [d.rank EXCEPT ![k] = n + 1]
      /\ d.rank \in [Keys -> Nat] /\ d.present \subseteq Keys /\ n \in Nat
  BY StoredFields, FieldTypes
<1>2. Cardinality(e.present) = n + 1
  BY <1>1, FieldTypes, FS_AddElement
<1>3. \A j \in d.present : d.rank[j] \in 1..n
  BY DEF WellRanked
<1>4. \A i, j \in d.present : d.rank[i] = d.rank[j] => i = j
  BY DEF WellRanked
<1> HIDE DEF n, e
<1>5. \A j \in e.present : e.rank[j] \in 1..(n + 1)
  BY <1>1, <1>3
<1>6. \A i, j \in e.present : e.rank[i] = e.rank[j] => i = j
  BY <1>1, <1>3, <1>4
<1>7. WellRanked(e)
  BY <1>2, <1>5, <1>6 DEF WellRanked
<1> QED BY <1>7 DEF e

\* Closing the gap keeps the order of the others.
LEMMA ClosedRanks ==
  ASSUME NEW rank \in [Keys -> Nat], NEW k \in Keys,
         NEW i \in Keys \ {k}, NEW j \in Keys \ {k},
         rank[i] # rank[k], rank[j] # rank[k]
  PROVE  /\ rank[i] > rank[j] <=> Closed(rank, k)[i] > Closed(rank, k)[j]
         /\ Closed(rank, k)[i] = Closed(rank, k)[j] => rank[i] = rank[j]
<1>1. rank[i] \in Nat /\ rank[j] \in Nat /\ rank[k] \in Nat
  OBVIOUS
<1>2. /\ Closed(rank, k)[i] = IF rank[i] > rank[k] THEN rank[i] - 1 ELSE rank[i]
      /\ Closed(rank, k)[j] = IF rank[j] > rank[k] THEN rank[j] - 1 ELSE rank[j]
  BY DEF Closed
<1> QED BY <1>1, <1>2

LEMMA DroppedRanked ==
  ASSUME NEW d \in Directory, NEW k \in d.present, WellRanked(d)
  PROVE  WellRanked(Dropped(d, k))
<1> DEFINE n == Cardinality(d.present)
           e == Dropped(d, k)
<1>1. /\ e.present = d.present \ {k} /\ e.rank = Closed(d.rank, k) /\ k \in Keys
      /\ d.rank \in [Keys -> Nat] /\ d.present \subseteq Keys /\ n \in Nat
  BY DroppedFields, FieldTypes
<1>2. Cardinality(e.present) = n - 1
  <2>1. IsFiniteSet(d.present) /\ k \in d.present
    BY FieldTypes
  <2>2. Cardinality(d.present \ {k}) = Cardinality(d.present) - 1
    BY ONLY <2>1, FS_RemoveElement
  <2> QED BY <1>1, <2>2
<1>3. /\ \A j \in d.present : d.rank[j] \in 1..n
      /\ \A i, j \in d.present : d.rank[i] = d.rank[j] => i = j
  BY DEF WellRanked
<1> HIDE DEF n, e
<1>4. \A j \in e.present : e.rank[j] \in 1..(n - 1)
  <2>1. SUFFICES ASSUME NEW j \in d.present, j # k PROVE e.rank[j] \in 1..(n - 1)
    BY <1>1
  <2>2. /\ d.rank[j] \in 1..n /\ d.rank[k] \in 1..n /\ d.rank[j] # d.rank[k]
        /\ e.rank[j] = IF d.rank[j] > d.rank[k] THEN d.rank[j] - 1 ELSE d.rank[j]
    BY <1>1, <1>3, <2>1 DEF Closed
  <2> QED BY <1>1, <2>2
<1>5. \A i, j \in e.present : e.rank[i] = e.rank[j] => i = j
  <2>1. SUFFICES ASSUME NEW i \in d.present, NEW j \in d.present, i # k, j # k,
                        e.rank[i] = e.rank[j]
                 PROVE  i = j
    BY <1>1
  <2>2. d.rank[i] # d.rank[k] /\ d.rank[j] # d.rank[k]
    BY <1>3, <2>1
  <2>3. d.rank[i] = d.rank[j]
    BY <1>1, <2>1, <2>2, ClosedRanks
  <2> QED BY <1>3, <2>3
<1>6. WellRanked(e)
  BY <1>2, <1>4, <1>5 DEF WellRanked
<1> QED BY <1>6 DEF e

\* From newest to oldest: every entry once, by descending rank.
LEMMA NewestFirstFacts ==
  ASSUME NEW d \in Directory, WellRanked(d)
  PROVE  LET ks == NewestFirst(d)
             n == Cardinality(d.present)
         IN /\ n \in Nat /\ DOMAIN ks = 1..n
            /\ \A i \in 1..n : ks[i] \in d.present /\ d.rank[ks[i]] = n + 1 - i
            /\ \A k \in d.present : \E i \in 1..n : ks[i] = k
            /\ \A i, j \in 1..n : ks[i] = ks[j] => i = j
<1> DEFINE ks == NewestFirst(d)
           n == Cardinality(d.present)
           P == d.present
           N == 1..n
           f == [k \in P |-> d.rank[k]]
<1>1. n \in Nat /\ IsFiniteSet(P) /\ P \subseteq Keys
  BY FieldTypes
<1>2. /\ \A k \in P : d.rank[k] \in N
      /\ \A j, k \in P : d.rank[j] = d.rank[k] => j = k
  BY DEF WellRanked
<1>3. f \in Injection(P, N)
  BY <1>2 DEF Injection, IsInjective
<1>4. IsFiniteSet(N) /\ Cardinality(N) = n
  <2>1. 1 \in Int /\ n \in Int
    BY <1>1
  <2>2. IsFiniteSet(N) /\ Cardinality(N) = IF 1 > n THEN 0 ELSE n - 1 + 1
    BY <2>1, FS_Interval
  <2> HIDE DEF n, N
  <2> QED BY <1>1, <2>2
<1>5. f \in Surjection(P, N)
  <2> HIDE DEF f, N
  <2>1. Cardinality(P) = Cardinality(N)
    BY <1>4
  <2> HIDE DEF n, P
  <2> QED BY <1>1, <1>3, <1>4, <2>1, FS_Injection
<1>6. \A i \in N : \E k \in P : d.rank[k] = i
  <2>1. \A i \in N : \E k \in P : f[k] = i
    <3> HIDE DEF f, P, N
    <3> QED BY <1>5 DEF Surjection
  <2> QED BY <2>1
<1>7. DOMAIN ks = N
  BY DEF NewestFirst
<1>8. ASSUME NEW i \in N PROVE ks[i] \in P /\ d.rank[ks[i]] = n + 1 - i
  <2>1. n + 1 - i \in N
    BY <1>1
  <2>2. \E k \in P : d.rank[k] = n + 1 - i
    BY <1>6, <2>1
  <2>3. ks[i] = CHOOSE k \in P : d.rank[k] = n + 1 - i
    BY DEF NewestFirst
  <2> HIDE DEF ks, P, n
  <2> QED BY <2>2, <2>3
<1> HIDE DEF ks, f, n, P
<1>9. \A k \in P : \E i \in N : ks[i] = k
  <2>1. TAKE k \in P
  <2> DEFINE i == n + 1 - d.rank[k]
  <2>2. d.rank[k] \in 1..n
    BY <1>2
  <2>3. i \in N /\ n + 1 - i = d.rank[k]
    BY <1>1, <2>2
  <2>4. ks[i] \in P /\ d.rank[ks[i]] = d.rank[k]
    BY <1>8, <2>3
  <2> QED BY <1>2, <2>3, <2>4
<1>10. \A i, j \in N : ks[i] = ks[j] => i = j
  BY <1>1, <1>8
<1> QED BY <1>1, <1>7, <1>8, <1>9, <1>10 DEF ks, n, P

\* The newest of some keys is one of them: fewest of them are above it.
LEMMA NewestIsMember ==
  ASSUME NEW d \in Directory, NEW S \in SUBSET Keys, S # {}
  PROVE  Newest(S, d) \in S
<1> DEFINE above(k) == {j \in S : d.rank[j] > d.rank[k]}
           T == {Cardinality(above(k)) : k \in S}
<1>1. \A k \in S : IsFiniteSet(above(k)) /\ Cardinality(above(k)) \in Nat
  BY ConstantFacts, FS_Subset, FS_CardinalityType
<1>2. T \subseteq Nat /\ T # {}
  BY <1>1
<1>3. \E n \in T : \A m \in T : ~(<<m, n>> \in OpToRel(<, Nat))
  <2> HIDE DEF T
  <2> QED BY <1>2, NatLessThanWellFounded, WFMin, Zenon
<1>4. PICK k \in S : \A m \in T : ~(<<m, Cardinality(above(k))>> \in OpToRel(<, Nat))
  BY <1>3
<1>5. \A m \in T : ~(m < Cardinality(above(k)))
  <2> HIDE DEF T
  <2>1. Cardinality(above(k)) \in Nat
    BY <1>1
  <2> HIDE DEF above
  <2> QED BY <1>2, <1>4, <2>1, Zenon DEF OpToRel
<1>6. \A j \in S : d.rank[j] <= d.rank[k]
  <2>1. SUFFICES ASSUME NEW j \in S, d.rank[j] > d.rank[k] PROVE FALSE
    BY FieldTypes
  <2>2. \A i \in S : d.rank[i] \in Nat
    BY FieldTypes
  <2>3. above(j) \subseteq above(k) /\ j \in above(k) /\ j \notin above(j)
    BY <2>1, <2>2
  <2>4. Cardinality(above(j)) < Cardinality(above(k))
    <3> HIDE DEF above
    <3>1. /\ Cardinality(above(j)) <= Cardinality(above(k))
          /\ Cardinality(above(j)) = Cardinality(above(k)) => above(j) = above(k)
      BY <1>1, <2>3, FS_Subset
    <3> QED BY <1>1, <2>1, <2>3, <3>1
  <2>5. Cardinality(above(j)) \in T
    BY <2>1
  <2> QED BY <1>5, <2>4, <2>5
<1> QED BY <1>6 DEF Newest

-----------------------------------------------------------------------------
(* The planner.                                                            *)

\* A plan under construction for the keys ks, from the names of d.
Sound(ks, d, p) ==
  /\ p.left \subseteq DOMAIN ks /\ p.at \in [Keys -> Names]
  /\ p.steps \in Seq([key : Keys, to : Names])
  /\ Meant(ks, p.steps, d.active)
  /\ Free(p.steps, d.name, {ks[a] : a \in DOMAIN ks})
  /\ \A a \in DOMAIN ks :
       \/ /\ \A i \in DOMAIN p.steps : p.steps[i].key # ks[a]
          /\ p.at[ks[a]] = d.name[ks[a]]
       \/ \E i \in DOMAIN p.steps :
            /\ p.steps[i].key = ks[a] /\ p.steps[i].to = p.at[ks[a]]
            /\ \A j \in DOMAIN p.steps : j > i => p.steps[j].key # ks[a]
  /\ \A a \in DOMAIN ks \ p.left : p.at[ks[a]] = Slot[a]

Selection(ks) ==
  /\ DOMAIN ks \subseteq {1, 2, 3} /\ \A a \in DOMAIN ks : ks[a] \in Keys
  /\ \A a, b \in DOMAIN ks : ks[a] = ks[b] => a = b

\* One more step, to a name nobody bears then.
LEMMA StepSound ==
  ASSUME NEW ks, Selection(ks), NEW d \in Directory, NEW p, Sound(ks, d, p),
         NEW m \in DOMAIN ks, NEW n \in Names, NEW left,
         \/ n = Slot[m] /\ left = p.left \ {m}
         \/ n = Temporary /\ ks[m] \notin d.active /\ left = p.left /\ m \in left,
         n \in SlotNames => \A a \in DOMAIN ks : p.at[ks[a]] # n
  PROVE  Sound(ks, d, Step(p, ks[m], n, left))
<1> DEFINE k == ks[m]
           q == Step(p, k, n, left)
           s == p.steps
           t == q.steps
           N == Len(s) + 1
           R == {ks[a] : a \in DOMAIN ks}
<1>1. /\ q.left = left /\ q.at = [p.at EXCEPT ![k] = n]
      /\ t = Append(s, [key |-> k, to |-> n])
  BY DEF Step
<1>2. /\ k \in Keys /\ left \subseteq DOMAIN ks /\ p.at \in [Keys -> Names]
      /\ s \in Seq([key : Keys, to : Names]) /\ \A a \in DOMAIN ks : ks[a] \in Keys
  BY DEF Selection, Sound
<1> HIDE DEF q
<1>3. q.at \in [Keys -> Names] /\ q.at[k] = n
      /\ \A a \in DOMAIN ks \ {m} : q.at[ks[a]] = p.at[ks[a]]
  BY <1>1, <1>2 DEF Selection
<1>4. /\ t \in Seq([key : Keys, to : Names]) /\ N \in Nat \ {0} /\ DOMAIN t = 1..N
      /\ DOMAIN s = 1..(N - 1) /\ \A i \in 1..(N - 1) : t[i] = s[i]
      /\ t[N].key = k /\ t[N].to = n
  <2>1. [key |-> k, to |-> n] \in [key : Keys, to : Names]
    BY <1>2
  <2> QED BY <1>1, <1>2, <2>1
<1> HIDE DEF s, t, N
<1>5. Meant(ks, t, d.active)
  <2>1. Meant(ks, s, d.active)
    BY DEF Sound, s
  <2>2. \/ t[N].key = ks[m] /\ t[N].to = Slot[m]
        \/ t[N].to = Temporary /\ t[N].key \in R \ d.active
    BY <1>4
  <2> QED BY <1>4, <2>1, <2>2 DEF Meant
<1>6. \A a \in DOMAIN ks :
        \/ /\ \A i \in DOMAIN t : t[i].key # ks[a]
           /\ q.at[ks[a]] = d.name[ks[a]]
        \/ \E i \in DOMAIN t :
             /\ t[i].key = ks[a] /\ t[i].to = q.at[ks[a]]
             /\ \A j \in DOMAIN t : j > i => t[j].key # ks[a]
  <2>1. TAKE a \in DOMAIN ks
  <2>2. CASE a = m
    <3>1. N \in DOMAIN t /\ t[N].key = ks[a] /\ t[N].to = q.at[ks[a]]
      BY <1>3, <1>4, <2>2
    <3>2. \A j \in DOMAIN t : ~(j > N)
      BY <1>4
    <3> QED BY <3>1, <3>2
  <2>3. CASE a # m
    <3>1. k # ks[a] /\ q.at[ks[a]] = p.at[ks[a]]
      BY <1>3, <2>3 DEF Selection
    <3>2. CASE (\A i \in DOMAIN s : s[i].key # ks[a]) /\ p.at[ks[a]] = d.name[ks[a]]
      BY <1>4, <3>1, <3>2
    <3>3. CASE \E i \in DOMAIN s :
                 /\ s[i].key = ks[a] /\ s[i].to = p.at[ks[a]]
                 /\ \A j \in DOMAIN s : j > i => s[j].key # ks[a]
      BY <1>4, <3>1, <3>3
    <3> QED BY <3>2, <3>3 DEF Sound, s
  <2> QED BY <2>2, <2>3
<1>7. Free(t, d.name, R)
  <2>1. Free(s, d.name, R)
    BY DEF Sound, s
  <2>2. SUFFICES ASSUME NEW i \in 1..N, t[i].to \in SlotNames
        PROVE  /\ \A c \in R : d.name[c] = t[i].to => \E j \in 1..(i - 1) : t[j].key = c
               /\ \A h \in 1..(i - 1) : t[h].to = t[i].to =>
                    \E j \in (h + 1)..(i - 1) : t[j].key = t[h].key
    BY <1>4 DEF Free
  <2>3. CASE i \in 1..(N - 1)
    <3>1. /\ \A c \in R : d.name[c] = s[i].to => \E j \in 1..(i - 1) : s[j].key = c
          /\ \A h \in 1..(i - 1) : s[h].to = s[i].to =>
               \E j \in (h + 1)..(i - 1) : s[j].key = s[h].key
      BY <1>4, <2>1, <2>2, <2>3 DEF Free
    <3>2. i \in Nat /\ \A j \in 1..(i - 1) : j \in 1..(N - 1)
      BY <1>4, <2>3
    <3>3. \A h \in 1..(i - 1) : \A j \in (h + 1)..(i - 1) : j \in 1..(N - 1)
      BY <1>4, <2>3
    <3> QED BY <1>4, <2>3, <3>1, <3>2, <3>3
  <2>4. CASE i = N
    <3>1. t[i].to = n /\ n \in SlotNames
      BY <1>4, <2>2, <2>4
    <3>2. \A a \in DOMAIN ks : p.at[ks[a]] # n
      BY <3>1
    <3>3. ASSUME NEW a \in DOMAIN ks, d.name[ks[a]] = n
          PROVE  \E j \in 1..(N - 1) : t[j].key = ks[a]
      <4>1. PICK j \in DOMAIN s : s[j].key = ks[a]
        BY <3>2, <3>3 DEF Sound, s
      <4> QED BY <1>4, <4>1
    <3>4. ASSUME NEW h \in 1..(N - 1), t[h].to = n
          PROVE  \E j \in (h + 1)..(N - 1) : t[j].key = t[h].key
      <4>1. PICK a \in DOMAIN ks : s[h].key = ks[a]
        <5>1. h \in DOMAIN s /\ Meant(ks, s, d.active)
          BY <1>4 DEF Sound, s
        <5>2. \/ \E a \in DOMAIN ks : s[h].key = ks[a] /\ s[h].to = Slot[a]
              \/ s[h].key \in R \ d.active
          BY <5>1 DEF Meant
        <5> QED BY <5>2
      <4>2. PICK j \in 1..(N - 1) :
              /\ s[j].key = ks[a] /\ s[j].to = p.at[ks[a]]
              /\ \A g \in DOMAIN s : g > j => s[g].key # ks[a]
        BY <1>4, <4>1 DEF Sound, s
      <4>3. s[j].to # n /\ s[j].key = ks[a]
        BY <3>2, <4>2
      <4>4. j # h /\ ~(h > j)
        BY <1>4, <3>4, <4>1, <4>2, <4>3
      <4>5. j \in (h + 1)..(N - 1)
        BY <1>4, <4>4
      <4> QED BY <1>4, <4>1, <4>3, <4>5
    <3> QED BY <2>4, <3>1, <3>3, <3>4
  <2> QED BY <1>4, <2>3, <2>4
<1>8. \A a \in DOMAIN ks \ left : q.at[ks[a]] = Slot[a]
  BY <1>3 DEF Sound
<1>9. Sound(ks, d, q)
  BY <1>1, <1>2, <1>3, <1>4, <1>5, <1>6, <1>7, <1>8 DEF Sound, t
<1> QED BY <1>9 DEF q

\* The least of some indices.
LEMMA FirstIsMember ==
  ASSUME NEW S \in SUBSET {1, 2, 3}, S # {}
  PROVE  FirstOf(S) \in S
<1>1. \E i \in S : \A j \in S : i <= j
  <2>1. CASE 1 \in S
    BY <2>1
  <2>2. CASE 1 \notin S /\ 2 \in S
    BY <2>2
  <2>3. CASE 1 \notin S /\ 2 \notin S
    <3>1. \A j \in S : j = 3
      BY <2>3
    <3>2. PICK i \in S : TRUE
      OBVIOUS
    <3>3. \A j \in S : i = j /\ i <= j
      BY <3>1, <3>2
    <3> QED BY <3>3
  <2> QED BY <2>1, <2>2, <2>3
<1> QED BY <1>1 DEF FirstOf

LEMMA TurnSound ==
  ASSUME NEW ks, Selection(ks), NEW d \in Directory, NEW p, Sound(ks, d, p)
  PROVE  Sound(ks, d, Turn(ks, d, p))
<1> DEFINE free == FreeMoves(ks, p)
           idle == Parkable(ks, p, d)
<1>1. /\ free \subseteq p.left /\ idle \subseteq p.left
      /\ p.left \subseteq DOMAIN ks /\ p.left \subseteq {1, 2, 3}
  BY DEF FreeMoves, Parkable, Sound, Selection
<1>2. Turn(ks, d, p) =
        IF free # {}
        THEN Step(p, ks[FirstOf(free)], Slot[FirstOf(free)], p.left \ {FirstOf(free)})
        ELSE IF idle # {} THEN Step(p, ks[FirstOf(idle)], Temporary, p.left) ELSE p
  BY DEF Turn
<1>3. CASE free # {}
  <2> DEFINE m == FirstOf(free)
  <2>1. m \in free
    <3> HIDE DEF free
    <3> QED BY <1>1, <1>3, FirstIsMember
  <2>2. /\ m \in DOMAIN ks /\ Slot[m] \in Names
        /\ \A a \in DOMAIN ks : p.at[ks[a]] # Slot[m]
    BY <1>1, <2>1, SlotFacts DEF FreeMoves
  <2>3. Turn(ks, d, p) = Step(p, ks[m], Slot[m], p.left \ {m})
    BY <1>2, <1>3
  <2> HIDE DEF m
  <2> QED BY <2>2, <2>3, StepSound
<1>4. CASE free = {} /\ idle # {}
  <2> DEFINE m == FirstOf(idle)
  <2>1. m \in idle
    <3> HIDE DEF idle
    <3> QED BY <1>1, <1>4, FirstIsMember
  <2>2. /\ m \in DOMAIN ks /\ m \in p.left /\ ks[m] \notin d.active
        /\ Temporary \in Names /\ Temporary \notin SlotNames
    BY <1>1, <2>1, ConstantFacts DEF Parkable
  <2>3. Turn(ks, d, p) = Step(p, ks[m], Temporary, p.left)
    BY <1>2, <1>4
  <2> HIDE DEF m
  <2> QED BY <2>2, <2>3, StepSound
<1>5. CASE free = {} /\ idle = {}
  BY <1>2, <1>5
<1> QED BY <1>3, <1>4, <1>5

\* A plan without moves left is a sequence of steps that can be carried out
\* one by one and that ends with every key in its slot.
LEMMA PlannedFacts ==
  ASSUME NEW ks, Selection(ks), NEW d \in Directory, Planned(ks, d).left = {}
  PROVE  LET ss == Planned(ks, d).steps
             S == {ks[a] : a \in DOMAIN ks}
         IN /\ ss \in Seq([key : Keys, to : Names])
            /\ Meant(ks, ss, d.active) /\ Free(ss, d.name, S) /\ Ends(ks, ss, d.name, S)
<1> DEFINE before == [left |-> Moves(ks, d), at |-> d.name, steps |-> <<>>]
           p == Planned(ks, d)
<1>1. Sound(ks, d, before)
  <2>1. d.name \in [Keys -> Names] /\ Moves(ks, d) \subseteq DOMAIN ks
    BY FieldTypes DEF Moves
  <2>2. /\ before.left = Moves(ks, d) /\ before.at = d.name /\ before.steps = <<>>
        /\ DOMAIN before.steps = {} /\ before.steps \in Seq([key : Keys, to : Names])
    OBVIOUS
  <2>3. \A a \in DOMAIN ks \ before.left : before.at[ks[a]] = Slot[a]
    BY <2>2 DEF Moves
  <2> HIDE DEF before
  <2> QED BY <2>1, <2>2, <2>3 DEF Sound, Meant, Free
<1>2. p = Turn(ks, d, Turn(ks, d, Turn(ks, d, Turn(ks, d, before))))
  BY DEF Planned
<1> HIDE DEF before
<1>3. Sound(ks, d, p)
  <2> HIDE DEF p
  <2>1. Sound(ks, d, Turn(ks, d, before))
    BY <1>1, TurnSound
  <2>2. Sound(ks, d, Turn(ks, d, Turn(ks, d, before)))
    BY <2>1, TurnSound
  <2>3. Sound(ks, d, Turn(ks, d, Turn(ks, d, Turn(ks, d, before))))
    BY <2>2, TurnSound
  <2> QED BY <1>2, <2>3, TurnSound
<1>4. p.left = {}
  OBVIOUS
<1> HIDE DEF p
<1>5. Ends(ks, p.steps, d.name, {ks[a] : a \in DOMAIN ks})
  <2>1. SUFFICES ASSUME NEW a \in DOMAIN ks
        PROVE  \/ \E i \in DOMAIN p.steps :
                    /\ p.steps[i].key = ks[a] /\ p.steps[i].to = Slot[a]
                    /\ \A j \in DOMAIN p.steps : j > i => p.steps[j].key # ks[a]
               \/ /\ d.name[ks[a]] = Slot[a]
                  /\ \A j \in DOMAIN p.steps : p.steps[j].key # ks[a]
    BY DEF Ends
  <2>2. p.at[ks[a]] = Slot[a]
    BY <1>3, <1>4 DEF Sound
  <2> QED BY <1>3, <2>2 DEF Sound
<1>6. /\ p.steps \in Seq([key : Keys, to : Names]) /\ Meant(ks, p.steps, d.active)
      /\ Free(p.steps, d.name, {ks[a] : a \in DOMAIN ks})
  BY <1>3 DEF Sound
<1> QED BY <1>5, <1>6 DEF p

\* Carrying out the first step leaves a plan that can be carried out.
LEMMA TailFacts ==
  ASSUME NEW ks, NEW ss \in Seq([key : Keys, to : Names]), ss # <<>>,
         NEW at \in [Keys -> Names], NEW S \in SUBSET Keys, NEW active,
         Selection(ks), Meant(ks, ss, active), Free(ss, at, S), Ends(ks, ss, at, S)
  PROVE  LET to == [at EXCEPT ![Head(ss).key] = Head(ss).to]
         IN /\ Tail(ss) \in Seq([key : Keys, to : Names])
            /\ Meant(ks, Tail(ss), active) /\ Free(Tail(ss), to, S)
            /\ Ends(ks, Tail(ss), to, S)
<1> DEFINE N == Len(ss)
           t == Tail(ss)
           to == [at EXCEPT ![Head(ss).key] = Head(ss).to]
           first == ss[1]
<1>1. /\ t \in Seq([key : Keys, to : Names]) /\ N \in Nat \ {0} /\ DOMAIN ss = 1..N
      /\ DOMAIN t = 1..(N - 1) /\ \A i \in 1..(N - 1) : t[i] = ss[i + 1]
      /\ Head(ss) = first /\ first \in [key : Keys, to : Names]
  <2>1. N \in Nat \ {0} /\ DOMAIN ss = 1..N /\ t \in Seq([key : Keys, to : Names])
    OBVIOUS
  <2>2. DOMAIN t = 1..(N - 1) /\ \A i \in 1..(N - 1) : t[i] = ss[i + 1]
    OBVIOUS
  <2>3. Head(ss) = first
    OBVIOUS
  <2>4. 1 \in DOMAIN ss
    BY <2>1
  <2>5. first \in [key : Keys, to : Names]
    <3> DEFINE R == [key : Keys, to : Names]
    <3>1. ss \in Seq(R) /\ 1 \in 1..Len(ss)
      BY <2>1
    <3> HIDE DEF R
    <3>2. ss[1] \in R
      BY <3>1, ElementOfSeq
    <3> QED BY <3>2 DEF R
  <2> QED BY <2>1, <2>2, <2>3, <2>5
<1>2. /\ to[first.key] = first.to /\ first.key \in Keys
      /\ \A k \in Keys : k # first.key => to[k] = at[k]
  BY <1>1
<1> HIDE DEF N, t, to, first
<1>3. Meant(ks, t, active)
  <2> DEFINE Good(step) ==
        \/ \E a \in DOMAIN ks : step.key = ks[a] /\ step.to = Slot[a]
        \/ /\ step.to = Temporary
           /\ step.key \in {ks[a] : a \in DOMAIN ks} \ active
  <2>1. \A i \in DOMAIN ss : Good(ss[i])
    BY DEF Meant
  <2> HIDE DEF Good
  <2>2. \A i \in 1..(N - 1) : Good(t[i])
    <3>1. TAKE i \in 1..(N - 1)
    <3>2. i + 1 \in DOMAIN ss /\ t[i] = ss[i + 1]
      BY <1>1
    <3> QED BY <2>1, <3>2
  <2> QED BY <1>1, <2>2 DEF Good, Meant
<1>4. Free(t, to, S)
  <2>1. SUFFICES ASSUME NEW i \in 1..(N - 1), t[i].to \in SlotNames
        PROVE  /\ \A k \in S : to[k] = t[i].to => \E j \in 1..(i - 1) : t[j].key = k
               /\ \A h \in 1..(i - 1) : t[h].to = t[i].to =>
                    \E j \in (h + 1)..(i - 1) : t[j].key = t[h].key
    BY <1>1 DEF Free
  <2> DEFINE g == i + 1
  <2>2. g \in DOMAIN ss /\ t[i] = ss[g] /\ g - 1 = i /\ g \in Nat /\ i \in Nat \ {0}
    BY <1>1
  <2> HIDE DEF g
  <2>3. /\ \A k \in S : at[k] = ss[g].to => \E j \in 1..i : ss[j].key = k
        /\ \A h \in 1..i : ss[h].to = ss[g].to =>
             \E j \in (h + 1)..i : ss[j].key = ss[h].key
    BY <2>1, <2>2 DEF Free
  <2>4. \A j \in 2..i : j - 1 \in 1..(i - 1) /\ t[j - 1] = ss[j]
    <3>1. TAKE j \in 2..i
    <3>2. j - 1 \in 1..(i - 1) /\ j - 1 \in 1..(N - 1) /\ (j - 1) + 1 = j
      BY <1>1, <2>2
    <3>3. t[j - 1] = ss[(j - 1) + 1]
      BY <1>1, <3>2
    <3> QED BY <3>2, <3>3
  <2>5. ASSUME NEW k \in S, to[k] = t[i].to
        PROVE  \E j \in 1..(i - 1) : t[j].key = k
    <3>1. \E j \in 2..i : ss[j].key = k
      <4>1. CASE k = first.key
        <5>1. ss[1].to = ss[g].to /\ 1 \in 1..i
          BY <1>1, <1>2, <2>2, <2>5, <4>1 DEF first
        <5>2. PICK j \in 2..i : ss[j].key = ss[1].key
          BY <2>3, <5>1
        <5> QED BY <4>1, <5>2 DEF first
      <4>2. CASE k # first.key
        <5>1. at[k] = ss[g].to
          BY <1>2, <2>2, <2>5, <4>2
        <5>2. PICK j \in 1..i : ss[j].key = k
          BY <2>3, <5>1
        <5>3. j # 1
          BY <4>2, <5>2 DEF first
        <5> QED BY <2>2, <5>2, <5>3
      <4> QED BY <4>1, <4>2
    <3> QED BY <2>4, <3>1
  <2>6. ASSUME NEW h \in 1..(i - 1), t[h].to = t[i].to
        PROVE  \E j \in (h + 1)..(i - 1) : t[j].key = t[h].key
    <3>1. h + 1 \in 1..i /\ t[h] = ss[h + 1] /\ h \in Nat
      BY <1>1, <2>2
    <3>2. PICK j \in (h + 2)..i : ss[j].key = ss[h + 1].key
      <4>1. PICK j \in ((h + 1) + 1)..i : ss[j].key = ss[h + 1].key
        BY <2>2, <2>3, <2>6, <3>1
      <4> QED BY <3>1, <4>1
    <3>3. j \in 2..i /\ j - 1 \in (h + 1)..(i - 1)
      BY <2>2, <3>1
    <3>4. t[j - 1] = ss[j]
      BY <2>4, <3>3
    <3> QED BY <3>1, <3>2, <3>3, <3>4
  <2> QED BY <2>5, <2>6
<1>5. Ends(ks, t, to, S)
  <2>1. SUFFICES ASSUME NEW a \in DOMAIN ks
        PROVE  \/ \E i \in DOMAIN t :
                    /\ t[i].key = ks[a] /\ t[i].to = Slot[a]
                    /\ \A j \in DOMAIN t : j > i => t[j].key # ks[a]
               \/ /\ ks[a] \in S => to[ks[a]] = Slot[a]
                  /\ \A j \in DOMAIN t : t[j].key # ks[a]
    BY DEF Ends
  <2>2. ks[a] \in Keys
    BY DEF Selection
  <2>3. CASE \E i \in DOMAIN ss : /\ ss[i].key = ks[a] /\ ss[i].to = Slot[a]
                                  /\ \A j \in DOMAIN ss : j > i => ss[j].key # ks[a]
    <3>1. PICK i \in 1..N : /\ ss[i].key = ks[a] /\ ss[i].to = Slot[a]
                            /\ \A j \in 1..N : j > i => ss[j].key # ks[a]
      BY <1>1, <2>3
    <3>2. CASE i = 1
      <4>1. to[ks[a]] = Slot[a]
        BY <1>2, <3>1, <3>2 DEF first
      <4>2. \A j \in 1..(N - 1) : t[j].key # ks[a]
        <5>1. TAKE j \in 1..(N - 1)
        <5>2. j + 1 \in 1..N /\ j + 1 > 1 /\ t[j] = ss[j + 1]
          BY <1>1
        <5> QED BY <3>1, <3>2, <5>2
      <4> QED BY <1>1, <4>1, <4>2
    <3>3. CASE i # 1
      <4> DEFINE h == i - 1
      <4>1. h \in 1..(N - 1) /\ h + 1 = i
        BY <1>1, <3>3
      <4>2. t[h] = ss[i]
        BY <1>1, <4>1
      <4>3. \A j \in 1..(N - 1) : j > h => t[j].key # ks[a]
        <5>1. TAKE j \in 1..(N - 1)
        <5>2. j + 1 \in 1..N /\ (j > h => j + 1 > i) /\ t[j] = ss[j + 1]
          BY <1>1, <4>1
        <5> QED BY <3>1, <5>2
      <4> HIDE DEF h
      <4> QED BY <1>1, <3>1, <4>1, <4>2, <4>3
    <3> QED BY <3>2, <3>3
  <2>4. CASE /\ ks[a] \in S => at[ks[a]] = Slot[a]
             /\ \A j \in DOMAIN ss : ss[j].key # ks[a]
    <3>1. first.key # ks[a]
      BY <1>1, <2>4 DEF first
    <3>2. \A j \in 1..(N - 1) : t[j].key # ks[a]
      <4>1. TAKE j \in 1..(N - 1)
      <4>2. j + 1 \in 1..N /\ t[j] = ss[j + 1]
        BY <1>1
      <4> QED BY <1>1, <2>4, <4>2
    <3> QED BY <1>1, <1>2, <2>2, <2>4, <3>1, <3>2
  <2> QED BY <2>3, <2>4 DEF Ends
<1> QED BY <1>1, <1>3, <1>4, <1>5 DEF t, to, first

-----------------------------------------------------------------------------
(* Plans, snapshots and frames.                                            *)

LEMMA PlanFacts ==
  ASSUME NEW ks \in Plans
  PROVE  /\ DOMAIN ks \subseteq {1, 2, 3} /\ \A a \in DOMAIN ks : ks[a] \in Keys
         /\ 3 \in DOMAIN ks => 2 \in DOMAIN ks
         /\ 2 \in DOMAIN ks => 1 \in DOMAIN ks
         /\ 1 \notin DOMAIN ks => DOMAIN ks = {}
<1>1. PICK n \in 0..3 : ks \in [1..n -> Keys]
  BY DEF Plans
<1> QED BY <1>1

\* Steps that could be carried out still can when fewer keys are concerned.
LEMMA StepsStay ==
  ASSUME NEW ks, NEW ss, NEW at, NEW S, NEW active,
         Meant(ks, ss, active), Free(ss, at, S), Ends(ks, ss, at, S),
         NEW to, NEW T \in SUBSET S, NEW less \in SUBSET active,
         \A k \in T : to[k] = at[k]
  PROVE  Meant(ks, ss, less) /\ Free(ss, to, T) /\ Ends(ks, ss, to, T)
<1>1. Meant(ks, ss, less)
  BY DEF Meant
<1>2. Free(ss, to, T)
  BY DEF Free
<1>3. Ends(ks, ss, to, T)
  BY DEF Ends
<1> QED BY <1>1, <1>2, <1>3

Apart == ~Reordering /\ ~Placed
Core == TypeOK /\ EntriesInv /\ TreeInv /\ CallInv /\ ActiveResolves
Slots == PlanInv /\ SlotsInv /\ ExactInv

LEMMA Joined ==
  ASSUME Core', Slots'
  PROVE  CnameInv'
BY DEF CnameInv, Core, Slots

\* Outside a reorder nothing is asked of its variables.
LEMMA ApartIsQuiet ==
  ASSUME Apart'
  PROVE  Slots'
BY DEF Apart, Slots, PlanInv, SlotsInv, ExactInv, Reordering, Placed

LEMMA CallFields ==
  ASSUME NEW what \in Calls, NEW k \in Keys \cup {NoKey}
  PROVE  /\ Call(what, k) \in CallShape
         /\ Call(what, k).do = what /\ Call(what, k).key = k
BY DEF Call, CallShape

LEMMA NoCallFields ==
  /\ NoCall \in CallShape /\ NoCall.do = "none" /\ NoCall.key = NoKey
BY DEF NoCall, Call, CallShape, Calls

Commands == Calls \ {"publish", "clean", "rename"}

LEMMA CallsByPhase ==
  /\ CallsOf("prune") = {"none", "erase", "drop"}
  /\ CallsOf("rename") = {"none", "rename"}
  /\ CallsOf("slot3") = {"none", "enable", "disable"}
  /\ CallsOf("last") = {"none", "retire", "tombstone", "revoke"}
  /\ \A p \in {"idle", "slot1", "slot2", "activate", "sources"} : CallsOf(p) = {"none"}
  /\ \A p \in {"reconcile", "addNew", "addMissing", "rotate", "visit", "sweep",
               "reorder", "command"} : CallsOf(p) = Commands
  /\ \A p \in Phases : "none" \in CallsOf(p)
BY DEF CallsOf, Phases, Commands, Calls

\* The phases each call belongs to.
LEMMA InCall ==
  ASSUME CnameInv, doing.do # "none"
  PROVE  /\ Running
         /\ doing.do # "store" => doing.key \in Keys
         /\ doing.do \in {"store", "test"} => Apart
         /\ doing.do \in {"enable", "disable"} => Apart \/ phase = "slot3"
         /\ doing.do \in {"retire", "tombstone", "revoke"} => Apart \/ phase = "last"
         /\ doing.do \in {"erase", "drop"} => Apart \/ phase = "prune"
         /\ doing.do = "rename" => phase = "rename"
         /\ doing.do \notin {"publish", "clean"}
         /\ Apart => CallsOf(phase) = Commands
<1>1. doing.do \in CallsOf(phase) /\ phase \in Phases
  BY DEF CnameInv, CallInv, TypeOK
<1>2. doing.do # "store" => doing.key \in Keys
  BY DEF CnameInv, CallInv
<1>3. \/ phase \in {"prune", "rename", "slot3", "last"}
      \/ /\ phase \in {"reconcile", "addNew", "addMissing", "rotate", "visit",
                       "sweep", "reorder", "command"}
         /\ Apart
  BY <1>1, CallsByPhase DEF Phases, Apart, Reordering, Placed
<1> QED BY <1>1, <1>2, <1>3, CallsByPhase
        DEF Apart, Reordering, Placed, Running, Commands

\* The entries have the types of a directory.
LEMMA Fields ==
  ASSUME CnameInv
  PROVE  /\ ldap \in Directory /\ tree \in Directory
         /\ ldap.present \subseteq Keys /\ ldap.active \subseteq Keys
         /\ tree.present \subseteq Keys /\ tree.active \subseteq Keys
         /\ ldap.name \in [Keys -> Names] /\ ldap.rank \in [Keys -> Nat]
         /\ tree.name \in [Keys -> Names] /\ tree.rank \in [Keys -> Nat]
         /\ ldap.active \subseteq ldap.present
         /\ WellNamed(ldap) /\ WellRanked(ldap)
BY FieldTypes DEF CnameInv, TypeOK, EntriesInv, WellNamed

\* The entries are a snapshot of themselves.
LEMMA LdapIsSnapshot ==
  ASSUME EntriesInv
  PROVE  Snapshot(ldap)
BY DEF EntriesInv, Snapshot

LEMMA Reloaded ==
  ASSUME EntriesInv', tree' = ldap'
  PROVE  TreeInv'
BY DEF EntriesInv, Snapshot, TreeInv

\* What a command sees, outside a chain of disabling.
LEMMA SeenIsSnapshot ==
  ASSUME CnameInv, Running, doing.do # "disable", NEW seen \in Seen \cup {ldap}
  PROVE  seen \in Directory /\ Snapshot(seen) /\ seen.active = ldap.active
BY LdapIsSnapshot DEF CnameInv, TreeInv, Seen, TypeOK

\* A step that reads only keeps everything the calls rely on.
LEMMA QuietCore ==
  ASSUME CnameInv, UNCHANGED <<ldap, zone, waived, wildcard, planVars>>, Running,
         tree' \in Seen \cup {ldap}, doing.do # "disable" \/ tree' = ldap,
         phase' \in Phases, doing' \in CallShape, queue' \subseteq Keys, CallInv'
  PROVE  Core'
<1>1. tree' \in Directory /\ Snapshot(tree') /\ tree'.active = ldap.active
  BY SeenIsSnapshot, LdapIsSnapshot DEF CnameInv, TypeOK
<1>2. TypeOK'
  BY <1>1 DEF CnameInv, TypeOK, planVars
<1>3. TreeInv'
  BY <1>1 DEF TreeInv, Snapshot, WellNamed, WellRanked
<1>4. EntriesInv' /\ ActiveResolves'
  BY DEF CnameInv, EntriesInv, WellNamed, WellRanked, ActiveResolves
<1> QED BY <1>2, <1>3, <1>4 DEF Core

\* One that makes no call.
LEMMA NoCallInv ==
  ASSUME doing' = NoCall, phase' \in Phases
  PROVE  doing' \in CallShape /\ CallInv'
BY NoCallFields, CallsByPhase DEF CallInv

\* A command ends.
LEMMA EndKeeps ==
  ASSUME CnameInv, UNCHANGED <<ldap, zone, waived>>, wildcard' \in BOOLEAN,
         phase' = "idle", doing' = NoCall, queue' \subseteq Keys, tree' \in Directory,
         plan' \in Plans, steps' \in Seq([key : Keys, to : Names]),
         sources' \subseteq Names \ SlotNames
  PROVE  CnameInv'
<1>1. phase' \in Phases
  BY DEF Phases
<1>2. TypeOK'
  BY <1>1, NoCallFields DEF CnameInv, TypeOK
<1>3. CallInv'
  BY <1>1, NoCallInv
<1>4. TreeInv'
  BY DEF TreeInv, Running
<1>5. EntriesInv' /\ ActiveResolves'
  BY DEF CnameInv, EntriesInv, WellNamed, WellRanked, ActiveResolves
<1>6. Apart'
  BY DEF Apart, Reordering, Placed
<1> QED BY <1>2, <1>3, <1>4, <1>5, <1>6, ApartIsQuiet, Joined DEF Core

-----------------------------------------------------------------------------
(* Steps outside a reorder that only read, and the ends of commands.       *)

\* Such a step leads to another one outside.
LEMMA QuietApart ==
  ASSUME CnameInv, UNCHANGED <<ldap, zone, waived, wildcard, planVars>>, Running,
         tree' \in Seen \cup {ldap}, doing.do # "disable" \/ tree' = ldap,
         phase' \in Phases, doing' \in CallShape, queue' \subseteq Keys, CallInv',
         Apart'
  PROVE  CnameInv'
BY QuietCore, ApartIsQuiet, Joined

LEMMA TestKeyKeeps ==
  ASSUME CnameInv, TestKey, UNCHANGED planVars
  PROVE  CnameInv'
<1>1. /\ doing.do = "test" /\ doing' = NoCall
      /\ UNCHANGED <<ldap, tree, phase, queue, outcome, zone, waived, wildcard>>
  BY DEF TestKey, SameRecords, SameBounds, historyVars
<1>2. Running /\ Apart
  BY <1>1, InCall
<1>6. Apart'
  BY <1>1, <1>2 DEF Apart, Reordering, Placed
<1>3. phase' \in Phases /\ queue' \subseteq Keys /\ tree' \in Seen
  BY <1>1 DEF CnameInv, TypeOK, Seen
<1>4. doing' \in CallShape /\ CallInv'
  BY <1>1, <1>3, NoCallInv
<1> QED BY <1>1, <1>2, <1>3, <1>4, <1>6, QuietApart

LEMMA EndCommandKeeps ==
  ASSUME CnameInv, EndCommand, UNCHANGED planVars
  PROVE  CnameInv'
<1>1. /\ phase' = "idle" /\ doing' = NoCall /\ queue' = {} /\ tree' = tree
      /\ UNCHANGED <<ldap, zone, waived, wildcard, plan, steps, sources>>
  BY DEF EndCommand, Complete, SameRecords, SameBounds, historyVars, planVars
<1> QED BY <1>1, EndKeeps DEF CnameInv, TypeOK

\* The decisions of --auto.
LEMMA DecideKeeps ==
  ASSUME CnameInv, AddNew \/ AddMissing \/ Rotate, UNCHANGED planVars
  PROVE  CnameInv'
<1>1. /\ Running /\ doing = NoCall
      /\ phase' \in {"addMissing", "rotate", "reorder"} /\ queue' = queue
      /\ UNCHANGED <<ldap, zone, waived, wildcard>>
  BY CnameAssumption DEF AddNew, AddMissing, Rotate, Decide, Proceed, SameRecords,
     SameBounds, Running, historyVars
<1>2. PICK seen \in Seen :
        /\ tree' = seen
        /\ \/ \E needed \in BOOLEAN : doing' = Creation(needed)
           \/ doing' = Rotation(seen)
  BY DEF AddNew, AddMissing, Rotate, Decide
<1>3. /\ doing.do # "disable" /\ seen \in Directory /\ phase' \in Phases /\ Apart'
      /\ CallsOf(phase') = Commands /\ queue' \subseteq Keys
  BY <1>1, NoCallFields, SeenIsSnapshot, CallsByPhase
     DEF Phases, Apart, Reordering, Placed, CnameInv, TypeOK
<1>4. doing' = NoCall \/ doing' = Call("store", NoKey)
      \/ \E k \in seen.present : doing' = Call("test", k)
  <2>1. CASE \E needed \in BOOLEAN : doing' = Creation(needed)
    BY <2>1 DEF Creation
  <2>2. CASE doing' = Rotation(seen)
    <3> DEFINE newer == {k \in Usable(seen) :
                           seen.rank[k] > seen.rank[Newest(seen.active, seen)]}
    <3>1. newer \subseteq seen.present /\ newer \subseteq Keys
      BY <1>3, FieldTypes DEF Usable
    <3>2. newer # {} => Newest(newer, seen) \in newer
      BY <1>3, <3>1, NewestIsMember
    <3>3. doing' = NoCall \/ (newer # {} /\ doing' = Call("test", Newest(newer, seen)))
      BY <2>2 DEF Rotation
    <3> QED BY <3>1, <3>2, <3>3
  <2> QED BY <1>2, <2>1, <2>2
<1>5. \A k \in seen.present : k \in Keys
  BY <1>3, FieldTypes
<1>6. doing' \in CallShape /\ CallInv'
  <2>1. CASE doing' = NoCall
    BY <1>3, <2>1, NoCallInv
  <2>2. CASE doing' = Call("store", NoKey)
    <3>1. doing' \in CallShape /\ doing'.do = "store"
      BY <2>2, CallFields DEF Calls
    <3> QED BY <1>3, <3>1 DEF CallInv, Commands, Calls
  <2>3. CASE \E k \in seen.present : doing' = Call("test", k)
    <3>1. PICK k \in seen.present : doing' = Call("test", k)
      BY <2>3
    <3>2. k \in Keys /\ doing' \in CallShape /\ doing'.do = "test" /\ doing'.key = k
      BY <1>5, <3>1, CallFields DEF Calls
    <3> QED BY <1>2, <1>3, <3>1, <3>2 DEF CallInv, Commands, Calls
  <2> QED BY <1>4, <2>1, <2>2, <2>3
<1> QED BY <1>1, <1>2, <1>3, <1>6, QuietApart

\* A command begins with a new snapshot.
LEMMA BeginKeeps ==
  ASSUME CnameInv, NEW to \in {"reconcile", "command"}, NEW call \in CallShape,
         Begin(to, call), waived \subseteq waived', CallInv',
         plan' = <<>>, steps' = <<>>, sources' = {}
  PROVE  CnameInv'
<1>1. /\ phase' = to /\ doing' = call /\ tree' = ldap
      /\ UNCHANGED <<queue, ldap, wildcard, zone>>
  BY DEF Begin
<1>2. plan' \in Plans /\ steps' \in Seq([key : Keys, to : Names])
  BY DEF Plans
<1>3. TypeOK'
  BY <1>1, <1>2 DEF CnameInv, TypeOK, Phases
<1>4. EntriesInv' /\ ActiveResolves'
  BY <1>1 DEF CnameInv, EntriesInv, WellNamed, WellRanked, ActiveResolves
<1>5. TreeInv'
  BY <1>1, <1>4, Reloaded
<1>6. Apart'
  BY <1>1 DEF Apart, Reordering, Placed
<1> QED BY <1>3, <1>4, <1>5, <1>6, ApartIsQuiet, Joined DEF Core

LEMMA OutsideResets ==
  ASSUME Outside, phase' \in {"idle", "command", "reconcile"}
  PROVE  /\ plan' = <<>> /\ steps' = <<>> /\ sources' = {}
         /\ plan' \in Plans /\ steps' \in Seq([key : Keys, to : Names])
<1>1. plan' = <<>> /\ steps' = <<>> /\ sources' = {}
  BY DEF Outside
<1>2. <<>> \in Plans /\ <<>> \in Seq([key : Keys, to : Names])
  BY DEF Plans
<1> QED BY <1>1, <1>2

LEMMA RunAutoKeeps ==
  ASSUME CnameInv, Outside, RunAuto
  PROVE  CnameInv'
<1>1. Begin("reconcile", NoCall) /\ doing' = NoCall /\ phase' = "reconcile"
      /\ waived' = waived
  BY DEF RunAuto, Begin
<1>2. CallInv'
  BY <1>1, NoCallInv DEF Phases
<1> QED BY <1>1, <1>2, BeginKeeps, NoCallFields, OutsideResets

LEMMA CreateKeeps ==
  ASSUME CnameInv, Outside, Create
  PROVE  CnameInv'
<1>1. /\ Begin("command", Call("store", NoKey)) /\ doing' = Call("store", NoKey)
      /\ phase' = "command" /\ waived' = waived
  BY DEF Create, Command, Begin
<1>2. Call("store", NoKey) \in CallShape /\ doing'.do = "store"
  BY <1>1, CallFields DEF Calls
<1>3. CallInv'
  BY <1>1, <1>2, CallsByPhase DEF CallInv, Commands, Calls
<1> QED BY <1>1, <1>2, <1>3, BeginKeeps, OutsideResets

LEMMA ActiveKeeps ==
  ASSUME CnameInv, Outside, NEW k \in Keys, Active(k)
  PROVE  CnameInv'
<1>1. PICK what \in {"test", "enable", "disable"} :
        /\ Begin("command", Call(what, k)) /\ k \in ldap.present
        /\ \/ what = "test" /\ waived' = waived
           \/ what \in {"enable", "disable"} /\ waived' = waived \cup {k}
        /\ what = "disable" => k \in ldap.active
  BY DEF Active, Command, Forced
<1>2. /\ doing' = Call(what, k) /\ phase' = "command" /\ tree' = ldap /\ ldap' = ldap
      /\ waived \subseteq waived'
  BY <1>1 DEF Begin
<1>3. Call(what, k) \in CallShape /\ doing'.do = what /\ doing'.key = k
  BY <1>2, CallFields DEF Calls
<1>4. CallInv'
  BY <1>1, <1>2, <1>3, CallsByPhase DEF CallInv, Commands, Calls
<1> QED BY <1>1, <1>2, <1>3, <1>4, BeginKeeps, OutsideResets

LEMMA DeleteKeeps ==
  ASSUME CnameInv, Outside, NEW k \in Keys, Delete(k)
  PROVE  CnameInv'
<1>1. PICK what \in {"retire", "erase"} :
        /\ Begin("command", Call(what, k)) /\ k \in ldap.present
        /\ \/ what = "retire" /\ waived' = waived
           \/ what = "erase" /\ waived' = waived \cup {k}
  BY DEF Delete, Command, Forced
<1>2. /\ doing' = Call(what, k) /\ phase' = "command" /\ tree' = ldap /\ ldap' = ldap
      /\ waived \subseteq waived'
  BY <1>1 DEF Begin
<1>3. Call(what, k) \in CallShape /\ doing'.do = what /\ doing'.key = k
  BY <1>2, CallFields DEF Calls
<1>4. CallInv'
  BY <1>1, <1>2, <1>3, CallsByPhase DEF CallInv, Commands, Calls
<1> QED BY <1>1, <1>2, <1>3, <1>4, BeginKeeps, OutsideResets

LEMMA AbortKeeps ==
  ASSUME CnameInv, Outside, Abort
  PROVE  CnameInv'
<1>1. /\ phase' = "idle" /\ doing' = NoCall /\ queue' = {}
      /\ UNCHANGED <<ldap, tree, wildcard, zone, waived>>
  BY DEF Abort, SameRecords, historyVars
<1> QED BY <1>1, EndKeeps, OutsideResets DEF CnameInv, TypeOK

LEMMA ConfigureKeeps ==
  ASSUME CnameInv, Outside, Configure
  PROVE  CnameInv'
<1>1. /\ phase = "idle" /\ wildcard' = ~wildcard
      /\ UNCHANGED <<ldap, tree, zone, phase, doing, queue, waived>>
  BY DEF Configure, runVars, historyVars
<1>2. TypeOK' /\ TreeInv' /\ CallInv'
  BY <1>1, OutsideResets DEF CnameInv, TypeOK, TreeInv, CallInv, Running
<1>3. EntriesInv' /\ ActiveResolves'
  BY <1>1 DEF CnameInv, EntriesInv, WellNamed, WellRanked, ActiveResolves
<1>4. Apart'
  BY <1>1 DEF Apart, Reordering, Placed
<1> QED BY <1>2, <1>3, <1>4, ApartIsQuiet, Joined DEF Core

LEMMA AgedType ==
  ASSUME NEW f \in [Keys -> Nat], NEW limit \in Nat, NEW S
  PROVE  Aged(f, limit, S) \in [Keys -> Nat]
BY DEF Aged, Capped

LEMMA TickKeeps ==
  ASSUME CnameInv, Outside, Tick
  PROVE  CnameInv'
<1> DEFINE age == Aged(ldap.age, ExpireAfter, ldap.present)
           idle == Aged(ldap.idle, Horizon, ldap.present)
<1>1. /\ phase = "idle" /\ ldap' = [ldap EXCEPT !.age = age, !.idle = idle]
      /\ UNCHANGED <<tree, zone, phase, doing, queue, waived, wildcard>>
  BY DEF Tick, runVars
<1>2. ldap \in Directory /\ ldap.age \in [Keys -> Nat] /\ ldap.idle \in [Keys -> Nat]
  BY FieldTypes DEF CnameInv, TypeOK
<1>3. age \in [Keys -> Nat] /\ idle \in [Keys -> Nat]
  BY <1>2, AgedType, ConstantFacts
<1> HIDE DEF age, idle
<1>4. Alike(ldap', ldap)
  BY <1>1, <1>2, <1>3 DEF Directory, Alike
<1>5. TypeOK' /\ TreeInv' /\ CallInv'
  <2>1. TypeOK'
    BY <1>1, <1>4, OutsideResets DEF CnameInv, TypeOK, Alike
  <2>2. doing.do = "none"
    BY <1>1, CallsByPhase DEF CnameInv, CallInv
  <2> QED BY <1>1, <2>1, <2>2 DEF CnameInv, TreeInv, CallInv, Running
<1>6. EntriesInv' /\ ActiveResolves'
  BY <1>1, <1>4 DEF CnameInv, EntriesInv, WellNamed, WellRanked, ActiveResolves, Alike
<1>7. Apart'
  BY <1>1 DEF Apart, Reordering, Placed
<1> QED BY <1>5, <1>6, <1>7, ApartIsQuiet, Joined DEF Core

-----------------------------------------------------------------------------
(* The calls.  A call outside a reorder, or in it: the phases are slot3    *)
(* for the activation, last for the retirement, prune for a removal.       *)

\* In the same phase as before.
LEMMA SamePhase ==
  ASSUME phase' = phase
  PROVE  /\ Apart => Apart'
         /\ Placed => Placed'
         /\ Reordering => Reordering'
         /\ Running => Running'
BY DEF Apart, Reordering, Placed, Running

\* Behind the renames a step leaves names and entries alone.
LEMMA PlacedStays ==
  ASSUME CnameInv, Placed, Placed', plan' = plan, doing'.do # "rename",
         ldap'.present = ldap.present, ldap'.name = ldap.name
  PROVE  /\ PlanInv'
         /\ \A a \in DOMAIN plan : plan[a] \in ldap.present => ldap.name[plan[a]] = Slot[a]
         /\ ldap.present \subseteq PlannedKeys /\ PlannedKeys' = PlannedKeys
<1>1. /\ \A a, b \in DOMAIN plan : plan[a] = plan[b] => a = b
      /\ ldap.present \subseteq PlannedKeys
  BY DEF CnameInv, PlanInv, Placed
<1>2. PlannedKeys' = PlannedKeys
  BY DEF PlannedKeys
<1>3. ~Reordering' /\ phase' # "prune"
  BY DEF Placed, Reordering
<1>4. PlanInv'
  BY <1>1, <1>2, <1>3 DEF PlanInv
<1> QED BY <1>1, <1>2, <1>4 DEF CnameInv, SlotsInv

LEMMA StoreKeeps ==
  ASSUME CnameInv, Store, UNCHANGED planVars
  PROVE  CnameInv'
<1>1. PICK k \in Fresh :
        /\ ldap' = Stored(ldap, k) /\ doing' = NoCall /\ tree' = ldap'
        /\ waived' = waived \ {k} /\ doing.do = "store"
        /\ UNCHANGED <<zone, wildcard, phase, queue, plan, steps, sources>>
  BY CnameAssumption DEF Store, SameBounds, planVars
<1>2. k \in Keys \ ldap.present
  BY DEF Fresh
<1>3. wildcard \in BOOLEAN /\ phase' \in Phases
  BY <1>1 DEF CnameInv, TypeOK
<1>4. /\ ldap' \in Directory /\ ldap'.present = ldap.present \cup {k}
      /\ ldap'.active = ldap.active /\ ldap'.name = [ldap.name EXCEPT ![k] = k]
      /\ WellRanked(ldap')
  BY <1>1, <1>2, <1>3, Fields, StoredFields, StoredRanked
<1>5. TypeOK'
  BY <1>1, <1>4, NoCallFields DEF CnameInv, TypeOK
<1>6. k \notin ldap.active
  BY <1>2, Fields
<1>7. WellNamed(ldap')
  <2>1. \A j \in Keys : ldap'.name[j] = IF j = k THEN k ELSE ldap.name[j]
    BY <1>2, <1>4, Fields
  <2>2. \A j \in Keys \ {k} : ldap.name[j] # k
    BY <1>2, Fields, ConstantFacts DEF WellNamed
  <2> QED BY <1>2, <1>4, <2>1, <2>2, Fields DEF WellNamed
<1>8. EntriesInv'
  BY <1>4, <1>7 DEF EntriesInv, WellNamed, WellRanked
<1>9. ActiveResolves'
  BY <1>1, <1>2, <1>4, <1>6, Fields DEF CnameInv, ActiveResolves
<1>10. CallInv' /\ TreeInv'
  BY <1>1, <1>3, <1>8, NoCallInv, Reloaded
<1>11. Apart
  BY <1>1, InCall
<1>12. Apart'
  BY <1>1, <1>11, SamePhase
<1> QED BY <1>5, <1>8, <1>9, <1>10, <1>12, ApartIsQuiet, Joined DEF Core

\* The answer that counts: the record is there, or the key counts as waived.
LEMMA TestKeyPassesKeeps ==
  ASSUME CnameInv, TestKeyPasses, UNCHANGED planVars
  PROVE  CnameInv'
<1> DEFINE k == doing.key
<1>1. /\ doing.do = "test"
      /\ UNCHANGED <<ldap, tree, phase, queue, zone, wildcard, plan, steps, sources>>
  BY DEF TestKeyPasses, SameBounds, planVars
<1>2. /\ Running /\ k \in Keys /\ Apart /\ CallsOf(phase) = Commands
      /\ k \in tree.present /\ Snapshot(tree) /\ tree.active = ldap.active
  <2>1. Running /\ k \in Keys /\ Apart /\ CallsOf(phase) = Commands
    BY <1>1, InCall
  <2> QED BY <1>1, <2>1 DEF CnameInv, CallInv, TreeInv
<1>3. \/ waived' = waived \cup {k}
      \/ waived' = waived \ {k} /\ zone[tree.name[k]] = k
  BY DEF TestKeyPasses, TestPasses
<1>4. /\ doing' \in CallShape /\ doing'.key = k
      /\ \/ doing'.do = "disable" /\ k \in ldap.active
         \/ doing'.do = "enable"
  <2>1. doing' = Call(IF k \in tree.active THEN "disable" ELSE "enable", k)
    BY DEF TestKeyPasses, Enabling
  <2> QED BY <1>2, <2>1, CallFields DEF Calls
<1> HIDE DEF k
<1>5. k \in ldap.present => tree.name[k] = ldap.name[k]
  BY <1>2 DEF Snapshot
<1>6. TypeOK'
  BY <1>1, <1>4 DEF CnameInv, TypeOK
<1>7. EntriesInv'
  BY <1>1 DEF CnameInv, EntriesInv, WellNamed, WellRanked
<1>8. ActiveResolves'
  BY <1>1, <1>3, <1>5, Fields DEF CnameInv, ActiveResolves
<1>9. TreeInv'
  BY <1>1, <1>2, <1>4 DEF TreeInv, Snapshot, WellNamed, WellRanked
<1>10. CallInv'
  BY <1>1, <1>2, <1>3, <1>4, <1>5 DEF CallInv, Commands, Calls
<1>11. Apart'
  BY <1>1, <1>2, SamePhase
<1> QED BY <1>6, <1>7, <1>8, <1>9, <1>10, <1>11, ApartIsQuiet, Joined DEF Core

\* The activation: a call for the newest key, or behind it.
LEMMA AtActivation ==
  ASSUME CnameInv, phase = "slot3", phase' = "slot3", plan' = plan, zone' = zone,
         ldap'.present = ldap.present, ldap'.name = ldap.name, ldap'.rank = ldap.rank,
         doing.do \in {"enable", "disable"}, doing'.do \in {"none", "disable"},
         doing'.do = "disable" => doing'.key = doing.key,
         doing'.do = "none" => ldap'.active = {doing.key}
  PROVE  Slots'
<1>1. Placed /\ Placed'
  BY DEF Placed
<1>2. /\ PlanInv' /\ PlannedKeys' = PlannedKeys
      /\ \A a \in DOMAIN plan : plan[a] \in ldap.present => ldap.name[plan[a]] = Slot[a]
  BY <1>1, PlacedStays
<1>3. 1 \in DOMAIN plan /\ doing.key = plan[1]
  BY DEF CnameInv, SlotsInv
<1>4. {plan[a] : a \in DOMAIN plan \cap {1}} = {plan[1]}
  BY <1>3
<1>5. SlotsInv'
  BY <1>2, <1>3, <1>4 DEF SlotsInv
<1>6. ExactInv'
  BY <1>1, <1>2, <1>3, <1>4 DEF CnameInv, ExactInv
<1> QED BY <1>2, <1>5, <1>6 DEF Slots

\* The retirement of the last key.
LEMMA AtRetirement ==
  ASSUME CnameInv, phase = "last", phase' = "last", plan' = plan,
         ldap'.present = ldap.present, ldap'.name = ldap.name, ldap'.rank = ldap.rank,
         ldap'.active = ldap.active, doing'.do # "rename",
         ~OtherHost => /\ zone'["slot1"] = zone["slot1"] /\ zone'["slot2"] = zone["slot2"]
                       /\ zone'["slot3"] = Tombstone,
         doing'.do # "none" => doing.do # "none" /\ doing'.key = doing.key
  PROVE  Slots'
<1>1. Placed /\ Placed'
  BY DEF Placed
<1>2. /\ PlanInv' /\ PlannedKeys' = PlannedKeys
      /\ \A a \in DOMAIN plan : plan[a] \in ldap.present => ldap.name[plan[a]] = Slot[a]
  BY <1>1, PlacedStays
<1>3. SlotsInv'
  BY <1>2 DEF CnameInv, SlotsInv
<1>4. ExactInv'
  BY <1>1, <1>2 DEF CnameInv, ExactInv
<1> QED BY <1>2, <1>3, <1>4 DEF Slots

LEMMA EnableKeeps ==
  ASSUME CnameInv, Enable, UNCHANGED planVars
  PROVE  CnameInv'
<1> DEFINE k == doing.key
<1>1. /\ doing.do = "enable" /\ tree' \in {ldap', tree}
      /\ UNCHANGED <<zone, waived, wildcard, plan, steps, sources>>
  BY DEF Enable, Write, SameBounds, planVars
<1>2. /\ Running /\ k \in Keys /\ (Apart \/ phase = "slot3")
      /\ Apart => CallsOf(phase) = Commands
  BY <1>1, InCall
<1>3. CASE k \notin ldap.present
  <2>1. ldap' = ldap /\ phase' = "idle" /\ doing' = NoCall /\ queue' = {}
    BY <1>3 DEF Enable, Write
  <2> QED BY <1>1, <2>1, EndKeeps DEF CnameInv, TypeOK
<1>4. CASE k \in ldap.present
  <2>1. /\ ldap' = Enabled(ldap, k) /\ UNCHANGED <<phase, queue>>
        /\ \/ tree' = ldap' /\ doing' = NoCall /\ Others(k) = {}
           \/ tree' = tree /\ doing' = Call("disable", k)
    BY <1>4 DEF Enable, Write
  <2>2. /\ ldap' \in Directory /\ ldap'.present = ldap.present
        /\ ldap'.active = ldap.active \cup {k} /\ ldap'.name = ldap.name
        /\ ldap'.rank = ldap.rank
    BY <1>2, <2>1, Fields, SwitchedFields
  <2>3. /\ doing' \in CallShape
        /\ doing'.do = "none" \/ (doing'.do = "disable" /\ doing'.key = k)
    BY <1>2, <2>1, NoCallFields, CallFields DEF Calls
  <2>4. k \in waived \/ zone[ldap.name[k]] = k
    BY <1>1, <1>4 DEF CnameInv, CallInv
  <2>5. Snapshot(tree) /\ tree.active = ldap.active
    BY <1>1, <1>2 DEF CnameInv, TreeInv
  <2>6. doing'.do = "none" => doing' = NoCall /\ ldap'.active = {k}
    <3>1. Call("disable", k).do = "disable"
      BY <1>2, CallFields DEF Calls
    <3>2. Others(k) = {} => ldap.active \subseteq {k}
      BY <2>5 DEF Others
    <3> QED BY <2>1, <2>2, <3>1, <3>2
  <2> HIDE DEF k
  <2>7. TypeOK'
    BY <1>1, <2>1, <2>2, <2>3, Fields DEF CnameInv, TypeOK
  <2>8. EntriesInv'
    BY <1>2, <1>4, <2>2 DEF CnameInv, EntriesInv, WellNamed, WellRanked
  <2>9. ActiveResolves'
    BY <1>1, <2>2, <2>4 DEF CnameInv, ActiveResolves
  <2>10. TreeInv'
    <3>1. CASE tree' = ldap'
      BY <2>8, <3>1, Reloaded
    <3>2. CASE tree' = tree /\ doing'.do = "disable"
      BY <2>2, <2>3, <2>5, <3>2 DEF TreeInv, Snapshot, WellNamed, WellRanked
    <3>3. doing'.do = "none" => tree' = ldap'
      <4>1. Call("disable", k).do = "disable"
        BY <1>2, CallFields DEF Calls
      <4> QED BY <2>1, <4>1
    <3> QED BY <2>1, <2>3, <3>1, <3>2, <3>3
  <2>11. CallInv'
    <3>1. CASE doing'.do = "none"
      <4>1. phase' \in Phases
        BY <2>7 DEF TypeOK
      <4> QED BY <2>6, <3>1, <4>1, NoCallInv
    <3>2. CASE doing'.do = "disable"
      <4>1. "disable" \in CallsOf(phase')
        BY <1>2, <2>1, CallsByPhase DEF Commands, Calls
      <4> QED BY <1>2, <2>2, <2>3, <3>2, <4>1 DEF CallInv
    <3> QED BY <2>3, <3>1, <3>2
  <2>12. Slots'
    <3>1. CASE Apart
      <4>1. Apart'
        BY <2>1, <3>1, SamePhase
      <4> QED BY <4>1, ApartIsQuiet
    <3>2. CASE phase = "slot3"
      BY <1>1, <2>1, <2>2, <2>3, <2>6, <3>2, AtActivation DEF k
    <3> QED BY <1>2, <3>1, <3>2
  <2> QED BY <2>7, <2>8, <2>9, <2>10, <2>11, <2>12, Joined DEF Core
<1> QED BY <1>3, <1>4

\* The chain of disabling spares the key it was started for.
LEMMA DisableKeeps ==
  ASSUME CnameInv, Disable, UNCHANGED planVars
  PROVE  CnameInv'
<1> DEFINE k == doing.key
<1>1. /\ doing.do = "disable" /\ doing \in CallShape
      /\ UNCHANGED <<zone, waived, wildcard, plan, steps, sources>>
  BY DEF Disable, Write, SameRecords, SameBounds, historyVars, planVars, CnameInv, TypeOK
<1>2. /\ Running /\ k \in Keys /\ (Apart \/ phase = "slot3")
      /\ Apart => CallsOf(phase) = Commands
  BY <1>1, InCall
<1>3. /\ k \in ldap.active /\ Snapshot(tree) /\ ldap.active \subseteq tree.active \cup {k}
  BY <1>1, <1>2 DEF CnameInv, CallInv, TreeInv
<1>4. \E j \in Keys \cup {NoKey} :
        /\ ldap' = IF j = NoKey THEN ldap ELSE Disabled(ldap, j)
        /\ UNCHANGED <<phase, queue>>
        /\ j # NoKey => j \in ldap.active \ {k}
        /\ \/ /\ tree' = ldap' /\ doing' = NoCall
              /\ ldap.active \subseteq {k, j}
           \/ tree' = tree /\ doing' = doing /\ j # NoKey
  <2>1. CASE Others(k) = {}
    <3>1. tree' = ldap /\ doing' = NoCall /\ ldap' = ldap /\ UNCHANGED <<phase, queue>>
      BY <2>1 DEF Disable
    <3>2. ldap.active \subseteq {k}
      BY <1>3, <2>1 DEF Others
    <3> QED BY <3>1, <3>2
  <2>2. CASE Others(k) # {}
    <3>1. PICK j \in Others(k) :
            LET last == Others(k) = {j} IN
            /\ Write(j, IF last THEN NoCall ELSE doing, LAMBDA d : Disabled(d, j))
            /\ tree' = IF last THEN ldap' ELSE tree
      BY <2>2 DEF Disable
    <3>2. j \in ldap.active \ {k} /\ j \in ldap.present /\ j \in Keys /\ j # NoKey
      BY Fields, ConstantFacts DEF Others
    <3>3. /\ ldap' = Disabled(ldap, j) /\ UNCHANGED <<phase, queue>>
          /\ \/ tree' = ldap' /\ doing' = NoCall /\ Others(k) = {j}
             \/ tree' = tree /\ doing' = doing
      BY <3>1, <3>2 DEF Write
    <3>4. Others(k) = {j} => ldap.active \subseteq {k, j}
      BY <1>3 DEF Others
    <3> QED BY <3>2, <3>3, <3>4
  <2> QED BY <2>1, <2>2
<1>5. PICK j \in Keys \cup {NoKey} :
        /\ ldap' = IF j = NoKey THEN ldap ELSE Disabled(ldap, j)
        /\ UNCHANGED <<phase, queue>>
        /\ j # NoKey => j \in ldap.active \ {k}
        /\ \/ /\ tree' = ldap' /\ doing' = NoCall
              /\ ldap.active \subseteq {k, j}
           \/ tree' = tree /\ doing' = doing /\ j # NoKey
  BY <1>4
<1>6. /\ ldap' \in Directory /\ ldap'.present = ldap.present
      /\ ldap'.active = ldap.active \ {j} /\ ldap'.name = ldap.name
      /\ ldap'.rank = ldap.rank
  <2>1. CASE j = NoKey
    BY <1>5, <2>1, Fields, ConstantFacts
  <2>2. CASE j # NoKey
    BY <1>5, <2>2, Fields, SwitchedFields
  <2> QED BY <2>1, <2>2
<1>7. k \in ldap'.active /\ (doing' = NoCall => ldap'.active = {k})
  <2>1. k # j /\ doing # NoCall
    BY <1>1, <1>2, <1>5, ConstantFacts, NoCallFields
  <2> QED BY <1>3, <1>5, <1>6, <2>1
<1> HIDE DEF k
<1>8. TypeOK'
  BY <1>1, <1>5, <1>6, NoCallFields DEF CnameInv, TypeOK
<1>9. EntriesInv'
  BY <1>6 DEF CnameInv, EntriesInv, WellNamed, WellRanked
<1>10. ActiveResolves'
  BY <1>1, <1>6 DEF CnameInv, ActiveResolves
<1>11. TreeInv'
  <2>1. CASE tree' = ldap'
    BY <1>9, <2>1, Reloaded
  <2>2. CASE tree' = tree /\ doing' = doing
    BY <1>1, <1>3, <1>6, <2>2 DEF TreeInv, Snapshot, WellNamed, WellRanked, k
  <2> QED BY <1>5, <2>1, <2>2
<1>12. CallInv'
  <2>1. CASE doing' = NoCall
    <3>1. phase' \in Phases
      BY <1>8 DEF TypeOK
    <3> QED BY <2>1, <3>1, NoCallInv
  <2>2. CASE doing' = doing
    <3>1. "disable" \in CallsOf(phase')
      BY <1>2, <1>5, CallsByPhase DEF Commands, Calls
    <3> QED BY <1>1, <1>2, <1>7, <2>2, <3>1 DEF CallInv, k
  <2> QED BY <1>5, <2>1, <2>2
<1>13. Slots'
  <2>1. CASE Apart
    <3>1. Apart'
      BY <1>5, <2>1, SamePhase
    <3> QED BY <3>1, ApartIsQuiet
  <2>2. CASE phase = "slot3"
    <3>1. /\ doing'.do \in {"none", "disable"}
          /\ doing'.do = "disable" => doing'.key = doing.key
          /\ doing'.do = "none" => ldap'.active = {k}
      BY <1>1, <1>5, <1>7, NoCallFields
    <3> QED BY <1>1, <1>5, <1>6, <2>2, <3>1, AtActivation DEF k
  <2> QED BY <1>2, <2>1, <2>2
<1> QED BY <1>8, <1>9, <1>10, <1>11, <1>12, <1>13, Joined DEF Core

\* The removal of what has no slot leaves the plan alone.
LEMMA AtPruning ==
  ASSUME CnameInv, phase = "prune", phase' = "prune", plan' = plan, steps' = steps,
         queue' = queue, doing.do # "none",
         ldap'.present \subseteq ldap.present, ldap'.active \subseteq ldap.active,
         ldap.present \ {doing.key} \subseteq ldap'.present,
         \A j \in Keys \ {doing.key} : ldap'.name[j] = ldap.name[j],
         \A i, j \in ldap.present \ {doing.key} :
           ldap.rank[i] > ldap.rank[j] => ldap'.rank[i] > ldap'.rank[j],
         \/ doing'.do \in {"erase", "drop"} /\ doing'.key = doing.key
         \/ doing'.do = "none" /\ doing.key \notin ldap'.present
  PROVE  Slots'
<1>1. Reordering /\ Reordering' /\ ~Placed /\ ~Placed' /\ doing'.do # "rename"
  BY DEF Reordering, Placed
<1>2. PlannedKeys' = PlannedKeys /\ doing.key \notin PlannedKeys
  BY <1>1 DEF PlannedKeys, CnameInv, PlanInv
<1>3. PlannedKeys \subseteq Keys /\ ldap.present \subseteq Keys
  BY PlanFacts, Fields DEF CnameInv, TypeOK, PlannedKeys
<1>4. StepsInv'
  <2> DEFINE S == PlannedKeys \cap ldap.present
             T == PlannedKeys \cap ldap'.present
  <2>1. Meant(plan, steps, ldap.active) /\ Free(steps, ldap.name, S)
        /\ Ends(plan, steps, ldap.name, S)
    BY <1>1 DEF CnameInv, PlanInv, StepsInv
  <2>2. T \subseteq S /\ \A k \in T : ldap'.name[k] = ldap.name[k]
    BY <1>2, <1>3
  <2> HIDE DEF S, T
  <2>3. Meant(plan, steps, ldap'.active) /\ Free(steps, ldap'.name, T)
        /\ Ends(plan, steps, ldap'.name, T)
    BY <2>1, <2>2, StepsStay
  <2> QED BY <1>2, <2>3 DEF StepsInv, T
<1>5. ldap'.present \subseteq PlannedKeys \cup
        (queue \cup {k \in {doing'.key} : doing'.do \in {"erase", "drop"}})
  <2>1. ldap.present \subseteq PlannedKeys \cup queue \cup {doing.key}
    BY <1>1 DEF CnameInv, PlanInv
  <2> QED BY <2>1
<1>6. /\ \A a, b \in DOMAIN plan : plan[a] = plan[b] => a = b
      /\ queue \cap (PlannedKeys \cup ldap.active) = {}
      /\ 3 \in DOMAIN plan => plan[3] \notin ldap.active
  BY <1>1 DEF CnameInv, PlanInv
<1>7. PlanInv'
  BY <1>1, <1>2, <1>4, <1>5, <1>6 DEF PlanInv
<1>8. SlotsInv'
  BY <1>1 DEF SlotsInv
<1>9. ExactInv'
  <2>1. SUFFICES ASSUME ~OtherHost
        PROVE  /\ PlannedKeys \subseteq ldap'.present
               /\ \A a, b \in DOMAIN plan : a < b => ldap'.rank[plan[a]] > ldap'.rank[plan[b]]
    BY <1>2 DEF ExactInv
  <2>2. /\ PlannedKeys \subseteq ldap.present
        /\ \A a, b \in DOMAIN plan : a < b => ldap.rank[plan[a]] > ldap.rank[plan[b]]
    BY <1>1, <2>1 DEF CnameInv, ExactInv
  <2>3. \A a \in DOMAIN plan : plan[a] \in ldap.present \ {doing.key}
    BY <1>2, <2>2 DEF PlannedKeys
  <2> QED BY <1>2, <2>2, <2>3
<1> QED BY <1>7, <1>8, <1>9 DEF Slots

\* What the write of one record changes.
LEMMA PutFields ==
  ASSUME CnameInv, NEW n \in Names, NEW value \in Keys \cup {Tombstone, NoRecord},
         PutRecord(n, value)
  PROVE  /\ zone' \in [Names -> Names \cup {Tombstone, NoRecord}]
         /\ zone'[n] = value /\ \A m \in Names \ {n} : zone'[m] = zone[m]
BY ConstantFacts DEF PutRecord, CnameInv, TypeOK

LEMMA RetireKeeps ==
  ASSUME CnameInv, Retire, UNCHANGED planVars
  PROVE  CnameInv'
<1> DEFINE k == doing.key
<1>1. /\ doing.do = "retire"
      /\ UNCHANGED <<ldap, zone, waived, wildcard, phase, queue, plan, steps, sources>>
  BY DEF Retire, SameRecords, SameBounds, historyVars, planVars
<1>2. /\ Running /\ k \in Keys /\ (Apart \/ phase = "last")
      /\ Apart => CallsOf(phase) = Commands
  BY <1>1, InCall
<1>3. PICK seen \in Seen :
        tree' = seen /\ doing' = IF Due(seen, k) THEN Call("tombstone", k) ELSE NoCall
  BY CnameAssumption DEF Retire, AfterDelete
<1>4. seen \in Directory /\ Snapshot(seen) /\ seen.active = ldap.active
  BY <1>1, <1>2, SeenIsSnapshot
<1>5. Due(seen, k) => k \in seen.present \ ldap.active
  BY <1>4 DEF Due, Usable
<1>6. \/ doing' = NoCall /\ doing'.do = "none"
      \/ /\ doing' \in CallShape /\ doing'.do = "tombstone" /\ doing'.key = k
         /\ k \in seen.present \ ldap.active
  BY <1>2, <1>3, <1>5, NoCallFields, CallFields DEF Calls
<1> HIDE DEF k
<1>7. phase' \in Phases /\ queue' \subseteq Keys /\ doing' \in CallShape
  BY <1>1, <1>6, NoCallFields DEF CnameInv, TypeOK
<1>8. CallInv'
  <2>1. CASE doing' = NoCall
    BY <1>7, <2>1, NoCallInv
  <2>2. CASE doing'.do = "tombstone" /\ doing'.key = k /\ k \in seen.present \ ldap.active
    <3>1. "tombstone" \in CallsOf(phase')
      BY <1>1, <1>2, CallsByPhase DEF Commands, Calls
    <3> QED BY <1>1, <1>2, <1>3, <2>2, <3>1 DEF CallInv
  <2> QED BY <1>6, <2>1, <2>2
<1>9. Core'
  <2>1. UNCHANGED planVars /\ doing.do # "disable"
    BY <1>1
  <2> QED BY <1>1, <1>2, <1>3, <1>7, <1>8, <2>1, QuietCore
<1>10. Slots'
  <2>1. CASE Apart
    <3>1. Apart'
      BY <1>1, <2>1, SamePhase
    <3> QED BY <3>1, ApartIsQuiet
  <2>2. CASE phase = "last"
    <3>1. ~OtherHost => zone["slot3"] = Tombstone
      BY <2>2 DEF CnameInv, ExactInv, Placed
    <3> QED BY <1>1, <1>6, <2>2, <3>1, AtRetirement DEF k
  <2> QED BY <1>2, <2>1, <2>2
<1> QED BY <1>9, <1>10, Joined

\* A tombstone takes the place of a record that no active key needs.
LEMMA BuryKeyKeeps ==
  ASSUME CnameInv, BuryKey, UNCHANGED planVars
  PROVE  CnameInv'
<1> DEFINE k == doing.key
           n == tree.name[k]
<1>1. /\ doing.do = "tombstone" /\ doing' = Call("revoke", k)
      /\ PutRecord(n, Tombstone)
      /\ UNCHANGED <<ldap, tree, waived, wildcard, phase, queue, plan, steps, sources>>
  BY DEF BuryKey, Put, SameBounds, planVars
<1>2. /\ Running /\ k \in Keys /\ (Apart \/ phase = "last")
      /\ Apart => CallsOf(phase) = Commands
  BY <1>1, InCall
<1>3. k \in tree.present \ ldap.active /\ Snapshot(tree) /\ tree.active = ldap.active
      /\ n \in Names
  BY <1>1, <1>2, Fields DEF CnameInv, CallInv, TreeInv
<1>4. doing' \in CallShape /\ doing'.do = "revoke" /\ doing'.key = k
  BY <1>1, <1>2, CallFields DEF Calls
<1>5. /\ zone' \in [Names -> Names \cup {Tombstone, NoRecord}]
      /\ zone'[n] = Tombstone /\ \A m \in Names \ {n} : zone'[m] = zone[m]
  BY <1>1, <1>3, PutFields
<1>6. \A j \in ldap.active : ldap.name[j] # n /\ ldap.name[j] \in Names
  BY <1>3, Fields DEF Snapshot, WellNamed
<1>7. ~OtherHost /\ phase = "last" => n = "slot3"
  <2>1. SUFFICES ASSUME ~OtherHost, phase = "last" PROVE n = "slot3"
    OBVIOUS
  <2>2. 3 \in DOMAIN plan /\ k = plan[3]
    BY <1>1, <2>1 DEF CnameInv, ExactInv, Placed
  <2>3. k \in ldap.present
    BY <1>3, <2>1 DEF Snapshot
  <2>4. ldap.name[k] = Slot[3]
    BY <2>1, <2>2, <2>3 DEF CnameInv, SlotsInv, Placed
  <2> QED BY <1>3, <2>3, <2>4, SlotFacts DEF Snapshot
<1> HIDE DEF k, n
<1>8. TypeOK'
  BY <1>1, <1>4, <1>5 DEF CnameInv, TypeOK
<1>9. EntriesInv'
  BY <1>1 DEF CnameInv, EntriesInv, WellNamed, WellRanked
<1>10. ActiveResolves'
  BY <1>1, <1>5, <1>6 DEF CnameInv, ActiveResolves
<1>11. TreeInv'
  BY <1>1, <1>3, <1>4 DEF TreeInv, Snapshot, WellNamed, WellRanked
<1>12. CallInv'
  <2>1. "revoke" \in CallsOf(phase')
    BY <1>1, <1>2, CallsByPhase DEF Commands, Calls
  <2> QED BY <1>2, <1>4, <2>1 DEF CallInv
<1>13. Slots'
  <2>1. CASE Apart
    <3>1. Apart'
      BY <1>1, <2>1, SamePhase
    <3> QED BY <3>1, ApartIsQuiet
  <2>2. CASE phase = "last"
    <3>1. ~OtherHost => /\ zone'["slot1"] = zone["slot1"] /\ zone'["slot2"] = zone["slot2"]
                        /\ zone'["slot3"] = Tombstone
      BY <1>5, <1>7, <2>2, ConstantFacts DEF SlotNames
    <3> QED BY <1>1, <1>4, <2>2, <3>1, AtRetirement DEF k
  <2> QED BY <1>2, <2>1, <2>2
<1> QED BY <1>8, <1>9, <1>10, <1>11, <1>12, <1>13, Joined DEF Core

LEMMA RevokeKeyKeeps ==
  ASSUME CnameInv, RevokeKey, UNCHANGED planVars
  PROVE  CnameInv'
<1> DEFINE k == doing.key
<1>1. /\ doing.do = "revoke" /\ tree' = ldap'
      /\ UNCHANGED <<zone, waived, wildcard, plan, steps, sources>>
  BY DEF RevokeKey, Write, SameRecords, SameBounds, historyVars, planVars
<1>2. /\ Running /\ k \in Keys /\ (Apart \/ phase = "last")
      /\ Apart => CallsOf(phase) = Commands
  BY <1>1, InCall
<1>3. CASE k \notin ldap.present
  <2>1. ldap' = ldap /\ phase' = "idle" /\ doing' = NoCall /\ queue' = {}
    BY <1>3 DEF RevokeKey, Write
  <2> QED BY <1>1, <2>1, EndKeeps DEF CnameInv, TypeOK
<1>4. CASE k \in ldap.present
  <2>1. /\ ldap' = Revoked(ldap, k) /\ doing' = NoCall /\ UNCHANGED <<phase, queue>>
    BY <1>4, CnameAssumption DEF RevokeKey, Write, AfterDelete
  <2>2. Alike(ldap', ldap)
    BY <1>2, <2>1, Fields, RevokedFields
  <2> HIDE DEF k
  <2>3. TypeOK'
    BY <1>1, <2>1, <2>2, NoCallFields DEF CnameInv, TypeOK, Alike
  <2>4. EntriesInv' /\ ActiveResolves'
    BY <1>1, <2>2 DEF CnameInv, EntriesInv, WellNamed, WellRanked, ActiveResolves, Alike
  <2>5. TreeInv' /\ CallInv'
    BY <1>1, <2>1, <2>3, <2>4, Reloaded, NoCallInv DEF TypeOK
  <2>6. Slots'
    <3>1. CASE Apart
      <4>1. Apart'
        BY <2>1, <3>1, SamePhase
      <4> QED BY <4>1, ApartIsQuiet
    <3>2. CASE phase = "last"
      <4>1. ~OtherHost => zone["slot3"] = Tombstone
        BY <3>2 DEF CnameInv, ExactInv, Placed
      <4> QED BY <1>1, <2>1, <2>2, <3>2, <4>1, NoCallFields, AtRetirement DEF Alike
    <3> QED BY <1>2, <3>1, <3>2
  <2> QED BY <2>3, <2>4, <2>5, <2>6, Joined DEF Core
<1> QED BY <1>3, <1>4

\* The record goes, and then the entry.
LEMMA EraseKeeps ==
  ASSUME CnameInv, Erase, UNCHANGED planVars
  PROVE  CnameInv'
<1> DEFINE k == doing.key
           n == tree.name[k]
<1>1. /\ doing.do = "erase" /\ doing' = Call("drop", k)
      /\ PutRecord(n, NoRecord)
      /\ UNCHANGED <<ldap, tree, waived, wildcard, phase, queue, plan, steps, sources>>
  BY DEF Erase, Put, SameBounds, planVars
<1>2. /\ Running /\ k \in Keys /\ (Apart \/ phase = "prune")
      /\ Apart => CallsOf(phase) = Commands
  BY <1>1, InCall
<1>3. k \in tree.present /\ (k \in ldap.active => k \in waived) /\ Snapshot(tree)
      /\ tree.active = ldap.active /\ n \in Names
  BY <1>1, <1>2, Fields DEF CnameInv, CallInv, TreeInv
<1>4. doing' \in CallShape /\ doing'.do = "drop" /\ doing'.key = k
  BY <1>1, <1>2, CallFields DEF Calls
<1>5. /\ zone' \in [Names -> Names \cup {Tombstone, NoRecord}]
      /\ \A m \in Names \ {n} : zone'[m] = zone[m]
  BY <1>1, <1>3, PutFields
<1>6. \A j \in ldap.active \ waived : ldap.name[j] # n /\ ldap.name[j] \in Names
  BY <1>3, Fields DEF Snapshot, WellNamed
<1> HIDE DEF k, n
<1>7. TypeOK'
  BY <1>1, <1>4, <1>5 DEF CnameInv, TypeOK
<1>8. EntriesInv'
  BY <1>1 DEF CnameInv, EntriesInv, WellNamed, WellRanked
<1>9. ActiveResolves'
  BY <1>1, <1>5, <1>6 DEF CnameInv, ActiveResolves
<1>10. TreeInv'
  BY <1>1, <1>3, <1>4 DEF TreeInv, Snapshot, WellNamed, WellRanked
<1>11. CallInv'
  <2>1. "drop" \in CallsOf(phase')
    BY <1>1, <1>2, CallsByPhase DEF Commands, Calls
  <2> QED BY <1>2, <1>4, <2>1 DEF CallInv
<1>12. Slots'
  <2>1. CASE Apart
    <3>1. Apart'
      BY <1>1, <2>1, SamePhase
    <3> QED BY <3>1, ApartIsQuiet
  <2>2. CASE phase = "prune"
    BY <1>1, <1>4, <2>2, AtPruning DEF k
  <2> QED BY <1>2, <2>1, <2>2
<1> QED BY <1>7, <1>8, <1>9, <1>10, <1>11, <1>12, Joined DEF Core

\* An entry less leaves the names and the order of the others.
LEMMA GoneFacts ==
  ASSUME CnameInv, NEW k \in ldap.present, ldap' = Dropped(ldap, k)
  PROVE  /\ ldap' \in Directory /\ ldap'.present = ldap.present \ {k}
         /\ ldap'.active = ldap.active \ {k} /\ WellRanked(ldap') /\ WellNamed(ldap')
         /\ \A j \in Keys \ {k} : ldap'.name[j] = ldap.name[j]
         /\ \A i, j \in ldap.present \ {k} :
              ldap.rank[i] > ldap.rank[j] => ldap'.rank[i] > ldap'.rank[j]
<1>1. k \in Keys
  BY Fields
<1>2. /\ ldap' \in Directory /\ ldap'.present = ldap.present \ {k}
      /\ ldap'.active = ldap.active \ {k} /\ WellRanked(ldap')
      /\ ldap'.name = [ldap.name EXCEPT ![k] = k]
      /\ ldap'.rank = Closed(ldap.rank, k)
  BY <1>1, Fields, DroppedFields, DroppedRanked
<1>3. \A j \in Keys : ldap'.name[j] = IF j = k THEN k ELSE ldap.name[j]
  BY <1>1, <1>2, Fields
<1>4. WellNamed(ldap')
  BY <1>2, <1>3, Fields DEF WellNamed
<1>5. \A i, j \in ldap.present \ {k} :
        ldap.rank[i] > ldap.rank[j] => ldap'.rank[i] > ldap'.rank[j]
  <2>1. SUFFICES ASSUME NEW i \in ldap.present \ {k}, NEW j \in ldap.present \ {k}
        PROVE ldap.rank[i] > ldap.rank[j] => ldap'.rank[i] > ldap'.rank[j]
    OBVIOUS
  <2>2. /\ i \in Keys \ {k} /\ j \in Keys \ {k} /\ ldap.rank[i] # ldap.rank[k]
        /\ ldap.rank[j] # ldap.rank[k] /\ ldap.rank \in [Keys -> Nat]
    BY Fields DEF WellRanked
  <2> QED BY <1>1, <1>2, <2>2, ClosedRanks
<1> QED BY <1>2, <1>3, <1>4, <1>5

LEMMA DropKeeps ==
  ASSUME CnameInv, Drop, UNCHANGED planVars
  PROVE  CnameInv'
<1> DEFINE k == doing.key
<1>1. /\ doing.do = "drop" /\ doing' = NoCall /\ tree' = ldap'
      /\ ldap' = IF k \in ldap.present THEN Dropped(ldap, k) ELSE ldap
      /\ UNCHANGED <<zone, waived, wildcard, phase, queue, plan, steps, sources>>
  BY CnameAssumption DEF Drop, AfterDelete, SameRecords, SameBounds, historyVars,
     planVars
<1>2. k \in Keys /\ (Apart \/ phase = "prune")
  BY <1>1, InCall
<1> HIDE DEF k
<1>3. /\ ldap' \in Directory /\ ldap'.present = ldap.present \ {k}
      /\ ldap'.active = ldap.active \ {k} /\ WellRanked(ldap') /\ WellNamed(ldap')
      /\ \A j \in Keys \ {k} : ldap'.name[j] = ldap.name[j]
      /\ \A i, j \in ldap.present \ {k} :
           ldap.rank[i] > ldap.rank[j] => ldap'.rank[i] > ldap'.rank[j]
  <2>1. CASE k \notin ldap.present
    BY <1>1, <2>1, Fields
  <2>2. CASE k \in ldap.present
    BY <1>1, <2>2, GoneFacts
  <2> QED BY <2>1, <2>2
<1>4. TypeOK'
  BY <1>1, <1>3, NoCallFields DEF CnameInv, TypeOK
<1>5. EntriesInv'
  BY <1>3 DEF EntriesInv, WellNamed, WellRanked
<1>6. ActiveResolves'
  <2>1. \A j \in ldap'.active : ldap'.name[j] = ldap.name[j]
    BY <1>3, Fields
  <2> QED BY <1>1, <1>3, <2>1 DEF CnameInv, ActiveResolves
<1>7. TreeInv' /\ CallInv'
  BY <1>1, <1>4, <1>5, Reloaded, NoCallInv DEF TypeOK
<1>8. Slots'
  <2>1. CASE Apart
    <3>1. Apart'
      BY <1>1, <2>1, SamePhase
    <3> QED BY <3>1, ApartIsQuiet
  <2>2. CASE phase = "prune"
    <3>1. doing'.do = "none" /\ k \notin ldap'.present
      BY <1>1, <1>3, NoCallFields
    <3> QED BY <1>1, <1>3, <2>2, <3>1, AtPruning DEF k
  <2> QED BY <1>2, <2>1, <2>2
<1> QED BY <1>4, <1>5, <1>6, <1>7, <1>8, Joined DEF Core

\* Only active selectors are brought in line, and those are there.
LEMMA ReconcileKeeps ==
  ASSUME CnameInv, Reconcile, UNCHANGED planVars
  PROVE  CnameInv'
<1>1. /\ Running /\ doing = NoCall /\ phase = "reconcile"
      /\ UNCHANGED <<zone, waived, wildcard, plan, steps, sources>>
  BY DEF Reconcile, Write, SameRecords, SameBounds, Running, historyVars, planVars
<1>2. doing.do = "none"
  BY <1>1, NoCallFields
<1>3. PICK seen \in Seen :
        IF Drifted(seen) = {}
        THEN /\ Proceed("addNew") /\ tree' = seen /\ UNCHANGED <<ldap, doing>>
        ELSE \E k \in Drifted(seen) :
               LET fixed(d) == [Modified(d, k) EXCEPT
                     !.wild = IF wildcard THEN @ \cup {k} ELSE @ \ {k}] IN
               /\ Write(k, NoCall, fixed)
               /\ tree' = [seen EXCEPT !.wild = ldap'.wild]
  BY DEF Reconcile
<1>4. seen \in Directory /\ Snapshot(seen) /\ seen.active = ldap.active
  BY <1>1, <1>2, SeenIsSnapshot
<1>5. CASE Drifted(seen) = {}
  <2>1. /\ tree' = seen /\ ldap' = ldap /\ doing' = NoCall /\ phase' = "addNew"
        /\ queue' = queue /\ phase' \in Phases
    BY <1>1, <1>3, <1>5 DEF Proceed, Phases
  <2>2. doing' \in CallShape /\ CallInv' /\ Apart' /\ queue' \subseteq Keys
    BY <2>1, NoCallInv DEF Apart, Reordering, Placed, CnameInv, TypeOK
  <2>3. UNCHANGED planVars
    OBVIOUS
  <2> QED BY <1>1, <1>2, <2>1, <2>2, <2>3, QuietApart
<1>6. CASE Drifted(seen) # {}
  <2>1. PICK k \in Drifted(seen) :
          LET fixed(d) == [Modified(d, k) EXCEPT
                !.wild = IF wildcard THEN @ \cup {k} ELSE @ \ {k}] IN
          /\ Write(k, NoCall, fixed)
          /\ tree' = [seen EXCEPT !.wild = ldap'.wild]
    BY <1>3, <1>6
  <2>2. k \in ldap.active /\ k \in ldap.present /\ k \in Keys
    BY <1>4, Fields DEF Drifted
  <2> DEFINE m == Modified(ldap, k)
             w == IF wildcard THEN m.wild \cup {k} ELSE m.wild \ {k}
  <2>3. /\ ldap' = [m EXCEPT !.wild = w] /\ doing' = NoCall
        /\ UNCHANGED <<phase, queue>>
        /\ tree' = [seen EXCEPT !.wild = ldap'.wild]
    BY <2>1, <2>2 DEF Write
  <2>4. Alike(m, ldap)
    BY <2>2, Fields, ModifiedFields
  <2>5. w \subseteq Keys
    BY <2>2, <2>4, FieldTypes DEF Alike
  <2> HIDE DEF m, w
  <2>6. Alike(ldap', ldap) /\ ldap'.wild = w
    BY <2>3, <2>4, <2>5 DEF Directory, Alike
  <2>7. Alike(tree', seen)
    BY <1>4, <2>3, <2>5, <2>6 DEF Directory, Alike
  <2>8. TypeOK'
    BY <1>1, <2>3, <2>6, <2>7, NoCallFields DEF CnameInv, TypeOK, Alike
  <2>9. EntriesInv' /\ ActiveResolves'
    BY <1>1, <2>6 DEF CnameInv, EntriesInv, WellNamed, WellRanked, ActiveResolves, Alike
  <2>10. TreeInv'
    <3>1. doing'.do = "none"
      BY <2>3, NoCallFields
    <3> QED BY <1>4, <2>6, <2>7, <3>1 DEF TreeInv, Snapshot, WellNamed, WellRanked, Alike
  <2>11. CallInv'
    BY <2>3, <2>8, NoCallInv DEF TypeOK
  <2>12. Apart'
    BY <1>1, <2>3 DEF Apart, Reordering, Placed
  <2> QED BY <2>8, <2>9, <2>10, <2>11, <2>12, ApartIsQuiet, Joined DEF Core
<1> QED BY <1>5, <1>6

-----------------------------------------------------------------------------
(* The reorder.                                                            *)

\* A step of it that leaves the entries alone.
LEMMA EntriesStay ==
  ASSUME CnameInv, UNCHANGED <<ldap, tree, waived, wildcard>>, Running,
         doing.do = "none", phase' \in Phases, doing' \in CallShape, CallInv',
         zone' \in [Names -> Names \cup {Tombstone, NoRecord}], queue' \subseteq Keys,
         plan' \in Plans, steps' \in Seq([key : Keys, to : Names]),
         sources' \subseteq Names \ SlotNames,
         \A j \in ldap.active \ waived :
           zone[ldap.name[j]] = j => zone'[ldap.name[j]] = j
  PROVE  Core'
<1>1. Snapshot(tree) /\ tree.active = ldap.active
  BY DEF CnameInv, TreeInv
<1>2. TypeOK'
  BY DEF CnameInv, TypeOK
<1>3. TreeInv'
  BY <1>1 DEF TreeInv, Snapshot, WellNamed, WellRanked
<1>4. EntriesInv' /\ ActiveResolves'
  BY DEF CnameInv, EntriesInv, WellNamed, WellRanked, ActiveResolves
<1> QED BY <1>2, <1>3, <1>4 DEF Core

LEMMA NoneInv ==
  ASSUME doing'.do = "none", phase' \in Phases
  PROVE  CallInv'
BY CallsByPhase DEF CallInv

\* Where every active key stands once the names are settled.
LEMMA ActiveInSlots ==
  ASSUME CnameInv, Placed, NEW j \in ldap.active
  PROVE  \E a \in DOMAIN plan : j = plan[a] /\ ldap.name[j] = Slot[a]
BY Fields DEF CnameInv, PlanInv, SlotsInv, Placed, PlannedKeys

\* What the phases of a reorder without a call say of it.
LEMMA PlanTypes ==
  ASSUME CnameInv
  PROVE  /\ plan \in Plans /\ steps \in Seq([key : Keys, to : Names])
         /\ sources \subseteq Names \ SlotNames /\ queue \subseteq Keys
         /\ doing \in CallShape /\ DOMAIN plan \subseteq {1, 2, 3}
         /\ \A a \in DOMAIN plan : plan[a] \in Keys
         /\ 1 \notin DOMAIN plan => DOMAIN plan = {}
         /\ zone \in [Names -> Names \cup {Tombstone, NoRecord}]
         /\ PlannedKeys \subseteq Keys
BY PlanFacts DEF CnameInv, TypeOK, PlannedKeys

LEMMA FirstSlotKeeps ==
  ASSUME CnameInv, LiveSlot(1, "slot1", "slot2")
  PROVE  CnameInv'
<1> DEFINE v == IF 1 \in DOMAIN plan THEN plan[1] ELSE NoRecord
<1>1. /\ phase = "slot1" /\ phase' = "slot2" /\ PutRecord("slot1", v)
      /\ UNCHANGED <<ldap, tree, doing, queue, waived, wildcard, plan, steps, sources>>
  BY SlotFacts DEF LiveSlot, Put, Proceed, SameBounds, planVars
<1>2. Placed /\ Placed' /\ Running /\ phase' \in Phases /\ doing.do = "none"
  BY <1>1, CallsByPhase DEF Placed, Running, Phases, CnameInv, CallInv
<1>3. v \in Keys \cup {Tombstone, NoRecord} /\ "slot1" \in Names
  BY PlanTypes, ConstantFacts DEF SlotNames
<1> HIDE DEF v
<1>4. /\ zone' \in [Names -> Names \cup {Tombstone, NoRecord}] /\ zone'["slot1"] = v
      /\ \A m \in Names \ {"slot1"} : zone'[m] = zone[m]
  BY <1>1, <1>3, PutFields
<1>5. Core'
  <2>1. ASSUME NEW j \in ldap.active \ waived, zone[ldap.name[j]] = j
        PROVE  zone'[ldap.name[j]] = j
    <3>1. PICK a \in DOMAIN plan : j = plan[a] /\ ldap.name[j] = Slot[a]
      BY <1>2, ActiveInSlots
    <3>2. Slot[a] = "slot1" => a = 1
      BY PlanTypes, SlotFacts
    <3>3. Slot[a] \in Names
      BY PlanTypes, SlotFacts
    <3> QED BY <1>4, <2>1, <3>1, <3>2, <3>3 DEF v
  <2> QED BY <1>1, <1>2, <1>4, <2>1, PlanTypes, EntriesStay, NoneInv
<1>6. /\ PlanInv' /\ PlannedKeys' = PlannedKeys
      /\ \A a \in DOMAIN plan : plan[a] \in ldap.present => ldap.name[plan[a]] = Slot[a]
  BY <1>1, <1>2, PlacedStays
<1>7. SlotsInv'
  BY <1>1, <1>2, <1>4, <1>6 DEF SlotsInv, v
<1>8. ExactInv'
  BY <1>1, <1>2, <1>4, <1>6 DEF CnameInv, ExactInv, v
<1> QED BY <1>5, <1>6, <1>7, <1>8, Joined DEF Slots

LEMMA SecondSlotKeeps ==
  ASSUME CnameInv, LiveSlot(2, "slot2", "activate")
  PROVE  CnameInv'
<1> DEFINE v == IF 2 \in DOMAIN plan THEN plan[2] ELSE NoRecord
<1>1. /\ phase = "slot2" /\ phase' = "activate" /\ PutRecord("slot2", v)
      /\ UNCHANGED <<ldap, tree, doing, queue, waived, wildcard, plan, steps, sources>>
  BY SlotFacts DEF LiveSlot, Put, Proceed, SameBounds, planVars
<1>2. Placed /\ Placed' /\ Running /\ phase' \in Phases /\ doing.do = "none"
  BY <1>1, CallsByPhase DEF Placed, Running, Phases, CnameInv, CallInv
<1>3. v \in Keys \cup {Tombstone, NoRecord} /\ "slot2" \in Names /\ "slot1" \in Names
  BY PlanTypes, ConstantFacts DEF SlotNames
<1> HIDE DEF v
<1>4. /\ zone' \in [Names -> Names \cup {Tombstone, NoRecord}] /\ zone'["slot2"] = v
      /\ \A m \in Names \ {"slot2"} : zone'[m] = zone[m]
      /\ zone'["slot1"] = zone["slot1"]
  BY <1>1, <1>3, PutFields
<1>5. Core'
  <2>1. ASSUME NEW j \in ldap.active \ waived, zone[ldap.name[j]] = j
        PROVE  zone'[ldap.name[j]] = j
    <3>1. PICK a \in DOMAIN plan : j = plan[a] /\ ldap.name[j] = Slot[a]
      BY <1>2, ActiveInSlots
    <3>2. Slot[a] = "slot2" => a = 2
      BY PlanTypes, SlotFacts
    <3>3. Slot[a] \in Names
      BY PlanTypes, SlotFacts
    <3> QED BY <1>4, <2>1, <3>1, <3>2, <3>3 DEF v
  <2> QED BY <1>1, <1>2, <1>4, <2>1, PlanTypes, EntriesStay, NoneInv
<1>6. /\ PlanInv' /\ PlannedKeys' = PlannedKeys
      /\ \A a \in DOMAIN plan : plan[a] \in ldap.present => ldap.name[plan[a]] = Slot[a]
  BY <1>1, <1>2, PlacedStays
<1>7. SlotsInv'
  BY <1>1, <1>2, <1>4, <1>6 DEF CnameInv, SlotsInv
<1>8. ExactInv'
  BY <1>1, <1>2, <1>4, <1>6 DEF CnameInv, ExactInv, v
<1> QED BY <1>5, <1>6, <1>7, <1>8, Joined DEF Slots

\* The newest key is switched on without a test: its record is there.
LEMMA ActivateSlotKeeps ==
  ASSUME CnameInv, ActivateSlot
  PROVE  CnameInv'
<1>1. /\ phase = "activate" /\ phase' = "slot3" /\ doing = NoCall
      /\ doing' = IF 1 \in DOMAIN plan THEN Enabling(plan[1]) ELSE NoCall
      /\ UNCHANGED <<ldap, tree, zone, queue, waived, wildcard, plan, steps, sources>>
  BY DEF ActivateSlot, Proceed, SameRecords, SameBounds, historyVars, planVars
<1>2. Placed /\ Placed' /\ Running /\ phase' \in Phases /\ doing.do = "none"
  BY <1>1, NoCallFields DEF Placed, Running, Phases
<1>3. tree.active = ldap.active
  BY <1>2 DEF CnameInv, TreeInv
<1>4. \/ 1 \notin DOMAIN plan /\ doing' = NoCall
      \/ /\ 1 \in DOMAIN plan /\ doing'.key = plan[1] /\ doing' \in CallShape
         /\ \/ doing'.do = "disable" /\ plan[1] \in ldap.active
            \/ doing'.do = "enable"
  <2>1. CASE 1 \in DOMAIN plan
    <3>1. plan[1] \in Keys
      BY <2>1, PlanTypes
    <3>2. doing' = Call(IF plan[1] \in tree.active THEN "disable" ELSE "enable", plan[1])
      BY <1>1, <2>1 DEF Enabling
    <3> QED BY <1>3, <2>1, <3>1, <3>2, CallFields DEF Calls
  <2> QED BY <1>1, <2>1
<1>5. /\ PlanInv' /\ PlannedKeys' = PlannedKeys
      /\ \A a \in DOMAIN plan : plan[a] \in ldap.present => ldap.name[plan[a]] = Slot[a]
      /\ ldap.present \subseteq PlannedKeys
  <2>1. doing'.do # "rename"
    BY <1>4, NoCallFields
  <2> QED BY <1>1, <1>2, <2>1, PlacedStays
<1>6. CallInv'
  <2>1. CASE doing' = NoCall
    BY <1>2, <2>1, NoCallInv
  <2>2. CASE /\ 1 \in DOMAIN plan /\ doing'.key = plan[1]
             /\ \/ doing'.do = "disable" /\ plan[1] \in ldap.active
                \/ doing'.do = "enable"
    <3>1. plan[1] \in ldap.present => zone[ldap.name[plan[1]]] = plan[1]
      BY <1>1, <1>5, <2>2, SlotFacts DEF CnameInv, SlotsInv
    <3>2. plan[1] \in Keys /\ doing'.do \in CallsOf(phase')
      BY <1>1, <2>2, PlanTypes, CallsByPhase
    <3> QED BY <1>1, <2>2, <3>1, <3>2 DEF CallInv
  <2> QED BY <1>4, <2>1, <2>2
<1>7. Core'
  <2>1. doing' \in CallShape
    BY <1>4, NoCallFields
  <2> QED BY <1>1, <1>2, <1>6, <2>1, PlanTypes, EntriesStay
<1>8. doing'.do = "none" => 1 \notin DOMAIN plan /\ ldap.active = {}
  <2>1. doing'.do = "none" => 1 \notin DOMAIN plan
    BY <1>4
  <2>2. 1 \notin DOMAIN plan => PlannedKeys = {}
    BY PlanTypes DEF PlannedKeys
  <2> QED BY <1>5, <2>1, <2>2, Fields
<1>9. SlotsInv'
  BY <1>1, <1>4, <1>5, <1>8, NoCallFields DEF SlotsInv
<1>10. ExactInv'
  BY <1>1, <1>2, <1>5, <1>8 DEF CnameInv, ExactInv
<1> QED BY <1>5, <1>7, <1>9, <1>10, Joined DEF Slots

LEMMA LastSlotKeeps ==
  ASSUME CnameInv, LastSlot
  PROVE  CnameInv'
<1>1. /\ phase = "slot3" /\ phase' = "sources" /\ doing = NoCall
      /\ PutRecord("slot3", Tombstone)
      /\ UNCHANGED <<ldap, tree, doing, queue, waived, wildcard, plan, steps, sources>>
  BY SlotFacts DEF LastSlot, Put, Proceed, SameBounds, planVars
<1>2. Placed /\ Placed' /\ Running /\ phase' \in Phases /\ doing.do = "none"
  BY <1>1, NoCallFields DEF Placed, Running, Phases
<1>3. {"slot1", "slot2", "slot3"} \subseteq Names
  BY ConstantFacts DEF SlotNames
<1>4. /\ zone' \in [Names -> Names \cup {Tombstone, NoRecord}]
      /\ zone'["slot3"] = Tombstone
      /\ \A m \in Names \ {"slot3"} : zone'[m] = zone[m]
  BY <1>1, <1>3, PutFields
<1>5. ldap.active \subseteq {plan[a] : a \in DOMAIN plan \cap {1}}
  BY <1>1, <1>2 DEF CnameInv, SlotsInv
<1>6. /\ PlanInv' /\ PlannedKeys' = PlannedKeys
      /\ \A a \in DOMAIN plan : plan[a] \in ldap.present => ldap.name[plan[a]] = Slot[a]
  BY <1>1, <1>2, PlacedStays
<1>7. Core'
  <2>1. \A j \in ldap.active : ldap.name[j] = "slot1"
    BY <1>5, <1>6, Fields, SlotFacts
  <2>2. \A j \in ldap.active : zone'[ldap.name[j]] = zone[ldap.name[j]]
    BY <1>3, <1>4, <2>1
  <2> QED BY <1>1, <1>2, <1>4, <2>2, PlanTypes, EntriesStay, NoneInv
<1>8. SlotsInv'
  BY <1>1, <1>5, <1>6 DEF SlotsInv
<1>9. ExactInv'
  <2>1. zone'["slot1"] = zone["slot1"] /\ zone'["slot2"] = zone["slot2"]
    BY <1>3, <1>4
  <2> QED BY <1>1, <1>2, <1>4, <1>6, <2>1 DEF CnameInv, ExactInv
<1> QED BY <1>6, <1>7, <1>8, <1>9, Joined DEF Slots

\* The records at the names that were left.
LEMMA LeaveSourceKeeps ==
  ASSUME CnameInv, LeaveSource
  PROVE  CnameInv'
<1>1. PICK n \in sources :
        /\ phase = "sources" /\ phase' = "sources" /\ PutRecord(n, NoRecord)
        /\ sources' = sources \ {n}
        /\ UNCHANGED <<ldap, tree, doing, queue, waived, wildcard, plan, steps>>
  BY DEF LeaveSource, Put, SameBounds, runVars
<1>2. Placed /\ Placed' /\ Running /\ phase' \in Phases /\ doing.do = "none"
  BY <1>1, CallsByPhase DEF Placed, Running, Phases, CnameInv, CallInv
<1>3. n \in Names \ SlotNames
  BY PlanTypes
<1>4. /\ zone' \in [Names -> Names \cup {Tombstone, NoRecord}]
      /\ \A m \in Names \ {n} : zone'[m] = zone[m]
  BY <1>1, <1>3, PutFields
<1>5. \A m \in SlotNames : zone'[m] = zone[m]
  BY <1>3, <1>4, ConstantFacts
<1>6. Core'
  <2>1. \A j \in ldap.active : ldap.name[j] \in SlotNames
    BY <1>2, ActiveInSlots, PlanTypes, SlotFacts
  <2> QED BY <1>1, <1>2, <1>4, <1>5, <2>1, PlanTypes, EntriesStay, NoneInv
<1>7. /\ PlanInv' /\ PlannedKeys' = PlannedKeys
      /\ \A a \in DOMAIN plan : plan[a] \in ldap.present => ldap.name[plan[a]] = Slot[a]
  BY <1>1, <1>2, PlacedStays
<1>8. SlotsInv'
  BY <1>1, <1>7 DEF CnameInv, SlotsInv
<1>9. ExactInv'
  BY <1>1, <1>2, <1>5, <1>7 DEF CnameInv, ExactInv, SlotNames
<1> QED BY <1>6, <1>7, <1>8, <1>9, Joined DEF Slots

LEMMA RetireLastKeeps ==
  ASSUME CnameInv, RetireLast
  PROVE  CnameInv'
<1>1. /\ phase = "sources" /\ phase' = "last"
      /\ doing' = IF 3 \in DOMAIN plan THEN Call("retire", plan[3]) ELSE NoCall
      /\ UNCHANGED <<ldap, tree, zone, queue, waived, wildcard, plan, steps, sources>>
  BY DEF RetireLast, Proceed, SameRecords, SameBounds, historyVars, planVars
<1>2. Placed /\ Placed' /\ Running /\ phase' \in Phases /\ doing.do = "none"
  BY <1>1, CallsByPhase DEF Placed, Running, Phases, CnameInv, CallInv
<1>3. \/ doing' = NoCall
      \/ /\ 3 \in DOMAIN plan /\ plan[3] \in Keys /\ doing'.key = plan[3]
         /\ doing' \in CallShape /\ doing'.do = "retire"
  <2>1. 3 \in DOMAIN plan => plan[3] \in Keys
    BY PlanTypes
  <2> QED BY <1>1, <2>1, CallFields DEF Calls
<1>4. doing' \in CallShape /\ CallInv' /\ doing'.do \in {"none", "retire"}
  <2>1. CASE doing' = NoCall
    BY <1>2, <2>1, NoCallInv, NoCallFields
  <2>2. CASE /\ 3 \in DOMAIN plan /\ plan[3] \in Keys /\ doing'.key = plan[3]
             /\ doing' \in CallShape /\ doing'.do = "retire"
    <3>1. "retire" \in CallsOf(phase')
      BY <1>1, CallsByPhase
    <3> QED BY <2>2, <3>1 DEF CallInv
  <2> QED BY <1>3, <2>1, <2>2
<1>5. Core'
  BY <1>1, <1>2, <1>4, PlanTypes, EntriesStay
<1>6. /\ PlanInv' /\ PlannedKeys' = PlannedKeys
      /\ \A a \in DOMAIN plan : plan[a] \in ldap.present => ldap.name[plan[a]] = Slot[a]
  BY <1>1, <1>2, <1>4, PlacedStays
<1>7. SlotsInv'
  BY <1>1, <1>6 DEF CnameInv, SlotsInv
<1>8. ExactInv'
  BY <1>1, <1>2, <1>3, <1>6, NoCallFields DEF CnameInv, ExactInv
<1> QED BY <1>5, <1>6, <1>7, <1>8, Joined DEF Slots

LEMMA EndReorderKeeps ==
  ASSUME CnameInv, EndReorder
  PROVE  CnameInv'
<1>1. /\ phase' = "idle" /\ doing' = NoCall /\ queue' = {}
      /\ plan' = <<>> /\ steps' = <<>>
      /\ UNCHANGED <<ldap, tree, zone, waived, wildcard, sources>>
  BY DEF EndReorder, Complete, Same, SameRecords, SameBounds, historyVars
<1>2. <<>> \in Plans /\ <<>> \in Seq([key : Keys, to : Names])
  BY DEF Plans
<1> QED BY <1>1, <1>2, EndKeeps DEF CnameInv, TypeOK

LEMMA RenamesKeeps ==
  ASSUME CnameInv, Renames
  PROVE  CnameInv'
<1>1. /\ phase = "rename" /\ phase' = "slot1" /\ doing = NoCall /\ steps = <<>>
      /\ UNCHANGED <<ldap, tree, zone, doing, queue, waived, wildcard, plan, steps, sources>>
  BY DEF Renames, Proceed, Same, SameRecords, SameBounds, historyVars, planVars
<1>2. Reordering /\ Placed' /\ ~Reordering' /\ Running /\ phase' \in Phases
      /\ doing.do = "none"
  BY <1>1, NoCallFields DEF Placed, Reordering, Running, Phases
<1>3. Core'
  BY <1>1, <1>2, PlanTypes, EntriesStay, NoneInv
<1>4. /\ \A a, b \in DOMAIN plan : plan[a] = plan[b] => a = b
      /\ ldap.present \subseteq PlannedKeys /\ StepsInv
  BY <1>1, <1>2 DEF CnameInv, PlanInv
<1>5. PlannedKeys' = PlannedKeys
  BY <1>1 DEF PlannedKeys
<1>6. PlanInv'
  BY <1>1, <1>2, <1>4, <1>5 DEF PlanInv
<1>7. \A a \in DOMAIN plan : plan[a] \in ldap.present => ldap.name[plan[a]] = Slot[a]
  <2>1. DOMAIN steps = {}
    BY <1>1
  <2>2. Ends(plan, steps, ldap.name, PlannedKeys \cap ldap.present)
    BY <1>4 DEF StepsInv
  <2>3. \A a \in DOMAIN plan : plan[a] \in PlannedKeys
    BY DEF PlannedKeys
  <2> QED BY <2>1, <2>2, <2>3 DEF Ends
<1>8. SlotsInv'
  BY <1>1, <1>7 DEF SlotsInv
<1>9. ExactInv'
  BY <1>1, <1>2, <1>5 DEF CnameInv, ExactInv
<1> QED BY <1>3, <1>6, <1>8, <1>9, Joined DEF Slots

\* The step that is next goes to a name nobody bears, and if it goes to a slot
\* it takes the key of that slot there; an active key goes to no other name.
LEMMA FirstStepFacts ==
  ASSUME CnameInv, phase = "rename", steps # <<>>
  PROVE  /\ Head(steps).key \in Keys /\ Head(steps).to \in Names
         /\ Head(steps).to \in {Temporary} \cup SlotNames
         /\ Head(steps).to \in SlotNames =>
              /\ \A j \in ldap.present : ldap.name[j] # Head(steps).to
              /\ \E a \in DOMAIN plan :
                   /\ Head(steps).key = plan[a] /\ Head(steps).to = Slot[a]
                   /\ SlotContent(Slot[a]) = IF a = 3 THEN Tombstone ELSE plan[a]
         /\ Head(steps).to \notin SlotNames => Head(steps).key \notin ldap.active
<1> DEFINE S == PlannedKeys \cap ldap.present
           first == steps[1]
<1>1. /\ Meant(plan, steps, ldap.active) /\ Free(steps, ldap.name, S)
      /\ ldap.present \subseteq PlannedKeys
  BY DEF CnameInv, PlanInv, StepsInv, Reordering
<1>2. Head(steps) = first /\ 1 \in DOMAIN steps /\ first \in [key : Keys, to : Names]
  <2> DEFINE R == [key : Keys, to : Names]
  <2>1. steps \in Seq(R) /\ steps # <<>>
    BY PlanTypes
  <2>2. Head(steps) = first /\ 1 \in DOMAIN steps /\ 1 \in 1..Len(steps)
    BY <2>1
  <2> HIDE DEF R
  <2>3. steps[1] \in R
    BY <2>1, <2>2, ElementOfSeq
  <2> QED BY <2>2, <2>3 DEF R
<1>3. \/ \E a \in DOMAIN plan : first.key = plan[a] /\ first.to = Slot[a]
      \/ first.to = Temporary /\ first.key \notin ldap.active
  BY <1>1, <1>2 DEF Meant
<1>4. first.to \in SlotNames => \A j \in S : ldap.name[j] # first.to
  <2>1. ~ \E j \in 1..(1 - 1) : TRUE
    OBVIOUS
  <2> QED BY <1>1, <1>2, <2>1 DEF Free
<1>5. \A a \in DOMAIN plan : Slot[a] \in SlotNames
  BY PlanTypes, SlotFacts
<1>6. \A a \in DOMAIN plan : SlotContent(Slot[a]) = IF a = 3 THEN Tombstone ELSE plan[a]
  <2>1. TAKE a \in DOMAIN plan
  <2>2. a \in 1..3 /\ \A i \in 1..3 : Slot[i] = Slot[a] => i = a
    BY PlanTypes, SlotFacts
  <2> DEFINE c == CHOOSE i \in 1..3 : Slot[i] = Slot[a]
  <2>3. SlotContent(Slot[a]) = Content(plan, c)
    BY DEF SlotContent
  <2>4. c = a
    BY <2>2
  <2> HIDE DEF c
  <2> QED BY <2>3, <2>4 DEF Content
<1> HIDE DEF first
<1>7. first.key \in Keys /\ first.to \in Names
  BY <1>2
<1> QED BY <1>1, <1>2, <1>3, <1>4, <1>5, <1>6, <1>7, ConstantFacts

\* The record comes first: no active key resolves by what it replaces.
LEMMA PlaceKeeps ==
  ASSUME CnameInv, Place
  PROVE  CnameInv'
<1> DEFINE to == Head(steps).to
           k == Head(steps).key
<1>1. /\ phase = "rename" /\ phase' = "rename" /\ doing = NoCall /\ steps # <<>>
      /\ doing' = Call("rename", k)
      /\ UNCHANGED <<ldap, tree, queue, waived, wildcard, plan, steps, sources>>
      /\ to \in SlotNames => PutRecord(to, SlotContent(to))
      /\ to \notin SlotNames => zone' = zone
  BY DEF Place, Put, SameRecords, SameBounds, historyVars, planVars
<1>2. Reordering /\ Reordering' /\ ~Placed' /\ Running /\ phase' \in Phases
      /\ doing.do = "none"
  BY <1>1, NoCallFields DEF Placed, Reordering, Running, Phases
<1>3. /\ k \in Keys /\ to \in Names
      /\ to \in SlotNames =>
           /\ \A j \in ldap.present : ldap.name[j] # to
           /\ SlotContent(to) \in Keys \cup {Tombstone}
  BY <1>1, FirstStepFacts, PlanTypes
<1>4. doing' \in CallShape /\ doing'.do = "rename" /\ doing'.key = k
  BY <1>1, <1>3, CallFields DEF Calls
<1> HIDE DEF k, to
<1>5. /\ zone' \in [Names -> Names \cup {Tombstone, NoRecord}]
      /\ to \in SlotNames => zone'[to] = SlotContent(to)
      /\ \A j \in ldap.present : zone'[ldap.name[j]] = zone[ldap.name[j]]
  <2>1. CASE to \in SlotNames
    <3>1. /\ zone' \in [Names -> Names \cup {Tombstone, NoRecord}]
          /\ zone'[to] = SlotContent(to)
          /\ \A m \in Names \ {to} : zone'[m] = zone[m]
      BY <1>1, <1>3, <2>1, PutFields
    <3>2. \A j \in ldap.present : ldap.name[j] \in Names \ {to}
      BY <1>3, <2>1, Fields
    <3> QED BY <3>1, <3>2
  <2>2. CASE to \notin SlotNames
    BY <1>1, <2>2, PlanTypes
  <2> QED BY <2>1, <2>2
<1>6. CallInv'
  <2>1. "rename" \in CallsOf(phase')
    BY <1>1, CallsByPhase
  <2> QED BY <1>3, <1>4, <2>1 DEF CallInv
<1>7. Core'
  BY <1>1, <1>2, <1>4, <1>5, <1>6, PlanTypes, Fields, EntriesStay
<1>8. /\ \A a, b \in DOMAIN plan : plan[a] = plan[b] => a = b
      /\ ldap.present \subseteq PlannedKeys /\ StepsInv
      /\ 3 \in DOMAIN plan => plan[3] \notin ldap.active
  BY <1>1, <1>2 DEF CnameInv, PlanInv
<1>9. PlannedKeys' = PlannedKeys /\ StepsInv'
  BY <1>1, <1>8 DEF PlannedKeys, StepsInv
<1>10. PlanInv'
  <2>1. steps' # <<>> /\ doing'.key = Head(steps').key
    BY <1>1, <1>4 DEF k
  <2>2. SlotContent(Head(steps).to)' = SlotContent(Head(steps).to)
    BY <1>1 DEF SlotContent
  <2>3. (Head(steps).to \in SlotNames =>
           zone[Head(steps).to] = SlotContent(Head(steps).to))'
    BY <1>1, <1>5, <2>2 DEF to
  <2> QED BY <1>1, <1>2, <1>8, <1>9, <2>1, <2>3 DEF PlanInv
<1>11. SlotsInv'
  BY <1>1, <1>2 DEF SlotsInv
<1>12. ExactInv'
  BY <1>1, <1>2, <1>9 DEF CnameInv, ExactInv
<1> QED BY <1>7, <1>10, <1>11, <1>12, Joined DEF Slots

\* An active key takes its record along, as the slot shows it by then.
LEMMA RenameKeeps ==
  ASSUME CnameInv, Rename
  PROVE  CnameInv'
<1> DEFINE to == Head(steps).to
           k == doing.key
<1>1. /\ doing.do = "rename" /\ doing' = NoCall /\ tree' = ldap'
      /\ UNCHANGED <<zone, queue, waived, wildcard, plan, sources>>
  BY DEF Rename, SameRecords, SameBounds, historyVars
<1>2. phase = "rename" /\ Reordering /\ k \in Keys
  BY <1>1, InCall DEF Reordering
<1>3. CASE ~(k \in ldap.present /\ At(ldap, to) = {})
  <2>1. phase' = "idle" /\ ldap' = ldap /\ steps' = steps
    BY <1>3 DEF Rename
  <2> QED BY <1>1, <2>1, EndKeeps DEF CnameInv, TypeOK
<1>4. CASE k \in ldap.present /\ At(ldap, to) = {}
  <2>1. ldap' = Renamed(ldap, k, to) /\ steps' = Tail(steps) /\ phase' = "rename"
    BY <1>2, <1>4 DEF Rename
  <2>2. /\ steps # <<>> /\ k = Head(steps).key
        /\ to \in SlotNames => zone[to] = SlotContent(to)
        /\ 3 \in DOMAIN plan => plan[3] \notin ldap.active
        /\ \A a, b \in DOMAIN plan : plan[a] = plan[b] => a = b
        /\ ldap.present \subseteq PlannedKeys /\ StepsInv
    BY <1>1, <1>2 DEF CnameInv, PlanInv
  <2>3. /\ to \in Names /\ to \in {Temporary} \cup SlotNames
        /\ to \in SlotNames =>
             \E a \in DOMAIN plan : /\ k = plan[a] /\ to = Slot[a]
                                    /\ SlotContent(to) = IF a = 3 THEN Tombstone ELSE plan[a]
        /\ to \notin SlotNames => k \notin ldap.active
    BY <1>2, <2>2, FirstStepFacts
  <2>4. \A j \in ldap.present : ldap.name[j] # to
    BY <1>4 DEF At
  <2>5. /\ ldap' \in Directory /\ ldap'.present = ldap.present
        /\ ldap'.active = ldap.active /\ ldap'.rank = ldap.rank
        /\ ldap'.name = [ldap.name EXCEPT ![k] = to]
    <3>1. ldap \in Directory /\ k \in Keys /\ to \in Names
      BY <1>2, <2>3, Fields
    <3> HIDE DEF k, to
    <3> QED BY <2>1, <3>1, RenamedFields
  <2>6. \A j \in Keys : ldap'.name[j] = IF j = k THEN to ELSE ldap.name[j]
    BY <1>2, <2>5, Fields
  <2>7. /\ Tail(steps) \in Seq([key : Keys, to : Names]) /\ StepsInv'
    <3> DEFINE S == PlannedKeys \cap ldap.present
    <3>1. /\ plan \in Plans /\ Selection(plan) /\ S \subseteq Keys
          /\ steps \in Seq([key : Keys, to : Names])
      BY <2>2, PlanTypes, Fields DEF Selection
    <3>2. Meant(plan, steps, ldap.active) /\ Free(steps, ldap.name, S)
          /\ Ends(plan, steps, ldap.name, S)
      BY <2>2 DEF StepsInv
    <3>3. ldap.name \in [Keys -> Names]
      BY Fields
    <3>4. S' = S
      BY <1>1, <2>5 DEF PlannedKeys
    <3> DEFINE at == [ldap.name EXCEPT ![Head(steps).key] = Head(steps).to]
    <3> HIDE DEF S
    <3>5. /\ Tail(steps) \in Seq([key : Keys, to : Names])
          /\ Meant(plan, Tail(steps), ldap.active) /\ Free(Tail(steps), at, S)
          /\ Ends(plan, Tail(steps), at, S)
      BY <2>2, <3>1, <3>2, <3>3, TailFacts
    <3>6. ldap'.name = at
      BY <2>2, <2>5
    <3> HIDE DEF at
    <3> QED BY <1>1, <2>1, <2>5, <3>4, <3>5, <3>6 DEF StepsInv, S
  <2>8. ActiveResolves'
    <3>1. SUFFICES ASSUME NEW j \in ldap.active \ waived PROVE zone[ldap'.name[j]] = j
      BY <1>1, <2>5 DEF ActiveResolves
    <3>2. CASE j # k
      BY <2>6, <3>2, Fields DEF CnameInv, ActiveResolves
    <3>3. CASE j = k
      <4>1. to \in SlotNames
        BY <2>3, <3>3
      <4>2. PICK a \in DOMAIN plan : /\ k = plan[a] /\ to = Slot[a]
                                     /\ SlotContent(to) = IF a = 3 THEN Tombstone ELSE plan[a]
        BY <2>3, <4>1
      <4>3. a # 3
        BY <2>2, <3>3, <4>2
      <4> QED BY <1>2, <2>2, <2>6, <3>3, <4>1, <4>2, <4>3
    <3> QED BY <3>2, <3>3
  <2>9. EntriesInv'
    <3>1. WellNamed(ldap')
      <4>1. \A j \in Keys : ldap'.name[j] \in {j, Temporary} \cup SlotNames
        BY <2>3, <2>6, Fields DEF WellNamed
      <4>2. \A i, j \in ldap.present : ldap'.name[i] = ldap'.name[j] => i = j
        BY <2>4, <2>6, Fields DEF WellNamed
      <4> QED BY <2>5, <4>1, <4>2, Fields DEF WellNamed
    <3>2. WellRanked(ldap')
      BY <2>5, Fields DEF WellRanked
    <3> QED BY <3>1, <3>2 DEF EntriesInv, WellNamed, WellRanked
  <2> HIDE DEF k, to
  <2>10. TypeOK'
    BY <1>1, <2>1, <2>5, <2>7, NoCallFields DEF CnameInv, TypeOK, Phases
  <2>11. TreeInv' /\ CallInv'
    BY <1>1, <2>9, <2>10, Reloaded, NoCallInv DEF TypeOK
  <2>12. Reordering' /\ ~Placed'
    BY <2>1 DEF Reordering, Placed
  <2>13. PlannedKeys' = PlannedKeys
    BY <1>1 DEF PlannedKeys
  <2>14. PlanInv'
    BY <1>1, <2>1, <2>2, <2>5, <2>7, <2>12, <2>13, NoCallFields DEF PlanInv
  <2>15. SlotsInv'
    BY <2>1, <2>12 DEF SlotsInv
  <2>16. ExactInv'
    BY <1>1, <1>2, <2>1, <2>5, <2>13 DEF CnameInv, ExactInv
  <2> QED BY <2>8, <2>9, <2>10, <2>11, <2>14, <2>15, <2>16, Joined DEF Core, Slots
<1> QED BY <1>3, <1>4

LEMMA PruneKeeps ==
  ASSUME CnameInv, Prune
  PROVE  CnameInv'
<1>1. /\ phase = "prune" /\ doing = NoCall
      /\ UNCHANGED <<ldap, tree, zone, waived, wildcard, plan, steps, sources>>
      /\ IF queue = {} THEN phase' = "rename" /\ UNCHANGED <<queue, doing>>
         ELSE LET k == Newest(queue, tree) IN
              /\ queue' = queue \ {k} /\ UNCHANGED phase
              /\ doing' = IF k \in tree.present THEN Call("erase", k) ELSE NoCall
  BY DEF Prune, SameRecords, SameBounds, historyVars, planVars
<1>2. Reordering /\ ~Placed /\ Running /\ doing.do = "none" /\ phase' \in {"prune", "rename"}
  BY <1>1, NoCallFields DEF Placed, Reordering, Running
<1>3. Reordering' /\ ~Placed' /\ phase' \in Phases
  BY <1>2 DEF Placed, Reordering, Phases
<1>4. /\ \A a, b \in DOMAIN plan : plan[a] = plan[b] => a = b
      /\ ldap.present \subseteq PlannedKeys \cup queue
      /\ queue \cap (PlannedKeys \cup ldap.active) = {}
      /\ 3 \in DOMAIN plan => plan[3] \notin ldap.active
      /\ StepsInv /\ PlannedKeys' = PlannedKeys
      /\ ldap.present \subseteq tree.present
  BY <1>1, <1>2 DEF CnameInv, PlanInv, PlannedKeys, TreeInv, Snapshot
<1>5. /\ queue' \subseteq queue /\ queue' \subseteq Keys
      /\ ldap.present \subseteq PlannedKeys \cup
           IF phase' = "prune"
           THEN queue' \cup {k \in {doing'.key} : doing'.do \in {"erase", "drop"}} ELSE {}
      /\ doing' = NoCall \/ /\ phase' = "prune" /\ doing' \in CallShape
                            /\ doing'.do = "erase" /\ doing'.key \in queue
                            /\ doing'.key \in tree.present
  <2>1. CASE queue = {}
    BY <1>1, <1>4, <2>1
  <2>2. CASE queue # {}
    <3>1. PICK k \in queue :
            /\ queue' = queue \ {k} /\ phase' = "prune"
            /\ doing' = IF k \in tree.present THEN Call("erase", k) ELSE NoCall
      <4>1. Newest(queue, tree) \in queue
        BY <2>2, PlanTypes, Fields, NewestIsMember
      <4> QED BY <1>1, <2>2, <4>1
    <3>2. k \in Keys
      BY PlanTypes
    <3>3. CASE k \in tree.present
      <4>1. doing' \in CallShape /\ doing'.do = "erase" /\ doing'.key = k
        BY <3>1, <3>2, <3>3, CallFields DEF Calls
      <4> QED BY <1>4, <3>1, <3>3, <4>1, PlanTypes
    <3>4. CASE k \notin tree.present
      BY <1>4, <3>1, <3>4, PlanTypes
    <3> QED BY <3>3, <3>4
  <2> QED BY <2>1, <2>2
<1>6. doing' \in CallShape /\ CallInv'
  <2>1. CASE doing' = NoCall
    BY <1>3, <2>1, NoCallInv
  <2>2. CASE /\ phase' = "prune" /\ doing' \in CallShape
             /\ doing'.do = "erase" /\ doing'.key \in queue
             /\ doing'.key \in tree.present
    <3>1. "erase" \in CallsOf(phase') /\ doing'.key \in Keys
      BY <2>2, CallsByPhase, PlanTypes
    <3> QED BY <1>1, <1>4, <2>2, <3>1 DEF CallInv
  <2> QED BY <1>5, <2>1, <2>2
<1>7. Core'
  BY <1>1, <1>2, <1>3, <1>5, <1>6, PlanTypes, EntriesStay
<1>8. StepsInv'
  BY <1>1, <1>4 DEF StepsInv
<1>9. doing'.do # "rename" /\ (doing'.do # "none" => doing'.key \notin PlannedKeys)
  BY <1>4, <1>5, NoCallFields
<1>10. PlanInv'
  BY <1>1, <1>3, <1>4, <1>5, <1>8, <1>9 DEF PlanInv
<1>11. SlotsInv'
  BY <1>2, <1>3 DEF SlotsInv
<1>12. ExactInv'
  BY <1>1, <1>2, <1>3, <1>4 DEF CnameInv, ExactInv
<1> QED BY <1>7, <1>10, <1>11, <1>12, Joined DEF Slots

\* The first three keys of a ranked directory make a plan; the others have no
\* slot.
LEMMA FirstThreeFacts ==
  ASSUME NEW d \in Directory, WellRanked(d)
  PROVE  LET ks == NewestFirst(d)
             three == FirstThree(ks)
             rest == {ks[i] : i \in DOMAIN ks \ {1, 2, 3}}
         IN /\ three \in Plans /\ Selection(three)
            /\ DOMAIN three \subseteq DOMAIN ks /\ \A a \in DOMAIN three : three[a] = ks[a]
            /\ {three[a] : a \in DOMAIN three} \subseteq d.present
            /\ rest \subseteq Keys /\ rest \cap {three[a] : a \in DOMAIN three} = {}
            /\ d.present \subseteq {three[a] : a \in DOMAIN three} \cup rest
            /\ \A a, b \in DOMAIN three : a < b => d.rank[three[a]] > d.rank[three[b]]
<1> DEFINE ks == NewestFirst(d)
           n == Cardinality(d.present)
           three == FirstThree(ks)
           m == IF n < 3 THEN n ELSE 3
           rest == {ks[i] : i \in DOMAIN ks \ {1, 2, 3}}
<1>1. /\ n \in Nat /\ DOMAIN ks = 1..n
      /\ \A i \in 1..n : ks[i] \in d.present /\ d.rank[ks[i]] = n + 1 - i
      /\ \A k \in d.present : \E i \in 1..n : ks[i] = k
      /\ \A i, j \in 1..n : ks[i] = ks[j] => i = j
  BY NewestFirstFacts
<1>2. d.present \subseteq Keys
  BY FieldTypes
<1> HIDE DEF ks, n
<1>3. m \in 0..3 /\ 1..m = (1..n) \cap {1, 2, 3}
  BY <1>1
<1> HIDE DEF m
<1>4. /\ three = [i \in 1..m |-> ks[i]] /\ DOMAIN three = 1..m
      /\ \A a \in 1..m : three[a] = ks[a] /\ a \in 1..n /\ a \in {1, 2, 3}
  BY <1>1, <1>3 DEF FirstThree
<1> HIDE DEF three
<1>5. \A a \in 1..m : three[a] \in d.present /\ three[a] \in Keys
  BY <1>1, <1>2, <1>4
<1>6. three \in Plans
  <2>1. three \in [1..m -> Keys]
    BY <1>4, <1>5
  <2> QED BY <1>3, <2>1 DEF Plans
<1>7. Selection(three)
  BY <1>1, <1>4, <1>5 DEF Selection
<1>8. /\ rest \subseteq Keys /\ rest \cap {three[a] : a \in DOMAIN three} = {}
      /\ d.present \subseteq {three[a] : a \in DOMAIN three} \cup rest
  <2>1. rest \subseteq Keys
    BY <1>1, <1>2
  <2>2. rest \cap {three[a] : a \in DOMAIN three} = {}
    BY <1>1, <1>4
  <2>3. ASSUME NEW k \in d.present
        PROVE  k \in {three[a] : a \in DOMAIN three} \cup rest
    <3>1. PICK i \in 1..n : ks[i] = k
      BY <1>1
    <3>2. CASE i \in {1, 2, 3}
      BY <1>3, <1>4, <3>1, <3>2
    <3>3. CASE i \notin {1, 2, 3}
      BY <1>1, <3>1, <3>3
    <3> QED BY <3>2, <3>3
  <2> QED BY <2>1, <2>2, <2>3
<1>9. \A a, b \in DOMAIN three : a < b => d.rank[three[a]] > d.rank[three[b]]
  BY <1>1, <1>4
<1>10. DOMAIN three \subseteq DOMAIN ks /\ {three[a] : a \in DOMAIN three} \subseteq d.present
  BY <1>1, <1>4, <1>5
<1> QED BY <1>4, <1>6, <1>7, <1>8, <1>9, <1>10 DEF ks, three

\* The plan is made from the snapshot, which may show entries that are gone.
LEMMA ReorderKeeps ==
  ASSUME CnameInv, Reorder
  PROVE  CnameInv'
<1> DEFINE ks == NewestFirst(tree)
           three == FirstThree(ks)
           rest == {ks[i] : i \in DOMAIN ks \ {1, 2, 3}}
           P == {three[a] : a \in DOMAIN three}
<1>1. /\ phase = "reorder" /\ doing = NoCall /\ doing' = NoCall
      /\ UNCHANGED <<ldap, tree, zone, waived, wildcard>>
  BY DEF Reorder, Same, SameRecords, SameBounds, historyVars
<1>2. CASE /\ phase' = "idle" /\ queue' = {} /\ UNCHANGED planVars
  <2>1. plan' = plan /\ steps' = steps /\ sources' = sources
    BY <1>2 DEF planVars
  <2> QED BY <1>1, <1>2, <2>1, EndKeeps DEF CnameInv, TypeOK
<1>3. CASE /\ ~Refused(ks, tree) /\ phase' = "prune"
           /\ queue' = rest
           /\ plan' = three /\ steps' = Planned(three, tree).steps
           /\ sources' = {tree.name[three[i]] :
                            i \in {j \in DOMAIN three :
                                     tree.name[three[j]] # Slot[j]}} \ SlotNames
  <2>1. /\ Running /\ doing.do = "none" /\ doing'.do = "none" /\ Snapshot(tree)
        /\ tree.active = ldap.active /\ doing' \in CallShape
    BY <1>1, NoCallFields DEF Running, CnameInv, TreeInv
  <2>2. /\ three \in Plans /\ Selection(three)
        /\ DOMAIN three \subseteq DOMAIN ks /\ \A a \in DOMAIN three : three[a] = ks[a]
        /\ P \subseteq tree.present
        /\ rest \subseteq Keys /\ rest \cap P = {} /\ tree.present \subseteq P \cup rest
        /\ \A a, b \in DOMAIN three : a < b => tree.rank[three[a]] > tree.rank[three[b]]
    BY <2>1, Fields, FirstThreeFacts DEF Snapshot
  <2>3. /\ \A i \in DOMAIN ks : i >= 3 => ks[i] \notin tree.active
        /\ Planned(three, tree).left = {}
    BY <1>3 DEF Refused
  <2>4. rest \cap tree.active = {}
    <3>1. DOMAIN ks \subseteq Nat \ {0}
      BY <2>1, Fields, NewestFirstFacts DEF Snapshot
    <3>2. \A i \in DOMAIN ks \ {1, 2, 3} : i >= 3
      BY <3>1
    <3> QED BY <2>3, <3>2
  <2> HIDE DEF ks, three, rest
  <2>5. /\ steps' \in Seq([key : Keys, to : Names])
        /\ Meant(plan', steps', tree.active) /\ Free(steps', tree.name, P)
        /\ Ends(plan', steps', tree.name, P)
    BY <1>3, <2>2, <2>3, Fields, PlannedFacts
  <2>6. PlannedKeys' = P
    BY <1>3 DEF PlannedKeys
  <2> HIDE DEF P
  <2>7. StepsInv'
    <3> DEFINE T == P \cap ldap.present
    <3>1. T \subseteq P /\ \A k \in T : ldap.name[k] = tree.name[k]
      BY <2>1 DEF Snapshot
    <3>2. Meant(plan', steps', ldap.active) /\ Free(steps', ldap.name, T)
          /\ Ends(plan', steps', ldap.name, T)
      <4> HIDE DEF T
      <4>1. ldap.active \subseteq tree.active
        BY <2>1
      <4> QED BY <2>5, <3>1, <4>1, StepsStay
    <3> QED BY <1>1, <2>6, <3>2 DEF StepsInv
  <2>8. Reordering' /\ ~Placed' /\ phase' \in Phases
    BY <1>3 DEF Placed, Reordering, Phases
  <2>9. sources' \subseteq Names \ SlotNames
    <3>1. \A a \in DOMAIN three : tree.name[three[a]] \in Names
      BY <2>2, Fields DEF Selection
    <3> QED BY <1>3, <3>1
  <2>10. CallInv'
    BY <2>1, <2>8, NoneInv
  <2>11. Core'
    BY <1>1, <1>3, <2>1, <2>2, <2>5, <2>8, <2>9, <2>10, PlanTypes, EntriesStay
  <2>12. PlanInv'
    <3>1. /\ \A a, b \in DOMAIN plan' : plan'[a] = plan'[b] => a = b
          /\ 3 \in DOMAIN plan' => plan'[3] \notin ldap.active
      BY <1>3, <2>1, <2>2, <2>3 DEF Selection
    <3>2. ldap.present \subseteq P \cup rest
      BY <2>1, <2>2 DEF Snapshot
    <3>3. queue' \cap (P \cup ldap.active) = {}
      BY <1>3, <2>1, <2>2, <2>4
    <3> QED BY <1>1, <1>3, <2>1, <2>6, <2>7, <2>8, <3>1, <3>2, <3>3 DEF PlanInv
  <2>13. SlotsInv'
    BY <2>8, <1>3 DEF SlotsInv
  <2>14. ExactInv'
    <3>1. SUFFICES ASSUME ~OtherHost
          PROVE  /\ P \subseteq ldap.present
                 /\ \A a, b \in DOMAIN three : a < b => ldap.rank[three[a]] > ldap.rank[three[b]]
      BY <1>1, <1>3, <2>6 DEF ExactInv
    <3>2. tree.present = ldap.present /\ tree.rank = ldap.rank
      BY <2>1, <3>1 DEF Snapshot
    <3> QED BY <2>2, <3>2
  <2> QED BY <2>11, <2>12, <2>13, <2>14, Joined DEF Slots
<1>4. \/ /\ phase' = "idle" /\ queue' = {} /\ UNCHANGED planVars
      \/ /\ ~Refused(ks, tree) /\ phase' = "prune"
         /\ queue' = rest
         /\ plan' = three /\ steps' = Planned(three, tree).steps
         /\ sources' = {tree.name[three[i]] :
                          i \in {j \in DOMAIN three :
                                   tree.name[three[j]] # Slot[j]}} \ SlotNames
  BY DEF Reorder
<1> QED BY <1>2, <1>3, <1>4

-----------------------------------------------------------------------------
(* Another host.                                                           *)

\* The removed entry is inactive: no other bears its name, and no step that is
\* under way goes there.
LEMMA VanishKeeps ==
  ASSUME CnameInv, Outside, NEW k \in Keys, Vanish(k)
  PROVE  CnameInv'
<1> DEFINE n == ldap.name[k]
<1>1. /\ OtherHost /\ k \in ldap.present \ ldap.active
      /\ ldap' = Dropped(ldap, k) /\ PutRecord(n, NoRecord)
      /\ waived' = waived \cup {k}
      /\ UNCHANGED <<tree, wildcard, phase, doing, queue>>
  BY DEF Vanish, runVars
<1>2. /\ ldap' \in Directory /\ ldap'.present = ldap.present \ {k}
      /\ ldap'.active = ldap.active /\ WellRanked(ldap') /\ WellNamed(ldap')
      /\ \A j \in Keys \ {k} : ldap'.name[j] = ldap.name[j]
  BY <1>1, GoneFacts
<1>3. n \in Names /\ \A j \in ldap'.present : ldap.name[j] # n /\ ldap.name[j] \in Names
  BY <1>1, <1>2, Fields DEF WellNamed
<1> HIDE DEF n
<1>4. /\ zone' \in [Names -> Names \cup {Tombstone, NoRecord}]
      /\ \A m \in Names \ {n} : zone'[m] = zone[m]
  BY <1>1, <1>3, PutFields
<1>5. \A j \in ldap'.present : /\ ldap'.name[j] = ldap.name[j]
                               /\ zone'[ldap'.name[j]] = zone[ldap.name[j]]
  BY <1>2, <1>3, <1>4, Fields
<1>6. \/ plan' = <<>> /\ steps' = <<>> /\ sources' = {} /\ Apart
      \/ UNCHANGED <<plan, steps, sources>>
  BY <1>1 DEF Outside, planVars, Apart, Reordering, Placed
<1>7. TypeOK'
  <2>1. /\ <<>> \in Plans /\ <<>> \in Seq([key : Keys, to : Names])
    BY DEF Plans
  <2>2. /\ plan' \in Plans /\ steps' \in Seq([key : Keys, to : Names])
        /\ sources' \subseteq Names \ SlotNames
    BY <1>6, <2>1, PlanTypes
  <2> QED BY <1>1, <1>2, <1>4, <2>2 DEF CnameInv, TypeOK
<1>8. EntriesInv'
  BY <1>2 DEF EntriesInv, WellNamed, WellRanked
<1>9. ActiveResolves'
  BY <1>1, <1>2, <1>5, Fields DEF CnameInv, ActiveResolves, WellNamed
<1>10. TreeInv'
  BY <1>1, <1>2, <1>5 DEF CnameInv, TreeInv, Snapshot, Running, WellNamed, WellRanked
<1>11. CallInv'
  <2>1. doing'.do = "enable" => \/ doing.key \in waived' \/ doing.key \notin ldap'.present
                                \/ zone'[ldap'.name[doing.key]] = doing.key
    BY <1>1, <1>2, <1>5 DEF CnameInv, CallInv
  <2> QED BY <1>1, <1>2, <2>1 DEF CnameInv, CallInv
<1>12. Slots'
  <2>1. CASE Apart
    <3>1. Apart'
      BY <1>1, <2>1, SamePhase
    <3> QED BY <3>1, ApartIsQuiet
  <2>2. CASE ~Apart
    <3>1. UNCHANGED <<plan, steps, sources>> /\ (Reordering \/ Placed)
          /\ (Reordering' <=> Reordering) /\ (Placed' <=> Placed)
      BY <1>1, <1>6, <2>2 DEF Apart, Reordering, Placed
    <3>2. PlannedKeys' = PlannedKeys
      BY <3>1 DEF PlannedKeys
    <3>3. StepsInv => StepsInv'
      <4>1. SUFFICES ASSUME StepsInv PROVE StepsInv'
        OBVIOUS
      <4> DEFINE S == PlannedKeys \cap ldap.present
                 T == PlannedKeys \cap ldap'.present
      <4>2. T \subseteq S /\ \A j \in T : ldap'.name[j] = ldap.name[j]
        BY <1>2, <1>5
      <4>3. Meant(plan, steps, ldap.active) /\ Free(steps, ldap.name, S)
            /\ Ends(plan, steps, ldap.name, S)
        BY <4>1 DEF StepsInv
      <4> HIDE DEF S, T
      <4>4. Meant(plan, steps, ldap.active) /\ Free(steps, ldap'.name, T)
            /\ Ends(plan, steps, ldap'.name, T)
        BY <4>2, <4>3, StepsStay
      <4> QED BY <1>2, <3>1, <3>2, <4>4 DEF StepsInv, T
    <3>4. doing.do = "rename" /\ Head(steps).to \in SlotNames =>
            zone'[Head(steps).to] = SlotContent(Head(steps).to)
      <4>1. SUFFICES ASSUME doing.do = "rename", Head(steps).to \in SlotNames
            PROVE  zone'[Head(steps).to] = SlotContent(Head(steps).to)
        OBVIOUS
      <4>2. phase = "rename" /\ steps # <<>>
            /\ zone[Head(steps).to] = SlotContent(Head(steps).to)
        BY <3>1, <4>1, InCall DEF CnameInv, PlanInv
      <4>3. Head(steps).to \in Names /\ Head(steps).to # n
        BY <1>1, <4>1, <4>2, FirstStepFacts DEF n
      <4> QED BY <1>4, <4>2, <4>3
    <3>5. PlanInv'
      <4>1. SlotContent(Head(steps).to)' = SlotContent(Head(steps).to)
        BY <3>1 DEF SlotContent
      <4>2. (doing.do = "rename" =>
               /\ steps # <<>> /\ doing.key = Head(steps).key
               /\ Head(steps).to \in SlotNames =>
                    zone[Head(steps).to] = SlotContent(Head(steps).to))'
        BY <1>1, <3>1, <3>4, <4>1 DEF CnameInv, PlanInv
      <4>3. /\ \A a, b \in DOMAIN plan : plan[a] = plan[b] => a = b
            /\ ldap.present \subseteq PlannedKeys \cup
                 IF phase = "prune"
                 THEN queue \cup {j \in {doing.key} : doing.do \in {"erase", "drop"}} ELSE {}
            /\ phase = "prune" =>
                 /\ queue \cap (PlannedKeys \cup ldap.active) = {}
                 /\ doing.do # "none" => doing.key \notin PlannedKeys
            /\ Reordering => /\ 3 \in DOMAIN plan => plan[3] \notin ldap.active
                             /\ StepsInv
        BY <3>1 DEF CnameInv, PlanInv
      <4>4. ldap'.present \subseteq ldap.present
        BY <1>2
      <4> QED BY <1>1, <1>2, <3>1, <3>2, <3>3, <4>2, <4>3, <4>4 DEF PlanInv
    <3>6. SlotsInv'
      <4>1. Placed => \A a \in DOMAIN plan : plan[a] \in ldap'.present =>
                        ldap'.name[plan[a]] = Slot[a] /\ zone'[Slot[a]] = zone[Slot[a]]
        BY <1>2, <1>5 DEF CnameInv, SlotsInv
      <4>2. phase \in {"activate", "slot2"} /\ 1 \in DOMAIN plan /\ plan[1] \in ldap'.present =>
              zone'["slot1"] = plan[1]
        BY <1>2, <4>1, SlotFacts DEF CnameInv, SlotsInv, Placed
      <4> QED BY <1>1, <1>2, <3>1, <4>1, <4>2 DEF CnameInv, SlotsInv
    <3>7. ExactInv'
      BY <1>1 DEF ExactInv
    <3> QED BY <3>5, <3>6, <3>7 DEF Slots
  <2> QED BY <2>1, <2>2
<1> QED BY <1>7, <1>8, <1>9, <1>10, <1>11, <1>12, Joined DEF Core

-----------------------------------------------------------------------------
(* The first state, every step, and the invariant.                         *)

\* As many entries as there are keys in a list without repetition.
LEMMA CountedOnce ==
  ASSUME NEW n \in Nat, NEW ks \in [1..n -> Keys],
         \A i, j \in 1..n : ks[i] = ks[j] => i = j
  PROVE  Cardinality({ks[i] : i \in 1..n}) = n
<1> DEFINE N == 1..n
           T == {ks[i] : i \in N}
<1>1. ks \in Bijection(N, T)
  BY DEF Bijection, Injection, Surjection, IsInjective
<1>2. ExistsBijection(N, T)
  <2> HIDE DEF N, T
  <2> QED BY <1>1 DEF ExistsBijection
<1> HIDE DEF T
<1>3. Cardinality(T) = n
  BY ONLY n \in Nat, <1>2, FS_CountingElements DEF N
<1> QED BY <1>3 DEF T

LEMMA InitHolds ==
  ASSUME Init
  PROVE  CnameInv
<1>1. PICK n \in 0..InitialKeys : \E ks \in [1..n -> Keys] :
     \E at \in [1..n -> Keys \cup SlotNames] : \E signer \in 0..n :
       /\ \A i, j \in 1..n : i # j => ks[i] # ks[j] /\ at[i] # at[j]
       /\ \A i \in 1..n : at[i] \in Keys => at[i] = ks[i]
       /\ ldap = [present |-> {ks[i] : i \in 1..n},
                  active |-> {ks[i] : i \in {signer} \ {0}},
                  revoked |-> {}, wild |-> {},
                  name |-> [k \in Keys |-> IF \E i \in 1..n : ks[i] = k
                              THEN at[CHOOSE i \in 1..n : ks[i] = k] ELSE k],
                  rank |-> [k \in Keys |-> IF \E i \in 1..n : ks[i] = k
                              THEN CHOOSE i \in 1..n : ks[i] = k ELSE 0],
                  age |-> [k \in Keys |-> 0], idle |-> [k \in Keys |-> 0]]
       /\ zone = [m \in Names |-> IF \E i \in {signer} \ {0} : at[i] = m
                                  THEN ks[signer] ELSE NoRecord]
  BY DEF Init
<1>2. PICK ks \in [1..n -> Keys], at \in [1..n -> Keys \cup SlotNames], signer \in 0..n :
       /\ \A i, j \in 1..n : i # j => ks[i] # ks[j] /\ at[i] # at[j]
       /\ \A i \in 1..n : at[i] \in Keys => at[i] = ks[i]
       /\ ldap = [present |-> {ks[i] : i \in 1..n},
                  active |-> {ks[i] : i \in {signer} \ {0}},
                  revoked |-> {}, wild |-> {},
                  name |-> [k \in Keys |-> IF \E i \in 1..n : ks[i] = k
                              THEN at[CHOOSE i \in 1..n : ks[i] = k] ELSE k],
                  rank |-> [k \in Keys |-> IF \E i \in 1..n : ks[i] = k
                              THEN CHOOSE i \in 1..n : ks[i] = k ELSE 0],
                  age |-> [k \in Keys |-> 0], idle |-> [k \in Keys |-> 0]]
       /\ zone = [m \in Names |-> IF \E i \in {signer} \ {0} : at[i] = m
                                  THEN ks[signer] ELSE NoRecord]
  BY <1>1
<1>3. /\ tree = ldap /\ wildcard = FALSE /\ phase = "idle" /\ doing = NoCall
      /\ queue = {} /\ plan = <<>> /\ steps = <<>> /\ sources = {}
  BY DEF Init
<1> DEFINE place(k) == CHOOSE i \in 1..n : ks[i] = k
           P == {ks[i] : i \in 1..n}
           A == {ks[i] : i \in {signer} \ {0}}
           names == [k \in Keys |-> IF \E i \in 1..n : ks[i] = k THEN at[place(k)] ELSE k]
           ranks == [k \in Keys |-> IF \E i \in 1..n : ks[i] = k THEN place(k) ELSE 0]
<1>4. n \in Nat /\ signer \in {0} \cup 1..n
  BY CnameAssumption
<1>5. \A i \in 1..n : place(ks[i]) = i /\ ks[i] \in Keys /\ at[i] \in Names
  <2>1. SUFFICES ASSUME NEW i \in 1..n PROVE place(ks[i]) = i
    BY ConstantFacts
  <2>2. \A j \in 1..n : ks[j] = ks[i] => j = i
    BY <1>2
  <2> QED BY <2>2
<1>6. /\ ldap.present = P /\ ldap.active = A /\ ldap.name = names /\ ldap.rank = ranks
      /\ ldap.revoked = {} /\ ldap.wild = {}
      /\ ldap.age = [k \in Keys |-> 0] /\ ldap.idle = [k \in Keys |-> 0]
      /\ ldap = [present |-> ldap.present, active |-> ldap.active,
                 revoked |-> ldap.revoked, wild |-> ldap.wild, name |-> ldap.name,
                 rank |-> ldap.rank, age |-> ldap.age, idle |-> ldap.idle]
  BY <1>2
<1> HIDE DEF place
<1>7. /\ \A i \in 1..n : names[ks[i]] = at[i] /\ ranks[ks[i]] = i
      /\ \A k \in Keys \ P : names[k] = k /\ ranks[k] = 0
  BY <1>5
<1>8. /\ P \subseteq Keys /\ A \subseteq P
      /\ names \in [Keys -> Names] /\ ranks \in [Keys -> Nat]
  <2>1. P \subseteq Keys /\ A \subseteq P
    BY <1>4, <1>5
  <2>2. \A k \in Keys : names[k] \in Names /\ ranks[k] \in Nat
    <3>1. TAKE k \in Keys
    <3>2. CASE k \in P
      <4>1. PICK i \in 1..n : k = ks[i]
        BY <3>2
      <4>2. i \in Nat
        BY <1>4
      <4> QED BY <1>5, <1>7, <4>1, <4>2
    <3>3. CASE k \notin P
      BY <1>7, <3>3, ConstantFacts
    <3> QED BY <3>2, <3>3
  <2> QED BY <2>1, <2>2
<1> HIDE DEF names, ranks
<1>9. ldap \in Directory
  <2>1. /\ ldap.present \subseteq Keys /\ ldap.active \subseteq Keys
        /\ ldap.revoked \subseteq Keys /\ ldap.wild \subseteq Keys
        /\ ldap.name \in [Keys -> Names] /\ ldap.rank \in [Keys -> Nat]
        /\ ldap.age \in [Keys -> Nat] /\ ldap.idle \in [Keys -> Nat]
    BY <1>6, <1>8
  <2> QED BY <1>6, <2>1 DEF Directory
<1>10. zone \in [Names -> Names \cup {Tombstone, NoRecord}]
  <2>1. signer # 0 => ks[signer] \in Names
    BY <1>4, <1>5, ConstantFacts
  <2> QED BY <1>2, <2>1
<1>11. TypeOK
  <2>1. <<>> \in Plans /\ <<>> \in Seq([key : Keys, to : Names])
    BY DEF Plans
  <2> QED BY <1>3, <1>9, <1>10, <2>1, NoCallFields DEF TypeOK, Phases
<1>12. EntriesInv
  <2>1. WellNamed(ldap)
    <3>1. \A k \in Keys : names[k] \in {k, Temporary} \cup SlotNames
      <4>1. TAKE k \in Keys
      <4>2. CASE k \in P
        <5>1. PICK i \in 1..n : k = ks[i]
          BY <4>2
        <5> QED BY <1>2, <1>7, <5>1
      <4>3. CASE k \notin P
        BY <1>7, <4>3
      <4> QED BY <4>2, <4>3
    <3>2. \A j, k \in P : names[j] = names[k] => j = k
      BY <1>2, <1>7
    <3> QED BY <1>6, <1>8, <3>1, <3>2 DEF WellNamed
  <2>2. WellRanked(ldap)
    <3>1. Cardinality(P) = n
      BY <1>2, <1>4, CountedOnce
    <3>2. \A k \in P : ranks[k] \in 1..n
      BY <1>7
    <3>3. \A j, k \in P : ranks[j] = ranks[k] => j = k
      BY <1>7
    <3> QED BY <1>6, <3>1, <3>2, <3>3 DEF WellRanked
  <2> QED BY <2>1, <2>2 DEF EntriesInv
<1>13. ActiveResolves
  <2>1. SUFFICES ASSUME NEW k \in A PROVE zone[names[k]] = k
    BY <1>6 DEF ActiveResolves
  <2>2. signer \in 1..n /\ k = ks[signer]
    BY <1>4
  <2>3. names[k] = at[signer] /\ at[signer] \in Names /\ signer \in {signer} \ {0}
    BY <1>5, <1>7, <2>2
  <2> QED BY <1>2, <2>2, <2>3
<1>14. TreeInv /\ CallInv
  BY <1>3, NoCallFields, CallsByPhase DEF TreeInv, CallInv, Running, Phases
<1>15. PlanInv /\ SlotsInv /\ ExactInv
  BY <1>3 DEF PlanInv, SlotsInv, ExactInv, Reordering, Placed
<1> QED BY <1>11, <1>12, <1>13, <1>14, <1>15 DEF CnameInv

LEMMA SharedKeeps ==
  ASSUME CnameInv, Shared
  PROVE  CnameInv'
<1>1. UNCHANGED planVars
  BY DEF Shared
<1>2. CASE CallStep
  <2>1. ~Publish /\ ~Clean
    BY InCall DEF Publish, Clean
  <2> QED BY <1>1, <1>2, <2>1, StoreKeeps, TestKeyKeeps, TestKeyPassesKeeps, EnableKeeps,
             DisableKeeps, RetireKeeps, BuryKeyKeeps, RevokeKeyKeeps, EraseKeeps,
             DropKeeps, EndCommandKeeps DEF CallStep
<1>3. CASE AutoStep
  BY <1>1, <1>3, ReconcileKeeps, DecideKeeps DEF AutoStep
<1> QED BY <1>2, <1>3 DEF Shared

LEMMA SlotStepKeeps ==
  ASSUME CnameInv, SlotStep
  PROVE  CnameInv'
BY ReorderKeeps, PruneKeeps, PlaceKeeps, RenameKeeps, RenamesKeeps, FirstSlotKeeps,
   SecondSlotKeeps, ActivateSlotKeeps, LastSlotKeeps, LeaveSourceKeeps, RetireLastKeeps,
   EndReorderKeeps DEF SlotStep

LEMMA OutsideKeeps ==
  ASSUME CnameInv, Outside
  PROVE  CnameInv'
<1>1. Around
  BY DEF Outside
<1> QED BY <1>1, RunAutoKeeps, CreateKeeps, TickKeeps, ConfigureKeeps, AbortKeeps,
           ActiveKeeps, DeleteKeeps, VanishKeeps DEF Around

LEMMA NextKeeps ==
  ASSUME CnameInv, [Next]_slotVars
  PROVE  CnameInv'
<1>1. CASE Next
  BY <1>1, SharedKeeps, SlotStepKeeps, OutsideKeeps DEF Next, RunStep
<1>2. CASE UNCHANGED slotVars
  <2>1. UNCHANGED <<ldap, tree, zone, wildcard, phase, doing, queue, waived, plan, steps,
                    sources>>
    BY <1>2 DEF slotVars, vars, runVars, historyVars, planVars
  <2>2. TypeOK' /\ EntriesInv' /\ TreeInv' /\ CallInv' /\ ActiveResolves'
    BY <2>1 DEF CnameInv, TypeOK, EntriesInv, TreeInv, CallInv, ActiveResolves, WellNamed,
       WellRanked, Snapshot, Running
  <2>3. PlannedKeys' = PlannedKeys /\ (Reordering' <=> Reordering) /\ (Placed' <=> Placed)
    BY <2>1 DEF PlannedKeys, Reordering, Placed
  <2>4. StepsInv => StepsInv'
    BY <2>1, <2>3 DEF StepsInv
  <2>5. SlotContent(Head(steps).to)' = SlotContent(Head(steps).to)
    BY <2>1 DEF SlotContent
  <2>6. PlanInv'
    BY <2>1, <2>3, <2>4, <2>5 DEF CnameInv, PlanInv
  <2>7. SlotsInv' /\ ExactInv'
    BY <2>1, <2>3 DEF CnameInv, SlotsInv, ExactInv
  <2> QED BY <2>2, <2>6, <2>7 DEF CnameInv
<1> QED BY <1>1, <1>2

\* The invariant of the lifecycle with static slots: the entries keep distinct
\* names and consecutive ranks, the snapshot of a command stays as near to them
\* as its calls need, and the steps left of a reorder can all be carried out.
THEOREM Invariance == Spec => []CnameInv
<1>1. Init => CnameInv
  BY InitHolds
<1>2. CnameInv /\ [Next]_slotVars => CnameInv'
  BY NextKeeps
<1> QED BY <1>1, <1>2, PTL DEF Spec

\* Entries, snapshot, zone and the plan of a reorder keep their types: a name
\* is that of a key, a slot or the temporary one, and a plan has three keys at
\* most.
THEOREM TypeCorrectness == Spec => []TypeOK
<1>1. CnameInv => TypeOK
  BY DEF CnameInv
<1> QED BY <1>1, Invariance, PTL

\* At every moment, in the middle of renames too and wherever a run stopped,
\* an active key that the operator did not enable blindly has its record at
\* the name it bears.
THEOREM ActiveKeyResolves == Spec => []ActiveResolves
<1>1. CnameInv => ActiveResolves
  BY DEF CnameInv
<1> QED BY <1>1, Invariance, PTL

-----------------------------------------------------------------------------
(* The end of a reorder.                                                   *)

\* Three descending ranks at most, and all of them: the plan is the order of
\* the entries from newest to oldest.
LEMMA PlanIsNewestFirst ==
  ASSUME NEW d \in Directory, NEW ks \in Plans, WellRanked(d),
         d.present = {ks[a] : a \in DOMAIN ks},
         \A a, b \in DOMAIN ks : ks[a] = ks[b] => a = b,
         \A a, b \in DOMAIN ks : a < b => d.rank[ks[a]] > d.rank[ks[b]]
  PROVE  DOMAIN NewestFirst(d) = DOMAIN ks /\ \A i \in DOMAIN ks : NewestFirst(d)[i] = ks[i]
<1>1. PICK n \in 0..3 : ks \in [1..n -> Keys]
  BY DEF Plans
<1>2. DOMAIN ks = 1..n /\ n \in Nat
  BY <1>1
<1>3. Cardinality(d.present) = n
  <2>1. \A i, j \in 1..n : ks[i] = ks[j] => i = j
    BY <1>2
  <2>2. Cardinality({ks[i] : i \in 1..n}) = n
    BY <1>1, <1>2, <2>1, CountedOnce
  <2> QED BY <1>2, <2>2
<1> DEFINE new == NewestFirst(d)
<1>4. /\ DOMAIN new = 1..n
      /\ \A i \in 1..n : new[i] \in d.present /\ d.rank[new[i]] = n + 1 - i
  BY <1>3, NewestFirstFacts
<1> HIDE DEF new
<1>5. \A i \in 1..n : d.rank[ks[i]] \in 1..n
  BY <1>2, <1>3 DEF WellRanked
<1>6. \A i \in 1..n : d.rank[ks[i]] = n + 1 - i
  <2> DEFINE r(i) == d.rank[ks[i]]
  <2>1. /\ \A i \in 1..n : r(i) \in 1..n
        /\ \A i, j \in 1..n : i < j => r(i) > r(j)
    BY <1>2, <1>5
  <2> HIDE DEF r
  <2>2. CASE n = 0
    BY <2>2
  <2>3. CASE n = 1
    <3>1. r(1) \in 1..1
      BY <2>1, <2>3
    <3> QED BY <2>3, <3>1 DEF r
  <2>4. CASE n = 2
    <3>1. r(1) \in 1..2 /\ r(2) \in 1..2 /\ r(1) > r(2)
      BY <2>1, <2>4
    <3>2. r(1) = 2 /\ r(2) = 1
      BY <3>1
    <3> QED BY <2>4, <3>2 DEF r
  <2>5. CASE n = 3
    <3>1. /\ r(1) \in 1..3 /\ r(2) \in 1..3 /\ r(3) \in 1..3
          /\ r(1) > r(2) /\ r(2) > r(3)
      BY <2>1, <2>5
    <3>2. r(1) = 3 /\ r(2) = 2 /\ r(3) = 1
      BY <3>1
    <3> QED BY <2>5, <3>2 DEF r
  <2> QED BY <1>1, <2>2, <2>3, <2>4, <2>5
<1>7. \A i \in 1..n : new[i] = ks[i]
  <2>1. \A i \in 1..n : ks[i] \in d.present
    BY <1>2
  <2> QED BY <1>4, <1>6, <2>1 DEF WellRanked
<1> QED BY <1>2, <1>4, <1>7 DEF new

\* Where a reorder waits for its last call the slots are as they should be.
LastReconciled == phase = "last" => Reconciled

LEMMA LastIsReconciled ==
  ASSUME CnameInv, ~OtherHost
  PROVE  LastReconciled
<1>1. SUFFICES ASSUME phase = "last" PROVE Reconciled
  BY DEF LastReconciled
<1>2. Placed /\ ~Reordering
  BY <1>1 DEF Placed, Reordering
<1>3. /\ \A a, b \in DOMAIN plan : plan[a] = plan[b] => a = b
      /\ ldap.present \subseteq PlannedKeys
      /\ \A a \in DOMAIN plan : plan[a] \in ldap.present => ldap.name[plan[a]] = Slot[a]
  BY <1>1, <1>2 DEF CnameInv, PlanInv, SlotsInv
<1>4. /\ PlannedKeys \subseteq ldap.present
      /\ \A a, b \in DOMAIN plan : a < b => ldap.rank[plan[a]] > ldap.rank[plan[b]]
      /\ zone["slot1"] = IF 1 \in DOMAIN plan THEN plan[1] ELSE NoRecord
      /\ zone["slot2"] = IF 2 \in DOMAIN plan THEN plan[2] ELSE NoRecord
      /\ zone["slot3"] = Tombstone
      /\ ldap.active = {plan[a] : a \in DOMAIN plan \cap {1}}
  BY <1>1, <1>2 DEF CnameInv, ExactInv
<1>5. ldap.present = {plan[a] : a \in DOMAIN plan}
  BY <1>3, <1>4 DEF PlannedKeys
<1> DEFINE ks == NewestFirst(ldap)
<1>6. DOMAIN ks = DOMAIN plan /\ \A i \in DOMAIN plan : ks[i] = plan[i]
  BY <1>3, <1>4, <1>5, Fields, PlanTypes, PlanIsNewestFirst
<1> HIDE DEF ks
<1>7. DOMAIN plan \subseteq {1, 2, 3}
  BY PlanTypes
<1>8. \A i \in DOMAIN ks : ldap.name[ks[i]] = Slot[i]
  BY <1>3, <1>5, <1>6
<1>9. ldap.active = {ks[i] : i \in DOMAIN ks \cap {1}}
  BY <1>4, <1>6
<1>10. \A i \in {1, 2} : zone[Slot[i]] = IF i \in DOMAIN ks THEN ks[i] ELSE NoRecord
  BY <1>4, <1>6, SlotFacts
<1> QED BY <1>4, <1>6, <1>7, <1>8, <1>9, <1>10, SlotFacts DEF Reconciled, ks

\* A step from there stays, ends the reorder without a write, or fails.
LEMMA LastSteps ==
  ASSUME CnameInv, Next, phase = "last"
  PROVE  \/ phase' = "last" \/ outcome' = "failed"
         \/ UNCHANGED <<ldap, zone>>
<1>1. CASE Shared
  <2>1. CASE CallStep
    <3>1. CASE Store \/ Publish \/ TestKey \/ TestKeyPasses \/ Retire \/ BuryKey \/ Clean
               \/ Erase \/ Drop
      BY <3>1 DEF Store, Publish, TestKey, TestKeyPasses, Retire, BuryKey, Clean, Erase,
         Drop
    <3>2. CASE Enable \/ RevokeKey
      BY <3>2 DEF Enable, RevokeKey, Write
    <3>3. CASE Disable
      BY <3>3 DEF Disable, Write
    <3>4. CASE EndCommand
      BY <3>4 DEF EndCommand
    <3> QED BY <2>1, <3>1, <3>2, <3>3, <3>4 DEF CallStep
  <2>2. CASE AutoStep
    BY <2>2 DEF AutoStep, Reconcile, AddNew, AddMissing, Rotate, Decide
  <2> QED BY <1>1, <2>1, <2>2 DEF Shared
<1>2. CASE SlotStep
  <2>1. doing.do # "rename"
    BY InCall
  <2>2. CASE EndReorder
    BY <2>2 DEF EndReorder, Same, SameRecords
  <2> QED BY <1>2, <2>1, <2>2 DEF SlotStep, Reorder, Prune, Place, Rename, Renames,
             LiveSlot, ActivateSlot, LastSlot, LeaveSource, RetireLast
<1>3. CASE Outside
  <2>1. Around
    BY <1>3 DEF Outside
  <2>2. CASE \E k \in Keys : Active(k) \/ Delete(k) \/ Vanish(k)
    BY <2>2 DEF Active, Delete, Vanish, Command, Forced, Begin, runVars
  <2>3. CASE RunAuto \/ Create \/ Tick \/ Configure \/ Abort
    BY <2>3 DEF RunAuto, Create, Tick, Configure, Abort, Command, Begin
  <2> QED BY <2>1, <2>2, <2>3 DEF Around
<1> QED BY <1>1, <1>2, <1>3 DEF Next, RunStep

\* A reorder that completes leaves the slots as the table has them, unless
\* another host removes selectors meanwhile.
THEOREM ReorderReconciles ==
  ASSUME ~OtherHost
  PROVE  Spec => CompletedReorderReconciles
<1>1. CnameInv => LastReconciled
  BY LastIsReconciled
<1>2. CnameInv /\ LastReconciled /\ LastReconciled' /\ [Next]_slotVars
        => [phase = "last" /\ outcome' = "completed" => Reconciled']_slotVars
  <2>1. SUFFICES ASSUME CnameInv, LastReconciled, LastReconciled', Next,
                        phase = "last", outcome' = "completed"
                 PROVE  Reconciled'
    OBVIOUS
  <2>2. phase' = "last" \/ UNCHANGED <<ldap, zone>>
    BY <2>1, LastSteps
  <2>3. CASE phase' = "last"
    BY <2>1, <2>3 DEF LastReconciled
  <2>4. CASE UNCHANGED <<ldap, zone>>
    BY <2>1, <2>4 DEF LastReconciled, Reconciled
  <2> QED BY <2>2, <2>3, <2>4
<1> QED BY <1>1, <1>2, Invariance, PTL DEF Spec, CompletedReorderReconciles
=============================================================================
