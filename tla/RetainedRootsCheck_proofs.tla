---------------------- MODULE RetainedRootsCheck_proofs ----------------------
(***************************************************************************)
(* Proofs about the readers of the root index for slices of any length:    *)
(* the loop over the sorted copy computes the shape rules, all readers     *)
(* agree, and staging and purging keep what they accept.                   *)
(***************************************************************************)
EXTENDS RetainedRootsCheck, FiniteSetTheorems, SequenceTheorems, TLAPS

\* Unlike GenerationRoot, which bounds the numbers for TLC.
AnyRoot == [number : Nat, schema : Schemas \cup {"other"}, state : RootStates]
Slices == Seq(AnyRoot)

\* What is known of a slice and its roots.
LEMMA SliceFacts ==
  ASSUME NEW rs \in Slices
  PROVE  /\ Len(rs) \in Nat /\ DOMAIN rs = 1..Len(rs) /\ DOMAIN rs \subseteq Nat
         /\ \A i \in DOMAIN rs : /\ rs[i] \in AnyRoot /\ rs[i].number \in Nat
                                 /\ rs[i].schema \in Schemas \cup {"other"}
                                 /\ rs[i].state \in RootStates
         /\ rs # <<>> <=> DOMAIN rs # {}
<1>1. /\ Len(rs) \in Nat /\ DOMAIN rs = 1..Len(rs)
      /\ \A i \in DOMAIN rs : rs[i] \in AnyRoot
  BY LenProperties, ElementOfSeq DEF Slices
<1>2. rs = <<>> <=> Len(rs) = 0
  BY EmptySeq DEF Slices
<1>3. rs # <<>> <=> DOMAIN rs # {}
  BY <1>1, <1>2
<1> QED BY <1>1, <1>3 DEF AnyRoot

-----------------------------------------------------------------------------
(* The sorted copy.                                                        *)

Precedes(rs, i, j) ==
  \/ rs[i].number < rs[j].number
  \/ rs[i].number = rs[j].number /\ i < j

\* The order of the copy is total, and the places before a root grow with it.
LEMMA PrecedesIsTotal ==
  ASSUME NEW rs \in Slices, NEW i \in DOMAIN rs, NEW j \in DOMAIN rs
  PROVE  /\ i # j => Precedes(rs, i, j) \/ Precedes(rs, j, i)
         /\ Precedes(rs, i, j) =>
              /\ UpTo(rs, i) \subseteq UpTo(rs, j) /\ j \notin UpTo(rs, i)
              /\ rs[i].number <= rs[j].number
         /\ i \in UpTo(rs, i)
<1>1. /\ \A k \in DOMAIN rs : rs[k].number \in Nat /\ k \in Nat
  BY SliceFacts
<1>2. i # j => Precedes(rs, i, j) \/ Precedes(rs, j, i)
  BY <1>1 DEF Precedes
<1>3. ASSUME Precedes(rs, i, j)
      PROVE  /\ UpTo(rs, i) \subseteq UpTo(rs, j) /\ j \notin UpTo(rs, i)
             /\ rs[i].number <= rs[j].number
  BY <1>1, <1>3 DEF Precedes, UpTo
<1> QED BY <1>1, <1>2, <1>3 DEF UpTo

\* The place of a root in the sorted copy.
Place(rs, i) == Cardinality(UpTo(rs, i))

\* Every root has a place among 1..Len(rs).
LEMMA PlacesAreNumbers ==
  ASSUME NEW rs \in Slices
  PROVE  \A i \in DOMAIN rs : IsFiniteSet(UpTo(rs, i)) /\ Place(rs, i) \in DOMAIN rs
<1>1. Len(rs) \in Nat /\ DOMAIN rs = 1..Len(rs)
  BY SliceFacts
<1>2. IsFiniteSet(1..Len(rs)) /\ Cardinality(1..Len(rs)) = Len(rs)
  <2>1. 1 \in Int /\ Len(rs) \in Int
    BY <1>1
  <2>2. /\ IsFiniteSet(1..Len(rs))
        /\ Cardinality(1..Len(rs)) = IF 1 > Len(rs) THEN 0 ELSE Len(rs) - 1 + 1
    BY ONLY <2>1, FS_Interval
  <2>3. Cardinality(1..Len(rs)) = Len(rs)
    BY <1>1, <2>2
  <2> QED BY <2>2, <2>3
<1>3. TAKE i \in DOMAIN rs
<1>4. UpTo(rs, i) \subseteq 1..Len(rs) /\ i \in UpTo(rs, i)
  BY <1>1, PrecedesIsTotal DEF UpTo
<1>5. IsFiniteSet(UpTo(rs, i)) /\ Cardinality(UpTo(rs, i)) <= Len(rs)
  BY <1>2, <1>4, FS_Subset
<1>6. Cardinality(UpTo(rs, i)) \in Nat /\ Cardinality(UpTo(rs, i)) # 0
  BY <1>4, <1>5, FS_CardinalityType, FS_EmptySet
<1> QED BY <1>1, <1>5, <1>6 DEF Place

\* No two roots have one place, and places follow the order.
LEMMA PlacesOrdered ==
  ASSUME NEW rs \in Slices, NEW i \in DOMAIN rs, NEW j \in DOMAIN rs
  PROVE  /\ Precedes(rs, i, j) => Place(rs, i) < Place(rs, j)
         /\ Place(rs, i) = Place(rs, j) => i = j
         /\ Place(rs, i) < Place(rs, j) => rs[i].number <= rs[j].number
<1>1. ASSUME NEW k \in DOMAIN rs, NEW l \in DOMAIN rs, Precedes(rs, k, l)
      PROVE  Place(rs, k) < Place(rs, l)
  <2>1. /\ UpTo(rs, k) \subseteq UpTo(rs, l) /\ UpTo(rs, k) # UpTo(rs, l)
    BY <1>1, PrecedesIsTotal
  <2>2. IsFiniteSet(UpTo(rs, k)) /\ IsFiniteSet(UpTo(rs, l))
    BY PlacesAreNumbers
  <2>3. Place(rs, k) \in Nat /\ Place(rs, l) \in Nat
    BY PlacesAreNumbers, SliceFacts
  <2>4. /\ Cardinality(UpTo(rs, k)) <= Cardinality(UpTo(rs, l))
        /\ Cardinality(UpTo(rs, k)) = Cardinality(UpTo(rs, l)) =>
             UpTo(rs, k) = UpTo(rs, l)
    BY <2>1, <2>2, FS_Subset
  <2> QED BY <2>1, <2>3, <2>4 DEF Place
<1>2. Place(rs, i) \in Nat /\ Place(rs, j) \in Nat
  BY PlacesAreNumbers, SliceFacts
<1>3. i # j => Precedes(rs, i, j) \/ Precedes(rs, j, i)
  BY PrecedesIsTotal
<1>4. Place(rs, i) = Place(rs, j) => i = j
  BY <1>1, <1>2, <1>3
<1>5. ASSUME Place(rs, i) < Place(rs, j) PROVE rs[i].number <= rs[j].number
  <2>1. i # j /\ ~Precedes(rs, j, i)
    BY <1>1, <1>2, <1>5
  <2> QED BY <1>3, <2>1, PrecedesIsTotal
<1> QED BY <1>1, <1>4, <1>5

\* The copy is a permutation of the slice, sorted by number.
LEMMA Sorted ==
  ASSUME NEW rs \in Slices
  PROVE  \E p \in [DOMAIN rs -> DOMAIN rs] :
           /\ ByNumber(rs) = [n \in DOMAIN rs |-> rs[p[n]]]
           /\ \A i \in DOMAIN rs : \E n \in DOMAIN rs : p[n] = i
           /\ \A m, n \in DOMAIN rs : p[m] = p[n] => m = n
           /\ \A m, n \in DOMAIN rs : m < n => rs[p[m]].number <= rs[p[n]].number
<1> DEFINE D == DOMAIN rs
           f == [i \in D |-> Place(rs, i)]
           p == [n \in D |-> CHOOSE i \in D : Cardinality(UpTo(rs, i)) = n]
<1>1. f \in Injection(D, D)
  <2>1. f \in [D -> D]
    BY PlacesAreNumbers
  <2>2. \A i, j \in D : f[i] = f[j] => i = j
    BY PlacesOrdered
  <2> HIDE DEF f, D
  <2> QED BY <2>1, <2>2 DEF Injection, IsInjective
<1>2. f \in Surjection(D, D)
  <2>1. IsFiniteSet(D)
    BY SliceFacts, FS_Interval
  <2> HIDE DEF f, D
  <2> QED BY <1>1, <2>1, FS_Injection
<1>3. \A n \in D : \E i \in D : Place(rs, i) = n
  <2>1. \A n \in D : \E i \in D : f[i] = n
    <3> HIDE DEF f, D
    <3> QED BY <1>2 DEF Surjection
  <2> QED BY <2>1
<1>4. \A n \in D : p[n] \in D /\ Place(rs, p[n]) = n
  <2>1. TAKE n \in D
  <2>2. \E i \in D : Cardinality(UpTo(rs, i)) = n
    BY <1>3 DEF Place
  <2>3. p[n] = CHOOSE i \in D : Cardinality(UpTo(rs, i)) = n
    OBVIOUS
  <2> HIDE DEF p, D
  <2> QED BY <2>2, <2>3 DEF Place
<1>5. p \in [D -> D]
  BY <1>4
<1>6. ByNumber(rs) = [n \in D |-> rs[p[n]]]
  BY DEF ByNumber
<1> HIDE DEF p
<1>7. \A i \in D : \E n \in D : p[n] = i
  <2>1. TAKE i \in D
  <2>2. Place(rs, i) \in D
    BY PlacesAreNumbers
  <2>3. p[Place(rs, i)] \in D /\ Place(rs, p[Place(rs, i)]) = Place(rs, i)
    BY <1>4, <2>2
  <2>4. p[Place(rs, i)] = i
    BY <2>3, PlacesOrdered
  <2> QED BY <2>2, <2>4
<1>8. \A m, n \in D : p[m] = p[n] => m = n
  BY <1>4
<1>9. \A m, n \in D : m < n => rs[p[m]].number <= rs[p[n]].number
  <2>1. SUFFICES ASSUME NEW m \in D, NEW n \in D, m < n
                 PROVE  rs[p[m]].number <= rs[p[n]].number
    OBVIOUS
  <2>2. /\ p[m] \in DOMAIN rs /\ p[n] \in DOMAIN rs
        /\ Place(rs, p[m]) < Place(rs, p[n])
    BY <1>4, <2>1
  <2> QED BY <2>2, PlacesOrdered
<1> QED BY <1>5, <1>6, <1>7, <1>8, <1>9

-----------------------------------------------------------------------------
(* What the pass over the sorted copy accepts, without the order.          *)

NextRoot(rs, i, j) ==
  /\ rs[i].number < rs[j].number
  /\ \A k \in DOMAIN rs :
       ~(rs[i].number < rs[k].number /\ rs[k].number < rs[j].number)

Shape(rs) ==
  /\ rs # <<>> /\ Unique(rs)
  /\ \A i \in DOMAIN rs : RootAllowed(rs[i])
  /\ \A i, j \in DOMAIN rs : NextRoot(rs, i, j) => Follows(rs[i], rs[j])

\* The loop compares neighbours only: with the copy sorted, that excludes
\* duplicates and examines exactly the pairs with no number between them.
LEMMA ValidIsShape ==
  ASSUME NEW rs \in Slices
  PROVE  ValidRetainedRoots(rs) <=> Shape(rs)
<1> DEFINE D == DOMAIN rs
           num(i) == rs[i].number
<1>1. PICK p \in [D -> D] :
        /\ ByNumber(rs) = [n \in D |-> rs[p[n]]]
        /\ \A i \in D : \E n \in D : p[n] = i
        /\ \A m, n \in D : p[m] = p[n] => m = n
        /\ \A m, n \in D : m < n => num(p[m]) <= num(p[n])
  BY Sorted
<1>2. /\ D = 1..Len(rs) /\ Len(rs) \in Nat
      /\ \A i \in D : i \in Nat /\ num(i) \in Nat
      /\ \A n \in D : n > 1 => n - 1 \in D
  BY SliceFacts
<1>3. ValidRetainedRoots(rs) <=>
        /\ rs # <<>>
        /\ \A n \in D : RootAllowed(rs[p[n]])
        /\ \A n \in D : n > 1 => Follows(rs[p[n - 1]], rs[p[n]])
  <2>1. \A n \in D : ByNumber(rs)[n] = rs[p[n]]
    BY <1>1
  <2>2. DOMAIN ByNumber(rs) = D
    BY <1>1
  <2>3. \A n \in D : n > 1 => ByNumber(rs)[n - 1] = rs[p[n - 1]]
    BY <1>2, <2>1
  <2> HIDE DEF D
  <2> QED BY <2>1, <2>2, <2>3 DEF ValidRetainedRoots
<1>4. (\A n \in D : RootAllowed(rs[p[n]])) <=> \A i \in D : RootAllowed(rs[i])
  BY <1>1
<1> HIDE DEF D
<1>7. \A n \in D : p[n] \in D /\ num(p[n]) \in Nat
  BY <1>1, <1>2
<1>5. ASSUME ValidRetainedRoots(rs) PROVE Shape(rs)
  <2>1. \A n \in D : n > 1 => num(p[n - 1]) < num(p[n])
    BY <1>1, <1>2, <1>3, <1>5 DEF Follows
  <2>2. \A m, n \in D : m < n => num(p[m]) < num(p[n])
    <3>1. SUFFICES ASSUME NEW m \in D, NEW n \in D, m < n
                   PROVE  num(p[m]) < num(p[n])
      OBVIOUS
    <3>2. n > 1 /\ n - 1 \in D /\ (m = n - 1 \/ m < n - 1)
      BY <1>2, <3>1
    <3>3. num(p[n - 1]) < num(p[n]) /\ num(p[m]) <= num(p[n - 1])
      <4>1. num(p[n - 1]) < num(p[n])
        BY <2>1, <3>2
      <4>2. m < n - 1 => num(p[m]) <= num(p[n - 1])
        BY <1>1, <3>2
      <4>3. num(p[n - 1]) \in Nat
        BY <1>7, <3>2
      <4> HIDE DEF num
      <4>4. num(p[n - 1]) <= num(p[n - 1])
        BY <4>3
      <4> QED BY <3>2, <4>1, <4>2, <4>4
    <3>4. num(p[m]) \in Nat /\ num(p[n - 1]) \in Nat /\ num(p[n]) \in Nat
      BY <1>1, <1>2, <3>2
    <3> HIDE DEF num
    <3> QED BY <3>3, <3>4
  <2>3. Unique(rs)
    <3>1. \A i, j \in D : num(i) = num(j) => i = j
      <4>1. SUFFICES ASSUME NEW m \in D, NEW n \in D, num(p[m]) = num(p[n])
                     PROVE  m = n
        BY <1>1
      <4>2. num(p[m]) \in Nat /\ num(p[n]) \in Nat
        BY <1>1, <1>2
      <4>3. ~(m < n) /\ ~(n < m)
        BY <2>2, <4>1, <4>2
      <4> QED BY <1>2, <4>3
    <3> QED BY <3>1 DEF Unique, D
  <2>4. ASSUME NEW i \in D, NEW j \in D, NextRoot(rs, i, j)
        PROVE  Follows(rs[i], rs[j])
    <3>1. PICK m \in D : p[m] = i
      BY <1>1
    <3>2. PICK n \in D : p[n] = j
      BY <1>1
    <3>3. num(p[m]) < num(p[n])
      BY <2>4, <3>1, <3>2 DEF NextRoot
    <3>4. num(p[m]) \in Nat /\ num(p[n]) \in Nat
      BY <1>1, <1>2
    <3>5. m < n
      <4>1. ~(n < m) /\ m # n
        BY <2>2, <3>3, <3>4
      <4> QED BY <1>2, <4>1
    <3>6. n > 1 /\ n - 1 \in D /\ p[n - 1] \in D /\ n - 1 < n
      <4>1. n > 1 /\ n - 1 \in D /\ n - 1 < n
        BY <1>2, <3>5
      <4> QED BY <1>7, <4>1
    <3>7. ~(m < n - 1)
      <4>1. ~(num(p[m]) < num(p[n - 1]) /\ num(p[n - 1]) < num(p[n]))
        BY <2>4, <3>1, <3>2, <3>6 DEF NextRoot, D
      <4> QED BY <2>2, <3>6, <4>1
    <3>8. m = n - 1
      BY <1>2, <3>5, <3>7
    <3> QED BY <1>3, <1>5, <3>1, <3>2, <3>6, <3>8
  <2> QED BY <1>3, <1>4, <1>5, <2>3, <2>4 DEF Shape, D
<1>6. ASSUME Shape(rs) PROVE ValidRetainedRoots(rs)
  <2>1. ASSUME NEW n \in D, n > 1 PROVE Follows(rs[p[n - 1]], rs[p[n]])
    <3>1. n - 1 \in D /\ p[n - 1] \in D /\ p[n] \in D /\ n - 1 # n /\ n - 1 < n
      <4>1. n - 1 \in D /\ n - 1 # n /\ n - 1 < n
        BY <1>2, <2>1
      <4> QED BY <1>7, <4>1
    <3>2. num(p[n - 1]) # num(p[n])
      BY <1>1, <1>6, <3>1 DEF Shape, Unique, D
    <3>3. num(p[n - 1]) < num(p[n])
      <4>1. num(p[n - 1]) <= num(p[n])
        BY <1>1, <3>1
      <4>2. num(p[n - 1]) \in Nat /\ num(p[n]) \in Nat
        BY <1>2, <3>1
      <4> HIDE DEF num
      <4> QED BY <3>2, <4>1, <4>2
    <3>4. ASSUME NEW k \in D
          PROVE  ~(num(p[n - 1]) < num(k) /\ num(k) < num(p[n]))
      <4>1. PICK q \in D : p[q] = k
        BY <1>1
      <4>2. /\ num(k) \in Nat /\ num(p[n - 1]) \in Nat /\ num(p[n]) \in Nat
        BY <1>2, <3>1
      <4>3. q < n - 1 \/ q = n - 1 \/ q = n \/ n < q
        BY <1>2, <2>1
      <4>4. q < n - 1 => num(k) <= num(p[n - 1])
        BY <1>1, <3>1, <4>1
      <4>5. n < q => num(p[n]) <= num(k)
        BY <1>1, <4>1
      <4> HIDE DEF num
      <4> QED BY <4>1, <4>2, <4>3, <4>4, <4>5
    <3>5. NextRoot(rs, p[n - 1], p[n])
      BY <3>3, <3>4 DEF NextRoot, D
    <3> QED BY <1>6, <3>1, <3>5 DEF Shape, D
  <2> QED BY <1>3, <1>4, <1>6, <2>1 DEF Shape, D
<1> QED BY <1>5, <1>6

-----------------------------------------------------------------------------
(* The index as a set.                                                     *)

\* Without duplicates the set of numbers and the two maps lose nothing.
LEMMA IndexFacts ==
  ASSUME NEW rs \in Slices, Unique(rs)
  PROVE  /\ \A i \in DOMAIN rs : /\ rs[i].number \in Numbers(rs)
                                 /\ SchemaOf(rs)[rs[i].number] = rs[i].schema
                                 /\ StateOf(rs)[rs[i].number] = rs[i].state
         /\ \A n \in Numbers(rs) : \E i \in DOMAIN rs : rs[i].number = n
         /\ Numbers(rs) = {} <=> rs = <<>>
<1>1. /\ \A i \in DOMAIN rs : rs[i].number \in Numbers(rs)
      /\ \A n \in Numbers(rs) : \E i \in DOMAIN rs : rs[i].number = n
  BY DEF Numbers
<1>2. ASSUME NEW i \in DOMAIN rs PROVE RootOf(rs, rs[i].number) = rs[i]
  <2> DEFINE R == {rs[k] : k \in DOMAIN rs}
  <2>1. rs[i] \in R /\ rs[i].number = rs[i].number
    OBVIOUS
  <2>2. \A r \in R : r.number = rs[i].number => r = rs[i]
    BY DEF Unique
  <2> HIDE DEF R
  <2>3. (CHOOSE r \in R : r.number = rs[i].number) = rs[i]
    BY <2>1, <2>2
  <2> QED BY <2>3 DEF RootOf, R
<1>3. ASSUME NEW i \in DOMAIN rs
      PROVE  /\ SchemaOf(rs)[rs[i].number] = rs[i].schema
             /\ StateOf(rs)[rs[i].number] = rs[i].state
  BY <1>1, <1>2 DEF SchemaOf, StateOf
<1>4. Numbers(rs) = {} <=> rs = <<>>
  BY <1>1, SliceFacts
<1> QED BY <1>1, <1>3, <1>4

\* The two halves of the shape rules, over the slice and over the set.
RootsAllowed(rs) == \A i \in DOMAIN rs : RootAllowed(rs[i])
RootsFollow(rs) ==
  \A i, j \in DOMAIN rs : NextRoot(rs, i, j) => Follows(rs[i], rs[j])
NumbersAllowed(P, schema) ==
  \A n \in P : /\ n > 0 /\ schema[n] \in Schemas
               /\ schema[n] = "v1" => n = 1
NumbersFollow(P, schema) ==
  \A a, b \in P : Successor(P, a, b) =>
    /\ schema[a] = "v3" => schema[b] = "v3"
    /\ b = a + 1 \/ (schema[a] \in LegacySchemas /\ schema[b] = "v3")

\* LegalShape by its halves.
LEMMA LegalParts ==
  ASSUME NEW P, NEW schema
  PROVE  LegalShape(P, schema) <=>
           P # {} /\ NumbersAllowed(P, schema) /\ NumbersFollow(P, schema)
BY DEF LegalShape, NumbersAllowed, NumbersFollow

\* The rules over the slice are those over the set.
LEMMA ShapeIsLegal ==
  ASSUME NEW rs \in Slices
  PROVE  Shape(rs) <=> Unique(rs) /\ LegalShape(Numbers(rs), SchemaOf(rs))
<1> SUFFICES ASSUME Unique(rs)
             PROVE  Shape(rs) <=> LegalShape(Numbers(rs), SchemaOf(rs))
  BY DEF Shape
<1> DEFINE P == Numbers(rs)
           schema == SchemaOf(rs)
<1>1. /\ \A i \in DOMAIN rs : rs[i].number \in P /\ schema[rs[i].number] = rs[i].schema
      /\ \A n \in P : \E i \in DOMAIN rs : rs[i].number = n
      /\ P = {} <=> rs = <<>>
  BY IndexFacts
<1>2. \A i \in DOMAIN rs : rs[i].number \in Nat
  BY SliceFacts
<1>3. \A i \in DOMAIN rs : RootAllowed(rs[i]) <=>
        /\ rs[i].number > 0 /\ rs[i].schema \in Schemas
        /\ rs[i].schema = "v1" => rs[i].number = 1
  BY <1>2 DEF RootAllowed, Schemas, LegacySchemas
<1>4. \A i, j \in DOMAIN rs :
        NextRoot(rs, i, j) <=> Successor(P, rs[i].number, rs[j].number)
  BY <1>1 DEF NextRoot, Successor
<1>5. \A i, j \in DOMAIN rs :
        NextRoot(rs, i, j) /\ RootAllowed(rs[i]) /\ RootAllowed(rs[j]) =>
          ( Follows(rs[i], rs[j]) <=>
            /\ rs[i].schema = "v3" => rs[j].schema = "v3"
            /\ \/ rs[j].number = rs[i].number + 1
               \/ rs[i].schema \in LegacySchemas /\ rs[j].schema = "v3" )
  BY <1>2 DEF NextRoot, RootAllowed, Follows, LegacySchemas
<1> HIDE DEF P, schema
<1>6. RootsAllowed(rs) <=> NumbersAllowed(P, schema)
  <2>1. ASSUME RootsAllowed(rs) PROVE NumbersAllowed(P, schema)
    <3>1. SUFFICES ASSUME NEW n \in P
                   PROVE  /\ n > 0 /\ schema[n] \in Schemas
                          /\ schema[n] = "v1" => n = 1
      BY DEF NumbersAllowed
    <3>2. PICK i \in DOMAIN rs : rs[i].number = n
      BY <1>1
    <3> QED BY <1>1, <1>3, <2>1, <3>2 DEF RootsAllowed
  <2>2. ASSUME NumbersAllowed(P, schema) PROVE RootsAllowed(rs)
    <3>1. SUFFICES ASSUME NEW i \in DOMAIN rs PROVE RootAllowed(rs[i])
      BY DEF RootsAllowed
    <3>2. rs[i].number \in P /\ schema[rs[i].number] = rs[i].schema
      BY <1>1
    <3>3. /\ rs[i].number > 0 /\ rs[i].schema \in Schemas
          /\ rs[i].schema = "v1" => rs[i].number = 1
      BY <2>2, <3>2 DEF NumbersAllowed
    <3> QED BY <1>3, <3>3
  <2> QED BY <2>1, <2>2
<1>7. ASSUME RootsAllowed(rs)
      PROVE  RootsFollow(rs) <=> NumbersFollow(P, schema)
  <2>1. ASSUME RootsFollow(rs) PROVE NumbersFollow(P, schema)
    <3>1. SUFFICES ASSUME NEW a \in P, NEW b \in P, Successor(P, a, b)
                   PROVE  /\ schema[a] = "v3" => schema[b] = "v3"
                          /\ \/ b = a + 1
                             \/ schema[a] \in LegacySchemas /\ schema[b] = "v3"
      BY DEF NumbersFollow
    <3>2. PICK i \in DOMAIN rs : rs[i].number = a
      BY <1>1
    <3>3. PICK j \in DOMAIN rs : rs[j].number = b
      BY <1>1
    <3>4. NextRoot(rs, i, j)
      BY <1>4, <3>1, <3>2, <3>3
    <3>5. RootAllowed(rs[i]) /\ RootAllowed(rs[j]) /\ Follows(rs[i], rs[j])
      BY <1>7, <2>1, <3>4 DEF RootsAllowed, RootsFollow
    <3> QED BY <1>1, <1>5, <3>2, <3>3, <3>4, <3>5
  <2>2. ASSUME NumbersFollow(P, schema) PROVE RootsFollow(rs)
    <3>1. SUFFICES ASSUME NEW i \in DOMAIN rs, NEW j \in DOMAIN rs, NextRoot(rs, i, j)
                   PROVE  Follows(rs[i], rs[j])
      BY DEF RootsFollow
    <3>2. /\ rs[i].number \in P /\ rs[j].number \in P
          /\ Successor(P, rs[i].number, rs[j].number)
      BY <1>1, <1>4, <3>1
    <3>3. RootAllowed(rs[i]) /\ RootAllowed(rs[j])
      BY <1>7 DEF RootsAllowed
    <3> QED BY <1>1, <1>5, <2>2, <3>1, <3>2, <3>3 DEF NumbersFollow
  <2> QED BY <2>1, <2>2
<1>8. LegalShape(P, schema) <=>
        P # {} /\ NumbersAllowed(P, schema) /\ NumbersFollow(P, schema)
  BY LegalParts
<1>9. Shape(rs) <=> rs # <<>> /\ RootsAllowed(rs) /\ RootsFollow(rs)
  BY DEF Shape, RootsAllowed, RootsFollow
<1>10. Shape(rs) <=> LegalShape(P, schema)
  BY <1>1, <1>6, <1>7, <1>8, <1>9
<1> QED BY <1>10 DEF P, schema

-----------------------------------------------------------------------------
(* The readers.                                                            *)

\* Every reader by the rules over the set.
LEMMA ReadersAgreeOnSlices ==
  ASSUME roots \in Slices, MaxNumber \in Nat
  PROVE  ReadersAgree
<1> DEFINE P == Numbers(roots)
           schema == SchemaOf(roots)
           state == StateOf(roots)
<1>1. ValidRetainedRoots(roots) <=> Unique(roots) /\ LegalShape(P, schema)
  BY ValidIsShape, ShapeIsLegal
<1>2. Unique(roots) =>
        /\ \A i \in DOMAIN roots : roots[i].number \in P /\ state[roots[i].number] = roots[i].state
        /\ \A n \in P : \E i \in DOMAIN roots : roots[i].number = n
  BY IndexFacts
<1>3. \A i \in DOMAIN roots : roots[i].number \in Nat
  BY SliceFacts
<1>4. Candidates \subseteq Nat \ {0}
  BY DEF Candidates
<1>5. ShapeAgrees
  BY <1>1 DEF ShapeAgrees
<1> HIDE DEF P, schema, state
<1>6. ASSUME NEW n \in Candidates
      PROVE  HistoryHasExactCurrentMaximum(roots, n) <=>
               Unique(roots) /\ ExactCurrentMaximum(P, schema, state, n)
  <2>1. CASE ~ValidRetainedRoots(roots)
    BY <1>1, <2>1 DEF HistoryHasExactCurrentMaximum, ExactCurrentMaximum
  <2>2. CASE ValidRetainedRoots(roots)
    <3>1. Unique(roots) /\ LegalShape(P, schema) /\ n # 0
      BY <1>1, <1>4, <2>2
    <3>2. (\E i \in DOMAIN roots : roots[i].number = n) <=> n \in P
      BY <1>2, <3>1
    <3>3. (\A i \in DOMAIN roots : roots[i].number <= n /\ roots[i].state = "committed")
          <=> \A m \in P : m <= n /\ state[m] = "committed"
      BY <1>2, <3>1
    <3> QED BY <2>2, <3>1, <3>2, <3>3 DEF HistoryHasExactCurrentMaximum, ExactCurrentMaximum
  <2> QED BY <2>1, <2>2
<1>7. ASSUME NEW n \in Candidates
      PROVE  HistoryHasPendingShape(roots, n, n + 1) <=>
               Unique(roots) /\ PendingShape(P, schema, state, n, n + 1)
  <2>1. CASE ~ValidRetainedRoots(roots)
    BY <1>1, <2>1 DEF HistoryHasPendingShape, PendingShape
  <2>2. CASE ValidRetainedRoots(roots)
    <3>1. Unique(roots) /\ LegalShape(P, schema) /\ n # n + 1
      BY <1>1, <1>4, <2>2
    <3>2. /\ (\E i \in DOMAIN roots : roots[i].number = n) <=> n \in P
          /\ (\E i \in DOMAIN roots : roots[i].number = n + 1) <=> n + 1 \in P
          /\ (\E i \in DOMAIN roots : roots[i].number = n /\ roots[i].state = "committed")
             <=> n \in P /\ state[n] = "committed"
      BY <1>2, <3>1
    <3>3. (\A i \in DOMAIN roots :
             /\ roots[i].number <= n + 1
             /\ roots[i].number # n + 1 => roots[i].state = "committed")
          <=> \A m \in P : m <= n + 1 /\ (m # n + 1 => state[m] = "committed")
      BY <1>2, <3>1
    <3> QED BY <2>2, <3>1, <3>2, <3>3 DEF HistoryHasPendingShape, PendingShape
  <2> QED BY <2>1, <2>2
<1>8. LoopsAgree
  BY <1>6, <1>7 DEF LoopsAgree, P, schema, state
<1>9. ASSUME NEW n \in Candidates
      PROVE  LET verdict == ExactPendingSuccessor(roots, n)
             IN /\ verdict = "none" <=> HistoryHasExactCurrentMaximum(roots, n)
                /\ verdict = "pending" <=> HistoryHasPendingShape(roots, n, n + 1)
  <2> DEFINE accepted == /\ ValidRetainedRoots(roots)
                         /\ \A i \in DOMAIN roots :
                              \/ roots[i].number <= n /\ roots[i].state = "committed"
                              \/ roots[i].number = n + 1
                         /\ \E i \in DOMAIN roots : roots[i].number = n
             pending == \E i \in DOMAIN roots : roots[i].number = n + 1
  <2>1. n \in Nat /\ n # 0
    BY <1>4
  <2>2. /\ ExactPendingSuccessor(roots, n) = "none" <=> accepted /\ ~pending
        /\ ExactPendingSuccessor(roots, n) = "pending" <=> accepted /\ pending
    BY DEF ExactPendingSuccessor
  <2>3. accepted /\ ~pending <=> HistoryHasExactCurrentMaximum(roots, n)
    <3>1. accepted /\ ~pending => HistoryHasExactCurrentMaximum(roots, n)
      BY <2>1 DEF HistoryHasExactCurrentMaximum
    <3>2. HistoryHasExactCurrentMaximum(roots, n) => accepted /\ ~pending
      BY <1>3, <2>1 DEF HistoryHasExactCurrentMaximum
    <3> QED BY <3>1, <3>2
  <2>4. accepted /\ pending <=> HistoryHasPendingShape(roots, n, n + 1)
    <3>1. accepted /\ pending => HistoryHasPendingShape(roots, n, n + 1)
      BY <1>3, <2>1 DEF HistoryHasPendingShape
    <3>2. HistoryHasPendingShape(roots, n, n + 1) => accepted /\ pending
      BY <1>3, <2>1 DEF HistoryHasPendingShape
    <3> QED BY <3>1, <3>2
  <2> QED BY <2>2, <2>3, <2>4
<1>10. PlannerAndStoreAgree
  BY <1>9 DEF PlannerAndStoreAgree
<1> QED BY <1>5, <1>8, <1>10 DEF ReadersAgree

-----------------------------------------------------------------------------
(* The writes.                                                             *)

\* What a writer knows of an index whose newest root is current.
LEMMA ExactFacts ==
  ASSUME NEW rs \in Slices, NEW n \in Nat, HistoryHasExactCurrentMaximum(rs, n)
  PROVE  /\ Shape(rs)
         /\ \A i \in DOMAIN rs : rs[i].number <= n /\ rs[i].state = "committed"
         /\ \E i \in DOMAIN rs : rs[i].number = n
BY ValidIsShape DEF HistoryHasExactCurrentMaximum

\* t is rs with one more root at its end.
Extends(t, rs, r) ==
  /\ t \in Slices /\ Len(t) = Len(rs) + 1
  /\ \A j \in DOMAIN rs : j \in DOMAIN t /\ t[j] = rs[j]
  /\ Len(rs) + 1 \in DOMAIN t /\ t[Len(rs) + 1] = r
  /\ \A j \in DOMAIN t : j \in DOMAIN rs \/ j = Len(rs) + 1
  /\ Len(rs) + 1 \notin DOMAIN rs

\* Append is such an extension.
LEMMA AppendExtends ==
  ASSUME NEW rs \in Slices, NEW r \in AnyRoot
  PROVE  Extends(Append(rs, r), rs, r)
<1> DEFINE t == Append(rs, r)
<1>1. /\ t \in Seq(AnyRoot) /\ Len(t) = Len(rs) + 1
      /\ \A i \in 1..Len(rs) : t[i] = rs[i]
      /\ t[Len(rs) + 1] = r
  BY AppendProperties DEF Slices
<1>2. /\ Len(rs) \in Nat /\ DOMAIN rs = 1..Len(rs)
  BY SliceFacts
<1> HIDE DEF t
<1>3. t \in Slices
  BY <1>1 DEF Slices
<1>4. DOMAIN t = 1..(Len(rs) + 1)
  BY <1>1, <1>3, SliceFacts
<1>5. Extends(t, rs, r)
  BY <1>1, <1>2, <1>3, <1>4 DEF Extends
<1> QED BY <1>5 DEF t

\* Staging the immediate v3 successor of a newest committed root.
LEMMA StagingKeepsShape ==
  ASSUME NEW rs \in Slices, NEW n \in Nat \ {0}, HistoryHasExactCurrentMaximum(rs, n)
  PROVE  ExactPendingSuccessor(
           Append(rs, [number |-> n + 1, schema |-> "v3", state |-> "staging"]), n)
           = "pending"
<1> DEFINE r == [number |-> n + 1, schema |-> "v3", state |-> "staging"]
           t == Append(rs, r)
           l == Len(rs) + 1
<1>1. /\ r \in AnyRoot /\ r.number = n + 1 /\ r.schema = "v3"
  BY DEF AnyRoot, Schemas, RootStates
<1>2. Extends(t, rs, r)
  BY <1>1, AppendExtends
<1>3. /\ Shape(rs)
      /\ \A i \in DOMAIN rs : rs[i].number <= n /\ rs[i].state = "committed"
      /\ \E i \in DOMAIN rs : rs[i].number = n
  BY ExactFacts
<1> HIDE DEF r, t, l
<1>4. /\ \A i \in DOMAIN rs : rs[i].number \in Nat
      /\ \A i \in DOMAIN t : t[i].number \in Nat
      /\ t # <<>> <=> DOMAIN t # {}
  BY <1>2, SliceFacts DEF Extends
<1>5. /\ l \in DOMAIN t /\ t[l] = r /\ l \notin DOMAIN rs
      /\ \A j \in DOMAIN rs : j \in DOMAIN t /\ t[j] = rs[j]
      /\ \A j \in DOMAIN t : j \in DOMAIN rs \/ j = l
  BY <1>2 DEF Extends, l
<1>6. Unique(t)
  <2>1. SUFFICES ASSUME NEW i \in DOMAIN t, NEW j \in DOMAIN t,
                        t[i].number = t[j].number
                 PROVE  i = j
    BY DEF Unique
  <2>2. \A k \in DOMAIN rs : t[k].number # t[l].number
    BY <1>1, <1>3, <1>4, <1>5
  <2>3. i \in DOMAIN rs /\ j \in DOMAIN rs => i = j
    BY <1>3, <1>5, <2>1 DEF Shape, Unique
  <2> QED BY <1>5, <2>1, <2>2, <2>3
<1>7. \A i \in DOMAIN t : RootAllowed(t[i])
  <2>1. RootAllowed(r)
    BY <1>1 DEF RootAllowed
  <2> QED BY <1>3, <1>5, <2>1 DEF Shape
<1>8. ASSUME NEW i \in DOMAIN t, NEW j \in DOMAIN t, NextRoot(t, i, j)
      PROVE  Follows(t[i], t[j])
  <2>1. CASE i \in DOMAIN rs /\ j \in DOMAIN rs
    <3>1. NextRoot(rs, i, j)
      BY <1>5, <1>8, <2>1 DEF NextRoot
    <3> QED BY <1>3, <1>5, <2>1, <3>1 DEF Shape
  <2>2. CASE i = l
    <3>1. t[i].number = n + 1 /\ t[j].number <= n + 1
      BY <1>1, <1>3, <1>4, <1>5, <2>2
    <3> QED BY <1>4, <1>8, <3>1 DEF NextRoot
  <2>3. CASE i \in DOMAIN rs /\ j = l
    <3>1. PICK k \in DOMAIN rs : rs[k].number = n
      BY <1>3
    <3>2. t[k].number = n /\ t[j].number = n + 1 /\ t[i].number <= n /\ k \in DOMAIN t
      BY <1>1, <1>3, <1>5, <2>3, <3>1
    <3>3. t[i].number = n
      BY <1>4, <1>8, <3>2 DEF NextRoot
    <3> QED BY <1>1, <1>5, <2>3, <3>2, <3>3 DEF Follows
  <2> QED BY <1>5, <2>1, <2>2, <2>3
<1>9. ValidRetainedRoots(t)
  <2>1. t \in Slices
    BY <1>2 DEF Extends
  <2>2. t # <<>>
    BY <1>4, <1>5
  <2>3. Shape(t)
    BY <1>6, <1>7, <1>8, <2>2 DEF Shape
  <2> QED BY <2>1, <2>3, ValidIsShape
<1>10. \A i \in DOMAIN t : \/ t[i].number <= n /\ t[i].state = "committed"
                           \/ t[i].number = n + 1
  BY <1>1, <1>3, <1>5
<1>11. /\ \E i \in DOMAIN t : t[i].number = n
       /\ \E i \in DOMAIN t : t[i].number = n + 1
  BY <1>1, <1>3, <1>5
<1>12. ExactPendingSuccessor(t, n) = "pending"
  BY <1>9, <1>10, <1>11 DEF ExactPendingSuccessor
<1> QED BY <1>12 DEF r, t

\* t is rs without its i-th root; m gives the old place of every root left.
Lacks(t, rs, i, m) ==
  /\ t \in Slices
  /\ \A j \in DOMAIN t : m[j] \in DOMAIN rs /\ m[j] # i /\ t[j] = rs[m[j]]
  /\ \A j, k \in DOMAIN t : m[j] = m[k] => j = k
  /\ \A k \in DOMAIN rs : k # i => \E j \in DOMAIN t : m[j] = k

\* RemoveAt, as two halves of the slice put together, is such a slice.
LEMMA RemoveAtLacks ==
  ASSUME NEW rs \in Slices, NEW i \in DOMAIN rs
  PROVE  \E m : Lacks(RemoveAt(rs, i), rs, i, m)
<1> DEFINE L == Len(rs)
           s1 == SubSeq(rs, 1, i - 1)
           s2 == SubSeq(rs, i + 1, L)
           t == s1 \o s2
           m == [j \in DOMAIN t |-> IF j < i THEN j ELSE j + 1]
<1>1. /\ L \in Nat /\ DOMAIN rs = 1..L /\ i \in 1..L
      /\ \A k \in 1..L : rs[k] \in AnyRoot
  BY SliceFacts
<1> HIDE DEF L
<1>2. /\ s1 \in Seq(AnyRoot) /\ Len(s1) = i - 1
      /\ \A j \in 1..(i - 1) : s1[j] = rs[j]
  <2>1. 1 \in Int /\ i - 1 \in Int /\ \A k \in 1..(i - 1) : rs[k] \in AnyRoot
    BY <1>1
  <2>2. /\ s1 \in Seq(AnyRoot)
        /\ Len(s1) = IF 1 <= i - 1 THEN (i - 1) - 1 + 1 ELSE 0
        /\ \A j \in 1..((i - 1) - 1 + 1) : s1[j] = rs[1 + j - 1]
    BY ONLY <2>1, SubSeqProperties
  <2> HIDE DEF s1
  <2> QED BY <1>1, <2>2
<1>3. /\ s2 \in Seq(AnyRoot) /\ Len(s2) = L - i
      /\ \A j \in 1..(L - i) : s2[j] = rs[i + j]
  <2>1. i + 1 \in Int /\ L \in Int /\ \A k \in (i + 1)..L : rs[k] \in AnyRoot
    BY <1>1
  <2>2. /\ s2 \in Seq(AnyRoot)
        /\ Len(s2) = IF i + 1 <= L THEN L - (i + 1) + 1 ELSE 0
        /\ \A j \in 1..(L - (i + 1) + 1) : s2[j] = rs[(i + 1) + j - 1]
    BY ONLY <2>1, SubSeqProperties
  <2> HIDE DEF s2
  <2> QED BY <1>1, <2>2
<1> HIDE DEF s1, s2
<1>4. /\ t \in Seq(AnyRoot) /\ Len(t) = L - 1
      /\ \A j \in 1..(L - 1) : t[j] = IF j <= i - 1 THEN s1[j] ELSE s2[j - (i - 1)]
  <2>1. /\ t \in Seq(AnyRoot) /\ Len(t) = Len(s1) + Len(s2)
        /\ \A j \in 1..(Len(s1) + Len(s2)) :
             t[j] = IF j <= Len(s1) THEN s1[j] ELSE s2[j - Len(s1)]
    BY <1>2, <1>3, ConcatProperties
  <2> HIDE DEF t
  <2> QED BY <1>1, <1>2, <1>3, <2>1
<1> HIDE DEF t
<1>5. t \in Slices /\ DOMAIN t = 1..(L - 1)
  BY <1>1, <1>4, SliceFacts DEF Slices
<1>6. \A j \in DOMAIN t : m[j] = IF j < i THEN j ELSE j + 1
  OBVIOUS
<1> HIDE DEF m
<1>7. \A j \in DOMAIN t : m[j] \in DOMAIN rs /\ m[j] # i
  BY <1>1, <1>5, <1>6
<1>8. ASSUME NEW j \in DOMAIN t PROVE t[j] = rs[m[j]]
  <2>1. j \in 1..(L - 1)
    BY <1>5
  <2>2. CASE j < i
    <3>1. t[j] = s1[j] /\ j \in 1..(i - 1) /\ m[j] = j
      BY <1>1, <1>4, <1>6, <2>1, <2>2
    <3> QED BY <1>2, <3>1
  <2>3. CASE ~(j < i)
    <3>1. /\ t[j] = s2[j - (i - 1)] /\ j - (i - 1) \in 1..(L - i)
          /\ m[j] = j + 1 /\ i + (j - (i - 1)) = j + 1
      BY <1>1, <1>4, <1>6, <2>1, <2>3
    <3> QED BY <1>3, <3>1
  <2> QED BY <2>2, <2>3
<1>9. \A j, k \in DOMAIN t : m[j] = m[k] => j = k
  BY <1>1, <1>5, <1>6
<1>10. ASSUME NEW k \in DOMAIN rs, k # i PROVE \E j \in DOMAIN t : m[j] = k
  <2>1. CASE k < i
    <3>1. k \in DOMAIN t /\ m[k] = k
      BY <1>1, <1>5, <1>6, <2>1
    <3> QED BY <3>1
  <2>2. CASE ~(k < i)
    <3>1. k - 1 \in DOMAIN t /\ m[k - 1] = k
      <4>1. k - 1 \in DOMAIN t /\ ~(k - 1 < i) /\ (k - 1) + 1 = k
        BY <1>1, <1>5, <1>10, <2>2
      <4> QED BY <1>6, <4>1
    <3> QED BY <3>1
  <2> QED BY <2>1, <2>2
<1>11. Lacks(t, rs, i, m)
  BY <1>5, <1>7, <1>8, <1>9, <1>10 DEF Lacks
<1>12. t = RemoveAt(rs, i)
  BY DEF RemoveAt, t, s1, s2, L
<1> QED BY <1>11, <1>12

\* Purging the oldest v3 root below a newest committed root.  The only pair of
\* neighbours that comes up is a legacy root and the v3 root behind the purged
\* one, and there a gap is allowed.
LEMMA PurgingKeepsShape ==
  ASSUME NEW rs \in Slices, NEW n \in Nat, HistoryHasExactCurrentMaximum(rs, n),
         NEW i \in DOMAIN rs, rs[i].schema = "v3", rs[i].number < n,
         \A j \in DOMAIN rs : rs[j].number < rs[i].number => rs[j].schema # "v3"
  PROVE  HistoryHasExactCurrentMaximum(RemoveAt(rs, i), n)
<1> DEFINE t == RemoveAt(rs, i)
<1>1. PICK m : Lacks(t, rs, i, m)
  BY RemoveAtLacks
<1> HIDE DEF t
<1>2. /\ Shape(rs)
      /\ \A j \in DOMAIN rs : rs[j].number <= n /\ rs[j].state = "committed"
      /\ \E j \in DOMAIN rs : rs[j].number = n
  BY ExactFacts
<1>3. /\ t \in Slices
      /\ \A j \in DOMAIN t : m[j] \in DOMAIN rs /\ m[j] # i /\ t[j] = rs[m[j]]
      /\ \A j, k \in DOMAIN t : m[j] = m[k] => j = k
      /\ \A k \in DOMAIN rs : k # i => \E j \in DOMAIN t : m[j] = k
  BY <1>1 DEF Lacks
<1>4. /\ \A j \in DOMAIN rs : rs[j].number \in Nat
      /\ \A j \in DOMAIN t : t[j].number \in Nat
      /\ t # <<>> <=> DOMAIN t # {}
  BY <1>3, SliceFacts
<1>5. PICK c \in DOMAIN t : t[c].number = n
  <2>1. PICK k \in DOMAIN rs : rs[k].number = n
    BY <1>2
  <2>2. k # i
    BY <1>4, <2>1
  <2>3. PICK j \in DOMAIN t : m[j] = k
    BY <1>3, <2>2
  <2> QED BY <1>3, <2>1, <2>3
<1>6. Unique(t)
  <2>1. SUFFICES ASSUME NEW a \in DOMAIN t, NEW b \in DOMAIN t,
                        t[a].number = t[b].number
                 PROVE  a = b
    BY DEF Unique
  <2>2. m[a] = m[b]
    BY <1>2, <1>3, <2>1 DEF Shape, Unique
  <2> QED BY <1>3, <2>2
<1>7. \A j \in DOMAIN t : RootAllowed(t[j])
  BY <1>2, <1>3 DEF Shape
<1>8. ASSUME NEW a \in DOMAIN t, NEW b \in DOMAIN t, NextRoot(t, a, b)
      PROVE  Follows(t[a], t[b])
  <2>1. /\ m[a] \in DOMAIN rs /\ m[b] \in DOMAIN rs
        /\ t[a] = rs[m[a]] /\ t[b] = rs[m[b]]
        /\ t[a].number < t[b].number
    BY <1>3, <1>8 DEF NextRoot
  <2>2. \A k \in DOMAIN rs : k # i =>
          ~(t[a].number < rs[k].number /\ rs[k].number < t[b].number)
    <3>1. SUFFICES ASSUME NEW k \in DOMAIN rs, k # i
                   PROVE  ~(t[a].number < rs[k].number /\ rs[k].number < t[b].number)
      OBVIOUS
    <3>2. PICK j \in DOMAIN t : m[j] = k
      BY <1>3, <3>1
    <3>3. t[j] = rs[k]
      BY <1>3, <3>2
    <3> QED BY <1>8, <3>2, <3>3 DEF NextRoot
  <2>3. CASE ~(t[a].number < rs[i].number /\ rs[i].number < t[b].number)
    <3>1. NextRoot(rs, m[a], m[b])
      BY <2>1, <2>2, <2>3 DEF NextRoot
    <3> QED BY <1>2, <2>1, <3>1 DEF Shape
  <2>4. CASE t[a].number < rs[i].number /\ rs[i].number < t[b].number
    <3>1. NextRoot(rs, i, m[b])
      <4>1. SUFFICES ASSUME NEW k \in DOMAIN rs
                     PROVE  ~(rs[i].number < rs[k].number
                              /\ rs[k].number < rs[m[b]].number)
        BY <2>1, <2>4 DEF NextRoot
      <4>2. k = i => ~(rs[i].number < rs[k].number)
        BY <1>4
      <4>3. k # i => ~(t[a].number < rs[k].number /\ rs[k].number < t[b].number)
        BY <2>2
      <4>4. rs[i].number < rs[k].number => t[a].number < rs[k].number
        BY <1>4, <2>1, <2>4
      <4> QED BY <2>1, <4>2, <4>3, <4>4
    <3>2. Follows(rs[i], rs[m[b]])
      BY <1>2, <2>1, <3>1 DEF Shape
    <3>3. t[b].schema = "v3"
      BY <2>1, <3>2 DEF Follows
    <3>4. t[a].schema # "v3"
      BY <2>1, <2>4
    <3> QED BY <2>1, <3>3, <3>4 DEF Follows
  <2> QED BY <2>3, <2>4
<1>9. ValidRetainedRoots(t)
  <2>1. Shape(t)
    BY <1>4, <1>5, <1>6, <1>7, <1>8 DEF Shape
  <2> QED BY <1>3, <2>1, ValidIsShape
<1>10. \A j \in DOMAIN t : t[j].number <= n /\ t[j].state = "committed"
  BY <1>2, <1>3
<1>11. HistoryHasExactCurrentMaximum(t, n)
  <2>1. n # 0
    BY DEF HistoryHasExactCurrentMaximum
  <2> QED BY <1>5, <1>9, <1>10, <2>1 DEF HistoryHasExactCurrentMaximum
<1> QED BY <1>11 DEF t

\* Both writes, for every current number.
LEMMA WritesKeepShapeOnSlices ==
  ASSUME roots \in Slices, MaxNumber \in Nat
  PROVE  WritesKeepShape
<1>1. Candidates \subseteq Nat \ {0}
  BY DEF Candidates
<1>2. ASSUME NEW n \in Candidates, HistoryHasExactCurrentMaximum(roots, n)
      PROVE  ExactPendingSuccessor(
               Append(roots, [number |-> n + 1, schema |-> "v3",
                              state |-> "staging"]), n) = "pending"
  BY <1>1, <1>2, StagingKeepsShape
<1>3. ASSUME NEW n \in Candidates, HistoryHasExactCurrentMaximum(roots, n),
             NEW i \in DOMAIN roots, roots[i].schema = "v3", roots[i].number < n,
             \A q \in Candidates : q < roots[i].number =>
               ~\E j \in DOMAIN roots : roots[j].number = q /\ roots[j].schema = "v3"
      PROVE  HistoryHasExactCurrentMaximum(RemoveAt(roots, i), n)
  <2>1. n \in Nat /\ n <= MaxNumber
    BY <1>3 DEF Candidates
  <2>2. ASSUME NEW j \in DOMAIN roots, roots[j].number < roots[i].number
        PROVE  roots[j].schema # "v3"
    <3>1. roots[j].number \in Nat /\ roots[i].number \in Nat
      BY SliceFacts
    <3>2. RootAllowed(roots[j]) /\ roots[j].number <= n
      BY <1>3, <2>1, ExactFacts DEF Shape
    <3>3. roots[j].number \in Candidates
      BY <2>1, <3>1, <3>2 DEF RootAllowed, Candidates
    <3> QED BY <1>3, <2>2, <3>3
  <2> QED BY <1>3, <2>1, <2>2, PurgingKeepsShape
<1> QED BY <1>2, <1>3 DEF WritesKeepShape

-----------------------------------------------------------------------------
(* The specification.                                                      *)

\* The slice holds roots and nothing else, whatever is appended to it.
SliceInv == roots \in Slices

THEOREM SlicesStay == Spec => []SliceInv
<1>1. Init => SliceInv
  BY EmptySeq DEF Init, SliceInv, Slices
<1>2. SliceInv /\ [Next]_roots => SliceInv'
  <2>1. SUFFICES ASSUME SliceInv, [Next]_roots PROVE SliceInv'
    OBVIOUS
  <2>2. CASE Next
    <3>1. PICK r \in GenerationRoot : roots' = Append(roots, r)
      BY <2>2 DEF Next, AppendRoot
    <3>2. r \in AnyRoot
      BY BoundsAssumption, <3>1 DEF GenerationRoot, AnyRoot
    <3> QED BY <2>1, <3>1, <3>2, AppendProperties DEF SliceInv, Slices
  <2>3. CASE roots' = roots
    BY <2>1, <2>3 DEF SliceInv
  <2> QED BY <2>1, <2>2, <2>3
<1> QED BY <1>1, <1>2, PTL DEF Spec

\* The readers of the store and of the application accept the same indexes, for
\* slices of every length, in every order and with duplicates.
THEOREM AllReadersAgree == Spec => []ReadersAgree
<1>1. SliceInv => ReadersAgree
  BY BoundsAssumption, ReadersAgreeOnSlices DEF SliceInv
<1> QED BY <1>1, SlicesStay, PTL

\* What a writer stages or a purge removes leaves an index every reader accepts.
THEOREM AllWritesKeepShape == Spec => []WritesKeepShape
<1>1. SliceInv => WritesKeepShape
  BY BoundsAssumption, WritesKeepShapeOnSlices DEF SliceInv
<1> QED BY <1>1, SlicesStay, PTL
=============================================================================
