----------------------- MODULE DirectLifecycle_proofs -----------------------
(***************************************************************************)
(* Proofs about the legacy lifecycle of a domain with its own records, for *)
(* any set of keys, any delays, and any number of commands, faults and     *)
(* removals by other hosts.                                                *)
(***************************************************************************)
EXTENDS DirectInvariant, FiniteSetTheorems, WellFoundedInduction, TLAPS

-----------------------------------------------------------------------------
(* Constants, entries and calls.                                           *)

LEMMA ConstantFacts ==
  /\ IsFiniteSet(Keys) /\ Horizon \in Nat /\ DeleteDelay \in Nat
  /\ ExpireAfter \in Nat /\ DeleteDelay < Horizon
  /\ MaxOperator \in Nat /\ MaxFaults \in Nat
  /\ Tombstone \notin Keys /\ NoRecord \notin Keys /\ NoKey \notin Keys
  /\ Keys \subseteq Names
BY LifecycleAssumption DEF Horizon, Names

LEMMA FieldTypes ==
  ASSUME NEW d \in Directory
  PROVE  /\ d.present \subseteq Keys /\ d.active \subseteq Keys
         /\ d.revoked \subseteq Keys /\ d.wild \subseteq Keys
         /\ d.name \in [Keys -> Names] /\ d.rank \in [Keys -> Nat]
         /\ d.age \in [Keys -> Nat] /\ d.idle \in [Keys -> Nat]
BY DEF Directory

\* A write renews the time of modification.
LEMMA ModifiedFields ==
  ASSUME NEW d \in Directory, NEW k \in Keys
  PROVE  /\ Modified(d, k) \in Directory
         /\ Modified(d, k).present = d.present /\ Modified(d, k).active = d.active
         /\ Modified(d, k).revoked = d.revoked /\ Modified(d, k).wild = d.wild
         /\ Modified(d, k).name = d.name /\ Modified(d, k).rank = d.rank
         /\ Modified(d, k).age = d.age
         /\ Modified(d, k).idle = [d.idle EXCEPT ![k] = 0]
<1>1. Modified(d, k) = [d EXCEPT !.idle = [d.idle EXCEPT ![k] = 0]]
  BY DEF Modified
<1>2. [d.idle EXCEPT ![k] = 0] \in [Keys -> Nat]
  BY FieldTypes
<1> QED BY <1>1, <1>2 DEF Directory

LEMMA StoredFields ==
  ASSUME NEW d \in Directory, NEW k \in Keys, wildcard \in BOOLEAN
  PROVE  /\ Stored(d, k) \in Directory
         /\ Stored(d, k).present = d.present \cup {k}
         /\ Stored(d, k).active = d.active /\ Stored(d, k).revoked = d.revoked
         /\ Stored(d, k).name = [d.name EXCEPT ![k] = k]
         /\ Stored(d, k).idle = [d.idle EXCEPT ![k] = 0]
<1> DEFINE m == Modified(d, k)
           r == Cardinality(d.present) + 1
           w == IF wildcard THEN m.wild \cup {k} ELSE m.wild \ {k}
<1>1. Stored(d, k) = [m EXCEPT !.present = m.present \cup {k},
                       !.name = [m.name EXCEPT ![k] = k],
                       !.age = [m.age EXCEPT ![k] = 0],
                       !.rank = [m.rank EXCEPT ![k] = r], !.wild = w]
  BY DEF Stored
<1>2. r \in Nat
  BY FieldTypes, ConstantFacts, FS_Subset, FS_CardinalityType
<1>3. m \in Directory
  BY ModifiedFields
<1>4. /\ m.present \subseteq Keys /\ w \subseteq Keys
      /\ [m.name EXCEPT ![k] = k] \in [Keys -> Names]
      /\ [m.age EXCEPT ![k] = 0] \in [Keys -> Nat]
      /\ [m.rank EXCEPT ![k] = r] \in [Keys -> Nat]
  <2> HIDE DEF m, r
  <2>1. k \in Names
    BY ConstantFacts
  <2> QED BY <1>2, <1>3, <2>1, FieldTypes
<1>8. /\ m.present \cup {k} \subseteq Keys /\ m.active \subseteq Keys
      /\ m.revoked \subseteq Keys /\ m.idle \in [Keys -> Nat]
  BY <1>3, FieldTypes
<1>5. /\ m.present = d.present /\ m.active = d.active /\ m.revoked = d.revoked
      /\ m.name = d.name /\ m.idle = [d.idle EXCEPT ![k] = 0]
  BY ModifiedFields
<1> HIDE DEF m, r, w
<1>6. Stored(d, k) \in Directory
  <2> DEFINE p == m.present \cup {k}
             n == [m.name EXCEPT ![k] = k]
             g == [m.age EXCEPT ![k] = 0]
             t == [m.rank EXCEPT ![k] = r]
  <2>1. Stored(d, k) = [m EXCEPT !.present = p, !.name = n, !.age = g, !.rank = t,
                          !.wild = w]
    BY <1>1
  <2>2. /\ p \subseteq Keys /\ n \in [Keys -> Names] /\ g \in [Keys -> Nat]
        /\ t \in [Keys -> Nat] /\ w \subseteq Keys
    BY <1>4, <1>8
  <2> HIDE DEF p, n, g, t
  <2>3. Stored(d, k) = [present |-> p, active |-> m.active, revoked |-> m.revoked,
                         wild |-> w, name |-> n, rank |-> t, age |-> g,
                         idle |-> m.idle]
    BY <1>3, <2>1 DEF Directory
  <2> QED BY <1>8, <2>2, <2>3 DEF Directory
<1>7. /\ Stored(d, k).present = m.present \cup {k} /\ Stored(d, k).active = m.active
      /\ Stored(d, k).revoked = m.revoked
      /\ Stored(d, k).name = [m.name EXCEPT ![k] = k] /\ Stored(d, k).idle = m.idle
  BY <1>1, <1>3 DEF Directory
<1> QED BY <1>5, <1>6, <1>7

LEMMA SwitchedFields ==
  ASSUME NEW d \in Directory, NEW k \in Keys
  PROVE  /\ Enabled(d, k) \in Directory /\ Disabled(d, k) \in Directory
         /\ Enabled(d, k).active = d.active \cup {k}
         /\ Disabled(d, k).active = d.active \ {k}
         /\ \A e \in {Enabled(d, k), Disabled(d, k)} :
              /\ e.present = d.present /\ e.revoked = d.revoked /\ e.name = d.name
              /\ e.idle = [d.idle EXCEPT ![k] = 0]
<1> DEFINE m == Modified(d, k)
<1>1. /\ Enabled(d, k) = [m EXCEPT !.active = m.active \cup {k}]
      /\ Disabled(d, k) = [m EXCEPT !.active = m.active \ {k}]
  BY DEF Enabled, Disabled
<1>2. /\ m \in Directory
      /\ m.present = d.present /\ m.active = d.active /\ m.revoked = d.revoked
      /\ m.name = d.name /\ m.idle = [d.idle EXCEPT ![k] = 0]
  BY ModifiedFields
<1> HIDE DEF m
<1>3. /\ Enabled(d, k) \in Directory /\ Disabled(d, k) \in Directory
      /\ Enabled(d, k).active = m.active \cup {k}
      /\ Disabled(d, k).active = m.active \ {k}
      /\ \A e \in {Enabled(d, k), Disabled(d, k)} :
           /\ e.present = m.present /\ e.revoked = m.revoked /\ e.name = m.name
           /\ e.idle = m.idle
  BY <1>1, <1>2 DEF Directory
<1> QED BY <1>2, <1>3

LEMMA RevokedFields ==
  ASSUME NEW d \in Directory, NEW k \in Keys
  PROVE  /\ Revoked(d, k) \in Directory
         /\ Revoked(d, k).revoked = d.revoked \cup {k}
         /\ Revoked(d, k).present = d.present /\ Revoked(d, k).active = d.active
         /\ Revoked(d, k).name = d.name
         /\ Revoked(d, k).idle = [d.idle EXCEPT ![k] = 0]
<1> DEFINE m == Modified(d, k)
<1>1. Revoked(d, k) = [m EXCEPT !.revoked = m.revoked \cup {k}]
  BY DEF Revoked
<1>2. /\ m \in Directory
      /\ m.present = d.present /\ m.active = d.active /\ m.revoked = d.revoked
      /\ m.name = d.name /\ m.idle = [d.idle EXCEPT ![k] = 0]
  BY ModifiedFields
<1> HIDE DEF m
<1> QED BY <1>1, <1>2 DEF Directory

LEMMA DroppedFields ==
  ASSUME NEW d \in Directory, NEW k \in Keys
  PROVE  /\ Dropped(d, k) \in Directory
         /\ Dropped(d, k).present = d.present \ {k}
         /\ Dropped(d, k).active = d.active \ {k}
         /\ Dropped(d, k).revoked = d.revoked \ {k}
         /\ Dropped(d, k).name = [d.name EXCEPT ![k] = k]
         /\ Dropped(d, k).idle = [d.idle EXCEPT ![k] = 0]
<1> DEFINE m == Modified(d, k)
           r == [j \in Keys |-> IF j = k THEN 0
                                ELSE IF m.rank[j] > d.rank[k] THEN m.rank[j] - 1
                                ELSE m.rank[j]]
<1>1. Dropped(d, k) = [m EXCEPT !.present = m.present \ {k},
                        !.active = m.active \ {k}, !.revoked = m.revoked \ {k},
                        !.wild = m.wild \ {k}, !.name = [m.name EXCEPT ![k] = k],
                        !.age = [m.age EXCEPT ![k] = 0], !.rank = r]
  BY DEF Dropped
<1>2. /\ m \in Directory
      /\ m.present = d.present /\ m.active = d.active /\ m.revoked = d.revoked
      /\ m.name = d.name /\ m.idle = [d.idle EXCEPT ![k] = 0]
  BY ModifiedFields
<1>3. r \in [Keys -> Nat]
  <2> HIDE DEF m
  <2>1. \A j \in Keys : m.rank[j] \in Nat /\ d.rank[k] \in Nat
    BY <1>2, FieldTypes
  <2> QED BY <2>1
<1> HIDE DEF m, r
<1>4. [m.name EXCEPT ![k] = k] \in [Keys -> Names]
      /\ [m.age EXCEPT ![k] = 0] \in [Keys -> Nat]
  BY <1>2, FieldTypes, ConstantFacts
<1>8. /\ m.present \ {k} \subseteq Keys /\ m.active \ {k} \subseteq Keys
      /\ m.revoked \ {k} \subseteq Keys /\ m.wild \ {k} \subseteq Keys
      /\ m.idle \in [Keys -> Nat]
  BY <1>2, FieldTypes
<1>5. Dropped(d, k) \in Directory
  <2> DEFINE p == m.present \ {k}
             a == m.active \ {k}
             v == m.revoked \ {k}
             w == m.wild \ {k}
             n == [m.name EXCEPT ![k] = k]
             g == [m.age EXCEPT ![k] = 0]
  <2>1. Dropped(d, k) = [m EXCEPT !.present = p, !.active = a, !.revoked = v,
                          !.wild = w, !.name = n, !.age = g, !.rank = r]
    BY <1>1
  <2>2. /\ p \subseteq Keys /\ a \subseteq Keys /\ v \subseteq Keys
        /\ w \subseteq Keys /\ n \in [Keys -> Names] /\ g \in [Keys -> Nat]
    BY <1>4, <1>8
  <2> HIDE DEF p, a, v, w, n, g
  <2>3. Dropped(d, k) = [present |-> p, active |-> a, revoked |-> v, wild |-> w,
                         name |-> n, rank |-> r, age |-> g, idle |-> m.idle]
    BY <1>2, <2>1 DEF Directory
  <2> QED BY <1>3, <1>8, <2>2, <2>3 DEF Directory
<1>6. /\ Dropped(d, k).present = m.present \ {k}
      /\ Dropped(d, k).active = m.active \ {k}
      /\ Dropped(d, k).revoked = m.revoked \ {k}
      /\ Dropped(d, k).name = [m.name EXCEPT ![k] = k]
      /\ Dropped(d, k).idle = m.idle
  BY <1>1, <1>2 DEF Directory
<1> QED BY <1>2, <1>5, <1>6

\* The newest of some keys is one of them: fewest of them are above it.
LEMMA NewestIsMember ==
  ASSUME NEW d \in Directory, NEW S \in SUBSET Keys, S # {}
  PROVE  Newest(S, d) \in S
<1> DEFINE above(k) == {j \in S : d.rank[j] > d.rank[k]}
           T == {Cardinality(above(k)) : k \in S}
<1>1. \A k \in S : IsFiniteSet(above(k)) /\ Cardinality(above(k)) \in Nat
  BY ConstantFacts, FS_Subset, FS_CardinalityType
<1>2. T \subseteq Nat /\ T # {}
  BY <1>1
<1>3. \E n \in T : \A m \in T : ~(<<m, n>> \in OpToRel(<, Nat))
  <2> HIDE DEF T
  <2> QED BY <1>2, NatLessThanWellFounded, WFMin, Zenon
<1>4. PICK k \in S : \A m \in T : ~(<<m, Cardinality(above(k))>> \in OpToRel(<, Nat))
  BY <1>3
<1>5. \A m \in T : ~(m < Cardinality(above(k)))
  <2> HIDE DEF T
  <2>1. Cardinality(above(k)) \in Nat
    BY <1>1
  <2> HIDE DEF above
  <2> QED BY <1>2, <1>4, <2>1, Zenon DEF OpToRel
<1>6. \A j \in S : d.rank[j] <= d.rank[k]
  <2>1. SUFFICES ASSUME NEW j \in S, d.rank[j] > d.rank[k] PROVE FALSE
    BY FieldTypes
  <2>2. \A i \in S : d.rank[i] \in Nat
    BY FieldTypes
  <2>3. above(j) \subseteq above(k) /\ j \in above(k) /\ j \notin above(j)
    BY <2>1, <2>2
  <2>4. Cardinality(above(j)) < Cardinality(above(k))
    <3> HIDE DEF above
    <3>1. /\ Cardinality(above(j)) <= Cardinality(above(k))
          /\ Cardinality(above(j)) = Cardinality(above(k)) => above(j) = above(k)
      BY <1>1, <2>3, FS_Subset
    <3> QED BY <1>1, <2>1, <2>3, <3>1
  <2>5. Cardinality(above(j)) \in T
    BY <2>1
  <2> QED BY <1>5, <2>4, <2>5
<1> QED BY <1>6 DEF Newest

-----------------------------------------------------------------------------
(* Calls and snapshots.                                                    *)

LEMMA CallFields ==
  ASSUME NEW what \in Calls, NEW k \in Keys \cup {NoKey}
  PROVE  /\ Call(what, k) \in CallShape
         /\ Call(what, k).do = what /\ Call(what, k).key = k
BY DEF Call, CallShape

LEMMA NoCallFields == NoCall \in CallShape /\ NoCall.do = "none" /\ NoCall.key = NoKey
BY DEF NoCall, Call, CallShape, Calls

\* The entries are a snapshot of themselves.
LEMMA LdapIsSnapshot ==
  ASSUME DirectInv
  PROVE  Snapshot(ldap) /\ UpToDate(ldap)
BY DEF DirectInv, EntriesInv, WellFormed, Snapshot, UpToDate, TypeOK

\* What a command sees, outside a chain of disabling.
LEMMA SeenIsSnapshot ==
  ASSUME DirectInv, Running, doing.do # "disable", NEW seen \in Seen
  PROVE  seen \in Directory /\ Snapshot(seen) /\ UpToDate(seen)
BY LdapIsSnapshot DEF DirectInv, TreeInv, Seen, TypeOK

\* A step that reads only.
LEMMA QuietStep ==
  ASSUME DirectInv, UNCHANGED <<ldap, zone, cached, historyVars, wildcard, boundVars>>,
         Running, tree' \in Seen \cup {ldap}, doing.do # "disable" \/ tree' = ldap,
         phase' \in Phases, doing' \in CallShape, queue' \subseteq Keys,
         outcome' \in {"none", "failed", "completed"}, CallInv'
  PROVE  DirectInv'
<1>1. tree' \in Directory /\ Snapshot(tree') /\ UpToDate(tree')
  BY SeenIsSnapshot, LdapIsSnapshot DEF DirectInv, TypeOK
<1>2. TypeOK'
  BY <1>1 DEF DirectInv, TypeOK, historyVars, boundVars
<1>3. TreeInv'
  BY <1>1 DEF TreeInv, Snapshot, UpToDate, WellFormed, historyVars
<1>4. EntriesInv' /\ NoOrphanRecord' /\ ActiveKeyPublished'
  BY DEF DirectInv, EntriesInv, WellFormed, NoOrphanRecord, ActiveKeyPublished,
     historyVars
<1> QED BY <1>2, <1>3, <1>4 DEF DirectInv

\* One that ends the call it is in.
LEMMA QuietEnd ==
  ASSUME DirectInv, UNCHANGED <<ldap, zone, cached, historyVars, wildcard, boundVars>>,
         Running, tree' \in Seen \cup {ldap}, doing.do # "disable" \/ tree' = ldap,
         phase' \in Phases, doing' = NoCall, queue' \subseteq Keys,
         outcome' \in {"none", "failed", "completed"}
  PROVE  DirectInv'
<1>1. doing' \in CallShape /\ doing'.do = "none"
  BY NoCallFields
<1>2. CallInv'
  BY <1>1 DEF CallInv
<1> QED BY <1>1, <1>2, QuietStep

LEMMA TestKeyKeeps ==
  ASSUME DirectInv, TestKey
  PROVE  DirectInv'
<1>1. Running /\ doing.do = "test" /\ tree \in Seen
  BY DEF TestKey, DirectInv, CallInv, Seen
<1> QED BY <1>1, QuietEnd DEF TestKey, SameRecords, SameBounds, DirectInv, TypeOK,
           boundVars

LEMMA EndKeeps ==
  ASSUME DirectInv, EndCommand \/ EndAuto
  PROVE  DirectInv'
<1>1. /\ Running /\ doing = NoCall /\ doing' = NoCall /\ phase' = "idle"
      /\ queue' = {} /\ outcome' = "completed" /\ tree' = tree
      /\ UNCHANGED <<ldap, zone, cached, historyVars, wildcard, boundVars>>
  BY DEF EndCommand, EndAuto, Complete, SameRecords, SameBounds, Running
<1>2. doing.do # "disable" /\ tree \in Seen
  BY <1>1, NoCallFields DEF Seen
<1> QED BY <1>1, <1>2, QuietEnd DEF Phases

\* The decisions of --auto.
LEMMA DecideKeeps ==
  ASSUME DirectInv, AddNew \/ AddMissing \/ Rotate
  PROVE  DirectInv'
<1>1. /\ Running /\ doing = NoCall /\ phase' \in Phases
      /\ UNCHANGED <<ldap, zone, cached, historyVars, wildcard, boundVars>>
      /\ queue' \subseteq Keys /\ outcome' \in {"none", "failed", "completed"}
  BY DirectAssumption DEF AddNew, AddMissing, Rotate, Decide, Proceed, SameRecords,
     SameBounds, Running, Phases, DirectInv, TypeOK, boundVars
<1>2. PICK seen \in Seen :
        /\ tree' = seen
        /\ \/ \E needed \in BOOLEAN : doing' = Creation(needed)
           \/ doing' = Rotation(seen)
  BY DEF AddNew, AddMissing, Rotate, Decide
<1>3. doing.do # "disable" /\ seen \in Directory
  BY <1>1, NoCallFields, SeenIsSnapshot
<1>4. doing' = NoCall \/ doing' = Call("store", NoKey)
      \/ \E k \in seen.present : doing' = Call("test", k)
  <2>1. CASE \E needed \in BOOLEAN : doing' = Creation(needed)
    BY <2>1 DEF Creation
  <2>2. CASE doing' = Rotation(seen)
    <3> DEFINE newer == {k \in Usable(seen) :
                           seen.rank[k] > seen.rank[Newest(seen.active, seen)]}
    <3>1. newer \subseteq seen.present /\ newer \subseteq Keys
      BY <1>3, FieldTypes DEF Usable
    <3>2. newer # {} => Newest(newer, seen) \in newer
      BY <1>3, <3>1, NewestIsMember
    <3>3. doing' = NoCall \/ (newer # {} /\ doing' = Call("test", Newest(newer, seen)))
      BY <2>2 DEF Rotation
    <3> QED BY <3>1, <3>2, <3>3
  <2> QED BY <1>2, <2>1, <2>2
<1>5. \A k \in seen.present : k \in Keys
  BY <1>3, FieldTypes
<1>6. doing' \in CallShape /\ CallInv'
  <2>1. Running'
    BY <1>1 DEF AddNew, AddMissing, Rotate, Decide, Proceed, Running
  <2>2. CASE doing' = NoCall
    BY <2>2, NoCallFields DEF CallInv
  <2>3. CASE doing' = Call("store", NoKey)
    BY <2>1, <2>3, CallFields DEF CallInv, Calls
  <2>4. CASE \E k \in seen.present : doing' = Call("test", k)
    <3>1. PICK k \in seen.present : doing' = Call("test", k)
      BY <2>4
    <3>2. k \in Keys /\ doing' \in CallShape /\ doing'.do = "test" /\ doing'.key = k
      BY <1>5, <3>1, CallFields DEF Calls
    <3> QED BY <1>2, <2>1, <3>1, <3>2 DEF CallInv
  <2> QED BY <1>4, <2>2, <2>3, <2>4
<1> QED BY <1>1, <1>2, <1>3, <1>6, QuietStep

\* The loop over the selectors.
LEMMA SweepKeeps ==
  ASSUME DirectInv, Sweep
  PROVE  DirectInv'
<1>1. /\ Running /\ doing = NoCall /\ doing' = NoCall /\ phase' = "visit"
      /\ queue' = tree.present /\ outcome' = outcome /\ tree' = tree
      /\ UNCHANGED <<ldap, zone, cached, historyVars, wildcard, boundVars>>
  BY DEF Sweep, SameRecords, SameBounds, Running
<1>2. doing.do # "disable" /\ tree \in Seen /\ tree.present \subseteq Keys
  BY <1>1, NoCallFields, FieldTypes DEF Seen, DirectInv, TypeOK
<1> QED BY <1>1, <1>2, QuietEnd DEF Phases, DirectInv, TypeOK

LEMMA VisitKeeps ==
  ASSUME DirectInv, Visit
  PROVE  DirectInv'
<1> DEFINE k == Newest(queue, ldap)
<1>1. /\ Running /\ doing = NoCall /\ phase' = phase /\ outcome' = outcome
      /\ queue' = queue \ {k} /\ Running'
      /\ UNCHANGED <<ldap, zone, cached, historyVars, wildcard, boundVars>>
  BY DEF Visit, SameRecords, SameBounds, Running
<1>2. PICK seen \in Seen : tree' = seen /\ doing' = Visited(seen, k)
  BY DEF Visit
<1> HIDE DEF k
<1>3. /\ doing.do # "disable" /\ seen.present \subseteq Keys
      /\ seen.revoked \subseteq seen.present
  BY <1>1, NoCallFields, SeenIsSnapshot, FieldTypes DEF Snapshot, WellFormed
<1>4. doing' = NoCall
      \/ (k \in seen.present /\ doing' \in {Call("retire", k), Call("test", k)})
  BY <1>2, <1>3 DEF Visited, Usable
<1>5. CASE doing' = NoCall
  BY <1>1, <1>2, <1>3, <1>5, QuietEnd DEF DirectInv, TypeOK
<1>6. CASE k \in seen.present /\ doing' \in {Call("retire", k), Call("test", k)}
  <2>1. /\ k \in Keys /\ doing' \in CallShape /\ doing'.key = k
        /\ doing'.do \in {"retire", "test"}
    BY <1>3, <1>6, CallFields DEF Calls
  <2>2. CallInv'
    BY <1>1, <1>2, <1>6, <2>1 DEF CallInv
  <2> QED BY <1>1, <1>2, <1>3, <2>1, <2>2, QuietStep DEF DirectInv, TypeOK
<1> QED BY <1>4, <1>5, <1>6

\* A deletion that only looks at ages.
LEMMA RetireKeeps ==
  ASSUME DirectInv, Retire
  PROVE  DirectInv'
<1> DEFINE k == doing.key
<1>1. /\ doing.do = "retire" /\ phase' = phase /\ outcome' = outcome
      /\ queue' = queue
      /\ UNCHANGED <<ldap, zone, cached, historyVars, wildcard, boundVars>>
  BY DEF Retire, SameRecords, SameBounds
<1>2. Running /\ Running' /\ k \in Keys
  BY <1>1 DEF DirectInv, CallInv, Running
<1>3. PICK seen \in Seen :
        /\ tree' = seen
        /\ doing' = IF Due(seen, k) THEN Call("tombstone", k) ELSE Call("clean", NoKey)
  BY DirectAssumption DEF Retire, AfterDelete
<1>4. seen \in Directory /\ Snapshot(seen) /\ UpToDate(seen)
  BY <1>1, <1>2, SeenIsSnapshot
<1> HIDE DEF k
<1>5. CASE Due(seen, k)
  <2>1. k \in seen.present \ seen.active /\ seen.idle[k] > DeleteDelay
    BY <1>5 DEF Due, Usable
  <2>2. k \notin ldap.active /\ quiet[k] > DeleteDelay
    <3>1. seen.idle[k] \in Nat /\ quiet[k] \in Nat /\ DeleteDelay \in Nat
      BY <1>2, <1>4, FieldTypes, ConstantFacts DEF DirectInv, TypeOK
    <3> QED BY <1>4, <2>1, <3>1 DEF UpToDate
  <2>3. doing' \in CallShape /\ doing'.do = "tombstone" /\ doing'.key = k
    BY <1>2, <1>3, <1>5, CallFields DEF Calls
  <2>4. CallInv'
    BY <1>1, <1>2, <1>3, <2>1, <2>2, <2>3 DEF CallInv, historyVars
  <2> QED BY <1>1, <1>2, <1>3, <2>3, <2>4, QuietStep DEF DirectInv, TypeOK
<1>6. CASE ~Due(seen, k)
  <2>1. doing' \in CallShape /\ doing'.do = "clean"
    BY <1>3, <1>6, CallFields DEF Calls
  <2>2. CallInv'
    BY <1>2, <2>1 DEF CallInv
  <2> QED BY <1>1, <1>2, <1>3, <2>1, <2>2, QuietStep DEF DirectInv, TypeOK
<1> QED BY <1>5, <1>6

\* A tombstone past its retention.
LEMMA CleanKeeps ==
  ASSUME DirectInv, Clean
  PROVE  DirectInv'
<1>1. /\ doing.do = "clean" /\ phase' = phase /\ outcome' = outcome
      /\ queue' = queue
      /\ UNCHANGED <<ldap, zone, cached, historyVars, wildcard, boundVars>>
  BY DEF Clean, SameRecords, SameBounds
<1>2. Running /\ Running'
  BY <1>1 DEF DirectInv, CallInv, Running
<1>3. CASE tree' = ldap /\ doing' = NoCall
  BY <1>1, <1>2, <1>3, QuietEnd DEF DirectInv, TypeOK
<1>4. CASE \E seen \in Seen : \E k \in seen.revoked :
             tree' = seen /\ doing' = Call("erase", k)
  <2>8. PICK seen \in Seen : \E k \in seen.revoked :
          tree' = seen /\ doing' = Call("erase", k)
    BY <1>4
  <2>1. PICK k \in seen.revoked : tree' = seen /\ doing' = Call("erase", k)
    BY <2>8
  <2>2. seen \in Directory /\ Snapshot(seen) /\ UpToDate(seen)
    BY <1>1, <1>2, SeenIsSnapshot
  <2>3. k \in Keys
    BY <2>2, FieldTypes
  <2>4. k \in waived \/ zone[k] # k
    BY <2>2 DEF Snapshot
  <2>5. k \in ldap.active => k \in waived
    BY <2>2 DEF Snapshot, UpToDate
  <2>6. doing' \in CallShape /\ doing'.do = "erase" /\ doing'.key = k
    BY <2>1, <2>3, CallFields DEF Calls
  <2>7. CallInv'
    BY <1>1, <1>2, <2>3, <2>4, <2>5, <2>6 DEF CallInv, historyVars
  <2> QED BY <1>1, <1>2, <2>1, <2>6, <2>7, QuietStep DEF DirectInv, TypeOK
<1> QED BY <1>3, <1>4 DEF Clean

-----------------------------------------------------------------------------
(* Between commands.                                                       *)

\* A command begins with a new snapshot.
LEMMA BeginKeeps ==
  ASSUME DirectInv, NEW to \in Phases \ {"idle"}, NEW call \in CallShape,
         Begin(to, call), waived' \subseteq Keys, waived \subseteq waived',
         operator' \in 0..MaxOperator, CallInv'
  PROVE  DirectInv'
<1>1. /\ phase' = to /\ doing' = call /\ tree' = ldap
      /\ UNCHANGED <<queue, outcome, ldap, wildcard, faults, zone, cached, quiet,
                     buried>>
  BY DEF Begin
<1>2. TypeOK'
  BY <1>1 DEF DirectInv, TypeOK
<1>3. TreeInv'
  BY <1>1, LdapIsSnapshot DEF TreeInv, Snapshot, UpToDate, WellFormed
<1>4. EntriesInv' /\ NoOrphanRecord' /\ ActiveKeyPublished'
  BY <1>1 DEF DirectInv, EntriesInv, WellFormed, NoOrphanRecord, ActiveKeyPublished
<1> QED BY <1>2, <1>3, <1>4 DEF DirectInv

LEMMA RunAutoKeeps ==
  ASSUME DirectInv, RunAuto
  PROVE  DirectInv'
<1>1. Begin("reconcile", NoCall) /\ doing' = NoCall /\ waived' = waived
      /\ operator' = operator
  BY DEF RunAuto, Begin
<1>2. CallInv'
  BY <1>1, NoCallFields DEF CallInv
<1> QED BY <1>1, <1>2, BeginKeeps, NoCallFields DEF Phases, DirectInv, TypeOK

LEMMA CreateKeeps ==
  ASSUME DirectInv, Create
  PROVE  DirectInv'
<1>1. /\ Begin("command", Call("store", NoKey)) /\ doing' = Call("store", NoKey)
      /\ phase' = "command" /\ waived' = waived /\ operator' = operator - 1
      /\ operator > 0
  BY DEF Create, Command, Begin
<1>2. operator' \in 0..MaxOperator
  BY <1>1, ConstantFacts DEF DirectInv, TypeOK
<1>3. /\ Call("store", NoKey) \in CallShape /\ doing'.do = "store"
  BY <1>1, CallFields DEF Calls
<1>4. CallInv'
  BY <1>1, <1>3 DEF CallInv, Running
<1> QED BY <1>1, <1>2, <1>3, <1>4, BeginKeeps DEF Phases, DirectInv, TypeOK

LEMMA ActiveKeeps ==
  ASSUME DirectInv, NEW k \in Keys, Active(k)
  PROVE  DirectInv'
<1>1. PICK what \in {"test", "enable", "disable"} :
        /\ Begin("command", Call(what, k)) /\ k \in ldap.present
        /\ operator' = operator - 1 /\ operator > 0
        /\ \/ what = "test" /\ waived' = waived
           \/ what \in {"enable", "disable"} /\ waived' = waived \cup {k}
        /\ what = "disable" => k \in ldap.active
  BY DEF Active, Command, Forced
<1>2. operator' \in 0..MaxOperator /\ waived' \subseteq Keys /\ waived \subseteq waived'
  BY <1>1, ConstantFacts DEF DirectInv, TypeOK
<1>3. /\ doing' = Call(what, k) /\ phase' = "command" /\ tree' = ldap /\ ldap' = ldap
  BY <1>1 DEF Begin
<1>4. /\ Call(what, k) \in CallShape /\ doing'.do = what /\ doing'.key = k
  BY <1>3, CallFields DEF Calls
<1>5. CallInv'
  BY <1>1, <1>3, <1>4 DEF CallInv, Running
<1> QED BY <1>1, <1>2, <1>4, <1>5, BeginKeeps DEF Phases

LEMMA DeleteKeeps ==
  ASSUME DirectInv, NEW k \in Keys, Delete(k)
  PROVE  DirectInv'
<1>1. PICK what \in {"retire", "erase"} :
        /\ Begin("command", Call(what, k)) /\ k \in ldap.present
        /\ operator' = operator - 1 /\ operator > 0
        /\ \/ what = "retire" /\ waived' = waived
           \/ what = "erase" /\ waived' = waived \cup {k}
  BY DEF Delete, Command, Forced
<1>2. operator' \in 0..MaxOperator /\ waived' \subseteq Keys /\ waived \subseteq waived'
  BY <1>1, ConstantFacts DEF DirectInv, TypeOK
<1>3. /\ doing' = Call(what, k) /\ phase' = "command"
  BY <1>1 DEF Begin
<1>4. /\ Call(what, k) \in CallShape /\ doing'.do = what /\ doing'.key = k
  BY <1>3, CallFields DEF Calls
<1>5. CallInv'
  BY <1>1, <1>3, <1>4 DEF CallInv, Running
<1> QED BY <1>1, <1>2, <1>4, <1>5, BeginKeeps DEF Phases

\* A command stops.
LEMMA AbortKeeps ==
  ASSUME DirectInv, Abort
  PROVE  DirectInv'
<1>1. /\ phase' = "idle" /\ doing' = NoCall /\ queue' = {} /\ outcome' = "failed"
      /\ faults > 0 /\ faults' = faults - 1
      /\ UNCHANGED <<ldap, tree, wildcard, operator, zone, cached, quiet, buried,
                     waived>>
  BY DEF Abort, SameRecords, historyVars
<1>2. faults' \in 0..MaxFaults
  BY <1>1, ConstantFacts DEF DirectInv, TypeOK
<1>3. TypeOK'
  BY <1>1, <1>2, NoCallFields DEF DirectInv, TypeOK, Phases
<1>4. CallInv' /\ TreeInv'
  BY <1>1, NoCallFields DEF CallInv, TreeInv, Running
<1>5. EntriesInv' /\ NoOrphanRecord' /\ ActiveKeyPublished'
  BY <1>1 DEF DirectInv, EntriesInv, WellFormed, NoOrphanRecord, ActiveKeyPublished
<1> QED BY <1>3, <1>4, <1>5 DEF DirectInv

LEMMA ConfigureKeeps ==
  ASSUME DirectInv, Configure
  PROVE  DirectInv'
<1>1. /\ phase = "idle" /\ operator > 0 /\ operator' = operator - 1
      /\ wildcard' = ~wildcard
      /\ UNCHANGED <<ldap, tree, zone, cached, runVars, historyVars, faults>>
  BY DEF Configure
<1>2. operator' \in 0..MaxOperator
  BY <1>1, ConstantFacts DEF DirectInv, TypeOK
<1>3. TypeOK'
  BY <1>1, <1>2 DEF DirectInv, TypeOK, runVars, historyVars
<1>4. CallInv' /\ TreeInv'
  BY <1>1 DEF DirectInv, CallInv, TreeInv, Running, runVars
<1>5. EntriesInv' /\ NoOrphanRecord' /\ ActiveKeyPublished'
  BY <1>1 DEF DirectInv, EntriesInv, WellFormed, NoOrphanRecord, ActiveKeyPublished,
     historyVars
<1> QED BY <1>3, <1>4, <1>5 DEF DirectInv

-----------------------------------------------------------------------------
(* Days, other hosts, and the initial state.                               *)

LEMMA AgedFacts ==
  ASSUME NEW D, NEW f \in [D -> Nat], NEW limit \in Nat, NEW S
  PROVE  /\ Aged(f, limit, S) \in [D -> Nat]
         /\ \A k \in D \cap S : Aged(f, limit, S)[k] = Capped(f[k], limit)
         /\ \A k \in D \ S : Aged(f, limit, S)[k] = f[k]
         /\ f \in [D -> 0..limit] => Aged(f, limit, S) \in [D -> 0..limit]
BY DEF Aged, Capped

LEMMA TickKeeps ==
  ASSUME DirectInv, Tick
  PROVE  DirectInv'
<1> DEFINE age == Aged(ldap.age, ExpireAfter, ldap.present)
           idle == Aged(ldap.idle, Horizon, ldap.present)
<1>1. /\ phase = "idle" /\ phase' = "idle" /\ doing' = doing
      /\ ldap' = [ldap EXCEPT !.age = age, !.idle = idle]
      /\ quiet' = Aged(quiet, Horizon, Keys \ ldap.active)
      /\ buried' = Aged(buried, Horizon, {n \in Names : zone[n] = Tombstone})
      /\ cached' = {}
      /\ UNCHANGED <<tree, zone, waived, runVars, boundVars, wildcard>>
  BY DEF Tick, runVars
<1>2. ldap \in Directory /\ ldap.age \in [Keys -> Nat] /\ ldap.idle \in [Keys -> Nat]
  BY FieldTypes DEF DirectInv, TypeOK
<1>3. age \in [Keys -> Nat] /\ idle \in [Keys -> Nat]
  BY <1>2, AgedFacts, ConstantFacts
<1>4. \A k \in Keys : idle[k] = IF k \in ldap.present
                                THEN Capped(ldap.idle[k], Horizon) ELSE ldap.idle[k]
  BY <1>2, AgedFacts, ConstantFacts
<1>5. /\ quiet' \in [Keys -> 0..Horizon] /\ buried' \in [Names -> 0..Horizon]
      /\ \A k \in Keys \ ldap.active : quiet'[k] = Capped(quiet[k], Horizon)
  <2>1. /\ quiet \in [Keys -> 0..Horizon] /\ buried \in [Names -> 0..Horizon]
        /\ quiet \in [Keys -> Nat] /\ buried \in [Names -> Nat]
    BY ConstantFacts DEF DirectInv, TypeOK
  <2> QED BY <1>1, <2>1, AgedFacts, ConstantFacts
<1> HIDE DEF age, idle
<1>6. /\ ldap' \in Directory /\ ldap'.present = ldap.present
      /\ ldap'.active = ldap.active /\ ldap'.revoked = ldap.revoked
      /\ ldap'.name = ldap.name /\ ldap'.idle = idle
  BY <1>1, <1>2, <1>3 DEF Directory
<1>7. TypeOK'
  BY <1>1, <1>5, <1>6 DEF DirectInv, TypeOK, runVars, boundVars
<1>8. CallInv' /\ TreeInv'
  BY <1>1 DEF DirectInv, CallInv, TreeInv, Running
<1>9. EntriesInv'
  <2>1. \A k \in Keys : idle[k] <= Horizon
    BY <1>2, <1>4, ConstantFacts DEF DirectInv, EntriesInv, WellFormed, Capped
  <2>2. \A k \in ldap.present \ ldap.active : idle[k] <= quiet'[k]
    <3>1. SUFFICES ASSUME NEW k \in ldap.present \ ldap.active
                   PROVE  idle[k] <= quiet'[k]
      OBVIOUS
    <3>2. /\ k \in Keys /\ ldap.idle[k] <= quiet[k] /\ ldap.idle[k] \in Nat
          /\ quiet[k] \in 0..Horizon /\ Horizon \in Nat
      BY <1>2, FieldTypes, ConstantFacts DEF DirectInv, EntriesInv, TypeOK
    <3>3. idle[k] = Capped(ldap.idle[k], Horizon)
          /\ quiet'[k] = Capped(quiet[k], Horizon)
      BY <1>4, <1>5, <3>2
    <3> QED BY <3>2, <3>3 DEF Capped
  <2> QED BY <1>1, <1>6, <2>1, <2>2 DEF DirectInv, EntriesInv, WellFormed
<1>10. NoOrphanRecord' /\ ActiveKeyPublished'
  BY <1>1, <1>6 DEF DirectInv, NoOrphanRecord, ActiveKeyPublished
<1> QED BY <1>7, <1>8, <1>9, <1>10 DEF DirectInv

\* What the write of one record changes.
LEMMA PutFields ==
  ASSUME TypeOK, NEW n \in Names, NEW value \in Names \cup {Tombstone, NoRecord},
         PutRecord(n, value)
  PROVE  /\ zone' \in [Names -> Names \cup {Tombstone, NoRecord}]
         /\ zone'[n] = value /\ \A m \in Names \ {n} : zone'[m] = zone[m]
         /\ cached' \subseteq Names \X Keys
         /\ buried' \in [Names -> 0..Horizon] /\ quiet' = quiet
<1>1. 0 \in 0..Horizon
  BY ConstantFacts
<1> QED BY <1>1 DEF PutRecord, TypeOK

LEMMA VanishKeeps ==
  ASSUME DirectInv, NEW k \in Keys, Vanish(k)
  PROVE  DirectInv'
<1>1. /\ faults > 0 /\ faults' = faults - 1 /\ k \in ldap.present \ ldap.active
      /\ ldap' = Dropped(ldap, k) /\ PutRecord(k, NoRecord)
      /\ waived' = waived \cup {k}
      /\ UNCHANGED <<tree, wildcard, phase, doing, queue, outcome, operator>>
  BY DEF Vanish, DirectInv, EntriesInv, WellFormed, runVars
<1>2. k \in Names /\ NoRecord # k
  BY ConstantFacts
<1>3. /\ zone' \in [Names -> Names \cup {Tombstone, NoRecord}]
      /\ zone'[k] = NoRecord /\ (\A m \in Names \ {k} : zone'[m] = zone[m])
      /\ cached' \subseteq Names \X Keys
      /\ buried' \in [Names -> 0..Horizon] /\ quiet' = quiet
  BY <1>1, <1>2, PutFields DEF DirectInv
<1>4. /\ ldap' \in Directory /\ ldap'.present = ldap.present \ {k}
      /\ ldap'.active = ldap.active /\ ldap'.revoked = ldap.revoked \ {k}
      /\ ldap'.name = [ldap.name EXCEPT ![k] = k]
      /\ ldap'.idle = [ldap.idle EXCEPT ![k] = 0]
  <2>1. ldap \in Directory /\ ldap.active \ {k} = ldap.active
    BY <1>1 DEF DirectInv, TypeOK
  <2> QED BY <1>1, <2>1, DroppedFields
<1>5. faults' \in 0..MaxFaults
  BY <1>1, ConstantFacts DEF DirectInv, TypeOK
<1>6. TypeOK'
  BY <1>1, <1>3, <1>4, <1>5 DEF DirectInv, TypeOK
<1>7. ldap.name \in [Keys -> Names] /\ ldap.idle \in [Keys -> Nat]
      /\ ldap.present \subseteq Keys /\ ldap.revoked \subseteq Keys
      /\ tree.present \subseteq Keys /\ tree.revoked \subseteq Keys
  BY FieldTypes DEF DirectInv, TypeOK
<1>8. EntriesInv'
  BY <1>1, <1>3, <1>4, <1>7, ConstantFacts DEF DirectInv, EntriesInv, WellFormed
<1>9. NoOrphanRecord' /\ ActiveKeyPublished'
  <2>1. NoOrphanRecord'
    BY <1>1, <1>3, <1>4 DEF DirectInv, NoOrphanRecord
  <2>2. ldap.active \subseteq Names \ {k}
    BY <1>1, FieldTypes, ConstantFacts DEF DirectInv, TypeOK
  <2>3. ActiveKeyPublished'
    BY <1>1, <1>3, <1>4, <2>2 DEF DirectInv, ActiveKeyPublished
  <2> QED BY <2>1, <2>3
<1>10. \A j \in Keys : zone[j] # j => zone'[j] # j
  BY <1>2, <1>3, ConstantFacts
<1>11. TreeInv'
  <2>1. Snapshot(tree) => Snapshot(tree)'
    BY <1>1, <1>2, <1>3, <1>4, <1>7, <1>10 DEF Snapshot, WellFormed
  <2>2. UpToDate(tree) => UpToDate(tree)'
    BY <1>1, <1>3, <1>4 DEF UpToDate
  <2> QED BY <1>1, <2>1, <2>2 DEF DirectInv, TreeInv, Running
<1>12. CallInv'
  BY <1>1, <1>3, <1>4, <1>10, ConstantFacts DEF DirectInv, CallInv, Running
<1> QED BY <1>6, <1>8, <1>9, <1>11, <1>12 DEF DirectInv

-----------------------------------------------------------------------------
(* The calls that write.                                                   *)

\* The entries have the types of a directory.
LEMMA Fields ==
  ASSUME DirectInv
  PROVE  /\ ldap \in Directory /\ tree \in Directory
         /\ ldap.present \subseteq Keys /\ ldap.active \subseteq Keys
         /\ ldap.revoked \subseteq Keys /\ tree.present \subseteq Keys
         /\ tree.active \subseteq Keys /\ tree.revoked \subseteq Keys
         /\ ldap.name \in [Keys -> Names] /\ ldap.idle \in [Keys -> Nat]
         /\ tree.name \in [Keys -> Names] /\ tree.idle \in [Keys -> Nat]
BY FieldTypes DEF DirectInv, TypeOK

\* A call that goes on with the step it is in.
LEMMA InCall ==
  ASSUME DirectInv, doing.do # "none"
  PROVE  /\ Running /\ (phase' = phase => Running')
         /\ doing.do \notin {"store", "clean"} => doing.key \in Keys
         /\ Snapshot(tree) /\ (doing.do # "disable" => UpToDate(tree))
BY DEF DirectInv, CallInv, TreeInv, Running

LEMMA StoreKeeps ==
  ASSUME DirectInv, Store
  PROVE  DirectInv'
<1>1. PICK k \in Fresh :
        /\ ldap' = Stored(ldap, k) /\ doing' = Call("publish", k) /\ tree' = tree
        /\ quiet' = [quiet EXCEPT ![k] = Horizon] /\ waived' = waived \ {k}
        /\ doing.do = "store"
        /\ UNCHANGED <<zone, cached, buried, wildcard, boundVars, phase, queue,
                       outcome>>
  BY DirectAssumption DEF Store, SameBounds
<1>2. k \in Keys \ ldap.present /\ zone[k] = NoRecord /\ NoRecord # k
  BY ConstantFacts DEF Fresh
<1>3. /\ ldap' \in Directory /\ ldap'.present = ldap.present \cup {k}
      /\ ldap'.active = ldap.active /\ ldap'.revoked = ldap.revoked
      /\ ldap'.name = [ldap.name EXCEPT ![k] = k]
      /\ ldap'.idle = [ldap.idle EXCEPT ![k] = 0]
  BY <1>1, <1>2, StoredFields DEF DirectInv, TypeOK
<1>4. /\ Running' /\ Snapshot(tree) /\ UpToDate(tree)
  BY <1>1, InCall
<1>5. doing' \in CallShape /\ doing'.do = "publish" /\ doing'.key = k
  BY <1>1, <1>2, CallFields DEF Calls
<1>6. /\ quiet' \in [Keys -> 0..Horizon] /\ quiet'[k] = Horizon
      /\ \A j \in Keys \ {k} : quiet'[j] = quiet[j]
  BY <1>1, <1>2, ConstantFacts DEF DirectInv, TypeOK
<1>7. TypeOK'
  BY <1>1, <1>3, <1>5, <1>6 DEF DirectInv, TypeOK, boundVars
<1>8. k \notin ldap.active /\ k \notin ldap.revoked
  BY <1>2 DEF DirectInv, EntriesInv, WellFormed
<1>9. EntriesInv'
  <2>1. WellFormed(ldap)'
    BY <1>2, <1>3, Fields, ConstantFacts DEF DirectInv, EntriesInv, WellFormed
  <2>2. \A j \in ldap'.present \ ldap'.active : ldap'.idle[j] <= quiet'[j]
    BY <1>2, <1>3, <1>6, Fields, ConstantFacts DEF DirectInv, EntriesInv
  <2>3. /\ ldap'.active \cap ldap'.revoked \subseteq waived'
        /\ \A j \in ldap'.revoked \ waived' : zone'[j] # j
    BY <1>1, <1>3, <1>8 DEF DirectInv, EntriesInv
  <2> QED BY <2>1, <2>2, <2>3 DEF EntriesInv
<1>10. NoOrphanRecord' /\ ActiveKeyPublished'
  BY <1>1, <1>3, <1>8 DEF DirectInv, NoOrphanRecord, ActiveKeyPublished
<1>11. TreeInv'
  <2>1. Snapshot(tree)'
    BY <1>1, <1>2, <1>3, <1>4, <1>8 DEF Snapshot, WellFormed, UpToDate
  <2>2. \A j \in tree.present \ tree.active : tree.idle[j] <= quiet'[j]
    BY <1>2, <1>4, <1>6, Fields DEF Snapshot, WellFormed, UpToDate
  <2> QED BY <1>1, <1>3, <1>4, <2>1, <2>2 DEF TreeInv, UpToDate
<1>12. CallInv'
  BY <1>2, <1>3, <1>4, <1>5, <1>8 DEF CallInv
<1> QED BY <1>7, <1>9, <1>10, <1>11, <1>12 DEF DirectInv

LEMMA PublishKeeps ==
  ASSUME DirectInv, Publish
  PROVE  DirectInv'
<1> DEFINE k == doing.key
<1>1. /\ doing.do = "publish" /\ PutRecord(k, k) /\ waived' = waived
      /\ tree' = ldap /\ doing' = NoCall
      /\ UNCHANGED <<ldap, phase, queue, outcome, wildcard, boundVars>>
  BY DEF Publish, Put, SameBounds
<1>2. /\ Running' /\ k \in Keys /\ k \in Names
      /\ k \in (ldap.present \cup waived) \ ldap.revoked
  BY <1>1, InCall, ConstantFacts DEF DirectInv, CallInv
<1> HIDE DEF k
<1>3. /\ zone' \in [Names -> Names \cup {Tombstone, NoRecord}]
      /\ zone'[k] = k /\ (\A m \in Names \ {k} : zone'[m] = zone[m])
      /\ cached' \subseteq Names \X Keys
      /\ buried' \in [Names -> 0..Horizon] /\ quiet' = quiet
  BY <1>1, <1>2, PutFields DEF DirectInv
<1>4. TypeOK'
  BY <1>1, <1>3, NoCallFields DEF DirectInv, TypeOK, boundVars
<1>5. EntriesInv'
  BY <1>1, <1>2, <1>3, Fields, ConstantFacts DEF DirectInv, EntriesInv, WellFormed
<1>6. NoOrphanRecord' /\ ActiveKeyPublished'
  BY <1>1, <1>2, <1>3, Fields, ConstantFacts DEF DirectInv, NoOrphanRecord,
     ActiveKeyPublished
<1>7. TreeInv'
  BY <1>1, <1>5 DEF TreeInv, Snapshot, UpToDate, EntriesInv, WellFormed
<1>8. CallInv'
  BY <1>1, NoCallFields DEF CallInv
<1> QED BY <1>4, <1>5, <1>6, <1>7, <1>8 DEF DirectInv

\* The answer that counts: the record is there, or the key counts as waived.
LEMMA TestKeyPassesKeeps ==
  ASSUME DirectInv, TestKeyPasses
  PROVE  DirectInv'
<1> DEFINE k == doing.key
<1>1. /\ doing.do = "test"
      /\ UNCHANGED <<ldap, tree, phase, queue, outcome, zone, cached, quiet, buried,
                     wildcard, boundVars>>
  BY DEF TestKeyPasses, SameBounds
<1>2. /\ Running' /\ k \in Keys /\ Snapshot(tree) /\ UpToDate(tree)
      /\ k \in tree.present
  BY <1>1, InCall DEF DirectInv, CallInv
<1>3. k \notin tree.revoked /\ k \notin ldap.revoked
  BY <1>2 DEF TestKeyPasses, TestPasses, Snapshot
<1>4. tree.name[k] = k
  BY <1>2 DEF Snapshot, WellFormed
<1>5. \/ waived' = waived \cup {k}
      \/ waived' = waived \ {k} /\ zone[k] = k
  BY <1>4 DEF TestKeyPasses, TestPasses
<1>6. /\ doing' \in CallShape /\ doing'.key = k
      /\ \/ doing'.do = "disable" /\ k \in ldap.active
         \/ doing'.do = "enable"
  <2>1. doing' = Call(IF k \in tree.active THEN "disable" ELSE "enable", k)
    BY DEF TestKeyPasses, Enabling
  <2> QED BY <1>2, <2>1, CallFields DEF UpToDate, Calls
<1> HIDE DEF k
<1>7. zone[k] = k => k \in ldap.present
  BY <1>2 DEF Snapshot
<1>8. TypeOK'
  BY <1>1, <1>2, <1>5, <1>6 DEF DirectInv, TypeOK, boundVars
<1>9. EntriesInv'
  BY <1>1, <1>3, <1>5 DEF DirectInv, EntriesInv, WellFormed
<1>10. NoOrphanRecord' /\ ActiveKeyPublished'
  BY <1>1, <1>5, <1>7 DEF DirectInv, NoOrphanRecord, ActiveKeyPublished
<1>11. TreeInv'
  <2>1. Snapshot(tree)'
    BY <1>1, <1>2, <1>3, <1>5, <1>7 DEF Snapshot, WellFormed
  <2>2. UpToDate(tree)'
    BY <1>1, <1>2 DEF UpToDate
  <2> QED BY <2>1, <2>2 DEF TreeInv
<1>12. CallInv'
  BY <1>1, <1>2, <1>3, <1>5, <1>6 DEF CallInv
<1> QED BY <1>8, <1>9, <1>10, <1>11, <1>12 DEF DirectInv

\* An entry that is gone ends the command.
LEMMA WriteFails ==
  ASSUME DirectInv, UNCHANGED <<ldap, wildcard, boundVars, zone, cached, historyVars>>,
         phase' = "idle", doing' = NoCall, queue' = {}, outcome' = "failed",
         tree' \in {ldap, tree}
  PROVE  DirectInv'
<1>1. TypeOK'
  BY NoCallFields DEF DirectInv, TypeOK, boundVars, historyVars, Phases
<1>2. CallInv' /\ TreeInv'
  BY NoCallFields DEF CallInv, TreeInv, Running
<1>3. EntriesInv' /\ NoOrphanRecord' /\ ActiveKeyPublished'
  BY DEF DirectInv, EntriesInv, WellFormed, NoOrphanRecord, ActiveKeyPublished,
     historyVars
<1> QED BY <1>1, <1>2, <1>3 DEF DirectInv

LEMMA EnableKeeps ==
  ASSUME DirectInv, Enable
  PROVE  DirectInv'
<1> DEFINE k == doing.key
<1>1. /\ doing.do = "enable" /\ tree' \in {ldap', tree}
      /\ UNCHANGED <<zone, cached, buried, waived, wildcard, boundVars>>
      /\ quiet' = [quiet EXCEPT ![k] = IF k \in ldap.present THEN 0 ELSE quiet[k]]
  BY DEF Enable, Write, SameBounds
<1>2. /\ Running /\ (phase' = phase => Running') /\ k \in Keys
      /\ k \in waived \/ zone[k] = k
      /\ k \in ldap.revoked => k \in waived
      /\ Snapshot(tree)
  BY <1>1, InCall DEF DirectInv, CallInv
<1>3. CASE k \notin ldap.present
  <2>1. /\ ldap' = ldap /\ phase' = "idle" /\ doing' = NoCall /\ queue' = {}
        /\ outcome' = "failed"
    BY <1>3 DEF Enable, Write
  <2>2. quiet' = quiet
    BY <1>1, <1>3 DEF DirectInv, TypeOK
  <2> QED BY <1>1, <2>1, <2>2, WriteFails DEF historyVars
<1>4. CASE k \in ldap.present
  <2>1. /\ ldap' = Enabled(ldap, k) /\ UNCHANGED <<phase, queue, outcome>>
        /\ \/ tree' = ldap' /\ doing' = NoCall
           \/ tree' = tree /\ doing' = Call("disable", k)
    BY <1>4 DEF Enable, Write
  <2>2. /\ ldap' \in Directory /\ ldap'.present = ldap.present
        /\ ldap'.active = ldap.active \cup {k} /\ ldap'.revoked = ldap.revoked
        /\ ldap'.name = ldap.name /\ ldap'.idle = [ldap.idle EXCEPT ![k] = 0]
    BY <1>2, <2>1, SwitchedFields DEF DirectInv, TypeOK
  <2>3. /\ quiet' \in [Keys -> 0..Horizon]
        /\ \A j \in Keys \ {k} : quiet'[j] = quiet[j]
    BY <1>1, <1>2, <1>4, ConstantFacts DEF DirectInv, TypeOK
  <2>4. /\ doing' \in CallShape
        /\ doing'.do = "none" \/ (doing'.do = "disable" /\ doing'.key = k)
    BY <1>2, <2>1, NoCallFields, CallFields DEF Calls
  <2> HIDE DEF k
  <2>5. TypeOK'
    BY <1>1, <2>1, <2>2, <2>3, <2>4 DEF DirectInv, TypeOK, boundVars
  <2>6. EntriesInv'
    <3>1. WellFormed(ldap)'
      BY <1>2, <1>4, <2>2, Fields, ConstantFacts DEF DirectInv, EntriesInv, WellFormed
    <3>2. \A j \in ldap'.present \ ldap'.active : ldap'.idle[j] <= quiet'[j]
      BY <2>2, <2>3, Fields DEF DirectInv, EntriesInv
    <3>3. /\ ldap'.active \cap ldap'.revoked \subseteq waived'
          /\ \A j \in ldap'.revoked \ waived' : zone'[j] # j
      BY <1>1, <1>2, <2>2 DEF DirectInv, EntriesInv
    <3> QED BY <3>1, <3>2, <3>3 DEF EntriesInv
  <2>7. NoOrphanRecord' /\ ActiveKeyPublished'
    BY <1>1, <1>2, <2>2 DEF DirectInv, NoOrphanRecord, ActiveKeyPublished
  <2>8. TreeInv'
    <3>1. CASE tree' = ldap'
      BY <2>6, <3>1 DEF TreeInv, Snapshot, UpToDate, EntriesInv, WellFormed
    <3>2. CASE tree' = tree /\ doing'.do = "disable"
      BY <1>1, <1>2, <2>2, <3>2 DEF TreeInv, Snapshot, WellFormed
    <3> QED BY <2>1, <2>4, <3>1, <3>2, CallFields, <1>2 DEF Calls
  <2>9. CallInv'
    BY <1>2, <2>1, <2>2, <2>4 DEF CallInv
  <2> QED BY <2>5, <2>6, <2>7, <2>8, <2>9 DEF DirectInv
<1> QED BY <1>3, <1>4

\* The chain of disabling spares the key it was started for.
LEMMA DisableKeeps ==
  ASSUME DirectInv, Disable
  PROVE  DirectInv'
<1> DEFINE k == doing.key
<1>1. /\ doing.do = "disable"
      /\ UNCHANGED <<zone, cached, quiet, buried, waived, wildcard, boundVars>>
  BY DEF Disable, Write, SameRecords, SameBounds, historyVars
<1>2. /\ Running /\ (phase' = phase => Running') /\ k \in Keys /\ k \in ldap.active
      /\ Snapshot(tree) /\ doing \in CallShape
  BY <1>1, InCall DEF DirectInv, CallInv, TypeOK
<1>3. CASE Others(k) = {}
  <2>1. /\ tree' = ldap /\ doing' = NoCall /\ ldap' = ldap
        /\ UNCHANGED <<phase, queue, outcome>>
    BY <1>3 DEF Disable
  <2> QED BY <1>1, <1>2, <2>1, QuietEnd DEF historyVars, DirectInv, TypeOK
<1>4. CASE Others(k) # {}
  <2>1. PICK j \in Others(k) :
          LET last == Others(k) = {j} IN
          /\ Write(j, IF last THEN NoCall ELSE doing, LAMBDA d : Disabled(d, j))
          /\ tree' = IF last THEN ldap' ELSE tree
    BY <1>4 DEF Disable
  <2>2. j \in ldap.active \ {k} /\ j \in ldap.present /\ j \in Keys
    BY Fields DEF Others, DirectInv, EntriesInv, WellFormed
  <2>3. /\ ldap' = Disabled(ldap, j) /\ UNCHANGED <<phase, queue, outcome>>
        /\ \/ tree' = ldap' /\ doing' = NoCall
           \/ tree' = tree /\ doing' = doing
    BY <2>1, <2>2 DEF Write
  <2>4. /\ ldap' \in Directory /\ ldap'.present = ldap.present
        /\ ldap'.active = ldap.active \ {j} /\ ldap'.revoked = ldap.revoked
        /\ ldap'.name = ldap.name /\ ldap'.idle = [ldap.idle EXCEPT ![j] = 0]
    BY <2>2, <2>3, SwitchedFields DEF DirectInv, TypeOK
  <2>5. TypeOK'
    BY <1>1, <2>3, <2>4, NoCallFields DEF DirectInv, TypeOK, boundVars
  <2>6. EntriesInv'
    <3>1. WellFormed(ldap)'
      BY <2>2, <2>4, Fields, ConstantFacts DEF DirectInv, EntriesInv, WellFormed
    <3>2. \A i \in ldap'.present \ ldap'.active : ldap'.idle[i] <= quiet'[i]
      <4>1. quiet[j] >= 0
        BY <2>2, ConstantFacts DEF DirectInv, TypeOK
      <4> QED BY <1>1, <2>2, <2>4, <4>1, Fields DEF DirectInv, EntriesInv
    <3>3. /\ ldap'.active \cap ldap'.revoked \subseteq waived'
          /\ \A i \in ldap'.revoked \ waived' : zone'[i] # i
      BY <1>1, <2>4 DEF DirectInv, EntriesInv
    <3> QED BY <3>1, <3>2, <3>3 DEF EntriesInv
  <2>7. NoOrphanRecord' /\ ActiveKeyPublished'
    BY <1>1, <2>4 DEF DirectInv, NoOrphanRecord, ActiveKeyPublished
  <2>8. TreeInv'
    <3>1. CASE tree' = ldap'
      BY <2>6, <3>1 DEF TreeInv, Snapshot, UpToDate, EntriesInv, WellFormed
    <3>2. CASE tree' = tree /\ doing' = doing
      BY <1>1, <1>2, <2>4, <3>2 DEF TreeInv, Snapshot, WellFormed
    <3> QED BY <2>3, <3>1, <3>2
  <2>9. CallInv'
    BY <1>1, <1>2, <2>2, <2>3, <2>4, NoCallFields DEF CallInv
  <2> QED BY <2>5, <2>6, <2>7, <2>8, <2>9 DEF DirectInv
<1> QED BY <1>3, <1>4

\* A tombstone takes the place of a record that no active key needs.
LEMMA BuryKeyKeeps ==
  ASSUME DirectInv, BuryKey
  PROVE  DirectInv'
<1> DEFINE k == doing.key
<1>1. /\ doing.do = "tombstone" /\ doing' = Call("revoke", k)
      /\ PutRecord(tree.name[k], Tombstone) /\ waived' = waived
      /\ UNCHANGED <<ldap, tree, phase, queue, outcome, wildcard, boundVars>>
  BY DEF BuryKey, Put, SameBounds
<1>2. /\ Running' /\ k \in Keys /\ k \in Names /\ Snapshot(tree) /\ UpToDate(tree)
      /\ k \in tree.present \ ldap.active /\ k # Tombstone
  BY <1>1, InCall, ConstantFacts DEF DirectInv, CallInv
<1>3. tree.name[k] = k
  BY <1>2 DEF Snapshot, WellFormed
<1>4. doing' \in CallShape /\ doing'.do = "revoke" /\ doing'.key = k
  BY <1>1, <1>2, CallFields DEF Calls
<1> HIDE DEF k
<1>5. /\ zone' \in [Names -> Names \cup {Tombstone, NoRecord}]
      /\ zone'[k] = Tombstone /\ (\A m \in Names \ {k} : zone'[m] = zone[m])
      /\ cached' \subseteq Names \X Keys
      /\ buried' \in [Names -> 0..Horizon] /\ quiet' = quiet
  BY <1>1, <1>2, <1>3, PutFields DEF DirectInv
<1>6. \A j \in Keys : zone[j] # j => zone'[j] # j
  BY <1>2, <1>5, ConstantFacts
<1>7. TypeOK'
  BY <1>1, <1>4, <1>5 DEF DirectInv, TypeOK, boundVars
<1>8. EntriesInv'
  BY <1>1, <1>5, <1>6, Fields DEF DirectInv, EntriesInv, WellFormed
<1>9. NoOrphanRecord'
  BY <1>1, <1>2, <1>5 DEF DirectInv, NoOrphanRecord, Snapshot
<1>10. ActiveKeyPublished'
  BY <1>1, <1>2, <1>5, Fields, ConstantFacts DEF DirectInv, ActiveKeyPublished
<1>11. TreeInv'
  <2>1. Snapshot(tree)'
    BY <1>1, <1>2, <1>6, Fields DEF Snapshot, WellFormed
  <2>2. UpToDate(tree)'
    BY <1>1, <1>2, <1>5 DEF UpToDate
  <2> QED BY <2>1, <2>2 DEF TreeInv
<1>12. CallInv'
  BY <1>1, <1>2, <1>4, <1>5 DEF CallInv
<1> QED BY <1>7, <1>8, <1>9, <1>10, <1>11, <1>12 DEF DirectInv

LEMMA RevokeKeyKeeps ==
  ASSUME DirectInv, RevokeKey
  PROVE  DirectInv'
<1> DEFINE k == doing.key
<1>1. /\ doing.do = "revoke" /\ tree' = ldap'
      /\ UNCHANGED <<zone, cached, historyVars, wildcard, boundVars>>
  BY DEF RevokeKey, Write, SameRecords, SameBounds
<1>2. /\ (phase' = phase => Running') /\ k \in Keys
      /\ k \notin ldap.active /\ zone[k] # k
  BY <1>1, InCall DEF DirectInv, CallInv
<1>3. CASE k \notin ldap.present
  <2>1. /\ ldap' = ldap /\ phase' = "idle" /\ doing' = NoCall /\ queue' = {}
        /\ outcome' = "failed"
    BY <1>3 DEF RevokeKey, Write
  <2> QED BY <1>1, <2>1, WriteFails
<1>4. CASE k \in ldap.present
  <2>1. /\ ldap' = Revoked(ldap, k) /\ doing' = Call("clean", NoKey)
        /\ UNCHANGED <<phase, queue, outcome>>
    BY <1>4, DirectAssumption DEF RevokeKey, Write, AfterDelete
  <2>2. /\ ldap' \in Directory /\ ldap'.present = ldap.present
        /\ ldap'.active = ldap.active /\ ldap'.revoked = ldap.revoked \cup {k}
        /\ ldap'.name = ldap.name /\ ldap'.idle = [ldap.idle EXCEPT ![k] = 0]
    BY <1>2, <2>1, RevokedFields DEF DirectInv, TypeOK
  <2>3. doing' \in CallShape /\ doing'.do = "clean"
    BY <2>1, CallFields DEF Calls
  <2> HIDE DEF k
  <2>4. TypeOK'
    BY <1>1, <2>1, <2>2, <2>3 DEF DirectInv, TypeOK, boundVars, historyVars
  <2>5. EntriesInv'
    <3>1. WellFormed(ldap)'
      BY <1>2, <1>4, <2>2, Fields, ConstantFacts DEF DirectInv, EntriesInv, WellFormed
    <3>2. \A j \in ldap'.present \ ldap'.active : ldap'.idle[j] <= quiet'[j]
      <4>1. quiet[k] >= 0
        BY <1>2, ConstantFacts DEF DirectInv, TypeOK
      <4> QED BY <1>1, <1>2, <2>2, <4>1, Fields DEF DirectInv, EntriesInv, historyVars
    <3>3. /\ ldap'.active \cap ldap'.revoked \subseteq waived'
          /\ \A j \in ldap'.revoked \ waived' : zone'[j] # j
      BY <1>1, <1>2, <2>2 DEF DirectInv, EntriesInv, historyVars
    <3> QED BY <3>1, <3>2, <3>3 DEF EntriesInv
  <2>6. NoOrphanRecord' /\ ActiveKeyPublished'
    BY <1>1, <2>2 DEF DirectInv, NoOrphanRecord, ActiveKeyPublished, historyVars
  <2>7. TreeInv'
    BY <1>1, <2>5 DEF TreeInv, Snapshot, UpToDate, EntriesInv, WellFormed
  <2>8. CallInv'
    BY <1>2, <2>1, <2>3 DEF CallInv
  <2> QED BY <2>4, <2>5, <2>6, <2>7, <2>8 DEF DirectInv
<1> QED BY <1>3, <1>4

\* The record goes, and then the entry.
LEMMA EraseKeeps ==
  ASSUME DirectInv, Erase
  PROVE  DirectInv'
<1> DEFINE k == doing.key
<1>1. /\ doing.do = "erase" /\ doing' = Call("drop", k)
      /\ PutRecord(tree.name[k], NoRecord) /\ waived' = waived
      /\ UNCHANGED <<ldap, tree, phase, queue, outcome, wildcard, boundVars>>
  BY DEF Erase, Put, SameBounds
<1>2. /\ Running' /\ k \in Keys /\ k \in Names /\ Snapshot(tree) /\ UpToDate(tree)
      /\ k \in ldap.active => k \in waived
  BY <1>1, InCall, ConstantFacts DEF DirectInv, CallInv
<1>3. tree.name[k] = k
  BY <1>2 DEF Snapshot, WellFormed
<1>4. doing' \in CallShape /\ doing'.do = "drop" /\ doing'.key = k
  BY <1>1, <1>2, CallFields DEF Calls
<1> HIDE DEF k
<1>5. /\ zone' \in [Names -> Names \cup {Tombstone, NoRecord}]
      /\ zone'[k] = NoRecord /\ (\A m \in Names \ {k} : zone'[m] = zone[m])
      /\ cached' \subseteq Names \X Keys
      /\ buried' \in [Names -> 0..Horizon] /\ quiet' = quiet
  BY <1>1, <1>2, <1>3, PutFields DEF DirectInv
<1>6. \A j \in Keys : zone[j] # j => zone'[j] # j
  BY <1>2, <1>5, ConstantFacts
<1>7. TypeOK'
  BY <1>1, <1>4, <1>5 DEF DirectInv, TypeOK, boundVars
<1>8. EntriesInv'
  BY <1>1, <1>5, <1>6, Fields DEF DirectInv, EntriesInv, WellFormed
<1>9. NoOrphanRecord' /\ ActiveKeyPublished'
  BY <1>1, <1>2, <1>5, Fields, ConstantFacts DEF DirectInv, NoOrphanRecord,
     ActiveKeyPublished
<1>10. TreeInv'
  <2>1. Snapshot(tree)'
    BY <1>1, <1>2, <1>6, Fields DEF Snapshot, WellFormed
  <2>2. UpToDate(tree)'
    BY <1>1, <1>2, <1>5 DEF UpToDate
  <2> QED BY <2>1, <2>2 DEF TreeInv
<1>11. CallInv'
  BY <1>1, <1>2, <1>4, <1>5 DEF CallInv
<1> QED BY <1>7, <1>8, <1>9, <1>10, <1>11 DEF DirectInv

LEMMA DropKeeps ==
  ASSUME DirectInv, Drop
  PROVE  DirectInv'
<1> DEFINE k == doing.key
<1>1. /\ doing.do = "drop" /\ tree' = Dropped(tree, k)
      /\ doing' = Call("clean", NoKey)
      /\ ldap' = IF k \in ldap.present THEN Dropped(ldap, k) ELSE ldap
      /\ UNCHANGED <<zone, cached, historyVars, wildcard, boundVars, phase, queue,
                     outcome>>
  BY DirectAssumption DEF Drop, AfterDelete, SameRecords, SameBounds
<1>2. /\ Running' /\ k \in Keys /\ Snapshot(tree) /\ UpToDate(tree)
      /\ zone[k] = NoRecord /\ NoRecord # k
  BY <1>1, InCall, ConstantFacts DEF DirectInv, CallInv
<1> HIDE DEF k
<1>3. /\ tree' \in Directory /\ tree'.present = tree.present \ {k}
      /\ tree'.active = tree.active \ {k} /\ tree'.revoked = tree.revoked \ {k}
      /\ tree'.name = [tree.name EXCEPT ![k] = k]
      /\ tree'.idle = [tree.idle EXCEPT ![k] = 0]
  BY <1>1, <1>2, Fields, DroppedFields
<1>4. WellFormed(ldap)
  BY DEF DirectInv, EntriesInv
<1>5. /\ ldap' \in Directory /\ ldap'.present = ldap.present \ {k}
      /\ ldap'.active = ldap.active \ {k} /\ ldap'.revoked = ldap.revoked \ {k}
      /\ \A j \in Keys : ldap'.name[j] = j /\ ldap'.idle[j] <= Horizon
      /\ \A j \in Keys \ {k} : ldap'.idle[j] = ldap.idle[j]
  <2>1. CASE k \in ldap.present
    <3>1. /\ ldap' \in Directory /\ ldap'.present = ldap.present \ {k}
          /\ ldap'.active = ldap.active \ {k} /\ ldap'.revoked = ldap.revoked \ {k}
          /\ ldap'.name = [ldap.name EXCEPT ![k] = k]
          /\ ldap'.idle = [ldap.idle EXCEPT ![k] = 0]
      BY <1>1, <1>2, <2>1, Fields, DroppedFields
    <3> QED BY <1>2, <1>4, <3>1, Fields, ConstantFacts DEF WellFormed
  <2>2. CASE k \notin ldap.present
    BY <1>1, <1>4, <2>2, Fields DEF WellFormed
  <2> QED BY <2>1, <2>2
<1>6. doing' \in CallShape /\ doing'.do = "clean"
  BY <1>1, CallFields DEF Calls
<1>7. TypeOK'
  BY <1>1, <1>3, <1>5, <1>6 DEF DirectInv, TypeOK, boundVars, historyVars
<1>8. EntriesInv'
  BY <1>1, <1>4, <1>5, Fields DEF DirectInv, EntriesInv, WellFormed, historyVars
<1>9. NoOrphanRecord' /\ ActiveKeyPublished'
  BY <1>1, <1>2, <1>5 DEF DirectInv, NoOrphanRecord, ActiveKeyPublished, historyVars
<1>10. TreeInv'
  <2>1. WellFormed(tree)'
    BY <1>2, <1>3, Fields, ConstantFacts DEF Snapshot, WellFormed
  <2>2. Snapshot(tree)'
    BY <1>1, <1>2, <1>3, <1>5, <2>1 DEF Snapshot, historyVars
  <2>3. UpToDate(tree)'
    BY <1>1, <1>2, <1>3, <1>5, Fields DEF UpToDate, historyVars
  <2> QED BY <2>2, <2>3 DEF TreeInv
<1>11. CallInv'
  BY <1>2, <1>6 DEF CallInv
<1> QED BY <1>7, <1>8, <1>9, <1>10, <1>11 DEF DirectInv

\* Only active selectors are brought in line, and those are there.
LEMMA ReconcileKeeps ==
  ASSUME DirectInv, Reconcile
  PROVE  DirectInv'
<1>1. /\ Running /\ doing = NoCall
      /\ UNCHANGED <<zone, cached, historyVars, wildcard, boundVars>>
  BY DEF Reconcile, Write, SameRecords, SameBounds, Running
<1>2. doing.do = "none"
  BY <1>1, NoCallFields
<1>3. PICK seen \in Seen :
        IF Drifted(seen) = {}
        THEN /\ Proceed("addNew") /\ tree' = seen /\ UNCHANGED <<ldap, doing>>
        ELSE \E k \in Drifted(seen) :
               LET fixed(d) == [Modified(d, k) EXCEPT
                     !.wild = IF wildcard THEN @ \cup {k} ELSE @ \ {k}] IN
               /\ Write(k, NoCall, fixed)
               /\ tree' = [seen EXCEPT !.wild = ldap'.wild]
  BY DEF Reconcile
<1>4. seen \in Directory /\ Snapshot(seen) /\ UpToDate(seen)
  BY <1>1, <1>2, SeenIsSnapshot
<1>5. CASE Drifted(seen) = {}
  <2>1. /\ tree' = seen /\ ldap' = ldap /\ doing' = NoCall /\ phase' = "addNew"
        /\ UNCHANGED <<queue, outcome>>
    BY <1>1, <1>3, <1>5 DEF Proceed
  <2> QED BY <1>1, <1>2, <2>1, QuietEnd DEF Phases, DirectInv, TypeOK
<1>6. CASE Drifted(seen) # {}
  <2>1. PICK k \in Drifted(seen) :
          LET fixed(d) == [Modified(d, k) EXCEPT
                !.wild = IF wildcard THEN @ \cup {k} ELSE @ \ {k}] IN
          /\ Write(k, NoCall, fixed)
          /\ tree' = [seen EXCEPT !.wild = ldap'.wild]
    BY <1>3, <1>6
  <2>2. k \in ldap.active /\ k \in ldap.present /\ k \in Keys
    BY <1>4, Fields DEF Drifted, UpToDate, DirectInv, EntriesInv, WellFormed
  <2> DEFINE m == Modified(ldap, k)
             w == IF wildcard THEN m.wild \cup {k} ELSE m.wild \ {k}
  <2>3. /\ ldap' = [m EXCEPT !.wild = w] /\ doing' = NoCall
        /\ UNCHANGED <<phase, queue, outcome>>
        /\ tree' = [seen EXCEPT !.wild = ldap'.wild]
    BY <2>1, <2>2 DEF Write
  <2>4. /\ m \in Directory /\ m.present = ldap.present /\ m.active = ldap.active
        /\ m.revoked = ldap.revoked /\ m.name = ldap.name
        /\ m.idle = [ldap.idle EXCEPT ![k] = 0]
    BY <2>2, Fields, ModifiedFields
  <2>5. w \subseteq Keys
    BY <2>2, <2>4, FieldTypes
  <2> HIDE DEF m, w
  <2>6. /\ ldap' \in Directory /\ ldap'.present = ldap.present
        /\ ldap'.active = ldap.active /\ ldap'.revoked = ldap.revoked
        /\ ldap'.name = ldap.name /\ ldap'.idle = [ldap.idle EXCEPT ![k] = 0]
        /\ ldap'.wild = w
    BY <2>3, <2>4, <2>5 DEF Directory
  <2>7. /\ tree' \in Directory /\ tree'.present = seen.present
        /\ tree'.active = seen.active /\ tree'.revoked = seen.revoked
        /\ tree'.name = seen.name /\ tree'.idle = seen.idle
    BY <1>4, <2>3, <2>5, <2>6 DEF Directory
  <2>8. TypeOK'
    BY <1>1, <2>3, <2>6, <2>7, NoCallFields DEF DirectInv, TypeOK, boundVars,
       historyVars
  <2>9. EntriesInv'
    <3>1. WellFormed(ldap)'
      BY <2>2, <2>6, Fields, ConstantFacts DEF DirectInv, EntriesInv, WellFormed
    <3> QED BY <1>1, <2>2, <2>6, <3>1, Fields DEF DirectInv, EntriesInv, historyVars
  <2>10. NoOrphanRecord' /\ ActiveKeyPublished'
    BY <1>1, <2>6 DEF DirectInv, NoOrphanRecord, ActiveKeyPublished, historyVars
  <2>11. TreeInv'
    <3>1. Snapshot(tree)'
      BY <1>1, <1>4, <2>6, <2>7 DEF Snapshot, WellFormed, historyVars
    <3>2. UpToDate(tree)'
      BY <1>1, <1>4, <2>6, <2>7 DEF UpToDate, historyVars
    <3> QED BY <3>1, <3>2 DEF TreeInv
  <2>12. CallInv'
    BY <2>3, NoCallFields DEF CallInv
  <2> QED BY <2>8, <2>9, <2>10, <2>11, <2>12 DEF DirectInv
<1> QED BY <1>5, <1>6

-----------------------------------------------------------------------------
LEMMA InitHolds ==
  ASSUME Init
  PROVE  DirectInv
<1>1. EmptyDirectory \in Directory
  BY ConstantFacts DEF EmptyDirectory, Directory
<1>2. TypeOK
  <2>1. /\ 0 \in 0..Horizon /\ Horizon \in 0..Horizon
        /\ MaxOperator \in 0..MaxOperator /\ MaxFaults \in 0..MaxFaults
    BY ConstantFacts
  <2>2. /\ quiet \in [Keys -> 0..Horizon] /\ buried \in [Names -> 0..Horizon]
        /\ zone \in [Names -> Names \cup {Tombstone, NoRecord}]
    BY <2>1 DEF Init
  <2>3. phase \in Phases /\ doing \in CallShape
    BY NoCallFields DEF Init, Phases
  <2> QED BY <1>1, <2>1, <2>2, <2>3 DEF Init, TypeOK
<1>3. EntriesInv
  BY ConstantFacts DEF Init, EntriesInv, WellFormed, EmptyDirectory
<1>4. TreeInv /\ CallInv
  BY NoCallFields DEF Init, TreeInv, CallInv, Running
<1>5. NoOrphanRecord /\ ActiveKeyPublished
  BY DEF Init, NoOrphanRecord, ActiveKeyPublished, EmptyDirectory
<1> QED BY <1>2, <1>3, <1>4, <1>5 DEF DirectInv

LEMMA CallStepKeeps ==
  ASSUME DirectInv, CallStep
  PROVE  DirectInv'
BY StoreKeeps, PublishKeeps, TestKeyKeeps, TestKeyPassesKeeps, EnableKeeps,
   DisableKeeps, RetireKeeps, BuryKeyKeeps, RevokeKeyKeeps, CleanKeeps, EraseKeeps,
   DropKeeps, EndKeeps DEF CallStep

LEMMA NextKeeps ==
  ASSUME DirectInv, [Next]_vars
  PROVE  DirectInv'
<1>1. CASE RunStep
  BY <1>1, CallStepKeeps, ReconcileKeeps, DecideKeeps, SweepKeeps, VisitKeeps,
     EndKeeps DEF RunStep, AutoStep
<1>2. CASE Around
  BY <1>2, RunAutoKeeps, CreateKeeps, TickKeeps, ConfigureKeeps, AbortKeeps,
     ActiveKeeps, DeleteKeeps, VanishKeeps DEF Around
<1>3. CASE UNCHANGED vars
  BY <1>3 DEF vars, runVars, historyVars, boundVars, DirectInv, TypeOK, EntriesInv,
     TreeInv, CallInv, Snapshot, UpToDate, WellFormed, Running, NoOrphanRecord,
     ActiveKeyPublished
<1> QED BY <1>1, <1>2, <1>3 DEF Next

\* What holds between any two calls, on the way to the theorems below.
THEOREM DirectInvariance == Spec => []DirectInv
<1>1. Init => DirectInv
  BY InitHolds
<1>2. DirectInv /\ [Next]_vars => DirectInv'
  BY NextKeeps
<1> QED BY <1>1, <1>2, PTL DEF Spec

-----------------------------------------------------------------------------
(* Which steps touch the entries and the records.                          *)

EntrySteps == \/ Store \/ Enable \/ Disable \/ RevokeKey \/ Drop \/ Reconcile \/ Tick
              \/ \E k \in Keys : Vanish(k)
RecordSteps == \/ Publish \/ BuryKey \/ Erase \/ \E k \in Keys : Vanish(k)

LEMMA RunSteps ==
  ASSUME RunStep
  PROVE  /\ EntrySteps \/ ldap' = ldap
         /\ RecordSteps \/ zone' = zone
<1>1. CASE CallStep
  BY <1>1 DEF CallStep, EntrySteps, RecordSteps, Store, TestKey, TestKeyPasses, Enable,
     Disable, Retire, RevokeKey, Clean, Drop, EndCommand, Publish, BuryKey, Erase,
     SameRecords
<1>2. CASE AutoStep
  BY <1>2 DEF AutoStep, EntrySteps, Reconcile, AddNew, AddMissing, Rotate, Decide,
     SameRecords
<1>3. CASE Sweep \/ Visit \/ EndAuto
  BY <1>3 DEF Sweep, Visit, EndAuto, SameRecords
<1> QED BY <1>1, <1>2, <1>3 DEF RunStep

LEMMA AroundSteps ==
  ASSUME Around
  PROVE  /\ EntrySteps \/ ldap' = ldap
         /\ RecordSteps \/ zone' = zone
<1>1. CASE RunAuto \/ Create \/ Tick \/ Configure \/ Abort
  BY <1>1 DEF EntrySteps, RunAuto, Create, Command, Begin, Tick, Configure, Abort,
     SameRecords
<1>2. ASSUME NEW k \in Keys, Active(k) \/ Delete(k)
      PROVE  ldap' = ldap /\ zone' = zone
  BY <1>2 DEF Active, Delete, Command, Forced, Begin
<1>3. ASSUME NEW k \in Keys, Vanish(k)
      PROVE  EntrySteps /\ RecordSteps
  BY <1>3 DEF EntrySteps, RecordSteps
<1> QED BY <1>1, <1>2, <1>3 DEF Around

\* An unwaived active key, or the one it made room for, stays active.
LEMMA SignerStays ==
  ASSUME DirectInv, EntrySteps, NEW j \in ldap.active \ waived
  PROVE  ldap'.active # {}
<1> DEFINE k == doing.key
<1>1. CASE Store
  <2>1. PICK i \in Fresh : ldap' = Stored(ldap, i)
    BY <1>1 DEF Store
  <2> QED BY <2>1, Fields, StoredFields DEF Fresh, DirectInv, TypeOK
<1>2. CASE Enable
  <2>1. k \in Keys
    BY <1>2, InCall DEF Enable
  <2>2. ldap' = ldap \/ ldap' = Enabled(ldap, k)
    BY <1>2 DEF Enable, Write
  <2> HIDE DEF k
  <2>3. Enabled(ldap, k).active = ldap.active \cup {k}
    BY <2>1, Fields, SwitchedFields
  <2> QED BY <2>2, <2>3
<1>3. CASE Disable
  <2>1. k \in ldap.active
    BY <1>3 DEF Disable, DirectInv, CallInv
  <2>2. ldap' = ldap \/ \E i \in Others(k) : ldap' = Disabled(ldap, i)
    BY <1>3 DEF Disable, Write
  <2>3. ASSUME NEW i \in Others(k), ldap' = Disabled(ldap, i)
        PROVE  k \in ldap'.active
    <3>1. i \in Keys /\ i # k
      BY Fields DEF Others
    <3>2. Disabled(ldap, i).active = ldap.active \ {i}
      BY <3>1, Fields, SwitchedFields
    <3> QED BY <2>1, <2>3, <3>1, <3>2
  <2> QED BY <2>1, <2>2, <2>3
<1>4. CASE RevokeKey
  <2>1. k \in Keys
    BY <1>4, InCall DEF RevokeKey
  <2>2. ldap' = ldap \/ ldap' = Revoked(ldap, k)
    BY <1>4 DEF RevokeKey, Write
  <2> HIDE DEF k
  <2>3. Revoked(ldap, k).active = ldap.active
    BY <2>1, Fields, RevokedFields
  <2> QED BY <2>2, <2>3
<1>5. CASE Drop
  <2>1. k \in Keys /\ (k \in ldap.active => k \in waived)
    BY <1>5, InCall DEF Drop, DirectInv, CallInv
  <2>2. ldap' = ldap \/ ldap' = Dropped(ldap, k)
    BY <1>5 DEF Drop
  <2>3. j # k
    BY <2>1
  <2> HIDE DEF k
  <2>4. Dropped(ldap, k).active = ldap.active \ {k}
    BY <2>1, Fields, DroppedFields
  <2> QED BY <2>2, <2>3, <2>4
<1>6. CASE Reconcile
  <2>1. ldap' = ldap \/ \E i, w : ldap' = [Modified(ldap, i) EXCEPT !.wild = w]
    BY <1>6 DEF Reconcile, Write
  <2>2. ASSUME NEW i, NEW w, ldap' = [Modified(ldap, i) EXCEPT !.wild = w]
        PROVE  ldap'.active = ldap.active
    BY <2>2, Fields DEF Modified, Directory
  <2> QED BY <2>1, <2>2
<1>7. CASE Tick
  <2>1. ldap'.active = ldap.active
    BY <1>7, Fields DEF Tick, Directory
  <2> QED BY <2>1
<1>8. ASSUME NEW i \in Keys, Vanish(i)
      PROVE  j \in ldap'.active
  <2>1. ldap' = Dropped(ldap, i) /\ i \notin ldap.active
    BY <1>8 DEF Vanish
  <2>2. Dropped(ldap, i).active = ldap.active \ {i}
    BY Fields, DroppedFields
  <2> QED BY <2>1, <2>2
<1> QED BY <1>1, <1>2, <1>3, <1>4, <1>5, <1>6, <1>7, <1>8 DEF EntrySteps

\* A complete record goes when its key was quiet, or is waived.
LEMMA QuietWhenGone ==
  ASSUME DirectInv, RecordSteps, NEW j \in Keys \ waived', zone[j] = j, zone'[j] # j
  PROVE  quiet[j] > DeleteDelay
<1> DEFINE k == doing.key
<1>1. j \in Names
  BY ConstantFacts
<1>2. CASE Publish
  <2>1. k \in Names /\ PutRecord(k, k)
    BY <1>2, InCall, ConstantFacts DEF Publish, Put
  <2> QED BY <1>1, <2>1, PutFields DEF DirectInv
<1>3. CASE BuryKey
  <2>1. /\ k \in Keys /\ k \in Names /\ Snapshot(tree) /\ waived' = waived
        /\ PutRecord(tree.name[k], Tombstone)
        /\ k \in waived \/ quiet[k] > DeleteDelay
    BY <1>3, InCall, ConstantFacts DEF BuryKey, Put, DirectInv, CallInv
  <2>2. PutRecord(k, Tombstone)
    BY <2>1 DEF Snapshot, WellFormed
  <2> QED BY <1>1, <2>1, <2>2, PutFields DEF DirectInv
<1>4. CASE Erase
  <2>1. /\ k \in Keys /\ k \in Names /\ Snapshot(tree) /\ waived' = waived
        /\ PutRecord(tree.name[k], NoRecord)
        /\ k \in waived \/ zone[k] # k
    BY <1>4, InCall, ConstantFacts DEF Erase, Put, DirectInv, CallInv
  <2>2. PutRecord(k, NoRecord)
    BY <2>1 DEF Snapshot, WellFormed
  <2> QED BY <1>1, <2>1, <2>2, PutFields DEF DirectInv
<1>5. ASSUME NEW i \in Keys, Vanish(i)
      PROVE  FALSE
  <2>1. PutRecord(i, NoRecord) /\ i \in waived' /\ i \in Names
    BY <1>5, ConstantFacts DEF Vanish, DirectInv, EntriesInv, WellFormed
  <2> QED BY <1>1, <2>1, PutFields DEF DirectInv
<1> QED BY <1>2, <1>3, <1>4, <1>5 DEF RecordSteps

-----------------------------------------------------------------------------
(* Theorems.                                                               *)

\* Entries, snapshot, records and calls keep their shapes (TypeOK).
THEOREM TypeCorrectness == Spec => []TypeOK
<1>1. DirectInv => TypeOK
  BY DEF DirectInv
<1> QED BY <1>1, DirectInvariance, PTL

\* No write of CmdCreate or CmdDelete, complete or broken off, leaves a record
\* at a name that has no LDAP entry (NoOrphanRecord).
THEOREM RecordsHaveEntries == Spec => []NoOrphanRecord
<1>1. DirectInv => NoOrphanRecord
  BY DEF DirectInv
<1> QED BY <1>1, DirectInvariance, PTL

\* A key that CmdActive enabled on a record it saw keeps that record as long
\* as it is active (ActiveKeyPublished).
THEOREM ActiveHasRecord == Spec => []ActiveKeyPublished
<1>1. DirectInv => ActiveKeyPublished
  BY DEF DirectInv
<1> QED BY <1>1, DirectInvariance, PTL

\* No step takes the last active key from a domain whose key was seen in DNS
\* (NeverUnsigned): the others are disabled only once a new one is enabled.
THEOREM AlwaysSigned == Spec => NeverUnsigned
<1>1. DirectInv /\ [Next]_vars
      => [ldap.active \ waived # {} => ldap'.active # {}]_vars
  <2>1. SUFFICES ASSUME DirectInv, Next, NEW j \in ldap.active \ waived
                 PROVE  ldap'.active # {}
    OBVIOUS
  <2>2. EntrySteps \/ ldap' = ldap
    BY <2>1, RunSteps, AroundSteps DEF Next
  <2> QED BY <2>1, <2>2, SignerStays
<1> QED BY <1>1, DirectInvariance, PTL DEF Spec, NeverUnsigned

\* CmdDelete takes a complete record only when the key has not signed for more
\* than delete_delay days (QuietBeforeRetirement).
THEOREM RetiredWhenQuiet == Spec => QuietBeforeRetirement
<1> DEFINE Quiet == \A k \in Keys \ waived' :
                      zone[k] = k /\ zone'[k] # k => quiet[k] > DeleteDelay
<1>1. DirectInv /\ [Next]_vars => [Quiet]_vars
  <2>1. SUFFICES ASSUME DirectInv, Next, NEW k \in Keys \ waived', zone[k] = k,
                        zone'[k] # k
                 PROVE  quiet[k] > DeleteDelay
    OBVIOUS
  <2>2. RecordSteps
    BY <2>1, RunSteps, AroundSteps DEF Next
  <2> QED BY <2>1, <2>2, QuietWhenGone
<1> QED BY <1>1, DirectInvariance, PTL DEF Spec, QuietBeforeRetirement
=============================================================================
