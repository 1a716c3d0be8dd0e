------------------------- MODULE DnsRecords_proofs -------------------------
(***************************************************************************)
(* Proofs about DnsRecords for any number of callers, names, keys, faults  *)
(* and edits, any tasks and any record sets in the zone.                   *)
(***************************************************************************)
EXTENDS DnsInvariant, TLAPS

-----------------------------------------------------------------------------
(* What a step leaves alone.                                               *)

\* The call of d is not the one that takes the step.
Untouched(d) ==
  /\ pc'[d] = pc[d] /\ goal'[d] = goal[d] /\ left'[d] = left[d]
  /\ at'[d] = at[d] /\ observed'[d] = observed[d] /\ reply'[d] = reply[d]
  /\ result'[d] = result[d] /\ applied'[d] = applied[d]

\* What holds of the records of d still does, or their loss is on record.
HoldsKept(d) ==
  /\ gone[d] \subseteq gone'[d]
  /\ \A r \in goal[d] : /\ Holds(d, r) => Holds(d, r)'
                        /\ Holds(d, r) /\ Visible(d, r) => Visible(d, r)'

\* Nothing outside the call changes.
QuietWorld == UNCHANGED <<zone, cached, cache, gone>>

LEMMA QuietKeeps ==
  ASSUME QuietWorld, NEW d \in Callers
  PROVE  HoldsKept(d)
BY DEF QuietWorld, HoldsKept, Holds, Visible, Exact, Resolved

\* A change of the zone is noted in the history of every call it concerns.
LEMMA ZoneChangeKeeps ==
  ASSUME TypeOK, NEW next, SetZone(next), UNCHANGED <<cached, cache>>,
         NEW d \in Callers
  PROVE  HoldsKept(d)
<1>1. gone'[d] = gone[d] \cup {r \in goal[d] : /\ Exact(zone[r.owner], r.key)
                                             /\ ~ Exact(next[r.owner], r.key)}
  BY DEF SetZone, Losses
<1>2. zone' = next
  BY DEF SetZone
<1>3. ASSUME NEW r \in goal[d], Holds(d, r) PROVE Holds(d, r)'
  BY <1>1, <1>2, <1>3 DEF Holds, Exact
<1>4. ASSUME NEW r \in goal[d], Holds(d, r), Visible(d, r) PROVE Visible(d, r)'
  <2>1. Holds(d, r)'
    BY <1>3, <1>4
  <2>2. r \notin gone'[d] => r \notin gone[d]
    BY <1>1
  <2>3. CASE r.owner \in cached
    <3>1. Resolved(r.owner)' = Resolved(r.owner)
      BY <2>3 DEF Resolved
    <3> QED BY <3>1, <2>2, <1>4 DEF Visible, Exact
  <2>4. CASE r.owner \notin cached
    <3>1. Resolved(r.owner)' = zone'[r.owner]
      BY <2>4 DEF Resolved
    <3> QED BY <3>1, <2>1 DEF Visible, Holds, Exact
  <2> QED BY <2>3, <2>4
<1> QED BY <1>1, <1>3, <1>4 DEF HoldsKept

\* What the resolver comes to answer is what it answered or what is there.
LEMMA CacheChangeKeeps ==
  ASSUME UNCHANGED <<zone, gone>>, NEW d \in Callers,
         \A r \in goal[d] : Resolved(r.owner)' \in {Resolved(r.owner), zone[r.owner]}
  PROVE  HoldsKept(d)
<1>1. \A r \in goal[d] : Holds(d, r)' <=> Holds(d, r)
  BY DEF Holds, Exact
<1>2. ASSUME NEW r \in goal[d], Holds(d, r), Visible(d, r) PROVE Visible(d, r)'
  <2>1. CASE Resolved(r.owner)' = Resolved(r.owner)
    BY <2>1, <1>2 DEF Visible, Exact
  <2>2. CASE Resolved(r.owner)' = zone[r.owner]
    BY <2>2, <1>2 DEF Visible, Holds, Exact
  <2> QED BY <2>1, <2>2
<1> QED BY <1>1, <1>2 DEF HoldsKept

\* The invariant of a call survives the steps of others.
LEMMA OthersKeep ==
  ASSUME NEW d \in Callers, CallInv(d), Untouched(d), HoldsKept(d),
         asked \subseteq asked'
  PROVE  CallInv(d)'
<1>1. GoalInv(d)'
  BY DEF CallInv, GoalInv, Untouched, Publishing, Deleting, AskedFor
<1>2. WriteInv(d)'
  BY DEF CallInv, WriteInv, Untouched
<1>3. DeleteInv(d)'
  <2>1. /\ pc'[d] = pc[d] /\ goal'[d] = goal[d] /\ at'[d] = at[d]
        /\ observed'[d] = observed[d] /\ result'[d] = result[d]
        /\ gone[d] \subseteq gone'[d]
    BY DEF Untouched, HoldsKept
  <2>2. pc[d] = "deleteExchange" => observed[d] \in Encodings(at[d].key)
    BY DEF CallInv, DeleteInv
  <2>3. ASSUME pc[d] \in {"deleteExchange", "deleteReadback"} PROVE Holds(d, at[d])'
    <3>1. Deleting(d) /\ Holds(d, at[d])
      BY <2>3 DEF Deleting, CallInv, DeleteInv
    <3>2. at[d] \in goal[d]
      BY <3>1 DEF CallInv, GoalInv
    <3>3. ASSUME NEW r \in goal[d], Holds(d, r) PROVE Holds(d, r)'
      BY <3>3 DEF HoldsKept
    <3> QED BY <3>1, <3>2, <3>3, <2>1 DEF Holds
  <2>4. result[d] = "removed" => goal[d] \subseteq gone[d]
    BY DEF CallInv, DeleteInv
  <2> QED BY <2>1, <2>2, <2>3, <2>4 DEF DeleteInv, Encodings, Holds
<1>4. ProofInv(d)'
  <2>1. /\ pc'[d] = pc[d] /\ goal'[d] = goal[d] /\ left'[d] = left[d]
        /\ at'[d] = at[d] /\ result'[d] = result[d]
    BY DEF Untouched
  <2>2. \A r \in goal[d] : /\ Holds(d, r) => Holds(d, r)'
                           /\ Holds(d, r) /\ Visible(d, r) => Visible(d, r)'
    BY DEF HoldsKept
  <2>3. ProofInv(d) /\ (pc[d] = "proveRecursive" => at[d] \in goal[d])
    BY DEF CallInv, GoalInv
  <2>4. Proving(d)' <=> Proving(d)
    BY <2>1 DEF Proving
  <2>5. pc'[d] = "proveRecursive" => Holds(d, at[d])'
    BY <2>1, <2>2, <2>3 DEF ProofInv
  <2> QED BY <2>1, <2>2, <2>3, <2>4, <2>5 DEF ProofInv, Holds
<1> QED BY <1>1, <1>2, <1>3, <1>4 DEF CallInv

-----------------------------------------------------------------------------
(* Types.                                                                  *)

LEMMA ClassifyType ==
  ASSUME NEW set, NEW k
  PROVE  /\ Classify(set, k) \in {"absent", "exact", "conflict"}
         /\ Classify(set, k) = "absent" <=> set = {}
         /\ Classify(set, k) = "exact" <=> Exact(set, k)
BY DEF Classify, Exact

\* Encodings of a key are values, and a record set that is exact is one.
LEMMA EncodingsAreValues ==
  ASSUME NEW k \in Keys
  PROVE  Encodings(k) \subseteq Values /\ <<k, "preferred">> \in Encodings(k)
BY DEF Encodings, Values, Forms

\* The local variables of a call, for steps that change nothing else.
CallTypes ==
  /\ pc \in [Callers -> Controls]
  /\ goal \in [Callers -> SUBSET Records] /\ left \in [Callers -> SUBSET Records]
  /\ at \in [Callers -> Records] /\ attempts \in [Callers -> 0..MaxAttempts]
  /\ observed \in [Callers -> Values]
  /\ reply \in [Callers -> Replies] /\ result \in [Callers -> Results]

ServerTypes ==
  /\ zone \in [Owners -> SUBSET Values]
  /\ cached \subseteq Owners /\ cache \in [Owners -> SUBSET Values]
  /\ late \subseteq Updates

HistoryTypes ==
  /\ applied \in [Callers -> BOOLEAN] /\ gone \in [Callers -> SUBSET Records]
  /\ asked \subseteq [what : {"publish", "delete"}, owner : Owners, key : Keys]

LEMMA TypeParts ==
  TypeOK <=> /\ ServerTypes /\ CallTypes /\ HistoryTypes
             /\ faults \in 0..MaxFaults /\ edits \in 0..MaxEdits
BY DEF TypeOK, ServerTypes, CallTypes, HistoryTypes

LEMMA FinishTypes ==
  ASSUME CallTypes, NEW c \in Callers, NEW outcome \in Results, Finish(c, outcome)
  PROVE  CallTypes'
BY DnsAssumption DEF CallTypes, Finish, Goto, Controls, Replies

LEMMA GotoTypes ==
  ASSUME CallTypes, NEW c \in Callers, NEW label \in Controls, Goto(c, label),
         UNCHANGED callVars
  PROVE  CallTypes'
BY DEF CallTypes, Goto, callVars

LEMMA EndExchangeTypes ==
  ASSUME CallTypes, NEW c \in Callers, NEW how \in Replies, EndExchange(c, how)
  PROVE  CallTypes'
BY DEF CallTypes, EndExchange, Goto, ReadbackOf, Controls

LEMMA PendingTypes ==
  ASSUME CallTypes, NEW c \in Callers, NEW state, Unproved(c, state)
  PROVE  CallTypes'
<1>1. CASE Finish(c, "failed")
  BY <1>1, FinishTypes DEF Results
<1>2. CASE StillPending(c) /\ attempts[c] + 1 < MaxAttempts
  <2>1. attempts[c] + 1 \in 0..MaxAttempts
    BY <1>2, DnsAssumption DEF CallTypes
  <2> QED BY <1>2, <2>1 DEF StillPending, CallTypes
<1> QED BY <1>1, <1>2 DEF Unproved, StillPending

LEMMA NextRecordTypes ==
  ASSUME CallTypes, NEW c \in Callers, NextRecord(c)
  PROVE  CallTypes'
<1> DEFINE rest == left[c] \ {at[c]}
<1>1. CASE rest = {}
  BY <1>1, FinishTypes DEF NextRecord, Results
<1>2. CASE rest # {}
  <2>1. rest \subseteq Records
    BY DEF CallTypes
  <2> HIDE DEF rest
  <2>2. 0 \in 0..MaxAttempts
    BY DnsAssumption
  <2>3. /\ Goto(c, "proveAuthoritative") /\ left' = [left EXCEPT ![c] = rest]
        /\ \E r \in rest : at' = [at EXCEPT ![c] = r]
        /\ attempts' = [attempts EXCEPT ![c] = 0]
        /\ UNCHANGED <<goal, observed, reply, result>>
    BY <1>2 DEF NextRecord, rest
  <2> QED BY <2>1, <2>2, <2>3 DEF CallTypes, Goto, Controls
<1> QED BY <1>1, <1>2

LEMMA UpdateType ==
  ASSUME CallTypes, NEW c \in Callers
  PROVE  /\ UpdateOf(c) \in Updates
         /\ UpdateOf(c).owner = at[c].owner /\ UpdateOf(c).key = at[c].key
<1>1. at[c] \in Records /\ observed[c] \in Values
  BY DEF CallTypes
<1>2. at[c].owner \in Owners /\ at[c].key \in Keys
  BY <1>1 DEF Records
<1> QED BY <1>1, <1>2, EncodingsAreValues DEF UpdateOf, Updates

\* Carrying out an update keeps the zone and the history well typed.
LEMMA AfterType ==
  ASSUME ServerTypes, NEW u \in Updates
  PROVE  After(u) \in SUBSET Values
<1>1. u.owner \in Owners /\ u.value \in Values
  BY DEF Updates
<1> QED BY <1>1 DEF After, ServerTypes

LEMMA ZoneTypes ==
  ASSUME ServerTypes, HistoryTypes, CallTypes, NEW o \in Owners,
         NEW set \in SUBSET Values, SetZone(ZoneWith(o, set))
  PROVE  /\ zone' \in [Owners -> SUBSET Values]
         /\ gone' \in [Callers -> SUBSET Records]
<1>1. zone' \in [Owners -> SUBSET Values]
  BY DEF SetZone, ZoneWith, ServerTypes
<1>2. gone' = Losses(ZoneWith(o, set))
  BY DEF SetZone
<1>3. ASSUME NEW c \in Callers
      PROVE  gone[c] \cup {r \in goal[c] : /\ Exact(zone[r.owner], r.key)
                               /\ ~ Exact(ZoneWith(o, set)[r.owner], r.key)}
             \in SUBSET Records
  BY DEF HistoryTypes, CallTypes
<1>4. gone' \in [Callers -> SUBSET Records]
  BY <1>2, <1>3 DEF Losses
<1> QED BY <1>1, <1>4

-----------------------------------------------------------------------------
(* The steps of a call keep its own invariant.                             *)

ActsAlone(c) == \A d \in Callers \ {c} : Untouched(d)

LEMMA AloneByGoto ==
  ASSUME CallTypes, HistoryTypes, NEW c \in Callers, NEW label, Goto(c, label),
         UNCHANGED <<goal, left, at, result, applied>>,
         \/ UNCHANGED observed
         \/ \E v \in Values : observed' = [observed EXCEPT ![c] = v],
         \/ UNCHANGED reply
         \/ \E how \in Replies : reply' = [reply EXCEPT ![c] = how]
  PROVE  ActsAlone(c)
BY DEF ActsAlone, Untouched, Goto, CallTypes

LEMMA AloneByFinish ==
  ASSUME CallTypes, NEW c \in Callers, NEW outcome, Finish(c, outcome),
         UNCHANGED applied
  PROVE  ActsAlone(c)
BY DEF ActsAlone, Untouched, Finish, Goto, CallTypes

\* A call that ends owes nothing but the truth of its report.
LEMMA FinishKeeps ==
  ASSUME CallTypes, NEW c \in Callers, NEW outcome, Finish(c, outcome),
         outcome = "created" => applied'[c],
         outcome = "removed" => goal[c] \subseteq gone'[c],
         outcome = "proved" => \A r \in goal[c] : Holds(c, r)' /\ Visible(c, r)',
         outcome \in {"created", "present"} => \A r \in goal[c] : Holds(c, r)'
  PROVE  CallInv(c)'
<1>1. /\ pc'[c] = "idle" /\ result'[c] = outcome /\ reply'[c] = "none"
      /\ goal'[c] = goal[c] /\ left'[c] = {}
  BY DEF Finish, Goto, CallTypes
<1>2. GoalInv(c)' /\ WriteInv(c)' /\ DeleteInv(c)'
  BY <1>1 DEF GoalInv, WriteInv, DeleteInv, Publishing, Deleting
<1>3. ProofInv(c)'
  BY <1>1 DEF ProofInv, Proving
<1> QED BY <1>2, <1>3 DEF CallInv

\* Seen(c) is "exact" only if the server has the record.
LEMMA SeenExact ==
  ASSUME NEW c, Seen(c) = "exact"
  PROVE  Exact(zone[at[c].owner], at[c].key)
BY ClassifyType DEF Seen

LEMMA PublishLookupKeeps ==
  ASSUME TypeOK, NEW c \in Callers, CallInv(c), PublishLookup(c)
  PROVE  CallTypes' /\ CallInv(c)' /\ ActsAlone(c)
<1> USE TypeParts
<1>1. /\ goal[c] = {at[c]} /\ UNCHANGED <<zone, gone, applied, asked>>
      /\ GoalInv(c) /\ WriteInv(c) /\ DeleteInv(c) /\ ProofInv(c)
      /\ pc[c] = "publishLookup"
  BY DEF PublishLookup, CallInv, GoalInv, Publishing, serverVars, historyVars
<1>2. CASE Seen(c) = "exact" /\ Finish(c, "present")
  <2>1. \A r \in goal[c] : Holds(c, r)'
    BY <1>1, <1>2, SeenExact DEF Holds, Exact
  <2> QED BY <2>1, <1>1, <1>2, FinishKeeps, FinishTypes, AloneByFinish DEF Results
<1>3. CASE Finish(c, "conflict")
  BY <1>1, <1>3, FinishKeeps, FinishTypes, AloneByFinish DEF Results
<1>4. CASE Goto(c, "publishExchange") /\ UNCHANGED callVars
  <2>1. CallTypes'
    BY <1>4, GotoTypes DEF Controls
  <2>2. ActsAlone(c)
    BY <1>1, <1>4, AloneByGoto DEF callVars
  <2>3. pc'[c] = "publishExchange"
    BY <1>4 DEF Goto, CallTypes
  <2>4. UNCHANGED callVars
    BY <1>4
  <2>5. GoalInv(c)'
    BY <1>1, <2>3, <2>4 DEF GoalInv, Publishing, Deleting, AskedFor, callVars
  <2>6. WriteInv(c)' /\ DeleteInv(c)'
    BY <1>1, <2>3, <2>4 DEF WriteInv, DeleteInv, callVars
  <2>7. ProofInv(c)'
    <3>1. UNCHANGED <<zone, cached, cache, gone, goal, result>>
      BY <1>1, <2>4 DEF PublishLookup, serverVars, historyVars, callVars
    <3> QED BY <3>1, <2>3, <1>1 DEF ProofInv, Proving, Holds, Visible, Exact, Resolved
  <2> QED BY <2>1, <2>2, <2>5, <2>6, <2>7 DEF CallInv
<1> QED
  BY <1>2, <1>3, <1>4, ClassifyType DEF PublishLookup, Seen

LEMMA PublishReadbackKeeps ==
  ASSUME TypeOK, NEW c \in Callers, CallInv(c), PublishReadback(c)
  PROVE  CallTypes' /\ CallInv(c)' /\ ActsAlone(c)
<1> USE TypeParts
<1>1. /\ goal[c] = {at[c]} /\ UNCHANGED <<zone, gone, applied>>
      /\ reply[c] = "success" => applied[c]
  BY DEF PublishReadback, CallInv, GoalInv, WriteInv, Publishing, serverVars, historyVars
<1>2. CASE Seen(c) = "exact"
  <2>1. \A r \in goal[c] : Holds(c, r)'
    BY <1>1, <1>2, SeenExact DEF Holds, Exact
  <2>2. Finish(c, IF reply[c] = "success" THEN "created" ELSE "present")
    BY <1>2 DEF PublishReadback
  <2>3. CASE reply[c] = "success"
    BY <2>1, <2>2, <2>3, <1>1, FinishKeeps, FinishTypes, AloneByFinish DEF Results
  <2>4. CASE reply[c] # "success"
    BY <2>1, <2>2, <2>4, <1>1, FinishKeeps, FinishTypes, AloneByFinish DEF Results
  <2> QED BY <2>3, <2>4
<1>3. CASE Finish(c, "conflict")
  BY <1>1, <1>3, FinishKeeps, FinishTypes, AloneByFinish DEF Results
<1>4. CASE Finish(c, "resumable")
  BY <1>1, <1>4, FinishKeeps, FinishTypes, AloneByFinish DEF Results
<1> QED
  BY <1>2, <1>3, <1>4, ClassifyType DEF PublishReadback, Seen

LEMMA DeleteLookupKeeps ==
  ASSUME TypeOK, NEW c \in Callers, CallInv(c), DeleteLookup(c)
  PROVE  CallTypes' /\ CallInv(c)' /\ ActsAlone(c)
<1> USE TypeParts
<1>1. /\ goal[c] = {at[c]} /\ UNCHANGED <<zone, cached, cache, gone, applied, asked>>
      /\ GoalInv(c) /\ WriteInv(c) /\ DeleteInv(c) /\ ProofInv(c)
      /\ pc[c] = "deleteLookup"
  BY DEF DeleteLookup, CallInv, GoalInv, Deleting, serverVars, historyVars
<1>2. CASE Finish(c, "absent")
  BY <1>1, <1>2, FinishKeeps, FinishTypes, AloneByFinish DEF Results
<1>3. CASE Finish(c, "conflict")
  BY <1>1, <1>3, FinishKeeps, FinishTypes, AloneByFinish DEF Results
<1>4. CASE /\ Seen(c) = "exact"
           /\ \E value \in zone[at[c].owner] : observed' = [observed EXCEPT ![c] = value]
           /\ Goto(c, "deleteExchange")
           /\ UNCHANGED <<goal, left, at, attempts, reply, result>>
  <2>1. Exact(zone[at[c].owner], at[c].key)
    BY <1>4, SeenExact
  <2>2. at[c] \in Records /\ at[c].key \in Keys
    BY DEF CallTypes, Records
  <2>3. PICK value \in zone[at[c].owner] : observed' = [observed EXCEPT ![c] = value]
    BY <1>4
  <2>4. value \in Encodings(at[c].key) /\ value \in Values
    BY <2>1, <2>2, EncodingsAreValues DEF Exact
  <2>5. CallTypes'
    BY <1>4, <2>3, <2>4 DEF CallTypes, Goto, Controls
  <2>6. ActsAlone(c)
    BY <1>1, <1>4, <2>3, <2>4, AloneByGoto
  <2>7. pc'[c] = "deleteExchange" /\ observed'[c] = value
    BY <1>4, <2>3 DEF Goto, CallTypes
  <2>8. GoalInv(c)' /\ WriteInv(c)'
    BY <1>1, <1>4, <2>7 DEF GoalInv, WriteInv, Publishing, Deleting, AskedFor
  <2>9. DeleteInv(c)'
    BY <1>1, <1>4, <2>1, <2>4, <2>7 DEF DeleteInv, Holds, Exact, Encodings
  <2>10. ProofInv(c)'
    BY <1>1, <1>4, <2>7 DEF ProofInv, Proving, Holds, Visible, Exact, Resolved
  <2> QED BY <2>5, <2>6, <2>8, <2>9, <2>10 DEF CallInv
<1> QED
  BY <1>2, <1>3, <1>4, ClassifyType DEF DeleteLookup, Seen

LEMMA DeleteReadbackKeeps ==
  ASSUME TypeOK, NEW c \in Callers, CallInv(c), DeleteReadback(c)
  PROVE  CallTypes' /\ CallInv(c)' /\ ActsAlone(c)
<1> USE TypeParts
<1>1. /\ goal[c] = {at[c]} /\ UNCHANGED <<zone, gone, applied>> /\ Holds(c, at[c])
  BY DEF DeleteReadback, CallInv, GoalInv, DeleteInv, Deleting, serverVars, historyVars
<1>2. CASE Seen(c) = "absent" /\ Finish(c, "removed")
  <2>1. ~ Exact(zone[at[c].owner], at[c].key)
    BY <1>2, ClassifyType DEF Seen, Classify, Exact
  <2>2. goal[c] \subseteq gone'[c]
    BY <1>1, <2>1 DEF Holds
  <2> QED BY <2>2, <1>1, <1>2, FinishKeeps, FinishTypes, AloneByFinish DEF Results
<1>3. CASE \E outcome \in {"conflict", "uncertain", "resumable"} : Finish(c, outcome)
  BY <1>1, <1>3, FinishKeeps, FinishTypes, AloneByFinish DEF Results
<1> QED
  BY <1>2, <1>3, ClassifyType DEF DeleteReadback, Seen

\* However the exchange of an update ends, the readback finds what it needs.
LEMMA EndExchangeKeeps ==
  ASSUME TypeOK, NEW c \in Callers, CallInv(c), Exchanging(c), NEW how \in Replies,
         EndExchange(c, how), HoldsKept(c), UNCHANGED asked,
         how = "success" => applied'[c], applied[c] => applied'[c]
  PROVE  CallTypes' /\ CallInv(c)'
<1> USE TypeParts
<1>1. CallTypes'
  BY EndExchangeTypes
<1>2. /\ pc[c] \in {"publishExchange", "deleteExchange"}
      /\ pc'[c] = ReadbackOf(c) /\ reply'[c] = how
      /\ UNCHANGED <<goal, left, at, observed, result>>
      /\ GoalInv(c) /\ WriteInv(c) /\ DeleteInv(c) /\ ProofInv(c)
  BY DEF EndExchange, Goto, CallTypes, Exchanging, CallInv
<1>3. /\ Publishing(c)' <=> Publishing(c)
      /\ Deleting(c)' <=> Deleting(c)
      /\ pc'[c] \in {"publishReadback", "deleteReadback"}
      /\ pc'[c] = "deleteReadback" => pc[c] = "deleteExchange"
  BY <1>2 DEF ReadbackOf, Publishing, Deleting
<1>4. GoalInv(c)'
  BY <1>2, <1>3 DEF GoalInv, AskedFor
<1>5. WriteInv(c)'
  BY <1>2, <1>3 DEF WriteInv
<1>6. \A r \in goal[c] : /\ Holds(c, r) => Holds(c, r)'
                         /\ Holds(c, r) /\ Visible(c, r) => Visible(c, r)'
  BY DEF HoldsKept
<1>7. DeleteInv(c)'
  <2>1. pc'[c] = "deleteReadback" => Holds(c, at[c])'
    BY <1>2, <1>3, <1>6 DEF GoalInv, DeleteInv
  <2>2. gone[c] \subseteq gone'[c]
    BY DEF HoldsKept
  <2> QED BY <2>1, <2>2, <1>2, <1>3 DEF DeleteInv, Holds
<1>8. ProofInv(c)'
  BY <1>2, <1>3, <1>6 DEF ProofInv, Proving, Holds, Visible
<1> QED BY <1>1, <1>4, <1>5, <1>7, <1>8 DEF CallInv

LEMMA AloneByExchange ==
  ASSUME CallTypes, HistoryTypes, NEW c \in Callers, NEW how, EndExchange(c, how),
         UNCHANGED applied \/ applied' = [applied EXCEPT ![c] = TRUE]
  PROVE  ActsAlone(c)
BY DEF ActsAlone, Untouched, EndExchange, Goto, CallTypes, HistoryTypes

LEMMA UnprovedKeeps ==
  ASSUME TypeOK, NEW c \in Callers, CallInv(c), Proving(c), NEW state,
         Unproved(c, state), HoldsKept(c), UNCHANGED <<applied, asked>>
  PROVE  CallTypes' /\ CallInv(c)' /\ ActsAlone(c)
<1> USE TypeParts
<1>1. CASE Finish(c, "failed")
  BY <1>1, FinishKeeps, FinishTypes, AloneByFinish DEF Results
<1>2. CASE UNCHANGED <<pc, goal, left, at, observed, reply, result>>
  <2>1. Untouched(c) /\ ActsAlone(c)
    BY <1>2 DEF ActsAlone, Untouched
  <2>2. CallInv(c)'
    BY <2>1, OthersKeep
  <2> QED BY <2>1, <2>2, PendingTypes
<1> QED BY <1>1, <1>2 DEF Unproved, StillPending

LEMMA ProveAuthoritativeKeeps ==
  ASSUME TypeOK, NEW c \in Callers, CallInv(c), ProveAuthoritative(c)
  PROVE  CallTypes' /\ CallInv(c)' /\ ActsAlone(c)
<1> USE TypeParts
<1>1. /\ UNCHANGED <<zone, cached, cache, gone, applied, asked>>
      /\ GoalInv(c) /\ WriteInv(c) /\ DeleteInv(c) /\ ProofInv(c)
      /\ pc[c] = "proveAuthoritative"
  BY DEF ProveAuthoritative, CallInv, serverVars, historyVars
<1>2. HoldsKept(c)
  BY <1>1, QuietKeeps DEF QuietWorld
<1>3. CASE Seen(c) = "exact"
  <2>1. /\ Goto(c, "proveRecursive") /\ attempts' = [attempts EXCEPT ![c] = 0]
        /\ UNCHANGED <<goal, left, at, observed, reply, result>>
    BY <1>3 DEF ProveAuthoritative
  <2>2. CallTypes'
    <3>1. 0 \in 0..MaxAttempts
      BY DnsAssumption
    <3> QED BY <3>1, <2>1 DEF CallTypes, Goto, Controls
  <2>3. ActsAlone(c)
    BY <1>1, <2>1, AloneByGoto
  <2>4. pc'[c] = "proveRecursive"
    BY <2>1 DEF Goto, CallTypes
  <2>5. GoalInv(c)' /\ WriteInv(c)' /\ DeleteInv(c)'
    BY <1>1, <2>1, <2>4 DEF GoalInv, WriteInv, DeleteInv, Publishing, Deleting, AskedFor
  <2>6. Exact(zone[at[c].owner], at[c].key)
    BY <1>3, SeenExact
  <2>7. ProofInv(c)'
    BY <1>1, <2>1, <2>4, <2>6 DEF ProofInv, Proving, Holds, Visible, Exact, Resolved
  <2> QED BY <2>2, <2>3, <2>5, <2>7 DEF CallInv
<1>4. CASE Seen(c) # "exact"
  BY <1>1, <1>2, <1>4, UnprovedKeeps DEF ProveAuthoritative, Proving
<1> QED BY <1>3, <1>4

\* A poll of the resolver fills its cache with what it answers.
LEMMA PollOfResolver ==
  ASSUME TypeOK, NEW c \in Callers, ProveRecursive(c)
  PROVE  /\ \A o \in Owners : Resolved(o)' = Resolved(o)
         /\ \A d \in Callers : HoldsKept(d)
         /\ ServerTypes'
<1> USE TypeParts
<1> DEFINE p == at[c].owner
<1>1. p \in Owners
  BY DEF CallTypes, Records
<1>2. /\ UNCHANGED <<zone, gone, late>> /\ cached' = cached \cup {p}
      /\ cache' = [cache EXCEPT ![p] = Resolved(p)]
  BY DEF ProveRecursive, historyVars
<1>3. ASSUME NEW o \in Owners PROVE Resolved(o)' = Resolved(o)
  BY <1>1, <1>2 DEF Resolved, ServerTypes
<1>4. ServerTypes'
  BY <1>1, <1>2 DEF Resolved, ServerTypes
<1>5. ASSUME NEW d \in Callers PROVE HoldsKept(d)
  <2>1. \A r \in goal[d] : r.owner \in Owners
    BY DEF CallTypes, Records
  <2> QED BY <2>1, <1>2, <1>3, CacheChangeKeeps
<1> QED BY <1>3, <1>4, <1>5

LEMMA ProveRecursiveKeeps ==
  ASSUME TypeOK, NEW c \in Callers, CallInv(c), ProveRecursive(c)
  PROVE  CallTypes' /\ CallInv(c)' /\ ActsAlone(c)
<1> USE TypeParts
<1> DEFINE state == Classify(Resolved(at[c].owner), at[c].key)
<1>1. /\ UNCHANGED <<applied, asked, gone, zone>> /\ pc[c] = "proveRecursive"
      /\ GoalInv(c) /\ WriteInv(c) /\ DeleteInv(c) /\ ProofInv(c)
      /\ at[c] \in Records /\ at[c].owner \in Owners
  BY DEF ProveRecursive, historyVars, CallInv, CallTypes, Records
<1>2. PICK p \in Owners : p = at[c].owner
  BY <1>1
<1>6. HoldsKept(c) /\ Resolved(p)' = Resolved(p)
  BY PollOfResolver
<1>3. \A r \in goal[c] : /\ Holds(c, r) => Holds(c, r)'
                         /\ Holds(c, r) /\ Visible(c, r) => Visible(c, r)'
  BY <1>6 DEF HoldsKept
<1>4. CASE state = "exact"
  <2>1. NextRecord(c)
    BY <1>4 DEF ProveRecursive
  <2>2. Exact(Resolved(p)', at[c].key)
    BY <1>2, <1>4, <1>6, ClassifyType
  <2>3. Holds(c, at[c]) /\ at[c] \in goal[c]
    BY <1>1 DEF ProofInv, GoalInv
  <2>8. PICK q \in Records : q = at[c] /\ q.owner = p
    BY <1>1, <1>2
  <2>4. Holds(c, q)' /\ Visible(c, q)'
    BY <2>2, <2>3, <2>8, <1>1 DEF Holds, Visible, Exact
  <2>5. ASSUME NEW r \in goal[c], r \notin left[c] \/ r = at[c]
        PROVE  Holds(c, r)' /\ Visible(c, r)'
    <3>1. CASE r = at[c]
      BY <3>1, <2>4, <2>8 DEF Holds, Visible
    <3>2. CASE r \notin left[c]
      BY <3>2, <1>1, <1>3 DEF ProofInv, Proving
    <3> QED BY <2>5, <3>1, <3>2
  <2> DEFINE rest == left[c] \ {at[c]}
  <2>6. CASE rest = {}
    <3>1. Finish(c, "proved")
      BY <2>1, <2>6 DEF NextRecord
    <3>2. \A r \in goal[c] : Holds(c, r)' /\ Visible(c, r)'
      BY <2>5, <2>6
    <3> QED BY <3>1, <3>2, <1>1, FinishKeeps, FinishTypes, AloneByFinish DEF Results
  <2>7. CASE rest # {}
    <3>1. /\ Goto(c, "proveAuthoritative") /\ left' = [left EXCEPT ![c] = rest]
          /\ \E r \in rest : at' = [at EXCEPT ![c] = r]
          /\ UNCHANGED <<goal, observed, reply, result>>
      BY <2>1, <2>7 DEF NextRecord
    <3>2. CallTypes'
      BY <2>1, NextRecordTypes
    <3>3. /\ pc'[c] = "proveAuthoritative" /\ left'[c] = rest /\ at'[c] \in rest
      BY <3>1 DEF Goto, CallTypes
    <3>4. ActsAlone(c)
      BY <3>1, <1>1 DEF ActsAlone, Untouched, Goto, CallTypes
    <3>5. GoalInv(c)' /\ WriteInv(c)' /\ DeleteInv(c)'
      BY <1>1, <3>1, <3>3 DEF GoalInv, WriteInv, DeleteInv, Publishing, Deleting
    <3>6. \A r \in goal'[c] \ left'[c] : Holds(c, r)' /\ Visible(c, r)'
      BY <2>5, <3>1, <3>3
    <3>7. ProofInv(c)'
      <4>1. result'[c] = result[c] /\ goal'[c] = goal[c]
        BY <3>1
      <4>2. /\ result[c] = "proved" => \A r \in goal[c] : Holds(c, r)' /\ Visible(c, r)'
            /\ result[c] \in {"created", "present"} => \A r \in goal[c] : Holds(c, r)'
        BY <1>1, <1>3 DEF ProofInv
      <4> QED BY <3>3, <3>6, <4>1, <4>2 DEF ProofInv, Holds, Visible
    <3> QED BY <3>2, <3>4, <3>5, <3>7 DEF CallInv
  <2> QED BY <2>6, <2>7
<1>5. CASE state # "exact"
  BY <1>1, <1>6, <1>5, UnprovedKeeps DEF ProveRecursive, Proving
<1> QED BY <1>4, <1>5

-----------------------------------------------------------------------------
(* Whole steps.                                                            *)

FaultTypes == faults \in 0..MaxFaults /\ edits \in 0..MaxEdits

LEMMA Assemble ==
  ASSUME DnsInv, NEW c \in Callers, ActsAlone(c), ServerTypes', CallTypes',
         HistoryTypes', FaultTypes', LateInv', CallInv(c)', asked \subseteq asked',
         \A d \in Callers \ {c} : HoldsKept(d)
  PROVE  DnsInv'
<1>1. TypeOK'
  BY DEF TypeOK, ServerTypes, CallTypes, HistoryTypes, FaultTypes
<1>2. ASSUME NEW d \in Callers PROVE CallInv(d)'
  <2>1. CASE d = c
    BY <2>1
  <2>2. CASE d # c
    BY <2>2, OthersKeep DEF DnsInv, ActsAlone
  <2> QED BY <2>1, <2>2
<1> QED BY <1>1, <1>2 DEF DnsInv

LEMMA LateUnchanged ==
  ASSUME LateInv, late' \subseteq late, asked \subseteq asked'
  PROVE  LateInv'
BY DEF LateInv, AskedFor

\* Steps that leave servers and history alone.
LEMMA QuietStepKeeps ==
  ASSUME DnsInv, NEW c \in Callers, ActsAlone(c), CallTypes', FaultTypes', CallInv(c)',
         UNCHANGED <<serverVars, historyVars>>
  PROVE  DnsInv'
<1>1. QuietWorld /\ UNCHANGED <<late, applied, asked>>
  BY DEF QuietWorld, serverVars, historyVars
<1>2. \A d \in Callers : HoldsKept(d)
  BY <1>1, QuietKeeps
<1>3. ServerTypes' /\ HistoryTypes'
  BY <1>1 DEF DnsInv, TypeOK, ServerTypes, HistoryTypes, QuietWorld
<1>4. LateInv'
  BY <1>1, LateUnchanged DEF DnsInv
<1> QED BY <1>1, <1>2, <1>3, <1>4, Assemble

LEMMA EndsQuietly ==
  ASSUME DnsInv, NEW c \in Callers, FaultTypes', UNCHANGED <<serverVars, historyVars>>,
         NEW outcome \in {"uncertain", "conflict", "failed"}, Finish(c, outcome)
  PROVE  DnsInv'
<1>1. CallTypes /\ UNCHANGED applied
  BY TypeParts DEF DnsInv, historyVars
<1>2. CallTypes' /\ CallInv(c)' /\ ActsAlone(c)
  BY <1>1, FinishKeeps, FinishTypes, AloneByFinish DEF Results
<1> QED BY <1>2, QuietStepKeeps

\* An update was asked for and carries a value of its key.
Sound(u) == /\ AskedFor(u.what, u) /\ u.value \in Encodings(u.key)
            /\ u.what = "publish" => u.value = <<u.key, "preferred">>

LEMMA UpdateSound ==
  ASSUME TypeOK, NEW c \in Callers, CallInv(c), Exchanging(c)
  PROVE  UpdateOf(c) \in Updates /\ Sound(UpdateOf(c))
<1>1. /\ at[c] \in Records /\ observed[c] \in Values
      /\ at[c].owner \in Owners /\ at[c].key \in Keys
  BY DEF TypeOK, Records
<1>2. UpdateOf(c) \in Updates
  BY UpdateType, TypeParts
<1>3. CASE pc[c] = "publishExchange"
  <2>1. AskedFor("publish", at[c])
    BY <1>3 DEF CallInv, GoalInv, Publishing
  <2> QED BY <1>1, <1>2, <1>3, <2>1, EncodingsAreValues DEF UpdateOf, Sound, AskedFor
<1>4. CASE pc[c] = "deleteExchange"
  <2>1. AskedFor("delete", at[c]) /\ observed[c] \in Encodings(at[c].key)
    BY <1>4 DEF CallInv, GoalInv, DeleteInv, Deleting
  <2> QED BY <1>1, <1>2, <1>4, <2>1 DEF UpdateOf, Sound, AskedFor
<1> QED BY <1>3, <1>4 DEF Exchanging

\* The server carries out the update of a call, whether the answer arrives.
LEMMA AppliedKeeps ==
  ASSUME DnsInv, NEW c \in Callers, Exchanging(c), NEW how \in Replies,
         EndExchange(c, how), FaultTypes',
         SetZone(ZoneWith(at[c].owner, After(UpdateOf(c)))),
         applied' = [applied EXCEPT ![c] = TRUE], UNCHANGED <<cached, cache, late, asked>>
  PROVE  DnsInv'
<1>1. TypeOK /\ CallInv(c) /\ ServerTypes /\ CallTypes /\ HistoryTypes
  BY TypeParts DEF DnsInv
<1>2. /\ at[c].owner \in Owners /\ After(UpdateOf(c)) \in SUBSET Values
  BY <1>1, UpdateType, AfterType DEF CallTypes, Records
<1>3. \A d \in Callers : HoldsKept(d)
  BY <1>1, ZoneChangeKeeps
<1>4. zone' \in [Owners -> SUBSET Values] /\ gone' \in [Callers -> SUBSET Records]
  BY <1>1, <1>2, ZoneTypes
<1>5. applied' \in [Callers -> BOOLEAN] /\ applied'[c]
  BY <1>1 DEF HistoryTypes
<1>6. ServerTypes' /\ HistoryTypes'
  BY <1>1, <1>4, <1>5 DEF ServerTypes, HistoryTypes
<1>7. CallTypes' /\ CallInv(c)'
  BY <1>1, <1>3, <1>5, EndExchangeKeeps
<1>8. ActsAlone(c)
  BY <1>1, AloneByExchange
<1>9. LateInv'
  BY LateUnchanged DEF DnsInv
<1> QED BY <1>3, <1>6, <1>7, <1>8, <1>9, Assemble

\* The exchange ends, and the server has not carried the update out.
LEMMA NotAppliedKeeps ==
  ASSUME DnsInv, NEW c \in Callers, Exchanging(c), NEW how \in Replies \ {"success"},
         EndExchange(c, how), FaultTypes', UNCHANGED <<zone, cached, cache, historyVars>>,
         late' \subseteq late \cup {UpdateOf(c)}
  PROVE  DnsInv'
<1>1. TypeOK /\ CallInv(c) /\ ServerTypes /\ CallTypes /\ HistoryTypes /\ LateInv
  BY TypeParts DEF DnsInv
<1>2. QuietWorld /\ UNCHANGED <<applied, asked>>
  BY DEF QuietWorld, historyVars
<1>3. \A d \in Callers : HoldsKept(d)
  BY <1>2, QuietKeeps
<1>4. UpdateOf(c) \in Updates /\ Sound(UpdateOf(c))
  BY <1>1, UpdateSound
<1>5. PICK v \in Updates : v = UpdateOf(c)
  BY <1>4
<1>6. ServerTypes' /\ HistoryTypes'
  BY <1>1, <1>2, <1>4 DEF ServerTypes, HistoryTypes, QuietWorld
<1>7. CallTypes' /\ CallInv(c)'
  BY <1>1, <1>2, <1>3, EndExchangeKeeps
<1>8. ActsAlone(c)
  BY <1>1, <1>2, AloneByExchange
<1>9. LateInv'
  <2>1. late' \subseteq late \cup {v} /\ Sound(v)
    BY <1>4, <1>5
  <2> QED BY <1>1, <1>2, <2>1 DEF LateInv, Sound, AskedFor
<1> QED BY <1>2, <1>3, <1>6, <1>7, <1>8, <1>9, Assemble

LEMMA CallStepKeeps ==
  ASSUME DnsInv, NEW c \in Callers, CallStep(c)
  PROVE  DnsInv'
<1>1. TypeOK /\ CallInv(c) /\ FaultTypes' /\ UNCHANGED <<faults, edits>>
  BY DEF DnsInv, CallStep, TypeOK, FaultTypes
<1>2. CASE PublishLookup(c)
  BY <1>1, <1>2, PublishLookupKeeps, QuietStepKeeps DEF PublishLookup
<1>3. CASE PublishReadback(c)
  BY <1>1, <1>3, PublishReadbackKeeps, QuietStepKeeps DEF PublishReadback
<1>4. CASE DeleteLookup(c)
  BY <1>1, <1>4, DeleteLookupKeeps, QuietStepKeeps DEF DeleteLookup
<1>5. CASE DeleteReadback(c)
  BY <1>1, <1>5, DeleteReadbackKeeps, QuietStepKeeps DEF DeleteReadback
<1>6. CASE Exchange(c)
  <2>1. CASE Prerequisite(UpdateOf(c))
    BY <1>1, <1>6, <2>1, AppliedKeeps DEF Exchange, Replies
  <2>2. CASE ~ Prerequisite(UpdateOf(c))
    BY <1>1, <1>6, <2>2, NotAppliedKeeps DEF Exchange, Replies, historyVars
  <2> QED BY <2>1, <2>2
<1>7. CASE ProveAuthoritative(c)
  BY <1>1, <1>7, ProveAuthoritativeKeeps, QuietStepKeeps DEF ProveAuthoritative
<1>8. CASE ProveRecursive(c)
  <2>1. CallTypes' /\ CallInv(c)' /\ ActsAlone(c)
    BY <1>1, <1>8, ProveRecursiveKeeps
  <2>2. ServerTypes' /\ \A d \in Callers : HoldsKept(d)
    BY <1>1, <1>8, PollOfResolver
  <2>3. UNCHANGED <<late, applied, gone, asked>>
    BY <1>8 DEF ProveRecursive, historyVars
  <2>4. HistoryTypes' /\ LateInv'
    BY <1>1, <2>3, LateUnchanged DEF DnsInv, TypeOK, HistoryTypes
  <2> QED BY <1>1, <2>1, <2>2, <2>3, <2>4, Assemble
<1> QED
  BY <1>2, <1>3, <1>4, <1>5, <1>6, <1>7, <1>8 DEF CallStep

LEMMA FaultKeeps ==
  ASSUME DnsInv, NEW c \in Callers, Fault(c)
  PROVE  DnsInv'
<1>1. TypeOK /\ CallInv(c) /\ FaultTypes'
  BY DnsAssumption DEF DnsInv, Fault, TypeOK, FaultTypes
<1>2. CASE ExchangeUnanswered(c)
  BY <1>1, <1>2, AppliedKeeps DEF ExchangeUnanswered, Replies
<1>3. CASE ExchangeWithoutEffect(c)
  BY <1>1, <1>3, NotAppliedKeeps DEF ExchangeWithoutEffect, Replies, serverVars
<1>4. CASE ExchangeTimesOut(c)
  BY <1>1, <1>4, NotAppliedKeeps DEF ExchangeTimesOut, Replies
<1>5. CASE ReadFails(c)
  <2>1. PICK outcome \in {"uncertain", "conflict", "failed"} : Finish(c, outcome)
    BY <1>5 DEF ReadFails, FailedReadOf
  <2> QED BY <1>1, <1>5, <2>1, EndsQuietly DEF ReadFails
<1>6. CASE Abandon(c)
  BY <1>1, <1>6, EndsQuietly DEF Abandon
<1> QED BY <1>2, <1>3, <1>4, <1>5, <1>6 DEF Fault

LEMMA CallKeeps ==
  ASSUME DnsInv, NEW t \in Tasks, NEW c \in Callers, Call(c, t), UNCHANGED <<faults, edits>>
  PROVE  DnsInv'
<1>1. TypeOK /\ CallInv(c) /\ ServerTypes /\ CallTypes /\ HistoryTypes /\ FaultTypes'
  BY TypeParts DEF DnsInv, TypeOK, FaultTypes
<1>2. /\ t.what \in {"publish", "delete", "prove"}
      /\ t.goal \in SUBSET Records /\ t.goal # {}
      /\ t.what # "prove" => \E r \in Records : t.goal = {r}
  BY DnsAssumption
<1>3. PICK r \in t.goal : at' = [at EXCEPT ![c] = r]
  BY DEF Call
<1>4. /\ pc'[c] = FirstStep[t.what] /\ goal'[c] = t.goal /\ left'[c] = t.goal
      /\ at'[c] = r /\ result'[c] = "none" /\ reply'[c] # "success" /\ r \in Records
  BY <1>1, <1>2, <1>3 DEF Call, Goto, CallTypes, CallInv, WriteInv
<1>5. asked \subseteq asked' /\ HistoryTypes' /\ UNCHANGED <<zone, cached, cache, late>>
  BY <1>1, <1>2 DEF Call, HistoryTypes, Records, serverVars
<1>6. CallTypes'
  BY <1>1, <1>2, <1>3 DEF Call, CallTypes, Goto, FirstStep, Controls, Results
<1>7. ActsAlone(c)
  BY <1>1, <1>3 DEF Call, CallTypes, HistoryTypes, ActsAlone, Untouched, Goto
<1>8. \A d \in Callers \ {c} : HoldsKept(d)
  <2>1. \A d \in Callers \ {c} : gone'[d] = gone[d]
    BY <1>1 DEF Call, HistoryTypes
  <2> QED BY <2>1, <1>5 DEF HoldsKept, Holds, Visible, Exact, Resolved
<1>9. CallInv(c)'
  <2>1. t.what # "prove" => t.goal = {r} /\ AskedFor(t.what, r)'
    BY <1>2, <1>3 DEF Call, AskedFor
  <2>2. GoalInv(c)'
    BY <1>2, <1>4, <2>1 DEF GoalInv, Publishing, Deleting, FirstStep, AskedFor
  <2>3. WriteInv(c)' /\ DeleteInv(c)'
    BY <1>2, <1>4 DEF WriteInv, DeleteInv, FirstStep
  <2>4. ProofInv(c)'
    BY <1>2, <1>4 DEF ProofInv, FirstStep
  <2> QED BY <2>2, <2>3, <2>4 DEF CallInv
<1>10. LateInv'
  BY <1>5, LateUnchanged DEF DnsInv
<1>11. ServerTypes'
  BY <1>1, <1>5 DEF ServerTypes
<1> QED BY <1>1, <1>5, <1>6, <1>7, <1>8, <1>9, <1>10, <1>11, Assemble

LEMMA EnvironmentKeeps ==
  ASSUME DnsInv, Environment
  PROVE  DnsInv'
<1>1. /\ TypeOK /\ ServerTypes /\ CallTypes /\ HistoryTypes /\ LateInv
      /\ \A d \in Callers : CallInv(d)
  BY TypeParts DEF DnsInv
<1>2. SUFFICES /\ ServerTypes' /\ gone' \in [Callers -> SUBSET Records] /\ FaultTypes'
               /\ late' \subseteq late /\ UNCHANGED <<pc, callVars, applied, asked>>
               /\ \A d \in Callers : HoldsKept(d)
  <2>1. CallTypes' /\ HistoryTypes' /\ \A d \in Callers : Untouched(d)
    BY <1>1, <1>2 DEF CallTypes, HistoryTypes, callVars, Untouched
  <2>2. \A d \in Callers : CallInv(d)'
    BY <1>1, <1>2, <2>1, OthersKeep
  <2>3. LateInv'
    BY <1>1, <1>2, LateUnchanged
  <2>4. TypeOK'
    BY <1>2, <2>1 DEF TypeOK, ServerTypes, CallTypes, HistoryTypes, FaultTypes
  <2> QED BY <2>2, <2>3, <2>4 DEF DnsInv
<1>3. FaultTypes
  BY <1>1 DEF TypeOK, FaultTypes
<1>4. ASSUME NEW o \in Owners, NEW set \in SUBSET Values, SetZone(ZoneWith(o, set)),
             UNCHANGED <<cached, cache>>, late' \subseteq late
      PROVE  /\ ServerTypes' /\ gone' \in [Callers -> SUBSET Records]
             /\ \A d \in Callers : HoldsKept(d)
  <2>1. zone' \in [Owners -> SUBSET Values] /\ gone' \in [Callers -> SUBSET Records]
    BY <1>1, <1>4, ZoneTypes
  <2>2. ServerTypes'
    BY <1>1, <1>4, <2>1 DEF ServerTypes
  <2>3. \A d \in Callers : HoldsKept(d)
    BY <1>1, <1>4, ZoneChangeKeeps
  <2> QED BY <2>1, <2>2, <2>3
<1>5. ASSUME UNCHANGED <<zone, cached, cache, gone>>, late' \subseteq late
      PROVE  /\ ServerTypes' /\ gone' \in [Callers -> SUBSET Records]
             /\ \A d \in Callers : HoldsKept(d)
  BY <1>1, <1>5, QuietKeeps DEF ServerTypes, HistoryTypes, QuietWorld
<1>6. ASSUME NEW u \in late, LateUpdate(u)
      PROVE  /\ ServerTypes' /\ gone' \in [Callers -> SUBSET Records] /\ FaultTypes'
             /\ late' \subseteq late /\ UNCHANGED <<pc, callVars, applied, asked>>
             /\ \A d \in Callers : HoldsKept(d)
  <2>1. /\ late' \subseteq late /\ UNCHANGED <<cached, cache, pc, callVars, applied, asked>>
        /\ FaultTypes'
    BY <1>3, <1>6 DEF LateUpdate, FaultTypes
  <2>2. u \in Updates /\ u.owner \in Owners /\ After(u) \in SUBSET Values
    BY <1>1, AfterType DEF ServerTypes, Updates
  <2>3. CASE SetZone(ZoneWith(u.owner, After(u)))
    BY <1>4, <2>1, <2>2, <2>3
  <2>4. CASE UNCHANGED <<zone, gone>>
    BY <1>5, <2>1, <2>4
  <2> QED BY <1>6, <2>1, <2>3, <2>4 DEF LateUpdate
<1>7. ASSUME NEW u \in late, LateUpdateLost(u)
      PROVE  /\ ServerTypes' /\ gone' \in [Callers -> SUBSET Records] /\ FaultTypes'
             /\ late' \subseteq late /\ UNCHANGED <<pc, callVars, applied, asked>>
             /\ \A d \in Callers : HoldsKept(d)
  BY <1>3, <1>5, <1>7 DEF LateUpdateLost, historyVars, FaultTypes
<1>8. ASSUME NEW o \in Owners, CacheFills(o) \/ CacheExpires(o)
      PROVE  /\ ServerTypes' /\ gone' \in [Callers -> SUBSET Records] /\ FaultTypes'
             /\ late' \subseteq late /\ UNCHANGED <<pc, callVars, applied, asked>>
             /\ \A d \in Callers : HoldsKept(d)
  <2>1. /\ UNCHANGED <<zone, late, pc, callVars, applied, gone, asked>> /\ FaultTypes'
        /\ gone' \in [Callers -> SUBSET Records]
    BY <1>1, <1>3, <1>8 DEF CacheFills, CacheExpires, historyVars, FaultTypes, HistoryTypes
  <2>2. ServerTypes'
    BY <1>1, <1>8, <2>1 DEF CacheFills, CacheExpires, ServerTypes
  <2>3. \A p \in Owners : Resolved(p)' \in {Resolved(p), zone[p]}
    BY <1>1, <1>8, <2>1 DEF CacheFills, CacheExpires, Resolved, ServerTypes
  <2>4. \A d \in Callers : \A r \in goal[d] : r.owner \in Owners
    BY <1>1 DEF CallTypes, Records
  <2>5. \A d \in Callers : HoldsKept(d)
    BY <2>1, <2>3, <2>4, CacheChangeKeeps
  <2> QED BY <2>1, <2>2, <2>5
<1>9. ASSUME NEW o \in Owners, NEW set \in ZoneSets, OutsideEdit(o, set)
      PROVE  /\ ServerTypes' /\ gone' \in [Callers -> SUBSET Records] /\ FaultTypes'
             /\ late' \subseteq late /\ UNCHANGED <<pc, callVars, applied, asked>>
             /\ \A d \in Callers : HoldsKept(d)
  <2>1. set \in SUBSET Values
    BY DnsAssumption
  <2>2. /\ SetZone(ZoneWith(o, set)) /\ late' = late
        /\ UNCHANGED <<cached, cache, pc, callVars, applied, asked>>
    BY <1>9 DEF OutsideEdit
  <2>3. FaultTypes'
    BY <1>3, <1>9, DnsAssumption DEF OutsideEdit, FaultTypes
  <2> QED BY <1>4, <2>1, <2>2, <2>3
<1> QED BY <1>6, <1>7, <1>8, <1>9 DEF Environment

-----------------------------------------------------------------------------
(* The theorems.                                                           *)

LEMMA InitHolds ==
  ASSUME Init
  PROVE  DnsInv
<1>1. /\ (CHOOSE r \in Records : TRUE) \in Records
      /\ (CHOOSE v \in Values : TRUE) \in Values
  <2>1. PICK o \in Owners, k \in Keys : TRUE
    BY DnsAssumption
  <2>2. [owner |-> o, key |-> k] \in Records /\ <<k, "preferred">> \in Values
    BY DEF Records, Values, Forms
  <2> QED BY <2>2
<1>2. TypeOK
  BY <1>1, DnsAssumption DEF Init, TypeOK, Controls, Replies, Results
<1>3. LateInv
  BY DEF Init, LateInv
<1>4. ASSUME NEW c \in Callers PROVE CallInv(c)
  <2>1. /\ pc[c] = "idle" /\ reply[c] = "none" /\ result[c] = "none"
        /\ left[c] = {} /\ goal[c] = {}
    BY DEF Init
  <2> QED BY <2>1 DEF CallInv, GoalInv, WriteInv, DeleteInv, ProofInv,
                      Publishing, Deleting, Proving
<1> QED BY <1>2, <1>3, <1>4 DEF DnsInv

LEMMA StutterKeeps ==
  ASSUME DnsInv, UNCHANGED vars
  PROVE  DnsInv'
<1>1. /\ UNCHANGED <<zone, cached, cache, late, pc, goal, left, at, attempts>>
      /\ UNCHANGED <<observed, reply, result, applied, gone, asked, faults, edits>>
  BY DEF vars, serverVars, callVars, historyVars
<1>2. TypeOK'
  BY <1>1 DEF DnsInv, TypeOK
<1>3. LateInv'
  BY <1>1, LateUnchanged DEF DnsInv
<1>4. ASSUME NEW d \in Callers PROVE CallInv(d)'
  <2>1. Untouched(d) /\ HoldsKept(d)
    BY <1>1, QuietKeeps DEF Untouched, QuietWorld
  <2> QED BY <2>1, <1>1, OthersKeep DEF DnsInv
<1> QED BY <1>2, <1>3, <1>4 DEF DnsInv

\* DnsInv holds in every state: whatever a call has established stays so, or
\* its loss is on record, under any number of concurrent calls, lost replies,
\* late updates and edits by others.
THEOREM Invariance == Spec => []DnsInv
<1>1. ASSUME DnsInv, [Next]_vars PROVE DnsInv'
  <2>1. CASE \E c \in Callers : CallStep(c) \/ Fault(c)
    BY <1>1, <2>1, CallStepKeeps, FaultKeeps
  <2>2. CASE \E t \in Tasks : CallStarts(t)
    BY <1>1, <2>2, CallKeeps DEF CallStarts
  <2>3. CASE Environment
    BY <1>1, <2>3, EnvironmentKeeps
  <2>4. CASE UNCHANGED vars
    BY <1>1, <2>4, StutterKeeps
  <2> QED BY <1>1, <2>1, <2>2, <2>3, <2>4 DEF Next
<1> QED BY <1>1, InitHolds, PTL DEF Spec

\* Every state is well typed: polls stay within proof_max_attempts.
THEOREM TypeCorrect == Spec => []TypeOK
<1>1. DnsInv => TypeOK
  BY DEF DnsInv
<1> QED BY <1>1, Invariance, PTL

\* PublishIfAbsent reports a creation to the caller whose update was carried
\* out, and to no other.
THEOREM OneCreator == Spec => []CreatedIsMine
<1>1. DnsInv => CreatedIsMine
  BY DEF DnsInv, CallInv, WriteInv, CreatedIsMine
<1> QED BY <1>1, Invariance, PTL

\* What PublishIfAbsent and ProveAll report as present is, for whole lists,
\* unless something took it away since the call began.
THEOREM ReportsAreTrue == Spec => []ReportedIsThere
<1>1. DnsInv => ReportedIsThere
  <2> SUFFICES ASSUME DnsInv, NEW c \in Callers,
                      result[c] \in {"created", "present", "proved"},
                      NEW r \in goal[c] \ gone[c]
               PROVE  Exact(zone[r.owner], r.key)
    BY DEF ReportedIsThere
  <2>1. Holds(c, r)
    BY DEF DnsInv, CallInv, ProofInv
  <2> QED BY <2>1 DEF Holds
<1> QED BY <1>1, Invariance, PTL

\* After ProveAll resolvers answer with every record of the list that nothing
\* took away, whatever they had cached before.
THEOREM ProofsReachResolvers == Spec => []ProvedIsResolvable
<1>1. DnsInv => ProvedIsResolvable
  <2> SUFFICES ASSUME DnsInv, NEW c \in Callers, result[c] = "proved",
                      NEW r \in goal[c] \ gone[c]
               PROVE  Exact(Resolved(r.owner), r.key)
    BY DEF ProvedIsResolvable
  <2>1. Visible(c, r)
    BY DEF DnsInv, CallInv, ProofInv
  <2> QED BY <2>1 DEF Visible
<1> QED BY <1>1, Invariance, PTL

\* DeleteExact reports as removed only what was there and went while it ran.
THEOREM RemovalsHappened == Spec => []RemovedWentNow
<1>1. DnsInv => RemovedWentNow
  BY DEF DnsInv, CallInv, DeleteInv, RemovedWentNow
<1> QED BY <1>1, Invariance, PTL

-----------------------------------------------------------------------------
(* Refinement of the register.                                             *)

LEMMA SameEncodings == \A k \in Keys : Register!Encodings(k) = Encodings(k)
BY DEF Register!Encodings, Encodings, Register!Forms, Forms

\* A sound update that the server carries out fills or clears the register.
LEMMA UpdateIsGuarded ==
  ASSUME TypeOK, NEW u \in Updates, Sound(u), Prerequisite(u), UNCHANGED asked,
         zone' = ZoneWith(u.owner, After(u))
  PROVE  Register!RegisterNext
<1>1. u.owner \in Owners /\ u.key \in Keys /\ u.what \in {"publish", "delete"}
  BY DEF Updates
<1>2. CASE u.what = "publish"
  <2>1. /\ [what |-> "publish", owner |-> u.owner, key |-> u.key] \in asked
        /\ u.value = <<u.key, "preferred">> /\ zone[u.owner] = {}
    BY <1>2 DEF Sound, AskedFor, Prerequisite
  <2>2. zone' = [zone EXCEPT ![u.owner] = {<<u.key, "preferred">>}]
    BY <1>2, <2>1 DEF ZoneWith, After
  <2>3. Register!Fill(u.owner, u.key)
    BY <2>1, <2>2 DEF Register!Fill
  <2> QED BY <1>1, <2>3 DEF Register!RegisterNext
<1>3. CASE u.what = "delete"
  <2>1. /\ [what |-> "delete", owner |-> u.owner, key |-> u.key] \in asked
        /\ u.value \in Register!Encodings(u.key) /\ zone[u.owner] = {u.value}
    BY <1>1, <1>3, SameEncodings DEF Sound, AskedFor, Prerequisite
  <2>2. zone' = [zone EXCEPT ![u.owner] = {}]
    BY <1>3 DEF ZoneWith, After
  <2>3. Register!Clear(u.owner, u.key)
    BY <2>1, <2>2 DEF Register!Clear
  <2> QED BY <1>1, <2>3 DEF Register!RegisterNext
<1> QED BY <1>1, <1>2, <1>3

\* DnsRecords implements TxtRegister: with every interleaving, lost reply and
\* late update the program fills only empty names with what was asked for,
\* and empties a name only of the one value whose deletion was asked for.
THEOREM Refinement == Spec => WritesAreGuarded
<1>1. Init => Register!RegisterInit
  BY DEF Init, Register!RegisterInit
<1>2. ASSUME DnsInv, [Next]_vars
      PROVE  [Register!RegisterNext]_(Register!registerVars)
  <2> SUFFICES Register!RegisterNext \/ UNCHANGED <<zone, asked>>
    BY DEF Register!registerVars
  <2>1. TypeOK /\ LateInv
    BY <1>2 DEF DnsInv
  <2>2. ASSUME NEW c \in Callers, Exchanging(c), Prerequisite(UpdateOf(c)),
               zone' = ZoneWith(at[c].owner, After(UpdateOf(c))), UNCHANGED asked
        PROVE  Register!RegisterNext
    <3>1. UpdateOf(c) \in Updates /\ Sound(UpdateOf(c))
      BY <1>2, <2>1, <2>2, UpdateSound DEF DnsInv
    <3>2. UpdateOf(c).owner = at[c].owner
      BY <2>1, UpdateType, TypeParts
    <3> QED BY <2>1, <2>2, <3>1, <3>2, UpdateIsGuarded
  <2>3. ASSUME NEW c \in Callers, CallStep(c)
        PROVE  Register!RegisterNext \/ UNCHANGED <<zone, asked>>
    <3>1. CASE Exchange(c)
      BY <2>2, <3>1 DEF Exchange, SetZone
    <3>2. CASE \/ PublishLookup(c) \/ PublishReadback(c)
               \/ DeleteLookup(c) \/ DeleteReadback(c)
               \/ ProveAuthoritative(c) \/ ProveRecursive(c)
      BY <3>2 DEF PublishLookup, PublishReadback, DeleteLookup, DeleteReadback,
                  ProveAuthoritative, ProveRecursive, serverVars, historyVars
    <3> QED BY <2>3, <3>1, <3>2 DEF CallStep
  <2>4. ASSUME NEW c \in Callers, Fault(c)
        PROVE  Register!RegisterNext \/ UNCHANGED <<zone, asked>>
    <3>1. CASE ExchangeUnanswered(c)
      BY <2>2, <3>1 DEF ExchangeUnanswered, SetZone
    <3>2. CASE ExchangeWithoutEffect(c) \/ ExchangeTimesOut(c) \/ ReadFails(c) \/ Abandon(c)
      BY <3>2 DEF ExchangeWithoutEffect, ExchangeTimesOut, ReadFails, Abandon,
                  serverVars, historyVars
    <3> QED BY <2>4, <3>1, <3>2 DEF Fault
  <2>5. ASSUME NEW t \in Tasks, CallStarts(t)
        PROVE  Register!RegisterNext \/ UNCHANGED <<zone, asked>>
    <3>1. PICK c \in Callers : Call(c, t)
      BY <2>5 DEF CallStarts
    <3>2. /\ t.what \in {"publish", "delete", "prove"}
          /\ t.what # "prove" => \E r \in Records : t.goal = {r}
      BY DnsAssumption
    <3>3. zone' = zone
      BY <3>1 DEF Call, serverVars
    <3>4. CASE t.what = "prove"
      BY <3>1, <3>3, <3>4 DEF Call
    <3>5. CASE t.what # "prove"
      <4>1. PICK r \in Records : t.goal = {r}
        BY <3>2, <3>5
      <4>2. asked' = asked \cup {[what |-> t.what, owner |-> r.owner, key |-> r.key]}
        BY <3>1, <3>5, <4>1 DEF Call
      <4>3. Register!Ask(t.what, r.owner, r.key)
        BY <3>3, <4>2 DEF Register!Ask
      <4> QED BY <3>2, <3>5, <4>3 DEF Register!RegisterNext, Records
    <3> QED BY <3>4, <3>5
  <2>6. ASSUME Environment
        PROVE  Register!RegisterNext \/ UNCHANGED <<zone, asked>>
    <3>1. ASSUME NEW u \in late, LateUpdate(u)
          PROVE  Register!RegisterNext \/ UNCHANGED <<zone, asked>>
      <4>1. u \in Updates /\ Sound(u) /\ UNCHANGED asked
        BY <2>1, <3>1 DEF TypeOK, LateInv, Sound, LateUpdate
      <4>2. CASE Prerequisite(u)
        BY <2>1, <3>1, <4>1, <4>2, UpdateIsGuarded DEF LateUpdate, SetZone
      <4>3. CASE ~ Prerequisite(u)
        BY <3>1, <4>3 DEF LateUpdate
      <4> QED BY <4>2, <4>3
    <3>2. ASSUME NEW u \in late, LateUpdateLost(u)
          PROVE  UNCHANGED <<zone, asked>>
      BY <3>2 DEF LateUpdateLost, historyVars
    <3>3. ASSUME NEW o \in Owners, CacheFills(o) \/ CacheExpires(o)
          PROVE  UNCHANGED <<zone, asked>>
      BY <3>3 DEF CacheFills, CacheExpires, historyVars
    <3>4. ASSUME NEW o \in Owners, NEW set \in ZoneSets, OutsideEdit(o, set)
          PROVE  Register!RegisterNext
      <4>1. zone' = [zone EXCEPT ![o] = set] /\ UNCHANGED asked
        BY <3>4 DEF OutsideEdit, SetZone, ZoneWith
      <4>2. Register!Edit(o)
        BY <4>1 DEF Register!Edit
      <4> QED BY <4>2 DEF Register!RegisterNext
    <3> QED BY <2>6, <3>1, <3>2, <3>3, <3>4 DEF Environment
  <2>7. CASE UNCHANGED vars
    BY <2>7 DEF vars, serverVars, historyVars
  <2> QED BY <1>2, <2>3, <2>4, <2>5, <2>6, <2>7 DEF Next
<1> QED BY <1>1, <1>2, Invariance, PTL DEF Spec, WritesAreGuarded, Register!RegisterSpec
=============================================================================
