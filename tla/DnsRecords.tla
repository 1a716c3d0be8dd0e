----------------------------- MODULE DnsRecords -----------------------------
(***************************************************************************)
(* Publication, proof and retirement of TXT records: PublishIfAbsent,      *)
(* ProveAll and DeleteExact, called by any number of runs of the program,  *)
(* against one authoritative server and one resolver with a cache.  A call *)
(* reads, sends at most one update with a prerequisite, and decides by one *)
(* more read.  Replies are lost or spoilt, an update may reach the server  *)
(* after its sender stopped waiting, and others edit the zone.             *)
(*                                                                         *)
(* A value is a key and an encoding: the code takes two records for equal  *)
(* when they carry the same public key, but a prerequisite compares text.  *)
(***************************************************************************)
EXTENDS Naturals, FiniteSets

CONSTANTS
  Callers,     \* runs of the program
  Owners,      \* TXT owner names
  Keys,        \* public keys
  Tasks,       \* what callers may be asked to do
  ZoneSets,    \* record sets found at first, or written by others
  MaxAttempts, \* proof_max_attempts
  MaxFaults,   \* bound on lost or spoilt messages, failed reads and crashes
  MaxEdits,    \* bound on edits by others
  MaxLate      \* bound on updates still under way without a sender

Forms == {"preferred", "equivalent"}
Values == Keys \X Forms
Encodings(k) == {<<k, f>> : f \in Forms}
Records == [owner : Owners, key : Keys]

ASSUME DnsAssumption ==
  /\ Owners # {} /\ Keys # {}
  /\ Tasks \subseteq [what : {"publish", "delete", "prove"},
                      goal : (SUBSET Records) \ {{}}]
  /\ \A t \in Tasks : t.what # "prove" => \E r \in Records : t.goal = {r}
  /\ ZoneSets \subseteq SUBSET Values
  /\ MaxAttempts \in Nat \ {0} /\ MaxFaults \in Nat /\ MaxEdits \in Nat
  /\ MaxLate \in Nat

VARIABLES
  zone,     \* zone[o]: the record set at owner o on the authoritative server
  cached,   \* owners the resolver has an answer for, positive or negative
  cache,    \* cache[o]: that answer
  late,     \* updates under way whose senders no longer wait
  pc,       \* what each call does next
  goal,     \* the records it is about
  left,     \* those ProveAll has not proved yet
  at,       \* the record it works on
  attempts, \* polls of that record on the present channel
  observed, \* the value DeleteExact read
  reply,    \* how the exchange of its update ended
  result,   \* how the last call ended
  applied,  \* history: the server carried out the update of the last call
  gone,     \* history: goal records that went from exact to not, since the
            \* call began
  asked,    \* history: publications and deletions ever called for
  faults, edits

serverVars == <<zone, cached, cache, late>>
callVars == <<goal, left, at, attempts, observed, reply, result>>
historyVars == <<applied, gone, asked>>
vars == <<serverVars, pc, callVars, historyVars, faults, edits>>

Controls == {"idle", "publishLookup", "publishExchange", "publishReadback",
             "deleteLookup", "deleteExchange", "deleteReadback",
             "proveAuthoritative", "proveRecursive"}
Replies == {"none", "success", "refused", "lost", "invalid"}
Results == {"none", "created", "present", "resumable", "removed", "absent",
            "proved", "conflict", "uncertain", "failed"}
Updates == [what : {"publish", "delete"}, owner : Owners, key : Keys, value : Values]

-----------------------------------------------------------------------------
(* Classification of an answer for an expected key.                        *)

Exact(set, k) == \E value \in Encodings(k) : set = {value}

\* Mutant: any record set that contains the key is taken for exact.
ClassifyLoosely(set, k) ==
  IF set = {} THEN "absent"
  ELSE IF set \cap Encodings(k) # {} THEN "exact" ELSE "conflict"

Classify(set, k) == IF set = {} THEN "absent"
                    ELSE IF Exact(set, k) THEN "exact" ELSE "conflict"

Seen(c) == Classify(zone[at[c].owner], at[c].key)

-----------------------------------------------------------------------------
(* Updates.                                                                *)

\* Mutant: creations carry no prerequisite.
PrerequisiteDeleteOnly(u) == u.what = "publish" \/ zone[u.owner] = {u.value}

\* The prerequisite of a creation is that there is no record set, of a
\* deletion that the record set is exactly the value that was read.
Prerequisite(u) == zone[u.owner] = IF u.what = "publish" THEN {} ELSE {u.value}

After(u) == IF u.what = "publish" THEN zone[u.owner] \cup {u.value} ELSE {}

ZoneWith(o, set) == [zone EXCEPT ![o] = set]

\* The history of records lost under a running or finished call.
Losses(next) ==
  [c \in Callers |->
     gone[c] \cup {r \in goal[c] : /\ Exact(zone[r.owner], r.key)
                                   /\ ~ Exact(next[r.owner], r.key)}]

SetZone(next) == zone' = next /\ gone' = Losses(next)

\* The update a call sends: the preferred encoding is inserted, the value
\* that was read is removed.
UpdateOf(c) ==
  LET what == IF pc[c] = "publishExchange" THEN "publish" ELSE "delete"
  IN [what |-> what, owner |-> at[c].owner, key |-> at[c].key,
      value |-> IF what = "publish" THEN <<at[c].key, "preferred">> ELSE observed[c]]

-----------------------------------------------------------------------------
Init ==
  /\ zone \in [Owners -> ZoneSets]
  /\ cached = {} /\ cache = [o \in Owners |-> {}]
  /\ late = {}
  /\ pc = [c \in Callers |-> "idle"]
  /\ goal = [c \in Callers |-> {}] /\ left = [c \in Callers |-> {}]
  /\ at = [c \in Callers |-> CHOOSE r \in Records : TRUE]
  /\ attempts = [c \in Callers |-> 0]
  /\ observed = [c \in Callers |-> CHOOSE v \in Values : TRUE]
  /\ reply = [c \in Callers |-> "none"] /\ result = [c \in Callers |-> "none"]
  /\ applied = [c \in Callers |-> FALSE] /\ gone = [c \in Callers |-> {}]
  /\ asked = {}
  /\ faults = 0 /\ edits = 0

Goto(c, label) == pc' = [pc EXCEPT ![c] = label]

Finish(c, outcome) == /\ Goto(c, "idle")
                      /\ result' = [result EXCEPT ![c] = outcome]
                      /\ reply' = [reply EXCEPT ![c] = "none"]
                      /\ left' = [left EXCEPT ![c] = {}]
                      /\ attempts' = [attempts EXCEPT ![c] = 0]
                      /\ UNCHANGED <<goal, at, observed>>

FirstStep == [publish |-> "publishLookup", delete |-> "deleteLookup",
              prove |-> "proveAuthoritative"]

Call(c, t) ==
  /\ pc[c] = "idle"
  /\ Goto(c, FirstStep[t.what])
  /\ goal' = [goal EXCEPT ![c] = t.goal]
  /\ left' = [left EXCEPT ![c] = t.goal]
  /\ \E r \in t.goal : at' = [at EXCEPT ![c] = r]
  /\ result' = [result EXCEPT ![c] = "none"]
  /\ applied' = [applied EXCEPT ![c] = FALSE]
  /\ gone' = [gone EXCEPT ![c] = {}]
  /\ asked' = IF t.what = "prove" THEN asked
              ELSE asked \cup {[what |-> t.what, owner |-> r.owner, key |-> r.key] :
                                 r \in t.goal}
  /\ UNCHANGED <<serverVars, attempts, observed, reply>>

-----------------------------------------------------------------------------
(* PublishIfAbsent.                                                        *)

\* Mutant: a name that does not exist yet is not accepted as absence.
PublishLookupStrict(c) ==
  /\ pc[c] = "publishLookup"
  /\ Finish(c, IF Seen(c) = "exact" THEN "present" ELSE "conflict")
  /\ UNCHANGED <<serverVars, historyVars>>

PublishLookup(c) ==
  /\ pc[c] = "publishLookup"
  /\ \/ Seen(c) = "exact" /\ Finish(c, "present")
     \/ Seen(c) = "conflict" /\ Finish(c, "conflict")
     \/ Seen(c) = "absent" /\ Goto(c, "publishExchange") /\ UNCHANGED callVars
  /\ UNCHANGED <<serverVars, historyVars>>

PublishReadback(c) ==
  /\ pc[c] = "publishReadback"
  /\ \/ /\ Seen(c) = "exact"
        /\ Finish(c, IF reply[c] = "success" THEN "created" ELSE "present")
     \/ Seen(c) = "conflict" /\ Finish(c, "conflict")
     \/ Seen(c) = "absent" /\ Finish(c, "resumable")
  /\ UNCHANGED <<serverVars, historyVars>>

-----------------------------------------------------------------------------
(* DeleteExact.                                                            *)

\* Mutant: the prerequisite is built from the expected text.
DeleteLookupExpected(c) ==
  /\ pc[c] = "deleteLookup"
  /\ \/ Seen(c) = "absent" /\ Finish(c, "absent")
     \/ Seen(c) = "conflict" /\ Finish(c, "conflict")
     \/ /\ Seen(c) = "exact"
        /\ observed' = [observed EXCEPT ![c] = <<at[c].key, "preferred">>]
        /\ Goto(c, "deleteExchange")
        /\ UNCHANGED <<goal, left, at, attempts, reply, result>>
  /\ UNCHANGED <<serverVars, historyVars>>

DeleteLookup(c) ==
  /\ pc[c] = "deleteLookup"
  /\ \/ Seen(c) = "absent" /\ Finish(c, "absent")
     \/ Seen(c) = "conflict" /\ Finish(c, "conflict")
     \/ /\ Seen(c) = "exact"
        /\ \E value \in zone[at[c].owner] :
             observed' = [observed EXCEPT ![c] = value]
        /\ Goto(c, "deleteExchange")
        /\ UNCHANGED <<goal, left, at, attempts, reply, result>>
  /\ UNCHANGED <<serverVars, historyVars>>

\* A reply that came but proves nothing leaves the outcome open, even when
\* the record is gone.
DeleteReadback(c) ==
  /\ pc[c] = "deleteReadback"
  /\ \/ Seen(c) = "conflict" /\ Finish(c, "conflict")
     \/ Seen(c) # "conflict" /\ reply[c] = "invalid" /\ Finish(c, "uncertain")
     \/ Seen(c) = "absent" /\ reply[c] # "invalid" /\ Finish(c, "removed")
     \/ Seen(c) = "exact" /\ reply[c] # "invalid" /\ Finish(c, "resumable")
  /\ UNCHANGED <<serverVars, historyVars>>

-----------------------------------------------------------------------------
(* The exchange of an update, the same for both.                           *)

ReadbackOf(c) == IF pc[c] = "publishExchange" THEN "publishReadback" ELSE "deleteReadback"

Exchanging(c) == pc[c] \in {"publishExchange", "deleteExchange"}

EndExchange(c, how) == /\ Goto(c, ReadbackOf(c))
                       /\ reply' = [reply EXCEPT ![c] = how]
                       /\ UNCHANGED <<goal, left, at, attempts, observed, result>>

\* The server carries the update out, or refuses it with a signed answer.
Exchange(c) ==
  /\ Exchanging(c)
  /\ IF Prerequisite(UpdateOf(c))
     THEN /\ EndExchange(c, "success")
          /\ SetZone(ZoneWith(at[c].owner, After(UpdateOf(c))))
          /\ applied' = [applied EXCEPT ![c] = TRUE]
     ELSE /\ EndExchange(c, "refused")
          /\ UNCHANGED <<zone, gone, applied>>
  /\ UNCHANGED <<cached, cache, late, asked>>

\* Faults: the update took effect, but its answer is lost, or arrives without
\* a valid signature.
ExchangeUnanswered(c) ==
  /\ Exchanging(c) /\ Prerequisite(UpdateOf(c))
  /\ \E how \in {"lost", "invalid"} : EndExchange(c, how)
  /\ SetZone(ZoneWith(at[c].owner, After(UpdateOf(c))))
  /\ applied' = [applied EXCEPT ![c] = TRUE]
  /\ UNCHANGED <<cached, cache, late, asked>>

\* The update had no effect: it was lost, refused for another reason, or
\* refused in an answer that did not arrive.
ExchangeWithoutEffect(c) ==
  /\ Exchanging(c)
  /\ \E how \in {"lost", "invalid", "refused"} : EndExchange(c, how)
  /\ UNCHANGED <<serverVars, historyVars>>

\* The caller stops waiting while the update is still under way.
ExchangeTimesOut(c) ==
  /\ Exchanging(c) /\ Cardinality(late \cup {UpdateOf(c)}) <= MaxLate
  /\ EndExchange(c, "lost")
  /\ late' = late \cup {UpdateOf(c)}
  /\ UNCHANGED <<zone, cached, cache, historyVars>>

-----------------------------------------------------------------------------
(* ProveAll.                                                               *)

StillPending(c) ==
  IF attempts[c] + 1 < MaxAttempts
  THEN /\ attempts' = [attempts EXCEPT ![c] = attempts[c] + 1]
       /\ UNCHANGED <<pc, goal, left, at, observed, reply, result>>
  ELSE Finish(c, "failed")

\* A name that does not exist fails the proof at once, a name without TXT
\* records is polled again; which of the two an absent record set means
\* depends on other names of the zone.
Unproved(c, state) == \/ Finish(c, "failed")
                      \/ state = "absent" /\ StillPending(c)

\* Mutant: the authoritative channel is not asked.
ProveAuthoritativeSkipped(c) ==
  /\ pc[c] = "proveAuthoritative"
  /\ Goto(c, "proveRecursive")
  /\ UNCHANGED <<serverVars, callVars, historyVars>>

ProveAuthoritative(c) ==
  /\ pc[c] = "proveAuthoritative"
  /\ IF Seen(c) = "exact"
     THEN /\ Goto(c, "proveRecursive")
          /\ attempts' = [attempts EXCEPT ![c] = 0]
          /\ UNCHANGED <<goal, left, at, observed, reply, result>>
     ELSE Unproved(c, Seen(c))
  /\ UNCHANGED <<serverVars, historyVars>>

\* What the resolver answers: from its cache, or what the server has, which
\* it then keeps.
Resolved(o) == IF o \in cached THEN cache[o] ELSE zone[o]

\* Mutant: a record that was proved is not struck off.
NextRecordRepeats(c) ==
  /\ Goto(c, "proveAuthoritative")
  /\ \E r \in left[c] : at' = [at EXCEPT ![c] = r]
  /\ attempts' = [attempts EXCEPT ![c] = 0]
  /\ UNCHANGED <<goal, left, observed, reply, result>>

NextRecord(c) ==
  LET rest == left[c] \ {at[c]}
  IN IF rest = {} THEN Finish(c, "proved")
     ELSE /\ Goto(c, "proveAuthoritative")
          /\ left' = [left EXCEPT ![c] = rest]
          /\ \E r \in rest : at' = [at EXCEPT ![c] = r]
          /\ attempts' = [attempts EXCEPT ![c] = 0]
          /\ UNCHANGED <<goal, observed, reply, result>>

\* Mutant: the recursive channel is not asked.
ProveRecursiveSkipped(c) ==
  /\ pc[c] = "proveRecursive"
  /\ NextRecord(c)
  /\ UNCHANGED <<serverVars, historyVars>>

ProveRecursive(c) ==
  LET o == at[c].owner  state == Classify(Resolved(o), at[c].key)
  IN /\ pc[c] = "proveRecursive"
     /\ IF state = "exact" THEN NextRecord(c) ELSE Unproved(c, state)
     /\ cached' = cached \cup {o}
     /\ cache' = [cache EXCEPT ![o] = Resolved(o)]
     /\ UNCHANGED <<zone, late, historyVars>>

-----------------------------------------------------------------------------
(* Failed reads and the environment.                                       *)

\* A read fails: no answer, a spoilt one, or the deadline passed.  The
\* publisher takes an error code for a conflict.
FailedReadOf(c) ==
  IF pc[c] \in {"proveAuthoritative", "proveRecursive"} THEN {"failed"}
  ELSE IF pc[c] \in {"deleteLookup", "deleteReadback"} THEN {"uncertain"}
  ELSE {"uncertain", "conflict"}

ReadFails(c) ==
  /\ pc[c] # "idle" /\ ~ Exchanging(c)
  /\ \E outcome \in FailedReadOf(c) : Finish(c, outcome)
  /\ UNCHANGED <<serverVars, historyVars>>

\* The process dies, or has no TSIG secret to sign with.
Abandon(c) ==
  /\ pc[c] # "idle"
  /\ Finish(c, "failed")
  /\ UNCHANGED <<serverVars, historyVars>>

LateUpdate(u) ==
  /\ late' = late \ {u}
  /\ IF Prerequisite(u) THEN SetZone(ZoneWith(u.owner, After(u)))
     ELSE UNCHANGED <<zone, gone>>
  /\ UNCHANGED <<cached, cache, pc, callVars, applied, asked, faults, edits>>

LateUpdateLost(u) ==
  /\ late' = late \ {u}
  /\ UNCHANGED <<zone, cached, cache, pc, callVars, historyVars, faults, edits>>

\* Another client looks the name up: the resolver fetches what the server has.
CacheFills(o) ==
  /\ o \notin cached
  /\ cached' = cached \cup {o} /\ cache' = [cache EXCEPT ![o] = zone[o]]
  /\ UNCHANGED <<zone, late, pc, callVars, historyVars, faults, edits>>

CacheExpires(o) ==
  /\ o \in cached
  /\ cached' = cached \ {o} /\ cache' = [cache EXCEPT ![o] = {}]
  /\ UNCHANGED <<zone, late, pc, callVars, historyVars, faults, edits>>

OutsideEdit(o, set) ==
  /\ edits < MaxEdits /\ edits' = edits + 1
  /\ SetZone(ZoneWith(o, set))
  /\ UNCHANGED <<cached, cache, late, pc, callVars, applied, asked, faults>>

-----------------------------------------------------------------------------
CallStep(c) ==
  /\ \/ PublishLookup(c) \/ PublishReadback(c)
     \/ DeleteLookup(c) \/ DeleteReadback(c)
     \/ Exchange(c)
     \/ ProveAuthoritative(c) \/ ProveRecursive(c)
  /\ UNCHANGED <<faults, edits>>

Fault(c) ==
  /\ faults < MaxFaults /\ faults' = faults + 1
  /\ \/ ExchangeUnanswered(c) \/ ExchangeWithoutEffect(c) \/ ExchangeTimesOut(c)
     \/ ReadFails(c) \/ Abandon(c)
  /\ UNCHANGED edits

CallStarts(t) == \E c \in Callers : Call(c, t) /\ UNCHANGED <<faults, edits>>

Environment ==
  \/ \E u \in late : LateUpdate(u) \/ LateUpdateLost(u)
  \/ \E o \in Owners : \/ CacheFills(o) \/ CacheExpires(o)
                       \/ \E set \in ZoneSets : OutsideEdit(o, set)

Next == \/ \E c \in Callers : CallStep(c) \/ Fault(c)
        \/ \E t \in Tasks : CallStarts(t)
        \/ Environment

Spec == Init /\ [][Next]_vars

\* A call that is under way goes on; negative and positive answers expire.
Progress == /\ \A c \in Callers : WF_vars(CallStep(c))
            /\ \A o \in Owners : WF_vars(CacheExpires(o))

FairSpec == Spec /\ Progress

\* Commands that did not succeed are given again, as ErrPublishResumable and
\* ErrDeleteResumable ask for.
RetrySpec == FairSpec /\ \A t \in Tasks : SF_vars(CallStarts(t))

-----------------------------------------------------------------------------
(* Properties.                                                             *)

TypeOK ==
  /\ zone \in [Owners -> SUBSET Values]
  /\ cached \subseteq Owners /\ cache \in [Owners -> SUBSET Values]
  /\ late \subseteq Updates
  /\ pc \in [Callers -> Controls]
  /\ goal \in [Callers -> SUBSET Records] /\ left \in [Callers -> SUBSET Records]
  /\ at \in [Callers -> Records] /\ attempts \in [Callers -> 0..MaxAttempts]
  /\ observed \in [Callers -> Values]
  /\ reply \in [Callers -> Replies] /\ result \in [Callers -> Results]
  /\ applied \in [Callers -> BOOLEAN] /\ gone \in [Callers -> SUBSET Records]
  /\ asked \subseteq [what : {"publish", "delete"}, owner : Owners, key : Keys]
  /\ faults \in 0..MaxFaults /\ edits \in 0..MaxEdits

\* PublishIfAbsent says "created" to one caller only: the one whose own update
\* the server carried out.  Two hosts that publish one record never both hear
\* that they created it.
CreatedIsMine == \A c \in Callers : result[c] = "created" => applied[c]

\* A call that reports a record as published or proved is right as long as
\* nothing took the record away since the call began: replies that were lost,
\* encodings, caches and other callers do not mislead it.  ProveAll says so
\* of a whole list, whose first record it looked at long before.
ReportedIsThere ==
  \A c \in Callers :
    result[c] \in {"created", "present", "proved"} =>
      \A r \in goal[c] \ gone[c] : Exact(zone[r.owner], r.key)

\* After a proof resolvers answer with the record: no cached absence or old
\* value is left that would make a verifier miss a key signers switch to.
ProvedIsResolvable ==
  \A c \in Callers :
    result[c] = "proved" =>
      \A r \in goal[c] \ gone[c] : Exact(Resolved(r.owner), r.key)

\* "Removed" is said only of a record that was there and went while the call
\* ran; whatever was absent before is reported as absent.
RemovedWentNow ==
  \A c \in Callers : result[c] = "removed" => goal[c] \subseteq gone[c]

\* The zone, seen as one register for each name: it is filled only when empty
\* and by a publication somebody asked for, and emptied only of the key whose
\* deletion was asked for, also by updates that arrive late.  Other values of
\* others are never touched.
Register == INSTANCE TxtRegister WITH records <- zone
WritesAreGuarded == Register!RegisterSpec

\* Every call ends: a poll gives up, and nothing waits for another caller.
CallsEnd == \A c \in Callers : pc[c] # "idle" ~> pc[c] = "idle"

\* Publications that are retried fill every name asked for, whatever was lost.
PublishedEventually ==
  \A t \in Tasks : t.what = "publish" => \A r \in t.goal : <>[](zone[r.owner] # {})

\* A record that is published is proved in the end, negative caches or not.
ProvedEventually ==
  \A t \in Tasks :
    t.what = "prove" => <>(\E c \in Callers : result[c] = "proved" /\ goal[c] = t.goal)

\* Retirements that are retried empty the name, whichever encoding of the
\* key it holds.
RetiredEventually ==
  \A t \in Tasks : t.what = "delete" => \A r \in t.goal : <>[](zone[r.owner] = {})
=============================================================================
