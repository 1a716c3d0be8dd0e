------------------------- MODULE SelectorLifecycle --------------------------
(***************************************************************************)
(* The legacy OpenDKIM manager on one domain and one key algorithm: LDAP   *)
(* selector entries, the TXT record at each selector name, and the command *)
(* that one process runs at a time.  The steps every domain shares are     *)
(* here; DirectLifecycle adds the sweep of a domain that carries its own   *)
(* records, CnameSlots the reorder of one behind a CNAME target.           *)
(*                                                                         *)
(* Every LDAP or DNS write is one step.  An error of any call is returned  *)
(* up to Run and ends the command, so Abort stands for a refused call, for *)
(* a call whose reply is lost (it follows the write) and for a crash.  The *)
(* reload of the tree that follows the last write of a command is part of  *)
(* that write.  Days pass between commands, and ages stop at their limit.  *)
(* Every command is run with --update-dns; without it the manager leaves   *)
(* the records alone.                                                      *)
(***************************************************************************)
EXTENDS Naturals, FiniteSets

CONSTANTS
  Keys,             \* key pairs; a key first bears the selector of its name
  Cname,            \* the domain has a destinationIndicator
  ExpireAfter, DeleteDelay, RevokedRetention, MaxRevoked,  \* configuration
  StaleResolver,    \* the resolver may still show a record that was replaced
  OtherHost,        \* another host may remove inactive selectors
  ForceAllowed,     \* the operator may pass the force options
  MaxOperator,      \* bound on the operator's commands and configuration changes
  MaxFaults         \* bound on aborted commands and removals by other hosts

Slot == <<"slot1", "slot2", "slot3">>
SlotNames == {"slot1", "slot2", "slot3"}
Temporary == "temporary"
Names == Keys \cup SlotNames \cup {Temporary}
Tombstone == "tombstone"
NoRecord == "none"
NoKey == "nokey"
Horizon == (DeleteDelay + 1) + RevokedRetention   \* the longest age compared

ASSUME LifecycleAssumption ==
  /\ IsFiniteSet(Keys) /\ Keys \cap (SlotNames \cup {Temporary}) = {}
  /\ {Tombstone, NoRecord, NoKey} \cap Keys = {}
  /\ ExpireAfter \in Nat /\ DeleteDelay \in Nat /\ RevokedRetention \in Nat
  /\ MaxRevoked \in Nat /\ MaxOperator \in Nat
  /\ MaxFaults \in Nat
  /\ {Cname, StaleResolver, OtherHost, ForceAllowed} \subseteq BOOLEAN

VARIABLES
  ldap,      \* the selector entries of the domain, a Directory
  tree,      \* the snapshot of them that the command works from
  zone,      \* zone[n]: what the TXT record at selector n holds
  cached,    \* replaced records a resolver may still show: name and key
  wildcard,  \* the domain is in multiple_signatures_domains
  phase,     \* where the command stands
  doing,     \* the call it is in, and the key concerned
  queue,     \* the selectors a loop has left
  outcome,   \* how the last command ended
  quiet,     \* quiet[k]: days since k last signed
  buried,    \* buried[n]: days since the tombstone was put at n
  waived,    \* history: keys enabled on an answer that was out of date, handled
             \* with a force option, or removed by another host
  operator, faults  \* what is left of the bounds

runVars == <<phase, doing, queue, outcome>>
historyVars == <<quiet, buried, waived>>
boundVars == <<operator, faults>>
vars == <<ldap, tree, zone, cached, wildcard, runVars, historyVars, boundVars>>

Directory == [present : SUBSET Keys, active : SUBSET Keys,
              revoked : SUBSET Keys, wild : SUBSET Keys,
              name : [Keys -> Names], rank : [Keys -> Nat],
              age : [Keys -> Nat], idle : [Keys -> Nat]]

Phases == {"idle", "reconcile", "addNew", "addMissing", "rotate", "visit",
           "sweep", "reorder", "command", "prune", "rename", "slot1", "slot2",
           "activate", "slot3", "sources", "last"}
Calls == {"none", "store", "publish", "test", "enable", "disable", "retire",
          "tombstone", "revoke", "clean", "erase", "drop", "rename"}

Call(what, k) == [do |-> what, key |-> k]
NoCall == Call("none", NoKey)

-----------------------------------------------------------------------------
(* What an LDAP write does to the entries: every one of them renews the    *)
(* modification time.                                                      *)

Modified(d, k) == [d EXCEPT !.idle[k] = 0]

Stored(d, k) ==
  [Modified(d, k) EXCEPT
     !.present = @ \cup {k}, !.name[k] = k, !.age[k] = 0,
     !.rank[k] = Cardinality(d.present) + 1,
     !.wild = IF wildcard THEN @ \cup {k} ELSE @ \ {k}]

Enabled(d, k) == [Modified(d, k) EXCEPT !.active = @ \cup {k}]
Disabled(d, k) == [Modified(d, k) EXCEPT !.active = @ \ {k}]
Revoked(d, k) == [Modified(d, k) EXCEPT !.revoked = @ \cup {k}]
Renamed(d, k, n) == [Modified(d, k) EXCEPT !.name[k] = n]

Dropped(d, k) ==
  [Modified(d, k) EXCEPT
     !.present = @ \ {k}, !.active = @ \ {k}, !.revoked = @ \ {k},
     !.wild = @ \ {k}, !.name[k] = k, !.age[k] = 0,
     !.rank = [j \in Keys |-> IF j = k THEN 0
                              ELSE IF @[j] > d.rank[k] THEN @[j] - 1 ELSE @[j]]]

Newest(S, d) == CHOOSE k \in S : \A j \in S : d.rank[j] <= d.rank[k]
Usable(d) == d.present \ d.revoked
At(d, n) == {k \in d.present : d.name[k] = n}

\* The tree reads keys lazily: it may find an entry gone, and then reloads.
Seen == {tree} \cup IF tree.present \subseteq ldap.present THEN {} ELSE {ldap}

\* A key pair that no entry and no record, present or cached, shows.
Fresh == {k \in Keys \ ldap.present :
            /\ zone[k] = NoRecord
            /\ \A n \in Names : zone[n] # k /\ <<n, k>> \notin cached}

-----------------------------------------------------------------------------
(* Records and endings that several steps share.                           *)

PutRecord(n, value) ==
  /\ zone' = [zone EXCEPT ![n] = value]
  /\ buried' = [buried EXCEPT ![n] = 0]
  /\ cached' = IF StaleResolver /\ zone[n] \in Keys /\ zone[n] # value
               THEN cached \cup {<<n, zone[n]>>} ELSE cached
  /\ UNCHANGED quiet
Put(n, value) == PutRecord(n, value) /\ UNCHANGED waived

SameRecords == UNCHANGED <<zone, cached, historyVars>>
SameBounds == UNCHANGED <<wildcard, boundVars>>

\* Writes an entry; the answer noSuchObject ends the command.
Write(k, next, change(_)) ==
  /\ IF k \in ldap.present
     THEN /\ ldap' = change(ldap) /\ doing' = next
          /\ UNCHANGED <<phase, queue, outcome>>
     ELSE /\ phase' = "idle" /\ doing' = NoCall /\ queue' = {}
          /\ outcome' = "failed" /\ UNCHANGED ldap
  /\ SameBounds

Proceed(to) == /\ phase' = to /\ UNCHANGED <<queue, outcome>>
Complete == /\ phase' = "idle" /\ queue' = {} /\ outcome' = "completed"

-----------------------------------------------------------------------------
(* CmdCreate: the LDAP entry first, then the record of a direct domain.    *)

Store ==
  /\ doing.do = "store"
  /\ \E k \in Fresh :
       /\ ldap' = Stored(ldap, k)
       /\ IF Cname THEN doing' = NoCall /\ tree' = ldap'
                   ELSE doing' = Call("publish", k) /\ UNCHANGED tree
       /\ quiet' = [quiet EXCEPT ![k] = Horizon]
       /\ waived' = waived \ {k}
  /\ UNCHANGED <<zone, cached, buried>> /\ SameBounds /\ UNCHANGED <<phase, queue, outcome>>

Publish ==
  /\ doing.do = "publish"
  /\ Put(doing.key, doing.key)
  /\ tree' = ldap /\ doing' = NoCall
  /\ SameBounds /\ UNCHANGED <<ldap, phase, queue, outcome>>

-----------------------------------------------------------------------------
(* CmdActive: test the record, enable, then disable the others.            *)

\* Mutant: any record counts.
TestsNothing(k) == k \notin tree.revoked

\* CmdTestKey through the recursive resolver: it may find nothing, show the
\* zone as it is, or a complete record that is no longer there.
TestPasses(k) ==
  /\ k \notin tree.revoked
  /\ zone[tree.name[k]] = k \/ <<tree.name[k], k>> \in cached

\* The active keys the snapshot showed besides k.
Others(k) == (tree.active \ {k}) \cap ldap.active

\* Mutant: the others are disabled first.
DisablingFirst(k) == Call(IF Others(k) = {} THEN "enable" ELSE "disable", k)

Enabling(k) == Call(IF k \in tree.active THEN "disable" ELSE "enable", k)

TestKey ==
  /\ doing.do = "test"
  /\ doing' = NoCall
  /\ UNCHANGED <<ldap, tree, phase, queue, outcome>>
  /\ SameRecords /\ SameBounds

TestKeyPasses ==
  /\ doing.do = "test" /\ TestPasses(doing.key)
  /\ doing' = Enabling(doing.key)
  /\ waived' = IF /\ zone[tree.name[doing.key]] # doing.key
                  /\ <<tree.name[doing.key], doing.key>> \in cached
               THEN waived \cup {doing.key} ELSE waived \ {doing.key}
  /\ UNCHANGED <<ldap, tree, phase, queue, outcome, zone, cached, quiet, buried>>
  /\ SameBounds

Enable ==
  /\ doing.do = "enable"
  /\ Write(doing.key,
           IF Others(doing.key) = {} THEN NoCall
           ELSE Call("disable", doing.key),
           LAMBDA d : Enabled(d, doing.key))
  /\ tree' = IF Others(doing.key) = {} THEN ldap' ELSE tree
  /\ quiet' = [quiet EXCEPT ![doing.key] =
                 IF doing.key \in ldap.present THEN 0 ELSE @]
  /\ UNCHANGED <<zone, cached, buried, waived>>

Disable ==
  /\ doing.do = "disable"
  /\ IF Others(doing.key) = {}
     THEN /\ tree' = ldap /\ doing' = NoCall
          /\ SameBounds /\ UNCHANGED <<ldap, phase, queue, outcome>>
     ELSE \E j \in Others(doing.key) :
            LET last == Others(doing.key) = {j} IN
            /\ Write(j, IF last THEN NoCall ELSE doing,
                     LAMBDA d : Disabled(d, j))
            /\ tree' = IF last THEN ldap' ELSE tree
  /\ SameRecords

-----------------------------------------------------------------------------
(* CmdDelete: a key past the delay becomes a tombstone, in DNS and then in *)
(* LDAP; then the tombstones past their retention go, again DNS first.     *)

\* Mutant: the tombstones are left alone.
NeverCleans == NoCall

AfterDelete == IF Cname THEN NoCall ELSE Call("clean", NoKey)

\* Mutant: a day too early.
DueEarly(d, k) == k \in Usable(d) \ d.active /\ d.idle[k] >= DeleteDelay

Due(d, k) == k \in Usable(d) \ d.active /\ d.idle[k] > DeleteDelay

Retire ==
  /\ doing.do = "retire"
  /\ \E seen \in Seen :
       /\ tree' = seen
       /\ doing' = IF Due(seen, doing.key) THEN Call("tombstone", doing.key)
                   ELSE AfterDelete
  /\ SameRecords /\ SameBounds /\ UNCHANGED <<ldap, phase, queue, outcome>>

BuryKey ==
  /\ doing.do = "tombstone"
  /\ Put(tree.name[doing.key], Tombstone)
  /\ doing' = Call("revoke", doing.key)
  /\ SameBounds /\ UNCHANGED <<ldap, tree, phase, queue, outcome>>

RevokeKey ==
  /\ doing.do = "revoke"
  /\ Write(doing.key, AfterDelete, LAMBDA d : Revoked(d, doing.key))
  /\ tree' = ldap'
  /\ SameRecords

\* Sorted by the time of modification, the newest first, k may stand at the
\* index max_revoked, where the loop starts to delete.
ShouldDeleteRevoked(d, k) ==
  IF RevokedRetention > 0 THEN d.idle[k] >= RevokedRetention
  ELSE /\ Cardinality({j \in d.revoked \ {k} : d.idle[j] <= d.idle[k]}) >= MaxRevoked
       /\ Cardinality({j \in d.revoked : d.idle[j] < d.idle[k]}) <= MaxRevoked

\* Mutant: the record is left behind.
CleanEntriesOnly ==
  /\ doing.do = "clean"
  /\ LET doomed == {k \in tree.revoked : ShouldDeleteRevoked(tree, k)} IN
     doing' = IF doomed = {} THEN NoCall ELSE Call("drop", CHOOSE k \in doomed : TRUE)
  /\ SameRecords /\ SameBounds /\ UNCHANGED <<ldap, tree, phase, queue, outcome>>

Clean ==
  /\ doing.do = "clean"
  /\ \E seen \in Seen :
       LET doomed == {k \in seen.revoked : ShouldDeleteRevoked(seen, k)} IN
       IF doomed = {} THEN tree' = ldap /\ doing' = NoCall
       ELSE \E k \in doomed : tree' = seen /\ doing' = Call("erase", k)
  /\ SameRecords /\ SameBounds /\ UNCHANGED <<ldap, phase, queue, outcome>>

Erase ==
  /\ doing.do = "erase"
  /\ Put(tree.name[doing.key], NoRecord)
  /\ doing' = Call("drop", doing.key)
  /\ SameBounds /\ UNCHANGED <<ldap, tree, phase, queue, outcome>>

\* An entry that is gone already counts as deleted.
Drop ==
  /\ doing.do = "drop"
  /\ ldap' = IF doing.key \in ldap.present THEN Dropped(ldap, doing.key) ELSE ldap
  /\ tree' = IF Cname THEN ldap' ELSE Dropped(tree, doing.key)
  /\ doing' = AfterDelete
  /\ SameRecords /\ SameBounds /\ UNCHANGED <<phase, queue, outcome>>

-----------------------------------------------------------------------------
(* The commands of the operator, and the phases every --auto starts with.  *)

Begin(to, call) ==
  /\ phase = "idle"
  /\ phase' = to /\ doing' = call /\ tree' = ldap
  /\ UNCHANGED <<queue, outcome, ldap, wildcard, faults>>
  /\ UNCHANGED <<zone, cached, quiet, buried>>

RunAuto == Begin("reconcile", NoCall) /\ UNCHANGED <<operator, waived>>

Command(call) == /\ operator > 0 /\ operator' = operator - 1
                 /\ Begin("command", call) /\ UNCHANGED waived
Forced(k, call) == /\ ForceAllowed /\ operator > 0 /\ operator' = operator - 1
                   /\ Begin("command", call) /\ waived' = waived \cup {k}

Create == Fresh # {} /\ Command(Call("store", NoKey))
Active(k) ==
  /\ k \in ldap.present
  /\ \/ Command(Call("test", k))
     \/ Forced(k, Call(IF k \in ldap.active THEN "disable" ELSE "enable", k))
Delete(k) ==
  /\ k \in ldap.present
  /\ \/ Command(Call("retire", k))
     \/ Forced(k, Call("erase", k))

\* A command of the operator ends when its calls are done.
EndCommand ==
  /\ phase = "command" /\ doing = NoCall
  /\ Complete /\ UNCHANGED <<ldap, tree, doing>> /\ SameRecords /\ SameBounds

Drifted(d) == {k \in d.active : (k \in d.wild) # wildcard}

\* reconcileActiveSigningDomains: one LDAP replacement per drifted selector.
Reconcile ==
  /\ phase = "reconcile" /\ doing = NoCall
  /\ \E seen \in Seen :
       IF Drifted(seen) = {}
       THEN /\ Proceed("addNew") /\ tree' = seen /\ UNCHANGED <<ldap, doing>>
            /\ SameBounds
       ELSE \E k \in Drifted(seen) :
              LET fixed(d) == [Modified(d, k) EXCEPT
                    !.wild = IF wildcard THEN @ \cup {k} ELSE @ \ {k}] IN
              /\ Write(k, NoCall, fixed)
              /\ tree' = [seen EXCEPT !.wild = ldap'.wild]
  /\ SameRecords

\* Decisions that only read: the call they make, and the phase after it.
Decide(at, to, call(_)) ==
  /\ phase = at /\ doing = NoCall
  /\ \E seen \in Seen : tree' = seen /\ doing' = call(seen)
  /\ Proceed(to) /\ SameRecords /\ SameBounds /\ UNCHANGED ldap

Creation(needed) == IF needed /\ Fresh # {} THEN Call("store", NoKey) ELSE NoCall

AddNew ==
  Decide("addNew", "addMissing",
         LAMBDA d : Creation(/\ Usable(d) # {}
                             /\ d.age[Newest(Usable(d), d)] >= ExpireAfter))

AddMissing ==
  Decide("addMissing", "rotate", LAMBDA d : Creation(Usable(d) = {}))

\* CmdRotate tries the newest key beyond the active one, and only that.
Rotation(d) ==
  LET newer == {k \in Usable(d) : d.rank[k] > d.rank[Newest(d.active, d)]} IN
  IF d.active = {} \/ newer = {} THEN NoCall ELSE Call("test", Newest(newer, d))

Rotate == Decide("rotate", IF Cname THEN "reorder" ELSE "sweep", Rotation)

-----------------------------------------------------------------------------
(* Around the command: time, configuration, other hosts, and failure.      *)

Capped(n, limit) == IF n < limit THEN n + 1 ELSE n
Aged(f, limit, S) == [k \in DOMAIN f |-> IF k \in S THEN Capped(f[k], limit)
                                         ELSE f[k]]

Tick ==
  /\ phase = "idle"
  /\ ldap' = [ldap EXCEPT !.age = Aged(@, ExpireAfter, ldap.present),
                          !.idle = Aged(@, Horizon, ldap.present)]
  /\ quiet' = Aged(quiet, Horizon, Keys \ ldap.active)
  /\ buried' = Aged(buried, Horizon, {n \in Names : zone[n] = Tombstone})
  /\ cached' = {}
  /\ UNCHANGED <<tree, zone, waived, runVars, boundVars, wildcard>>

Configure ==
  /\ phase = "idle" /\ operator > 0
  /\ operator' = operator - 1 /\ wildcard' = ~wildcard
  /\ UNCHANGED <<ldap, tree, zone, cached, runVars, historyVars, faults>>

\* Another host removes an inactive selector, record and entry.
Vanish(k) ==
  /\ OtherHost /\ faults > 0 /\ faults' = faults - 1
  /\ k \in ldap.present \ ldap.active
  /\ ldap' = Dropped(ldap, k)
  /\ PutRecord(ldap.name[k], NoRecord) /\ waived' = waived \cup {k}
  /\ UNCHANGED <<tree, wildcard, runVars, operator>>

Abort ==
  /\ phase # "idle" /\ faults > 0 /\ faults' = faults - 1
  /\ phase' = "idle" /\ doing' = NoCall /\ queue' = {} /\ outcome' = "failed"
  /\ UNCHANGED <<ldap, tree, wildcard, operator>> /\ SameRecords

-----------------------------------------------------------------------------
CallStep ==
  \/ Store \/ Publish \/ TestKey \/ TestKeyPasses \/ Enable \/ Disable
  \/ Retire \/ BuryKey \/ RevokeKey \/ Clean \/ Erase \/ Drop \/ EndCommand
AutoStep == Reconcile \/ AddNew \/ AddMissing \/ Rotate
Around == \/ RunAuto \/ Create \/ Tick \/ Configure \/ Abort
          \/ \E k \in Keys : Active(k) \/ Delete(k) \/ Vanish(k)
=============================================================================
