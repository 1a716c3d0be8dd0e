-------------------------- MODULE DirectLifecycle ---------------------------
(***************************************************************************)
(* The lifecycle of a domain that carries its own DKIM records: the sweep  *)
(* that ends --auto retires what is older than the active key, or looks    *)
(* for a key to activate when none is.                                     *)
(***************************************************************************)
EXTENDS SelectorLifecycle

ASSUME DirectAssumption == ~Cname

EmptyDirectory ==
  [present |-> {}, active |-> {}, revoked |-> {}, wild |-> {},
   name |-> [k \in Keys |-> k], rank |-> [k \in Keys |-> 0],
   age |-> [k \in Keys |-> 0], idle |-> [k \in Keys |-> 0]]

Init ==
  /\ ldap = EmptyDirectory /\ tree = EmptyDirectory
  /\ zone = [n \in Names |-> NoRecord] /\ cached = {} /\ wildcard = FALSE
  /\ phase = "idle" /\ doing = NoCall /\ queue = {} /\ outcome = "none"
  /\ quiet = [k \in Keys |-> Horizon] /\ buried = [n \in Names |-> 0]
  /\ waived = {}
  /\ operator = MaxOperator /\ faults = MaxFaults

\* CmdAuto takes the selectors as they are sorted now, newest first.
Sweep ==
  /\ phase = "sweep" /\ doing = NoCall
  /\ phase' = "visit" /\ queue' = tree.present
  /\ UNCHANGED <<ldap, tree, doing, outcome>> /\ SameRecords /\ SameBounds

\* Mutant: a domain without an active key is passed over.
VisitedUnsigned(d, k) ==
  LET older == d.active # {} /\ d.rank[k] < d.rank[Newest(d.active, d)] IN
  IF d.active # {} /\ (k \in d.revoked \/ (k \in Usable(d) /\ older))
  THEN Call("retire", k) ELSE NoCall

\* One turn of that loop: the call it makes on selector k.
Visited(d, k) ==
  LET older == d.active # {} /\ d.rank[k] < d.rank[Newest(d.active, d)] IN
  CASE k \in d.revoked \/ (k \in Usable(d) /\ older) -> Call("retire", k)
    [] k \in Usable(d) /\ d.active = {} -> Call("test", k)
    [] OTHER -> NoCall

Visit ==
  /\ phase = "visit" /\ doing = NoCall /\ queue # {}
  /\ LET k == Newest(queue, ldap) IN
     /\ queue' = queue \ {k}
     /\ \E seen \in Seen : tree' = seen /\ doing' = Visited(seen, k)
  /\ UNCHANGED <<ldap, phase, outcome>> /\ SameRecords /\ SameBounds

EndAuto ==
  /\ phase = "visit" /\ doing = NoCall /\ queue = {}
  /\ Complete /\ UNCHANGED <<ldap, tree, doing>> /\ SameRecords /\ SameBounds

RunStep == CallStep \/ AutoStep \/ Sweep \/ Visit \/ EndAuto
Next == RunStep \/ Around

Spec == Init /\ [][Next]_vars

\* A started command goes on, the scheduler starts --auto again, days pass,
\* and a lookup that is tried again and again sees the record in the end.
FairSpec == /\ Spec /\ WF_vars(RunStep) /\ WF_vars(RunAuto) /\ SF_vars(Tick)
            /\ SF_vars(TestKeyPasses)

-----------------------------------------------------------------------------
\* Whatever call of a command run with --update-dns fails, a record never
\* stands at a name without an LDAP entry, where it would escape every later
\* command; only the removal by another host may leave one behind.
NoOrphanRecord ==
  \A n \in Names \ waived : zone[n] # NoRecord => n \in ldap.present

\* An active key has its complete record in the zone, unless the resolver
\* showed one that was gone already or the operator forced it.
ActiveKeyPublished ==
  \A k \in ldap.active \ waived : zone[k] = k

\* A domain that signs with a key whose record was seen never goes without an
\* active key: not by a rotation, a deletion, a race with another host or a
\* command that stops anywhere.
NeverUnsigned == [][ldap.active \ waived # {} => ldap'.active # {}]_vars

\* A complete record is revoked or removed only when its key has not signed
\* for more than delete_delay days, so that what it signed can be verified.
\* Force options and other hosts are not held to it.
QuietBeforeRetirement ==
  [][\A k \in Keys \ waived' : zone[k] = k /\ zone'[k] # k => quiet[k] > DeleteDelay]_vars

\* Rotation ends: again and again one key alone is active, with its record.
SettledSigner ==
  \E k \in Keys : ldap.active = {k} /\ (zone[k] = k \/ k \in waived)
KeepsSettling == []<>SettledSigner

\* No revoked key stays for good: again and again all tombstones that have
\* their entry are younger than the retention asks for.
TombstonesEnd == []<>(\A k \in ldap.revoked : buried[k] < Horizon)
=============================================================================
