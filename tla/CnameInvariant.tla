--------------------------- MODULE CnameInvariant ---------------------------
(***************************************************************************)
(* The inductive invariant of CnameSlots: names and ranks of the entries,  *)
(* how far the snapshot of a command may be behind them, what the steps    *)
(* left of a reorder still assume and achieve, and what each call relies   *)
(* on.  Only the last part needs that no other host removes selectors.     *)
(***************************************************************************)
EXTENDS CnameSlots

CallShape == [do : Calls, key : Keys \cup {NoKey}]
Plans == UNION {[1..n -> Keys] : n \in 0..3}
PlannedKeys == {plan[i] : i \in DOMAIN plan}

\* The variables the properties depend on.
TypeOK ==
  /\ ldap \in Directory /\ tree \in Directory
  /\ zone \in [Names -> Names \cup {Tombstone, NoRecord}]
  /\ wildcard \in BOOLEAN /\ phase \in Phases /\ doing \in CallShape
  /\ queue \subseteq Keys /\ plan \in Plans
  /\ steps \in Seq([key : Keys, to : Names]) /\ sources \subseteq Names \ SlotNames

-----------------------------------------------------------------------------
(* The entries, and the snapshot of a running command.                     *)

\* An entry bears the name of its key, a slot or the temporary name, and no two
\* bear one name.
WellNamed(d) ==
  /\ d.active \subseteq d.present
  /\ \A k \in Keys : d.name[k] \in {k, Temporary} \cup SlotNames
  /\ \A j, k \in d.present : d.name[j] = d.name[k] => j = k

\* The ranks of the entries are the numbers from 1 to their count.
WellRanked(d) ==
  /\ \A k \in d.present : d.rank[k] \in 1..Cardinality(d.present)
  /\ \A j, k \in d.present : d.rank[j] = d.rank[k] => j = k

EntriesInv == WellNamed(ldap) /\ WellRanked(ldap)

Running == phase # "idle"

\* An entry the snapshot does not show is not there; only inactive entries
\* may be gone, and only while predecessors are disabled does it show others
\* active.
Snapshot(d) ==
  /\ WellNamed(d) /\ WellRanked(d)
  /\ ldap.present \subseteq d.present
  /\ \A k \in ldap.present : d.name[k] = ldap.name[k]
  /\ ~OtherHost => d.present = ldap.present /\ d.rank = ldap.rank
TreeInv ==
  Running => /\ Snapshot(tree)
             /\ doing.do # "disable" => tree.active = ldap.active
             /\ doing.do = "disable" => ldap.active \subseteq tree.active \cup {doing.key}

-----------------------------------------------------------------------------
(* The call.                                                               *)

CallsOf(p) ==
  CASE p \in {"idle", "slot1", "slot2", "activate", "sources"} -> {"none"}
    [] p = "prune" -> {"none", "erase", "drop"}
    [] p = "rename" -> {"none", "rename"}
    [] p = "slot3" -> {"none", "enable", "disable"}
    [] p = "last" -> {"none", "retire", "tombstone", "revoke"}
    [] OTHER -> Calls \ {"publish", "clean", "rename"}

CallInv ==
  LET k == doing.key
      do == doing.do
  IN /\ do \in CallsOf(phase)
     /\ do \notin {"none", "store"} => k \in Keys
     /\ do = "test" => k \in tree.present
     /\ do = "enable" => \/ k \in waived \/ k \notin ldap.present
                         \/ zone[ldap.name[k]] = k
     /\ do = "disable" => k \in ldap.active
     /\ do = "tombstone" => k \in tree.present \ ldap.active
     /\ do = "erase" => k \in tree.present /\ (k \in ldap.active => k \in waived)

-----------------------------------------------------------------------------
(* The reorder.                                                            *)

Reordering == phase \in {"prune", "rename"}
Placed == phase \in {"slot1", "slot2", "activate", "slot3", "sources", "last"}

\* About the steps ss of a plan ks, from where the keys of S bear the names at:
\* a step puts a key into its slot, or parks an inactive one;
Meant(ks, ss, active) ==
  \A i \in DOMAIN ss :
    \/ \E a \in DOMAIN ks : ss[i].key = ks[a] /\ ss[i].to = Slot[a]
    \/ /\ ss[i].to = Temporary
       /\ ss[i].key \in {ks[a] : a \in DOMAIN ks} \ active

\* whoever bears the slot a step goes to, at first or after an earlier step,
\* leaves it before;
Free(ss, at, S) ==
  \A i \in DOMAIN ss : ss[i].to \in SlotNames =>
    /\ \A k \in S : at[k] = ss[i].to => \E j \in 1..(i - 1) : ss[j].key = k
    /\ \A h \in 1..(i - 1) : ss[h].to = ss[i].to =>
         \E j \in (h + 1)..(i - 1) : ss[j].key = ss[h].key

\* and the last step of a key ends in its slot, or it is there.
Ends(ks, ss, at, S) ==
  \A a \in DOMAIN ks :
    \/ \E i \in DOMAIN ss :
         /\ ss[i].key = ks[a] /\ ss[i].to = Slot[a]
         /\ \A j \in DOMAIN ss : j > i => ss[j].key # ks[a]
    \/ /\ ks[a] \in S => at[ks[a]] = Slot[a]
       /\ \A j \in DOMAIN ss : ss[j].key # ks[a]

StepsInv ==
  LET S == PlannedKeys \cap ldap.present
  IN Meant(plan, steps, ldap.active) /\ Free(steps, ldap.name, S)
     /\ Ends(plan, steps, ldap.name, S)

PlanInv ==
  Reordering \/ Placed =>
    /\ \A a, b \in DOMAIN plan : plan[a] = plan[b] => a = b
    /\ ldap.present \subseteq PlannedKeys \cup
         IF phase = "prune"
         THEN queue \cup {k \in {doing.key} : doing.do \in {"erase", "drop"}} ELSE {}
    /\ phase = "prune" =>
         /\ queue \cap (PlannedKeys \cup ldap.active) = {}
         /\ doing.do # "none" => doing.key \notin PlannedKeys
    /\ Reordering => /\ 3 \in DOMAIN plan => plan[3] \notin ldap.active
                     /\ StepsInv
    /\ doing.do = "rename" =>
         /\ steps # <<>> /\ doing.key = Head(steps).key
         /\ Head(steps).to \in SlotNames => zone[Head(steps).to] = SlotContent(Head(steps).to)

\* From the first slot on every key is in its slot, slot by slot its record
\* too, and behind the activation only the newest key is active.
SlotsInv ==
  /\ Placed => \A a \in DOMAIN plan : plan[a] \in ldap.present =>
                 ldap.name[plan[a]] = Slot[a]
  /\ phase = "activate" /\ 1 \in DOMAIN plan /\ plan[1] \in ldap.present =>
       zone["slot1"] = plan[1]
  /\ phase = "slot3" /\ doing.do \in {"enable", "disable"} =>
       1 \in DOMAIN plan /\ doing.key = plan[1]
  /\ \/ phase = "slot3" /\ doing.do = "none"
     \/ phase \in {"sources", "last"}
     => ldap.active \subseteq {plan[a] : a \in DOMAIN plan \cap {1}}
  /\ phase = "slot2" /\ 1 \in DOMAIN plan /\ plan[1] \in ldap.present =>
       zone["slot1"] = plan[1]

\* Without another host the planned keys stay, in their order, and the slots
\* are filled one after the other.
ExactInv ==
  ~OtherHost /\ (Reordering \/ Placed) =>
    /\ PlannedKeys \subseteq ldap.present
    /\ \A a, b \in DOMAIN plan : a < b => ldap.rank[plan[a]] > ldap.rank[plan[b]]
    /\ phase \in {"slot2", "activate", "slot3", "sources", "last"} =>
         zone["slot1"] = IF 1 \in DOMAIN plan THEN plan[1] ELSE NoRecord
    /\ phase \in {"activate", "slot3", "sources", "last"} =>
         zone["slot2"] = IF 2 \in DOMAIN plan THEN plan[2] ELSE NoRecord
    /\ phase \in {"sources", "last"} => zone["slot3"] = Tombstone
    /\ phase = "last" /\ doing.do # "none" => 3 \in DOMAIN plan /\ doing.key = plan[3]
    /\ \/ phase = "slot3" /\ doing.do = "none"
       \/ phase \in {"sources", "last"}
       => ldap.active = {plan[a] : a \in DOMAIN plan \cap {1}}

CnameInv ==
  /\ TypeOK /\ EntriesInv /\ TreeInv /\ CallInv /\ PlanInv /\ SlotsInv /\ ExactInv
  /\ ActiveResolves
=============================================================================
