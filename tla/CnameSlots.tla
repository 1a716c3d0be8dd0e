----------------------------- MODULE CnameSlots -----------------------------
(***************************************************************************)
(* The lifecycle of a domain behind a CNAME target: CmdReorder keeps its   *)
(* keys in three static slots of the central zone.  Slot 1 holds the newest*)
(* key, active; slot 2 its predecessor, inactive; slot 3 a tombstone.  The *)
(* keys move by renaming their LDAP entries, one step at a time.           *)
(***************************************************************************)
EXTENDS SelectorLifecycle, Sequences

CONSTANT InitialKeys   \* bound on the selectors of the first state

ASSUME CnameAssumption == Cname /\ InitialKeys \in Nat

VARIABLES
  plan,     \* the keys that get a slot, newest first
  steps,    \* the renames left: key and target name
  sources   \* names that the plan leaves and that are no slot

planVars == <<plan, steps, sources>>
slotVars == <<vars, planVars>>

-----------------------------------------------------------------------------
(* planCNAMERenames: a move whose target is free goes first; a cycle is    *)
(* opened by sending an inactive key to a temporary name.  A plan under    *)
(* construction has the moves left, by the index of key and slot, the      *)
(* names the planned keys have by then, and the steps so far.              *)

Moves(ks, d) == {i \in DOMAIN ks : d.name[ks[i]] # Slot[i]}

FirstOf(S) == CHOOSE i \in S : \A j \in S : i <= j

\* Moves whose target no planned key bears, and those that may wait.
FreeMoves(ks, p) ==
  {i \in p.left : \A j \in DOMAIN ks : p.at[ks[j]] # Slot[i]}
Parkable(ks, p, d) == {i \in p.left : ks[i] \notin d.active}

Step(p, k, n, left) ==
  [left |-> left, at |-> [p.at EXCEPT ![k] = n],
   steps |-> Append(p.steps, [key |-> k, to |-> n])]

\* One turn of the loop.
Turn(ks, d, p) ==
  LET free == FreeMoves(ks, p)
      idle == Parkable(ks, p, d)
  IN IF free # {}
     THEN Step(p, ks[FirstOf(free)], Slot[FirstOf(free)], p.left \ {FirstOf(free)})
     ELSE IF idle # {} THEN Step(p, ks[FirstOf(idle)], Temporary, p.left)
     ELSE p

\* Three keys form one cycle at most: four turns are enough.
Planned(ks, d) ==
  LET before == [left |-> Moves(ks, d), at |-> d.name, steps |-> <<>>]
      first == Turn(ks, d, before)
      second == Turn(ks, d, first)
      third == Turn(ks, d, second)
  IN Turn(ks, d, third)

\* What the DNS slot of the i-th planned key has to hold.
Content(ks, i) == IF i = 3 THEN Tombstone ELSE ks[i]
SlotContent(n) == Content(plan, CHOOSE i \in 1..3 : Slot[i] = n)

-----------------------------------------------------------------------------
NewestFirst(d) == [i \in 1..Cardinality(d.present) |->
  CHOOSE k \in d.present : d.rank[k] = Cardinality(d.present) + 1 - i]

FirstThree(ks) == [i \in DOMAIN ks \cap {1, 2, 3} |-> ks[i]]

\* Reasons to refuse: an active key would be pruned or become a tombstone,
\* a key that must be shown in full is revoked, or the cycle is all active.
Refused(ks, d) ==
  \/ \E i \in DOMAIN ks : i >= 3 /\ ks[i] \in d.active
  \/ \E i \in DOMAIN ks : i <= 2 /\ ks[i] \in d.revoked
  \/ Planned(FirstThree(ks), d).left # {}

Init ==
  /\ \E n \in 0..InitialKeys : \E ks \in [1..n -> Keys] :
     \E at \in [1..n -> Keys \cup SlotNames] : \E signer \in 0..n :
       /\ \A i, j \in 1..n : i # j => ks[i] # ks[j] /\ at[i] # at[j]
       /\ \A i \in 1..n : at[i] \in Keys => at[i] = ks[i]
       /\ ldap = [present |-> {ks[i] : i \in 1..n},
                  active |-> {ks[i] : i \in {signer} \ {0}},
                  revoked |-> {}, wild |-> {},
                  name |-> [k \in Keys |-> IF \E i \in 1..n : ks[i] = k
                              THEN at[CHOOSE i \in 1..n : ks[i] = k] ELSE k],
                  rank |-> [k \in Keys |-> IF \E i \in 1..n : ks[i] = k
                              THEN CHOOSE i \in 1..n : ks[i] = k ELSE 0],
                  age |-> [k \in Keys |-> 0], idle |-> [k \in Keys |-> 0]]
       /\ zone = [m \in Names |-> IF \E i \in {signer} \ {0} : at[i] = m
                                  THEN ks[signer] ELSE NoRecord]
  /\ tree = ldap /\ cached = {} /\ wildcard = FALSE
  /\ phase = "idle" /\ doing = NoCall /\ queue = {} /\ outcome = "none"
  /\ quiet = [k \in Keys |-> Horizon] /\ buried = [n \in Names |-> 0]
  /\ waived = {}
  /\ operator = MaxOperator /\ faults = MaxFaults
  /\ plan = <<>> /\ steps = <<>> /\ sources = {}

-----------------------------------------------------------------------------
Same == UNCHANGED <<ldap, tree, doing>> /\ SameRecords /\ SameBounds

\* CmdReorder and reorderByType up to the first write: everything is decided
\* from one snapshot, and a refusal changes nothing.
Reorder ==
  /\ phase = "reorder" /\ doing = NoCall
  /\ LET ks == NewestFirst(tree)
         three == FirstThree(ks) IN
     \/ /\ Refused(ks, tree)
        /\ phase' = "idle" /\ outcome' = "refused" /\ queue' = {}
        /\ UNCHANGED planVars
     \/ /\ ~Refused(ks, tree)
        /\ phase' = "prune" /\ UNCHANGED outcome
        /\ queue' = {ks[i] : i \in DOMAIN ks \ {1, 2, 3}}
        /\ plan' = three /\ steps' = Planned(three, tree).steps
        /\ sources' = {tree.name[three[i]] :
                         i \in {j \in DOMAIN three :
                                  tree.name[three[j]] # Slot[j]}} \ SlotNames
  /\ Same

\* CmdDelete with force on what has no slot any more: record, then entry; a
\* selector that is gone is passed over.
Prune ==
  /\ phase = "prune" /\ doing = NoCall
  /\ IF queue = {} THEN phase' = "rename" /\ UNCHANGED <<queue, doing>>
     ELSE LET k == Newest(queue, tree) IN
          /\ queue' = queue \ {k} /\ UNCHANGED phase
          /\ doing' = IF k \in tree.present THEN Call("erase", k) ELSE NoCall
  /\ UNCHANGED <<ldap, tree, outcome, planVars>> /\ SameRecords /\ SameBounds

\* A key that moves into a slot is put into the DNS slot first.
\* Mutant: the record follows after the rename only.
PlaceLater ==
  /\ phase = "rename" /\ doing = NoCall /\ steps # <<>>
  /\ doing' = Call("rename", Head(steps).key)
  /\ UNCHANGED <<ldap, tree, phase, queue, outcome, planVars>>
  /\ SameRecords /\ SameBounds

Place ==
  /\ phase = "rename" /\ doing = NoCall /\ steps # <<>>
  /\ IF Head(steps).to \in SlotNames
     THEN Put(Head(steps).to, SlotContent(Head(steps).to)) ELSE SameRecords
  /\ doing' = Call("rename", Head(steps).key)
  /\ UNCHANGED <<ldap, tree, phase, queue, outcome, planVars>> /\ SameBounds

Rename ==
  /\ doing.do = "rename"
  /\ IF doing.key \in ldap.present /\ At(ldap, Head(steps).to) = {}
     THEN /\ ldap' = Renamed(ldap, doing.key, Head(steps).to)
          /\ steps' = Tail(steps) /\ UNCHANGED <<phase, outcome>>
     ELSE /\ phase' = "idle" /\ outcome' = "failed" /\ UNCHANGED <<ldap, steps>>
  /\ tree' = ldap' /\ doing' = NoCall
  /\ UNCHANGED <<queue, plan, sources>> /\ SameRecords /\ SameBounds

Renames == /\ phase = "rename" /\ doing = NoCall /\ steps = <<>>
           /\ Proceed("slot1") /\ UNCHANGED planVars /\ Same

\* Mutant: an unused slot keeps its record.
LiveSlotKept(i, at, to) ==
  /\ phase = at
  /\ IF i \in DOMAIN plan THEN Put(Slot[i], plan[i]) ELSE SameRecords
  /\ Proceed(to)
  /\ UNCHANGED <<ldap, tree, doing, planVars>> /\ SameBounds

\* Both live slots are written again, and an unused one is removed.
LiveSlot(i, at, to) ==
  /\ phase = at
  /\ Put(Slot[i], IF i \in DOMAIN plan THEN plan[i] ELSE NoRecord)
  /\ Proceed(to)
  /\ UNCHANGED <<ldap, tree, doing, planVars>> /\ SameBounds

\* activateCNAMESelector: no lookup, slot 1 on, the others off.
ActivateSlot ==
  /\ phase = "activate" /\ doing = NoCall
  /\ Proceed("slot3")
  /\ doing' = IF 1 \in DOMAIN plan THEN Enabling(plan[1]) ELSE NoCall
  /\ UNCHANGED <<ldap, tree, planVars>> /\ SameRecords /\ SameBounds

LastSlot ==
  /\ phase = "slot3" /\ doing = NoCall
  /\ Put(Slot[3], Tombstone) /\ Proceed("sources")
  /\ UNCHANGED <<ldap, tree, doing, planVars>> /\ SameBounds

LeaveSource ==
  /\ phase = "sources" /\ sources # {}
  /\ \E n \in sources : Put(n, NoRecord) /\ sources' = sources \ {n}
  /\ UNCHANGED <<ldap, tree, runVars, plan, steps>> /\ SameBounds

RetireLast ==
  /\ phase = "sources" /\ sources = {} /\ Proceed("last")
  /\ doing' = IF 3 \in DOMAIN plan THEN Call("retire", plan[3]) ELSE NoCall
  /\ UNCHANGED <<ldap, tree, planVars>> /\ SameRecords /\ SameBounds

EndReorder ==
  /\ phase = "last" /\ doing = NoCall
  /\ Complete
  /\ plan' = <<>> /\ steps' = <<>> /\ UNCHANGED sources /\ Same

SlotStep ==
  \/ Reorder \/ Prune \/ Place \/ Rename \/ Renames
  \/ LiveSlot(1, "slot1", "slot2") \/ LiveSlot(2, "slot2", "activate")
  \/ ActivateSlot \/ LastSlot \/ LeaveSource \/ RetireLast \/ EndReorder

Shared == (CallStep \/ AutoStep) /\ UNCHANGED planVars
RunStep == Shared \/ SlotStep
Outside ==
  /\ Around
  /\ IF phase' \in {"idle", "command", "reconcile"}
     THEN plan' = <<>> /\ steps' = <<>> /\ sources' = {} ELSE UNCHANGED planVars
Next == RunStep \/ Outside

Spec == Init /\ [][Next]_slotVars

-----------------------------------------------------------------------------
\* At every moment, in the middle of renames too and wherever a run stopped,
\* the record at the name of an active key is the record of that key, unless
\* the operator enabled it on an answer that was out of date.
ActiveResolves == \A k \in ldap.active \ waived : zone[ldap.name[k]] = k

\* What a reorder is for: see the table of the CNAME model.
Reconciled ==
  LET ks == NewestFirst(ldap) IN
  /\ DOMAIN ks \subseteq {1, 2, 3}
  /\ \A i \in DOMAIN ks : ldap.name[ks[i]] = Slot[i]
  /\ ldap.active = {ks[i] : i \in DOMAIN ks \cap {1}}
  /\ \A i \in {1, 2} : zone[Slot[i]] = IF i \in DOMAIN ks THEN ks[i] ELSE NoRecord
  /\ zone[Slot[3]] = Tombstone

\* A reorder that completes leaves the slots as the table has them.
CompletedReorderReconciles ==
  [][phase = "last" /\ outcome' = "completed" => Reconciled']_slotVars
=============================================================================
