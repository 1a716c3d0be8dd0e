---------------------------- MODULE Generations -----------------------------
(***************************************************************************)
(* The pure generation algebra of package dkim2model: what the planners    *)
(* build from a generation, and what the validators that run again at      *)
(* every resume, retirement and observation accept.                        *)
(*                                                                         *)
(* The content of a generation maps each administrative binding (tenant,   *)
(* domain and use, with the profile it owns) to its status, its rollout    *)
(* and one credential per algorithm.  A credential is one number: its      *)
(* selector, handle and key pair, which are always allocated together.     *)
(* Operators that need the retained history take it as the function of     *)
(* number to root, [created, content].                                     *)
(***************************************************************************)
EXTENDS Naturals, FiniteSets

CONSTANTS
  Bindings,     \* administrative bindings, as numbers
  Algorithms,   \* signing algorithms, as numbers
  RotateAfter,  \* age at which a binding is due
  MaxBindings   \* most bindings one campaign may change

ASSUME GenerationsAssumption ==
  /\ Bindings \subseteq Nat \ {0} /\ IsFiniteSet(Bindings)
  /\ Algorithms \subseteq Nat \ {0} /\ IsFiniteSet(Algorithms)
  /\ RotateAfter \in Nat \ {0} /\ MaxBindings \in Nat

Rollouts == {"enforce", "observe", "off"}

-----------------------------------------------------------------------------
(* Contents                                                                *)

KeysOf(c, b) == {c[b].keys[a] : a \in DOMAIN c[b].keys}
Ids(c) == UNION {KeysOf(c, b) : b \in DOMAIN c}
Active(c) == {b \in DOMAIN c : c[b].status = "active"}

\* A complete generation: every profile has a credential, only an active
\* binding is enforced, and no credential serves two places.
Complete(c) ==
  /\ DOMAIN c # {}
  /\ \A b \in DOMAIN c : /\ c[b].keys # <<>>
                         /\ c[b].rollout = "enforce" => c[b].status = "active"
  /\ \A b, d \in DOMAIN c :
       \A e \in DOMAIN c[b].keys, f \in DOMAIN c[d].keys :
         c[b].keys[e] = c[d].keys[f] => b = d /\ e = f

Highest(S) == CHOOSE m \in S \cup {0} : \A n \in S : n <= m

\* Identifiers that no retained root uses: random ones in the source, and
\* here the next numbers above those in use, a place of its own for each slot.
Allocate(used, b, a) ==
  Highest(used) + (b - 1) * Cardinality(Algorithms) + a

FreshKeys(used, b, algorithms) == [a \in algorithms |-> Allocate(used, b, a)]

-----------------------------------------------------------------------------
(* Planners.  used holds the credentials of every retained root.           *)

Planned(c, S, algorithms, used) ==
  [b \in DOMAIN c |->
     IF b \in S
     THEN [c[b] EXCEPT !.keys = FreshKeys(used, b, algorithms[b])]
     ELSE c[b]]

OwnAlgorithms(c) == [b \in DOMAIN c |-> DOMAIN c[b].keys]

\* Mutant: free identifiers are looked for in the current generation only.
PlanRotationForgetful(c, b, algorithms, used) ==
  Planned(c, {b}, [d \in {b} |-> algorithms], Ids(c))

\* A manual rotation replaces the keys of one active binding, whatever its
\* rollout, and may add algorithms but never drop one.
CanRotate(c, b, algorithms) ==
  /\ b \in Active(c) /\ algorithms \subseteq Algorithms
  /\ DOMAIN c[b].keys \subseteq algorithms
PlanRotation(c, b, algorithms, used) ==
  Planned(c, {b}, [d \in {b} |-> algorithms], used)

\* The oldest retained root that holds the exact credential of a slot.
Holding(roots, b, a, id) ==
  {n \in DOMAIN roots : /\ b \in DOMAIN roots[n].content
                        /\ a \in DOMAIN roots[n].content[b].keys
                        /\ roots[n].content[b].keys[a] = id}
Lowest(S) == CHOOSE m \in S : \A n \in S : m <= n
\* Mutant: the newest root that holds a key dates it.
SinceNewest(roots, c, b) ==
  Highest(UNION {{roots[n].created : n \in Holding(roots, b, a, c[b].keys[a])} :
                    a \in DOMAIN c[b].keys})
Since(roots, c, b) ==
  Lowest(UNION {{roots[n].created : n \in Holding(roots, b, a, c[b].keys[a])} :
                   a \in DOMAIN c[b].keys})
Due(roots, c, now) == {b \in Active(c) : Since(roots, c, b) + RotateAfter <= now}

\* An automatic campaign replaces the keys of every due binding.
CanCampaign(c, due) == due # {} /\ Cardinality(Active(c)) <= MaxBindings
PlanGlobalRotation(c, due, used) == Planned(c, due, OwnAlgorithms(c), used)

\* An extension gives every active binding the requested set; it needs one
\* binding that grows and none that would lose an algorithm.
CanExtend(c, algorithms) ==
  /\ Active(c) # {} /\ Cardinality(Active(c)) <= MaxBindings
  /\ algorithms \subseteq Algorithms
  /\ \A b \in Active(c) : DOMAIN c[b].keys \subseteq algorithms
  /\ \E b \in Active(c) : DOMAIN c[b].keys # algorithms
PlanGlobalExtension(c, algorithms, used) ==
  Planned(c, Active(c), [b \in Active(c) |-> algorithms], used)

\* A forward rollback puts back one binding of a retained generation whole.
CanRollBack(c, source, b) ==
  b \in Active(c) /\ b \in Active(source) /\ source[b] # c[b]
Rebase(c, source, b) == [c EXCEPT ![b] = source[b]]

\* A creation adds disabled bindings; an activation enables one.
Disabled(keys) == [status |-> "disabled", rollout |-> "off", keys |-> keys]
PlanCreate(c, S, algorithms, used) ==
  [b \in DOMAIN c \cup S |->
     IF b \in S THEN Disabled(FreshKeys(used, b, algorithms)) ELSE c[b]]
PlanActivation(c, b, rollout) ==
  [c EXCEPT ![b] = [status |-> "active", rollout |-> rollout, keys |-> @.keys]]

-----------------------------------------------------------------------------
(* Validators                                                              *)

SameFacts(c, d) ==
  /\ DOMAIN c = DOMAIN d
  /\ \A b \in DOMAIN c : c[b].status = d[b].status /\ c[b].rollout = d[b].rollout
Differing(old, new) == {b \in DOMAIN old : old[b].keys # new[b].keys}

\* Every old credential replaced and every added one new to the predecessor.
Replaced(old, new, b) ==
  /\ DOMAIN old[b].keys \subseteq DOMAIN new[b].keys
  /\ \A a \in DOMAIN old[b].keys : new[b].keys[a] # old[b].keys[a]
  /\ \A a \in DOMAIN new[b].keys \ DOMAIN old[b].keys : new[b].keys[a] \notin Ids(old)

\* The one enforced binding whose keys, all of them, differ.
RotatedOne(old, new, b) ==
  /\ SameFacts(old, new) /\ Differing(old, new) = {b}
  /\ Replaced(old, new, b)
  /\ old[b].status = "active" /\ old[b].rollout = "enforce"

\* Retirement and the observation of a predecessor start from this diff.
Retirable(old, new) == \E b \in DOMAIN old : RotatedOne(old, new, b)
\* Mutant: the two generations swapped.
RetiringSwapped(old, new) == UNION {KeysOf(new, b) : b \in Differing(old, new)}
Retiring(old, new) == UNION {KeysOf(old, b) : b \in Differing(old, new)}

\* Mutant: the retained history is not consulted.
RotationIntentForgetful(roots, current, candidate, b) ==
  /\ candidate = current + 1
  /\ RotatedOne(roots[current].content, roots[candidate].content, b)

\* What a resumed rotation accepts: such a diff, with credentials that no
\* older retained root knows, and nothing retained above the candidate.
RotationIntent(roots, current, candidate, b) ==
  LET old == roots[current].content
      new == roots[candidate].content
      older == UNION {Ids(roots[n].content) : n \in {m \in DOMAIN roots : m < candidate}}
  IN /\ candidate = current + 1 /\ \A n \in DOMAIN roots : n <= candidate
     /\ RotatedOne(old, new, b)
     /\ KeysOf(new, b) \cap older = {}

\* What a resumed campaign accepts: unchanged facts, and each differing
\* binding active with no credential carried over and no algorithm lost.
CampaignIntent(old, new) ==
  /\ SameFacts(old, new)
  /\ Cardinality(Differing(old, new)) <= MaxBindings
  /\ \A b \in Differing(old, new) :
       /\ old[b].status = "active"
       /\ DOMAIN old[b].keys \subseteq DOMAIN new[b].keys
       /\ KeysOf(old, b) \cap KeysOf(new, b) = {}
       /\ \A a \in DOMAIN new[b].keys \ DOMAIN old[b].keys :
             new[b].keys[a] \notin Ids(old)

\* What a campaign resumed with a key type accepts.
ExtensionIntent(old, new, algorithms) ==
  /\ algorithms # {} /\ CampaignIntent(old, new)
  /\ Active(old) # {} /\ Cardinality(Active(old)) <= MaxBindings
  /\ Differing(old, new) = Active(old)
  /\ \A b \in Active(old) : DOMAIN new[b].keys = algorithms

\* What a resumed creation accepts: the source and exactly the bindings asked
\* for, disabled, with the algorithms asked for, all credentials fresh.
CreateIntent(roots, current, candidate, S, algorithms) ==
  LET old == roots[current].content
      new == roots[candidate].content
      older == UNION {Ids(roots[n].content) : n \in {m \in DOMAIN roots : m < candidate}}
  IN /\ candidate = current + 1 /\ \A n \in DOMAIN roots : n <= candidate
     /\ S # {} /\ Cardinality(S) <= MaxBindings /\ algorithms # {}
     /\ S \cap DOMAIN old = {} /\ DOMAIN new = DOMAIN old \cup S
     /\ \A b \in DOMAIN old : new[b] = old[b]
     /\ \A b \in S : /\ new[b] = Disabled(new[b].keys)
                     /\ DOMAIN new[b].keys = algorithms
                     /\ KeysOf(new, b) \cap older = {}

\* What a resumed rollback accepts: the exact rebase of the source it names.
RollbackIntent(roots, current, candidate, source, b) ==
  /\ candidate = current + 1 /\ source < current
  /\ CanRollBack(roots[current].content, roots[source].content, b)
  /\ roots[candidate].content
       = Rebase(roots[current].content, roots[source].content, b)
=============================================================================
