------------------------ MODULE SuccessorsInvariant ------------------------
(***************************************************************************)
(* The inductive invariant of Successors: which numbers are retained, that *)
(* identifiers keep their place, and what a staged root has in common with *)
(* the generation it was planned from until it is committed.               *)
(***************************************************************************)
EXTENDS Successors

-----------------------------------------------------------------------------
(* Types.                                                                  *)

CredentialsOK(keys) ==
  DOMAIN keys \subseteq Algorithms /\ keys \in [DOMAIN keys -> Nat]
ProfileOK(p) ==
  /\ p = [status |-> p.status, rollout |-> p.rollout, keys |-> p.keys]
  /\ p.status \in {"active", "disabled"} /\ p.rollout \in Rollouts
  /\ CredentialsOK(p.keys)
ContentOK(c) ==
  /\ DOMAIN c \subseteq Bindings /\ c = [b \in DOMAIN c |-> c[b]]
  /\ \A b \in DOMAIN c : ProfileOK(c[b])
RootOK(r) ==
  /\ r = [created |-> r.created, native |-> r.native, content |-> r.content]
  /\ r.created \in Nat /\ r.native \in BOOLEAN /\ ContentOK(r.content)
Plans == [kind : Kinds, of : SUBSET Bindings, algorithms : SUBSET Algorithms,
          source : Nat]

\* The retained roots are numbered up to the one above current.
TypeOK ==
  /\ current \in 0..LastNumber /\ now \in 0..MaxTime /\ plan \in Plans
  /\ DOMAIN roots \subseteq 1..(current + 1) \cap 1..LastNumber
  /\ roots = [n \in DOMAIN roots |-> roots[n]]
  /\ \A n \in DOMAIN roots : RootOK(roots[n])

-----------------------------------------------------------------------------
(* The history.                                                            *)

\* Current is retained, every root is complete and no younger than the clock,
\* and there is always a number above the identifiers in use.
HistoryInv ==
  /\ current > 0 => current \in DOMAIN roots
  /\ \A n \in DOMAIN roots : Complete(roots[n].content) /\ roots[n].created <= now
  /\ \E m \in Nat : \A id \in Used : id <= m

\* No two places among the retained roots share an identifier.
PlacesUnique ==
  \A m, n \in DOMAIN roots :
    \A b \in DOMAIN roots[m].content, d \in DOMAIN roots[n].content :
      \A e \in DOMAIN roots[m].content[b].keys,
         f \in DOMAIN roots[n].content[d].keys :
        roots[m].content[b].keys[e] = roots[n].content[d].keys[f] =>
          b = d /\ e = f

-----------------------------------------------------------------------------
(* The staged root, as its plan made it.                                   *)

Older == UNION {Ids(roots[n].content) : n \in DOMAIN roots \ {current + 1}}

\* Rotations, campaigns and extensions: the bindings planned for, all active,
\* have credentials that no older root knows, and lost no algorithm; all else
\* is as it was.
Rekeyed(old, new, S, older) ==
  /\ S # {} /\ S \subseteq Active(old) /\ SameFacts(old, new)
  /\ \A b \in DOMAIN old \ S : new[b] = old[b]
  /\ \A b \in S : /\ DOMAIN old[b].keys \subseteq DOMAIN new[b].keys
                  /\ KeysOf(new, b) \cap older = {}

\* A creation: the bindings planned for, and only those, are added.
Added(old, new, S, algorithms, older) ==
  /\ S # {} /\ algorithms # {} /\ S \cap DOMAIN old = {}
  /\ DOMAIN new = DOMAIN old \cup S
  /\ \A b \in DOMAIN old : new[b] = old[b]
  /\ \A b \in S : /\ new[b] = Disabled(new[b].keys)
                  /\ DOMAIN new[b].keys = algorithms
                  /\ KeysOf(new, b) \cap older = {}

CreatePlan ==
  plan.kind = "create" =>
    Added(Content, Candidate.content, plan.of, plan.algorithms, Older)
ActivatePlan ==
  plan.kind = "activate" =>
    /\ DOMAIN Candidate.content = DOMAIN Content
    /\ \A b \in DOMAIN Content : Candidate.content[b].keys = Content[b].keys
    /\ \A b \in DOMAIN Content \ plan.of : Candidate.content[b] = Content[b]
    /\ \E b \in Bindings : plan.of = {b}
RekeyPlan ==
  /\ plan.kind \in {"rotate", "campaign", "extension"} =>
       Rekeyed(Content, Candidate.content, plan.of, Older)
  /\ plan.kind = "rotate" =>
       ~Candidate.native /\ \E b \in Bindings : plan.of = {b}
  /\ plan.kind \in {"campaign", "extension"} =>
       Candidate.native /\ Cardinality(Active(Content)) <= MaxBindings
  /\ plan.kind = "campaign" =>
       \A b \in plan.of : DOMAIN Candidate.content[b].keys = DOMAIN Content[b].keys
  /\ plan.kind = "extension" =>
       /\ plan.of = Active(Content)
       /\ \A b \in plan.of : DOMAIN Candidate.content[b].keys = plan.algorithms
RollbackPlan ==
  plan.kind = "rollback" =>
    /\ ~Candidate.native
    /\ plan.source < current /\ plan.source \in DOMAIN roots
    /\ \E b \in Bindings :
         /\ plan.of = {b}
         /\ CanRollBack(Content, roots[plan.source].content, b)
         /\ Candidate.content = Rebase(Content, roots[plan.source].content, b)

\* A root staged above no current is a creation; any other is what its plan
\* says it is.
CandidateInv ==
  Pending => /\ plan.kind # "none"
             /\ current = 0 => plan.kind = "create"
             /\ current > 0 =>
                  CreatePlan /\ ActivatePlan /\ RekeyPlan /\ RollbackPlan

SuccessorsInv == TypeOK /\ HistoryInv /\ PlacesUnique /\ CandidateInv
=============================================================================
