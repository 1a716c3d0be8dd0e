------------------------- MODULE CampaignInvariant -------------------------
(***************************************************************************)
(* The inductive invariant of CampaignActivation: what the directory looks *)
(* like between any two writes, and what each host may rely on at each     *)
(* point of its program although other hosts have moved since its reads.   *)
(***************************************************************************)
EXTENDS CampaignActivation

-----------------------------------------------------------------------------
(* The directory.                                                          *)

AbsentIsEmpty ==
  \A g \in Generations : state[g] = "absent" =>
    /\ schema[g] = "none" /\ owner[g] = NoOp
    /\ content[g] = {} /\ ~wasActive[g]

PresentIsOwned ==
  /\ state[1] = "committed" /\ schema[1] = "v2" /\ owner[1] = Genesis
  /\ \A g \in Generations : g > 1 /\ state[g] # "absent" =>
       schema[g] = "v3" /\ owner[g] \in usedOps

PointerOrder ==
  \A g \in Generations :
    /\ g <= current.generation => state[g] = "committed"
    /\ g > current.generation + 1 => state[g] = "absent"

CommittedComplete ==
  \A g \in Generations : state[g] = "committed" => Complete(g)

OwnersDistinct ==
  \A g, k \in Generations :
    owner[g] = owner[k] /\ owner[g] \in Ops => g = k

DirectoryInv ==
  /\ AbsentIsEmpty /\ PresentIsOwned /\ PointerOrder /\ CommittedComplete
  /\ OwnersDistinct
  /\ current = PointerTo(current.generation)
  /\ NoMixedGeneration
  /\ \A o \in published : \E g \in Generations : owner[g] = o
  /\ ActivatedKeysPublished /\ ActivationEvidence

-----------------------------------------------------------------------------
(* One host.                                                               *)

Loading(h, goals) == /\ pc[h] \in {"pendingHistory", "pendingRead"}
                     /\ goal[h] \in goals

\* The candidate has a number, and a planner's source is not ahead of current.
SourceInv(h) ==
  /\ pc[h] \notin {"idle", "loadCurrent"} =>
       source[h] \in Generations
  /\ pc[h] \notin {"idle", "loadCurrent", "loadHistory"} =>
       Candidate(h) \in Generations
  /\ pc[h] \in {"loadHistory"} \cup Staging => source[h] <= current.generation

\* A host without a candidate holds nothing of an earlier one.
EmptyInv(h) == pc[h] \in {"idle", "loadCurrent", "loadHistory"} =>
                 op[h] = NoOp /\ goal[h] = "resume"

\* An identity is drawn by one planner and matches its command.
OpInv(h) ==
  /\ op[h] # NoOp => op[h] \in usedOps
  /\ command[h] = "auto" => op[h] \in RotateOps \cup {NoOp}
  /\ command[h] = "admin" => op[h] \in AdminOps \cup {NoOp}
  /\ pc[h] \in Staging => op[h] \in Ops
  /\ Loading(h, {"resume"}) => op[h] = NoOp
  /\ command[h] = "resume"
       /\ (pc[h] \in Committing
           \/ Loading(h, {"refresh", "commit", "sealed", "final"}))
       => op[h] \in CreateOps

\* Until its root is added the identity is its planner's alone.
FreshInv(h) ==
  pc[h] \in {"stageCurrent", "stageHistory", "addRoot"} =>
    /\ \A g \in Generations : owner[g] # op[h]
    /\ \A k \in Hosts \ {h} : op[k] # op[h]

\* The host that added a root is the only one adding below it, in order.
WriterInv(h) ==
  pc[h] = "addEntry" =>
    /\ state[Candidate(h)] = "staging" /\ owner[Candidate(h)] = op[h]
    /\ content[Candidate(h)] = (1..(entry[h] - 1)) \X {op[h]}
    /\ \A k \in Hosts \ {h} : pc[k] = "addEntry" => source[k] # source[h]

\* What a root index showed is still there; a committed root stays committed.
SeenInv(h) ==
  pc[h] \in Committing \/ pc[h] = "pendingRead" =>
    /\ seen[h] \in RootStates /\ state[Candidate(h)] # "absent"
    /\ seen[h] = "committed" => state[Candidate(h)] = "committed"

\* Where the stored candidate is known to be the one the host holds.
Prepared(h) == \/ pc[h] \in {"resumeStored", "resumeActivated", "publish",
                            "prove", "finalProof"} \cup Committing
               \/ Loading(h, {"staged", "refresh", "commit", "sealed", "final"})

PreparedInv(h) ==
  Prepared(h) => /\ op[h] \in Ops /\ owner[Candidate(h)] = op[h]
                 /\ Complete(Candidate(h))

\* Only --auto publishes and proves.
ProofInv(h) == pc[h] \in {"publish", "prove", "finalProof"} => command[h] = "auto"

\* Behind the DNS proof.
ProvenInv(h) ==
  /\ \/ pc[h] = "finalProof" \/ pc[h] \in Committing
     \/ Loading(h, {"refresh", "commit", "sealed", "final"})
  /\ op[h] \in RotateOps
  => op[h] \in published

\* The asserted pointer value was current once, and its root is marked.
FenceInv(h) ==
  /\ pc[h] \in {"mark", "seal", "switch"} \/ Loading(h, {"sealed"}) =>
       source[h] <= current.generation /\ fence[h] = PointerTo(source[h])
  /\ pc[h] = "mark" => fence[h].schema = "v3"
  /\ (pc[h] \in {"seal", "switch"} \/ Loading(h, {"sealed"}))
       /\ fence[h].schema = "v3" => wasActive[source[h]]
  /\ pc[h] = "switch" \/ Loading(h, {"sealed"}) =>
       state[Candidate(h)] = "committed"

HostInv(h) ==
  /\ SourceInv(h) /\ EmptyInv(h) /\ OpInv(h) /\ FreshInv(h) /\ WriterInv(h)
  /\ SeenInv(h) /\ PreparedInv(h) /\ ProofInv(h) /\ ProvenInv(h) /\ FenceInv(h)

\* Whatever the interleaving, the directory is consistent between any two
\* writes, and every host's stale knowledge is still good enough for the
\* step it takes next.
CampaignInv == TypeOK /\ DirectoryInv /\ \A h \in Hosts : HostInv(h)
=============================================================================
