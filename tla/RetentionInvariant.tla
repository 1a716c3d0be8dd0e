------------------------ MODULE RetentionInvariant ------------------------
(***************************************************************************)
(* The inductive invariant of Retention: what purges, campaigns and dead   *)
(* runs leave of the dataset, and why a purge plan, however old, still     *)
(* names a generation that may go.                                         *)
(***************************************************************************)
EXTENDS Retention

-----------------------------------------------------------------------------
(* The dataset.                                                            *)

CurrentWhole == state[current] = "committed" /\ remaining[current] = Entries

\* Above current there is at most a whole v3 candidate.
AboveCurrent ==
  \A g \in Generations : g > current =>
    /\ schema[g] = "v3" /\ remaining[g] \in {{}, Entries}
    /\ state[g] # "absent" => g = current + 1

\* Below it everything is committed, legacy roots are kept, and v3 roots
\* carry the activation marker.
BelowCurrent ==
  \A g \in Generations :
    /\ g <= current => state[g] # "staging"
    /\ schema[g] = "v2" => state[g] # "absent"
    /\ g < current /\ schema[g] = "v3" /\ state[g] # "absent" => wasActive[g]

SchemaOrder ==
  \A g, k \in Generations : g < k /\ schema[g] = "v3" => schema[k] = "v3"

\* What purges leave of the v3 roots is a suffix up to current.
SuffixLeft ==
  \A g, k \in Generations :
    g < k /\ k <= current /\ schema[g] = "v3" /\ state[g] # "absent"
    => state[k] # "absent"

DatasetInv == /\ RootOutlivesRecords /\ CurrentWhole /\ AboveCurrent
              /\ BelowCurrent /\ SchemaOrder /\ SuffixLeft

-----------------------------------------------------------------------------
(* Plans and hosts.                                                        *)

\* A plan was made below the reserve of a pointer that has since only moved
\* up; as long as its target exists it is still the oldest v3 generation, so
\* nobody else has brought the index down to the limit.
PlanInv(p) ==
  /\ p.generation + MinRollbackGenerations < p.current /\ p.current <= current
  /\ schema[p.generation] = "v3"
  /\ state[p.generation] # "absent" =>
       /\ \A g \in Generations :
            g < p.generation /\ schema[g] = "v3" => state[g] = "absent"
       /\ Cardinality(Present) > MaxGenerations

Deleting == {"deleteBegin", "snapshot", "checkPointer", "delete",
             "finalPointer", "removeJournal"}
AtWork == {"openJournal", "writeJournal"} \cup Deleting

Target(h) == plan[h].generation

\* A run works on a sound plan; before its first delete the plan is in its
\* journal; its snapshot covers what is left; it forgets the journal last.
HostInv(h) ==
  /\ pc[h] \in AtWork => PlanInv(plan[h]) /\ (resumed[h] \/ deleted[h] < MaxDeleteBatch)
  /\ journal[h].kind = "plan" => PlanInv(journal[h].plan)
  /\ pc[h] = "writeJournal" => journal[h] = EmptyFile
  /\ pc[h] \in Deleting => journal[h] = PlanFile(plan[h])
  /\ pc[h] \in {"checkPointer", "delete"} => remaining[Target(h)] \subseteq todo[h]
  /\ pc[h] \in {"finalPointer", "removeJournal"} => remaining[Target(h)] = {}

\* Whatever the hosts have done to each other, every plan in memory or in a
\* journal is still safe to carry out and the dataset is still acceptable.
RetentionInv == /\ TypeOK /\ DatasetInv /\ PartialIsJournalled
                /\ \A h \in Hosts : HostInv(h)
=============================================================================
