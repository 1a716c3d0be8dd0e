-------------------------- MODULE Retention_proofs --------------------------
(***************************************************************************)
(* Proofs about Retention for any number of hosts, entries and faults and  *)
(* any limits: a plan stays sound however old it is, and so purging only   *)
(* ever removes what the policy allows.                                    *)
(***************************************************************************)
EXTENDS RetentionInvariant, FiniteSetTheorems, TLAPS

-----------------------------------------------------------------------------
(* Steps in two halves: what they do to the dataset and to the runs.       *)

DatasetTypes ==
  /\ current \in Generations
  /\ schema \in [Generations -> {"v2", "v3"}]
  /\ state \in [Generations -> RootStates \cup {"absent"}]
  /\ wasActive \in [Generations -> BOOLEAN]
  /\ remaining \in [Generations -> SUBSET Entries]

RunTypes ==
  /\ journal \in [Hosts -> Files] /\ pc \in [Hosts -> Controls]
  /\ plan \in [Hosts -> Plans] /\ fence \in [Hosts -> Generations]
  /\ todo \in [Hosts -> SUBSET Entries]
  /\ deleted \in [Hosts -> 0..MaxDeleteBatch]
  /\ resumed \in [Hosts -> BOOLEAN]
  /\ faults \in 0..MaxFaults

OthersUntouched(h) ==
  \A k \in Hosts \ {h} :
    /\ pc'[k] = pc[k] /\ plan'[k] = plan[k] /\ todo'[k] = todo[k]
    /\ deleted'[k] = deleted[k] /\ resumed'[k] = resumed[k]
    /\ journal'[k] = journal[k]

\* What every step does to the dataset, as plans and snapshots see it.
DatasetMoves ==
  /\ current <= current' /\ schema' = schema
  /\ \A g \in Generations :
       g < current => /\ state[g] = "absent" => state'[g] = "absent"
                      /\ remaining'[g] \subseteq remaining[g]
  /\ \A p \in Plans : PlanInv(p) => PlanInv(p)'

-----------------------------------------------------------------------------
(* Arithmetic and data.                                                    *)

\* Generation numbers are naturals from 1 on.
LEMMA GenerationsAreNumbers ==
  /\ Generations \subseteq Nat
  /\ \A g \in Generations : g >= 1 /\ g <= LastGeneration
  /\ LastGeneration \in Nat /\ MinRollbackGenerations \in Nat
  /\ MaxGenerations \in Nat /\ MaxDeleteBatch \in Nat /\ MaxFaults \in Nat
BY RetentionAssumption DEF Generations

\* A sound plan names a generation below current.
LEMMA PlanBelowCurrent ==
  ASSUME DatasetTypes, NEW p \in Plans, PlanInv(p)
  PROVE  p.generation \in Generations /\ p.generation < current
<1>1. /\ p.generation \in Generations /\ p.current \in Generations
      /\ current \in Generations
  BY DEF Plans, DatasetTypes
<1>2. /\ p.generation \in Nat /\ p.current \in Nat /\ current \in Nat
      /\ MinRollbackGenerations \in Nat
  BY <1>1, GenerationsAreNumbers
<1>3. p.generation + MinRollbackGenerations < p.current /\ p.current <= current
  BY DEF PlanInv
<1> QED BY <1>1, <1>2, <1>3

\* The three forms of a journal file.
LEMMA JournalForms ==
  ASSUME RunTypes, NEW h \in Hosts
  PROVE  \/ journal[h] = NoFile \/ journal[h] = EmptyFile
         \/ \E p \in Plans : journal[h] = PlanFile(p)
BY DEF RunTypes, Files

\* A plan file can be told from the others, and holds its plan.
LEMMA PlanFileHolds ==
  /\ \A p \in Plans : PlanFile(p).kind = "plan" /\ PlanFile(p).plan = p
  /\ NoFile.kind # "plan" /\ EmptyFile.kind # "plan"
  /\ NoFile \in Files /\ EmptyFile \in Files
  /\ \A p \in Plans : PlanFile(p) \in Files
BY DEF PlanFile, NoFile, EmptyFile, Files

\* The root index is finite.
LEMMA PresentFinite ==
  IsFiniteSet(Present) /\ Cardinality(Present) \in Nat
<1>1. IsFiniteSet(Generations)
  BY RetentionAssumption, FS_Interval DEF Generations
<1>2. Present \in SUBSET Generations
  BY DEF Present
<1> QED BY <1>1, <1>2, FS_Subset, FS_CardinalityType

\* More roots, more to count.
LEMMA PresentGrows ==
  ASSUME Present \subseteq Present'
  PROVE  Cardinality(Present) <= Cardinality(Present')
<1>1. IsFiniteSet(Generations)
  BY RetentionAssumption, FS_Interval DEF Generations
<1>2. Present' \in SUBSET Generations
  BY DEF Present, Generations
<1>3. IsFiniteSet(Present')
  BY <1>1, <1>2, FS_Subset
<1>4. Present \in SUBSET Present'
  OBVIOUS
<1> QED BY <1>3, <1>4, FS_Subset

-----------------------------------------------------------------------------
(* The invariant survives a step, half by half.                            *)

\* The part of the other hosts survives every move of the dataset.
LEMMA OthersKept ==
  ASSUME RetentionInv, NEW h \in Hosts, DatasetMoves, OthersUntouched(h),
         NEW k \in Hosts \ {h}
  PROVE  HostInv(k)'
<1>1. HostInv(k) /\ RunTypes
  BY DEF RetentionInv, TypeOK, RunTypes
<1>2. plan[k] \in Plans /\ (journal[k].kind = "plan" => journal[k].plan \in Plans)
  BY <1>1, JournalForms, PlanFileHolds DEF RunTypes
<1>3. pc[k] \in AtWork => PlanInv(plan[k]) /\ PlanInv(plan[k])'
  <2>1. PICK p \in Plans : p = plan[k]
    BY <1>2
  <2>2. PlanInv(p) => PlanInv(p)'
    BY DEF DatasetMoves
  <2>3. plan'[k] = p
    BY <2>1 DEF OthersUntouched
  <2>4. pc[k] \in AtWork => PlanInv(p)
    BY <1>1, <2>1 DEF HostInv
  <2>5. PlanInv(p)' => PlanInv(plan[k])'
    BY <2>3 DEF PlanInv
  <2> QED BY <2>1, <2>2, <2>4, <2>5
<1>4. journal[k].kind = "plan" => PlanInv(journal[k].plan)'
  <2>1. SUFFICES ASSUME journal[k].kind = "plan" PROVE PlanInv(journal[k].plan)'
    OBVIOUS
  <2>2. PICK p \in Plans : p = journal[k].plan
    BY <1>2, <2>1
  <2>3. PlanInv(p)'
    BY <1>1, <2>1, <2>2 DEF DatasetMoves, HostInv
  <2>4. journal'[k].plan = p
    BY <2>2 DEF OthersUntouched
  <2> QED BY <2>3, <2>4 DEF PlanInv
<1>5. PlanInv(plan[k]) => remaining'[Target(k)] \subseteq remaining[Target(k)]
  <2>1. PICK p \in Plans : p = plan[k]
    BY <1>2
  <2>2. PlanInv(p) => p.generation \in Generations /\ p.generation < current
    BY PlanBelowCurrent DEF RetentionInv, TypeOK, DatasetTypes
  <2> QED BY <2>1, <2>2 DEF DatasetMoves, Target
<1>6. plan'[k] = plan[k] /\ journal'[k] = journal[k] /\ pc'[k] = pc[k]
      /\ todo'[k] = todo[k] /\ resumed'[k] = resumed[k] /\ deleted'[k] = deleted[k]
  BY DEF OthersUntouched
<1>7. /\ pc'[k] \in {"checkPointer", "delete"} => remaining'[Target(k)] \subseteq todo'[k]
      /\ pc'[k] \in {"finalPointer", "removeJournal"} => remaining'[Target(k)] = {}
  BY <1>1, <1>3, <1>5, <1>6 DEF HostInv, AtWork, Deleting
<1>8. Target(k)' = Target(k)
  BY <1>6 DEF Target
<1> QED BY <1>1, <1>3, <1>4, <1>6, <1>7, <1>8 DEF HostInv

\* A step that leaves the dataset alone is a harmless move of it.
LEMMA StillMoves ==
  ASSUME DatasetTypes, UNCHANGED datasetVars PROVE DatasetMoves
<1>1. current <= current' /\ schema' = schema
  BY GenerationsAreNumbers DEF DatasetTypes, datasetVars
<1>2. \A p : PlanInv(p) => PlanInv(p)'
  BY DEF PlanInv, Present, datasetVars
<1> QED BY <1>1, <1>2 DEF DatasetMoves, datasetVars

\* A step of one run that changes no LDAP data keeps the invariant if it keeps
\* the run's own part and drops no journal of a half-deleted generation.
LEMMA RunStepKeeps ==
  ASSUME RetentionInv, NEW h \in Hosts, UNCHANGED datasetVars,
         OthersUntouched(h), RunTypes', HostInv(h)',
         \/ journal'[h] = journal[h]
         \/ journal[h].kind # "plan"
         \/ remaining[journal[h].plan.generation] = {}
  PROVE  RetentionInv'
<1>1. DatasetTypes /\ RunTypes /\ DatasetInv /\ PartialIsJournalled
  BY DEF RetentionInv, TypeOK, DatasetTypes, RunTypes
<1>2. TypeOK'
  BY <1>1 DEF TypeOK, DatasetTypes, RunTypes, datasetVars
<1>3. DatasetInv'
  BY <1>1 DEF DatasetInv, RootOutlivesRecords, CurrentWhole, AboveCurrent,
     BelowCurrent, SchemaOrder, SuffixLeft, datasetVars
<1>4. PartialIsJournalled'
  BY <1>1 DEF PartialIsJournalled, Partial, OthersUntouched, datasetVars
<1>5. \A k \in Hosts : HostInv(k)'
  BY <1>1, StillMoves, OthersKept
<1> QED BY <1>2, <1>3, <1>4, <1>5 DEF RetentionInv

\* A run that is over relies on nothing.
LEMMA StopForgets ==
  ASSUME RetentionInv, NEW h \in Hosts, Stop(h), faults' \in 0..MaxFaults,
         journal' = journal \/ journal' = [journal EXCEPT ![h] = NoFile]
  PROVE  /\ OthersUntouched(h) /\ RunTypes'
         /\ pc'[h] = "idle" /\ (journal'[h] = journal[h] \/ journal'[h] = NoFile)
<1>1. RunTypes /\ DatasetTypes
  BY DEF RetentionInv, TypeOK, RunTypes, DatasetTypes
<1>2. 1 \in Generations /\ 0 \in 0..MaxDeleteBatch
  BY <1>1, GenerationsAreNumbers DEF DatasetTypes, Generations
<1>3. [current |-> 1, generation |-> 1] \in Plans
  BY <1>2 DEF Plans
<1>4. journal' \in [Hosts -> Files]
  BY <1>1, PlanFileHolds DEF RunTypes
<1> QED BY <1>1, <1>2, <1>3, <1>4 DEF Stop, Goto, OthersUntouched, RunTypes, Controls

\* Ending a run without touching LDAP keeps the invariant.
LEMMA StopKeeps ==
  ASSUME RetentionInv, NEW h \in Hosts, Stop(h), faults' \in 0..MaxFaults,
         UNCHANGED <<datasetVars, journal>>
  PROVE  RetentionInv'
<1>1. OthersUntouched(h) /\ RunTypes' /\ pc'[h] = "idle" /\ journal'[h] = journal[h]
  BY StopForgets
<1>2. /\ "idle" \notin AtWork /\ "idle" \notin Deleting
  BY DEF AtWork, Deleting
<1>3. journal'[h].kind = "plan" => PlanInv(journal[h].plan)'
  BY <1>1 DEF RetentionInv, HostInv, PlanInv, Present, datasetVars
<1>4. HostInv(h)'
  BY <1>1, <1>2, <1>3 DEF HostInv
<1> QED BY <1>1, <1>4, RunStepKeeps

\* What a run does to its own variables, its own part of the invariant once
\* its plan is known to be sound.
LEMMA PlanUnmoved ==
  ASSUME UNCHANGED datasetVars, NEW h \in Hosts
  PROVE  /\ PlanInv(plan[h]) /\ plan'[h] = plan[h] => PlanInv(plan[h])'
         /\ PlanInv(journal[h].plan) /\ journal'[h] = journal[h]
            => PlanInv(journal[h].plan)'
BY DEF PlanInv, Present, datasetVars

-----------------------------------------------------------------------------
(* The steps that change no LDAP data.                                     *)

\* Starting a run and reading the history.
LEMMA StartKeeps ==
  ASSUME RetentionInv, NEW h \in Hosts, UNCHANGED faults,
         StartRun(h) \/ LoadHistory(h) \/ IdleRun(h)
  PROVE  RetentionInv'
<1>0. TypeOK /\ faults' \in 0..MaxFaults BY DEF RetentionInv, TypeOK
<1>1. CASE Stop(h) /\ UNCHANGED <<datasetVars, journal>>
  BY <1>0, <1>1, StopKeeps
<1>2. CASE /\ \E label \in {"loadHistory", "campaign", "loadJournal"} : Goto(h, label)
           /\ UNCHANGED <<datasetVars, journal, runVars>>
  <2>1. OthersUntouched(h) /\ RunTypes'
    BY <1>0, <1>2 DEF OthersUntouched, Goto, runVars, RunTypes, TypeOK, Controls
  <2>2. pc'[h] \in {"loadHistory", "campaign", "loadJournal"} /\ journal' = journal
    BY <1>0, <1>2 DEF Goto, TypeOK
  <2>3. journal'[h].kind = "plan" => PlanInv(journal[h].plan)'
    BY <1>2, <2>2, PlanUnmoved DEF RetentionInv, HostInv
  <2>4. HostInv(h)'
    BY <2>2, <2>3 DEF HostInv, AtWork, Deleting
  <2> QED BY <1>2, <2>1, <2>2, <2>4, RunStepKeeps
<1> QED BY <1>1, <1>2 DEF StartRun, LoadHistory, IdleRun

\* Reading the journal: a plan found there is as sound as when it was made.
LEMMA LoadJournalKeeps ==
  ASSUME RetentionInv, NEW h \in Hosts, UNCHANGED faults, LoadJournal(h)
  PROVE  RetentionInv'
<1>0. /\ TypeOK /\ RunTypes /\ faults' \in 0..MaxFaults /\ HostInv(h)
      /\ UNCHANGED <<datasetVars, journal>>
  BY DEF RetentionInv, TypeOK, RunTypes, LoadJournal
<1>1. CASE Stop(h)
  BY <1>0, <1>1, StopKeeps
<1>2. CASE Goto(h, "inventory") /\ UNCHANGED runVars
  <2>1. OthersUntouched(h) /\ RunTypes'
    BY <1>0, <1>2 DEF OthersUntouched, Goto, runVars, RunTypes, Controls
  <2>2. pc'[h] = "inventory"
    BY <1>0, <1>2 DEF Goto, TypeOK
  <2>3. journal'[h].kind = "plan" => PlanInv(journal[h].plan)'
    BY <1>0, PlanUnmoved DEF HostInv
  <2>4. HostInv(h)'
    BY <2>2, <2>3 DEF HostInv, AtWork, Deleting
  <2> QED BY <1>0, <2>1, <2>4, RunStepKeeps
<1>3. CASE /\ journal[h].kind = "plan"
           /\ plan' = [plan EXCEPT ![h] = journal[h].plan]
           /\ resumed' = [resumed EXCEPT ![h] = TRUE]
           /\ Goto(h, "deleteBegin")
           /\ UNCHANGED <<fence, todo, deleted>>
  <2>1. PICK p \in Plans : journal[h] = PlanFile(p)
    BY <1>0, <1>3, JournalForms, PlanFileHolds
  <2>2. journal[h].plan = p /\ PlanInv(p)
    <3>1. journal[h].plan = p
      BY <2>1, PlanFileHolds
    <3> QED BY <1>0, <1>3, <3>1 DEF HostInv
  <2>3. OthersUntouched(h) /\ RunTypes'
    BY <1>0, <1>3, <2>2 DEF OthersUntouched, Goto, RunTypes, Controls
  <2>4. pc'[h] = "deleteBegin" /\ plan'[h] = p /\ resumed'[h] /\ journal'[h] = PlanFile(p)
    BY <1>0, <1>3, <2>1, <2>2 DEF Goto, TypeOK
  <2>5. PlanInv(plan[h])' /\ PlanInv(journal[h].plan)'
    <3>1. PlanInv(p)'
      BY <1>0, <2>2 DEF PlanInv, Present, datasetVars
    <3>2. journal'[h].plan = p
      BY <1>0, <2>2
    <3> QED BY <2>4, <3>1, <3>2 DEF PlanInv
  <2>6. HostInv(h)'
    BY <2>4, <2>5 DEF HostInv
  <2> QED BY <1>0, <2>3, <2>6, RunStepKeeps
<1>4. journal[h].kind \in {"plan", "empty", "none"}
  BY <1>0, JournalForms, PlanFileHolds DEF NoFile, EmptyFile
<1>5. CASE journal[h].kind = "plan"
  BY <1>3, <1>5 DEF LoadJournal
<1>6. CASE journal[h].kind = "empty"
  BY <1>1, <1>6 DEF LoadJournal
<1>7. CASE journal[h].kind = "none"
  BY <1>2, <1>7 DEF LoadJournal
<1> QED BY <1>4, <1>5, <1>6, <1>7

\* A plan made from a valid inventory is sound.
LEMMA PlanSound ==
  ASSUME RetentionInv, NEW g \in Eligible, Oldest(g, Eligible),
         Cardinality(Present) > MaxGenerations,
         NEW p \in Plans, p = [current |-> current, generation |-> g]
  PROVE  PlanInv(p)
<1>1. p.current = current /\ p.generation = g /\ g \in Generations
  BY DEF Eligible, Present
<1>2. current \in Generations
  BY DEF RetentionInv, TypeOK
<1>3. /\ g \in Nat /\ current \in Nat /\ MinRollbackGenerations \in Nat
      /\ Generations \subseteq Nat
  BY <1>1, <1>2, GenerationsAreNumbers
<1>4. g + MinRollbackGenerations < current /\ schema[g] = "v3"
  BY DEF Eligible
<1>5. ASSUME NEW k \in Generations, k < g, schema[k] = "v3", state[k] # "absent"
      PROVE  FALSE
  <2>1. k \in Nat
    BY <1>3
  <2>2. k < current /\ k + MinRollbackGenerations < current
    BY <1>3, <1>4, <1>5, <2>1
  <2>3. state[k] # "staging" /\ wasActive[k]
    BY <1>5, <2>1, <2>2, <1>3 DEF RetentionInv, DatasetInv, BelowCurrent
  <2>4. state[k] = "committed" /\ k \in Present
    BY <1>5, <2>3 DEF Present, RetentionInv, TypeOK, RootStates
  <2>5. k \in Eligible
    BY <1>5, <2>2, <2>3, <2>4 DEF Eligible
  <2> QED BY <1>3, <1>5, <2>1, <2>5 DEF Oldest
<1>6. p.current <= current
  BY <1>1, <1>3
<1> QED BY <1>1, <1>4, <1>5, <1>6 DEF PlanInv

\* Taking the inventory: the run ends, or plans to purge the oldest.
LEMMA InventoryKeeps ==
  ASSUME RetentionInv, NEW h \in Hosts, UNCHANGED faults,
         RetentionEnds(h) \/ PlanPurge(h)
  PROVE  RetentionInv'
<1>0. /\ TypeOK /\ RunTypes /\ faults' \in 0..MaxFaults /\ HostInv(h)
      /\ UNCHANGED <<datasetVars, journal>>
  BY DEF RetentionInv, TypeOK, RunTypes, RetentionEnds, PlanPurge
<1>1. CASE RetentionEnds(h)
  BY <1>0, <1>1, StopKeeps DEF RetentionEnds
<1>2. CASE PlanPurge(h)
  <2>1. PICK g \in Eligible :
          /\ Oldest(g, Eligible)
          /\ plan' = [plan EXCEPT ![h] = [current |-> current, generation |-> g]]
    BY <1>2 DEF PlanPurge
  <2>2. PICK p \in Plans : p = [current |-> current, generation |-> g]
    BY <1>0 DEF Plans, Eligible, Present, TypeOK
  <2>3. PlanInv(p)
    BY <1>2, <2>1, <2>2, PlanSound DEF PlanPurge
  <2>4. OthersUntouched(h) /\ RunTypes'
    BY <1>0, <1>2, <2>1, <2>2 DEF PlanPurge, OthersUntouched, Goto, RunTypes, Controls
  <2>5. /\ pc'[h] = "openJournal" /\ plan'[h] = p
        /\ deleted'[h] < MaxDeleteBatch
    BY <1>0, <1>2, <2>1, <2>2 DEF PlanPurge, Goto, TypeOK
  <2>6. PlanInv(plan[h])'
    <3>1. PlanInv(p)'
      BY <1>0, <2>3 DEF PlanInv, Present, datasetVars
    <3> QED BY <2>5, <3>1 DEF PlanInv
  <2>7. journal'[h].kind = "plan" => PlanInv(journal[h].plan)'
    BY <1>0, PlanUnmoved DEF HostInv
  <2>8. HostInv(h)'
    BY <2>5, <2>6, <2>7 DEF HostInv, Deleting
  <2> QED BY <1>0, <2>4, <2>8, RunStepKeeps
<1> QED BY <1>1, <1>2

\* Creating the journal file, and writing the plan into it.
LEMMA JournalKeeps ==
  ASSUME RetentionInv, NEW h \in Hosts, UNCHANGED faults,
         OpenJournal(h) \/ WriteJournal(h)
  PROVE  RetentionInv'
<1>0. /\ TypeOK /\ RunTypes /\ faults' \in 0..MaxFaults /\ HostInv(h)
      /\ UNCHANGED <<datasetVars, runVars>>
  BY DEF RetentionInv, TypeOK, RunTypes, OpenJournal, WriteJournal
<1>1. pc[h] \in AtWork /\ journal[h].kind # "plan"
  BY <1>0, PlanFileHolds DEF OpenJournal, WriteJournal, AtWork, HostInv
<1>2. PICK p \in Plans : p = plan[h]
  BY <1>0 DEF TypeOK
<1>3. PlanInv(p)'
  BY <1>0, <1>1, <1>2 DEF HostInv, PlanInv, Present, datasetVars
<1>4. plan'[h] = p /\ resumed' = resumed /\ deleted' = deleted
  BY <1>0, <1>2 DEF runVars
<1>5. PlanInv(plan[h])'
  BY <1>3, <1>4 DEF PlanInv
<1>6. OthersUntouched(h) /\ RunTypes'
  BY <1>0, <1>2, PlanFileHolds
  DEF OpenJournal, WriteJournal, OthersUntouched, Goto, RunTypes, Controls, runVars
<1>7. HostInv(h)'
  <2>1. CASE OpenJournal(h)
    <3>1. pc'[h] = "writeJournal" /\ journal'[h] = EmptyFile
      BY <1>0, <2>1 DEF OpenJournal, Goto, TypeOK
    <3> QED BY <1>0, <1>1, <1>4, <1>5, <3>1, PlanFileHolds DEF HostInv, Deleting
  <2>2. CASE WriteJournal(h)
    <3>1. pc'[h] = "deleteBegin" /\ journal'[h] = PlanFile(p)
      BY <1>0, <1>2, <2>2 DEF WriteJournal, Goto, TypeOK
    <3>2. PlanInv(journal[h].plan)'
      <4>1. journal'[h].plan = p
        BY <3>1, PlanFileHolds
      <4> QED BY <1>3, <4>1 DEF PlanInv
    <3> QED BY <1>0, <1>1, <1>4, <1>5, <3>1, <3>2 DEF HostInv
  <2> QED BY <2>1, <2>2
<1> QED BY <1>0, <1>1, <1>6, <1>7, RunStepKeeps

\* A failed write removes the file again.
LEMMA WriteFailsKeeps ==
  ASSUME RetentionInv, NEW h \in Hosts, faults' \in 0..MaxFaults, WriteFails(h)
  PROVE  RetentionInv'
<1>1. /\ OthersUntouched(h) /\ RunTypes' /\ pc'[h] = "idle"
      /\ UNCHANGED datasetVars
  BY StopForgets DEF WriteFails
<1>2. journal'[h] = NoFile /\ journal[h].kind # "plan"
  BY PlanFileHolds DEF WriteFails, RetentionInv, TypeOK, HostInv
<1>3. HostInv(h)'
  BY <1>1, <1>2, PlanFileHolds DEF HostInv, AtWork, Deleting
<1> QED BY <1>1, <1>2, <1>3, RunStepKeeps

\* The reads of deleteGenerationFromPlan: each goes on, or ends the run.
LEMMA DeleteReadsKeep ==
  ASSUME RetentionInv, NEW h \in Hosts, UNCHANGED faults,
         DeleteBegin(h) \/ Snapshot(h) \/ CheckPointer(h) \/ FinalPointer(h)
  PROVE  RetentionInv'
<1>0. /\ TypeOK /\ RunTypes /\ faults' \in 0..MaxFaults /\ HostInv(h)
      /\ UNCHANGED <<datasetVars, journal>> /\ pc[h] \in Deleting
  BY DEF RetentionInv, TypeOK, RunTypes, DeleteBegin, Snapshot, CheckPointer,
     FinalPointer, Deleting
<1>1. CASE Stop(h)
  BY <1>0, <1>1, StopKeeps
<1>2. CASE ~Stop(h)
  <2>1. /\ plan' = plan /\ resumed' = resumed /\ deleted' = deleted
        /\ OthersUntouched(h) /\ RunTypes'
    <3>1. CASE DeleteBegin(h)
      <4>1. /\ fence' = [fence EXCEPT ![h] = current]
            /\ Goto(h, "snapshot")
            /\ UNCHANGED <<journal, plan, todo, deleted, resumed, faults>>
        BY <1>0, <1>2, <3>1 DEF DeleteBegin
      <4> QED BY <1>0, <4>1 DEF Goto, OthersUntouched, RunTypes, TypeOK, Controls
    <3>2. CASE Snapshot(h)
      <4>1. \/ Goto(h, "removeJournal") /\ UNCHANGED runVars
            \/ /\ todo' = [todo EXCEPT ![h] = remaining[Target(h)]]
               /\ Goto(h, "checkPointer")
               /\ UNCHANGED <<plan, fence, deleted, resumed>>
        BY <1>2, <3>2 DEF Snapshot, Target
      <4>2. remaining[Target(h)] \in SUBSET Entries
        BY <1>0 DEF TypeOK, Target, Plans
      <4> QED BY <1>0, <4>1, <4>2 DEF Goto, OthersUntouched, RunTypes, runVars, Controls
    <3>3. CASE CheckPointer(h)
      BY <1>0, <1>2, <3>3
      DEF CheckPointer, Goto, OthersUntouched, RunTypes, TypeOK, runVars, Controls
    <3>4. CASE FinalPointer(h)
      BY <1>0, <1>2, <3>4
      DEF FinalPointer, Goto, OthersUntouched, RunTypes, TypeOK, runVars, Controls
    <3> QED BY <3>1, <3>2, <3>3, <3>4
  <2>2. /\ pc'[h] \in Deleting
        /\ pc'[h] \in {"checkPointer", "delete"} => remaining[Target(h)] \subseteq todo'[h]
        /\ pc'[h] \in {"finalPointer", "removeJournal"} => remaining[Target(h)] = {}
    <3>1. CASE DeleteBegin(h)
      BY <1>0, <1>2, <3>1 DEF DeleteBegin, Goto, TypeOK, Deleting
    <3>2. CASE Snapshot(h)
      BY <1>0, <1>2, <3>2 DEF Snapshot, Goto, TypeOK, Target, Deleting
    <3>3. CASE CheckPointer(h)
      BY <1>0, <1>2, <3>3 DEF CheckPointer, Goto, TypeOK, HostInv, Target, runVars, Deleting
    <3>4. CASE FinalPointer(h)
      BY <1>0, <1>2, <3>4 DEF FinalPointer, Goto, TypeOK, HostInv, Target, Deleting
    <3> QED BY <3>1, <3>2, <3>3, <3>4
  <2>3. PlanInv(plan[h])' /\ (journal'[h].kind = "plan" => PlanInv(journal[h].plan)')
    BY <1>0, <2>1, PlanUnmoved DEF HostInv, AtWork
  <2>4. Target(h)' = Target(h) /\ remaining' = remaining
    BY <1>0, <2>1 DEF Target, datasetVars
  <2>5. HostInv(h)'
    BY <1>0, <2>1, <2>2, <2>3, <2>4 DEF HostInv, AtWork, Deleting
  <2> QED BY <1>0, <2>1, <2>5, RunStepKeeps
<1> QED BY <1>1, <1>2

\* The journal goes only when its generation is gone.
LEMMA RemoveJournalKeeps ==
  ASSUME RetentionInv, NEW h \in Hosts, UNCHANGED faults, RemoveJournal(h)
  PROVE  RetentionInv'
<1>0. /\ TypeOK /\ RunTypes /\ faults' \in 0..MaxFaults /\ HostInv(h)
      /\ UNCHANGED datasetVars
  BY DEF RetentionInv, TypeOK, RunTypes, RemoveJournal
<1>1. journal[h] = PlanFile(plan[h]) /\ remaining[Target(h)] = {}
      /\ (resumed[h] \/ deleted[h] < MaxDeleteBatch)
  BY <1>0 DEF RemoveJournal, HostInv, Deleting, AtWork
<1>2. remaining[journal[h].plan.generation] = {}
  BY <1>0, <1>1, PlanFileHolds DEF Target, TypeOK
<1>3. pc'[h] = "inventory" /\ journal'[h] = NoFile
  BY <1>0 DEF RemoveJournal, Goto, TypeOK
<1>4. deleted' \in [Hosts -> 0..MaxDeleteBatch]
  BY <1>0, <1>1, GenerationsAreNumbers DEF RemoveJournal, TypeOK
<1>5. OthersUntouched(h) /\ RunTypes'
  BY <1>0, <1>4, PlanFileHolds
  DEF RemoveJournal, OthersUntouched, Goto, RunTypes, Controls
<1>6. HostInv(h)'
  BY <1>3, PlanFileHolds DEF HostInv, AtWork, Deleting
<1> QED BY <1>0, <1>2, <1>5, <1>6, RunStepKeeps

-----------------------------------------------------------------------------
(* The steps that change the dataset.                                      *)

\* No step that only adds roots, seals, or activates unsettles a plan.
LEMMA PlansKept ==
  ASSUME DatasetTypes, Present \subseteq Present', current <= current',
         schema' = schema, current' \in Generations,
         \A g \in Generations :
           g < current /\ state[g] = "absent" => state'[g] = "absent",
         NEW p \in Plans, PlanInv(p)
  PROVE  PlanInv(p)'
<1>1. /\ p.generation \in Generations /\ p.generation < current
      /\ p.current \in Generations /\ current \in Generations
  BY PlanBelowCurrent DEF Plans, DatasetTypes
<1>2. p.current <= current'
  <2>1. p.current \in Nat /\ current \in Nat /\ current' \in Nat
    BY <1>1, GenerationsAreNumbers
  <2>2. p.current <= current
    BY DEF PlanInv
  <2> QED BY <2>1, <2>2
<1>3. ASSUME state'[p.generation] # "absent"
      PROVE  /\ \A g \in Generations :
                  g < p.generation /\ schema[g] = "v3" => state'[g] = "absent"
             /\ Cardinality(Present') > MaxGenerations
  <2>1. state[p.generation] # "absent"
    BY <1>1, <1>3
  <2>2. /\ \A g \in Generations :
             g < p.generation /\ schema[g] = "v3" => state[g] = "absent"
        /\ Cardinality(Present) > MaxGenerations
    BY <2>1 DEF PlanInv
  <2>3. ASSUME NEW g \in Generations, g < p.generation PROVE g < current
    <3>1. g \in Nat /\ p.generation \in Nat /\ current \in Nat
      BY <1>1, GenerationsAreNumbers
    <3> QED BY <1>1, <2>3, <3>1
  <2>4. Cardinality(Present) <= Cardinality(Present')
    BY PresentGrows
  <2>5. Cardinality(Present) \in Nat /\ Cardinality(Present') \in Nat
    <3>1. IsFiniteSet(Generations)
      BY RetentionAssumption, FS_Interval DEF Generations
    <3>2. Present' \in SUBSET Generations
      BY DEF Present, Generations
    <3> QED BY <3>1, <3>2, PresentFinite, FS_Subset, FS_CardinalityType
  <2> QED BY <2>2, <2>3, <2>4, <2>5, GenerationsAreNumbers
<1> QED BY <1>2, <1>3 DEF PlanInv

\* A dataset step of one run keeps the invariant if the dataset part, the
\* run's own part and the journalling of partial generations are kept.
LEMMA DatasetStepKeeps ==
  ASSUME RetentionInv, NEW h \in Hosts, DatasetTypes', RunTypes', DatasetInv',
         DatasetMoves, PartialIsJournalled', OthersUntouched(h), HostInv(h)'
  PROVE  RetentionInv'
<1>1. \A k \in Hosts : HostInv(k)'
  BY OthersKept
<1>2. TypeOK'
  BY DEF TypeOK, DatasetTypes, RunTypes
<1> QED BY <1>1, <1>2 DEF RetentionInv

\* A run in its campaign part relies on nothing but its journal.
LEMMA CampaignHost ==
  ASSUME RetentionInv, NEW h \in Hosts, DatasetMoves, journal' = journal,
         pc'[h] \in {"campaign", "loadJournal", "idle"}
  PROVE  HostInv(h)'
<1>1. RunTypes /\ HostInv(h)
  BY DEF RetentionInv, TypeOK, RunTypes
<1>2. ASSUME journal'[h].kind = "plan" PROVE PlanInv(journal[h].plan)'
  <2>1. PICK p \in Plans : journal[h] = PlanFile(p)
    BY <1>1, <1>2, JournalForms, PlanFileHolds
  <2>2. journal[h].plan = p
    BY <2>1, PlanFileHolds
  <2>3. PlanInv(p)'
    BY <1>1, <1>2, <2>2 DEF HostInv, DatasetMoves
  <2>4. journal'[h].plan = p
    BY <2>2
  <2> QED BY <2>3, <2>4 DEF PlanInv
<1> QED BY <1>2 DEF HostInv, AtWork, Deleting

\* A whole candidate appears directly above current.
LEMMA StageKeeps ==
  ASSUME RetentionInv, NEW h \in Hosts, UNCHANGED faults, StageCandidate(h)
  PROVE  RetentionInv'
<1> DEFINE c == current + 1
<1>0. /\ DatasetTypes /\ RunTypes /\ DatasetInv /\ PartialIsJournalled
      /\ c \in Generations /\ current \in Generations /\ state[c] = "absent"
      /\ state' = [state EXCEPT ![c] = "staging"]
      /\ remaining' = [remaining EXCEPT ![c] = Entries]
      /\ UNCHANGED <<current, schema, wasActive, journal, pc, runVars, faults>>
  BY DEF RetentionInv, TypeOK, DatasetTypes, RunTypes, StageCandidate
<1>1. /\ Generations \subseteq Nat /\ c # current /\ c > current
  BY <1>0, GenerationsAreNumbers
<1>2. DatasetTypes' /\ RunTypes' /\ OthersUntouched(h)
  BY <1>0 DEF DatasetTypes, RunTypes, OthersUntouched, RootStates, runVars
<1>3. /\ state'[c] = "staging" /\ remaining'[c] = Entries
      /\ \A g \in Generations \ {c} : state'[g] = state[g] /\ remaining'[g] = remaining[g]
  BY <1>0 DEF DatasetTypes
<1>4. DatasetInv'
  <2>1. Root \in Entries /\ Entries # {}
    BY DEF Entries
  <2>2. RootOutlivesRecords'
    BY <1>0, <1>3, <2>1 DEF DatasetInv, RootOutlivesRecords
  <2>3. CurrentWhole'
    BY <1>0, <1>1, <1>3 DEF DatasetInv, CurrentWhole
  <2>4. AboveCurrent'
    BY <1>0, <1>1, <1>3 DEF DatasetInv, AboveCurrent
  <2>5. BelowCurrent'
    BY <1>0, <1>1, <1>3 DEF DatasetInv, BelowCurrent
  <2>6. SchemaOrder' /\ SuffixLeft'
    BY <1>0, <1>1, <1>3 DEF DatasetInv, SchemaOrder, SuffixLeft
  <2> QED BY <2>2, <2>3, <2>4, <2>5, <2>6 DEF DatasetInv
<1>5. PartialIsJournalled'
  BY <1>0, <1>3 DEF PartialIsJournalled, Partial
<1>6. DatasetMoves
  <2>1. Present \subseteq Present'
    BY <1>0, <1>3 DEF Present
  <2>2. \A g \in Generations : g < current =>
          /\ state[g] = "absent" => state'[g] = "absent"
          /\ remaining'[g] \subseteq remaining[g]
    BY <1>0, <1>1, <1>3
  <2>3. current <= current' /\ schema' = schema
    BY <1>0, <1>1
  <2> QED BY <1>0, <2>1, <2>2, <2>3, PlansKept DEF DatasetMoves
<1>7. HostInv(h)'
  BY <1>0, <1>6, CampaignHost DEF StageCandidate
<1> QED BY <1>2, <1>4, <1>5, <1>6, <1>7, DatasetStepKeeps

\* The candidate is sealed.
LEMMA SealKeeps ==
  ASSUME RetentionInv, NEW h \in Hosts, UNCHANGED faults, SealCandidate(h)
  PROVE  RetentionInv'
<1> DEFINE c == current + 1
<1>0. /\ DatasetTypes /\ RunTypes /\ DatasetInv /\ PartialIsJournalled
      /\ c \in Generations /\ current \in Generations /\ state[c] = "staging"
      /\ state' = [state EXCEPT ![c] = "committed"]
      /\ UNCHANGED <<current, schema, wasActive, remaining, journal, pc, runVars, faults>>
  BY DEF RetentionInv, TypeOK, DatasetTypes, RunTypes, SealCandidate
<1>1. /\ Generations \subseteq Nat /\ c # current /\ c > current
  BY <1>0, GenerationsAreNumbers
<1>2. DatasetTypes' /\ RunTypes' /\ OthersUntouched(h)
  BY <1>0 DEF DatasetTypes, RunTypes, OthersUntouched, RootStates, runVars
<1>3. /\ state'[c] = "committed"
      /\ \A g \in Generations \ {c} : state'[g] = state[g]
  BY <1>0 DEF DatasetTypes
<1>4. DatasetInv'
  <2>1. RootOutlivesRecords'
    BY <1>0, <1>3 DEF DatasetInv, RootOutlivesRecords
  <2>2. CurrentWhole' /\ AboveCurrent'
    BY <1>0, <1>1, <1>3 DEF DatasetInv, CurrentWhole, AboveCurrent
  <2>3. BelowCurrent'
    BY <1>0, <1>1, <1>3 DEF DatasetInv, BelowCurrent
  <2>4. SchemaOrder' /\ SuffixLeft'
    BY <1>0, <1>1, <1>3 DEF DatasetInv, SchemaOrder, SuffixLeft
  <2> QED BY <2>1, <2>2, <2>3, <2>4 DEF DatasetInv
<1>5. PartialIsJournalled'
  BY <1>0 DEF PartialIsJournalled, Partial
<1>6. DatasetMoves
  <2>1. Present \subseteq Present'
    BY <1>0, <1>3 DEF Present
  <2>2. \A g \in Generations : g < current =>
          /\ state[g] = "absent" => state'[g] = "absent"
          /\ remaining'[g] \subseteq remaining[g]
    BY <1>0, <1>1, <1>3
  <2>3. current <= current' /\ schema' = schema
    BY <1>0, <1>1
  <2> QED BY <1>0, <2>1, <2>2, <2>3, PlansKept DEF DatasetMoves
<1>7. HostInv(h)'
  BY <1>0, <1>6, CampaignHost DEF SealCandidate
<1> QED BY <1>2, <1>4, <1>5, <1>6, <1>7, DatasetStepKeeps

\* The pointer moves to the sealed candidate and its source is marked.
LEMMA ActivateKeeps ==
  ASSUME RetentionInv, NEW h \in Hosts, UNCHANGED faults, ActivateCandidate(h)
  PROVE  RetentionInv'
<1> DEFINE c == current + 1
<1>0. /\ DatasetTypes /\ RunTypes /\ DatasetInv /\ PartialIsJournalled
      /\ c \in Generations /\ current \in Generations /\ state[c] = "committed"
      /\ current' = c
      /\ wasActive' = [wasActive EXCEPT ![current] = (schema[current] = "v3")]
      /\ UNCHANGED <<schema, state, remaining, journal, runVars, faults>>
      /\ Goto(h, "loadJournal")
  BY DEF RetentionInv, TypeOK, DatasetTypes, RunTypes, ActivateCandidate
<1>1. /\ Generations \subseteq Nat /\ c # current /\ c > current
      /\ \A g \in Generations : /\ g < c <=> g <= current
                                /\ g <= c <=> g <= current \/ g = c
                                /\ g > c => g > current
  BY <1>0, GenerationsAreNumbers
<1>2. DatasetTypes' /\ RunTypes' /\ OthersUntouched(h)
  BY <1>0 DEF DatasetTypes, RunTypes, OthersUntouched, Goto, runVars, Controls
<1>3. /\ wasActive'[current] = (schema[current] = "v3")
      /\ \A g \in Generations \ {current} : wasActive'[g] = wasActive[g]
  BY <1>0 DEF DatasetTypes
<1>4. DatasetInv'
  <2>1. RootOutlivesRecords'
    BY <1>0 DEF DatasetInv, RootOutlivesRecords
  <2>2. CurrentWhole'
    <3>1. remaining[c] # {}
      BY <1>0 DEF DatasetInv, RootOutlivesRecords
    <3>2. remaining[c] \in {{}, Entries}
      BY <1>0, <1>1 DEF DatasetInv, AboveCurrent
    <3>3. remaining'[c] = Entries /\ state'[c] = "committed" /\ current' = c
      BY <1>0, <3>1, <3>2
    <3> QED BY <3>3 DEF CurrentWhole
  <2>3. AboveCurrent'
    <3>1. ASSUME NEW g \in Generations, g > c
          PROVE  schema[g] = "v3" /\ remaining[g] \in {{}, Entries} /\ state[g] = "absent"
      BY <1>0, <1>1, <3>1 DEF DatasetInv, AboveCurrent
    <3> QED BY <1>0, <3>1 DEF AboveCurrent
  <2>4. BelowCurrent'
    <3>1. ASSUME NEW g \in Generations
          PROVE  /\ g <= c => state[g] # "staging"
                 /\ schema[g] = "v2" => state[g] # "absent"
                 /\ g < c /\ schema[g] = "v3" /\ state[g] # "absent" => wasActive'[g]
      <4>1. CASE g = current
        BY <1>0, <1>1, <1>3, <4>1 DEF DatasetInv, BelowCurrent, CurrentWhole
      <4>2. CASE g # current
        BY <1>0, <1>1, <1>3, <4>2 DEF DatasetInv, BelowCurrent
      <4> QED BY <4>1, <4>2
    <3> QED BY <1>0, <3>1 DEF BelowCurrent
  <2>5. SchemaOrder' /\ SuffixLeft'
    <3>1. SchemaOrder'
      BY <1>0 DEF DatasetInv, SchemaOrder
    <3>2. SuffixLeft'
      BY <1>0, <1>1 DEF DatasetInv, SuffixLeft
    <3> QED BY <3>1, <3>2
  <2> QED BY <2>1, <2>2, <2>3, <2>4, <2>5 DEF DatasetInv
<1>5. PartialIsJournalled'
  BY <1>0 DEF PartialIsJournalled, Partial
<1>6. DatasetMoves
  <2>1. Present \subseteq Present'
    BY <1>0 DEF Present
  <2>2. current <= current' /\ schema' = schema
    BY <1>0, <1>1
  <2> QED BY <1>0, <2>1, <2>2, PlansKept DEF DatasetMoves
<1>7. HostInv(h)'
  <2>1. pc'[h] = "loadJournal"
    BY <1>0 DEF Goto, RunTypes
  <2> QED BY <1>0, <1>6, <2>1, CampaignHost
<1> QED BY <1>2, <1>4, <1>5, <1>6, <1>7, DatasetStepKeeps

-----------------------------------------------------------------------------
(* Deleting one entry.                                                     *)

\* What the run that is about to delete knows.
LEMMA Deleter ==
  ASSUME RetentionInv, NEW h \in Hosts, pc[h] = "delete"
  PROVE  /\ plan[h] \in Plans /\ PlanInv(plan[h]) /\ journal[h] = PlanFile(plan[h])
         /\ Target(h) \in Generations /\ Target(h) < current /\ Target(h) # current
         /\ schema[Target(h)] = "v3" /\ remaining[Target(h)] \subseteq todo[h]
         /\ resumed[h] \/ deleted[h] < MaxDeleteBatch
<1>1. TypeOK /\ HostInv(h) /\ DatasetTypes
  BY DEF RetentionInv, TypeOK, DatasetTypes
<1>2. plan[h] \in Plans /\ PlanInv(plan[h])
  BY <1>1 DEF TypeOK, HostInv, AtWork, Deleting
<1>3. Target(h) \in Generations /\ Target(h) < current
  BY <1>1, <1>2, PlanBelowCurrent DEF Target
<1>4. Target(h) # current
  BY <1>1, <1>3, GenerationsAreNumbers DEF TypeOK
<1> QED BY <1>1, <1>2, <1>3, <1>4 DEF HostInv, AtWork, Deleting, PlanInv, Target

\* The effect of a delete on the generation it belongs to.
LEMMA DeleteEffect ==
  ASSUME RetentionInv, NEW h \in Hosts, pc[h] = "delete",
         NEW e \in Entries, EntryDeleted(h, e), NEW g \in Generations, g = Target(h)
  PROVE  /\ remaining'[g] = remaining[g] \ {e} /\ state'[g] \in {state[g], "absent"}
         /\ remaining'[g] # {} => Root \in remaining'[g]
         /\ remaining'[g] = {} <=> state'[g] = "absent"
         /\ \A k \in Generations \ {g} : state'[k] = state[k] /\ remaining'[k] = remaining[k]
         /\ DatasetTypes'
         /\ UNCHANGED <<current, schema, wasActive, journal>>
<1>0. DatasetTypes /\ RootOutlivesRecords
  BY DEF RetentionInv, DatasetInv, TypeOK, DatasetTypes
<1>1. /\ remaining' = [remaining EXCEPT ![g] = @ \ {e}]
      /\ state' = [state EXCEPT ![g] = IF e = Root THEN "absent" ELSE @]
      /\ UNCHANGED <<current, schema, wasActive, journal>>
      /\ e \in todo[h] /\ (e = Root => todo[h] = {Root})
  BY DEF EntryDeleted, NextToDelete, Target
<1>2. /\ remaining'[g] = remaining[g] \ {e}
      /\ state'[g] = IF e = Root THEN "absent" ELSE state[g]
      /\ \A k \in Generations \ {g} : state'[k] = state[k] /\ remaining'[k] = remaining[k]
  BY <1>0, <1>1 DEF DatasetTypes
<1>3. DatasetTypes'
  BY <1>0, <1>1 DEF DatasetTypes
<1>4. remaining[g] \subseteq todo[h]
  BY Deleter
<1>5. CASE e = Root
  BY <1>1, <1>2, <1>3, <1>4, <1>5
<1>6. CASE e # Root
  BY <1>0, <1>1, <1>2, <1>3, <1>6 DEF RootOutlivesRecords
<1> QED BY <1>5, <1>6

\* Plans of other hosts, and other plans of this one, stay sound: whoever
\* deletes the root of g deletes the oldest v3 generation, and two sound
\* plans for generations that exist name the same one.
LEMMA PlansSurviveDelete ==
  ASSUME RetentionInv, NEW h \in Hosts, pc[h] = "delete",
         NEW e \in Entries, EntryDeleted(h, e), NEW q \in Plans, PlanInv(q)
  PROVE  PlanInv(q)'
<1> DEFINE g == Target(h)
           x == q.generation
<1>0. DatasetTypes /\ RootOutlivesRecords
  BY DEF RetentionInv, DatasetInv, TypeOK, DatasetTypes
<1>1. /\ g \in Generations /\ schema[g] = "v3"
      /\ \A k \in Generations : k < g /\ schema[k] = "v3" /\ state[g] # "absent"
                                => state[k] = "absent"
  BY Deleter DEF PlanInv, Target
<1>2. /\ state'[g] \in {state[g], "absent"} /\ UNCHANGED <<current, schema>>
      /\ \A k \in Generations \ {g} : state'[k] = state[k]
  BY <1>1, DeleteEffect
<1>3. /\ x \in Generations /\ schema[x] = "v3"
      /\ x + MinRollbackGenerations < q.current /\ q.current <= current
  BY DEF PlanInv, Plans
<1>4. ASSUME state'[x] # "absent"
      PROVE  /\ \A k \in Generations : k < x /\ schema[k] = "v3" => state'[k] = "absent"
             /\ Cardinality(Present') > MaxGenerations
  <2>1. state[x] # "absent"
    BY <1>2, <1>3, <1>4
  <2>2. /\ \A k \in Generations : k < x /\ schema[k] = "v3" => state[k] = "absent"
        /\ Cardinality(Present) > MaxGenerations
    BY <2>1 DEF PlanInv
  <2>3. \A k \in Generations : state[k] = "absent" => state'[k] = "absent"
    BY <1>1, <1>2
  <2>4. state'[g] = state[g]
    <3>1. SUFFICES ASSUME state'[g] = "absent", state[g] # "absent" PROVE FALSE
      BY <1>2
    <3>2. x # g
      BY <1>4, <3>1
    <3>3. x \in Nat /\ g \in Nat
      BY <1>1, <1>3, GenerationsAreNumbers
    <3>4. CASE x < g
      BY <1>1, <1>3, <2>1, <3>1, <3>4
    <3>5. CASE g < x
      BY <1>1, <2>2, <3>1, <3>5
    <3> QED BY <3>2, <3>3, <3>4, <3>5
  <2>5. Present' = Present
    BY <1>2, <2>4 DEF Present
  <2> QED BY <2>2, <2>3, <2>5
<1> QED BY <1>2, <1>3, <1>4 DEF PlanInv

\* One delete keeps the invariant, whether its absence was observed or not.
LEMMA EntryDeletedKeeps ==
  ASSUME RetentionInv, NEW h \in Hosts, pc[h] = "delete",
         NEW e \in Entries, EntryDeleted(h, e), OthersUntouched(h), RunTypes',
         \/ pc'[h] = "idle"
         \/ /\ pc'[h] = "checkPointer" /\ todo'[h] = todo[h] \ {e}
            /\ plan'[h] = plan[h] /\ resumed'[h] = resumed[h]
            /\ deleted'[h] = deleted[h]
  PROVE  RetentionInv'
<1> DEFINE g == Target(h)
<1>0. DatasetTypes /\ RunTypes /\ DatasetInv /\ PartialIsJournalled /\ HostInv(h)
  BY DEF RetentionInv, TypeOK, DatasetTypes, RunTypes
<1>1. /\ g \in Generations /\ g < current /\ g # current /\ schema[g] = "v3"
      /\ plan[h] \in Plans /\ PlanInv(plan[h]) /\ journal[h] = PlanFile(plan[h])
      /\ remaining[g] \subseteq todo[h] /\ (resumed[h] \/ deleted[h] < MaxDeleteBatch)
  BY Deleter
<1>2. /\ remaining'[g] = remaining[g] \ {e} /\ state'[g] \in {state[g], "absent"}
      /\ remaining'[g] # {} => Root \in remaining'[g]
      /\ remaining'[g] = {} <=> state'[g] = "absent"
      /\ \A k \in Generations \ {g} : state'[k] = state[k] /\ remaining'[k] = remaining[k]
      /\ DatasetTypes'
      /\ UNCHANGED <<current, schema, wasActive, journal>>
  BY <1>1, DeleteEffect
<1>3. DatasetInv'
  <2>0. \A k \in Generations : k > current => k # g
    BY <1>0, <1>1, GenerationsAreNumbers DEF DatasetTypes
  <2>1. RootOutlivesRecords'
    BY <1>0, <1>2 DEF DatasetInv, RootOutlivesRecords
  <2>2. CurrentWhole'
    BY <1>0, <1>1, <1>2 DEF DatasetInv, CurrentWhole, DatasetTypes
  <2>3. AboveCurrent'
    BY <1>0, <1>2, <2>0 DEF DatasetInv, AboveCurrent
  <2>4. BelowCurrent'
    BY <1>0, <1>1, <1>2 DEF DatasetInv, BelowCurrent
  <2>5. SchemaOrder'
    BY <1>0, <1>2 DEF DatasetInv, SchemaOrder
  <2>6. SuffixLeft'
    <3>1. SUFFICES ASSUME NEW a \in Generations, NEW k \in Generations,
                          a < k, k <= current, schema[a] = "v3",
                          state'[a] # "absent"
                   PROVE  state'[k] # "absent"
      BY <1>2 DEF SuffixLeft
    <3>2. state[a] # "absent" /\ state[k] # "absent"
      BY <1>0, <1>1, <1>2, <3>1 DEF DatasetInv, SuffixLeft
    <3>3. k # g
      BY <1>1, <3>1, <3>2 DEF PlanInv, Target
    <3> QED BY <1>2, <3>2, <3>3
  <2> QED BY <2>1, <2>2, <2>3, <2>4, <2>5, <2>6 DEF DatasetInv
<1>4. PartialIsJournalled'
  <2>1. ASSUME NEW k \in Generations, Partial(k)'
        PROVE  \E i \in Hosts : journal[i].kind = "plan" /\ journal[i].plan.generation = k
    <3>1. CASE k = g
      BY <1>1, <3>1, PlanFileHolds DEF Target
    <3>2. CASE k # g
      BY <1>0, <1>2, <2>1, <3>2 DEF PartialIsJournalled, Partial
    <3> QED BY <3>1, <3>2
  <2> QED BY <1>2, <2>1 DEF PartialIsJournalled
<1>5. DatasetMoves
  <2>1. \A p \in Plans : PlanInv(p) => PlanInv(p)'
    BY PlansSurviveDelete
  <2>2. \A k \in Generations : /\ state[k] = "absent" => state'[k] = "absent"
                               /\ remaining'[k] \subseteq remaining[k]
    BY <1>1, <1>2
  <2>3. current <= current' /\ schema' = schema
    BY <1>0, <1>2, GenerationsAreNumbers DEF DatasetTypes
  <2> QED BY <2>1, <2>2, <2>3 DEF DatasetMoves
<1>6. HostInv(h)'
  <2>1. CASE pc'[h] = "idle"
    BY <1>2, <1>5, <2>1, CampaignHost
  <2>2. CASE /\ pc'[h] = "checkPointer" /\ todo'[h] = todo[h] \ {e}
             /\ plan'[h] = plan[h] /\ resumed'[h] = resumed[h]
             /\ deleted'[h] = deleted[h]
    <3>1. PICK p \in Plans : p = plan[h]
      BY <1>1
    <3>2. PlanInv(p)'
      BY <1>1, <3>1, PlansSurviveDelete
    <3>3. PlanInv(plan[h])' /\ PlanInv(journal[h].plan)'
      <4>1. plan'[h] = p /\ journal'[h].plan = p
        BY <1>1, <1>2, <2>2, <3>1, PlanFileHolds
      <4> QED BY <3>2, <4>1 DEF PlanInv
    <3>4. Target(h)' = g /\ remaining'[g] \subseteq todo'[h]
      BY <1>1, <1>2, <2>2 DEF Target
    <3> QED BY <1>1, <1>2, <2>2, <3>3, <3>4 DEF HostInv
  <2> QED BY <2>1, <2>2
<1> QED BY <1>0, <1>2, <1>3, <1>4, <1>5, <1>6, DatasetStepKeeps

\* Deleting an entry whose absence is then observed, or not.
LEMMA DeleteKeeps ==
  ASSUME RetentionInv, NEW h \in Hosts, faults' \in 0..MaxFaults,
         Delete(h) \/ DeleteUnobserved(h)
  PROVE  RetentionInv'
<1>0. TypeOK /\ RunTypes /\ pc[h] = "delete"
  BY DEF RetentionInv, TypeOK, RunTypes, Delete, DeleteUnobserved
<1>1. CASE Delete(h)
  <2>1. PICK e \in Entries :
          /\ EntryDeleted(h, e)
          /\ todo' = [todo EXCEPT ![h] = @ \ {e}]
    BY <1>1 DEF Delete
  <2>2. /\ pc' = [pc EXCEPT ![h] = "checkPointer"] /\ journal' = journal
        /\ UNCHANGED <<plan, fence, deleted, resumed>>
    BY <1>1, <2>1 DEF Delete, Goto, EntryDeleted
  <2>4. OthersUntouched(h) /\ RunTypes'
    BY <1>0, <2>1, <2>2 DEF OthersUntouched, RunTypes, Controls
  <2>5. /\ pc'[h] = "checkPointer" /\ todo'[h] = todo[h] \ {e}
        /\ plan'[h] = plan[h] /\ resumed'[h] = resumed[h]
        /\ deleted'[h] = deleted[h]
    BY <1>0, <2>1, <2>2 DEF TypeOK
  <2> QED BY <1>0, <2>1, <2>4, <2>5, EntryDeletedKeeps
<1>2. CASE DeleteUnobserved(h)
  <2>1. PICK e \in Entries : EntryDeleted(h, e)
    BY <1>2 DEF DeleteUnobserved
  <2>2. OthersUntouched(h) /\ RunTypes' /\ pc'[h] = "idle"
    BY <1>2, <2>1, StopForgets DEF DeleteUnobserved, EntryDeleted
  <2> QED BY <1>0, <2>1, <2>2, EntryDeletedKeeps
<1> QED BY <1>1, <1>2

-----------------------------------------------------------------------------
(* The invariant.                                                          *)

\* It holds at first: a v2 prefix and once-active v3 roots up to current.
LEMMA InitInv == Init => RetentionInv
<1> SUFFICES ASSUME Init PROVE RetentionInv
  OBVIOUS
<1>1. PICK legacy \in LegacyCounts :
        /\ schema = [g \in Generations |-> IF g <= legacy THEN "v2" ELSE "v3"]
        /\ wasActive = [g \in Generations |-> g > legacy /\ g < StartGeneration]
  BY DEF Init
<1>2. /\ StartGeneration \in Generations /\ Generations \subseteq Nat
      /\ legacy \in Nat /\ legacy <= StartGeneration /\ 1 \in Generations
      /\ 0 \in 0..MaxDeleteBatch /\ 0 \in 0..MaxFaults
  BY GenerationsAreNumbers, RetentionAssumption DEF Generations
<1>3. current = StartGeneration
  BY DEF Init
<1>4. \A g \in Generations :
        /\ state[g] = (IF g <= StartGeneration THEN "committed" ELSE "absent")
        /\ remaining[g] = (IF g <= StartGeneration THEN Entries ELSE {})
        /\ schema[g] = (IF g <= legacy THEN "v2" ELSE "v3")
        /\ wasActive[g] = (g > legacy /\ g < StartGeneration)
  BY <1>1 DEF Init
<1>5. TypeOK
  <2>1. /\ current \in Generations
        /\ schema \in [Generations -> {"v2", "v3"}]
        /\ wasActive \in [Generations -> BOOLEAN]
    BY <1>1, <1>2, <1>3
  <2>2. /\ state \in [Generations -> RootStates \cup {"absent"}]
        /\ remaining \in [Generations -> SUBSET Entries]
    BY DEF Init, RootStates
  <2>3. plan \in [Hosts -> Plans]
    BY <1>2 DEF Init, Plans
  <2>4. /\ journal \in [Hosts -> Files] /\ pc \in [Hosts -> Controls]
        /\ fence \in [Hosts -> Generations] /\ todo \in [Hosts -> SUBSET Entries]
        /\ deleted \in [Hosts -> 0..MaxDeleteBatch]
        /\ resumed \in [Hosts -> BOOLEAN]
        /\ faults \in 0..MaxFaults
    BY <1>2, PlanFileHolds DEF Init, Controls
  <2> QED BY <2>1, <2>2, <2>3, <2>4 DEF TypeOK
<1>6. DatasetInv
  <2>1. RootOutlivesRecords
    BY <1>4 DEF RootOutlivesRecords, Entries
  <2>2. CurrentWhole
    BY <1>2, <1>3, <1>4 DEF CurrentWhole
  <2>3. AboveCurrent
    BY <1>2, <1>3, <1>4 DEF AboveCurrent
  <2>4. BelowCurrent
    <3>1. ASSUME NEW g \in Generations
          PROVE  /\ g <= current => state[g] # "staging"
                 /\ schema[g] = "v2" => state[g] # "absent"
                 /\ g < current /\ schema[g] = "v3" => g > legacy /\ g < StartGeneration
      BY <1>2, <1>3, <1>4
    <3> QED BY <1>4, <3>1 DEF BelowCurrent
  <2>5. SchemaOrder
    <3>1. ASSUME NEW g \in Generations, NEW k \in Generations, g < k, schema[g] = "v3"
          PROVE  schema[k] = "v3"
      <4>1. g \in Nat /\ k \in Nat /\ ~(g <= legacy)
        BY <1>2, <1>4, <3>1
      <4>2. ~(k <= legacy)
        BY <1>2, <3>1, <4>1
      <4> QED BY <1>4, <4>2
    <3> QED BY <3>1 DEF SchemaOrder
  <2>6. SuffixLeft
    BY <1>2, <1>3, <1>4 DEF SuffixLeft
  <2> QED BY <2>1, <2>2, <2>3, <2>4, <2>5, <2>6 DEF DatasetInv
<1>7. PartialIsJournalled
  BY <1>4 DEF PartialIsJournalled, Partial
<1>8. ASSUME NEW h \in Hosts PROVE HostInv(h)
  <2>1. pc[h] = "idle" /\ journal[h] = NoFile
    BY DEF Init
  <2> QED BY <2>1, PlanFileHolds DEF HostInv, AtWork, Deleting
<1> QED BY <1>5, <1>6, <1>7, <1>8 DEF RetentionInv

\* Every step of every host keeps it.
LEMMA NextInv == RetentionInv /\ [Next]_vars => RetentionInv'
<1> SUFFICES ASSUME RetentionInv, [Next]_vars PROVE RetentionInv'
  OBVIOUS
<1>1. ASSUME NEW h \in Hosts, BeginRun(h) PROVE RetentionInv'
  BY <1>1, StartKeeps DEF BeginRun
<1>2. ASSUME NEW h \in Hosts, RunStep(h) PROVE RetentionInv'
  <2>0. UNCHANGED faults /\ faults' \in 0..MaxFaults
    BY <1>2 DEF RunStep, RetentionInv, TypeOK
  <2>1. CASE CampaignStep(h)
    BY <2>0, <2>1, StartKeeps, StageKeeps, SealKeeps, ActivateKeeps DEF CampaignStep
  <2>2. CASE RetentionStep(h)
    BY <2>0, <2>2, LoadJournalKeeps, InventoryKeeps, JournalKeeps DEF RetentionStep
  <2>3. CASE DeleteStep(h)
    BY <2>0, <2>3, DeleteReadsKeep, DeleteKeeps, RemoveJournalKeeps DEF DeleteStep
  <2> QED BY <1>2, <2>1, <2>2, <2>3 DEF RunStep
<1>3. ASSUME NEW h \in Hosts, Fault(h) PROVE RetentionInv'
  <2>1. faults' \in 0..MaxFaults
    BY <1>3, GenerationsAreNumbers DEF Fault, RetentionInv, TypeOK
  <2> QED BY <1>3, <2>1, StopKeeps, DeleteKeeps, WriteFailsKeeps DEF Fault, RunDies
<1>4. CASE UNCHANGED vars
  <2>1. TypeOK'
    BY <1>4 DEF vars, datasetVars, runVars, RetentionInv, TypeOK
  <2>2. DatasetInv'
    BY <1>4 DEF vars, datasetVars, RetentionInv, DatasetInv, RootOutlivesRecords,
       CurrentWhole, AboveCurrent, BelowCurrent, SchemaOrder, SuffixLeft
  <2>3. PartialIsJournalled'
    BY <1>4 DEF vars, datasetVars, RetentionInv, PartialIsJournalled, Partial
  <2>4. ASSUME NEW h \in Hosts PROVE HostInv(h)'
    BY <1>4 DEF vars, datasetVars, runVars, RetentionInv, HostInv, PlanInv, Present, Target
  <2> QED BY <2>1, <2>2, <2>3, <2>4 DEF RetentionInv
<1> QED BY <1>1, <1>2, <1>3, <1>4 DEF Next

\* The invariant of the specification: whatever runs, crashes and failed calls
\* have done, every plan in memory or in a journal may still be carried out.
THEOREM Invariance == Spec => []RetentionInv
<1> QED BY InitInv, NextInv, PTL DEF Spec

\* Every variable of the retention model keeps its type.
THEOREM TypeCorrect == Spec => []TypeOK
<1>1. RetentionInv => TypeOK
  BY DEF RetentionInv
<1> QED BY <1>1, Invariance, PTL

\* deleteGenerationFromPlan never leaves records without their root.
THEOREM RootLast == Spec => []RootOutlivesRecords
<1>1. RetentionInv => RootOutlivesRecords
  BY DEF RetentionInv, DatasetInv
<1> QED BY <1>1, Invariance, PTL

\* A half-deleted generation is always named by the journal of some host.
THEOREM Journalled == Spec => []PartialIsJournalled
<1>1. RetentionInv => PartialIsJournalled
  BY DEF RetentionInv
<1> QED BY <1>1, Invariance, PTL

-----------------------------------------------------------------------------
(* What the invariant says of the root index and of every delete.          *)

\* The dataset part of the invariant yields the shape readers insist on.
LEMMA ShapeFromInv ==
  ASSUME DatasetTypes, DatasetInv
  PROVE  AcceptableToPlanner(Present, schema, state, current)
<1>0. /\ Generations \subseteq Nat /\ \A g \in Generations : g >= 1
      /\ current \in Generations
  BY GenerationsAreNumbers DEF DatasetTypes
<1>1. current \in Present
  BY <1>0 DEF DatasetInv, CurrentWhole, Present
<1>2. ASSUME NEW n \in Present
      PROVE  /\ n > 0 /\ n <= current + 1
             /\ schema[n] \in {"v2", "v3"}
             /\ n <= current => state[n] = "committed"
  <2>1. n \in Generations /\ state[n] # "absent"
    BY DEF Present
  <2>2. n <= current + 1
    BY <1>0, <2>1 DEF DatasetInv, AboveCurrent
  <2>3. n <= current => state[n] = "committed"
    BY <2>1 DEF DatasetInv, BelowCurrent, DatasetTypes, RootStates
  <2> QED BY <1>0, <2>1, <2>2, <2>3 DEF DatasetTypes
<1>3. ASSUME NEW a \in Present, NEW b \in Present, Successor(Present, a, b)
      PROVE  /\ schema[a] = "v3" => schema[b] = "v3"
             /\ b = a + 1 \/ (schema[a] = "v2" /\ schema[b] = "v3")
  <2>1. /\ a \in Generations /\ b \in Generations /\ a \in Nat /\ b \in Nat /\ a < b
        /\ state[a] # "absent" /\ state[b] # "absent"
    BY <1>0, <1>3 DEF Present, Successor
  <2>2. schema[a] = "v3" => schema[b] = "v3"
    BY <2>1 DEF DatasetInv, SchemaOrder
  <2>3. ASSUME b # a + 1, schema[a] = schema[b] PROVE FALSE
    <3>1. a + 1 \in Generations /\ a < a + 1 /\ a + 1 < b
      BY <2>1, <2>3, RetentionAssumption DEF Generations
    <3>2. state[a + 1] = "absent"
      BY <1>3, <3>1 DEF Successor, Present
    <3>3. CASE schema[a] = "v3"
      <4>1. a + 1 <= current
        BY <1>0, <1>2, <2>1, <3>1
      <4> QED BY <2>1, <3>1, <3>2, <3>3, <4>1 DEF DatasetInv, SuffixLeft
    <3>4. CASE schema[a] = "v2"
      <4>1. schema[a + 1] = "v2"
        BY <2>1, <2>3, <3>1, <3>4 DEF DatasetInv, SchemaOrder, DatasetTypes
      <4> QED BY <3>1, <3>2, <4>1 DEF DatasetInv, BelowCurrent
    <3> QED BY <1>2, <3>3, <3>4
  <2> QED BY <1>2, <2>2, <2>3
<1>4. LegalShape(Present, schema)
  BY <1>1, <1>2, <1>3 DEF LegalShape, Successor, Schemas, LegacySchemas
<1> QED BY <1>1, <1>2, <1>4 DEF AcceptableToPlanner

\* Purges of any number of hosts leave a root index every reader accepts.
THEOREM IndexAcceptable == Spec => []IndexStaysAcceptable
<1>1. RetentionInv => IndexStaysAcceptable
  BY ShapeFromInv DEF RetentionInv, TypeOK, DatasetTypes, DatasetInv, CurrentWhole,
     IndexStaysAcceptable
<1> QED BY <1>1, Invariance, PTL

\* Entries disappear only by a delete of a run that holds a plan for them.
LEMMA LossIsADelete ==
  ASSUME RetentionInv, [Next]_vars, NEW g \in Generations,
         \/ ~(remaining[g] \subseteq remaining'[g])
         \/ state[g] # "absent" /\ state'[g] = "absent"
  PROVE  \E h \in Hosts : pc[h] = "delete" /\ g = Target(h)
<1>0. DatasetTypes
  BY DEF RetentionInv, TypeOK, DatasetTypes
<1>1. ASSUME UNCHANGED <<state, remaining>> PROVE FALSE
  BY <1>1
<1>2. ASSUME NEW h \in Hosts, StageCandidate(h) \/ SealCandidate(h) PROVE FALSE
  <2>1. CASE StageCandidate(h)
    BY <1>0, <2>1 DEF StageCandidate, DatasetTypes
  <2>2. CASE SealCandidate(h)
    BY <1>0, <2>2 DEF SealCandidate, DatasetTypes
  <2> QED BY <1>2, <2>1, <2>2
<1>3. ASSUME NEW h \in Hosts, Delete(h) \/ DeleteUnobserved(h)
      PROVE  pc[h] = "delete" /\ g = Target(h)
  <2>1. PICK e \in Entries : EntryDeleted(h, e)
    BY <1>3 DEF Delete, DeleteUnobserved
  <2> QED BY <1>0, <1>3, <2>1
       DEF EntryDeleted, Delete, DeleteUnobserved, Target, DatasetTypes
<1>4. ASSUME NEW h \in Hosts, BeginRun(h) PROVE FALSE
  BY <1>1, <1>4 DEF BeginRun, StartRun, datasetVars
<1>5. ASSUME NEW h \in Hosts, RunStep(h), ~Delete(h) PROVE FALSE
  <2>1. CASE CampaignStep(h)
    BY <1>1, <1>2, <2>1
    DEF CampaignStep, LoadHistory, ActivateCandidate, IdleRun, datasetVars
  <2>2. CASE RetentionStep(h)
    BY <1>1, <2>2 DEF RetentionStep, LoadJournal, RetentionEnds, PlanPurge,
       OpenJournal, WriteJournal, datasetVars
  <2>3. CASE DeleteStep(h)
    BY <1>1, <1>5, <2>3 DEF DeleteStep, DeleteBegin, Snapshot, CheckPointer,
       FinalPointer, RemoveJournal, datasetVars
  <2> QED BY <1>5, <2>1, <2>2, <2>3 DEF RunStep
<1>6. ASSUME NEW h \in Hosts, Fault(h), ~DeleteUnobserved(h) PROVE FALSE
  BY <1>1, <1>6 DEF Fault, RunDies, WriteFails, datasetVars
<1>7. ~UNCHANGED vars
  BY <1>1 DEF vars, datasetVars
<1> QED BY <1>3, <1>4, <1>5, <1>6, <1>7 DEF Next

\* The target of a delete is what the policy lets go, under the pointer of
\* that moment, and the index is above its limit as long as the root is there.
LEMMA TargetMayGo ==
  ASSUME RetentionInv, NEW h \in Hosts, pc[h] = "delete", NEW g \in Generations,
         g = Target(h), remaining[g] # {}
  PROVE  /\ g + MinRollbackGenerations < current
         /\ schema[g] = "v3" /\ state[g] = "committed" /\ wasActive[g]
         /\ Cardinality(Present) > MaxGenerations
<1>0. TypeOK /\ DatasetInv
  BY DEF RetentionInv
<1>1. /\ plan[h] \in Plans /\ PlanInv(plan[h]) /\ g < current /\ schema[g] = "v3"
      /\ g = plan[h].generation
  BY Deleter DEF Target
<1>2. /\ g \in Nat /\ current \in Nat /\ plan[h].current \in Nat
      /\ MinRollbackGenerations \in Nat
  BY <1>0, <1>1, GenerationsAreNumbers DEF TypeOK, Plans
<1>3. state[g] # "absent"
  BY <1>0 DEF DatasetInv, RootOutlivesRecords
<1>4. g + MinRollbackGenerations < current /\ Cardinality(Present) > MaxGenerations
  BY <1>1, <1>2, <1>3 DEF PlanInv
<1>5. state[g] = "committed" /\ wasActive[g]
  BY <1>0, <1>1, <1>2, <1>3 DEF DatasetInv, BelowCurrent, TypeOK, RootStates
<1> QED BY <1>1, <1>4, <1>5

\* Whatever is deleted, by however old a plan, is once-active committed v3
\* data below the rollback reserve.
THEOREM EligibleOnly == Spec => OnlyEligibleDeleted
<1>1. RetentionInv /\ [Next]_vars =>
        [\A g \in Generations : ~(remaining[g] \subseteq remaining'[g]) =>
           /\ g + MinRollbackGenerations < current
           /\ schema[g] = "v3" /\ state[g] = "committed" /\ wasActive[g]]_vars
  BY LossIsADelete, TargetMayGo
<1> QED BY <1>1, Invariance, PTL DEF Spec, OnlyEligibleDeleted

\* No interleaving of hosts purges below the configured number of generations.
THEOREM LimitRespected == Spec => LimitKept
<1>1. RetentionInv /\ [Next]_vars =>
        [\A g \in Generations : state[g] # "absent" /\ state'[g] = "absent" =>
           Cardinality(Present) > MaxGenerations]_vars
  <2>1. RetentionInv => \A g \in Generations : state[g] # "absent" => remaining[g] # {}
    BY DEF RetentionInv, DatasetInv, RootOutlivesRecords
  <2> QED BY <2>1, LossIsADelete, TargetMayGo
<1> QED BY <1>1, Invariance, PTL DEF Spec, LimitKept
=============================================================================
