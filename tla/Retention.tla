----------------------------- MODULE Retention -----------------------------
(***************************************************************************)
(* Automatic retention: the last phase of every --auto run deletes the     *)
(* oldest eligible v3 generation entry by entry, root last, behind a purge *)
(* plan it first writes to a local journal.  Several hosts, each with a    *)
(* journal file of its own, work on one dataset, and campaigns of other    *)
(* runs move cn=current meanwhile.                                         *)
(*                                                                         *)
(* A campaign appears here as three steps of GenerationLog, which          *)
(* CampaignActivation is shown to implement: a complete candidate appears, *)
(* is sealed, becomes current.  They are not fenced against a purge of     *)
(* another host, because the reads that precede them may be older.         *)
(*                                                                         *)
(* A generation number is never reused and a committed generation never    *)
(* changes, so a plan's number stands for its digest-bound commitment.     *)
(***************************************************************************)
EXTENDS RetainedRoots, FiniteSets

CONSTANTS
  Hosts,           \* hosts that run --auto, one at a time each
  LegacyCounts,    \* the possible lengths of the v2 prefix
  StartGeneration, \* current at first
  LastGeneration,  \* bound on generation numbers
  Records,         \* entries below a generation root, deleted in any order
  Root,            \* the root entry, deleted last
  Coherent,        \* entry sets loadHistoricalLineages accepts, see below
  MaxGenerations, MinRollbackGenerations, MaxDeleteBatch, \* configuration
  MaxFaults        \* bound on crashes and failed calls

Generations == 1..LastGeneration
Entries == Records \cup {Root}

ASSUME RetentionAssumption ==
  /\ LastGeneration \in Nat /\ StartGeneration \in Generations
  /\ LegacyCounts \subseteq 1..StartGeneration
  /\ Root \notin Records /\ IsFiniteSet(Records)
  /\ Coherent \subseteq SUBSET Entries /\ Entries \in Coherent
  /\ MaxGenerations \in Nat /\ MaxDeleteBatch \in Nat \ {0}
  /\ MinRollbackGenerations \in Nat
  /\ MinRollbackGenerations < MaxGenerations
  /\ MaxFaults \in Nat

VARIABLES
  current,    \* the generation cn=current names
  schema,     \* schema[g], the marker of root g
  state,      \* state[g] of root g, "absent" when there is no such root
  wasActive,  \* wasActive[g], the activation marker of root g
  remaining,  \* remaining[g]: entries of generation g still stored
  journal,    \* journal[h]: the journal file of host h, it survives crashes
  pc,         \* control state of each run
  plan,       \* the purge plan a run works on
  fence,      \* the generation of the pointer DeleteGeneration began with
  todo,       \* entries of its snapshot not deleted yet
  deleted,    \* the loop counter of applyAutomaticRetention
  resumed,    \* the plan came from the journal, outside the loop
  faults      \* faults so far

datasetVars == <<current, schema, state, wasActive, remaining>>
runVars == <<plan, fence, todo, deleted, resumed>>
vars == <<datasetVars, journal, pc, runVars, faults>>

Controls == {"idle", "loadHistory", "campaign", "loadJournal", "inventory",
             "openJournal", "writeJournal", "deleteBegin", "snapshot", "checkPointer",
             "delete", "finalPointer", "removeJournal"}

\* The journal file: absent, created but not yet written, or a whole plan.
Plans == [current : Generations, generation : Generations]
NoFile == [kind |-> "none"]
EmptyFile == [kind |-> "empty"]
PlanFile(p) == [kind |-> "plan", plan |-> p]
Files == {NoFile, EmptyFile} \cup {PlanFile(p) : p \in Plans}

-----------------------------------------------------------------------------
(* The dataset as readers see it.                                          *)

Present == {g \in Generations : state[g] # "absent"}

\* The history reader counts and relates the records of a generation but does
\* not check its digest: when the last selector's entries are gone to the last
\* one the remainder is accepted again.
HistoryReadable == \A g \in Present : remaining[g] \in Coherent

Partial(g) == remaining[g] \notin {{}, Entries}

Init ==
  /\ current = StartGeneration
  /\ state = [g \in Generations |->
                IF g <= StartGeneration THEN "committed" ELSE "absent"]
  /\ \E legacy \in LegacyCounts :
       /\ schema = [g \in Generations |-> IF g <= legacy THEN "v2" ELSE "v3"]
       /\ wasActive = [g \in Generations |-> g > legacy /\ g < StartGeneration]
  /\ remaining = [g \in Generations |->
                    IF g <= StartGeneration THEN Entries ELSE {}]
  /\ journal = [h \in Hosts |-> NoFile]
  /\ pc = [h \in Hosts |-> "idle"]
  /\ plan = [h \in Hosts |-> [current |-> 1, generation |-> 1]]
  /\ fence = [h \in Hosts |-> 1]
  /\ todo = [h \in Hosts |-> {}]
  /\ deleted = [h \in Hosts |-> 0]
  /\ resumed = [h \in Hosts |-> FALSE]
  /\ faults = 0

Goto(h, label) == pc' = [pc EXCEPT ![h] = label]

\* The run ends and its memory is gone; the journal file stays as it is.
Stop(h) == /\ Goto(h, "idle")
           /\ plan' = [plan EXCEPT ![h] = [current |-> 1, generation |-> 1]]
           /\ fence' = [fence EXCEPT ![h] = 1]
           /\ todo' = [todo EXCEPT ![h] = {}]
           /\ deleted' = [deleted EXCEPT ![h] = 0]
           /\ resumed' = [resumed EXCEPT ![h] = FALSE]

-----------------------------------------------------------------------------
(* The campaign part of a run.                                             *)

StartRun(h) ==
  /\ pc[h] = "idle"
  /\ Goto(h, "loadHistory")
  /\ UNCHANGED <<datasetVars, journal, runVars>>

\* --auto reads the complete retained history before anything else; where it
\* is unreadable the run ends, long before the journal is looked at.
LoadHistory(h) ==
  /\ pc[h] = "loadHistory"
  /\ IF /\ HistoryReadable
        /\ AcceptableToPlanner(Present, schema, state, current)
     THEN Goto(h, "campaign") /\ UNCHANGED runVars
     ELSE Stop(h)
  /\ UNCHANGED <<datasetVars, journal>>

StageCandidate(h) ==
  /\ pc[h] = "campaign"
  /\ current + 1 \in Generations /\ state[current + 1] = "absent"
  /\ state' = [state EXCEPT ![current + 1] = "staging"]
  /\ remaining' = [remaining EXCEPT ![current + 1] = Entries]
  /\ UNCHANGED <<current, schema, wasActive, journal, pc, runVars>>

SealCandidate(h) ==
  /\ pc[h] = "campaign"
  /\ current + 1 \in Generations /\ state[current + 1] = "staging"
  /\ state' = [state EXCEPT ![current + 1] = "committed"]
  /\ UNCHANGED <<current, schema, wasActive, remaining, journal, pc, runVars>>

\* A v3 source is marked before the pointer leaves it; then retention starts.
ActivateCandidate(h) ==
  /\ pc[h] = "campaign"
  /\ current + 1 \in Generations /\ state[current + 1] = "committed"
  /\ current' = current + 1
  /\ wasActive' = [wasActive EXCEPT ![current] = (schema[current] = "v3")]
  /\ Goto(h, "loadJournal")
  /\ UNCHANGED <<schema, state, remaining, journal, runVars>>

\* Nothing is due, or another host finished the campaign.
IdleRun(h) ==
  /\ pc[h] = "campaign"
  /\ Goto(h, "loadJournal")
  /\ UNCHANGED <<datasetVars, journal, runVars>>

-----------------------------------------------------------------------------
(* applyAutomaticRetention.                                                *)

LoadJournal(h) ==
  /\ pc[h] = "loadJournal"
  /\ CASE journal[h].kind = "plan" ->
            /\ plan' = [plan EXCEPT ![h] = journal[h].plan]
            /\ resumed' = [resumed EXCEPT ![h] = TRUE]
            /\ Goto(h, "deleteBegin")
            /\ UNCHANGED <<fence, todo, deleted>>
       [] journal[h].kind = "empty" -> Stop(h)
       [] journal[h].kind = "none" -> Goto(h, "inventory") /\ UNCHANGED runVars
  /\ UNCHANGED <<datasetVars, journal>>

\* InventoryGenerations verifies every root in full, digest included, under
\* one pointer.
InventoryValid == /\ \A g \in Present : remaining[g] = Entries
                  /\ LegalShape(Present, schema)
                  /\ current \in Present /\ state[current] = "committed"

\* Mutant: the reserve is one generation short.
EligibleAtReserve == {g \in Present : /\ g + MinRollbackGenerations <= current
                                      /\ schema[g] = "v3" /\ state[g] = "committed"
                                      /\ wasActive[g]}

\* Strictly below the reserve, v3, committed, once active.
Eligible == {g \in Present : /\ g + MinRollbackGenerations < current
                             /\ schema[g] = "v3" /\ state[g] = "committed"
                             /\ wasActive[g]}

Oldest(g, S) == g \in S /\ \A n \in S : g <= n

\* The loop is over, or must not go on.
RetentionEnds(h) ==
  /\ pc[h] = "inventory"
  /\ \/ deleted[h] >= MaxDeleteBatch
     \/ ~InventoryValid
     \/ Cardinality(Present) <= MaxGenerations
     \/ Eligible = {}
  /\ Stop(h)
  /\ UNCHANGED <<datasetVars, journal>>

\* Mutant: a purge at the limit itself.
PlanPurgeAtLimit(h) ==
  /\ pc[h] = "inventory"
  /\ deleted[h] < MaxDeleteBatch
  /\ InventoryValid
  /\ Cardinality(Present) >= MaxGenerations
  /\ \E g \in Eligible :
       /\ Oldest(g, Eligible)
       /\ plan' = [plan EXCEPT ![h] = [current |-> current, generation |-> g]]
  /\ resumed' = [resumed EXCEPT ![h] = FALSE]
  /\ Goto(h, "openJournal")
  /\ UNCHANGED <<datasetVars, journal, fence, todo, deleted>>

PlanPurge(h) ==
  /\ pc[h] = "inventory"
  /\ deleted[h] < MaxDeleteBatch
  /\ InventoryValid
  /\ Cardinality(Present) > MaxGenerations
  /\ \E g \in Eligible :
       /\ Oldest(g, Eligible)
       /\ plan' = [plan EXCEPT ![h] = [current |-> current, generation |-> g]]
  /\ resumed' = [resumed EXCEPT ![h] = FALSE]
  /\ Goto(h, "openJournal")
  /\ UNCHANGED <<datasetVars, journal, fence, todo, deleted>>

\* O_CREATE|O_EXCL, then write and sync: two steps a crash can separate.
OpenJournal(h) ==
  /\ pc[h] = "openJournal" /\ journal[h] = NoFile
  /\ journal' = [journal EXCEPT ![h] = EmptyFile]
  /\ Goto(h, "writeJournal")
  /\ UNCHANGED <<datasetVars, runVars>>

WriteJournal(h) ==
  /\ pc[h] = "writeJournal"
  /\ journal' = [journal EXCEPT ![h] = PlanFile(plan[h])]
  /\ Goto(h, "deleteBegin")
  /\ UNCHANGED <<datasetVars, runVars>>

-----------------------------------------------------------------------------
(* deleteGenerationFromPlan.                                               *)

DeleteBegin(h) ==
  /\ pc[h] = "deleteBegin"
  /\ IF current = plan[h].current
     THEN /\ fence' = [fence EXCEPT ![h] = current]
          /\ Goto(h, "snapshot")
          /\ UNCHANGED <<plan, todo, deleted, resumed>>
     ELSE Stop(h)
  /\ UNCHANGED <<datasetVars, journal>>

\* An absent generation needs no deletion; what is left of it must be headed
\* by the exact root the plan was made for.
Snapshot(h) ==
  /\ pc[h] = "snapshot"
  /\ LET g == plan[h].generation
     IN IF remaining[g] = {} THEN Goto(h, "removeJournal") /\ UNCHANGED runVars
        ELSE IF /\ Root \in remaining[g] /\ schema[g] = "v3"
                /\ state[g] = "committed" /\ wasActive[g]
        THEN /\ todo' = [todo EXCEPT ![h] = remaining[g]]
             /\ Goto(h, "checkPointer")
             /\ UNCHANGED <<plan, fence, deleted, resumed>>
        ELSE Stop(h)
  /\ UNCHANGED <<datasetVars, journal>>

\* Mutant: a moved pointer ends the purge and takes the journal with it.
CheckPointerDropsJournal(h) ==
  /\ pc[h] = "checkPointer"
  /\ IF todo[h] = {} THEN Goto(h, "finalPointer")
     ELSE Goto(h, IF current = fence[h] THEN "delete" ELSE "removeJournal")
  /\ UNCHANGED <<datasetVars, journal, runVars>>

\* The pointer is read again before every single delete.
CheckPointer(h) ==
  /\ pc[h] = "checkPointer"
  /\ IF todo[h] = {} THEN Goto(h, "finalPointer") /\ UNCHANGED runVars
     ELSE IF current = fence[h] THEN Goto(h, "delete") /\ UNCHANGED runVars
     ELSE Stop(h)
  /\ UNCHANGED <<datasetVars, journal>>

\* Mutant: entries are deleted in the order the search returned them.
NextInAnyOrder(h) == todo[h]

\* Leaves come before the root; an entry another host deleted is gone too.
NextToDelete(h) == {e \in todo[h] : e = Root => todo[h] = {Root}}

EntryDeleted(h, e) ==
  LET g == plan[h].generation
  IN /\ e \in NextToDelete(h)
     /\ remaining' = [remaining EXCEPT ![g] = @ \ {e}]
     /\ state' = [state EXCEPT ![g] = IF e = Root THEN "absent" ELSE @]
     /\ UNCHANGED <<current, schema, wasActive, journal>>

Delete(h) ==
  /\ pc[h] = "delete"
  /\ \E e \in Entries :
       /\ EntryDeleted(h, e)
       /\ todo' = [todo EXCEPT ![h] = @ \ {e}]
  /\ Goto(h, "checkPointer")
  /\ UNCHANGED <<plan, fence, deleted, resumed>>

FinalPointer(h) ==
  /\ pc[h] = "finalPointer"
  /\ IF current = fence[h] THEN Goto(h, "removeJournal") /\ UNCHANGED runVars
                           ELSE Stop(h)
  /\ UNCHANGED <<datasetVars, journal>>

\* The loop counts only the plans it made itself.
RemoveJournal(h) ==
  /\ pc[h] = "removeJournal"
  /\ journal' = [journal EXCEPT ![h] = NoFile]
  /\ deleted' = [deleted EXCEPT ![h] = IF resumed[h] THEN @ ELSE @ + 1]
  /\ Goto(h, "inventory")
  /\ UNCHANGED <<datasetVars, plan, fence, todo, resumed>>

-----------------------------------------------------------------------------
(* Faults.                                                                 *)

\* A call returns an error, or the process dies: the run is over either way.
RunDies(h) == pc[h] # "idle" /\ Stop(h) /\ UNCHANGED <<datasetVars, journal>>

\* An entry is deleted, and its absence can no longer be observed.
DeleteUnobserved(h) ==
  /\ pc[h] = "delete"
  /\ \E e \in Entries : EntryDeleted(h, e)
  /\ Stop(h)

\* A failed write removes the file it created.
WriteFails(h) ==
  /\ pc[h] = "writeJournal"
  /\ journal' = [journal EXCEPT ![h] = NoFile]
  /\ Stop(h)
  /\ UNCHANGED datasetVars

Fault(h) == /\ faults < MaxFaults /\ faults' = faults + 1
            /\ RunDies(h) \/ DeleteUnobserved(h) \/ WriteFails(h)

-----------------------------------------------------------------------------
CampaignStep(h) == \/ LoadHistory(h) \/ StageCandidate(h) \/ SealCandidate(h)
                   \/ ActivateCandidate(h) \/ IdleRun(h)
RetentionStep(h) == \/ LoadJournal(h) \/ RetentionEnds(h) \/ PlanPurge(h)
                    \/ OpenJournal(h) \/ WriteJournal(h)
DeleteStep(h) == \/ DeleteBegin(h) \/ Snapshot(h) \/ CheckPointer(h)
                 \/ Delete(h) \/ FinalPointer(h) \/ RemoveJournal(h)

BeginRun(h) == StartRun(h) /\ UNCHANGED faults
RunStep(h) == /\ CampaignStep(h) \/ RetentionStep(h) \/ DeleteStep(h)
              /\ UNCHANGED faults

Next == \E h \in Hosts : BeginRun(h) \/ RunStep(h) \/ Fault(h)

Spec == Init /\ [][Next]_vars

\* --auto keeps being started and a started run goes on.
FairSpec == Spec /\ \A h \in Hosts : WF_vars(BeginRun(h)) /\ WF_vars(RunStep(h))

-----------------------------------------------------------------------------
(* Properties.                                                             *)

TypeOK ==
  /\ current \in Generations
  /\ schema \in [Generations -> {"v2", "v3"}]
  /\ state \in [Generations -> RootStates \cup {"absent"}]
  /\ wasActive \in [Generations -> BOOLEAN]
  /\ remaining \in [Generations -> SUBSET Entries]
  /\ journal \in [Hosts -> Files] /\ pc \in [Hosts -> Controls]
  /\ plan \in [Hosts -> Plans] /\ fence \in [Hosts -> Generations]
  /\ todo \in [Hosts -> SUBSET Entries]
  /\ deleted \in [Hosts -> 0..MaxDeleteBatch]
  /\ resumed \in [Hosts -> BOOLEAN]
  /\ faults \in 0..MaxFaults

\* Whatever is deleted is once-active committed v3 data below the rollback
\* reserve of the pointer as it is at that moment, although the plan was made
\* from an older inventory, possibly by an earlier run.
OnlyEligibleDeleted ==
  [][\A g \in Generations : ~(remaining[g] \subseteq remaining'[g]) =>
       /\ g + MinRollbackGenerations < current
       /\ schema[g] = "v3" /\ state[g] = "committed" /\ wasActive[g]]_vars

\* The root of a generation outlives its records whatever interrupts a purge
\* and however many hosts purge it: nothing headless is left behind.
RootOutlivesRecords ==
  \A g \in Generations : /\ remaining[g] # {} => Root \in remaining[g]
                         /\ remaining[g] = {} <=> state[g] = "absent"

\* No destructive request precedes its journal, and no journal is removed
\* before its generation is gone: a half-deleted generation is always named
\* by the journal of some host.
PartialIsJournalled ==
  \A g \in Generations : Partial(g) =>
    \E h \in Hosts : journal[h].kind = "plan" /\ journal[h].plan.generation = g

\* Purging leaves a root index every reader still accepts, with current
\* untouched and a gap only behind the legacy prefix, even when two hosts
\* purge and a third activates.
IndexStaysAcceptable ==
  /\ AcceptableToPlanner(Present, schema, state, current)
  /\ remaining[current] = Entries

\* Hosts that took their inventories side by side never purge below the
\* configured number of generations.
LimitKept ==
  [][\A g \in Generations : state[g] # "absent" /\ state'[g] = "absent" =>
       Cardinality(Present) > MaxGenerations]_vars

\* README.md:231: the journal "resumes the exact purge plan after partial
\* leaf-first deletion or restart".
PartialPurgeResumes ==
  \A g \in Generations : Partial(g) ~> remaining[g] = {}
=============================================================================
