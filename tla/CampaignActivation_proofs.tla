---------------------- MODULE CampaignActivation_proofs ----------------------
(***************************************************************************)
(* Proofs about CampaignActivation for any number of hosts, candidates,    *)
(* generations, entries and faults.                                        *)
(***************************************************************************)
EXTENDS CampaignInvariant, TLAPS

-----------------------------------------------------------------------------
(* Steps as the other hosts see them.                                      *)

\* Nothing of host k changes.
Untouched(k) ==
  /\ pc'[k] = pc[k] /\ command'[k] = command[k] /\ goal'[k] = goal[k]
  /\ source'[k] = source[k] /\ op'[k] = op[k] /\ entry'[k] = entry[k]
  /\ seen'[k] = seen[k] /\ fence'[k] = fence[k]

OthersUntouched(h) == \A k \in Hosts \ {h} : Untouched(k)

LocalTypes ==
  /\ pc \in [Hosts -> Controls] /\ command \in [Hosts -> Commands]
  /\ goal \in [Hosts -> Goals] /\ outcome \in [Hosts -> Outcomes]
  /\ source \in [Hosts -> 0..MaxGeneration]
  /\ op \in [Hosts -> Ops \cup {NoOp}]
  /\ entry \in [Hosts -> Entries]
  /\ seen \in [Hosts -> RootStates \cup {"absent"}]
  /\ fence \in [Hosts -> Pointers]
  /\ faults \in 0..MaxFaults

SharedTypes ==
  /\ current \in Pointers
  /\ state \in [Generations -> RootStates \cup {"absent"}]
  /\ schema \in [Generations -> {"none", "v2", "v3"}]
  /\ owner \in [Generations -> Identities]
  /\ content \in [Generations -> SUBSET (Entries \X Identities)]
  /\ wasActive \in [Generations -> BOOLEAN]
  /\ published \in SUBSET Ops /\ usedOps \in SUBSET Ops

\* The directory, DNS and the drawn identities only grow.
Grows ==
  /\ current.generation <= current'.generation
  /\ \A g \in Generations :
       /\ state[g] # "absent" => /\ state'[g] # "absent"
                                 /\ owner'[g] = owner[g]
                                 /\ schema'[g] = schema[g]
       /\ state[g] = "committed" => state'[g] = "committed"
       /\ Complete(g) => Complete(g)'
       /\ wasActive[g] => wasActive'[g]
  /\ published \subseteq published' /\ usedOps \subseteq usedOps'

-----------------------------------------------------------------------------
(* Control transfers.                                                      *)

\* A run that ends forgets everything but its report.
LEMMA FinishLocal ==
  ASSUME TypeOK, NEW h \in Hosts, NEW how \in Outcomes, Finish(h, how)
  PROVE  /\ OthersUntouched(h) /\ HostInv(h)' /\ op'[h] = NoOp
         /\ pc'[h] = "idle"
         /\ faults' \in 0..MaxFaults => LocalTypes'
<1>1. OthersUntouched(h)
  BY DEF OthersUntouched, Untouched, Finish, TypeOK
<1>2. /\ pc'[h] = "idle" /\ command'[h] = "auto" /\ op'[h] = NoOp
      /\ goal'[h] = "resume"
  BY DEF Finish, TypeOK
<1>3. HostInv(h)'
  BY <1>2 DEF HostInv, SourceInv, EmptyInv, OpInv, FreshInv, WriterInv, SeenInv,
     PreparedInv, Prepared, ProofInv, ProvenInv, FenceInv, Loading, Staging, Committing
<1>4. faults' \in 0..MaxFaults => LocalTypes'
  BY ConstantsAssumption DEF Finish, TypeOK, LocalTypes, Controls, Commands, Goals,
     Outcomes, Entries, Pointers, InitialPointer, Generations, Identities
<1> QED BY <1>1, <1>2, <1>3, <1>4

\* A step of h that changes nothing shared and starts no writing.
Quiet(h) ==
  /\ UNCHANGED sharedVars /\ OthersUntouched(h) /\ LocalTypes'
  /\ HostInv(h)' /\ pc'[h] # "addEntry"
  /\ \/ op'[h] \in {op[h], NoOp}
     \/ \E g \in Generations : owner[g] = op'[h]

\* A step that writes nothing shared and leaves its own host's part of the
\* invariant true keeps the whole invariant.
LEMMA QuietStep ==
  ASSUME CampaignInv, NEW h \in Hosts, Quiet(h)
  PROVE  CampaignInv'
<1> USE DEF CampaignInv, Quiet
<1>1. TypeOK'
  BY DEF TypeOK, LocalTypes, sharedVars, ldapVars
<1>2. DirectoryInv'
  BY DEF DirectoryInv, AbsentIsEmpty, PresentIsOwned, PointerOrder,
     CommittedComplete, OwnersDistinct, PointerTo, NoMixedGeneration,
     ActivatedKeysPublished, ActivationEvidence, Complete, sharedVars, ldapVars
<1>3. ASSUME NEW k \in Hosts \ {h} PROVE HostInv(k)'
  <2>1. Untouched(k) BY DEF OthersUntouched
  <2>2. HostInv(k) OBVIOUS
  <2> USE <2>1, <2>2 DEF HostInv, Untouched, sharedVars, ldapVars, Loading, Candidate
  <2>3. SourceInv(k)' /\ EmptyInv(k)' /\ OpInv(k)'
    BY DEF SourceInv, EmptyInv, OpInv
  <2>4. FreshInv(k)'
    <3> SUFFICES ASSUME pc[k] \in {"stageCurrent", "stageHistory", "addRoot"}
                 PROVE FreshInv(k)'
      BY DEF FreshInv
    <3>1. /\ op[k] \in Ops /\ op[k] # NoOp
          /\ \A g \in Generations : owner[g] # op[k]
          /\ \A j \in Hosts \ {k} : op[j] # op[k]
      BY ConstantsAssumption DEF FreshInv, OpInv, Staging
    <3>2. op'[h] # op[k] BY <3>1
    <3>3. \A j \in Hosts \ {k} : op'[j] # op[k]
      BY <3>1, <3>2 DEF OthersUntouched
    <3> QED BY <3>1, <3>3 DEF FreshInv
  <2>5. WriterInv(k)'
    BY DEF WriterInv, OthersUntouched
  <2>6. SeenInv(k)' /\ ProofInv(k)' /\ ProvenInv(k)'
    BY DEF SeenInv, ProofInv, ProvenInv
  <2>7. PreparedInv(k)'
    BY DEF PreparedInv, Prepared, Complete
  <2>8. FenceInv(k)'
    BY DEF FenceInv, PointerTo
  <2> QED BY <2>3, <2>4, <2>5, <2>6, <2>7, <2>8
<1> QED BY <1>1, <1>2, <1>3

-----------------------------------------------------------------------------
(* The quiet steps, one by one.                                            *)

\* Ending a run (DKIM2Manager.Run returning) is such a step.
LEMMA FinishQuiet ==
  ASSUME CampaignInv, NEW h \in Hosts, NEW how \in Outcomes, Finish(h, how),
         UNCHANGED sharedVars, faults' \in 0..MaxFaults
  PROVE  Quiet(h)
BY FinishLocal DEF CampaignInv, Quiet

\* LoadPending moves one host; its reason must fit what the host knows.
LEMMA LoadPendingQuiet ==
  ASSUME CampaignInv, NEW h \in Hosts, NEW why \in Goals, LoadPending(h, why),
         UNCHANGED sharedVars, faults' \in 0..MaxFaults,
         Candidate(h) \in Generations, source[h] \in Generations,
         why = "resume" => op[h] = NoOp,
         why \in {"staged", "refresh", "commit", "sealed", "final"} =>
           op[h] \in Ops /\ owner[Candidate(h)] = op[h] /\ Complete(Candidate(h)),
         why \in {"refresh", "commit", "sealed", "final"} =>
           /\ op[h] \in RotateOps => op[h] \in published
           /\ command[h] = "resume" => op[h] \in CreateOps,
         why = "sealed" =>
           /\ source[h] <= current.generation /\ fence[h] = PointerTo(source[h])
           /\ fence[h].schema = "v3" => wasActive[source[h]]
           /\ state[Candidate(h)] = "committed"
  PROVE  Quiet(h)
<1> USE DEF CampaignInv
<1>1. OthersUntouched(h)
  BY DEF OthersUntouched, Untouched, LoadPending, localVars, TypeOK
<1>2. LocalTypes'
  BY DEF LocalTypes, LoadPending, localVars, TypeOK, Controls
<1>3. /\ pc'[h] = "pendingHistory" /\ goal'[h] = why /\ command' = command
      /\ UNCHANGED <<localVars, sharedVars>>
  BY DEF LoadPending, TypeOK
<1>4. HostInv(h)
  OBVIOUS
<1>5. HostInv(h)'
  BY <1>3, <1>4 DEF HostInv, SourceInv, EmptyInv, OpInv, FreshInv, WriterInv, SeenInv,
     PreparedInv, Prepared, ProofInv, ProvenInv, FenceInv, Loading, Staging, Committing,
     localVars, sharedVars, ldapVars, Candidate, Complete, PointerTo
<1> QED BY <1>1, <1>2, <1>3, <1>5 DEF Quiet, localVars

\* So is the read-back after a failed or conflicting Stage.
LEMMA RecoverStageQuiet ==
  ASSUME CampaignInv, NEW h \in Hosts, RecoverStage(h), UNCHANGED sharedVars,
         faults' \in 0..MaxFaults, pc[h] \notin {"idle", "loadCurrent", "loadHistory"}
  PROVE  Quiet(h)
<1>1. Candidate(h) \in Generations /\ source[h] \in Generations
  BY DEF CampaignInv, HostInv, SourceInv
<1> QED BY <1>1, LoadPendingQuiet DEF RecoverStage, Goals

\* So is the read-back after a failed switch.
LEMMA RecoverSwitchQuiet ==
  ASSUME CampaignInv, NEW h \in Hosts, RecoverSwitch(h), UNCHANGED sharedVars,
         faults' \in 0..MaxFaults, pc[h] \notin {"idle", "loadCurrent", "loadHistory"}
  PROVE  Quiet(h)
<1>1. Candidate(h) \in Generations /\ source[h] \in Generations
  BY DEF CampaignInv, HostInv, SourceInv
<1> QED BY <1>1, LoadPendingQuiet DEF RecoverSwitch, Goals

\* So is giving up on a candidate that cannot be read.
LEMMA PendingFailureQuiet ==
  ASSUME CampaignInv, NEW h \in Hosts, PendingFailure(h), UNCHANGED sharedVars,
         faults' \in 0..MaxFaults, pc[h] \in {"pendingHistory", "pendingRead"}
  PROVE  Quiet(h)
BY RecoverStageQuiet, RecoverSwitchQuiet, FinishQuiet DEF PendingFailure, Outcomes

\* The read-only planning steps: loading current, the history, finding the
\* pending successor, planning nothing.
LEMMA PlanStepQuiet ==
  ASSUME CampaignInv, NEW h \in Hosts, UNCHANGED faults,
         \/ \E c \in Commands : StartPlanner(h, c)
         \/ \E n \in 2..MaxGeneration : StartResume(h, n)
         \/ LoadCurrent(h) \/ FindPending(h) \/ PlanNothing(h) \/ RejectHistory(h)
  PROVE  Quiet(h)
<1> USE DEF CampaignInv
<1>0. HostInv(h) /\ TypeOK /\ faults' \in 0..MaxFaults BY DEF TypeOK
<1>1. ASSUME NEW c \in Commands, StartPlanner(h, c) PROVE Quiet(h)
  <2>1. OthersUntouched(h)
    BY <1>1 DEF StartPlanner, OthersUntouched, Untouched, TypeOK, localVars
  <2>2. LocalTypes'
    BY <1>1 DEF StartPlanner, LocalTypes, TypeOK, localVars, Controls, Outcomes
  <2>3. /\ pc'[h] = "loadCurrent" /\ UNCHANGED <<sharedVars, localVars>>
        /\ goal'[h] = "resume" /\ op[h] = NoOp
    BY <1>0, <1>1 DEF StartPlanner, TypeOK, sharedVars, HostInv, EmptyInv
  <2>4. HostInv(h)'
    BY <1>0, <2>3 DEF HostInv, SourceInv, EmptyInv, OpInv, FreshInv, WriterInv, SeenInv,
       PreparedInv, Prepared, ProofInv, ProvenInv, FenceInv, Loading, Staging, Committing,
       localVars, sharedVars, ldapVars
  <2> QED BY <2>1, <2>2, <2>3, <2>4 DEF Quiet, localVars
<1>2. ASSUME NEW n \in 2..MaxGeneration, StartResume(h, n) PROVE Quiet(h)
  <2>1. OthersUntouched(h)
    BY <1>2 DEF StartResume, OthersUntouched, Untouched, TypeOK
  <2>2. LocalTypes'
    BY <1>2, ConstantsAssumption DEF StartResume, LocalTypes, TypeOK, Controls,
       Outcomes, Commands
  <2>3. /\ pc'[h] = "pendingHistory" /\ goal'[h] = "resume" /\ command'[h] = "resume"
        /\ source'[h] = n - 1 /\ op'[h] = NoOp /\ op' = op /\ UNCHANGED sharedVars
    BY <1>0, <1>2 DEF StartResume, TypeOK, sharedVars, HostInv, EmptyInv
  <2>4. HostInv(h)'
    BY <1>0, <2>3, ConstantsAssumption DEF HostInv, SourceInv, EmptyInv, OpInv,
       FreshInv, WriterInv, SeenInv, PreparedInv, Prepared, ProofInv, ProvenInv, FenceInv,
       Loading, Staging, Committing, Candidate, Generations
  <2> QED BY <2>1, <2>2, <2>3, <2>4 DEF Quiet
<1>3. CASE LoadCurrent(h)
  <2>1. OthersUntouched(h)
    BY <1>3 DEF LoadCurrent, Goto, OthersUntouched, Untouched, TypeOK
  <2>2. /\ pc'[h] = "loadHistory" /\ goal' = goal /\ command' = command
        /\ source'[h] = current.generation /\ op' = op /\ UNCHANGED sharedVars
    BY <1>3 DEF LoadCurrent, Goto, TypeOK, sharedVars
  <2>3. current.generation \in Generations
    BY DEF TypeOK, Pointers
  <2>4. LocalTypes'
    BY <1>3, <2>3, ConstantsAssumption DEF LoadCurrent, Goto, LocalTypes, TypeOK,
       Controls, Generations
  <2>5. HostInv(h)'
    BY <1>0, <1>3, <2>2, <2>3, ConstantsAssumption DEF LoadCurrent, HostInv,
       SourceInv, EmptyInv, OpInv, FreshInv, WriterInv, SeenInv, PreparedInv,
       Prepared, ProofInv, ProvenInv, FenceInv, Loading, Staging, Committing, sharedVars,
       ldapVars, Generations
  <2> QED BY <2>1, <2>2, <2>4, <2>5 DEF Quiet
<1>4. CASE FindPending(h)
  <2>1. op[h] = NoOp /\ source[h] \in Generations
    BY <1>0, <1>4 DEF FindPending, HostInv, EmptyInv, SourceInv
  <2>2. Candidate(h) \in Generations
    BY <1>4, <2>1, ConstantsAssumption DEF FindPending, PendingSuccessor, Candidate,
       Present, Generations
  <2>3. LoadPending(h, "resume") /\ UNCHANGED sharedVars
    BY <1>4 DEF FindPending
  <2> QED BY <1>0, <2>1, <2>2, <2>3, LoadPendingQuiet DEF Goals
<1>5. CASE PlanNothing(h) \/ RejectHistory(h)
  BY <1>0, <1>5, FinishQuiet DEF PlanNothing, RejectHistory, Outcomes
<1> QED BY <1>1, <1>2, <1>3, <1>4, <1>5

\* Proceed moves only the program counter.
LEMMA ProceedQuiet ==
  ASSUME CampaignInv, NEW h \in Hosts, NEW label \in Controls, Proceed(h, label),
         UNCHANGED sharedVars, faults' \in 0..MaxFaults,
         HostInv(h)', label # "addEntry"
  PROVE  Quiet(h)
<1> USE DEF CampaignInv
<1>1. OthersUntouched(h)
  BY DEF OthersUntouched, Untouched, Proceed, Goto, localVars, TypeOK
<1>2. LocalTypes'
  BY DEF LocalTypes, Proceed, Goto, localVars, TypeOK
<1> QED BY <1>1, <1>2 DEF Quiet, Proceed, Goto, localVars, TypeOK

\* The read-only steps of stageWithReader: current, history, root in the way.
LEMMA StageStepQuiet ==
  ASSUME CampaignInv, NEW h \in Hosts, UNCHANGED faults,
         \/ StageCurrent(h) \/ StageHistory(h) \/ RootExists(h) \/ Readback(h)
  PROVE  Quiet(h)
<1> USE DEF CampaignInv
<1>0. HostInv(h) /\ TypeOK /\ DirectoryInv /\ faults' \in 0..MaxFaults BY DEF TypeOK
<1>1. CASE StageCurrent(h)
  <2>1. CASE RecoverStage(h)
    BY <1>0, <1>1, <2>1, RecoverStageQuiet DEF StageCurrent
  <2>2. CASE Proceed(h, "stageHistory")
    <3>1. /\ pc'[h] = "stageHistory" /\ UNCHANGED <<goal, command, localVars, sharedVars>>
      BY <1>0, <1>1, <2>2 DEF StageCurrent, Proceed, Goto, TypeOK
    <3>2. HostInv(h)'
      BY <1>0, <1>1, <3>1 DEF StageCurrent, HostInv, SourceInv, EmptyInv, OpInv,
         FreshInv, WriterInv, SeenInv, PreparedInv, Prepared, ProofInv, ProvenInv, FenceInv,
         Loading, Staging, Committing, sharedVars, ldapVars, localVars, Candidate
    <3> QED BY <1>0, <1>1, <2>2, <3>2, ProceedQuiet DEF StageCurrent, Controls
  <2> QED BY <1>1, <2>1, <2>2 DEF StageCurrent
<1>2. CASE StageHistory(h)
  <2>1. CASE RecoverStage(h)
    BY <1>0, <1>2, <2>1, RecoverStageQuiet DEF StageHistory
  <2>2. CASE Proceed(h, "addRoot")
    <3>1. /\ pc'[h] = "addRoot" /\ UNCHANGED <<goal, command, localVars, sharedVars>>
      BY <1>0, <1>2, <2>2 DEF StageHistory, Proceed, Goto, TypeOK
    <3>2. HostInv(h)'
      BY <1>0, <1>2, <3>1 DEF StageHistory, HostInv, SourceInv, EmptyInv, OpInv,
         FreshInv, WriterInv, SeenInv, PreparedInv, Prepared, ProofInv, ProvenInv, FenceInv,
         Loading, Staging, Committing, sharedVars, ldapVars, localVars, Candidate
    <3> QED BY <1>0, <1>2, <2>2, <3>2, ProceedQuiet DEF StageHistory, Controls
  <2> QED BY <1>2, <2>1, <2>2 DEF StageHistory
<1>3. CASE RootExists(h)
  BY <1>0, <1>3, RecoverStageQuiet DEF RootExists
<1>4. CASE Readback(h)
  <2>1. CASE RecoverStage(h)
    BY <1>0, <1>4, <2>1, RecoverStageQuiet DEF Readback
  <2>2. CASE LoadPending(h, "staged") /\ content[Candidate(h)] = Entries \X {op[h]}
    <3>1. /\ Candidate(h) \in Generations /\ source[h] \in Generations
          /\ op[h] \in Ops
      BY <1>0, <1>4 DEF Readback, HostInv, SourceInv, OpInv, Staging
    <3>2. owner[Candidate(h)] = op[h]
      <4>1. 1 \in Entries
        BY ConstantsAssumption DEF Entries
      <4>2. <<1, op[h]>> \in Entries \X {owner[Candidate(h)]}
        BY <1>0, <2>2, <3>1, <4>1 DEF DirectoryInv, NoMixedGeneration
      <4> QED BY <4>2
    <3>3. Complete(Candidate(h))
      BY <2>2, <3>2 DEF Complete
    <3> QED BY <1>0, <1>4, <2>2, <3>1, <3>2, <3>3, LoadPendingQuiet DEF Readback, Goals
  <2> QED BY <1>4, <2>1, <2>2 DEF Readback
<1> QED BY <1>1, <1>2, <1>3, <1>4

\* LoadPending returned: the candidate exists, is complete, and is owned.
LEMMA LoadedFacts ==
  ASSUME CampaignInv, NEW h \in Hosts, NEW goals, PendingLoaded(h, goals)
  PROVE  LET c == Candidate(h)
         IN /\ c \in Generations /\ c > 1 /\ source[h] \in Generations
            /\ owner[c] \in Ops /\ owner[c] # NoOp /\ Complete(c)
            /\ state[c] = seen[h] /\ seen[h] \in RootStates
            /\ goal[h] \in goals
<1> USE DEF CampaignInv
<1>1. HostInv(h) /\ TypeOK /\ DirectoryInv OBVIOUS
<1>2. Candidate(h) \in Generations /\ source[h] \in Generations
  BY <1>1 DEF PendingLoaded, HostInv, SourceInv
<1>3. Candidate(h) > 1
  BY <1>2, ConstantsAssumption DEF Candidate, Generations
<1>4. seen[h] \in RootStates /\ state[Candidate(h)] = seen[h]
  BY <1>1 DEF PendingLoaded, PendingReadable, HostInv, SeenInv
<1>5. owner[Candidate(h)] \in Ops
  BY <1>1, <1>2, <1>3, <1>4 DEF DirectoryInv, PresentIsOwned, RootStates, TypeOK
<1> QED BY <1>2, <1>3, <1>4, <1>5, ConstantsAssumption DEF PendingLoaded, PendingReadable

\* What continueAutomaticCampaign does with a loaded candidate.
LEMMA ContinueCampaignQuiet ==
  ASSUME CampaignInv, NEW h \in Hosts, ContinueCampaign(h), faults' \in 0..MaxFaults,
         NEW goals, PendingLoaded(h, goals), command[h] = "auto"
  PROVE  Quiet(h)
<1> USE DEF CampaignInv
<1>0. HostInv(h) /\ TypeOK /\ DirectoryInv /\ UNCHANGED sharedVars
  BY DEF PendingLoaded
<1>1. CASE Finish(h, "error") \/ Finish(h, "activated")
  BY <1>0, <1>1, FinishQuiet DEF Outcomes
<1>2. CASE /\ owner[Candidate(h)] \in RotateOps
           /\ op' = [op EXCEPT ![h] = owner[Candidate(h)]]
           /\ Goto(h, "publish") /\ UNCHANGED <<source, entry, seen, fence>>
  <2>1. OthersUntouched(h)
    BY <1>0, <1>2 DEF Goto, OthersUntouched, Untouched, TypeOK
  <2>2. LocalTypes'
    BY <1>0, <1>2 DEF Goto, LocalTypes, TypeOK, Controls, Ops
  <2>3. /\ Candidate(h) \in Generations /\ source[h] \in Generations
        /\ owner[Candidate(h)] \in usedOps /\ Complete(Candidate(h))
    BY <1>0, LoadedFacts DEF DirectoryInv, PresentIsOwned, RootStates
  <2>4. /\ pc'[h] = "publish" /\ op'[h] = owner[Candidate(h)]
        /\ op'[h] \in RotateOps
        /\ command' = command /\ source' = source
    BY <1>0, <1>2 DEF Goto, TypeOK
  <2>5. HostInv(h)'
    BY <1>0, <2>3, <2>4 DEF HostInv, SourceInv, EmptyInv, OpInv, FreshInv,
       WriterInv, SeenInv, PreparedInv, Prepared, ProofInv, ProvenInv, FenceInv, Loading,
       Staging, Committing, sharedVars, ldapVars, Candidate, Complete, Ops
  <2> QED BY <1>0, <2>1, <2>2, <2>3, <2>4, <2>5 DEF Quiet
<1> QED BY <1>1, <1>2 DEF ContinueCampaign

\* The two reads of LoadPending and what each caller makes of their result.
LEMMA PendingStepQuiet ==
  ASSUME CampaignInv, NEW h \in Hosts, UNCHANGED faults, PendingStep(h)
  PROVE  Quiet(h)
<1> USE DEF CampaignInv
<1>0. HostInv(h) /\ TypeOK /\ DirectoryInv /\ faults' \in 0..MaxFaults BY DEF TypeOK
<1>1. CASE PendingHistory(h)
  <2>1. CASE PendingFailure(h)
    BY <1>0, <1>1, <2>1, PendingFailureQuiet DEF PendingHistory
  <2>2. CASE /\ HistoryReadable
             /\ PendingShape(Present, schema, state, source[h], Candidate(h))
             /\ seen' = [seen EXCEPT ![h] = state[Candidate(h)]]
             /\ Goto(h, "pendingRead") /\ UNCHANGED <<source, op, entry, fence>>
    <3>1. OthersUntouched(h)
      BY <1>0, <2>2 DEF Goto, OthersUntouched, Untouched, TypeOK
    <3>2. Candidate(h) \in Generations /\ state[Candidate(h)] \in RootStates
      BY <1>0, <2>2 DEF PendingShape, Present, TypeOK
    <3>3. LocalTypes'
      BY <1>0, <2>2, <3>2 DEF Goto, LocalTypes, TypeOK, Controls
    <3>4. /\ pc'[h] = "pendingRead" /\ seen'[h] = state[Candidate(h)]
          /\ UNCHANGED <<goal, command, source, op, fence, sharedVars>>
      BY <1>0, <1>1, <2>2 DEF PendingHistory, Goto, TypeOK
    <3>5. HostInv(h)'
      BY <1>0, <1>1, <3>2, <3>4 DEF PendingHistory, HostInv, SourceInv, EmptyInv,
       OpInv, FreshInv, WriterInv, SeenInv, PreparedInv, Prepared, ProofInv, ProvenInv,
       FenceInv, Loading, Staging, Committing, sharedVars,
       ldapVars, Candidate, Complete, PointerTo, RootStates
    <3> QED BY <3>1, <3>3, <3>4, <3>5 DEF Quiet
  <2> QED BY <1>1, <2>1, <2>2 DEF PendingHistory
<1>2. CASE PendingRejected(h)
  BY <1>0, <1>2, PendingFailureQuiet DEF PendingRejected
<1>3. CASE ResumeAutomatic(h)
  BY <1>0, <1>3, ContinueCampaignQuiet DEF ResumeAutomatic
<1>4. CASE ResumeCreate(h)
  <2>1. /\ Candidate(h) \in Generations /\ source[h] \in Generations
        /\ owner[Candidate(h)] \in Ops /\ owner[Candidate(h)] \in usedOps
        /\ Complete(Candidate(h))
    BY <1>0, <1>4, LoadedFacts DEF ResumeCreate, DirectoryInv, PresentIsOwned, RootStates
  <2>2. OthersUntouched(h)
    BY <1>0, <1>4 DEF ResumeCreate, Goto, OthersUntouched, Untouched, TypeOK
  <2>3. LocalTypes'
    BY <1>0, <1>4, <2>1 DEF ResumeCreate, Goto, LocalTypes, TypeOK, Controls
  <2>4. /\ pc'[h] \in {"resumeStored", "resumeActivated"}
        /\ op'[h] = owner[Candidate(h)] /\ command[h] = "resume"
        /\ UNCHANGED <<goal, command, source, fence, sharedVars>>
    BY <1>0, <1>4 DEF ResumeCreate, PendingLoaded, Goto, TypeOK
  <2>5. HostInv(h)'
    BY <1>0, <2>1, <2>4 DEF HostInv, SourceInv, EmptyInv,
       OpInv, FreshInv, WriterInv, SeenInv, PreparedInv, Prepared, ProofInv, ProvenInv,
       FenceInv, Loading, Staging, Committing, sharedVars,
       ldapVars, Candidate, Complete
  <2> QED BY <2>1, <2>2, <2>3, <2>4, <2>5 DEF Quiet
<1>5. CASE StagedAutomatic(h)
  <2>1. CASE Finish(h, "error")
    BY <1>0, <1>5, <2>1, FinishQuiet DEF StagedAutomatic, PendingLoaded, Outcomes
  <2>2. CASE ContinueCampaign(h)
    BY <1>0, <1>5, <2>2, ContinueCampaignQuiet DEF StagedAutomatic
  <2> QED BY <1>5, <2>1, <2>2 DEF StagedAutomatic
<1>6. CASE StagedAdministrative(h)
  <2>1. CASE Finish(h, "error")
    BY <1>0, <1>6, <2>1, FinishQuiet DEF StagedAdministrative, PendingLoaded, Outcomes
  <2>2. CASE Matches(h) /\ LoadPending(h, "commit")
    <3>1. op[h] \in AdminOps /\ command[h] = "admin" /\ owner[Candidate(h)] = op[h]
      BY <1>0, <1>6, <2>2, LoadedFacts
      DEF StagedAdministrative, Matches, HostInv, OpInv
    <3>2. op[h] \notin RotateOps
      BY <3>1, ConstantsAssumption
    <3>3. /\ Candidate(h) \in Generations /\ source[h] \in Generations
          /\ op[h] \in Ops /\ Complete(Candidate(h))
      BY <1>6, <3>1, LoadedFacts DEF StagedAdministrative
    <3> QED BY <1>0, <1>6, <2>2, <3>1, <3>2, <3>3, LoadPendingQuiet
        DEF StagedAdministrative, PendingLoaded, Goals
  <2> QED BY <1>6, <2>1, <2>2 DEF StagedAdministrative
<1>7. CASE ValidateCreateResume(h)
  <2>1. CASE Finish(h, "error")
    BY <1>0, <1>7, <2>1, FinishQuiet DEF ValidateCreateResume, Outcomes
  <2>2. CASE /\ op[h] \in CreateOps
             /\ LoadPending(h, IF pc[h] = "resumeStored"
                               THEN "refresh" ELSE "reconcileSwitch")
    <3>1. op[h] \notin RotateOps
      BY <2>2, ConstantsAssumption DEF AdminOps
    <3>2. /\ Candidate(h) \in Generations /\ source[h] \in Generations
          /\ op[h] \in Ops /\ owner[Candidate(h)] = op[h] /\ Complete(Candidate(h))
      BY <1>0, <1>7 DEF ValidateCreateResume, HostInv, SourceInv, PreparedInv, Prepared
    <3> QED BY <1>0, <1>7, <2>2, <3>1, <3>2, LoadPendingQuiet
        DEF ValidateCreateResume, Goals
  <2> QED BY <1>7, <2>1, <2>2 DEF ValidateCreateResume
<1> QED BY <1>1, <1>2, <1>3, <1>4, <1>5, <1>6, <1>7 DEF PendingStep

\* The DNS proofs before and after the refresh, which publish nothing.
LEMMA ProofStepQuiet ==
  ASSUME CampaignInv, NEW h \in Hosts, UNCHANGED faults, Prove(h) \/ Refreshed(h)
  PROVE  Quiet(h)
<1> USE DEF CampaignInv
<1>0. HostInv(h) /\ TypeOK /\ DirectoryInv /\ faults' \in 0..MaxFaults BY DEF TypeOK
<1>1. CASE Prove(h)
  <2>1. /\ Candidate(h) \in Generations /\ source[h] \in Generations
        /\ op[h] \in Ops /\ owner[Candidate(h)] = op[h] /\ Complete(Candidate(h))
    BY <1>0, <1>1 DEF Prove, HostInv, SourceInv, PreparedInv, Prepared
  <2>2. command[h] # "resume"
    BY <1>0, <1>1 DEF Prove, HostInv, ProofInv
  <2> QED BY <1>0, <1>1, <2>1, <2>2, LoadPendingQuiet DEF Prove, Goals
<1>2. CASE Refreshed(h)
  <2>1. CASE Finish(h, "error")
    BY <1>0, <1>2, <2>1, FinishQuiet DEF Refreshed, PendingLoaded, Outcomes
  <2>2. /\ Candidate(h) \in Generations /\ source[h] \in Generations
        /\ owner[Candidate(h)] \in Ops /\ Complete(Candidate(h))
        /\ op[h] \in RotateOps => op[h] \in published
        /\ command[h] = "resume" => op[h] \in CreateOps
        /\ Loading(h, {"refresh"})
    BY <1>0, <1>2, LoadedFacts
    DEF Refreshed, PendingLoaded, Loading, HostInv, ProvenInv, OpInv
  <2>3. CASE Matches(h) /\ command[h] = "auto" /\ Proceed(h, "finalProof")
    <3>1. /\ pc'[h] = "finalProof"
          /\ UNCHANGED <<goal, command, localVars, sharedVars>>
      BY <1>0, <1>2, <2>3 DEF Refreshed, PendingLoaded, Proceed, Goto, TypeOK
    <3>2. HostInv(h)'
      BY <1>0, <2>2, <2>3, <3>1 DEF HostInv, SourceInv, EmptyInv,
       OpInv, FreshInv, WriterInv, SeenInv, PreparedInv, Prepared, ProofInv, ProvenInv,
       FenceInv, Loading, Staging, Committing, sharedVars,
       ldapVars, localVars, Candidate, Complete, Matches
    <3> QED BY <1>0, <1>2, <2>3, <3>2, ProceedQuiet
        DEF Refreshed, PendingLoaded, Controls
  <2>4. CASE Matches(h) /\ LoadPending(h, "commit")
    BY <1>0, <1>2, <2>2, <2>4, LoadPendingQuiet
    DEF Refreshed, PendingLoaded, Goals, Matches
  <2> QED BY <1>2, <2>1, <2>3, <2>4 DEF Refreshed
<1> QED BY <1>1, <1>2

\* What a resumed create makes of CommitCampaignAndSwitch's result.
LEMMA CommitReturnedQuiet ==
  ASSUME CampaignInv, NEW h \in Hosts, CommitReturned(h), UNCHANGED sharedVars,
         faults' \in 0..MaxFaults, pc[h] = "pendingRead"
  PROVE  Quiet(h)
<1>1. Candidate(h) \in Generations /\ source[h] \in Generations
  BY DEF CampaignInv, HostInv, SourceInv
<1> QED BY <1>1, LoadPendingQuiet, FinishQuiet DEF CommitReturned, Goals, Outcomes

\* The reads of CommitCampaignAndSwitch and its refused writes.
LEMMA CommitStepQuiet ==
  ASSUME CampaignInv, NEW h \in Hosts, UNCHANGED faults,
         \/ CommitLoaded(h) \/ ReadPointer(h) \/ SealSkipped(h) \/ SealRefused(h)
         \/ SealedLoaded(h) \/ SwitchRefused(h) \/ SwitchRead(h)
         \/ FinalLoaded(h) \/ SwitchReconciled(h)
  PROVE  Quiet(h)
<1> USE DEF CampaignInv
<1>0. HostInv(h) /\ TypeOK /\ DirectoryInv /\ faults' \in 0..MaxFaults BY DEF TypeOK
<1>1. CASE CommitLoaded(h)
  <2>1. CASE RecoverSwitch(h) \/ CommitReturned(h)
    BY <1>0, <1>1, <2>1, RecoverSwitchQuiet, CommitReturnedQuiet
    DEF CommitLoaded, PendingLoaded
  <2>2. CASE Matches(h) /\ Proceed(h, "readPointer")
    <3>1. /\ pc'[h] = "readPointer"
          /\ UNCHANGED <<goal, command, localVars, sharedVars>>
      BY <1>0, <1>1, <2>2 DEF CommitLoaded, PendingLoaded, Proceed, Goto, TypeOK
    <3>2. /\ pc[h] = "pendingRead" /\ goal[h] = "commit"
          /\ Complete(Candidate(h)) /\ owner[Candidate(h)] \in Ops
      BY <1>1, LoadedFacts DEF CommitLoaded, PendingLoaded
    <3>3. HostInv(h)'
      BY <1>0, <2>2, <3>1, <3>2 DEF HostInv, SourceInv, EmptyInv,
       OpInv, FreshInv, WriterInv, SeenInv, PreparedInv, Prepared, ProofInv,
       ProvenInv, FenceInv, Loading, Staging, Committing, sharedVars,
       ldapVars, localVars, Candidate, Complete, Matches
    <3> QED BY <1>0, <1>1, <2>2, <3>3, ProceedQuiet
        DEF CommitLoaded, PendingLoaded, Controls
  <2> QED BY <1>1, <2>1, <2>2 DEF CommitLoaded
<1>2. CASE ReadPointer(h)
  <2>1. CASE RecoverSwitch(h)
    BY <1>0, <1>2, <2>1, RecoverSwitchQuiet DEF ReadPointer
  <2>2. CASE /\ StillSource(h) /\ fence' = [fence EXCEPT ![h] = current]
             /\ Goto(h, IF current.schema = "v3" THEN "mark" ELSE "seal")
             /\ UNCHANGED <<source, op, entry, seen>>
    <3>1. OthersUntouched(h)
      BY <1>0, <2>2 DEF Goto, OthersUntouched, Untouched, TypeOK
    <3>2. LocalTypes'
      BY <1>0, <2>2 DEF Goto, LocalTypes, TypeOK, Controls
    <3>3. /\ pc'[h] = IF current.schema = "v3" THEN "mark" ELSE "seal"
          /\ fence'[h] = PointerTo(source[h]) /\ fence'[h] = current
          /\ source[h] <= current.generation
          /\ UNCHANGED <<goal, command, source, op, seen, sharedVars>>
      BY <1>0, <1>2, <2>2
      DEF ReadPointer, Goto, TypeOK, Pointers, Generations, DirectoryInv, StillSource
    <3>4. HostInv(h)'
      BY <1>0, <1>2, <3>3 DEF ReadPointer, HostInv, SourceInv, EmptyInv,
       OpInv, FreshInv, WriterInv, SeenInv, PreparedInv, Prepared, ProofInv,
       ProvenInv, FenceInv, Loading, Staging, Committing, sharedVars,
       ldapVars, Candidate, Complete, PointerTo
    <3> QED BY <1>2, <3>1, <3>2, <3>3, <3>4 DEF Quiet, ReadPointer
  <2> QED BY <1>2, <2>1, <2>2 DEF ReadPointer
<1>3. CASE SealSkipped(h)
  <2>1. pc[h] = "seal" /\ seen[h] = "committed"
    BY <1>3 DEF SealSkipped
  <2>2. /\ Candidate(h) \in Generations /\ source[h] \in Generations
        /\ op[h] \in Ops /\ owner[Candidate(h)] = op[h] /\ Complete(Candidate(h))
        /\ op[h] \in RotateOps => op[h] \in published
        /\ command[h] = "resume" => op[h] \in CreateOps
    BY <1>0, <2>1 DEF HostInv, SourceInv, PreparedInv, Prepared, ProvenInv, OpInv,
       Committing
  <2>3. /\ source[h] <= current.generation /\ fence[h] = PointerTo(source[h])
        /\ fence[h].schema = "v3" => wasActive[source[h]]
        /\ state[Candidate(h)] = "committed"
    BY <1>0, <2>1 DEF HostInv, FenceInv, SeenInv, Committing
  <2> QED BY <1>0, <1>3, <2>2, <2>3, LoadPendingQuiet DEF SealSkipped, Goals
<1>4. CASE SealRefused(h) \/ SwitchRefused(h)
  BY <1>0, <1>4, RecoverSwitchQuiet DEF SealRefused, SwitchRefused
<1>5. CASE SealedLoaded(h)
  <2>1. /\ pc[h] = "pendingRead" /\ goal[h] = "sealed"
        /\ seen[h] \in RootStates /\ state[Candidate(h)] = seen[h]
    BY <1>5, LoadedFacts DEF SealedLoaded, PendingLoaded
  <2>2. /\ pc'[h] = "switch"
        /\ UNCHANGED <<goal, command, localVars, sharedVars>>
    BY <1>0, <1>5 DEF SealedLoaded, PendingLoaded, Proceed, Goto, TypeOK
  <2>3. HostInv(h)'
    BY <1>0, <2>1, <2>2 DEF HostInv, SourceInv, EmptyInv,
       OpInv, FreshInv, WriterInv, SeenInv, PreparedInv, Prepared, ProofInv,
       ProvenInv, FenceInv, Loading, Staging, Committing, sharedVars,
       ldapVars, localVars, Candidate, Complete, PointerTo, RootStates
  <2> QED BY <1>0, <1>5, <2>3, ProceedQuiet DEF SealedLoaded, PendingLoaded, Controls
<1>6. CASE SwitchRead(h)
  <2>1. CASE RecoverSwitch(h)
    BY <1>0, <1>6, <2>1, RecoverSwitchQuiet DEF SwitchRead
  <2>2. CASE LoadPending(h, "final")
    <3>1. /\ Candidate(h) \in Generations /\ source[h] \in Generations
          /\ op[h] \in Ops /\ owner[Candidate(h)] = op[h] /\ Complete(Candidate(h))
          /\ op[h] \in RotateOps => op[h] \in published
          /\ command[h] = "resume" => op[h] \in CreateOps
      BY <1>0, <1>6 DEF SwitchRead, HostInv, SourceInv, PreparedInv, Prepared,
         ProvenInv, OpInv, Committing
    <3> QED BY <1>0, <1>6, <2>2, <3>1, LoadPendingQuiet DEF SwitchRead, Goals
  <2> QED BY <1>6, <2>1, <2>2 DEF SwitchRead
<1>7. CASE FinalLoaded(h)
  BY <1>0, <1>7, RecoverSwitchQuiet, CommitReturnedQuiet DEF FinalLoaded, PendingLoaded
<1>8. CASE SwitchReconciled(h)
  BY <1>0, <1>8, FinishQuiet DEF SwitchReconciled, PendingLoaded, Outcomes
<1> QED BY <1>1, <1>2, <1>3, <1>4, <1>5, <1>6, <1>7, <1>8

\* A crash or a failed call with no effect at the server.
LEMMA FailureQuiet ==
  ASSUME CampaignInv, NEW h \in Hosts, Failure(h) \/ (pc[h] # "idle" /\ Finish(h, "crashed")),
         UNCHANGED sharedVars, faults' \in 0..MaxFaults
  PROVE  Quiet(h)
BY FinishQuiet, RecoverStageQuiet, RecoverSwitchQuiet, PendingFailureQuiet
DEF Failure, Outcomes, Staging, Committing

-----------------------------------------------------------------------------
(* The writes.                                                             *)

\* What a write leaves true of the other hosts, whose own state it never
\* touches: their evidence only gets stronger as the directory grows.
LEMMA WriteStep ==
  ASSUME CampaignInv, NEW h \in Hosts, OthersUntouched(h), Grows,
         SharedTypes', DirectoryInv', LocalTypes', HostInv(h)',
         \A k \in Hosts \ {h} : FreshInv(k)' /\ WriterInv(k)'
  PROVE  CampaignInv'
<1> USE DEF CampaignInv
<1>1. TypeOK'
  BY DEF TypeOK, LocalTypes, SharedTypes
<1>2. ASSUME NEW k \in Hosts \ {h} PROVE HostInv(k)'
  <2>1. Untouched(k) BY DEF OthersUntouched
  <2>2. HostInv(k) /\ FreshInv(k)' /\ WriterInv(k)' OBVIOUS
  <2>3. SourceInv(k)'
    <3>1. SourceInv(k) BY <2>2 DEF HostInv
    <3>2. source'[k] \in 0..MaxGeneration /\ current.generation \in Nat
          /\ current'.generation \in Nat
      BY <1>1 DEF LocalTypes, SharedTypes, TypeOK, Pointers, Generations
    <3> QED BY <2>1, <3>1, <3>2 DEF SourceInv, Untouched, Candidate, Grows
  <2>4. EmptyInv(k)' /\ OpInv(k)' /\ ProofInv(k)' /\ ProvenInv(k)'
    BY <2>1, <2>2 DEF HostInv, EmptyInv, OpInv, ProofInv, ProvenInv, Untouched,
       Loading, Grows
  <2>5. SeenInv(k)'
    <3>1. SeenInv(k) /\ SourceInv(k) BY <2>2 DEF HostInv
    <3> QED BY <2>1, <3>1 DEF SeenInv, SourceInv, Untouched, Candidate, Grows,
            Committing, RootStates
  <2>6. PreparedInv(k)'
    <3> SUFFICES ASSUME Prepared(k) PROVE PreparedInv(k)'
      BY <2>1 DEF PreparedInv, Prepared, Loading, Untouched
    <3>1. /\ op[k] \in Ops /\ owner[Candidate(k)] = op[k] /\ Complete(Candidate(k))
          /\ Candidate(k) \in Generations
      BY <2>2 DEF HostInv, PreparedInv, SourceInv, Prepared, Loading, Committing
    <3>2. state[Candidate(k)] # "absent"
      BY <3>1, ConstantsAssumption DEF DirectoryInv, AbsentIsEmpty
    <3> QED BY <2>1, <3>1, <3>2 DEF PreparedInv, Grows, Untouched, Candidate
  <2>7. FenceInv(k)'
    <3> SUFFICES ASSUME pc[k] \in {"mark", "seal", "switch"} \/ Loading(k, {"sealed"})
                 PROVE  FenceInv(k)'
      BY <2>1 DEF FenceInv, Loading, Untouched
    <3>1. /\ FenceInv(k) /\ source[k] \in Generations /\ Candidate(k) \in Generations
          /\ source[k] <= current.generation /\ fence[k] = PointerTo(source[k])
      BY <2>2 DEF HostInv, FenceInv, SourceInv, Loading
    <3>2. state[source[k]] = "committed"
      BY <3>1 DEF DirectoryInv, PointerOrder
    <3>3. PointerTo(source[k])' = PointerTo(source[k])
      BY <2>1, <3>1, <3>2 DEF PointerTo, Grows, Untouched
    <3>4. source[k] <= current'.generation
      BY <1>1, <3>1 DEF Grows, TypeOK, Pointers, Generations
    <3> QED BY <2>1, <3>1, <3>3, <3>4
        DEF FenceInv, Grows, Untouched, Loading, Candidate
  <2> QED BY <2>2, <2>3, <2>4, <2>5, <2>6, <2>7 DEF HostInv
<1> QED BY <1>1, <1>2

\* A lost reply sends the host to a readback, or ends its run.
LEMMA AfterLostReply ==
  ASSUME CampaignInv, NEW h \in Hosts, faults' \in 0..MaxFaults,
         usedOps' = usedOps, pc[h] \notin {"idle", "loadCurrent", "loadHistory"},
         RecoverStage(h) \/ RecoverSwitch(h) \/ Finish(h, "error")
  PROVE  /\ OthersUntouched(h) /\ LocalTypes' /\ HostInv(h)'
         /\ pc'[h] \in {"idle", "pendingHistory"} /\ op'[h] \in {op[h], NoOp}
<1> USE DEF CampaignInv
<1>1. CASE Finish(h, "error")
  BY <1>1, FinishLocal DEF Outcomes
<1>2. CASE RecoverStage(h) \/ RecoverSwitch(h)
  <2>1. OthersUntouched(h)
    BY <1>2 DEF RecoverStage, RecoverSwitch, OthersUntouched, Untouched,
       LoadPending, localVars, TypeOK
  <2>2. LocalTypes'
    BY <1>2 DEF RecoverStage, RecoverSwitch, LocalTypes, LoadPending, localVars,
       TypeOK, Controls, Goals
  <2>3. /\ pc'[h] = "pendingHistory" /\ goal'[h] \in {"reconcileStage", "reconcileSwitch"}
        /\ command' = command /\ source' = source /\ op' = op
    BY <1>2 DEF RecoverStage, RecoverSwitch, LoadPending, localVars, TypeOK
  <2>4. HostInv(h)'
    BY <2>3 DEF HostInv, SourceInv, EmptyInv,
       OpInv, FreshInv, WriterInv, SeenInv, PreparedInv, Prepared, ProofInv,
       ProvenInv, FenceInv, Loading, Staging, Committing, Candidate
  <2> QED BY <2>1, <2>2, <2>3, <2>4
<1> QED BY <1>1, <1>2

\* Planning draws an identity no other host holds.
LEMMA PlanKeepsInv ==
  ASSUME CampaignInv, NEW h \in Hosts, Plan(h), UNCHANGED faults
  PROVE  CampaignInv'
<1> USE DEF CampaignInv
<1>1. PICK o \in Ops \ usedOps :
        /\ op' = [op EXCEPT ![h] = o] /\ usedOps' = usedOps \cup {o}
        /\ o \in (IF command[h] = "auto" THEN RotateOps ELSE AdminOps)
  BY DEF Plan, Ops
<1>2. OthersUntouched(h)
  BY <1>1 DEF Plan, Goto, OthersUntouched, Untouched, TypeOK
<1>3. /\ pc'[h] = "stageCurrent" /\ op'[h] = o
      /\ UNCHANGED <<goal, command, source, entry, seen, fence, outcome>>
      /\ UNCHANGED <<ldapVars, published>> /\ pc' = [pc EXCEPT ![h] = "stageCurrent"]
  BY <1>1 DEF Plan, Goto, TypeOK
<1>4. LocalTypes'
  BY <1>1, <1>3 DEF LocalTypes, TypeOK, Controls
<1>5. SharedTypes'
  BY <1>1, <1>3 DEF SharedTypes, TypeOK, ldapVars
<1>6. Grows
  BY <1>1, <1>3 DEF Grows, ldapVars, Complete, TypeOK, Pointers, Generations
<1>7. DirectoryInv'
  BY <1>1, <1>3 DEF DirectoryInv, AbsentIsEmpty, PresentIsOwned, PointerOrder,
     CommittedComplete, OwnersDistinct, PointerTo, NoMixedGeneration,
     ActivatedKeysPublished, ActivationEvidence, Complete, ldapVars
<1>8. \A g \in Generations : owner[g] # o
  BY <1>1, ConstantsAssumption DEF DirectoryInv, AbsentIsEmpty, PresentIsOwned, Generations
<1>9. \A k \in Hosts \ {h} : op[k] # o
  BY <1>1, ConstantsAssumption DEF HostInv, OpInv
<1>10. HostInv(h)'
  <2>1. /\ HostInv(h) /\ pc[h] = "loadHistory" /\ Candidate(h) \in Generations
        /\ source[h] \in Generations /\ source[h] <= current.generation
    BY DEF Plan, HostInv, SourceInv
  <2>2. \A k \in Hosts \ {h} : op'[k] # o
    BY <1>2, <1>9 DEF OthersUntouched, Untouched
  <2> QED BY <1>1, <1>3, <1>8, <2>1, <2>2, ConstantsAssumption DEF HostInv, SourceInv, EmptyInv,
       OpInv, FreshInv, WriterInv, SeenInv, PreparedInv, Prepared, ProofInv,
       ProvenInv, FenceInv, Loading, Staging, Committing,
       Candidate, ldapVars
<1>11. ASSUME NEW k \in Hosts \ {h} PROVE FreshInv(k)' /\ WriterInv(k)'
  <2>1. Untouched(k) /\ HostInv(k) BY <1>2 DEF OthersUntouched
  <2>2. FreshInv(k)'
    <3> SUFFICES ASSUME pc[k] \in {"stageCurrent", "stageHistory", "addRoot"}
                 PROVE FreshInv(k)'
      BY <2>1 DEF FreshInv, Untouched
    <3>1. op[k] # o BY <1>9
    <3>2. \A j \in Hosts \ {k} : op'[j] # op[k]
      BY <1>1, <1>2, <2>1, <3>1 DEF HostInv, FreshInv, OthersUntouched, Untouched, TypeOK
    <3> QED BY <1>3, <2>1, <3>2 DEF HostInv, FreshInv, Untouched, ldapVars
  <2>3. WriterInv(k)'
    BY <1>2, <1>3, <2>1 DEF HostInv, WriterInv, OthersUntouched, Untouched,
       Candidate, ldapVars
  <2> QED BY <2>2, <2>3
<1> QED BY <1>2, <1>4, <1>5, <1>6, <1>7, <1>10, <1>11, WriteStep

\* What a host knows when it adds the root: the number is the next one.
LEMMA NextNumber ==
  ASSUME CampaignInv, NEW h \in Hosts, pc[h] \in Staging,
         state[Candidate(h)] = "absent" \/ state[Candidate(h)] = "staging"
  PROVE  /\ source[h] = current.generation
         /\ Candidate(h) \in Generations /\ Candidate(h) > 1
<1> USE DEF CampaignInv
<1>1. /\ Candidate(h) \in Generations /\ source[h] \in Generations
      /\ source[h] <= current.generation /\ current.generation \in Generations
  BY DEF HostInv, SourceInv, Staging, TypeOK, Pointers
<1>2. ~(Candidate(h) <= current.generation)
  BY <1>1 DEF DirectoryInv, PointerOrder
<1> QED BY <1>1, <1>2, ConstantsAssumption DEF Candidate, Generations

\* The exclusive add of the root makes its planner the only writer below it.
LEMMA RootKeepsInv ==
  ASSUME CampaignInv, NEW h \in Hosts, pc[h] = "addRoot", RootAdded(h),
         faults' \in 0..MaxFaults,
         \/ /\ Goto(h, "addEntry") /\ entry' = [entry EXCEPT ![h] = 1]
            /\ UNCHANGED <<source, op, seen, fence>>
         \/ RecoverStage(h)
  PROVE  CampaignInv'
<1> USE DEF CampaignInv
<1> DEFINE c == Candidate(h)
<1>0. /\ TypeOK /\ DirectoryInv /\ HostInv(h)
      /\ source[h] = current.generation /\ c \in Generations /\ c > 1
  BY NextNumber DEF RootAdded, Staging
<1>1. /\ op[h] \in Ops /\ op[h] \in usedOps
      /\ \A g \in Generations : owner[g] # op[h]
      /\ \A k \in Hosts \ {h} : op[k] # op[h]
  BY <1>0, ConstantsAssumption DEF HostInv, OpInv, FreshInv, Staging
<1>2. /\ state[c] = "absent" /\ state' = [state EXCEPT ![c] = "staging"]
      /\ schema' = [schema EXCEPT ![c] = "v3"]
      /\ owner' = [owner EXCEPT ![c] = op[h]]
      /\ UNCHANGED <<current, content, wasActive, published, usedOps>>
      /\ content[c] = {} /\ ~wasActive[c] /\ owner[c] = NoOp
  BY <1>0 DEF RootAdded, DirectoryInv, AbsentIsEmpty
<1>3. \A g \in Generations : ~(Complete(g) /\ g = c) /\ ~(Complete(g)' /\ g = c)
  <2>1. 1 \in Entries BY ConstantsAssumption DEF Entries
  <2>2. \A x : <<1, x>> \in Entries \X {x} BY <2>1
  <2> QED BY <1>2, <2>2 DEF Complete
<1>4. Grows
  BY <1>0, <1>2, <1>3 DEF Grows, Complete, TypeOK, Pointers, Generations
<1>5. SharedTypes'
  BY <1>0, <1>1, <1>2 DEF SharedTypes, TypeOK, RootStates, Identities
<1>6. DirectoryInv'
  <2>1. AbsentIsEmpty' /\ CommittedComplete'
    BY <1>0, <1>2, <1>3 DEF DirectoryInv, AbsentIsEmpty, CommittedComplete, TypeOK, Complete
  <2>2. PresentIsOwned' /\ PointerOrder'
    BY <1>0, <1>1, <1>2 DEF DirectoryInv, PresentIsOwned, PointerOrder, TypeOK,
       Pointers, Generations, Candidate
  <2>3. OwnersDistinct'
    BY <1>0, <1>1, <1>2 DEF DirectoryInv, OwnersDistinct, TypeOK
  <2>4. (current = PointerTo(current.generation))'
    BY <1>0, <1>2 DEF DirectoryInv, PointerTo, TypeOK, Pointers, Generations, Candidate
  <2>5. NoMixedGeneration'
    BY <1>0, <1>2 DEF DirectoryInv, NoMixedGeneration, TypeOK
  <2>6. \A o \in published' : \E g \in Generations : owner'[g] = o
    <3>1. NoOp \notin published BY <1>0, ConstantsAssumption DEF TypeOK
    <3> SUFFICES ASSUME NEW o \in published
                 PROVE \E g \in Generations : owner'[g] = o
      BY <1>2
    <3>2. PICK g \in Generations : owner[g] = o BY <1>0 DEF DirectoryInv
    <3>3. owner'[g] = o BY <1>0, <1>2, <3>1, <3>2 DEF TypeOK
    <3> QED BY <3>3
  <2>7. ActivatedKeysPublished' /\ ActivationEvidence'
    BY <1>0, <1>2 DEF DirectoryInv, ActivatedKeysPublished, ActivationEvidence,
       TypeOK, Pointers, Generations, Candidate
  <2> QED BY <2>1, <2>2, <2>3, <2>4, <2>5, <2>6, <2>7 DEF DirectoryInv
<1>7. ASSUME NEW k \in Hosts \ {h}, Untouched(k), op'[h] \in {op[h], NoOp}, OthersUntouched(h)
      PROVE  FreshInv(k)'
  <2> SUFFICES ASSUME pc[k] \in {"stageCurrent", "stageHistory", "addRoot"}
               PROVE FreshInv(k)'
    BY <1>7 DEF FreshInv, Untouched
  <2>1. /\ op[k] # op[h] /\ op[k] # NoOp /\ \A g \in Generations : owner[g] # op[k]
        /\ \A j \in Hosts \ {k} : op[j] # op[k]
    BY ConstantsAssumption DEF HostInv, FreshInv, OpInv, Staging
  <2>2. \A j \in Hosts \ {k} : op'[j] # op[k]
    BY <1>7, <2>1 DEF OthersUntouched, Untouched
  <2>3. \A g \in Generations : owner'[g] # op[k]
    BY <1>0, <1>2, <2>1 DEF TypeOK
  <2> QED BY <1>7, <2>2, <2>3 DEF FreshInv, Untouched
\* A host writing below another root is not disturbed, nor one that would
\* write below this one: there was no root.
<1>8. ASSUME NEW k \in Hosts \ {h}, Untouched(k), OthersUntouched(h),
             source'[h] = source[h] \/ pc'[h] # "addEntry"
      PROVE  WriterInv(k)'
  <2> SUFFICES ASSUME pc[k] = "addEntry" PROVE WriterInv(k)'
    BY <1>8 DEF WriterInv, Untouched
  <2>1. /\ WriterInv(k) /\ Candidate(k) \in Generations /\ source[k] \in Nat
    BY DEF HostInv, SourceInv, Generations
  <2>2. Candidate(k) # c /\ source[k] # source[h]
    BY <1>2, <2>1 DEF WriterInv, Candidate
  <2>3. \A j \in Hosts \ {k} : pc'[j] = "addEntry" => source'[j] # source[k]
    BY <1>8, <2>1, <2>2 DEF WriterInv, OthersUntouched, Untouched
  <2> QED BY <1>0, <1>2, <1>8, <2>1, <2>2, <2>3 DEF WriterInv, Untouched, Candidate, TypeOK
<1>9. CASE /\ Goto(h, "addEntry") /\ entry' = [entry EXCEPT ![h] = 1]
           /\ UNCHANGED <<source, op, seen, fence>>
  <2>1. OthersUntouched(h)
    BY <1>0, <1>9 DEF Goto, OthersUntouched, Untouched, TypeOK
  <2>2. LocalTypes'
    BY <1>0, <1>9, ConstantsAssumption DEF Goto, LocalTypes, TypeOK, Controls, Entries
  <2>3. /\ pc'[h] = "addEntry" /\ entry'[h] = 1
        /\ UNCHANGED <<goal, command, source, op, seen, fence>>
    BY <1>0, <1>9 DEF Goto, TypeOK
  <2>4. WriterInv(h)'
    <3>1. \A k \in Hosts \ {h} : pc'[k] = "addEntry" => source'[k] # source'[h]
      BY <1>2, <2>1, <2>3 DEF HostInv, WriterInv, OthersUntouched, Untouched, Candidate
    <3>2. content'[c] = (1..(entry'[h] - 1)) \X {op[h]}
      BY <1>2, <2>3
    <3>3. state'[c] = "staging" /\ owner'[c] = op[h]
      BY <1>0, <1>2 DEF TypeOK
    <3> QED BY <2>3, <3>1, <3>2, <3>3 DEF WriterInv, Candidate
  <2>5. HostInv(h)'
    BY <1>0, <1>1, <1>2, <2>3, <2>4 DEF HostInv, SourceInv, EmptyInv,
       OpInv, FreshInv, WriterInv, SeenInv, PreparedInv, Prepared, ProofInv,
       ProvenInv, FenceInv, Loading, Staging, Committing, Candidate
  <2>6. \A k \in Hosts \ {h} : FreshInv(k)' /\ WriterInv(k)'
    BY <1>7, <1>8, <2>1, <2>3 DEF OthersUntouched
  <2> QED BY <1>4, <1>5, <1>6, <2>1, <2>2, <2>5, <2>6, WriteStep
<1>10. CASE RecoverStage(h)
  <2>1. /\ OthersUntouched(h) /\ LocalTypes' /\ HostInv(h)'
        /\ pc'[h] # "addEntry" /\ op'[h] \in {op[h], NoOp}
    BY <1>2, <1>10, AfterLostReply
  <2>2. \A k \in Hosts \ {h} : FreshInv(k)' /\ WriterInv(k)'
    BY <1>7, <1>8, <2>1 DEF OthersUntouched
  <2> QED BY <1>4, <1>5, <1>6, <2>1, <2>2, WriteStep
<1> QED BY <1>9, <1>10

\* Owners and identities stay as they are, so drawn identities stay fresh.
LEMMA FreshKept ==
  ASSUME CampaignInv, NEW h \in Hosts, OthersUntouched(h), owner' = owner,
         op'[h] \in {op[h], NoOp}, NEW k \in Hosts \ {h}
  PROVE  FreshInv(k)'
<1> SUFFICES ASSUME pc[k] \in {"stageCurrent", "stageHistory", "addRoot"}
             PROVE FreshInv(k)'
  BY DEF FreshInv, OthersUntouched, Untouched
<1>1. /\ op[k] # NoOp /\ \A g \in Generations : owner[g] # op[k]
      /\ \A j \in Hosts \ {k} : op[j] # op[k]
  BY ConstantsAssumption DEF CampaignInv, HostInv, FreshInv, OpInv, Staging
<1>2. \A j \in Hosts \ {k} : op'[j] # op[k]
  BY <1>1 DEF OthersUntouched, Untouched
<1> QED BY <1>1, <1>2 DEF FreshInv, OthersUntouched, Untouched

\* Adding one entry below the own root; with the last one it is complete.
LEMMA EntryKeepsInv ==
  ASSUME CampaignInv, NEW h \in Hosts, pc[h] = "addEntry", EntryAdded(h),
         faults' \in 0..MaxFaults,
         \/ /\ IF entry[h] < EntryCount
               THEN entry' = [entry EXCEPT ![h] = @ + 1] /\ Goto(h, "addEntry")
               ELSE UNCHANGED entry /\ Goto(h, "readback")
            /\ UNCHANGED <<source, op, seen, fence>>
         \/ RecoverStage(h)
  PROVE  CampaignInv'
<1> USE DEF CampaignInv
<1> DEFINE c == Candidate(h)
<1>0. /\ TypeOK /\ DirectoryInv /\ HostInv(h) /\ WriterInv(h)
      /\ c \in Generations /\ op[h] \in Ops /\ entry[h] \in Entries
  BY DEF HostInv, SourceInv, OpInv, Staging, TypeOK
<1>1. /\ state[c] = "staging" /\ owner[c] = op[h]
      /\ content[c] = (1..(entry[h] - 1)) \X {op[h]}
      /\ content' = [content EXCEPT ![c] = @ \cup {<<entry[h], op[h]>>}]
      /\ UNCHANGED <<current, state, schema, owner, wasActive, published, usedOps>>
  BY <1>0 DEF WriterInv, EntryAdded
<1>2. content'[c] = (1..entry[h]) \X {op[h]}
  <2>1. content'[c] = content[c] \cup {<<entry[h], op[h]>>}
    BY <1>0, <1>1 DEF TypeOK
  <2>2. 1..entry[h] = (1..(entry[h] - 1)) \cup {entry[h]}
    BY <1>0, ConstantsAssumption DEF Entries
  <2> QED BY <1>1, <2>1, <2>2
<1>3. ~Complete(c)
  <2>1. EntryCount \in Entries /\ EntryCount \notin 1..(entry[h] - 1)
    BY <1>0, ConstantsAssumption DEF Entries
  <2>2. <<EntryCount, op[h]>> \in Entries \X {op[h]}
    BY <2>1
  <2>3. <<EntryCount, op[h]>> \notin content[c]
    BY <1>1, <2>1
  <2> QED BY <1>1, <2>2, <2>3 DEF Complete
<1>4. \A g \in Generations : g # c => content'[g] = content[g]
  BY <1>0, <1>1 DEF TypeOK
<1>5. Grows
  BY <1>0, <1>1, <1>3, <1>4 DEF Grows, Complete, TypeOK, Pointers, Generations
<1>6. SharedTypes'
  <2>1. content'[c] \subseteq Entries \X Identities
    BY <1>0, <1>1 DEF TypeOK, Identities
  <2> QED BY <1>0, <1>1, <2>1 DEF SharedTypes, TypeOK
<1>7. DirectoryInv'
  <2>1. content'[c] \subseteq Entries \X {owner[c]}
    <3>1. 1..entry[h] \subseteq Entries
      BY <1>0, ConstantsAssumption DEF Entries
    <3> QED BY <1>1, <1>2, <3>1
  <2>2. NoMixedGeneration'
    BY <1>0, <1>1, <1>4, <2>1 DEF DirectoryInv, NoMixedGeneration
  <2>3. AbsentIsEmpty' /\ CommittedComplete'
    BY <1>0, <1>1, <1>4 DEF DirectoryInv, AbsentIsEmpty, CommittedComplete, Complete
  <2> QED BY <1>0, <1>1, <2>2, <2>3 DEF DirectoryInv, PresentIsOwned, PointerOrder,
      OwnersDistinct, PointerTo, ActivatedKeysPublished, ActivationEvidence
<1>8. ASSUME NEW k \in Hosts \ {h}, OthersUntouched(h),
             pc'[h] = "addEntry" => source'[h] = source[h]
      PROVE  WriterInv(k)'
  <2>1. Untouched(k) BY <1>8 DEF OthersUntouched
  <2> SUFFICES ASSUME pc[k] = "addEntry" PROVE WriterInv(k)'
    BY <2>1 DEF WriterInv, Untouched
  <2>2. /\ WriterInv(k) /\ Candidate(k) \in Generations
        /\ source[k] \in Nat /\ source[h] \in Nat
    BY <1>0 DEF HostInv, SourceInv, Generations
  <2>3. source[k] # source[h] /\ Candidate(k) # c
    BY <1>0, <2>2 DEF WriterInv, Candidate
  <2>4. \A j \in Hosts \ {k} : pc'[j] = "addEntry" => source'[j] # source[k]
    BY <1>8, <2>2, <2>3 DEF WriterInv, OthersUntouched, Untouched
  <2> QED BY <1>1, <1>4, <2>1, <2>2, <2>3, <2>4 DEF WriterInv, Untouched, Candidate
<1>9. CASE /\ IF entry[h] < EntryCount
              THEN entry' = [entry EXCEPT ![h] = @ + 1] /\ Goto(h, "addEntry")
              ELSE UNCHANGED entry /\ Goto(h, "readback")
           /\ UNCHANGED <<source, op, seen, fence>>
  <2>1. OthersUntouched(h)
    BY <1>0, <1>9 DEF Goto, OthersUntouched, Untouched, TypeOK
  <2>2. LocalTypes'
    BY <1>0, <1>9, ConstantsAssumption DEF Goto, LocalTypes, TypeOK, Controls, Entries
  <2>3. /\ UNCHANGED <<goal, command, source, op, seen, fence>>
        /\ \/ pc'[h] = "addEntry" /\ entry'[h] = entry[h] + 1
           \/ pc'[h] = "readback"
    BY <1>0, <1>9 DEF Goto, TypeOK
  <2>4. WriterInv(h)'
    <3> SUFFICES ASSUME pc'[h] = "addEntry" PROVE WriterInv(h)'
      BY DEF WriterInv
    <3>1. \A k \in Hosts \ {h} : pc'[k] = "addEntry" => source'[k] # source'[h]
      BY <1>0, <2>1, <2>3 DEF WriterInv, OthersUntouched, Untouched
    <3>2. entry'[h] - 1 = entry[h]
      BY <1>0, <2>3 DEF Entries
    <3> QED BY <1>0, <1>1, <1>2, <2>3, <3>1, <3>2 DEF WriterInv, Candidate
  <2>5. HostInv(h)'
    BY <1>0, <1>1, <2>3, <2>4 DEF HostInv, SourceInv, EmptyInv,
       OpInv, FreshInv, WriterInv, SeenInv, PreparedInv, Prepared, ProofInv,
       ProvenInv, FenceInv, Loading, Staging, Committing, Candidate
  <2>6. \A k \in Hosts \ {h} : FreshInv(k)' /\ WriterInv(k)'
    BY <1>1, <1>8, <2>1, <2>3, FreshKept
  <2> QED BY <1>5, <1>6, <1>7, <2>1, <2>2, <2>5, <2>6, WriteStep
<1>10. CASE RecoverStage(h)
  <2>1. /\ OthersUntouched(h) /\ LocalTypes' /\ HostInv(h)'
        /\ pc'[h] # "addEntry" /\ op'[h] \in {op[h], NoOp}
    BY <1>1, <1>10, AfterLostReply
  <2>2. \A k \in Hosts \ {h} : FreshInv(k)' /\ WriterInv(k)'
    BY <1>1, <1>8, <2>1, FreshKept
  <2> QED BY <1>5, <1>6, <1>7, <2>1, <2>2, WriteStep
<1> QED BY <1>9, <1>10

\* A step of a host that adds nothing to the directory but a DNS record, a
\* marker or a pointer leaves the writers of other roots alone.
LEMMA WriterKept ==
  ASSUME CampaignInv, NEW h \in Hosts, OthersUntouched(h), pc'[h] # "addEntry",
         UNCHANGED <<owner, content>>, NEW k \in Hosts \ {h},
         state'[Candidate(k)] = state[Candidate(k)]
  PROVE  WriterInv(k)'
BY DEF CampaignInv, HostInv, WriterInv, OthersUntouched, Untouched, Candidate

\* Publishing the TXT records of a stored candidate.
LEMMA PublishKeepsInv ==
  ASSUME CampaignInv, NEW h \in Hosts, pc[h] = "publish", RecordsPublished(h),
         faults' \in 0..MaxFaults, Proceed(h, "prove") \/ Finish(h, "error")
  PROVE  CampaignInv'
<1> USE DEF CampaignInv
<1>0. /\ TypeOK /\ DirectoryInv /\ HostInv(h) /\ op[h] \in Ops
      /\ Candidate(h) \in Generations /\ owner[Candidate(h)] = op[h]
  BY DEF HostInv, SourceInv, PreparedInv, Prepared
<1>1. published' = published \cup {op[h]} /\ UNCHANGED <<ldapVars, usedOps>>
  BY DEF RecordsPublished
<1>2. Grows
  BY <1>0, <1>1 DEF Grows, Complete, ldapVars, TypeOK, Pointers, Generations
<1>3. SharedTypes'
  BY <1>0, <1>1 DEF SharedTypes, TypeOK, ldapVars
<1>4. DirectoryInv'
  BY <1>0, <1>1 DEF DirectoryInv, AbsentIsEmpty, PresentIsOwned, PointerOrder,
     CommittedComplete, OwnersDistinct, PointerTo, NoMixedGeneration,
     ActivatedKeysPublished, ActivationEvidence, Complete, ldapVars
<1>5. CASE Proceed(h, "prove")
  <2>1. OthersUntouched(h)
    BY <1>0, <1>5 DEF Proceed, Goto, localVars, OthersUntouched, Untouched, TypeOK
  <2>2. LocalTypes'
    BY <1>0, <1>5 DEF Proceed, Goto, localVars, LocalTypes, TypeOK, Controls
  <2>3. /\ pc'[h] = "prove" /\ UNCHANGED <<goal, command, localVars>>
    BY <1>0, <1>5 DEF Proceed, Goto, TypeOK
  <2>4. HostInv(h)'
    BY <1>0, <1>1, <2>3 DEF HostInv, SourceInv, EmptyInv,
       OpInv, FreshInv, WriterInv, SeenInv, PreparedInv, Prepared, ProofInv,
       ProvenInv, FenceInv, Loading, Staging, Committing, Candidate, localVars, ldapVars, Complete
  <2>5. \A k \in Hosts \ {h} : FreshInv(k)' /\ WriterInv(k)'
    BY <1>1, <2>1, <2>3, FreshKept, WriterKept DEF ldapVars, localVars
  <2> QED BY <1>2, <1>3, <1>4, <2>1, <2>2, <2>4, <2>5, WriteStep
<1>6. CASE Finish(h, "error")
  <2>1. /\ OthersUntouched(h) /\ LocalTypes' /\ HostInv(h)'
        /\ pc'[h] # "addEntry" /\ op'[h] \in {op[h], NoOp}
    BY <1>1, <1>6, AfterLostReply
  <2>2. \A k \in Hosts \ {h} : FreshInv(k)' /\ WriterInv(k)'
    BY <1>1, <2>1, FreshKept, WriterKept DEF ldapVars
  <2> QED BY <1>2, <1>3, <1>4, <2>1, <2>2, WriteStep
<1> QED BY <1>5, <1>6

\* Marking the source, which may no longer be current when the mark lands.
LEMMA MarkKeepsInv ==
  ASSUME CampaignInv, NEW h \in Hosts, pc[h] = "mark", SourceMarked(h),
         faults' \in 0..MaxFaults, Proceed(h, "seal") \/ RecoverSwitch(h)
  PROVE  CampaignInv'
<1> USE DEF CampaignInv
<1>0. /\ TypeOK /\ DirectoryInv /\ HostInv(h)
      /\ source[h] \in Generations /\ source[h] <= current.generation
  BY DEF HostInv, SourceInv, FenceInv
<1>1. /\ wasActive' = [wasActive EXCEPT ![source[h]] = TRUE]
      /\ state[source[h]] = "committed"
      /\ UNCHANGED <<current, state, schema, owner, content, published, usedOps>>
  BY DEF SourceMarked
<1>2. \A g \in Generations : wasActive'[g] <=> wasActive[g] \/ g = source[h]
  BY <1>0, <1>1 DEF TypeOK
<1>3. Grows
  BY <1>0, <1>1, <1>2 DEF Grows, Complete, TypeOK, Pointers, Generations
<1>4. SharedTypes'
  BY <1>0, <1>1 DEF SharedTypes, TypeOK
<1>5. DirectoryInv'
  <2>1. AbsentIsEmpty' /\ ActivationEvidence'
    BY <1>0, <1>1, <1>2 DEF DirectoryInv, AbsentIsEmpty, ActivationEvidence
  <2> QED BY <1>0, <1>1, <2>1 DEF DirectoryInv, PresentIsOwned, PointerOrder,
      CommittedComplete, OwnersDistinct, PointerTo, NoMixedGeneration,
      ActivatedKeysPublished, Complete
<1>6. CASE Proceed(h, "seal")
  <2>1. OthersUntouched(h)
    BY <1>0, <1>6 DEF Proceed, Goto, localVars, OthersUntouched, Untouched, TypeOK
  <2>2. LocalTypes'
    BY <1>0, <1>6 DEF Proceed, Goto, localVars, LocalTypes, TypeOK, Controls
  <2>3. /\ pc'[h] = "seal" /\ UNCHANGED <<goal, command, localVars>>
    BY <1>0, <1>6 DEF Proceed, Goto, TypeOK
  <2>4. HostInv(h)'
    BY <1>0, <1>1, <1>2, <2>3 DEF HostInv, SourceInv, EmptyInv,
       OpInv, FreshInv, WriterInv, SeenInv, PreparedInv, Prepared, ProofInv,
       ProvenInv, FenceInv, Loading, Staging, Committing, Candidate, localVars, Complete, PointerTo
  <2>5. \A k \in Hosts \ {h} : FreshInv(k)' /\ WriterInv(k)'
    BY <1>1, <2>1, <2>3, FreshKept, WriterKept DEF localVars
  <2> QED BY <1>3, <1>4, <1>5, <2>1, <2>2, <2>4, <2>5, WriteStep
<1>7. CASE RecoverSwitch(h)
  <2>1. /\ OthersUntouched(h) /\ LocalTypes' /\ HostInv(h)'
        /\ pc'[h] # "addEntry" /\ op'[h] \in {op[h], NoOp}
    BY <1>1, <1>7, AfterLostReply
  <2>2. \A k \in Hosts \ {h} : FreshInv(k)' /\ WriterInv(k)'
    BY <1>1, <2>1, FreshKept, WriterKept
  <2> QED BY <1>3, <1>4, <1>5, <2>1, <2>2, WriteStep
<1> QED BY <1>6, <1>7

\* Sealing needs a complete root, and nobody is writing below one.
LEMMA SealKeepsInv ==
  ASSUME CampaignInv, NEW h \in Hosts, pc[h] = "seal", CandidateSealed(h),
         faults' \in 0..MaxFaults, LoadPending(h, "sealed") \/ RecoverSwitch(h)
  PROVE  CampaignInv'
<1> USE DEF CampaignInv
<1> DEFINE c == Candidate(h)
<1>0. /\ TypeOK /\ DirectoryInv /\ HostInv(h)
      /\ c \in Generations /\ owner[c] = op[h] /\ Complete(c)
      /\ state[c] = "staging" /\ state' = [state EXCEPT ![c] = "committed"]
      /\ UNCHANGED <<current, schema, owner, content, wasActive, published, usedOps>>
  BY DEF HostInv, SourceInv, PreparedInv, Prepared, Committing, CandidateSealed,
     SealAsserted, Matches
<1>1. state'[c] = "committed" /\ \A g \in Generations : g # c => state'[g] = state[g]
  BY <1>0 DEF TypeOK
<1>2. Grows
  BY <1>0, <1>1 DEF Grows, Complete, TypeOK, Pointers, Generations
<1>3. SharedTypes'
  BY <1>0 DEF SharedTypes, TypeOK, RootStates
<1>4. DirectoryInv'
  <2>1. AbsentIsEmpty' /\ PresentIsOwned' /\ PointerOrder' /\ CommittedComplete'
    BY <1>0, <1>1, ConstantsAssumption DEF DirectoryInv, AbsentIsEmpty,
       PresentIsOwned, PointerOrder, CommittedComplete, Complete, Generations
  <2> QED BY <1>0, <2>1 DEF DirectoryInv, OwnersDistinct, PointerTo,
      NoMixedGeneration, ActivatedKeysPublished, ActivationEvidence
<1>5. ASSUME NEW k \in Hosts \ {h}, OthersUntouched(h), pc'[h] # "addEntry"
      PROVE  WriterInv(k)'
  <2>1. CASE pc[k] # "addEntry"
    BY <1>5, <2>1 DEF WriterInv, OthersUntouched, Untouched
  <2>2. CASE pc[k] = "addEntry"
    <3>1. /\ Candidate(k) \in Generations /\ entry[k] \in Entries
          /\ owner[Candidate(k)] = op[k]
          /\ content[Candidate(k)] = (1..(entry[k] - 1)) \X {op[k]}
      BY <2>2 DEF HostInv, SourceInv, WriterInv, TypeOK
    <3>2. EntryCount \in Entries /\ EntryCount \notin 1..(entry[k] - 1)
      BY <3>1, ConstantsAssumption DEF Entries
    <3>3. ~Complete(Candidate(k))
      <4>1. <<EntryCount, op[k]>> \in Entries \X {op[k]} BY <3>2
      <4>2. <<EntryCount, op[k]>> \notin content[Candidate(k)] BY <3>1, <3>2
      <4> QED BY <3>1, <4>1, <4>2 DEF Complete
    <3>4. Candidate(k) # c BY <1>0, <3>3
    <3> QED BY <1>0, <1>1, <1>5, <3>1, <3>4, WriterKept
  <2> QED BY <2>1, <2>2
<1>6. CASE LoadPending(h, "sealed")
  <2>1. OthersUntouched(h)
    BY <1>0, <1>6 DEF LoadPending, localVars, OthersUntouched, Untouched, TypeOK
  <2>2. LocalTypes'
    BY <1>0, <1>6 DEF LoadPending, localVars, LocalTypes, TypeOK, Controls, Goals
  <2>3. /\ pc'[h] = "pendingHistory" /\ goal'[h] = "sealed" /\ UNCHANGED <<command, localVars>>
    BY <1>0, <1>6 DEF LoadPending, TypeOK
  <2>4. HostInv(h)'
    BY <1>0, <1>1, <2>3 DEF HostInv, SourceInv, EmptyInv,
       OpInv, FreshInv, WriterInv, SeenInv, PreparedInv, Prepared, ProofInv,
       ProvenInv, FenceInv, Loading, Staging, Committing, Candidate, localVars, Complete, PointerTo
  <2>5. \A k \in Hosts \ {h} : FreshInv(k)' /\ WriterInv(k)'
    BY <1>0, <1>5, <2>1, <2>3, FreshKept DEF localVars
  <2> QED BY <1>2, <1>3, <1>4, <2>1, <2>2, <2>4, <2>5, WriteStep
<1>7. CASE RecoverSwitch(h)
  <2>1. /\ OthersUntouched(h) /\ LocalTypes' /\ HostInv(h)'
        /\ pc'[h] # "addEntry" /\ op'[h] \in {op[h], NoOp}
    BY <1>0, <1>7, AfterLostReply
  <2>2. \A k \in Hosts \ {h} : FreshInv(k)' /\ WriterInv(k)'
    BY <1>0, <1>5, <2>1, FreshKept
  <2> QED BY <1>2, <1>3, <1>4, <2>1, <2>2, WriteStep
<1> QED BY <1>6, <1>7

\* The asserted pointer value is still current, so the candidate is the next
\* number, its root is sealed, and the root left behind is marked.
LEMMA SwitchFacts ==
  ASSUME CampaignInv, NEW h \in Hosts, pc[h] = "switch", PointerSwitched(h)
  PROVE  /\ source[h] = current.generation
         /\ Candidate(h) = current.generation + 1
         /\ Candidate(h) \in Generations /\ Candidate(h) > 1
         /\ state[Candidate(h)] = "committed" /\ schema[Candidate(h)] = "v3"
         /\ op[h] \in Ops /\ owner[Candidate(h)] = op[h]
         /\ op[h] \in RotateOps => op[h] \in published
         /\ schema[source[h]] = "v3" => wasActive[source[h]]
<1> USE DEF CampaignInv
<1>1. /\ HostInv(h) /\ DirectoryInv /\ current \in Pointers
      /\ current = fence[h] /\ fence[h] = PointerTo(source[h])
      /\ source[h] \in Generations /\ Candidate(h) \in Generations
  BY DEF HostInv, SourceInv, FenceInv, PointerSwitched, TypeOK
<1>2. source[h] = current.generation /\ current.schema = schema[source[h]]
  BY <1>1 DEF PointerTo
<1>3. Candidate(h) = current.generation + 1 /\ Candidate(h) > 1
  BY <1>1, <1>2, ConstantsAssumption DEF Candidate, Generations
<1> QED BY <1>1, <1>2, <1>3 DEF HostInv, FenceInv, PreparedInv, Prepared, ProvenInv,
    Committing, DirectoryInv, PresentIsOwned

\* The asserted switch of cn=current.
LEMMA SwitchKeepsInv ==
  ASSUME CampaignInv, NEW h \in Hosts, pc[h] = "switch", PointerSwitched(h),
         faults' \in 0..MaxFaults, Proceed(h, "switchRead") \/ RecoverSwitch(h)
  PROVE  CampaignInv'
<1> USE DEF CampaignInv
<1> DEFINE c == Candidate(h)
<1>0. /\ TypeOK /\ DirectoryInv /\ HostInv(h)
      /\ source[h] = current.generation /\ c = current.generation + 1
      /\ c \in Generations /\ state[c] = "committed" /\ schema[c] = "v3"
      /\ op[h] \in Ops /\ owner[c] = op[h]
      /\ op[h] \in RotateOps => op[h] \in published
      /\ schema[source[h]] = "v3" => wasActive[source[h]]
  BY SwitchFacts
<1>1. /\ current' = [generation |-> c, schema |-> "v3", digest |-> op[h]]
      /\ UNCHANGED <<state, schema, owner, content, wasActive, published, usedOps>>
  BY DEF PointerSwitched, NewPointer
<1>2. current'.generation = c /\ current' = PointerTo(c)
  BY <1>0, <1>1 DEF PointerTo
<1>3. current.generation \in Nat
  BY <1>0 DEF TypeOK, Pointers, Generations
<1>4. Grows
  BY <1>0, <1>1, <1>2, <1>3 DEF Grows, Complete
<1>5. SharedTypes'
  BY <1>0, <1>1 DEF SharedTypes, TypeOK, Pointers, Identities
<1>6. DirectoryInv'
  <2>1. PointerOrder'
    BY <1>0, <1>1, <1>2, <1>3 DEF DirectoryInv, PointerOrder, Generations
  <2>2. ActivatedKeysPublished'
    <3> SUFFICES ASSUME NEW g \in 1..c, owner[g] \in RotateOps PROVE owner[g] \in published
      BY <1>1, <1>2 DEF ActivatedKeysPublished
    <3>1. CASE g = c BY <1>0, <3>1
    <3>2. CASE g \in 1..current.generation
      BY <1>0, <3>2 DEF DirectoryInv, ActivatedKeysPublished
    <3> QED BY <1>0, <1>3, <3>1, <3>2
  <2>3. ActivationEvidence'
    BY <1>0, <1>1, <1>2, <1>3 DEF DirectoryInv, ActivationEvidence, Generations
  <2>4. (current = PointerTo(current.generation))'
    BY <1>1, <1>2 DEF PointerTo
  <2> QED BY <1>0, <1>1, <2>1, <2>2, <2>3, <2>4 DEF DirectoryInv, AbsentIsEmpty,
      PresentIsOwned, CommittedComplete, OwnersDistinct, NoMixedGeneration, Complete
<1>7. CASE Proceed(h, "switchRead")
  <2>1. OthersUntouched(h)
    BY <1>0, <1>7 DEF Proceed, Goto, localVars, OthersUntouched, Untouched, TypeOK
  <2>2. LocalTypes'
    BY <1>0, <1>7 DEF Proceed, Goto, localVars, LocalTypes, TypeOK, Controls
  <2>3. /\ pc'[h] = "switchRead" /\ UNCHANGED <<goal, command, localVars>>
    BY <1>0, <1>7 DEF Proceed, Goto, TypeOK
  <2>4. HostInv(h)'
    BY <1>0, <1>1, <2>3 DEF HostInv, SourceInv, EmptyInv,
       OpInv, FreshInv, WriterInv, SeenInv, PreparedInv, Prepared, ProofInv,
       ProvenInv, FenceInv, Loading, Staging, Committing, Candidate, localVars, Complete
  <2>5. \A k \in Hosts \ {h} : FreshInv(k)' /\ WriterInv(k)'
    BY <1>1, <2>1, <2>3, FreshKept, WriterKept DEF localVars
  <2> QED BY <1>4, <1>5, <1>6, <2>1, <2>2, <2>4, <2>5, WriteStep
<1>8. CASE RecoverSwitch(h)
  <2>1. /\ OthersUntouched(h) /\ LocalTypes' /\ HostInv(h)'
        /\ pc'[h] # "addEntry" /\ op'[h] \in {op[h], NoOp}
    BY <1>1, <1>8, AfterLostReply
  <2>2. \A k \in Hosts \ {h} : FreshInv(k)' /\ WriterInv(k)'
    BY <1>1, <2>1, FreshKept, WriterKept
  <2> QED BY <1>4, <1>5, <1>6, <2>1, <2>2, WriteStep
<1> QED BY <1>7, <1>8

-----------------------------------------------------------------------------
(* The invariant.                                                          *)

\* The deployed v2 bootstrap satisfies the invariant.
LEMMA InitInv == Init => CampaignInv
<1> SUFFICES ASSUME Init PROVE CampaignInv
  OBVIOUS
<1> USE ConstantsAssumption DEF Init
<1>1. 1 \in Generations /\ 1 \in Entries
  BY DEF Generations, Entries
<1>2. TypeOK
  BY <1>1 DEF TypeOK, InitialPointer, Pointers, Identities, RootStates, Controls,
     Commands, Goals, Outcomes
<1>3. DirectoryInv
  <2>1. AbsentIsEmpty /\ PresentIsOwned /\ PointerOrder /\ CommittedComplete
    BY <1>1 DEF AbsentIsEmpty, PresentIsOwned, PointerOrder, CommittedComplete,
       Complete, InitialPointer, Generations
  <2>2. OwnersDistinct /\ NoMixedGeneration
    BY <1>1 DEF OwnersDistinct, NoMixedGeneration
  <2>3. current = PointerTo(current.generation)
    BY <1>1 DEF PointerTo, InitialPointer
  <2>4. ActivatedKeysPublished /\ ActivationEvidence
    BY <1>1 DEF ActivatedKeysPublished, ActivationEvidence, InitialPointer,
       Generations, AdminOps, Ops
  <2> QED BY <2>1, <2>2, <2>3, <2>4 DEF DirectoryInv
<1>4. ASSUME NEW h \in Hosts PROVE HostInv(h)
  BY DEF HostInv, SourceInv, EmptyInv,
       OpInv, FreshInv, WriterInv, SeenInv, PreparedInv, Prepared, ProofInv,
       ProvenInv, FenceInv, Loading, Staging, Committing
<1> QED BY <1>2, <1>3, <1>4 DEF CampaignInv

\* Every step keeps the invariant: one case per action.
LEMMA NextInv == CampaignInv /\ [Next]_vars => CampaignInv'
<1> SUFFICES ASSUME CampaignInv, [Next]_vars PROVE CampaignInv'
  OBVIOUS
<1>0. faults \in 0..MaxFaults BY DEF CampaignInv, TypeOK
<1>1. CASE UNCHANGED vars
  BY <1>1 DEF CampaignInv, TypeOK, DirectoryInv, AbsentIsEmpty, PresentIsOwned,
     PointerOrder, CommittedComplete, OwnersDistinct, PointerTo, NoMixedGeneration,
     ActivatedKeysPublished, ActivationEvidence, Complete, Candidate,
     HostInv, SourceInv, EmptyInv,
       OpInv, FreshInv, WriterInv, SeenInv, PreparedInv, Prepared, ProofInv,
       ProvenInv, FenceInv, Loading, Staging, Committing,
     vars, sharedVars, ldapVars, controlVars, localVars
<1>2. ASSUME NEW h \in Hosts,
             \/ StartAutomatic(h) \/ StartAdministrative(h)
             \/ \E n \in 2..MaxGeneration : ResumeByOperator(h, n)
      PROVE  CampaignInv'
  BY <1>2, PlanStepQuiet, QuietStep
  DEF StartAutomatic, StartAdministrative, ResumeByOperator, Commands
<1>3. ASSUME NEW h \in Hosts, HostStep(h) PROVE CampaignInv'
  <2>0. UNCHANGED faults /\ faults' \in 0..MaxFaults BY <1>0, <1>3 DEF HostStep
  <2>1. CASE PlanStep(h)
    BY <2>0, <2>1, PlanStepQuiet, QuietStep, PlanKeepsInv DEF PlanStep
  <2>2. CASE StageStep(h)
    BY <2>0, <2>2, StageStepQuiet, QuietStep, RootKeepsInv, EntryKeepsInv
    DEF StageStep, AddRoot, AddEntry
  <2>3. CASE PendingStep(h)
    BY <2>0, <2>3, PendingStepQuiet, QuietStep
  <2>4. CASE ProofStep(h)
    BY <2>0, <2>4, ProofStepQuiet, QuietStep, PublishKeepsInv DEF ProofStep, Publish
  <2>5. CASE CommitStep(h)
    BY <2>0, <2>5, CommitStepQuiet, QuietStep, MarkKeepsInv, SealKeepsInv, SwitchKeepsInv
    DEF CommitStep, MarkSourceWasActive, Seal, SwitchCurrent
  <2> QED BY <1>3, <2>1, <2>2, <2>3, <2>4, <2>5 DEF HostStep
<1>4. ASSUME NEW h \in Hosts, Fault(h) PROVE CampaignInv'
  <2>0. faults' \in 0..MaxFaults
    BY <1>0, <1>4, ConstantsAssumption DEF Fault
  <2>1. CASE CallFails(h) \/ Crash(h)
    BY <2>0, <2>1, FailureQuiet, QuietStep DEF CallFails, Crash
  <2>2. CASE ReplyLost(h)
    <3>1. CASE pc[h] = "addRoot" /\ RootAdded(h)
      BY <2>0, <2>2, <3>1, RootKeepsInv DEF ReplyLost, Failure, Committing
    <3>2. CASE pc[h] = "addEntry" /\ EntryAdded(h)
      BY <2>0, <2>2, <3>2, EntryKeepsInv DEF ReplyLost, Failure, Committing
    <3>3. CASE pc[h] = "publish" /\ RecordsPublished(h)
      BY <2>0, <2>2, <3>3, PublishKeepsInv DEF ReplyLost, Failure, Committing, Staging
    <3>4. CASE pc[h] = "mark" /\ SourceMarked(h)
      BY <2>0, <2>2, <3>4, MarkKeepsInv DEF ReplyLost, Failure, Staging
    <3>5. CASE pc[h] = "seal" /\ CandidateSealed(h)
      BY <2>0, <2>2, <3>5, SealKeepsInv DEF ReplyLost, Failure, Staging
    <3>6. CASE pc[h] = "switch" /\ PointerSwitched(h)
      BY <2>0, <2>2, <3>6, SwitchKeepsInv DEF ReplyLost, Failure, Staging
    <3> QED BY <2>2, <3>1, <3>2, <3>3, <3>4, <3>5, <3>6 DEF ReplyLost
  <2> QED BY <1>4, <2>1, <2>2 DEF Fault
<1> QED BY <1>1, <1>2, <1>3, <1>4 DEF Next

\* In every reachable state the directory is consistent and every host's
\* knowledge is still good enough for its next step.
THEOREM Invariance == Spec => []CampaignInv
<1>1. Init => CampaignInv BY InitInv
<1>2. CampaignInv /\ [Next]_vars => CampaignInv' BY NextInv
<1> QED BY <1>1, <1>2, PTL DEF Spec

-----------------------------------------------------------------------------
(* State properties.                                                       *)

\* Every variable keeps its type.
THEOREM TypeCorrect == Spec => []TypeOK
<1>1. CampaignInv => TypeOK BY DEF CampaignInv
<1> QED BY <1>1, Invariance, PTL

\* cn=current always names a committed, complete root and its digest.
THEOREM CurrentIsComplete == Spec => []CurrentComplete
<1>1. CampaignInv => CurrentComplete
  BY DEF CampaignInv, TypeOK, Pointers, Generations, DirectoryInv, PointerOrder,
     CommittedComplete, CurrentComplete
<1> QED BY <1>1, Invariance, PTL

\* At most one candidate stands directly above current and the root index
\* keeps the shape that every reader demands.
THEOREM OnePending == Spec => []OnePendingSuccessor
<1>1. CampaignInv => OnePendingSuccessor
  <2> SUFFICES ASSUME CampaignInv PROVE OnePendingSuccessor
    OBVIOUS
  <2>1. /\ TypeOK /\ AbsentIsEmpty /\ PresentIsOwned /\ PointerOrder
        /\ current.generation \in Generations /\ 1 \in Generations
    BY ConstantsAssumption DEF CampaignInv, DirectoryInv, TypeOK, Pointers, Generations
  <2>2. \A g \in Present : /\ g \in Generations /\ g \in Nat /\ g > 0
                           /\ g <= current.generation + 1
                           /\ g <= current.generation => state[g] = "committed"
    BY <2>1 DEF Present, PointerOrder, Generations
  <2>3. /\ 1 \in Present /\ schema[1] = "v2"
        /\ \A g \in Present : g # 1 => schema[g] = "v3"
    BY <2>1, <2>2 DEF Present, PresentIsOwned
  <2>4. \A g \in 1..current.generation : g \in Present
    BY <2>1, ConstantsAssumption DEF Present, PointerOrder, Generations
  <2>5. ASSUME NEW a \in Present, NEW b \in Present, Successor(Present, a, b)
        PROVE  b = a + 1
    <3>1. a \in Nat /\ b \in Nat /\ a < b /\ b <= current.generation + 1 /\ a > 0
      BY <2>2, <2>5 DEF Successor
    <3>2. a + 1 = b \/ a + 1 \in Present
      BY <2>1, <2>4, <3>1 DEF Generations
    <3> QED BY <2>5, <3>1, <3>2 DEF Successor
  <2>6. LegalShape(Present, schema)
    BY <2>2, <2>3, <2>5 DEF LegalShape, Schemas, LegacySchemas, Successor
  <2> QED BY <2>2, <2>6 DEF OnePendingSuccessor
<1> QED BY <1>1, Invariance, PTL

\* No root ever holds entries of two candidates.
THEOREM NeverMixed == Spec => []NoMixedGeneration
<1>1. CampaignInv => NoMixedGeneration BY DEF CampaignInv, DirectoryInv
<1> QED BY <1>1, Invariance, PTL

\* An activated campaign was published and proved before.
THEOREM PublishedBeforeActivation == Spec => []ActivatedKeysPublished
<1>1. CampaignInv => ActivatedKeysPublished BY DEF CampaignInv, DirectoryInv
<1> QED BY <1>1, Invariance, PTL

\* The was-active marker is exact.
THEOREM EvidenceExact == Spec => []ActivationEvidence
<1>1. CampaignInv => ActivationEvidence BY DEF CampaignInv, DirectoryInv
<1> QED BY <1>1, Invariance, PTL

-----------------------------------------------------------------------------
(* Action properties.                                                      *)

\* The six writes, by themselves.
Writes(h) == \/ pc[h] = "addRoot" /\ RootAdded(h)
             \/ pc[h] = "addEntry" /\ EntryAdded(h)
             \/ pc[h] = "publish" /\ RecordsPublished(h)
             \/ pc[h] = "mark" /\ SourceMarked(h)
             \/ pc[h] = "seal" /\ CandidateSealed(h)
             \/ pc[h] = "switch" /\ PointerSwitched(h)

\* A step either leaves directory and DNS alone or is one of the six writes.
LEMMA StepKinds ==
  ASSUME CampaignInv, [Next]_vars
  PROVE  \/ UNCHANGED <<ldapVars, published>>
         \/ \E h \in Hosts : Writes(h)
<1>1. CASE UNCHANGED vars
  BY <1>1 DEF vars, sharedVars
<1>2. ASSUME NEW h \in Hosts,
             \/ StartAutomatic(h) \/ StartAdministrative(h)
             \/ \E n \in 2..MaxGeneration : ResumeByOperator(h, n)
      PROVE  UNCHANGED <<ldapVars, published>>
  BY <1>2 DEF StartAutomatic, StartAdministrative, ResumeByOperator, StartPlanner,
     StartResume, sharedVars
<1>3. ASSUME NEW h \in Hosts, HostStep(h)
      PROVE  UNCHANGED <<ldapVars, published>> \/ Writes(h)
  <2>1. CASE PlanStep(h)
    BY <2>1 DEF PlanStep, LoadCurrent, FindPending, Plan, PlanNothing, RejectHistory,
       sharedVars
  <2>2. CASE StageStep(h)
    BY <2>2 DEF StageStep, StageCurrent, StageHistory, AddRoot, RootExists, AddEntry,
       Readback, sharedVars, Writes
  <2>3. CASE PendingStep(h)
    BY <2>3 DEF PendingStep, PendingHistory, PendingRejected, PendingLoaded,
       ResumeAutomatic, ResumeCreate, StagedAutomatic, StagedAdministrative,
       ValidateCreateResume, sharedVars
  <2>4. CASE ProofStep(h)
    BY <2>4 DEF ProofStep, Publish, Prove, Refreshed, PendingLoaded, sharedVars, Writes
  <2>5. CASE CommitStep(h)
    BY <2>5 DEF CommitStep, CommitLoaded, ReadPointer, MarkSourceWasActive, Seal,
       SealSkipped, SealRefused, SealedLoaded, SwitchCurrent, SwitchRefused,
       SwitchRead, FinalLoaded, SwitchReconciled, PendingLoaded, sharedVars, Writes
  <2> QED BY <1>3, <2>1, <2>2, <2>3, <2>4, <2>5 DEF HostStep
<1>4. ASSUME NEW h \in Hosts, Fault(h)
      PROVE  UNCHANGED <<ldapVars, published>> \/ Writes(h)
  BY <1>4 DEF Fault, CallFails, Crash, ReplyLost, Writes, sharedVars
<1> QED BY <1>1, <1>2, <1>3, <1>4 DEF Next

\* What a writing host knows about the number it writes to.
LEMMA WriterFacts ==
  ASSUME CampaignInv, NEW h \in Hosts, Writes(h)
  PROVE  /\ TypeOK /\ DirectoryInv /\ HostInv(h)
         /\ Candidate(h) \in Generations /\ source[h] \in Generations
         /\ op[h] \in Ops
<1>1. TypeOK /\ DirectoryInv /\ HostInv(h) BY DEF CampaignInv
<1> QED BY <1>1 DEF HostInv, SourceInv, OpInv, PreparedInv, Prepared, Staging,
    Committing, Writes

\* A committed root never changes its commitment or its entries again.
THEOREM CommittedFrozen == Spec => CommittedIsFrozen
<1>1. ASSUME CampaignInv, [Next]_vars, NEW g \in Generations, state[g] = "committed"
      PROVE  /\ state'[g] = "committed"
             /\ <<schema'[g], owner'[g], content'[g]>>
                  = <<schema[g], owner[g], content[g]>>
  <2>1. CASE UNCHANGED <<ldapVars, published>>
    BY <1>1, <2>1 DEF ldapVars
  <2>2. ASSUME NEW h \in Hosts, Writes(h)
        PROVE  /\ state'[g] = "committed"
               /\ <<schema'[g], owner'[g], content'[g]>>
                    = <<schema[g], owner[g], content[g]>>
    <3>1. /\ TypeOK /\ DirectoryInv /\ HostInv(h) /\ Candidate(h) \in Generations
      BY <1>1, <2>2, WriterFacts
    <3>2. pc[h] = "addEntry" => state[Candidate(h)] = "staging"
      BY <3>1 DEF HostInv, WriterInv
    <3> QED BY <1>1, <2>2, <3>1, <3>2 DEF Writes, RootAdded, EntryAdded,
            RecordsPublished, SourceMarked, CandidateSealed, PointerSwitched, ldapVars, TypeOK
  <2> QED BY <1>1, <2>1, <2>2, StepKinds
<1>2. CampaignInv /\ [Next]_vars =>
        [\A g \in Generations : state[g] = "committed" =>
           /\ state'[g] = "committed"
           /\ <<schema'[g], owner'[g], content'[g]>>
                = <<schema[g], owner[g], content[g]>>]_vars
  BY <1>1
<1> QED BY <1>2, Invariance, PTL DEF Spec, CommittedIsFrozen

\* The pointer moves by one, to a committed root, and never back.
THEOREM PointerMonotone == Spec => PointerAdvances
<1>1. ASSUME CampaignInv, [Next]_vars, current' # current
      PROVE  /\ current'.generation = current.generation + 1
             /\ state[current'.generation] = "committed"
  <2>1. PICK h \in Hosts : Writes(h)
    BY <1>1, StepKinds DEF ldapVars
  <2>2. pc[h] = "switch" /\ PointerSwitched(h)
    BY <1>1, <2>1 DEF Writes, RootAdded, EntryAdded, RecordsPublished, SourceMarked,
       CandidateSealed, ldapVars
  <2>3. current'.generation = Candidate(h)
    BY <2>2 DEF PointerSwitched, NewPointer
  <2> QED BY <1>1, <2>2, <2>3, SwitchFacts
<1>2. CampaignInv /\ [Next]_vars =>
        [current' # current =>
           /\ current'.generation = current.generation + 1
           /\ state[current'.generation] = "committed"]_vars
  BY <1>1
<1> QED BY <1>2, Invariance, PTL DEF Spec, PointerAdvances

\* An interrupted --active is never completed by somebody else.
THEOREM ActivatedOnlyByItsRun == Spec => OnlyItsRunActivates
<1>1. ASSUME CampaignInv, [Next]_vars, NEW g \in Generations,
             current.generation < g, g <= current'.generation, owner'[g] \in ActivateOps
      PROVE  \E h \in Hosts : command[h] = "admin" /\ op[h] = owner'[g]
  <2>0. current.generation \in Nat /\ g \in Nat
    BY <1>1 DEF CampaignInv, TypeOK, Pointers, Generations
  <2>1. current' # current
    BY <1>1, <2>0
  <2>2. PICK h \in Hosts : Writes(h)
    BY <1>1, <2>1, StepKinds DEF ldapVars
  <2>3. pc[h] = "switch" /\ PointerSwitched(h)
    BY <2>1, <2>2 DEF Writes, RootAdded, EntryAdded, RecordsPublished, SourceMarked,
       CandidateSealed, ldapVars
  <2>4. /\ current'.generation = Candidate(h) /\ owner' = owner
        /\ Candidate(h) = current.generation + 1 /\ owner[Candidate(h)] = op[h]
    BY <1>1, <2>3, SwitchFacts DEF PointerSwitched, NewPointer
  <2>5. g = Candidate(h)
    BY <1>1, <2>0, <2>4
  <2>6. op[h] \in ActivateOps
    BY <1>1, <2>4, <2>5
  <2>7. op[h] \notin RotateOps /\ op[h] # NoOp /\ op[h] \notin CreateOps
    BY <2>6, ConstantsAssumption DEF AdminOps, Ops
  <2>8. OpInv(h) /\ command[h] \in Commands
    BY <1>1 DEF CampaignInv, HostInv, TypeOK
  <2>9. command[h] = "admin"
    BY <2>3, <2>7, <2>8 DEF OpInv, Commands, Committing
  <2> QED BY <2>4, <2>5, <2>9
<1>2. CampaignInv /\ [Next]_vars =>
        [\A g \in Generations :
           current.generation < g /\ g <= current'.generation /\ owner'[g] \in ActivateOps
           => \E h \in Hosts : command[h] = "admin" /\ op[h] = owner'[g]]_vars
  BY <1>1
<1> QED BY <1>2, Invariance, PTL DEF Spec, OnlyItsRunActivates

\* A running command has not reported anything yet.
Unreported == \A h \in Hosts : pc[h] # "idle" => outcome[h] = "none"

\* The only ways a host's report changes.
Reports(h) ==
  \/ outcome'[h] = outcome[h] /\ (pc[h] = "idle" => pc'[h] = "idle")
  \/ outcome'[h] = "none"
  \/ pc'[h] = "idle" /\ outcome'[h] # "activated"
  \/ /\ pc'[h] = "idle" /\ UNCHANGED sharedVars
     /\ Candidate(h) = current.generation
     /\ op[h] \in {NoOp, owner[Candidate(h)]}

\* Another host's step cannot end this host's run.
LEMMA OtherReports ==
  ASSUME TypeOK, NEW k \in Hosts, NEW h \in Hosts \ {k},
         \/ \E label \in Controls : Goto(k, label)
         \/ \E why \in Goals : LoadPending(k, why)
         \/ \E how \in Outcomes : Finish(k, how)
         \/ PendingFailure(k) \/ RecoverStage(k) \/ RecoverSwitch(k) \/ Failure(k)
  PROVE  Reports(h)
BY DEF TypeOK, Goto, LoadPending, Finish, PendingFailure, RecoverStage,
   RecoverSwitch, Failure, Reports

\* Control transfers other than an activated end report no activation.
LEMMA OwnReports ==
  ASSUME TypeOK, NEW h \in Hosts, pc[h] # "idle",
         \/ \E label \in Controls : Goto(h, label)
         \/ \E why \in Goals : LoadPending(h, why)
         \/ \E how \in Outcomes \ {"activated"} : Finish(h, how)
         \/ PendingFailure(h) \/ RecoverStage(h) \/ RecoverSwitch(h) \/ Failure(h)
  PROVE  Reports(h)
BY DEF TypeOK, Goto, LoadPending, Finish, PendingFailure, RecoverStage,
   RecoverSwitch, Failure, Reports, Outcomes

\* No step of any host reports an activation that did not happen.
LEMMA ReportStep ==
  ASSUME CampaignInv, [Next]_vars, NEW h \in Hosts
  PROVE  Reports(h)
<1> USE DEF Controls, Goals, Outcomes
<1>0. TypeOK /\ DirectoryInv BY DEF CampaignInv
<1>1. CASE UNCHANGED vars
  BY <1>1 DEF vars, controlVars, Reports
<1>2. ASSUME NEW k \in Hosts,
             \/ StartAutomatic(k) \/ StartAdministrative(k)
             \/ \E n \in 2..MaxGeneration : ResumeByOperator(k, n)
      PROVE  Reports(h)
  BY <1>0, <1>2 DEF StartAutomatic, StartAdministrative, ResumeByOperator,
     StartPlanner, StartResume, Reports, TypeOK
<1>3. ASSUME NEW k \in Hosts, Fault(k) PROVE Reports(h)
  BY <1>0, <1>3, OtherReports, OwnReports
  DEF Fault, CallFails, ReplyLost, Crash, Failure, Staging, Committing
<1>4. ASSUME NEW k \in Hosts, PlanStep(k) \/ StageStep(k) PROVE Reports(h)
  BY <1>0, <1>4, OtherReports, OwnReports DEF PlanStep, StageStep, LoadCurrent,
     FindPending, Plan, PlanNothing, RejectHistory, StageCurrent, StageHistory,
     AddRoot, RootExists, AddEntry, Readback, Proceed
<1>5. ASSUME NEW k \in Hosts, PendingStep(k) PROVE Reports(h)
  <2>1. CASE PendingHistory(k) \/ PendingRejected(k) \/ ResumeCreate(k)
             \/ StagedAdministrative(k) \/ ValidateCreateResume(k)
    BY <1>0, <2>1, OtherReports, OwnReports DEF PendingHistory, PendingRejected,
       ResumeCreate, StagedAdministrative, ValidateCreateResume, PendingLoaded
  <2>2. CASE ResumeAutomatic(k) \/ StagedAutomatic(k)
    <3>1. CASE h # k
      BY <1>0, <2>2, <3>1, OtherReports
      DEF ResumeAutomatic, StagedAutomatic, ContinueCampaign
    <3>2. CASE h = k
      <4>1. CASE Finish(h, "error") \/ Goto(h, "publish")
        BY <1>0, <2>2, <3>2, <4>1, OwnReports
        DEF ResumeAutomatic, StagedAutomatic, PendingLoaded
      <4>2. CASE Finish(h, "activated") /\ Activated(h)
                 /\ (goal[h] = "reconcileStage" => Matches(h))
        <5>1. goal[h] \in {"resume", "staged", "reconcileStage"} /\ pc[h] = "pendingRead"
              /\ UNCHANGED sharedVars
          BY <2>2, <3>2 DEF ResumeAutomatic, StagedAutomatic, PendingLoaded
        <5>2. op[h] \in {NoOp, owner[Candidate(h)]}
          BY <4>2, <5>1 DEF CampaignInv, HostInv, OpInv, PreparedInv, Prepared,
             Loading, Matches
        <5> QED BY <1>0, <4>2, <5>1, <5>2 DEF Finish, Reports, Activated, TypeOK
      <4> QED BY <2>2, <3>2, <4>1, <4>2
          DEF ResumeAutomatic, StagedAutomatic, ContinueCampaign, PendingLoaded
    <3> QED BY <3>1, <3>2
  <2> QED BY <1>5, <2>1, <2>2 DEF PendingStep
<1>6. ASSUME NEW k \in Hosts, ProofStep(k) PROVE Reports(h)
  BY <1>0, <1>6, OtherReports, OwnReports DEF ProofStep, Publish, Prove, Refreshed,
     PendingLoaded, Proceed
<1>7. ASSUME NEW k \in Hosts, CommitStep(k) PROVE Reports(h)
  <2>1. CASE ReadPointer(k) \/ MarkSourceWasActive(k) \/ Seal(k) \/ SealSkipped(k)
             \/ SealRefused(k) \/ SealedLoaded(k) \/ SwitchCurrent(k)
             \/ SwitchRefused(k) \/ SwitchRead(k)
    BY <1>0, <2>1, OtherReports, OwnReports DEF ReadPointer, MarkSourceWasActive,
       Seal, SealSkipped, SealRefused, SealedLoaded, SwitchCurrent, SwitchRefused,
       SwitchRead, PendingLoaded, Proceed
  <2>2. CASE CommitLoaded(k) \/ FinalLoaded(k) \/ SwitchReconciled(k)
    <3>1. CASE h # k
      BY <1>0, <2>2, <3>1, OtherReports DEF CommitLoaded, FinalLoaded,
         SwitchReconciled, CommitReturned, Proceed
    <3>2. CASE h = k
      <4>1. pc[h] = "pendingRead" /\ UNCHANGED sharedVars
        BY <2>2, <3>2 DEF CommitLoaded, FinalLoaded, SwitchReconciled, PendingLoaded
      <4>2. CASE \/ RecoverSwitch(h) \/ Proceed(h, "readPointer") \/ Finish(h, "error")
                 \/ LoadPending(h, "reconcileSwitch")
        BY <1>0, <4>1, <4>2, OwnReports DEF Proceed
      <4>3. CASE Finish(h, "activated") /\ Activated(h) /\ Matches(h)
        BY <1>0, <4>1, <4>3 DEF Finish, Reports, Activated, Matches, TypeOK
      <4> QED BY <2>2, <3>2, <4>2, <4>3
          DEF CommitLoaded, FinalLoaded, SwitchReconciled, CommitReturned
    <3> QED BY <3>1, <3>2
  <2> QED BY <1>7, <2>1, <2>2 DEF CommitStep
<1> QED BY <1>1, <1>2, <1>3, <1>4, <1>5, <1>6, <1>7 DEF Next, HostStep

\* A host that reports activation is right, even when its switch's reply was
\* lost or another host finished its work.
THEOREM ReportsHold == Spec => ReportedActivationHolds
<1>1. Init => Unreported
  BY DEF Init, Unreported
<1>2. CampaignInv /\ Unreported /\ [Next]_vars => Unreported'
  <2> SUFFICES ASSUME CampaignInv, Unreported, [Next]_vars, NEW h \in Hosts,
                      pc'[h] # "idle"
               PROVE  outcome'[h] = "none"
    BY DEF Unreported
  <2>1. Reports(h) BY ReportStep
  <2> QED BY <2>1 DEF Reports, Unreported
<1>3. ASSUME CampaignInv, Unreported, [Next]_vars, NEW h \in Hosts,
             pc[h] # "idle", outcome'[h] = "activated"
      PROVE  /\ Candidate(h) <= current'.generation
             /\ op[h] \in {NoOp, owner'[Candidate(h)]}
  <2>1. Reports(h) BY <1>3, ReportStep
  <2>2. outcome[h] = "none" BY <1>3 DEF Unreported
  <2>3. /\ UNCHANGED sharedVars /\ Candidate(h) = current.generation
        /\ op[h] \in {NoOp, owner[Candidate(h)]}
    BY <1>3, <2>1, <2>2 DEF Reports
  <2>4. current.generation \in Nat
    BY <1>3 DEF CampaignInv, TypeOK, Pointers, Generations
  <2> QED BY <2>3, <2>4 DEF sharedVars, ldapVars
<1>4. CampaignInv /\ Unreported /\ [Next]_vars =>
        [\A h \in Hosts : pc[h] # "idle" /\ outcome'[h] = "activated" =>
           /\ Candidate(h) <= current'.generation
           /\ op[h] \in {NoOp, owner'[Candidate(h)]}]_vars
  BY <1>3
<1> QED BY <1>1, <1>2, <1>4, Invariance, PTL DEF Spec, ReportedActivationHolds

-----------------------------------------------------------------------------
(* Refinement.                                                             *)

SealedNumbers == {g \in Generations : state[g] = "committed"}

\* Every write is one step of the generation log or none at all.
LEMMA WriteImplements ==
  ASSUME CampaignInv, NEW h \in Hosts, Writes(h)
  PROVE  Log!LogNext \/ UNCHANGED Log!logVars
<1>0. /\ TypeOK /\ DirectoryInv /\ HostInv(h) /\ op[h] \in Ops
      /\ Candidate(h) \in Generations
  BY WriterFacts
<1> USE ConstantsAssumption DEF Log!Numbers
<1>1. CASE pc[h] = "addRoot" /\ RootAdded(h)
  <2>1. Candidate(h) = current.generation + 1 /\ owner[Candidate(h)] = NoOp
    BY <1>0, <1>1, NextNumber
    DEF RootAdded, Staging, Candidate, DirectoryInv, AbsentIsEmpty
  <2>2. \A g \in Generations : owner[g] # op[h]
    BY <1>0, <1>1 DEF HostInv, FreshInv
  <2>3. SealedNumbers' = SealedNumbers
    BY <1>0, <1>1 DEF SealedNumbers, RootAdded, TypeOK
  <2>4. Log!Reserve(op[h])
    BY <1>0, <1>1, <2>1, <2>2, <2>3
    DEF Log!Reserve, RootAdded, Generations, SealedNumbers, Log!Numbers
  <2> QED BY <1>0, <2>4 DEF Ops, Log!LogNext, Log!Candidates
<1>2. CASE pc[h] = "addEntry" /\ EntryAdded(h)
  BY <1>2 DEF EntryAdded, Log!logVars
<1>6. CASE pc[h] = "mark" /\ SourceMarked(h)
  BY <1>6 DEF SourceMarked, Log!logVars
<1>3. CASE pc[h] = "publish" /\ RecordsPublished(h)
  <2>1. owner[Candidate(h)] = op[h]
    BY <1>0, <1>3 DEF HostInv, PreparedInv, Prepared
  <2>2. Log!MakePublic(op[h])
    BY <1>0, <1>3, <2>1 DEF Log!MakePublic, RecordsPublished, ldapVars, Generations
  <2> QED BY <1>0, <2>2 DEF Ops, Log!LogNext, Log!Candidates
<1>4. CASE pc[h] = "seal" /\ CandidateSealed(h)
  <2>1. /\ state[Candidate(h)] = "staging" /\ owner[Candidate(h)] = op[h]
        /\ Candidate(h) \in Nat /\ current.generation \in Nat
    BY <1>0, <1>4 DEF CandidateSealed, SealAsserted, Matches, TypeOK, Pointers, Generations
  <2>2. Candidate(h) = current.generation + 1
    BY <1>0, <2>1 DEF DirectoryInv, PointerOrder
  <2>3. SealedNumbers' = SealedNumbers \cup {Candidate(h)}
    BY <1>0, <1>4 DEF SealedNumbers, CandidateSealed, TypeOK
  <2>4. Candidate(h) \notin SealedNumbers
    BY <2>1 DEF SealedNumbers
  <2>5. Log!SealNext
    BY <1>0, <1>4, <2>1, <2>2, <2>3, <2>4
    DEF Log!SealNext, CandidateSealed, SealedNumbers, Generations, Ops,
        Log!Candidates
  <2> QED BY <2>5 DEF Log!LogNext
<1>5. CASE pc[h] = "switch" /\ PointerSwitched(h)
  <2>1. /\ Candidate(h) = current.generation + 1 /\ state[Candidate(h)] = "committed"
        /\ owner[Candidate(h)] = op[h] /\ (op[h] \in RotateOps => op[h] \in published)
    BY <1>5, SwitchFacts
  <2>2. current'.generation = Candidate(h)
    BY <1>5 DEF PointerSwitched, NewPointer
  <2>3. Log!Activate
    BY <1>0, <1>5, <2>1, <2>2 DEF Log!Activate, PointerSwitched
  <2> QED BY <2>3 DEF Log!LogNext
<1> QED BY <1>1, <1>2, <1>3, <1>4, <1>5, <1>6 DEF Writes

\* Hosts, faults, retries and readbacks implement one generation log.
THEOREM Refinement == Spec => ImplementsLog
<1>1. Init => Log!LogInit
  <2> SUFFICES ASSUME Init PROVE Log!LogInit
    OBVIOUS
  <2>1. {g \in Generations : state[g] = "committed"} = {1}
    BY ConstantsAssumption DEF Init, Generations
  <2> QED BY <2>1 DEF Init, Log!LogInit, Log!Numbers, Generations, InitialPointer
<1>2. CampaignInv /\ [Next]_vars => [Log!LogNext]_Log!logVars
  <2> SUFFICES ASSUME CampaignInv, [Next]_vars PROVE [Log!LogNext]_Log!logVars
    OBVIOUS
  <2>1. CASE UNCHANGED <<ldapVars, published>>
    BY <2>1 DEF ldapVars, Log!logVars
  <2> QED BY <2>1, StepKinds, WriteImplements
<1> QED BY <1>1, <1>2, Invariance, PTL DEF Spec, ImplementsLog, Log!LogSpec
=============================================================================
