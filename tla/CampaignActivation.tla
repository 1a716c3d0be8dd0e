------------------------- MODULE CampaignActivation -------------------------
(***************************************************************************)
(* Native DKIM2 generations, from planning to activation, on one LDAP      *)
(* dataset used by several hosts.  A host runs one command at a time:      *)
(*                                                                         *)
(*   auto    --auto: resume the stored candidate, or rotate what is due    *)
(*   admin   --create or --active: one additive successor, no DNS proof    *)
(*   resume  --create --resume-generation n                                *)
(*                                                                         *)
(* Every LDAP write is one step and any reply may be lost.  The reads that *)
(* the code brackets with two reads of cn=current are one step, since the  *)
(* pointer only moves forward and generation contents never change between *)
(* equal pointer reads; a bracket that fails is a read fault.              *)
(*                                                                         *)
(* An operation identity stands for the whole candidate commitment: the    *)
(* digest binds operation, source, number and content.                     *)
(***************************************************************************)
EXTENDS RetainedRoots

CONSTANTS
  Hosts,        \* processes running the manager
  RotateOps,    \* identities of campaign candidates: they change active keys
  CreateOps,    \* identities of --create candidates: inactive additions
  ActivateOps,  \* identities of --active candidates
  Genesis,      \* content identity of the initial v2 generation
  NoOp,         \* no candidate
  MaxGeneration,\* bound on generation numbers
  EntryCount,   \* entries below one generation root, written in order
  MaxFaults     \* bound on crashes, failed calls and lost replies

AdminOps == CreateOps \cup ActivateOps
Ops == RotateOps \cup AdminOps
Identities == Ops \cup {Genesis, NoOp}
Generations == 1..MaxGeneration
Entries == 1..EntryCount

ASSUME ConstantsAssumption ==
  /\ MaxGeneration \in Nat \ {0}
  /\ EntryCount \in Nat \ {0}
  /\ MaxFaults \in Nat
  /\ NoOp \notin Ops \cup {Genesis} /\ Genesis \notin Ops
  /\ RotateOps \cap AdminOps = {} /\ CreateOps \cap ActivateOps = {}

VARIABLES
  current,     \* the cn=current entry: generation, schema, digest
  state,       \* state[g] of root g, "absent" when there is no such root
  schema,      \* schema[g], the marker of root g
  owner,       \* owner[g], the operation and digest attributes of root g
  content,     \* content[g], the pairs <<entry, identity>> stored below g
  wasActive,   \* wasActive[g], the monotonic activation marker
  published,   \* identities whose records both DNS channels show
  usedOps,     \* identities drawn so far
  pc, command, \* control state of each host, and the command it runs
  goal,        \* why the host is in LoadPending
  source,      \* number of the source generation; the candidate is source + 1
  op,          \* identity of the candidate the host works on
  entry,       \* next entry the host adds
  seen,        \* candidate state in the last root index the host read
  fence,       \* the cn=current value the switch will assert
  outcome,     \* how the last command of the host ended
  faults       \* faults so far

ldapVars == <<current, state, schema, owner, content, wasActive>>
localVars == <<source, op, entry, seen, fence>>
controlVars == <<pc, command, goal, outcome>>
sharedVars == <<ldapVars, published, usedOps>>
vars == <<sharedVars, controlVars, localVars, faults>>

Commands == {"auto", "admin", "resume"}
Goals == {"resume", "staged", "reconcileStage", "refresh", "commit", "sealed",
          "final", "reconcileSwitch"}
Controls == {"idle", "loadCurrent", "loadHistory", "stageCurrent",
             "stageHistory", "addRoot", "addEntry", "readback",
             "pendingHistory", "pendingRead", "resumeStored",
             "resumeActivated", "publish", "prove", "finalProof",
             "readPointer", "mark", "seal", "switch", "switchRead"}
Outcomes == {"none", "idle", "activated", "error", "crashed"}
Pointers == [generation : Generations, schema : {"v2", "v3"},
             digest : Identities]

-----------------------------------------------------------------------------
(* What the readers of the dataset decide from.                            *)

Present == {g \in Generations : state[g] # "absent"}

Complete(g) == content[g] = Entries \X {owner[g]}

\* Every retained generation is readable in full.
HistoryReadable == \A g \in Present : Complete(g)

Candidate(h) == source[h] + 1

\* The cn=current value that names g: legacy pointers carry no digest.
PointerTo(g) == [generation |-> g, schema |-> schema[g],
                 digest |-> IF schema[g] = "v3" THEN owner[g] ELSE NoOp]

-----------------------------------------------------------------------------
InitialPointer == [generation |-> 1, schema |-> "v2", digest |-> NoOp]

Init ==
  /\ current = InitialPointer
  /\ state = [g \in Generations |-> IF g = 1 THEN "committed" ELSE "absent"]
  /\ schema = [g \in Generations |-> IF g = 1 THEN "v2" ELSE "none"]
  /\ owner = [g \in Generations |-> IF g = 1 THEN Genesis ELSE NoOp]
  /\ content = [g \in Generations |->
                  IF g = 1 THEN Entries \X {Genesis} ELSE {}]
  /\ wasActive = [g \in Generations |-> FALSE]
  /\ published = {} /\ usedOps = {}
  /\ pc = [h \in Hosts |-> "idle"]
  /\ command = [h \in Hosts |-> "auto"]
  /\ goal = [h \in Hosts |-> "resume"]
  /\ source = [h \in Hosts |-> 0]
  /\ op = [h \in Hosts |-> NoOp]
  /\ entry = [h \in Hosts |-> 1]
  /\ seen = [h \in Hosts |-> "absent"]
  /\ fence = [h \in Hosts |-> InitialPointer]
  /\ outcome = [h \in Hosts |-> "none"]
  /\ faults = 0

-----------------------------------------------------------------------------
(* Control transfers.                                                      *)

Goto(h, label) == /\ pc' = [pc EXCEPT ![h] = label]
                  /\ UNCHANGED <<goal, command, outcome>>

\* A step that only moves on, or only changes the directory or DNS.
Proceed(h, label) == Goto(h, label) /\ UNCHANGED localVars

\* Every LoadPending call starts with a fresh read of the root index.
LoadPending(h, why) == /\ pc' = [pc EXCEPT ![h] = "pendingHistory"]
                       /\ goal' = [goal EXCEPT ![h] = why]
                       /\ UNCHANGED <<command, outcome, localVars>>

\* The process ends; everything it held in memory is gone.
Finish(h, how) == /\ pc' = [pc EXCEPT ![h] = "idle"]
                  /\ outcome' = [outcome EXCEPT ![h] = how]
                  /\ command' = [command EXCEPT ![h] = "auto"]
                  /\ goal' = [goal EXCEPT ![h] = "resume"]
                  /\ source' = [source EXCEPT ![h] = 0]
                  /\ op' = [op EXCEPT ![h] = NoOp]
                  /\ entry' = [entry EXCEPT ![h] = 1]
                  /\ seen' = [seen EXCEPT ![h] = "absent"]
                  /\ fence' = [fence EXCEPT ![h] = InitialPointer]

\* A failure while staging is classified by one readback of the candidate,
\* and so is a failure inside CommitCampaignAndSwitch.
RecoverStage(h) == LoadPending(h, "reconcileStage")
RecoverSwitch(h) == LoadPending(h, "reconcileSwitch")

\* Where a failed LoadPending returns to.
PendingFailure(h) ==
  \/ goal[h] = "staged" /\ RecoverStage(h)
  \/ goal[h] \in {"commit", "sealed", "final"} /\ RecoverSwitch(h)
  \/ goal[h] \in {"resume", "reconcileStage", "refresh", "reconcileSwitch"}
     /\ Finish(h, "error")

-----------------------------------------------------------------------------
(* Commands and planning.                                                  *)

StartPlanner(h, c) ==
  /\ pc[h] = "idle" /\ c \in {"auto", "admin"}
  /\ pc' = [pc EXCEPT ![h] = "loadCurrent"]
  /\ command' = [command EXCEPT ![h] = c]
  /\ outcome' = [outcome EXCEPT ![h] = "none"]
  /\ UNCHANGED <<sharedVars, goal, localVars>>

\* --create --resume-generation n: source n - 1 is named by the operator.
StartResume(h, n) ==
  /\ pc[h] = "idle"
  /\ source' = [source EXCEPT ![h] = n - 1]
  /\ pc' = [pc EXCEPT ![h] = "pendingHistory"]
  /\ command' = [command EXCEPT ![h] = "resume"]
  /\ outcome' = [outcome EXCEPT ![h] = "none"]
  /\ UNCHANGED <<sharedVars, goal, op, entry, seen, fence>>

LoadCurrent(h) ==
  /\ pc[h] = "loadCurrent"
  /\ source' = [source EXCEPT ![h] = current.generation]
  /\ Goto(h, "loadHistory")
  /\ UNCHANGED <<sharedVars, op, entry, seen, fence>>

\* Mutant: a committed but unreachable candidate is not found again.
FindStaging(h) ==
  /\ pc[h] = "loadHistory" /\ command[h] = "auto"
  /\ HistoryReadable
  /\ AcceptableToPlanner(Present, schema, state, source[h])
  /\ PendingSuccessor(Present, source[h]) = Candidate(h)
  /\ IF state[Candidate(h)] = "staging"
     THEN LoadPending(h, "resume") ELSE Finish(h, "error")
  /\ UNCHANGED sharedVars

\* --auto finds the immediate successor of its source and resumes it.
FindPending(h) ==
  /\ pc[h] = "loadHistory" /\ command[h] = "auto"
  /\ HistoryReadable
  /\ AcceptableToPlanner(Present, schema, state, source[h])
  /\ PendingSuccessor(Present, source[h]) = Candidate(h)
  /\ LoadPending(h, "resume")
  /\ UNCHANGED sharedVars

\* Nothing stands above the source: a fresh candidate is frozen in memory.
Plan(h) ==
  /\ pc[h] = "loadHistory"
  /\ HistoryReadable
  /\ ExactCurrentMaximum(Present, schema, state, source[h])
  /\ Candidate(h) \in Generations
  /\ \E o \in (IF command[h] = "auto" THEN RotateOps ELSE AdminOps) \ usedOps :
        /\ op' = [op EXCEPT ![h] = o]
        /\ usedOps' = usedOps \cup {o}
  /\ Goto(h, "stageCurrent")
  /\ UNCHANGED <<ldapVars, published, source, entry, seen, fence>>

\* No binding is due, or the administrative request has nothing to add.
PlanNothing(h) ==
  /\ pc[h] = "loadHistory"
  /\ HistoryReadable
  /\ ExactCurrentMaximum(Present, schema, state, source[h])
  /\ Finish(h, IF command[h] = "auto" THEN "idle" ELSE "error")
  /\ UNCHANGED sharedVars

\* Unreadable or unexpected history stops every command before a write;
\* an administrative command also stops at any higher root.
RejectHistory(h) ==
  /\ pc[h] = "loadHistory"
  /\ \/ ~HistoryReadable
     \/ command[h] = "auto"
        /\ ~AcceptableToPlanner(Present, schema, state, source[h])
     \/ command[h] = "admin"
        /\ ~ExactCurrentMaximum(Present, schema, state, source[h])
  /\ Finish(h, "error")
  /\ UNCHANGED sharedVars

-----------------------------------------------------------------------------
(* stageWithReader and addCandidateWithMetadata.                           *)

StageCurrent(h) ==
  /\ pc[h] = "stageCurrent"
  /\ IF current.generation = source[h] THEN Proceed(h, "stageHistory")
                                       ELSE RecoverStage(h)
  /\ UNCHANGED sharedVars

StageHistory(h) ==
  /\ pc[h] = "stageHistory"
  /\ IF HistoryReadable
        /\ ExactCurrentMaximum(Present, schema, state, source[h])
     THEN Proceed(h, "addRoot")
     ELSE RecoverStage(h)
  /\ UNCHANGED sharedVars

\* The root is added first and exclusively: it claims the number.
RootAdded(h) ==
  /\ state[Candidate(h)] = "absent"
  /\ state' = [state EXCEPT ![Candidate(h)] = "staging"]
  /\ schema' = [schema EXCEPT ![Candidate(h)] = "v3"]
  /\ owner' = [owner EXCEPT ![Candidate(h)] = op[h]]
  /\ UNCHANGED <<current, content, wasActive, published, usedOps>>

AddRoot(h) ==
  /\ pc[h] = "addRoot"
  /\ RootAdded(h)
  /\ Goto(h, "addEntry")
  /\ entry' = [entry EXCEPT ![h] = 1]
  /\ UNCHANGED <<source, op, seen, fence>>

\* Mutant: an existing root is taken for the own one.
RootAssumedOwn(h) ==
  /\ pc[h] = "addRoot" /\ state[Candidate(h)] # "absent"
  /\ Proceed(h, "addEntry")
  /\ UNCHANGED sharedVars

RootExists(h) ==
  /\ pc[h] = "addRoot" /\ state[Candidate(h)] # "absent"
  /\ RecoverStage(h)
  /\ UNCHANGED sharedVars

\* Units and records follow one by one, each an exclusive add of its name.
EntryAdded(h) ==
  /\ \A i \in Identities : <<entry[h], i>> \notin content[Candidate(h)]
  /\ content' = [content EXCEPT
                   ![Candidate(h)] = @ \cup {<<entry[h], op[h]>>}]
  /\ UNCHANGED <<current, state, schema, owner, wasActive, published, usedOps>>

AddEntry(h) ==
  /\ pc[h] = "addEntry"
  /\ EntryAdded(h)
  /\ IF entry[h] < EntryCount
     THEN entry' = [entry EXCEPT ![h] = @ + 1] /\ Goto(h, "addEntry")
     ELSE UNCHANGED entry /\ Goto(h, "readback")
  /\ UNCHANGED <<source, op, seen, fence>>

\* validateReadback accepts only the exact staging candidate.
Readback(h) ==
  /\ pc[h] = "readback"
  /\ IF /\ state[Candidate(h)] = "staging"
        /\ content[Candidate(h)] = Entries \X {op[h]}
     THEN LoadPending(h, "staged")
     ELSE RecoverStage(h)
  /\ UNCHANGED sharedVars

-----------------------------------------------------------------------------
(* LoadPending: a root index, then the candidate between two pointer reads. *)

PendingHistory(h) ==
  /\ pc[h] = "pendingHistory"
  /\ IF /\ HistoryReadable
        /\ PendingShape(Present, schema, state, source[h], Candidate(h))
     THEN /\ seen' = [seen EXCEPT ![h] = state[Candidate(h)]]
          /\ Goto(h, "pendingRead")
          /\ UNCHANGED <<source, op, entry, fence>>
     ELSE PendingFailure(h)
  /\ UNCHANGED sharedVars

\* The second half accepts the state the index showed and no other.
PendingReadable(h) ==
  /\ current.generation \in {source[h], Candidate(h)}
  /\ current.generation = Candidate(h) => seen[h] = "committed"
  /\ state[Candidate(h)] = seen[h]
  /\ Complete(Candidate(h))

PendingRejected(h) ==
  /\ pc[h] = "pendingRead" /\ ~PendingReadable(h)
  /\ PendingFailure(h)
  /\ UNCHANGED sharedVars

PendingLoaded(h, goals) == /\ pc[h] = "pendingRead" /\ goal[h] \in goals
                           /\ PendingReadable(h)
                           /\ UNCHANGED sharedVars

StillSource(h) == current.generation = source[h]
Activated(h) == current.generation = Candidate(h)
Matches(h) == owner[Candidate(h)] = op[h]

\* Mutant: any candidate is continued as a campaign.
ContinueAnything(h) ==
  IF Activated(h) THEN Finish(h, "activated")
  ELSE /\ op' = [op EXCEPT ![h] = owner[Candidate(h)]]
       /\ Goto(h, "publish")
       /\ UNCHANGED <<source, entry, seen, fence>>

\* continueAutomaticCampaign up to the first DNS write: the candidate must
\* change active bindings, and may already be current.
ContinueCampaign(h) ==
  IF owner[Candidate(h)] \notin RotateOps THEN Finish(h, "error")
  ELSE IF Activated(h) THEN Finish(h, "activated")
  ELSE /\ op' = [op EXCEPT ![h] = owner[Candidate(h)]]
       /\ Goto(h, "publish")
       /\ UNCHANGED <<source, entry, seen, fence>>

\* --auto takes over whatever exact candidate is stored.
ResumeAutomatic(h) ==
  /\ PendingLoaded(h, {"resume"}) /\ command[h] = "auto"
  /\ ContinueCampaign(h)

ResumeCreate(h) ==
  /\ PendingLoaded(h, {"resume"}) /\ command[h] = "resume"
  /\ op' = [op EXCEPT ![h] = owner[Candidate(h)]]
  /\ Goto(h, IF Activated(h) THEN "resumeActivated" ELSE "resumeStored")
  /\ UNCHANGED <<source, entry, seen, fence>>

\* StageCampaign returned, or its failure was reconciled by readback: only
\* then must the stored candidate be the one this host planned.
StagedAutomatic(h) ==
  /\ PendingLoaded(h, {"staged", "reconcileStage"}) /\ command[h] = "auto"
  /\ IF goal[h] = "reconcileStage" /\ ~Matches(h)
     THEN Finish(h, "error") ELSE ContinueCampaign(h)

StagedAdministrative(h) ==
  /\ PendingLoaded(h, {"staged", "reconcileStage"}) /\ command[h] = "admin"
  /\ IF Matches(h) /\ StillSource(h)
     THEN LoadPending(h, "commit") ELSE Finish(h, "error")

\* Mutant: the stored candidate need not be a create.
ValidateAnyResume(h) ==
  /\ pc[h] \in {"resumeStored", "resumeActivated"}
  /\ IF /\ HistoryReadable
        /\ AcceptableToPlanner(Present, schema, state, source[h])
        /\ PendingSuccessor(Present, source[h]) = Candidate(h)
     THEN LoadPending(h, IF pc[h] = "resumeStored"
                         THEN "refresh" ELSE "reconcileSwitch")
     ELSE Finish(h, "error")
  /\ UNCHANGED sharedVars

\* The stored create must match the request exactly and stand alone.
ValidateCreateResume(h) ==
  /\ pc[h] \in {"resumeStored", "resumeActivated"}
  /\ IF /\ HistoryReadable
        /\ AcceptableToPlanner(Present, schema, state, source[h])
        /\ PendingSuccessor(Present, source[h]) = Candidate(h)
        /\ op[h] \in CreateOps
     THEN LoadPending(h, IF pc[h] = "resumeStored"
                         THEN "refresh" ELSE "reconcileSwitch")
     ELSE Finish(h, "error")
  /\ UNCHANGED sharedVars

-----------------------------------------------------------------------------
(* Publication and proof, for campaigns only.                              *)

RecordsPublished(h) == /\ published' = published \cup {op[h]}
                       /\ UNCHANGED <<ldapVars, usedOps>>

Publish(h) == pc[h] = "publish" /\ RecordsPublished(h) /\ Proceed(h, "prove")

\* ProveAll runs before the refresh of the candidate and again after it.
Prove(h) ==
  /\ pc[h] \in {"prove", "finalProof"}
  /\ op[h] \in published
  /\ LoadPending(h, IF pc[h] = "prove" THEN "refresh" ELSE "commit")
  /\ UNCHANGED sharedVars

Refreshed(h) ==
  /\ PendingLoaded(h, {"refresh"})
  /\ IF ~(Matches(h) /\ StillSource(h)) THEN Finish(h, "error")
     ELSE IF command[h] = "auto" THEN Proceed(h, "finalProof")
     ELSE LoadPending(h, "commit")

-----------------------------------------------------------------------------
(* CommitCampaignAndSwitch.                                                *)

\* --create --resume-generation never trusts the result without a readback.
CommitReturned(h) == IF command[h] = "resume"
                     THEN LoadPending(h, "reconcileSwitch")
                     ELSE Finish(h, "activated")

CommitLoaded(h) ==
  /\ PendingLoaded(h, {"commit"})
  /\ IF ~Matches(h) THEN RecoverSwitch(h)
     ELSE IF Activated(h) THEN CommitReturned(h)
     ELSE Proceed(h, "readPointer")

\* Mutant: the source is never marked.
ReadPointerUnmarked(h) ==
  /\ pc[h] = "readPointer"
  /\ IF StillSource(h)
     THEN /\ fence' = [fence EXCEPT ![h] = current]
          /\ Goto(h, "seal")
          /\ UNCHANGED <<source, op, entry, seen>>
     ELSE RecoverSwitch(h)
  /\ UNCHANGED sharedVars

\* The exact pointer value read here is the one the switch will assert.
ReadPointer(h) ==
  /\ pc[h] = "readPointer"
  /\ IF StillSource(h)
     THEN /\ fence' = [fence EXCEPT ![h] = current]
          /\ Goto(h, IF current.schema = "v3" THEN "mark" ELSE "seal")
          /\ UNCHANGED <<source, op, entry, seen>>
     ELSE RecoverSwitch(h)
  /\ UNCHANGED sharedVars

\* Idempotent and add-only; a lost reply is reconciled by readback.
SourceMarked(h) ==
  /\ state[source[h]] = "committed" /\ fence[h] = PointerTo(source[h])
  /\ wasActive' = [wasActive EXCEPT ![source[h]] = TRUE]
  /\ UNCHANGED <<current, state, schema, owner, content, published, usedOps>>

MarkSourceWasActive(h) ==
  pc[h] = "mark" /\ SourceMarked(h) /\ Proceed(h, "seal")

\* Asserts the exact candidate commitment, still in staging.
SealAsserted(h) == state[Candidate(h)] = "staging" /\ Matches(h)

CandidateSealed(h) ==
  /\ seen[h] = "staging" /\ SealAsserted(h)
  /\ state' = [state EXCEPT ![Candidate(h)] = "committed"]
  /\ UNCHANGED <<current, schema, owner, content, wasActive, published, usedOps>>

\* Mutant: the pointer is switched before the candidate is committed.
SealForgotten(h) ==
  pc[h] = "seal" /\ seen[h] = "staging" /\ LoadPending(h, "sealed")
  /\ UNCHANGED sharedVars

Seal(h) ==
  pc[h] = "seal" /\ CandidateSealed(h) /\ LoadPending(h, "sealed")

\* Mutant: an already committed candidate is a conflict.
SealConflicts(h) ==
  /\ pc[h] = "seal" /\ seen[h] = "committed"
  /\ RecoverSwitch(h)
  /\ UNCHANGED sharedVars

SealSkipped(h) ==
  /\ pc[h] = "seal" /\ seen[h] = "committed"
  /\ LoadPending(h, "sealed")
  /\ UNCHANGED sharedVars

SealRefused(h) ==
  /\ pc[h] = "seal" /\ seen[h] = "staging" /\ ~SealAsserted(h)
  /\ RecoverSwitch(h)
  /\ UNCHANGED sharedVars

SealedLoaded(h) == PendingLoaded(h, {"sealed"}) /\ Proceed(h, "switch")

NewPointer(h) == [generation |-> Candidate(h), schema |-> "v3",
                  digest |-> op[h]]

PointerSwitched(h) ==
  /\ current = fence[h]
  /\ current' = NewPointer(h)
  /\ UNCHANGED <<state, schema, owner, content, wasActive, published, usedOps>>

SwitchCurrent(h) ==
  pc[h] = "switch" /\ PointerSwitched(h) /\ Proceed(h, "switchRead")

SwitchRefused(h) ==
  /\ pc[h] = "switch" /\ current # fence[h]
  /\ RecoverSwitch(h)
  /\ UNCHANGED sharedVars

SwitchRead(h) ==
  /\ pc[h] = "switchRead"
  /\ IF current = NewPointer(h) THEN LoadPending(h, "final")
                                ELSE RecoverSwitch(h)
  /\ UNCHANGED sharedVars

FinalLoaded(h) ==
  /\ PendingLoaded(h, {"final"})
  /\ IF Activated(h) /\ Matches(h) THEN CommitReturned(h) ELSE RecoverSwitch(h)

\* Mutant: a sealed candidate passes for an activated one.
SwitchAssumed(h) ==
  /\ PendingLoaded(h, {"reconcileSwitch"})
  /\ Finish(h, IF Matches(h) THEN "activated" ELSE "error")

SwitchReconciled(h) ==
  /\ PendingLoaded(h, {"reconcileSwitch"})
  /\ Finish(h, IF Activated(h) /\ Matches(h) THEN "activated" ELSE "error")

-----------------------------------------------------------------------------
(* Faults.                                                                 *)

Staging == {"stageCurrent", "stageHistory", "addRoot", "addEntry", "readback"}
Committing == {"readPointer", "mark", "seal", "switch", "switchRead"}

\* Where the code goes when the call of the current step returns an error.
Failure(h) ==
  \/ pc[h] \in Staging /\ RecoverStage(h)
  \/ pc[h] \in {"pendingHistory", "pendingRead"} /\ PendingFailure(h)
  \/ pc[h] \in Committing /\ RecoverSwitch(h)
  \/ pc[h] \in {"loadCurrent", "loadHistory", "resumeStored",
                "resumeActivated", "publish", "prove", "finalProof"}
     /\ Finish(h, "error")

\* The call had no effect.
CallFails(h) == Failure(h) /\ UNCHANGED sharedVars

\* The write took effect and its reply never came.
ReplyLost(h) ==
  /\ \/ pc[h] = "addRoot" /\ RootAdded(h)
     \/ pc[h] = "addEntry" /\ EntryAdded(h)
     \/ pc[h] = "publish" /\ RecordsPublished(h)
     \/ pc[h] = "mark" /\ SourceMarked(h)
     \/ pc[h] = "seal" /\ CandidateSealed(h)
     \/ pc[h] = "switch" /\ PointerSwitched(h)
  /\ Failure(h)

Crash(h) == pc[h] # "idle" /\ Finish(h, "crashed") /\ UNCHANGED sharedVars

Fault(h) == /\ faults < MaxFaults /\ faults' = faults + 1
            /\ CallFails(h) \/ ReplyLost(h) \/ Crash(h)

-----------------------------------------------------------------------------
StageStep(h) == \/ StageCurrent(h) \/ StageHistory(h) \/ AddRoot(h)
                \/ RootExists(h) \/ AddEntry(h) \/ Readback(h)
PlanStep(h) == \/ LoadCurrent(h) \/ FindPending(h) \/ Plan(h)
               \/ PlanNothing(h) \/ RejectHistory(h)
PendingStep(h) == \/ PendingHistory(h) \/ PendingRejected(h)
                  \/ ResumeAutomatic(h) \/ ResumeCreate(h)
                  \/ StagedAutomatic(h) \/ StagedAdministrative(h)
                  \/ ValidateCreateResume(h)
ProofStep(h) == Publish(h) \/ Prove(h) \/ Refreshed(h)
CommitStep(h) == \/ CommitLoaded(h) \/ ReadPointer(h)
                 \/ MarkSourceWasActive(h) \/ Seal(h) \/ SealSkipped(h)
                 \/ SealRefused(h) \/ SealedLoaded(h) \/ SwitchCurrent(h)
                 \/ SwitchRefused(h) \/ SwitchRead(h) \/ FinalLoaded(h)
                 \/ SwitchReconciled(h)

HostStep(h) == /\ \/ PlanStep(h) \/ StageStep(h) \/ PendingStep(h)
                  \/ ProofStep(h) \/ CommitStep(h)
               /\ UNCHANGED faults
StartAutomatic(h) == StartPlanner(h, "auto") /\ UNCHANGED faults
StartAdministrative(h) == StartPlanner(h, "admin") /\ UNCHANGED faults
ResumeByOperator(h, n) == StartResume(h, n) /\ UNCHANGED faults

Next == \E h \in Hosts :
  \/ StartAutomatic(h) \/ StartAdministrative(h)
  \/ \E n \in 2..MaxGeneration : ResumeByOperator(h, n)
  \/ HostStep(h) \/ Fault(h)

Spec == Init /\ [][Next]_vars

\* A started process runs on; the scheduled --auto keeps being started even
\* where operators run other commands in between.  Faults are finitely many.
FairSpec == /\ Spec
            /\ \A h \in Hosts : /\ WF_vars(HostStep(h))
                                /\ SF_vars(StartAutomatic(h))

\* An operator who keeps retrying --create --resume-generation n.
OperatorRetries == \A h \in Hosts, n \in 2..MaxGeneration :
                     SF_vars(ResumeByOperator(h, n))

-----------------------------------------------------------------------------
(* Properties.                                                             *)

TypeOK ==
  /\ current \in Pointers
  /\ state \in [Generations -> RootStates \cup {"absent"}]
  /\ schema \in [Generations -> {"none", "v2", "v3"}]
  /\ owner \in [Generations -> Identities]
  /\ content \in [Generations -> SUBSET (Entries \X Identities)]
  /\ wasActive \in [Generations -> BOOLEAN]
  /\ published \in SUBSET Ops /\ usedOps \in SUBSET Ops
  /\ pc \in [Hosts -> Controls] /\ command \in [Hosts -> Commands]
  /\ goal \in [Hosts -> Goals] /\ outcome \in [Hosts -> Outcomes]
  /\ source \in [Hosts -> 0..MaxGeneration]
  /\ op \in [Hosts -> Ops \cup {NoOp}]
  /\ entry \in [Hosts -> Entries]
  /\ seen \in [Hosts -> RootStates \cup {"absent"}]
  /\ fence \in [Hosts -> Pointers]
  /\ faults \in 0..MaxFaults

\* Whatever a host, a lost reply or a crash leaves behind, cn=current names a
\* committed root whose stored entries and digest are those it commits to.
CurrentComplete ==
  LET g == current.generation
  IN /\ state[g] = "committed" /\ Complete(g)
     /\ current = PointerTo(g)

\* At most one candidate exists, directly above current, however the hosts'
\* stale reads of current and of the root index interleave; everything else
\* is committed, and the index keeps the shape every reader demands.
OnePendingSuccessor ==
  /\ LegalShape(Present, schema)
  /\ \A g \in Present : /\ g <= current.generation + 1
                        /\ g <= current.generation => state[g] = "committed"

\* Entries of two hosts never meet below one root, although a host adds them
\* one by one long after it read the index.
NoMixedGeneration == \A g \in Generations : content[g] \subseteq Entries \X {owner[g]}

\* A generation that changes active keys becomes current only after both DNS
\* channels showed its records, whichever host published and whichever
\* switched.
ActivatedKeysPublished ==
  \A g \in 1..current.generation : owner[g] \in RotateOps => owner[g] \in published

\* The was-active marker is exact evidence for retirement and retention:
\* every v3 root the pointer has left carries it, and no root above current.
ActivationEvidence ==
  \A g \in Generations :
    /\ g < current.generation /\ schema[g] = "v3" => wasActive[g]
    /\ wasActive[g] => g <= current.generation

\* A committed root is immutable: no late add, seal or retry touches its
\* commitment or its entries.
CommittedIsFrozen ==
  [][\A g \in Generations : state[g] = "committed" =>
       /\ state'[g] = "committed"
       /\ <<schema'[g], owner'[g], content'[g]>>
            = <<schema[g], owner[g], content[g]>>]_vars

\* The pointer moves one generation at a time, never back, never twice to one
\* number, although every switching host asserts a value it read long before.
PointerAdvances ==
  [][current' # current =>
       /\ current'.generation = current.generation + 1
       /\ state[current'.generation] = "committed"]_vars

\* A host that reports activation leaves its own candidate current or already
\* superseded, even when the reply of its switch was lost.
ReportedActivationHolds ==
  [][\A h \in Hosts : pc[h] # "idle" /\ outcome'[h] = "activated" =>
       /\ Candidate(h) <= current'.generation
       /\ op[h] \in {NoOp, owner'[Candidate(h)]}]_vars

\* An interrupted --active is never completed by another run: neither --auto
\* nor --create --resume-generation accepts its candidate.
OnlyItsRunActivates ==
  [][\A g \in Generations :
       current.generation < g /\ g <= current'.generation /\ owner'[g] \in ActivateOps
       => \E h \in Hosts : command[h] = "admin" /\ op[h] = owner'[g]]_vars

CompletelyStaged(g, kind) ==
  /\ g = current.generation + 1 /\ state[g] # "absent"
  /\ owner[g] \in kind /\ Complete(g)

\* Once faults stop, scheduled --auto runs finish a campaign whose candidate
\* was completely staged, whatever host staged it and wherever it stopped.
CampaignProgress ==
  \A g \in Generations : CompletelyStaged(g, RotateOps) ~> g <= current.generation

\* Once faults stop, an operator who retries --create --resume-generation n
\* activates an interrupted create, although every --auto run in between
\* finds the candidate and must refuse it.
CreateProgress ==
  OperatorRetries =>
    \A g \in Generations : CompletelyStaged(g, CreateOps) ~> g <= current.generation

-----------------------------------------------------------------------------
(* Campaign activation implements the generation log.                      *)

Log == INSTANCE GenerationLog WITH
         Campaigns <- RotateOps, Additions <- AdminOps, First <- Genesis,
         None <- NoOp, LastNumber <- MaxGeneration,
         reserved <- owner,
         sealed <- {g \in Generations : state[g] = "committed"},
         active <- current.generation,
         public <- published

\* Staging, resuming, sealing and switching by any number of hosts, with
\* every fault, looks like one log to whoever reads the dataset.
ImplementsLog == Log!LogSpec
=============================================================================
