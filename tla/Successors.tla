----------------------------- MODULE Successors -----------------------------
(***************************************************************************)
(* The chain of generations that the planners build, one successor at a    *)
(* time.  A command plans a successor and stages it; whichever command     *)
(* comes next judges the staged root by its own validator, from what is    *)
(* retained.  How the root reaches the directory and becomes current is    *)
(* the matter of CampaignActivation and ManualLifecycle; here staging and  *)
(* commitment are one step each.                                           *)
(***************************************************************************)
EXTENDS Generations

CONSTANTS
  Reserve,     \* generations below current that retention keeps
  LastNumber,  \* bound on generation numbers
  MaxTime      \* bound on the clock

ASSUME SuccessorsAssumption ==
  Reserve \in Nat /\ LastNumber \in Nat \ {0} /\ MaxTime \in Nat

VARIABLES
  roots,    \* the retained roots: number to creation time, format, content
  current,  \* the number signers use, 0 before the first
  now,
  plan      \* what the newest root was planned as

vars == <<roots, current, now, plan>>

Kinds == {"none", "create", "activate", "rotate", "campaign", "extension",
          "rollback"}
Content == roots[current].content
Candidate == roots[current + 1]
Pending == current + 1 \in DOMAIN roots
Native == {n \in DOMAIN roots : roots[n].native}
Used == UNION {Ids(roots[n].content) : n \in DOMAIN roots}

Init == /\ roots = <<>> /\ current = 0 /\ now = 0
        /\ plan = [kind |-> "none", of |-> {}, algorithms |-> {}, source |-> 0]

\* No mutation plans above a root that is not current, and none publishes an
\* earlier format above a native root: no reader accepts that.
Stage(native, kind, S, algorithms, source, content) ==
  /\ Native = {} \/ native
  /\ ~Pending /\ current < LastNumber /\ Complete(content)
  /\ roots' = [n \in DOMAIN roots \cup {current + 1} |->
                 IF n = current + 1
                 THEN [created |-> now, native |-> native, content |-> content]
                 ELSE roots[n]]
  /\ plan' = [kind |-> kind, of |-> S, algorithms |-> algorithms,
              source |-> source]
  /\ UNCHANGED <<current, now>>

Create(S, algorithms) ==
  LET content == IF current = 0 THEN <<>> ELSE Content
  IN /\ S # {} /\ algorithms # {} /\ S \cap DOMAIN content = {}
     /\ \E native \in BOOLEAN :
          /\ current = 0 => ~native
          /\ Stage(native, "create", S, algorithms, 0,
                   PlanCreate(content, S, algorithms, Used))

Activate(b, rollout) ==
  /\ current > 0 /\ b \in DOMAIN Content
  /\ \E native \in BOOLEAN :
       Stage(native, "activate", {b}, {}, 0, PlanActivation(Content, b, rollout))

Rotate(b, algorithms) ==
  /\ current > 0 /\ CanRotate(Content, b, algorithms)
  /\ Stage(FALSE, "rotate", {b}, algorithms, 0,
           PlanRotation(Content, b, algorithms, Used))

Campaign ==
  /\ current > 0
  /\ LET due == Due(roots, Content, now)
     IN /\ CanCampaign(Content, due)
        /\ Stage(TRUE, "campaign", due, {}, 0,
                 PlanGlobalRotation(Content, due, Used))

Extend(algorithms) ==
  /\ current > 0 /\ CanExtend(Content, algorithms)
  /\ Stage(TRUE, "extension", Active(Content), algorithms, 0,
           PlanGlobalExtension(Content, algorithms, Used))

RollBack(b, source) ==
  /\ current > 0 /\ source < current
  /\ CanRollBack(Content, roots[source].content, b)
  /\ Stage(FALSE, "rollback", {b}, {}, source,
           Rebase(Content, roots[source].content, b))

\* What --auto takes up: a native root, by the commitment that only those
\* carry, whose diff is that of a campaign and is not empty.  With a key type
\* the diff has to be that of the extension as well.
AutoResumes ==
  /\ Candidate.native /\ CampaignIntent(Content, Candidate.content)
  /\ Differing(Content, Candidate.content) # {}
ExtensionResumes(set) ==
  AutoResumes /\ ExtensionIntent(Content, Candidate.content, set)

\* What --create takes up: a native root that is what the request would plan.
CreateResumes(S, set) ==
  Candidate.native /\ CreateIntent(roots, current, current + 1, S, set)

\* Rotation and rollback look at the content alone, in either format.
RotationResumes(b) == RotationIntent(roots, current, current + 1, b)
RollbackResumes(b, source) ==
  RollbackIntent(roots, current, current + 1, source, b)

Commit == /\ Pending /\ current' = current + 1
          /\ UNCHANGED <<roots, now, plan>>

\* Retention removes the oldest native root below its reserve.  Earlier roots
\* are never purged.
Removed(S) == roots' = [n \in DOMAIN roots \ S |-> roots[n]]
Reserved(n) == n + Reserve >= current
Purge == /\ ~Pending
         /\ {n \in Native : ~Reserved(n)} # {}
         /\ Removed({Lowest({n \in Native : ~Reserved(n)})})
         /\ UNCHANGED <<current, now, plan>>

Tick == /\ now < MaxTime /\ now' = now + 1
        /\ UNCHANGED <<roots, current, plan>>

Next == \/ \E S \in SUBSET Bindings, algorithms \in SUBSET Algorithms :
             Create(S, algorithms)
        \/ \E b \in Bindings, rollout \in {"enforce", "observe"} : Activate(b, rollout)
        \/ \E b \in Bindings, algorithms \in SUBSET Algorithms : Rotate(b, algorithms)
        \/ Campaign
        \/ \E algorithms \in SUBSET Algorithms : Extend(algorithms)
        \/ \E b \in Bindings, source \in DOMAIN roots : RollBack(b, source)
        \/ Commit \/ Purge \/ Tick

Spec == Init /\ [][Next]_vars

-----------------------------------------------------------------------------
(* Properties                                                              *)

\* Among the retained roots a selector belongs to one binding and algorithm
\* for good, and only a rollback brings one back: any other successor takes
\* none that an older root knows, although the current one has forgotten it.
SelectorsStayUnique ==
  /\ \A m, n \in DOMAIN roots :
       \A b \in DOMAIN roots[m].content, d \in DOMAIN roots[n].content :
         \A e \in DOMAIN roots[m].content[b].keys,
            f \in DOMAIN roots[n].content[d].keys :
           roots[m].content[b].keys[e] = roots[n].content[d].keys[f] =>
             b = d /\ e = f
  /\ Pending /\ current > 0 /\ plan.kind # "rollback" =>
       \A n \in DOMAIN roots \ {current + 1} :
         Ids(Candidate.content) \cap Ids(roots[n].content) \subseteq Ids(Content)

\* --auto takes up campaigns and extensions and nothing else: no rotation or
\* rollback, no creation, and no activation, not even one that changes nothing.
\* What it finds changed is what was planned.  With a key type it takes up an
\* extension under the set planned for alone, and a campaign that renewed every
\* active binding, if each of them had just that set before.
CampaignRecognised ==
  Pending /\ current > 0 =>
    /\ AutoResumes <=> plan.kind \in {"campaign", "extension"}
    /\ AutoResumes => Differing(Content, Candidate.content) = plan.of
    /\ plan.kind = "extension" =>
         \A set \in SUBSET Algorithms : ExtensionResumes(set) <=> set = plan.algorithms
    /\ plan.kind = "campaign" =>
         \A set \in SUBSET Algorithms : ExtensionResumes(set) =>
           /\ plan.of = Active(Content)
           /\ \A b \in plan.of : DOMAIN Content[b].keys = set

\* A rotation of an enforced binding is resumed as one.  What passes for a
\* rotation of a binding is one, or a campaign or extension that changed this
\* binding alone; a rollback does not, so none goes on without its source.
OnlyRotationsResumeAsRotations ==
  \A b \in Bindings :
    Pending /\ current > 0 /\ RotationResumes(b) =>
      plan.kind \in {"rotate", "campaign", "extension"} /\ plan.of = {b}
EnforcedRotationResumes ==
  Pending /\ plan.kind = "rotate" =>
    \A b \in plan.of : Content[b].rollout = "enforce" => RotationResumes(b)

\* A rollback is resumed under the source it was planned from.  What passes for
\* a rollback of a binding is one, under a source that has the binding as the
\* planned source has it, or an activation of this binding that restores a
\* rollout it had before under the keys it has now.
OnlyRollbacksResumeAsRollbacks ==
  Pending /\ current > 0 =>
    /\ plan.kind = "rollback" => \A b \in plan.of : RollbackResumes(b, plan.source)
    /\ \A b \in Bindings, source \in DOMAIN roots : RollbackResumes(b, source) =>
         /\ plan.of = {b}
         /\ \/ /\ plan.kind = "rollback"
               /\ roots[source].content[b] = roots[plan.source].content[b]
            \/ /\ plan.kind = "activate"
               /\ roots[source].content[b].keys = Content[b].keys

\* A native creation is resumed by the request it was planned from and by no
\* other; nothing else passes for a creation.  The resume holds a request to the
\* limit of campaigns, to which the plan was not held: one that is larger is
\* staged and cannot be resumed.
CreationResumesByItsRequest ==
  Pending /\ current > 0 =>
    \A S \in SUBSET Bindings, set \in SUBSET Algorithms :
      CreateResumes(S, set) <=>
        /\ plan.kind = "create" /\ S = plan.of /\ set = plan.algorithms
        /\ Candidate.native /\ Cardinality(S) <= MaxBindings

\* What each resume makes of a staged root.  Campaigns, extensions, rotations of
\* an enforced binding, rollbacks and native creations within the limit are
\* resumed by the command that planned them, for what they were planned for.
\* Another command takes them up in three cases only: as a rotation, a campaign
\* or extension of one enforced binding; as a rollback, an activation back to an
\* earlier rollout, which moves no key; and as an extension, a campaign after
\* which every active binding has the requested set.
ResumeMatchesPlan ==
  /\ CampaignRecognised
  /\ OnlyRotationsResumeAsRotations /\ EnforcedRotationResumes
  /\ OnlyRollbacksResumeAsRollbacks /\ CreationResumesByItsRequest

\* Retirement of the predecessor removes exactly the credentials that the
\* current generation no longer has, and none that it still uses.
RetirementIsTheDifference ==
  ~Pending /\ current > 1 /\ current - 1 \in DOMAIN roots =>
    LET old == roots[current - 1].content
    IN Retirable(old, Content) =>
         Retiring(old, Content) = Ids(old) \ Ids(Content)

\* A key keeps its age through every successor that carries it over: work on
\* other bindings never restarts the rotation clock of this one.
Staged == ~Pending /\ Pending' /\ current > 0
AgeSurvivesSuccessors ==
  [][Staged => \A b \in Active(Content) \cap Active(Candidate'.content) : Candidate'.content[b].keys = Content[b].keys => Since(roots', Candidate'.content, b) = Since(roots, Content, b)]_vars
=============================================================================
