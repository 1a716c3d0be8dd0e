--------------------------- MODULE ManualInvariant ---------------------------
(***************************************************************************)
(* The inductive invariant of ManualLifecycle: what the directory and the  *)
(* records look like between any two calls, and what a command may rely on *)
(* at each of its steps although others have moved since its reads.        *)
(***************************************************************************)
EXTENDS ManualLifecycle

-----------------------------------------------------------------------------
(* The directory.                                                          *)

\* Before the first switch there is at most the first root.
Beginning ==
  /\ pointer.state = "absent" => DOMAIN roots = {}
  /\ pointer.state # "committed" =>
       pointer.number = 1 /\ ~pointer.native /\ DOMAIN roots \subseteq {1}

\* No hole and nothing unfinished up to current.
BelowCurrent ==
  pointer.state = "committed" =>
    \A n \in 1..pointer.number : n \in DOMAIN roots /\ roots[n].state = "committed"

\* A binding is created inactive, and keeps its first key until activation.
InactivePrefix ==
  /\ 1 \in DOMAIN roots => ~roots[1].active
  /\ \A n \in DOMAIN roots : ~roots[n].active =>
       \A m \in 1..n : ~roots[m].active /\ roots[m].key = roots[n].key

DirectoryInv == Beginning /\ BelowCurrent /\ InactivePrefix

-----------------------------------------------------------------------------
(* The records.                                                            *)

\* Nothing is retired before the activation, so no answer is out of date.
NothingStale ==
  pointer.state # "committed" \/ ~Current.active => recursive \subseteq dns

RecordsInv == NothingStale /\ ActivePublished

-----------------------------------------------------------------------------
(* The commands.                                                           *)

Owning == {"stored", "staged", "publish", "prove", "refresh", "reprove",
           "commit", "switch"}
Staging == {"recheck", "add", "fill"} \cup Owning
Retiring == {"fence", "delete"}

WorkInv(p) ==
  At(p, "publish") \/ At(p, "announce") \/ job[p].pc \in Retiring =>
    job[p].todo # {}

\* A candidate is planned right above a generation that was current.
PlanInv(p) ==
  LET j == job[p]
  IN /\ At(p, "reserve") => j.cmd = "create" /\ j.number = 1 /\ ~j.active
     /\ j.pc \in Staging =>
          /\ j.cmd \in {"create", "rotate", "rollback"}
          /\ j.cmd # "create" => j.active
          /\ j.number = 1 => /\ ~j.active /\ pointer.state # "absent"
                             /\ j.cmd = "create" /\ j.pc # "recheck"
          /\ j.number > 1 => /\ pointer.state = "committed"
                             /\ j.number <= pointer.number + 1

\* A creation or an activation carries the key of its predecessor over.
CarriedInv(p) ==
  LET j == job[p]
  IN j.pc \in Staging /\ j.cmd = "create" /\ j.number > 1 =>
       /\ roots[j.number - 1].key = j.key
       /\ ~j.active => ~roots[j.number - 1].active

\* The candidate is the own one, and as complete as the step says.
OwnInv(p) ==
  LET j == job[p]
  IN /\ j.pc \in Owning \cup {"fill"} =>
          /\ j.number \in DOMAIN roots
          /\ roots[j.number].key = j.key /\ roots[j.number].active = j.active
          /\ roots[j.number].state = "partial" <=> j.pc = "fill"
     /\ At(p, "switch") => roots[j.number].state = "committed"

\* What was proved before a switch stays proved until another one overtakes
\* it, unless a delete was overtaken.
ReadyInv(p) ==
  LET j == job[p]
  IN raced \/ j.number <= pointer.number \/
       /\ (At(p, "commit") \/ At(p, "switch")) /\ j.cmd # "create" => Answered(j.key)
       /\ j.pc \in Staging /\ j.cmd = "create" /\ j.active =>
            RecordsOf(j.key) \subseteq dns

\* A retirement removes the key that its generation replaced, and the overlap
\* has passed while that generation is current.
RetirementInv(p) ==
  LET j == job[p]
  IN j.pc \in Retiring =>
       /\ pointer.state = "committed" /\ j.number <= pointer.number
       /\ RotatedOne(j.number) /\ j.key = roots[j.number - 1].key
       /\ pointer.number = j.number => age >= Overlap

JobInv(p) ==
  /\ WorkInv(p) /\ PlanInv(p) /\ CarriedInv(p) /\ OwnInv(p) /\ ReadyInv(p)
  /\ RetirementInv(p)

\* Only one process completes a root.
OneFiller ==
  \A p, q \in Procs : At(p, "fill") /\ At(q, "fill") /\ p # q =>
    job[p].number # job[q].number

ManualInv ==
  /\ TypeOK /\ DirectoryInv /\ RecordsInv /\ OneFiller
  /\ \A p \in Procs : JobInv(p)
=============================================================================
