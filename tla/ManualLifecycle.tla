--------------------------- MODULE ManualLifecycle ---------------------------
(***************************************************************************)
(* The commands an operator runs by hand on one binding: first creation,   *)
(* administrative publication, --rotate, --rollback-from-generation, the   *)
(* resume of both, --retire-generation and --observe.  They write roots of *)
(* the earlier format, one LDAP or DNS call per step, and any of them may  *)
(* stop between two steps.  A native campaign is one step here; its own    *)
(* steps are those of CampaignActivation, those of a DNS exchange those of *)
(* DnsRecords.                                                             *)
(*                                                                         *)
(* The content of a generation is the key set of the binding and whether   *)
(* it is active; a key set is named by the number and the process it was   *)
(* planned for, and has one DNS record per algorithm.                      *)
(***************************************************************************)
EXTENDS Naturals, FiniteSets

CONSTANTS
  Procs,       \* processes; commands of one process exclude each other
  Algorithms,  \* signing algorithms, as numbers
  LastNumber,  \* the last generation number
  Overlap,     \* least time between activation and retirement
  MaxCrashes,  \* bound on interrupted commands
  Campaigns    \* whether native campaigns run beside these commands

ASSUME ManualAssumption ==
  /\ Procs \subseteq Nat \ {0} /\ IsFiniteSet(Procs)
  /\ Algorithms \subseteq Nat \ {0} /\ IsFiniteSet(Algorithms)
  /\ Algorithms # {}
  /\ LastNumber \in Nat \ {0} /\ Overlap \in Nat \ {0}
  /\ MaxCrashes \in Nat /\ Campaigns \in BOOLEAN

VARIABLES
  roots,      \* retained roots: number to key, active, state and native
  pointer,    \* cn=current: number, state and native
  age,        \* time since the pointer moved, at most Overlap
  dns,        \* records on the authoritative server
  recursive,  \* records the recursive resolver answers with
  crashes,
  raced,      \* history: a delete went on after its fence had fallen
  job         \* what each process is doing

directory == <<roots, pointer, age>>
vars == <<roots, pointer, age, dns, recursive, crashes, raced, job>>

Numbers == 1..LastNumber
Keys == Numbers \X (Procs \cup {0})
Records == Keys \X Algorithms
RecordsOf(key) == {key} \X Algorithms
Low(S) == CHOOSE a \in S : \A b \in S : a <= b

Idle == [cmd |-> "none", pc |-> "idle", number |-> 1, key |-> <<1, 0>>,
         active |-> FALSE, todo |-> {}]
Absent == [number |-> 1, state |-> "absent", native |-> FALSE]

Init == /\ roots = <<>> /\ pointer = Absent /\ age = 0
        /\ dns = {} /\ recursive = {} /\ crashes = 0 /\ raced = FALSE
        /\ job = [p \in Procs |-> Idle]

-----------------------------------------------------------------------------
(* What the readers accept                                                 *)

Current == roots[pointer.number]
CurrentLoads ==
  /\ pointer.state = "committed" /\ pointer.number \in DOMAIN roots
  /\ Current.state = "committed"

\* Complete generations, the native ones above those of the earlier format.
History ==
  /\ \A n \in DOMAIN roots : roots[n].state # "partial"
  /\ \A m, n \in DOMAIN roots : m < n /\ roots[m].native => roots[n].native

\* Nothing above current, and nothing uncommitted: no successor pending.
NoSuccessor ==
  /\ History /\ CurrentLoads
  /\ \A n \in DOMAIN roots :
       n <= pointer.number /\ roots[n].state = "committed"
AtMaximum(n) == NoSuccessor /\ pointer.number = n

\* A pending read of candidate c: alone above its predecessor, current or not.
LoadPending(c) ==
  /\ History /\ c - 1 \in DOMAIN roots /\ c \in DOMAIN roots
  /\ \A n \in DOMAIN roots : n <= c /\ (n # c => roots[n].state = "committed")
  /\ pointer.state = "committed" /\ pointer.number \in {c - 1, c}
  /\ pointer.number = c => roots[c].state = "committed"

\* The diff of a rotation: one active binding with every key replaced.
RotatedOne(n) ==
  /\ n - 1 \in DOMAIN roots /\ n \in DOMAIN roots
  /\ roots[n].active /\ roots[n - 1].active
  /\ roots[n].key # roots[n - 1].key
RotationIntent(c) ==
  RotatedOne(c) /\ \A n \in DOMAIN roots : n < c => roots[n].key # roots[c].key

\* Mutant: the recursive resolver is not asked.
ProvenByAuthority(key) == RecordsOf(key) \subseteq dns
Proven(key) == RecordsOf(key) \subseteq dns \cap recursive

-----------------------------------------------------------------------------
(* Helpers                                                                 *)

At(p, pc) == job[p].pc = pc
To(p, pc) == job' = [job EXCEPT ![p].pc = pc]
End(p) == job' = [job EXCEPT ![p] = Idle]
Start(p, j) == At(p, "idle") /\ job' = [job EXCEPT ![p] = j]

HasNext(n) == n < LastNumber

Planned(p, cmd, key, active) ==
  [cmd |-> cmd, pc |-> "recheck", number |-> pointer.number + 1, key |-> key,
   active |-> active, todo |-> {}]

\* What Stage or, after an error, a pending read gave is the own candidate.
\* Mutant: whatever stands at the number is taken for it.
PreparedAny(p) == LoadPending(job[p].number)
Prepared(p) ==
  LET c == job[p].number
  IN /\ LoadPending(c) /\ pointer.number = c - 1
     /\ roots[c].key = job[p].key /\ roots[c].active = job[p].active
     /\ roots[c].state = "staging"

-----------------------------------------------------------------------------
(* Commands begin                                                          *)

\* The first creation finds neither pointer nor roots.
Bootstrap(p) ==
  /\ pointer = Absent /\ DOMAIN roots = {}
  /\ Start(p, [Idle EXCEPT !.cmd = "create", !.pc = "reserve", !.key = <<1, p>>])
  /\ UNCHANGED <<directory, dns, recursive, crashes, raced>>

\* An activation looks every record up first; the creation or activation of
\* another binding carries this one over.
\* Mutant: no lookup.
ActivationUnproven(active) == Current.active => active
ActivationProven(active) ==
  /\ Current.active => active
  /\ active /\ ~Current.active => RecordsOf(Current.key) \subseteq recursive
Administer(p, active) ==
  /\ AtMaximum(pointer.number) /\ HasNext(pointer.number)
  /\ ActivationProven(active)
  /\ Start(p, Planned(p, "create", Current.key, active))
  /\ UNCHANGED <<directory, dns, recursive, crashes, raced>>

Rotate(p) ==
  /\ AtMaximum(pointer.number) /\ HasNext(pointer.number) /\ Current.active
  /\ Start(p, Planned(p, "rotate", <<pointer.number + 1, p>>, TRUE))
  /\ UNCHANGED <<directory, dns, recursive, crashes, raced>>

RollBack(p, source) ==
  /\ AtMaximum(pointer.number) /\ HasNext(pointer.number) /\ Current.active
  /\ source < pointer.number /\ roots[source].active
  /\ roots[source].key # Current.key
  /\ Start(p, Planned(p, "rollback", roots[source].key, TRUE))
  /\ UNCHANGED <<directory, dns, recursive, crashes, raced>>

\* The stored candidate is judged again, then its DNS work starts over.
Continue(p, cmd) ==
  LET c == pointer.number + 1
  IN /\ Start(p, [cmd |-> cmd, pc |-> "publish", number |-> c,
                  key |-> roots[c].key, active |-> TRUE, todo |-> Algorithms])
     /\ UNCHANGED <<directory, dns, recursive, crashes, raced>>
Resume(p) ==
  LET c == pointer.number + 1
  IN LoadPending(c) /\ RotationIntent(c) /\ Continue(p, "rotate")
ResumeRollBack(p, source) ==
  LET c == pointer.number + 1
  IN /\ LoadPending(c) /\ RotatedOne(c) /\ source < pointer.number
     /\ roots[source].active /\ roots[source].key = roots[c].key
     /\ Continue(p, "rollback")

-----------------------------------------------------------------------------
(* Publication in LDAP                                                     *)

\* The pointer entry is the fence of the first publication.
Reserve(p) ==
  /\ At(p, "reserve")
  /\ IF pointer = Absent /\ DOMAIN roots = {}
     THEN /\ pointer' = [Absent EXCEPT !.state = "staging"]
          /\ To(p, "add")
     ELSE End(p) /\ UNCHANGED pointer
  /\ UNCHANGED <<roots, age, dns, recursive, crashes, raced>>

\* Staging reads current and history again; publication only current.
Recheck(p) ==
  /\ At(p, "recheck")
  /\ IF IF job[p].cmd = "create"
        THEN CurrentLoads /\ pointer.number = job[p].number - 1
        ELSE AtMaximum(job[p].number - 1)
     THEN To(p, "add") ELSE End(p)
  /\ UNCHANGED <<directory, dns, recursive, crashes, raced>>

\* LDAP adds an entry only where there is none.  After the error of a lost
\* race a stored candidate equal to the own one is taken over.
AddRoot(p) ==
  /\ At(p, "add")
  /\ LET j == job[p]
     IN IF j.number \notin DOMAIN roots
        THEN /\ roots' = [n \in DOMAIN roots \cup {j.number} |->
                            IF n = j.number
                            THEN [key |-> j.key, active |-> j.active,
                                  state |-> "partial", native |-> FALSE]
                            ELSE roots[n]]
             /\ To(p, "fill")
        ELSE /\ IF j.cmd # "create" /\ Prepared(p) THEN To(p, "staged") ELSE End(p)
             /\ UNCHANGED roots
  /\ UNCHANGED <<pointer, age, dns, recursive, crashes, raced>>

\* The other entries; only then does the generation read back.
Fill(p) ==
  /\ At(p, "fill") /\ roots' = [roots EXCEPT ![job[p].number].state = "staging"]
  /\ To(p, "stored")
  /\ UNCHANGED <<pointer, age, dns, recursive, crashes, raced>>
Stored(p) ==
  /\ At(p, "stored")
  /\ IF job[p].cmd = "create" THEN To(p, "commit")
     ELSE IF Prepared(p) THEN To(p, "staged") ELSE End(p)
  /\ UNCHANGED <<directory, dns, recursive, crashes, raced>>

\* With --prepare-only the command ends here.
Staged(p) ==
  /\ At(p, "staged")
  /\ \/ End(p)
     \/ job' = [job EXCEPT ![p].pc = "publish", ![p].todo = Algorithms]
  /\ UNCHANGED <<directory, dns, recursive, crashes, raced>>

\* Publishes one record after the other; a record that is there is enough.
Publish(p) ==
  /\ At(p, "publish") \/ At(p, "announce")
  /\ LET rest == job[p].todo \ {Low(job[p].todo)}
     IN /\ dns' = dns \cup {<<job[p].key, Low(job[p].todo)>>}
        /\ job' = [job EXCEPT ![p] =
             IF rest # {} THEN [@ EXCEPT !.todo = rest]
             ELSE IF @.pc = "announce" THEN Idle
             ELSE [@ EXCEPT !.todo = {}, !.pc = "prove"]]
  /\ UNCHANGED <<directory, recursive, crashes, raced>>

\* Both proofs poll the two channels until all records are there, or give up.
Prove(p) ==
  /\ \/ At(p, "prove") /\ (IF Proven(job[p].key) THEN To(p, "refresh") ELSE End(p))
     \/ At(p, "reprove") /\ (IF Proven(job[p].key) THEN To(p, "commit") ELSE End(p))
  /\ UNCHANGED <<directory, dns, recursive, crashes, raced>>

Refresh(p) ==
  /\ At(p, "refresh")
  /\ IF /\ LoadPending(job[p].number) /\ pointer.number = job[p].number - 1
        /\ roots[job[p].number].key = job[p].key
     THEN To(p, "reprove") ELSE End(p)
  /\ UNCHANGED <<directory, dns, recursive, crashes, raced>>

\* A committed candidate that no pointer names goes straight to the switch.
\* Mutant: only a staging candidate is carried on.
CommittableStaging(p) ==
  LET c == job[p].number
  IN ~roots[c].native /\ roots[c].state = "staging"
Committable(p) ==
  LET c == job[p].number
  IN /\ ~roots[c].native
     /\ IF job[p].cmd = "create" THEN roots[c].state = "staging"
        ELSE LoadPending(c) /\ pointer.number = c - 1
Commit(p) ==
  /\ At(p, "commit")
  /\ IF Committable(p)
     THEN /\ roots' = [roots EXCEPT ![job[p].number].state = "committed"]
          /\ To(p, "switch")
     ELSE End(p) /\ UNCHANGED roots
  /\ UNCHANGED <<pointer, age, dns, recursive, crashes, raced>>

\* The assertion of the switch: current is what the candidate was planned on.
\* Mutant: it is not evaluated.
UnassertedSwitch(c) == TRUE
SwitchAsserted(c) ==
  IF c = 1 THEN pointer = [Absent EXCEPT !.state = "staging"]
  ELSE pointer = [number |-> c - 1, state |-> "committed", native |-> FALSE]
Switch(p) ==
  /\ At(p, "switch")
  /\ IF SwitchAsserted(job[p].number)
     THEN /\ pointer' = [number |-> job[p].number, state |-> "committed",
                         native |-> FALSE]
          /\ age' = 0
          /\ \/ End(p)
             \/ /\ job[p].number = 1  \* --update-dns
                /\ job' = [job EXCEPT ![p].pc = "announce", ![p].todo = Algorithms]
     ELSE End(p) /\ UNCHANGED <<pointer, age>>
  /\ UNCHANGED <<roots, dns, recursive, crashes, raced>>

-----------------------------------------------------------------------------
(* Retirement                                                              *)

OldKey == roots[pointer.number - 1].key

\* The evidence of --retire-generation.  The activation time is read with a
\* filter on the earlier format.
ActivationReadable == ~pointer.native
\* Mutants: no overlap, and a partial retirement that is never resumed.
RetireReadyAtOnce(resume) ==
  /\ NoSuccessor /\ RotatedOne(pointer.number) /\ ActivationReadable
  /\ Proven(Current.key)
  /\ resume \/ RecordsOf(OldKey) \subseteq dns
RetireReadyWhole(resume) ==
  /\ NoSuccessor /\ RotatedOne(pointer.number) /\ ActivationReadable
  /\ age >= Overlap /\ Proven(Current.key) /\ RecordsOf(OldKey) \subseteq dns
RetireReady(resume) ==
  /\ NoSuccessor /\ RotatedOne(pointer.number) /\ ActivationReadable
  /\ age >= Overlap /\ Proven(Current.key)
  /\ resume \/ RecordsOf(OldKey) \subseteq dns

Retire(p, resume) ==
  /\ RetireReady(resume)
  /\ LET todo == {a \in Algorithms : <<OldKey, a>> \in dns}
     IN /\ todo # {}
        /\ Start(p, [cmd |-> "retire", pc |-> "fence", number |-> pointer.number,
                     key |-> OldKey, active |-> TRUE, todo |-> todo])
  /\ UNCHANGED <<directory, dns, recursive, crashes, raced>>

\* Read before every delete: no successor, and the pointer did not move.
Fenced(p) ==
  NoSuccessor /\ pointer.number = job[p].number /\ ActivationReadable
Fence(p) ==
  /\ At(p, "fence") /\ (IF Fenced(p) THEN To(p, "delete") ELSE End(p))
  /\ UNCHANGED <<directory, dns, recursive, crashes, raced>>
Delete(p) ==
  /\ At(p, "delete")
  /\ LET rest == job[p].todo \ {Low(job[p].todo)}
     IN /\ dns' = dns \ {<<job[p].key, Low(job[p].todo)>>}
        /\ job' = [job EXCEPT ![p] = IF rest = {} THEN Idle
                                     ELSE [@ EXCEPT !.todo = rest, !.pc = "fence"]]
  /\ raced' = (raced \/ ~Fenced(p))
  /\ UNCHANGED <<directory, recursive, crashes>>

-----------------------------------------------------------------------------
(* The environment                                                         *)

Crash(p) == /\ ~At(p, "idle") /\ crashes < MaxCrashes /\ crashes' = crashes + 1
            /\ End(p) /\ UNCHANGED <<directory, dns, recursive, raced>>

Refetch(r) ==
  /\ r \in dns <=> r \notin recursive
  /\ recursive' = IF r \in dns THEN recursive \cup {r} ELSE recursive \ {r}
  /\ UNCHANGED <<directory, dns, crashes, raced, job>>

Tick == /\ age < Overlap /\ age' = age + 1
        /\ UNCHANGED <<roots, pointer, dns, recursive, crashes, raced, job>>

Campaign ==
  /\ Campaigns /\ AtMaximum(pointer.number) /\ HasNext(pointer.number)
  /\ Current.active
  /\ LET n == pointer.number + 1
     IN /\ roots' = [m \in DOMAIN roots \cup {n} |->
                       IF m = n THEN [key |-> <<n, 0>>, active |-> TRUE,
                                      state |-> "committed", native |-> TRUE]
                       ELSE roots[m]]
        /\ pointer' = [number |-> n, state |-> "committed", native |-> TRUE]
        /\ dns' = dns \cup RecordsOf(<<n, 0>>)
        /\ recursive' = recursive \cup RecordsOf(<<n, 0>>)
  /\ age' = 0 /\ UNCHANGED <<crashes, raced, job>>

Step(p) ==
  \/ Reserve(p) \/ Recheck(p) \/ AddRoot(p) \/ Fill(p) \/ Stored(p) \/ Staged(p)
  \/ Publish(p) \/ Prove(p) \/ Refresh(p) \/ Commit(p) \/ Switch(p)
  \/ Fence(p) \/ Delete(p)
Carry(p) == Resume(p) \/ \E source \in Numbers :
                           source \in DOMAIN roots /\ ResumeRollBack(p, source)
Begin(p) ==
  \/ Bootstrap(p) \/ \E active \in BOOLEAN : Administer(p, active)
  \/ Rotate(p) \/ \E source \in DOMAIN roots : RollBack(p, source)
  \/ Carry(p) \/ \E resume \in BOOLEAN : Retire(p, resume)

Next == \/ \E p \in Procs : Step(p) \/ Begin(p) \/ Crash(p)
        \/ \E r \in Records : Refetch(r)
        \/ Tick \/ Campaign

Spec == Init /\ [][Next]_vars

GoOn(p) == Staged(p) /\ job'[p].pc = "publish"

\* A command that runs goes on, resolvers and clocks do; the operator does not
\* prepare only for ever, resumes what is pending and retires what is due.
FairSpec ==
  /\ Spec /\ WF_vars(Tick) /\ \A r \in Records : WF_vars(Refetch(r))
  /\ \A p \in Procs : /\ WF_vars(Step(p)) /\ SF_vars(Carry(p))
                      /\ SF_vars(GoOn(p)) /\ SF_vars(Retire(p, TRUE))

-----------------------------------------------------------------------------
(* Observation                                                             *)

\* One record as the two channels show it.
Seen(r) == IF r \in dns
           THEN IF r \in recursive THEN "present" ELSE "uncertain"
           ELSE IF r \in recursive THEN "cached" ELSE "absent"
\* Mutant: the overlap is not asked for.
PredecessorPhaseAtOnce(key) ==
  LET seen == {Seen(r) : r \in RecordsOf(key)}
  IN CASE "uncertain" \in seen -> "error"
       [] seen = {"absent"} -> "retired"
       [] seen = {"present"} -> "retire-eligible"
       [] OTHER -> "observing"
PredecessorPhase(key) ==
  LET seen == {Seen(r) : r \in RecordsOf(key)}
  IN CASE "uncertain" \in seen -> "error"
       [] seen = {"absent"} -> "retired"
       [] seen = {"present"} /\ age >= Overlap -> "retire-eligible"
       [] OTHER -> "observing"

\* The phase that --observe reports, or that it ends in an error.
Phase ==
  LET c == pointer.number + 1
  IN IF ~CurrentLoads \/ ~History THEN "error"
     ELSE IF c \in DOMAIN roots
     THEN IF ~LoadPending(c) \/ ~RotationIntent(c) THEN "error"
          ELSE IF ~Proven(roots[c].key) THEN "dns-pending"
          ELSE IF roots[c].state = "committed" THEN "committed-unreachable"
          ELSE "staged"
     ELSE IF pointer.number - 1 \notin DOMAIN roots THEN "idle"
     ELSE IF ~RotatedOne(pointer.number) THEN "error"
     ELSE IF ~Proven(Current.key) THEN "dns-pending"
     ELSE IF ~ActivationReadable THEN "error"
     ELSE PredecessorPhase(OldKey)

-----------------------------------------------------------------------------
(* Properties                                                              *)

Root == [key : Keys, active : BOOLEAN, native : BOOLEAN,
         state : {"partial", "staging", "committed"}]
Controls == {"idle", "reserve", "recheck", "add", "fill", "stored", "staged",
             "publish", "prove", "refresh", "reprove", "commit", "switch",
             "announce", "fence", "delete"}
Job == [cmd : {"none", "create", "rotate", "rollback", "retire"}, pc : Controls,
        number : Numbers, key : Keys, active : BOOLEAN, todo : SUBSET Algorithms]

\* Roots from 1 up, one pointer, and jobs of a known shape.
TypeOK ==
  /\ \E k \in 0..LastNumber : roots \in [1..k -> Root]
  /\ pointer \in [number : Numbers, native : BOOLEAN,
                  state : {"absent", "staging", "committed"}]
  /\ age \in 0..Overlap /\ dns \subseteq Records /\ recursive \subseteq Records
  /\ crashes \in 0..MaxCrashes /\ raced \in BOOLEAN
  /\ job \in [Procs -> Job]

\* The pointer that signers follow names a complete committed generation,
\* whoever writes and wherever a command stops.
CurrentComplete ==
  pointer.state = "committed" => CurrentLoads

\* What a process commits and activates is what it planned or resumed, never
\* the candidate that another process staged under the same number.
OwnCandidate ==
  \A p \in Procs :
    job[p].pc \in {"stored", "staged", "publish", "prove", "refresh", "reprove",
                   "commit", "switch"} =>
      /\ job[p].number \in DOMAIN roots
      /\ roots[job[p].number].key = job[p].key

\* Every record of the key that signers use is in the DNS, through rotations,
\* rollbacks to retired keys, retirements and crashes of any of them; only a
\* delete that another host overtook behind its fence may take one.
ActivePublished ==
  CurrentLoads /\ Current.active /\ ~raced => RecordsOf(Current.key) \subseteq dns

\* A manual command moves the pointer onto a generation that carries the active key over or
\* whose key both channels answer with at that moment, as long as no delete
\* was overtaken.
Moved == pointer'.number # pointer.number
Switched == Moved /\ ~pointer'.native
Answered(key) == RecordsOf(key) \subseteq dns \cap recursive
PointerProven ==
  [][Switched /\ Current'.active /\ ~raced => Current'.key = Current.key \/ Answered(Current'.key)]_vars

\* Whoever switches, however late, the pointer never returns to a generation
\* it left and never skips one.
PointerForward ==
  [][Moved => pointer'.number = pointer.number + 1]_vars

Needed(key) == \E n \in DOMAIN roots : n >= pointer.number /\ roots[n].key = key

\* A record leaves the DNS only when neither current nor a candidate under
\* way uses its key, and only after the overlap.
OverlapKept ==
  [][~raced' => \A r \in dns \ dns' : age >= Overlap /\ ~Needed(r[1])]_vars

\* What --observe calls eligible is exactly what --retire-generation accepts
\* without --resume-retirement, as soon as resolvers agree with the server.
PhasePredictsRetirement ==
  Phase = "retire-eligible" <=>
    RetireReady(FALSE) /\ RecordsOf(OldKey) \subseteq recursive

\* A stored candidate of a rotation or rollback becomes current, however
\* often a command that carries it is interrupted.
StagedSettles ==
  \A n \in Numbers :
    (RotatedOne(n) /\ History) ~> (pointer.number >= n)

\* What still shows of a key.
Left(n) == {r \in dns \cup recursive : n \in DOMAIN roots /\ r[1] = roots[n].key}

\* The records of a replaced key disappear from both channels, unless a
\* successor gets in the way.
RetirementEnds ==
  \A n \in Numbers :
    (NoSuccessor /\ ActivationReadable /\ pointer.number = n /\ RotatedOne(n)) ~>
      n + 1 \in DOMAIN roots \/ Left(n - 1) = {}
=============================================================================
