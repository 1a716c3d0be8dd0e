----------------------- MODULE ManualLifecycle_proofs -----------------------
(***************************************************************************)
(* Proofs about ManualLifecycle for any number of processes, algorithms,   *)
(* generations and crashes: the generation that signers follow is          *)
(* complete, its own command's, proved and published, and retirement only  *)
(* removes what nobody uses.                                               *)
(***************************************************************************)
EXTENDS ManualInvariant, WellFoundedInduction, TLAPS

-----------------------------------------------------------------------------
(* Numbers and data.                                                       *)

\* Generation numbers are naturals from 1 on.
LEMMA NumbersAreNaturals ==
  /\ LastNumber \in Nat /\ LastNumber >= 1 /\ Overlap \in Nat /\ Overlap >= 1
  /\ MaxCrashes \in Nat /\ 0..Overlap \subseteq Nat
  /\ Numbers \subseteq Nat /\ 1 \in Numbers
  /\ \A n \in Numbers : n >= 1 /\ n <= LastNumber
BY ManualAssumption DEF Numbers

\* The least of some algorithms is one of them.
LEMMA LowIsMember ==
  ASSUME NEW S \in SUBSET Algorithms, S # {}
  PROVE  Low(S) \in S
<1>1. S \subseteq Nat
  BY ManualAssumption
<1>2. \E a \in S : \A b \in S : ~(<<b, a>> \in OpToRel(<, Nat))
  BY <1>1, NatLessThanWellFounded, WFMin, Zenon
<1>3. PICK a \in S : \A b \in S : ~(<<b, a>> \in OpToRel(<, Nat))
  BY <1>2
<1>4. \A b \in S : ~(b < a)
  BY <1>1, <1>3, Zenon DEF OpToRel
<1>5. \A b \in S : a <= b
  BY <1>1, <1>4
<1> QED BY <1>5 DEF Low

\* The roots are numbered without a hole.
LEMMA RootTypes ==
  ASSUME TypeOK, NEW n \in DOMAIN roots
  PROVE  /\ n \in Numbers /\ n \in Nat /\ roots[n] \in Root
         /\ \A m \in 1..n : m \in DOMAIN roots
<1>1. PICK k \in 0..LastNumber : roots \in [1..k -> Root]
  BY DEF TypeOK
<1>2. n \in 1..k
  BY <1>1
<1> QED BY <1>1, <1>2, NumbersAreNaturals DEF Numbers

\* A job has a number, a key and some work.
LEMMA JobTypes ==
  ASSUME TypeOK, NEW p \in Procs
  PROVE  /\ job[p] \in Job /\ job[p].number \in Numbers /\ job[p].number \in Nat
         /\ job[p].number >= 1 /\ job[p].key \in Keys
         /\ job[p].active \in BOOLEAN /\ job[p].todo \in SUBSET Algorithms
<1>1. job[p] \in Job
  BY DEF TypeOK
<1> QED BY <1>1, NumbersAreNaturals DEF Job

\* The pointer has a number.
LEMMA PointerTypes ==
  ASSUME TypeOK
  PROVE  /\ pointer.number \in Numbers /\ pointer.number \in Nat
         /\ pointer.number >= 1 /\ pointer.number <= LastNumber
         /\ pointer.native \in BOOLEAN
         /\ pointer.state \in {"absent", "staging", "committed"}
         /\ pointer = [number |-> pointer.number, state |-> pointer.state,
                       native |-> pointer.native]
<1>1. pointer \in [number : Numbers, native : BOOLEAN,
                   state : {"absent", "staging", "committed"}]
  BY DEF TypeOK
<1> QED BY <1>1, NumbersAreNaturals

\* Adding a root on top of the others.
LEMMA RootAdded ==
  ASSUME TypeOK, NEW n \in Numbers, n \notin DOMAIN roots, NEW r \in Root,
         n = 1 \/ n - 1 \in DOMAIN roots,
         roots' = [m \in DOMAIN roots \cup {n} |-> IF m = n THEN r ELSE roots[m]]
  PROVE  /\ \E k \in 0..LastNumber : roots' \in [1..k -> Root]
         /\ DOMAIN roots' = DOMAIN roots \cup {n}
         /\ \A m \in DOMAIN roots : m < n /\ m # n /\ roots'[m] = roots[m]
         /\ roots'[n] = r
<1>1. PICK k \in 0..LastNumber : roots \in [1..k -> Root]
  BY DEF TypeOK
<1>2. n = k + 1 /\ k + 1 \in 0..LastNumber
  BY <1>1, NumbersAreNaturals DEF Numbers
<1>3. DOMAIN roots \cup {n} = 1..(k + 1)
  BY <1>1, <1>2
<1>4. roots' \in [1..(k + 1) -> Root]
  BY <1>1, <1>3
<1> QED BY <1>1, <1>2, <1>3, <1>4

\* Changing the state of a root.
LEMMA RootChanged ==
  ASSUME TypeOK, NEW n \in DOMAIN roots,
         NEW s \in {"partial", "staging", "committed"},
         roots' = [roots EXCEPT ![n].state = s]
  PROVE  /\ \E k \in 0..LastNumber : roots' \in [1..k -> Root]
         /\ DOMAIN roots' = DOMAIN roots
         /\ \A m \in DOMAIN roots :
              /\ roots'[m].key = roots[m].key /\ roots'[m].active = roots[m].active
              /\ roots'[m].native = roots[m].native
              /\ m # n => roots'[m] = roots[m]
         /\ roots'[n].state = s
<1>1. PICK k \in 0..LastNumber : roots \in [1..k -> Root]
  BY DEF TypeOK
<1>2. roots' = [roots EXCEPT ![n] = [roots[n] EXCEPT !.state = s]]
  OBVIOUS
<1>3. roots[n] \in Root /\ [roots[n] EXCEPT !.state = s] \in Root
  BY <1>1 DEF Root
<1>4. roots' \in [1..k -> Root]
  BY <1>1, <1>2, <1>3
<1> QED BY <1>1, <1>2, <1>3, <1>4 DEF Root

\* Below current everything loads, and current itself.
LEMMA CurrentIsComplete ==
  ASSUME TypeOK, DirectoryInv
  PROVE  CurrentComplete
<1>1. pointer.number \in 1..pointer.number
  BY PointerTypes
<1>2. SUFFICES ASSUME pointer.state = "committed" PROVE CurrentLoads
  BY DEF CurrentComplete
<1>3. pointer.number \in DOMAIN roots /\ roots[pointer.number].state = "committed"
  BY <1>1, <1>2 DEF DirectoryInv, BelowCurrent
<1> QED BY <1>2, <1>3 DEF CurrentLoads, Current

-----------------------------------------------------------------------------
(* The job of one process.                                                 *)

OthersWait(p) == \A q \in Procs \ {p} : job'[q] = job[q]

LEMMA IdleIsJob == Idle \in Job /\ Idle.pc = "idle"
BY NumbersAreNaturals DEF Idle, Job, Controls, Keys

\* A process whose job becomes j.
LEMMA JobReplaced ==
  ASSUME TypeOK, NEW p \in Procs, NEW j \in Job, job' = [job EXCEPT ![p] = j]
  PROVE  job' \in [Procs -> Job] /\ job'[p] = j /\ OthersWait(p)
BY DEF TypeOK, OthersWait

\* A process that goes to another step.
LEMMA JobMoved ==
  ASSUME TypeOK, NEW p \in Procs, NEW c \in Controls, To(p, c)
  PROVE  /\ job' \in [Procs -> Job] /\ OthersWait(p)
         /\ job'[p].pc = c /\ job'[p].cmd = job[p].cmd
         /\ job'[p].number = job[p].number /\ job'[p].key = job[p].key
         /\ job'[p].active = job[p].active /\ job'[p].todo = job[p].todo
<1>1. job[p] \in Job /\ job' = [job EXCEPT ![p] = [job[p] EXCEPT !.pc = c]]
  BY DEF TypeOK, To
<1>2. [job[p] EXCEPT !.pc = c] \in Job
  BY <1>1 DEF Job
<1>3. job'[p] = [job[p] EXCEPT !.pc = c]
  BY <1>1, <1>2, JobReplaced
<1> QED BY <1>1, <1>2, <1>3, JobReplaced DEF Job

\* Nothing is expected of an idle process.
LEMMA IdleInv ==
  ASSUME NEW p \in Procs, job'[p].pc = "idle", job'[p].todo = {}
  PROVE  JobInv(p)'
BY DEF JobInv, WorkInv, PlanInv, CarriedInv, OwnInv, ReadyInv, RetirementInv,
   At, Staging, Owning, Retiring

\* A process that ends.
LEMMA JobEnded ==
  ASSUME TypeOK, NEW p \in Procs, End(p)
  PROVE  /\ job' \in [Procs -> Job] /\ OthersWait(p) /\ JobInv(p)'
         /\ job'[p].pc = "idle" /\ job'[p].pc # "fill"
<1>1. job'[p] = Idle /\ job' \in [Procs -> Job] /\ OthersWait(p)
  BY IdleIsJob, JobReplaced DEF End
<1>2. job'[p].pc = "idle" /\ job'[p].todo = {}
  BY <1>1, IdleIsJob DEF Idle
<1> QED BY <1>1, <1>2, IdleInv

-----------------------------------------------------------------------------
(* What the commands rely on survives the steps of others.                 *)

\* Roots stay as they were planned and only become more complete, and the
\* pointer only moves up.
DirectoryGrows ==
  /\ pointer.number <= pointer'.number
  /\ pointer.state = "committed" => pointer'.state = "committed"
  /\ pointer.state # "absent" => pointer'.state # "absent"
  /\ pointer.state = "committed" /\ pointer'.number = pointer.number => age <= age'
  /\ \A n \in DOMAIN roots :
       /\ n \in DOMAIN roots'
       /\ roots'[n].key = roots[n].key /\ roots'[n].active = roots[n].active
       /\ roots[n].state = "committed" => roots'[n].state = "committed"
       /\ roots[n].state # "partial" => roots'[n].state # "partial"

\* What is published or answered stays so.
RecordsGrow ==
  /\ raced => raced'
  /\ \A key : /\ RecordsOf(key) \subseteq dns => RecordsOf(key) \subseteq dns'
              /\ Answered(key) => Answered(key)'

\* The roots that other processes are completing.
OthersFill(p) ==
  \A q \in Procs \ {p} :
    At(q, "fill") => roots'[job[q].number].state = "partial"

\* The generation a candidate is planned on.
LEMMA BelowCandidate ==
  ASSUME ManualInv, NEW q \in Procs, job[q].pc \in Staging, job[q].number > 1
  PROVE  job[q].number - 1 \in DOMAIN roots
<1>1. job[q].number \in Nat /\ pointer.number \in Nat
  BY PointerTypes, JobTypes DEF ManualInv
<1>2. pointer.state = "committed" /\ job[q].number <= pointer.number + 1
  BY DEF ManualInv, JobInv, PlanInv
<1>3. job[q].number - 1 \in 1..pointer.number
  BY <1>1, <1>2
<1> QED BY <1>2, <1>3 DEF ManualInv, DirectoryInv, BelowCurrent

\* The plan of a waiting process, its root and its retirement.
LEMMA OthersKept ==
  ASSUME ManualInv, TypeOK', NEW q \in Procs, job'[q] = job[q], DirectoryGrows,
         At(q, "fill") => roots'[job[q].number].state = "partial"
  PROVE  /\ WorkInv(q)' /\ PlanInv(q)' /\ CarriedInv(q)' /\ OwnInv(q)'
         /\ RetirementInv(q)'
<1>1. /\ WorkInv(q) /\ PlanInv(q) /\ CarriedInv(q) /\ OwnInv(q)
      /\ RetirementInv(q)
  BY DEF ManualInv, JobInv
<1>2. /\ job[q].number \in Nat /\ pointer.number \in Nat
      /\ pointer'.number \in Nat /\ age \in Nat /\ age' \in Nat /\ Overlap \in Nat
  <2>1. TypeOK
    BY DEF ManualInv
  <2>2. job[q].number \in Nat
    BY <2>1, JobTypes
  <2>5. age \in 0..Overlap /\ age' \in 0..Overlap
    BY <2>1 DEF TypeOK
  <2>3. pointer.number \in Nat
    BY <2>1, PointerTypes
  <2>4. pointer'.number \in Nat
    BY NumbersAreNaturals DEF TypeOK
  <2> QED BY <2>2, <2>3, <2>4, <2>5, NumbersAreNaturals
<1>3. WorkInv(q)'
  BY <1>1 DEF WorkInv, At
<1>4. PlanInv(q)'
  BY <1>1, <1>2 DEF PlanInv, At, DirectoryGrows
<1>5. CarriedInv(q)'
  BY <1>1, BelowCandidate DEF CarriedInv, DirectoryGrows
<1>6. OwnInv(q)'
  BY <1>1 DEF OwnInv, DirectoryGrows, At, Owning
<1>7. RetirementInv(q)'
  BY <1>1, <1>2 DEF RetirementInv, DirectoryGrows, RotatedOne
<1> QED BY <1>3, <1>4, <1>5, <1>6, <1>7

\* What a waiting process has proved.
LEMMA ReadyKept ==
  ASSUME ManualInv, TypeOK', NEW q \in Procs, job'[q] = job[q], DirectoryGrows,
         RecordsGrow
  PROVE  ReadyInv(q)'
<1>1. ReadyInv(q)
  BY DEF ManualInv, JobInv
<1>2. job[q].number \in Nat /\ pointer.number \in Nat /\ pointer'.number \in Nat
  <2>1. job[q].number \in Nat /\ pointer.number \in Nat
    BY PointerTypes, JobTypes DEF ManualInv
  <2>2. pointer'.number \in Nat
    BY NumbersAreNaturals DEF TypeOK
  <2> QED BY <2>1, <2>2
<1>3. job[q].number <= pointer.number => job[q].number <= pointer'.number
  BY <1>2 DEF DirectoryGrows
<1> QED BY <1>1, <1>3 DEF ReadyInv, RecordsGrow, At

\* A step of one process.
LEMMA StepKept ==
  ASSUME ManualInv, NEW p \in Procs, OthersWait(p), TypeOK', DirectoryInv',
         RecordsInv', OneFiller', JobInv(p)', DirectoryGrows, RecordsGrow,
         OthersFill(p)
  PROVE  ManualInv'
<1>1. ASSUME NEW q \in Procs \ {p} PROVE JobInv(q)'
  <2>1. job'[q] = job[q]
    BY DEF OthersWait
  <2>2. At(q, "fill") => roots'[job[q].number].state = "partial"
    BY DEF OthersFill
  <2> QED BY <2>1, <2>2, OthersKept, ReadyKept DEF JobInv
<1> QED BY <1>1 DEF ManualInv

\* A step of one process that only reads.
LEMMA QuietStep ==
  ASSUME ManualInv, NEW p \in Procs, OthersWait(p),
         UNCHANGED <<directory, dns, recursive, raced>>,
         crashes' \in 0..MaxCrashes, job' \in [Procs -> Job], JobInv(p)',
         job'[p].pc # "fill"
  PROVE  ManualInv'
<1>1. TypeOK'
  BY DEF ManualInv, TypeOK, directory
<1>2. DirectoryInv' /\ RecordsInv'
  BY DEF ManualInv, directory, DirectoryInv, Beginning, BelowCurrent,
     InactivePrefix, RecordsInv, NothingStale, ActivePublished, CurrentLoads,
     Current
<1>3. OneFiller'
  BY DEF ManualInv, OneFiller, OthersWait, At
<1>4. age <= age' /\ pointer.number <= pointer'.number
  BY PointerTypes, NumbersAreNaturals DEF ManualInv, TypeOK, directory
<1>5. DirectoryGrows /\ RecordsGrow
  BY <1>4 DEF DirectoryGrows, RecordsGrow, directory, Answered
<1>6. OthersFill(p)
  BY DEF OthersFill, ManualInv, JobInv, OwnInv, directory, At
<1> QED BY <1>1, <1>2, <1>3, <1>5, <1>6, StepKept

-----------------------------------------------------------------------------
(* Steps that only read.                                                   *)

\* A command that begins.
LEMMA JobStarted ==
  ASSUME TypeOK, NEW p \in Procs, NEW j \in Job, Start(p, j)
  PROVE  job' \in [Procs -> Job] /\ job'[p] = j /\ OthersWait(p)
BY JobReplaced DEF Start

\* The generation that loads as current.
LEMMA CurrentTypes ==
  ASSUME ManualInv, CurrentLoads
  PROVE  /\ pointer.state = "committed" /\ pointer.number \in DOMAIN roots
         /\ Current = roots[pointer.number] /\ Current.key \in Keys
         /\ Current.active \in BOOLEAN
<1>1. pointer.number \in DOMAIN roots /\ TypeOK
  BY DEF CurrentLoads, ManualInv
<1>2. roots[pointer.number] \in Root
  BY <1>1, RootTypes
<1> QED BY <1>1, <1>2 DEF CurrentLoads, Current, Root

\* The first creation relies on nothing yet.
LEMMA BootstrapKeeps ==
  ASSUME ManualInv, NEW p \in Procs, Bootstrap(p)
  PROVE  ManualInv'
<1> DEFINE j == [Idle EXCEPT !.cmd = "create", !.pc = "reserve", !.key = <<1, p>>]
<1>1. /\ j \in Job /\ j.cmd = "create" /\ j.pc = "reserve" /\ j.number = 1
      /\ j.active = FALSE
  BY IdleIsJob, NumbersAreNaturals DEF Idle, Job, Controls, Keys
<1>2. TypeOK /\ Start(p, j)
  BY DEF ManualInv, Bootstrap
<1> HIDE DEF j
<1>3. job' \in [Procs -> Job] /\ job'[p] = j /\ OthersWait(p)
  BY <1>1, <1>2, JobStarted
<1>4. JobInv(p)'
  BY <1>1, <1>3 DEF JobInv, WorkInv, PlanInv, CarriedInv, OwnInv, ReadyInv,
     RetirementInv, At, Staging, Owning, Retiring
<1>5. crashes' \in 0..MaxCrashes /\ job'[p].pc # "fill"
  BY <1>1, <1>2, <1>3 DEF TypeOK, Bootstrap
<1> QED BY <1>3, <1>4, <1>5, QuietStep DEF Bootstrap

\* A planned command knows the number above current, and a creation or an
\* activation the key it carries over.
LEMMA PlannedKeeps ==
  ASSUME ManualInv, NEW p \in Procs, CurrentLoads, HasNext(pointer.number),
         NEW cmd \in {"create", "rotate", "rollback"}, NEW key \in Keys,
         NEW active \in BOOLEAN, Start(p, Planned(p, cmd, key, active)),
         cmd # "create" => active,
         cmd = "create" => /\ key = Current.key
                           /\ ~active => ~Current.active
                           /\ active => raced \/ RecordsOf(key) \subseteq dns,
         UNCHANGED <<directory, dns, recursive, crashes, raced>>
  PROVE  ManualInv'
<1> DEFINE j == [cmd |-> cmd, pc |-> "recheck", number |-> pointer.number + 1,
                 key |-> key, active |-> active, todo |-> {}]
<1>1. TypeOK /\ pointer.number \in Nat
  BY PointerTypes DEF ManualInv
<1>2. pointer.number + 1 \in Numbers
  BY <1>1, PointerTypes, NumbersAreNaturals DEF HasNext, Numbers
<1>3. j \in Job
  BY <1>2 DEF Job, Controls
<1>4. Start(p, j)
  BY DEF Planned
<1> HIDE DEF j
<1>5. job' \in [Procs -> Job] /\ job'[p] = j /\ OthersWait(p)
  BY <1>1, <1>3, <1>4, JobStarted
<1>6. /\ pointer' = pointer /\ roots' = roots /\ raced' = raced /\ dns' = dns
      /\ recursive' = recursive
  BY DEF directory
<1>7. pointer.state = "committed" /\ Current = roots[pointer.number]
  BY CurrentTypes
<1>8. pointer.number + 1 > 1 /\ (pointer.number + 1) - 1 = pointer.number
  BY <1>1, PointerTypes
<1>9. PlanInv(p)'
  <2>1. /\ job'[p].cmd \in {"create", "rotate", "rollback"}
        /\ job'[p].pc = "recheck" /\ job'[p].number = pointer.number + 1
        /\ job'[p].cmd # "create" => job'[p].active
    BY <1>5 DEF j
  <2> QED BY <1>1, <1>6, <1>7, <1>8, <2>1 DEF PlanInv, At
<1>10. CarriedInv(p)'
  BY <1>5, <1>6, <1>7, <1>8 DEF j, CarriedInv
<1>11. WorkInv(p)' /\ OwnInv(p)' /\ RetirementInv(p)'
  BY <1>5 DEF j, WorkInv, OwnInv, RetirementInv, At, Retiring, Owning
<1>12. ReadyInv(p)'
  BY <1>5, <1>6 DEF j, ReadyInv, At
<1>13. crashes' \in 0..MaxCrashes /\ job'[p].pc # "fill"
  BY <1>1, <1>5 DEF TypeOK, j
<1>14. JobInv(p)'
  BY <1>9, <1>10, <1>11, <1>12 DEF JobInv
<1> QED BY <1>5, <1>13, <1>14, QuietStep

\* A creation and an activation.
LEMMA AdministerKeeps ==
  ASSUME ManualInv, NEW p \in Procs, NEW active \in BOOLEAN, Administer(p, active)
  PROVE  ManualInv'
<1>1. CurrentLoads /\ ActivationProven(active)
  BY DEF Administer, AtMaximum, NoSuccessor
<1>2. Current.key \in Keys /\ Current.active \in BOOLEAN
  BY <1>1, CurrentTypes
<1>3. active => raced \/ RecordsOf(Current.key) \subseteq dns
  <2>1. CASE Current.active
    BY <1>1, <2>1 DEF ManualInv, RecordsInv, ActivePublished
  <2>2. CASE ~Current.active
    BY <1>1, <2>2 DEF ManualInv, RecordsInv, NothingStale, ActivationProven
  <2> QED BY <2>1, <2>2
<1>4. ~active => ~Current.active
  BY <1>1 DEF ActivationProven
<1> QED BY <1>1, <1>2, <1>3, <1>4, PlannedKeeps DEF Administer

\* A rotation plans a key of its own, a rollback an earlier one.
LEMMA RotateKeeps ==
  ASSUME ManualInv, NEW p \in Procs,
         Rotate(p) \/ \E source \in DOMAIN roots : RollBack(p, source)
  PROVE  ManualInv'
<1>1. CASE Rotate(p)
  <2>1. CurrentLoads /\ HasNext(pointer.number)
    BY <1>1 DEF Rotate, AtMaximum, NoSuccessor
  <2>2. pointer.number + 1 \in Numbers
    BY <2>1, PointerTypes, NumbersAreNaturals DEF ManualInv, HasNext, Numbers
  <2>3. <<pointer.number + 1, p>> \in Keys
    BY <2>2 DEF Keys
  <2>4. /\ Start(p, Planned(p, "rotate", <<pointer.number + 1, p>>, TRUE))
        /\ UNCHANGED <<directory, dns, recursive, crashes, raced>>
    BY <1>1 DEF Rotate
  <2> QED BY <2>1, <2>3, <2>4, PlannedKeeps
<1>2. CASE \E source \in DOMAIN roots : RollBack(p, source)
  <2>1. PICK source \in DOMAIN roots : RollBack(p, source)
    BY <1>2
  <2>2. CurrentLoads /\ HasNext(pointer.number)
    BY <2>1 DEF RollBack, AtMaximum, NoSuccessor
  <2>3. roots[source].key \in Keys
    BY RootTypes DEF ManualInv, Root
  <2>4. /\ Start(p, Planned(p, "rollback", roots[source].key, TRUE))
        /\ UNCHANGED <<directory, dns, recursive, crashes, raced>>
    BY <2>1 DEF RollBack
  <2> QED BY <2>2, <2>3, <2>4, PlannedKeeps
<1> QED BY <1>1, <1>2

\* A resumed candidate is the stored one.
LEMMA CarryKeeps ==
  ASSUME ManualInv, NEW p \in Procs, Carry(p)
  PROVE  ManualInv'
<1> DEFINE c == pointer.number + 1
           Resumed(cmd) == [cmd |-> cmd, pc |-> "publish", number |-> c,
                            key |-> roots[c].key, active |-> TRUE,
                            todo |-> Algorithms]
<1>1. PICK cmd \in {"rotate", "rollback"} :
        LoadPending(c) /\ RotatedOne(c) /\ Continue(p, cmd)
  BY DEF Carry, Resume, ResumeRollBack, RotationIntent
<1>2. TypeOK /\ pointer.number \in Nat /\ c > 1
  BY PointerTypes DEF ManualInv
<1>3. /\ c \in DOMAIN roots /\ roots[c].state # "partial" /\ roots[c].active
      /\ pointer.state = "committed"
  BY <1>1 DEF LoadPending, History, RotatedOne
<1>4. c \in Numbers /\ roots[c] \in Root
  BY <1>2, <1>3, RootTypes
<1>5. Resumed(cmd) \in Job
  BY <1>4 DEF Job, Controls, Root
<1>6. Start(p, Resumed(cmd))
  BY <1>1 DEF Continue
<1>7. job' \in [Procs -> Job] /\ job'[p] = Resumed(cmd) /\ OthersWait(p)
  BY <1>2, <1>5, <1>6, JobStarted
<1>8. pointer' = pointer /\ roots' = roots
      /\ UNCHANGED <<directory, dns, recursive, crashes, raced>>
  BY <1>1 DEF Continue, directory
<1>9. roots[c].active = TRUE
  BY <1>3, <1>4 DEF Root
<1> HIDE DEF c
<1>10. /\ job'[p].cmd \in {"rotate", "rollback"} /\ job'[p].pc = "publish"
       /\ job'[p].number = c /\ job'[p].key = roots[c].key
       /\ job'[p].active = TRUE /\ job'[p].todo = Algorithms
  BY <1>7
<1>11. WorkInv(p)'
  BY <1>10, ManualAssumption DEF WorkInv
<1>12. PlanInv(p)'
  BY <1>2, <1>3, <1>8, <1>10 DEF PlanInv, At, c
<1>13. CarriedInv(p)' /\ ReadyInv(p)' /\ RetirementInv(p)'
  BY <1>10 DEF CarriedInv, ReadyInv, RetirementInv, At, Retiring
<1>14. OwnInv(p)'
  BY <1>3, <1>8, <1>9, <1>10 DEF OwnInv, At
<1>15. JobInv(p)' /\ job'[p].pc # "fill" /\ crashes' \in 0..MaxCrashes
  BY <1>2, <1>8, <1>10, <1>11, <1>12, <1>13, <1>14 DEF JobInv, TypeOK
<1> QED BY <1>7, <1>8, <1>15, QuietStep

\* A command that ends, wherever it was.
LEMMA EndKeeps ==
  ASSUME ManualInv, NEW p \in Procs, End(p), crashes' \in 0..MaxCrashes,
         UNCHANGED <<directory, dns, recursive, raced>>
  PROVE  ManualInv'
BY JobEnded, QuietStep DEF ManualInv

\* A step of a command that plans or owns a candidate.
Advances(p, c) ==
  /\ job[p].pc \in Staging \ {"fill"}
  /\ c \in {"add", "staged", "publish", "prove", "refresh", "reprove", "commit"}
  /\ \/ c = "add" \/ job[p].pc \in Owning
     \/ /\ job[p].number \in DOMAIN roots
        /\ roots[job[p].number].key = job[p].key
        /\ roots[job[p].number].active = job[p].active
        /\ roots[job[p].number].state # "partial"
  /\ c = "commit" /\ job[p].cmd # "create" => Answered(job[p].key)
  /\ c = "publish" => job'[p].todo # {}
  /\ job'[p].pc = c /\ job'[p].cmd = job[p].cmd
  /\ job'[p].number = job[p].number /\ job'[p].key = job[p].key
  /\ job'[p].active = job[p].active

LEMMA AdvanceJob ==
  ASSUME ManualInv, NEW p \in Procs, NEW c, Advances(p, c),
         UNCHANGED <<directory, recursive, raced>>, dns \subseteq dns'
  PROVE  JobInv(p)' /\ job'[p].pc # "fill"
<1>1. TypeOK /\ JobInv(p)
  BY DEF ManualInv
<1>2. pointer' = pointer /\ roots' = roots
  BY DEF directory
<1>3. WorkInv(p)' /\ RetirementInv(p)'
  BY DEF Advances, WorkInv, RetirementInv, At, Retiring
<1>4. PlanInv(p)' /\ CarriedInv(p)'
  BY <1>1, <1>2 DEF Advances, JobInv, PlanInv, CarriedInv, At, Staging, Owning
<1>5. OwnInv(p)'
  BY <1>1, <1>2 DEF Advances, JobInv, OwnInv, At, Owning
<1>6. ReadyInv(p)'
  BY <1>1, <1>2 DEF Advances, JobInv, ReadyInv, At, Staging, Answered
<1> QED BY <1>3, <1>4, <1>5, <1>6 DEF JobInv, Advances

LEMMA AdvanceKeeps ==
  ASSUME ManualInv, NEW p \in Procs, NEW c, Advances(p, c),
         job' \in [Procs -> Job], OthersWait(p),
         UNCHANGED <<directory, dns, recursive, crashes, raced>>
  PROVE  ManualInv'
<1>1. JobInv(p)' /\ job'[p].pc # "fill" /\ crashes' \in 0..MaxCrashes
  BY AdvanceJob DEF ManualInv, TypeOK
<1> QED BY <1>1, QuietStep

\* Before the candidate is added, and after it is complete.
LEMMA RecheckKeeps ==
  ASSUME ManualInv, NEW p \in Procs, Recheck(p)
  PROVE  ManualInv'
<1>1. CASE End(p)
  BY <1>1, EndKeeps DEF Recheck, ManualInv, TypeOK
<1>2. CASE To(p, "add")
  BY <1>2, JobMoved, AdvanceKeeps
  DEF Advances, Recheck, ManualInv, At, Staging, Controls
<1> QED BY <1>1, <1>2 DEF Recheck

LEMMA StoredKeeps ==
  ASSUME ManualInv, NEW p \in Procs, Stored(p)
  PROVE  ManualInv'
<1>1. CASE End(p)
  BY <1>1, EndKeeps DEF Stored, ManualInv, TypeOK
<1>2. CASE job[p].cmd = "create" /\ To(p, "commit")
  BY <1>2, JobMoved, AdvanceKeeps
  DEF Advances, Stored, ManualInv, At, Staging, Owning, Controls
<1>3. CASE To(p, "staged")
  BY <1>3, JobMoved, AdvanceKeeps
  DEF Advances, Stored, ManualInv, At, Staging, Owning, Controls
<1> QED BY <1>1, <1>2, <1>3 DEF Stored

LEMMA StagedKeeps ==
  ASSUME ManualInv, NEW p \in Procs, Staged(p)
  PROVE  ManualInv'
<1>1. CASE End(p)
  BY <1>1, EndKeeps DEF Staged, ManualInv, TypeOK
<1>2. CASE job' = [job EXCEPT ![p].pc = "publish", ![p].todo = Algorithms]
  <2> DEFINE j == [job[p] EXCEPT !.pc = "publish", !.todo = Algorithms]
  <2>1. job' = [job EXCEPT ![p] = j]
    BY <1>2
  <2>2. /\ j \in Job /\ j.pc = "publish" /\ j.todo = Algorithms
        /\ j.cmd = job[p].cmd /\ j.number = job[p].number
        /\ j.key = job[p].key /\ j.active = job[p].active
    BY JobTypes DEF ManualInv, Job, Controls
  <2> HIDE DEF j
  <2>3. job' \in [Procs -> Job] /\ job'[p] = j /\ OthersWait(p)
    BY <2>1, <2>2, JobReplaced DEF ManualInv
  <2> QED BY <2>2, <2>3, AdvanceKeeps, ManualAssumption
          DEF Advances, Staged, At, Staging, Owning
<1> QED BY <1>1, <1>2 DEF Staged

\* The two proofs, and the read between them.
LEMMA ProveKeeps ==
  ASSUME ManualInv, NEW p \in Procs, Prove(p) \/ Refresh(p)
  PROVE  ManualInv'
<1>1. CASE End(p)
  BY <1>1, EndKeeps DEF Prove, Refresh, ManualInv, TypeOK
<1>2. CASE To(p, "refresh") /\ At(p, "prove") /\ Prove(p)
  BY <1>2, JobMoved, AdvanceKeeps
  DEF Advances, Prove, ManualInv, At, Staging, Owning, Controls
<1>3. CASE To(p, "commit") /\ Proven(job[p].key) /\ At(p, "reprove") /\ Prove(p)
  BY <1>3, JobMoved, AdvanceKeeps
  DEF Advances, Prove, ManualInv, At, Staging, Owning, Controls, Proven, Answered
<1>4. CASE To(p, "reprove") /\ Refresh(p)
  BY <1>4, JobMoved, AdvanceKeeps
  DEF Advances, Refresh, ManualInv, At, Staging, Owning, Controls
<1> QED BY <1>1, <1>2, <1>3, <1>4 DEF Prove, Refresh

LEMMA CrashKeeps ==
  ASSUME ManualInv, NEW p \in Procs, Crash(p)
  PROVE  ManualInv'
<1>1. crashes \in 0..MaxCrashes /\ crashes < MaxCrashes /\ crashes' = crashes + 1
  BY DEF ManualInv, TypeOK, Crash
<1>2. crashes' \in 0..MaxCrashes
  BY <1>1, NumbersAreNaturals
<1> QED BY <1>2, EndKeeps DEF Crash

-----------------------------------------------------------------------------
(* Retirement.                                                             *)

\* A retirement begins with what it relies on.
LEMMA RetireKeeps ==
  ASSUME ManualInv, NEW p \in Procs, NEW resume \in BOOLEAN, Retire(p, resume)
  PROVE  ManualInv'
<1> DEFINE todo == {a \in Algorithms : <<OldKey, a>> \in dns}
           j == [cmd |-> "retire", pc |-> "fence", number |-> pointer.number,
                 key |-> OldKey, active |-> TRUE, todo |-> todo]
<1>1. /\ todo # {} /\ Start(p, j)
      /\ UNCHANGED <<directory, dns, recursive, crashes, raced>>
  BY DEF Retire
<1>2. /\ pointer.state = "committed" /\ RotatedOne(pointer.number)
      /\ age >= Overlap /\ pointer.number - 1 \in DOMAIN roots
  BY DEF Retire, RetireReady, NoSuccessor, CurrentLoads, RotatedOne
<1>3. OldKey \in Keys /\ pointer.number \in Numbers /\ pointer.number \in Nat
  BY <1>2, RootTypes, PointerTypes DEF ManualInv, OldKey, Root
<1>4. j \in Job
  BY <1>3 DEF Job, Controls
<1>5. job' \in [Procs -> Job] /\ job'[p] = j /\ OthersWait(p)
  BY <1>1, <1>4, JobStarted DEF ManualInv
<1>6. /\ job'[p].pc = "fence" /\ job'[p].number = pointer.number
      /\ job'[p].key = roots[pointer.number - 1].key /\ job'[p].todo # {}
  BY <1>1, <1>5 DEF OldKey
<1> HIDE DEF j, todo
<1>7. pointer' = pointer /\ roots' = roots /\ age' = age
  BY <1>1 DEF directory
<1>8. WorkInv(p)' /\ PlanInv(p)' /\ CarriedInv(p)' /\ OwnInv(p)' /\ ReadyInv(p)'
  BY <1>6 DEF WorkInv, PlanInv, CarriedInv, OwnInv, ReadyInv, At, Staging, Owning
<1>9. RetirementInv(p)'
  BY <1>2, <1>3, <1>6, <1>7 DEF RetirementInv, RotatedOne
<1>10. JobInv(p)' /\ job'[p].pc # "fill" /\ crashes' \in 0..MaxCrashes
  BY <1>1, <1>6, <1>8, <1>9 DEF JobInv, ManualInv, TypeOK
<1> QED BY <1>1, <1>5, <1>10, QuietStep

LEMMA FenceKeeps ==
  ASSUME ManualInv, NEW p \in Procs, Fence(p)
  PROVE  ManualInv'
<1>1. CASE End(p)
  BY <1>1, EndKeeps DEF Fence, ManualInv, TypeOK
<1>2. CASE To(p, "delete")
  <2>1. /\ job' \in [Procs -> Job] /\ OthersWait(p)
        /\ job'[p].pc = "delete" /\ job'[p].number = job[p].number
        /\ job'[p].key = job[p].key /\ job'[p].todo = job[p].todo
    BY <1>2, JobMoved DEF ManualInv, Controls
  <2>2. pointer' = pointer /\ roots' = roots /\ age' = age
        /\ UNCHANGED <<directory, dns, recursive, crashes, raced>>
    BY DEF Fence, directory
  <2>3. WorkInv(p) /\ RetirementInv(p) /\ At(p, "fence")
    BY DEF ManualInv, JobInv, Fence
  <2>4. PlanInv(p)' /\ CarriedInv(p)' /\ OwnInv(p)' /\ ReadyInv(p)'
    BY <2>1 DEF PlanInv, CarriedInv, OwnInv, ReadyInv, At, Staging, Owning
  <2>5. WorkInv(p)' /\ RetirementInv(p)'
    BY <2>1, <2>2, <2>3 DEF WorkInv, RetirementInv, At, Retiring, RotatedOne
  <2>6. JobInv(p)' /\ job'[p].pc # "fill" /\ crashes' \in 0..MaxCrashes
    BY <2>1, <2>2, <2>4, <2>5 DEF JobInv, ManualInv, TypeOK
  <2> QED BY <2>1, <2>2, <2>6, QuietStep
<1> QED BY <1>1, <1>2 DEF Fence

-----------------------------------------------------------------------------
(* Steps that write.                                                       *)

\* What a reader sees of current is what it saw before.
SameCurrent ==
  /\ pointer' = pointer
  /\ pointer.state = "committed" =>
       /\ Current'.key = Current.key /\ Current'.active = Current.active

\* The records serve the same current as before.
LEMMA RecordsKept ==
  ASSUME ManualInv, SameCurrent, dns \subseteq dns', recursive' = recursive,
         raced' = raced
  PROVE  RecordsInv'
<1>1. NothingStale'
  BY DEF ManualInv, RecordsInv, NothingStale, SameCurrent
<1>2. CurrentLoads' => CurrentLoads
  <2>1. CurrentComplete
    BY CurrentIsComplete DEF ManualInv
  <2> QED BY <2>1 DEF CurrentComplete, CurrentLoads, SameCurrent
<1>3. ActivePublished'
  <2>1. SUFFICES ASSUME CurrentLoads', Current'.active, ~raced'
                 PROVE  RecordsOf(Current'.key) \subseteq dns'
    BY DEF ActivePublished
  <2>2. CurrentLoads /\ pointer.state = "committed"
    BY <1>2, <2>1 DEF CurrentLoads
  <2>3. Current.active /\ Current'.key = Current.key
    BY <2>1, <2>2 DEF SameCurrent
  <2> QED BY <2>1, <2>2, <2>3 DEF ManualInv, RecordsInv, ActivePublished
<1> QED BY <1>1, <1>3 DEF RecordsInv

\* The reservation of the pointer.
LEMMA ReserveKeeps ==
  ASSUME ManualInv, NEW p \in Procs, Reserve(p)
  PROVE  ManualInv'
<1>1. CASE End(p) /\ UNCHANGED pointer
  BY <1>1, EndKeeps DEF Reserve, ManualInv, TypeOK, directory
<1>2. CASE /\ pointer = Absent /\ DOMAIN roots = {}
           /\ pointer' = [Absent EXCEPT !.state = "staging"] /\ To(p, "add")
  <2>1. /\ pointer.state = "absent" /\ pointer.number = 1
        /\ pointer'.state = "staging" /\ pointer'.number = 1
        /\ pointer'.native = FALSE
        /\ pointer' \in [number : Numbers, native : BOOLEAN,
                         state : {"absent", "staging", "committed"}]
    BY <1>2, NumbersAreNaturals DEF Absent
  <2>2. /\ job' \in [Procs -> Job] /\ OthersWait(p)
        /\ job'[p].pc = "add" /\ job'[p].cmd = job[p].cmd
        /\ job'[p].number = job[p].number /\ job'[p].active = job[p].active
    BY <1>2, JobMoved DEF ManualInv, Controls
  <2>3. UNCHANGED <<roots, age, dns, recursive, crashes, raced>>
    BY DEF Reserve
  <2>4. TypeOK'
    BY <2>1, <2>2, <2>3 DEF ManualInv, TypeOK
  <2>5. DirectoryInv'
    BY <1>2, <2>1, <2>3 DEF DirectoryInv, Beginning, BelowCurrent, InactivePrefix
  <2>6. RecordsInv'
    BY <2>1, <2>3 DEF ManualInv, RecordsInv, NothingStale, ActivePublished,
       CurrentLoads
  <2>7. OneFiller'
    BY <2>2 DEF ManualInv, OneFiller, OthersWait, At
  <2>8. job[p].cmd = "create" /\ job[p].number = 1 /\ ~job[p].active
    BY DEF ManualInv, JobInv, PlanInv, Reserve
  <2>9. JobInv(p)'
    BY <2>1, <2>2, <2>8 DEF JobInv, WorkInv, PlanInv, CarriedInv, OwnInv, ReadyInv,
       RetirementInv, At, Staging, Owning, Retiring
  <2>10. DirectoryGrows /\ RecordsGrow
    BY <1>2, <2>1, <2>3 DEF DirectoryGrows, RecordsGrow, Answered
  <2>11. OthersFill(p)
    BY <1>2 DEF OthersFill, ManualInv, JobInv, OwnInv, At
  <2> QED BY <2>2, <2>4, <2>5, <2>6, <2>7, <2>9, <2>10, <2>11, StepKept
<1> QED BY <1>1, <1>2 DEF Reserve

\* A root is added on top, where there was none.
LEMMA AddRootKeeps ==
  ASSUME ManualInv, NEW p \in Procs, AddRoot(p)
  PROVE  ManualInv'
<1> DEFINE n == job[p].number
           r == [key |-> job[p].key, active |-> job[p].active,
                 state |-> "partial", native |-> FALSE]
<1>1. CASE End(p) /\ UNCHANGED roots
  BY <1>1, EndKeeps DEF AddRoot, ManualInv, TypeOK, directory
<1>2. CASE Prepared(p) /\ To(p, "staged") /\ UNCHANGED roots
  <2>1. /\ n \in DOMAIN roots /\ roots[n].key = job[p].key
        /\ roots[n].active = job[p].active /\ roots[n].state # "partial"
    BY <1>2 DEF Prepared, LoadPending, History
  <2> QED BY <1>2, <2>1, JobMoved, AdvanceKeeps
          DEF Advances, AddRoot, ManualInv, At, Staging, Controls, directory
<1>3. CASE /\ n \notin DOMAIN roots /\ To(p, "fill")
           /\ roots' = [m \in DOMAIN roots \cup {n} |-> IF m = n THEN r ELSE roots[m]]
  <2>1. /\ UNCHANGED <<pointer, age, dns, recursive, crashes, raced>>
        /\ At(p, "add") /\ TypeOK
    BY DEF AddRoot, ManualInv
  <2>2. n \in Numbers /\ n \in Nat /\ n >= 1 /\ r \in Root
    BY <2>1, JobTypes DEF Root
  <2>3. /\ job[p].pc \in Staging /\ PlanInv(p) /\ CarriedInv(p)
        /\ job[p].cmd # "create" => job[p].active
    BY <2>1 DEF At, Staging, ManualInv, JobInv, PlanInv
  <2>4. n = 1 \/ (n > 1 /\ n - 1 \in DOMAIN roots)
    BY <2>2, <2>3, BelowCandidate
  <2> HIDE DEF n, r
  <2>5. /\ \E k \in 0..LastNumber : roots' \in [1..k -> Root]
        /\ DOMAIN roots' = DOMAIN roots \cup {n}
        /\ \A m \in DOMAIN roots : m < n /\ m # n /\ roots'[m] = roots[m]
        /\ roots'[n] = r
    BY <1>3, <2>1, <2>2, <2>4, RootAdded
  <2>6. r.key = job[p].key /\ r.active = job[p].active /\ r.state = "partial"
    BY DEF r
  <2>7. /\ job' \in [Procs -> Job] /\ OthersWait(p)
        /\ job'[p].pc = "fill" /\ job'[p].cmd = job[p].cmd
        /\ job'[p].number = n /\ job'[p].key = job[p].key
        /\ job'[p].active = job[p].active
    BY <1>3, <2>1, JobMoved DEF Controls, n
  <2>8. TypeOK'
    BY <2>1, <2>5, <2>7 DEF TypeOK
  <2>9. Beginning'
    <3>1. n = 1 => pointer.state # "absent"
      BY <2>3 DEF PlanInv, n
    <3>2. n > 1 => pointer.state = "committed"
      BY <2>3 DEF PlanInv, n
    <3>3. pointer.state = "committed" \/ (n = 1 /\ pointer.state # "absent")
      BY <2>4, <3>1, <3>2
    <3> QED BY <2>1, <2>5, <3>3 DEF ManualInv, DirectoryInv, Beginning
  <2>10. BelowCurrent'
    BY <2>1, <2>5 DEF ManualInv, DirectoryInv, BelowCurrent
  <2>11. InactivePrefix'
    <3>1. InactivePrefix
      BY DEF ManualInv, DirectoryInv
    <3>2. 1 \in DOMAIN roots' => ~roots'[1].active
      <4>1. n = 1 => ~job[p].active
        BY <2>3 DEF PlanInv, n
      <4>2. n # 1 => 1 \in DOMAIN roots
        <5>1. n # 1 => n - 1 \in DOMAIN roots /\ 1 \in 1..(n - 1)
          BY <2>2, <2>4
        <5> QED BY <2>1, <5>1, RootTypes
      <4> QED BY <2>5, <2>6, <3>1, <4>1, <4>2 DEF InactivePrefix
    <3>3. ASSUME NEW k \in DOMAIN roots', ~roots'[k].active, NEW m \in 1..k
          PROVE  ~roots'[m].active /\ roots'[m].key = roots'[k].key
      <4>1. CASE k \in DOMAIN roots
        <5>1. m \in DOMAIN roots
          BY <2>1, <4>1, RootTypes
        <5> QED BY <2>5, <3>1, <3>3, <4>1, <5>1 DEF InactivePrefix
      <4>2. CASE k = n /\ m = n
        BY <3>3, <4>2
      <4>3. CASE k = n /\ m # n
        <5>1. n > 1 /\ n - 1 \in DOMAIN roots /\ m \in 1..(n - 1)
          BY <2>2, <2>4, <3>3, <4>3
        <5>2. ~job[p].active /\ job[p].cmd = "create"
          BY <2>3, <2>5, <2>6, <3>3, <4>3
        <5>3. roots[n - 1].key = job[p].key /\ ~roots[n - 1].active
          BY <2>3, <5>1, <5>2 DEF CarriedInv, n
        <5>4. ~roots[m].active /\ roots[m].key = roots[n - 1].key
          BY <3>1, <5>1, <5>3 DEF InactivePrefix
        <5>5. m \in DOMAIN roots
          BY <2>1, <5>1, RootTypes
        <5> QED BY <2>5, <2>6, <4>3, <5>3, <5>4, <5>5
      <4> QED BY <2>5, <4>1, <4>2, <4>3
    <3> QED BY <3>2, <3>3 DEF InactivePrefix
  <2>12. SameCurrent
    <3>1. pointer.state = "committed" => pointer.number \in DOMAIN roots
      BY <2>1, CurrentIsComplete DEF ManualInv, CurrentComplete, CurrentLoads
    <3> QED BY <2>1, <2>5, <3>1 DEF SameCurrent, Current
  <2>13. RecordsInv'
    BY <2>1, <2>12, RecordsKept
  <2>14. ASSUME NEW q \in Procs \ {p}, At(q, "fill")
         PROVE  /\ job[q].number \in DOMAIN roots
                /\ roots[job[q].number].state = "partial"
    BY <2>14 DEF ManualInv, JobInv, OwnInv, At
  <2>15. OneFiller' /\ OthersFill(p)
    BY <2>5, <2>7, <2>14 DEF OneFiller, OthersFill, OthersWait, At, ManualInv
  <2>16. PlanInv(p)' /\ WorkInv(p)' /\ RetirementInv(p)'
    BY <2>1, <2>3, <2>7
    DEF PlanInv, WorkInv, RetirementInv, At, Staging, Retiring, n
  <2>17. CarriedInv(p)'
    BY <2>3, <2>4, <2>5, <2>7 DEF CarriedInv, n
  <2>18. OwnInv(p)'
    BY <2>5, <2>6, <2>7 DEF OwnInv, At, Owning
  <2>19. ReadyInv(p)'
    BY <2>1, <2>3, <2>7 DEF ReadyInv, At, ManualInv, JobInv, n
  <2>20. DirectoryGrows /\ RecordsGrow
    <3>1. age <= age' /\ pointer.number <= pointer'.number
      <4>1. age \in Nat /\ pointer.number \in Nat
        BY <2>1, PointerTypes, NumbersAreNaturals DEF TypeOK
      <4> QED BY <2>1, <4>1
    <3> QED BY <2>1, <2>5, <3>1 DEF DirectoryGrows, RecordsGrow, Answered
  <2> QED BY <2>7, <2>8, <2>9, <2>10, <2>11, <2>13, <2>15, <2>16, <2>17, <2>18,
             <2>19, <2>20, StepKept DEF DirectoryInv, JobInv
<1> QED BY <1>1, <1>2, <1>3 DEF AddRoot

\* A root becomes more complete, and its process goes on.
LEMMA StateKeeps ==
  ASSUME ManualInv, NEW p \in Procs, job[p].number \in DOMAIN roots,
         NEW s \in {"staging", "committed"},
         roots' = [roots EXCEPT ![job[p].number].state = s],
         roots[job[p].number].state = "committed" => s = "committed",
         \A q \in Procs \ {p} : At(q, "fill") => job[q].number # job[p].number,
         UNCHANGED <<pointer, age, dns, recursive, crashes, raced>>,
         job' \in [Procs -> Job], OthersWait(p), JobInv(p)', job'[p].pc # "fill"
  PROVE  ManualInv'
<1> DEFINE n == job[p].number
<1>1. TypeOK
  BY DEF ManualInv
<1>2. /\ \E k \in 0..LastNumber : roots' \in [1..k -> Root]
      /\ DOMAIN roots' = DOMAIN roots
      /\ \A m \in DOMAIN roots :
           /\ roots'[m].key = roots[m].key /\ roots'[m].active = roots[m].active
           /\ roots'[m].native = roots[m].native
           /\ m # n => roots'[m] = roots[m]
      /\ roots'[n].state = s
  BY <1>1, RootChanged
<1> HIDE DEF n
<1>3. TypeOK'
  BY <1>1, <1>2 DEF TypeOK
<1>4. \A m \in DOMAIN roots :
        /\ roots[m].state = "committed" => roots'[m].state = "committed"
        /\ roots[m].state # "partial" => roots'[m].state # "partial"
  BY <1>2 DEF n
<1>5. Beginning' /\ BelowCurrent'
  BY <1>2, <1>4 DEF ManualInv, DirectoryInv, Beginning, BelowCurrent
<1>6. InactivePrefix'
  <2>1. ASSUME NEW k \in DOMAIN roots', ~roots'[k].active, NEW m \in 1..k
        PROVE  ~roots'[m].active /\ roots'[m].key = roots'[k].key
    <3>1. k \in DOMAIN roots /\ m \in DOMAIN roots
      BY <1>1, <1>2, <2>1, RootTypes
    <3> QED BY <1>2, <2>1, <3>1 DEF ManualInv, DirectoryInv, InactivePrefix
  <2>2. 1 \in DOMAIN roots' => ~roots'[1].active
    BY <1>2 DEF ManualInv, DirectoryInv, InactivePrefix
  <2> QED BY <2>1, <2>2 DEF InactivePrefix
<1>7. SameCurrent
  <2>1. pointer.state = "committed" => pointer.number \in DOMAIN roots
    BY <1>1, CurrentIsComplete DEF ManualInv, CurrentComplete, CurrentLoads
  <2> QED BY <1>2, <2>1 DEF SameCurrent, Current
<1>8. RecordsInv'
  BY <1>7, RecordsKept
<1>9. ASSUME NEW q \in Procs \ {p}, At(q, "fill")
      PROVE  /\ job[q].number \in DOMAIN roots
             /\ roots[job[q].number].state = "partial"
  BY <1>9 DEF ManualInv, JobInv, OwnInv, At
<1>10. OthersFill(p)
  BY <1>2, <1>9 DEF OthersFill, n
<1>11. OneFiller'
  BY DEF ManualInv, OneFiller, OthersWait, At
<1>12. DirectoryGrows /\ RecordsGrow
  <2>1. age <= age' /\ pointer.number <= pointer'.number
    <3>1. age \in Nat /\ pointer.number \in Nat
      BY <1>1, PointerTypes, NumbersAreNaturals DEF TypeOK
    <3> QED BY <3>1
  <2> QED BY <1>2, <1>4, <2>1 DEF DirectoryGrows, RecordsGrow, Answered
<1> QED BY <1>3, <1>5, <1>6, <1>8, <1>10, <1>11, <1>12, StepKept DEF DirectoryInv

\* What a process at its own candidate knows of it.
LEMMA OwnRoot ==
  ASSUME ManualInv, NEW p \in Procs, job[p].pc \in Owning \cup {"fill"}
  PROVE  /\ job[p].number \in DOMAIN roots /\ job[p].pc \in Staging
         /\ roots[job[p].number].key = job[p].key
         /\ roots[job[p].number].active = job[p].active
         /\ roots[job[p].number].state = "partial" <=> job[p].pc = "fill"
BY DEF ManualInv, JobInv, OwnInv, Staging

LEMMA FillKeeps ==
  ASSUME ManualInv, NEW p \in Procs, Fill(p)
  PROVE  ManualInv'
<1>1. /\ At(p, "fill") /\ To(p, "stored")
      /\ roots' = [roots EXCEPT ![job[p].number].state = "staging"]
      /\ UNCHANGED <<pointer, age, dns, recursive, crashes, raced>>
  BY DEF Fill
<1>2. /\ job[p].number \in DOMAIN roots /\ roots[job[p].number].key = job[p].key
      /\ roots[job[p].number].active = job[p].active
      /\ roots[job[p].number].state = "partial"
  BY <1>1, OwnRoot DEF At
<1>3. /\ job' \in [Procs -> Job] /\ OthersWait(p)
      /\ job'[p].pc = "stored" /\ job'[p].cmd = job[p].cmd
      /\ job'[p].number = job[p].number /\ job'[p].key = job[p].key
      /\ job'[p].active = job[p].active
  BY <1>1, JobMoved DEF ManualInv, Controls
<1>4. /\ DOMAIN roots' = DOMAIN roots
      /\ \A m \in DOMAIN roots :
           roots'[m].key = roots[m].key /\ roots'[m].active = roots[m].active
      /\ roots'[job[p].number].state = "staging"
  BY <1>1, <1>2, RootChanged DEF ManualInv
<1>5. /\ PlanInv(p) /\ CarriedInv(p) /\ ReadyInv(p) /\ job[p].pc = "fill"
  BY <1>1 DEF ManualInv, JobInv, At
<1>6. WorkInv(p)' /\ RetirementInv(p)' /\ PlanInv(p)'
  BY <1>1, <1>3, <1>5
  DEF WorkInv, RetirementInv, PlanInv, At, Retiring, Staging, Owning
<1>7. CarriedInv(p)'
  <2>1. job[p].number > 1 => job[p].number - 1 \in DOMAIN roots
    BY <1>5, BelowCandidate DEF Staging
  <2> QED BY <1>3, <1>4, <1>5, <2>1 DEF CarriedInv, Staging
<1>8. OwnInv(p)'
  BY <1>2, <1>3, <1>4 DEF OwnInv, At
<1>9. ReadyInv(p)'
  BY <1>1, <1>3, <1>5 DEF ReadyInv, At, Staging
<1>10. JobInv(p)' /\ job'[p].pc # "fill"
  BY <1>3, <1>6, <1>7, <1>8, <1>9 DEF JobInv
<1>11. \A q \in Procs \ {p} : At(q, "fill") => job[q].number # job[p].number
  BY <1>1 DEF ManualInv, OneFiller
<1>12. "staging" \in {"staging", "committed"}
       /\ (roots[job[p].number].state = "committed" => "staging" = "committed")
  BY <1>2
<1> QED BY <1>1, <1>2, <1>3, <1>10, <1>11, <1>12, StateKeeps

LEMMA CommitKeeps ==
  ASSUME ManualInv, NEW p \in Procs, Commit(p)
  PROVE  ManualInv'
<1>1. CASE End(p) /\ UNCHANGED roots
  BY <1>1, EndKeeps DEF Commit, ManualInv, TypeOK, directory
<1>2. CASE /\ To(p, "switch")
           /\ roots' = [roots EXCEPT ![job[p].number].state = "committed"]
  <2>1. At(p, "commit") /\ UNCHANGED <<pointer, age, dns, recursive, crashes, raced>>
    BY DEF Commit
  <2>2. /\ job[p].number \in DOMAIN roots /\ roots[job[p].number].key = job[p].key
        /\ roots[job[p].number].active = job[p].active
        /\ roots[job[p].number].state # "partial"
    BY <2>1, OwnRoot DEF At, Owning
  <2>3. /\ job' \in [Procs -> Job] /\ OthersWait(p)
        /\ job'[p].pc = "switch" /\ job'[p].cmd = job[p].cmd
        /\ job'[p].number = job[p].number /\ job'[p].key = job[p].key
        /\ job'[p].active = job[p].active
    BY <1>2, JobMoved DEF ManualInv, Controls
  <2>4. /\ DOMAIN roots' = DOMAIN roots
        /\ \A m \in DOMAIN roots :
             roots'[m].key = roots[m].key /\ roots'[m].active = roots[m].active
        /\ roots'[job[p].number].state = "committed"
    BY <1>2, <2>2, RootChanged DEF ManualInv
  <2>5. PlanInv(p) /\ CarriedInv(p) /\ ReadyInv(p) /\ job[p].pc = "commit"
    BY <2>1 DEF ManualInv, JobInv, At
  <2>6. WorkInv(p)' /\ RetirementInv(p)' /\ PlanInv(p)'
    BY <2>1, <2>3, <2>5
    DEF WorkInv, RetirementInv, PlanInv, At, Retiring, Staging, Owning
  <2>7. CarriedInv(p)'
    <3>1. job[p].number > 1 => job[p].number - 1 \in DOMAIN roots
      BY <2>5, BelowCandidate DEF Staging, Owning
    <3> QED BY <2>3, <2>4, <2>5, <3>1 DEF CarriedInv, Staging, Owning
  <2>8. OwnInv(p)'
    BY <2>2, <2>3, <2>4 DEF OwnInv, At
  <2>9. ReadyInv(p)'
    BY <2>1, <2>3, <2>5 DEF ReadyInv, At, Staging, Owning, Answered
  <2>10. JobInv(p)' /\ job'[p].pc # "fill"
    BY <2>3, <2>6, <2>7, <2>8, <2>9 DEF JobInv
  <2>11. \A q \in Procs \ {p} : At(q, "fill") => job[q].number # job[p].number
    BY <2>2, OwnRoot DEF At
  <2> QED BY <1>2, <2>1, <2>2, <2>3, <2>10, <2>11, StateKeeps
<1> QED BY <1>1, <1>2 DEF Commit

\* One record more.
LEMMA PublishKeeps ==
  ASSUME ManualInv, NEW p \in Procs, Publish(p)
  PROVE  ManualInv'
<1> DEFINE low == Low(job[p].todo)
           rest == job[p].todo \ {low}
           j == IF rest # {} THEN [job[p] EXCEPT !.todo = rest]
                ELSE IF job[p].pc = "announce" THEN Idle
                ELSE [job[p] EXCEPT !.todo = {}, !.pc = "prove"]
<1>1. /\ job[p].pc \in {"publish", "announce"} /\ dns' = dns \cup {<<job[p].key, low>>}
      /\ job' = [job EXCEPT ![p] = j]
      /\ UNCHANGED <<directory, recursive, crashes, raced>> /\ TypeOK
  BY DEF Publish, At, ManualInv
<1>2. job[p] \in Job /\ job[p].key \in Keys /\ job[p].todo \in SUBSET Algorithms
  BY <1>1, JobTypes
<1>3. low \in Algorithms /\ rest \in SUBSET Algorithms
  <2>1. job[p].todo # {}
    BY <1>1 DEF ManualInv, JobInv, WorkInv, At
  <2> QED BY <1>2, <2>1, LowIsMember
<1>4. dns' \subseteq Records /\ dns \subseteq dns'
  BY <1>1, <1>2, <1>3 DEF Records, TypeOK
<1> HIDE DEF low, rest
<1>5. j \in Job
  BY <1>2, <1>3, IdleIsJob DEF Job, Controls
<1>6. job' \in [Procs -> Job] /\ job'[p] = j /\ OthersWait(p)
  <2> HIDE DEF j
  <2> QED BY <1>1, <1>5, JobReplaced
<1>7. TypeOK'
  BY <1>1, <1>4, <1>6 DEF TypeOK, directory
<1>8. JobInv(p)' /\ job'[p].pc # "fill"
  <2>1. CASE rest = {} /\ job[p].pc = "announce"
    <3>1. job'[p] = Idle
      BY <1>6, <2>1
    <3> QED BY <3>1, IdleIsJob, IdleInv DEF Idle
  <2>2. CASE rest # {} /\ job[p].pc = "announce"
    <3>1. job'[p].pc = "announce" /\ job'[p].todo # {}
      BY <1>2, <1>6, <2>2 DEF Job
    <3> QED BY <3>1 DEF JobInv, WorkInv, PlanInv, CarriedInv, OwnInv, ReadyInv,
               RetirementInv, At, Staging, Owning, Retiring
  <2>3. CASE job[p].pc = "publish"
    <3>1. /\ job'[p].pc \in {"publish", "prove"}
          /\ job'[p].pc = "publish" => job'[p].todo # {}
          /\ job'[p].cmd = job[p].cmd /\ job'[p].number = job[p].number
          /\ job'[p].key = job[p].key /\ job'[p].active = job[p].active
      BY <1>2, <1>3, <1>6, <2>3 DEF Job
    <3>2. Advances(p, job'[p].pc)
      BY <2>3, <3>1 DEF Advances, Staging, Owning
    <3> QED BY <1>1, <1>4, <3>2, AdvanceJob
  <2> QED BY <1>1, <2>1, <2>2, <2>3
<1>9. DirectoryInv'
  BY <1>1 DEF ManualInv, directory, DirectoryInv, Beginning, BelowCurrent,
     InactivePrefix
<1>10. RecordsInv'
  BY <1>1, <1>4, RecordsKept DEF SameCurrent, Current, directory
<1>11. OneFiller'
  BY <1>6, <1>8 DEF ManualInv, OneFiller, OthersWait, At
<1>12. DirectoryGrows /\ RecordsGrow
  <2>1. age <= age' /\ pointer.number <= pointer'.number
    <3>1. age \in Nat /\ pointer.number \in Nat
      BY <1>1, PointerTypes, NumbersAreNaturals DEF TypeOK
    <3> QED BY <1>1, <3>1 DEF directory
  <2> QED BY <1>1, <1>4, <2>1 DEF DirectoryGrows, RecordsGrow, Answered, directory
<1>13. OthersFill(p)
  BY <1>1, OwnRoot DEF OthersFill, directory, At
<1> QED BY <1>6, <1>7, <1>8, <1>9, <1>10, <1>11, <1>12, <1>13, StepKept

\* The pointer moves onto the own candidate.
LEMMA SwitchKeeps ==
  ASSUME ManualInv, NEW p \in Procs, Switch(p)
  PROVE  ManualInv'
<1> DEFINE c == job[p].number
<1>1. CASE End(p) /\ UNCHANGED <<pointer, age>>
  BY <1>1, EndKeeps DEF Switch, ManualInv, TypeOK, directory
<1>2. CASE /\ SwitchAsserted(c)
           /\ pointer' = [number |-> c, state |-> "committed", native |-> FALSE]
           /\ age' = 0
           /\ \/ End(p)
              \/ job' = [job EXCEPT ![p].pc = "announce", ![p].todo = Algorithms]
  <2>1. /\ At(p, "switch") /\ UNCHANGED <<roots, dns, recursive, crashes, raced>>
        /\ TypeOK
    BY DEF Switch, ManualInv
  <2>2. /\ c \in DOMAIN roots /\ roots[c].state = "committed"
        /\ roots[c].active = job[p].active /\ roots[c].key = job[p].key
    BY <2>1 DEF ManualInv, JobInv, OwnInv, At, Owning
  <2>3. c \in Numbers /\ c \in Nat /\ c >= 1
    BY <2>1, JobTypes
  <2>4. c = 1 => pointer.state = "staging" /\ pointer.number = 1
    BY <1>2 DEF SwitchAsserted, Absent
  <2>5. c # 1 => pointer.state = "committed" /\ pointer.number = c - 1
    BY <1>2 DEF SwitchAsserted
  <2>6. pointer'.number = c /\ pointer'.state = "committed" /\ pointer'.native = FALSE
        /\ pointer' \in [number : Numbers, native : BOOLEAN,
                        state : {"absent", "staging", "committed"}]
    BY <1>2, <2>3
  <2>7. job' \in [Procs -> Job] /\ OthersWait(p) /\ JobInv(p)' /\ job'[p].pc # "fill"
    <3>1. CASE End(p)
      BY <2>1, <3>1, JobEnded
    <3>2. CASE job' = [job EXCEPT ![p].pc = "announce", ![p].todo = Algorithms]
      <4> DEFINE j == [job[p] EXCEPT !.pc = "announce", !.todo = Algorithms]
      <4>1. job' = [job EXCEPT ![p] = j]
        BY <3>2
      <4>2. j \in Job /\ j.pc = "announce" /\ j.todo = Algorithms
        BY <2>1, JobTypes DEF Job, Controls
      <4> HIDE DEF j
      <4>3. job' \in [Procs -> Job] /\ job'[p] = j /\ OthersWait(p)
        BY <2>1, <4>1, <4>2, JobReplaced
      <4>4. job'[p].pc = "announce" /\ job'[p].todo # {}
        BY <4>2, <4>3, ManualAssumption
      <4>5. JobInv(p)'
        BY <4>4 DEF JobInv, WorkInv, PlanInv, CarriedInv, OwnInv, ReadyInv,
           RetirementInv, At, Staging, Owning, Retiring
      <4> QED BY <4>3, <4>4, <4>5
    <3> QED BY <1>2, <3>1, <3>2
  <2> HIDE DEF c
  <2>8. TypeOK'
    BY <1>2, <2>1, <2>6, <2>7, NumbersAreNaturals DEF TypeOK
  <2>9. Beginning' /\ InactivePrefix'
    BY <2>1, <2>6 DEF ManualInv, DirectoryInv, Beginning, InactivePrefix
  <2>10. BelowCurrent'
    <3>1. SUFFICES ASSUME NEW n \in 1..c
                   PROVE  n \in DOMAIN roots /\ roots[n].state = "committed"
      BY <2>1, <2>6 DEF BelowCurrent
    <3>2. CASE n = c
      BY <2>2, <3>2
    <3>3. CASE n # c
      <4>1. c # 1 /\ n \in 1..(c - 1)
        BY <2>3, <3>1, <3>3
      <4> QED BY <2>5, <4>1 DEF ManualInv, DirectoryInv, BelowCurrent
    <3> QED BY <3>2, <3>3
  <2>11. Current' = roots[c]
    BY <2>1, <2>6 DEF Current
  <2>12. NothingStale'
    <3>1. SUFFICES ASSUME ~roots[c].active PROVE recursive \subseteq dns
      BY <2>1, <2>6, <2>11 DEF NothingStale
    <3>2. CASE c = 1
      BY <2>4, <3>2 DEF ManualInv, RecordsInv, NothingStale
    <3>3. CASE c # 1
      <4>1. c - 1 \in 1..c
        BY <2>3, <3>3
      <4>2. ~roots[c - 1].active
        BY <2>2, <3>1, <4>1 DEF ManualInv, DirectoryInv, InactivePrefix
      <4>3. ~Current.active
        BY <2>5, <3>3, <4>2 DEF Current
      <4> QED BY <4>3 DEF ManualInv, RecordsInv, NothingStale
    <3> QED BY <3>2, <3>3
  <2>13. ActivePublished'
    <3>1. SUFFICES ASSUME roots[c].active, ~raced
                   PROVE  RecordsOf(roots[c].key) \subseteq dns
      BY <2>1, <2>11 DEF ActivePublished
    <3>2. c # 1
      BY <2>2, <3>1 DEF ManualInv, DirectoryInv, InactivePrefix
    <3>3. ~(c <= pointer.number)
      BY <2>3, <2>5, <3>2
    <3>4. ReadyInv(p)
      BY DEF ManualInv, JobInv
    <3>5. job[p].cmd # "create" => Answered(job[p].key)
      BY <2>1, <3>1, <3>3, <3>4 DEF ReadyInv, c
    <3>6. job[p].cmd = "create" => RecordsOf(job[p].key) \subseteq dns
      <4>1. job[p].active
        BY <2>2, <3>1
      <4> QED BY <2>1, <3>1, <3>3, <3>4, <4>1 DEF ReadyInv, c, At, Staging, Owning
    <3> QED BY <2>2, <3>5, <3>6 DEF Answered
  <2>14. OneFiller'
    BY <2>7 DEF ManualInv, OneFiller, OthersWait, At
  <2>15. DirectoryGrows /\ RecordsGrow
    <3>1. /\ pointer.number <= pointer'.number
          /\ pointer.state = "committed" => pointer'.number # pointer.number
      BY <2>3, <2>4, <2>5, <2>6
    <3> QED BY <2>1, <2>6, <3>1 DEF DirectoryGrows, RecordsGrow, Answered
  <2>16. OthersFill(p)
    BY <2>1, OwnRoot DEF OthersFill, At
  <2> QED BY <2>7, <2>8, <2>9, <2>10, <2>12, <2>13, <2>14, <2>15, <2>16, StepKept
          DEF DirectoryInv, RecordsInv
<1> QED BY <1>1, <1>2 DEF Switch

\* A key in retirement is not the one that signers use, unless the delete was
\* overtaken.
LEMMA RetiredUnused ==
  ASSUME ManualInv, NEW p \in Procs, At(p, "delete")
  PROVE  /\ pointer.state = "committed" /\ Current.active
         /\ Fenced(p) => /\ NoSuccessor /\ pointer.number = job[p].number
                         /\ Current.key # job[p].key /\ age >= Overlap
<1>1. RetirementInv(p) /\ TypeOK
  BY DEF ManualInv, JobInv
<1>2. /\ pointer.state = "committed" /\ job[p].number <= pointer.number
      /\ RotatedOne(job[p].number) /\ job[p].key = roots[job[p].number - 1].key
      /\ pointer.number = job[p].number => age >= Overlap
  BY <1>1 DEF RetirementInv, At, Retiring
<1>3. Current.active
  <2>1. job[p].number \in 1..pointer.number
    BY <1>1, <1>2, PointerTypes, JobTypes
  <2>2. pointer.number \in DOMAIN roots
    BY <1>2, CurrentIsComplete DEF ManualInv, CurrentComplete, CurrentLoads
  <2>3. ~roots[pointer.number].active => ~roots[job[p].number].active
    BY <2>1, <2>2 DEF ManualInv, DirectoryInv, InactivePrefix
  <2>4. roots[job[p].number].active
    BY <1>2 DEF RotatedOne
  <2> QED BY <2>3, <2>4 DEF Current
<1>4. Fenced(p) => Current.key # job[p].key
  BY <1>2 DEF Fenced, Current, RotatedOne
<1> QED BY <1>2, <1>3, <1>4 DEF Fenced

\* One record less.
LEMMA DeleteKeeps ==
  ASSUME ManualInv, NEW p \in Procs, Delete(p)
  PROVE  ManualInv'
<1> DEFINE low == Low(job[p].todo)
           rest == job[p].todo \ {low}
           j == IF rest = {} THEN Idle ELSE [job[p] EXCEPT !.todo = rest, !.pc = "fence"]
           gone == <<job[p].key, low>>
<1>1. /\ At(p, "delete") /\ dns' = dns \ {gone}
      /\ job' = [job EXCEPT ![p] = j] /\ raced' = (raced \/ ~Fenced(p))
      /\ UNCHANGED <<directory, recursive, crashes>> /\ TypeOK
  BY DEF Delete, ManualInv
<1>2. /\ pointer.state = "committed" /\ Current.active
      /\ Fenced(p) => /\ NoSuccessor /\ pointer.number = job[p].number
                      /\ Current.key # job[p].key
  BY <1>1, RetiredUnused
<1>3. pointer' = pointer /\ roots' = roots /\ age' = age /\ recursive' = recursive
  BY <1>1 DEF directory
<1>4. job[p] \in Job /\ rest \in SUBSET Algorithms
  BY <1>1, JobTypes
<1> HIDE DEF low, rest
<1>5. j \in Job
  BY <1>4, IdleIsJob DEF Job, Controls
<1>6. job' \in [Procs -> Job] /\ job'[p] = j /\ OthersWait(p)
  <2> HIDE DEF j
  <2> QED BY <1>1, <1>5, JobReplaced
<1>7. TypeOK'
  BY <1>1, <1>6 DEF TypeOK, directory
<1>8. \A key : key # job[p].key /\ RecordsOf(key) \subseteq dns =>
                 RecordsOf(key) \subseteq dns'
  BY <1>1 DEF RecordsOf
<1> HIDE DEF gone
<1>9. JobInv(p)' /\ job'[p].pc # "fill"
  <2>1. CASE rest = {}
    <3>1. job'[p] = Idle
      BY <1>6, <2>1
    <3> QED BY <3>1, IdleIsJob, IdleInv DEF Idle
  <2>2. CASE rest # {}
    <3>1. /\ job'[p].pc = "fence" /\ job'[p].todo # {}
          /\ job'[p].number = job[p].number /\ job'[p].key = job[p].key
      BY <1>4, <1>6, <2>2 DEF Job
    <3>2. RetirementInv(p) /\ job[p].pc = "delete"
      BY <1>1 DEF ManualInv, JobInv, At
    <3>3. RetirementInv(p)'
      BY <1>3, <3>1, <3>2 DEF RetirementInv, Retiring, RotatedOne
    <3>4. /\ WorkInv(p)' /\ PlanInv(p)' /\ CarriedInv(p)' /\ OwnInv(p)'
          /\ ReadyInv(p)'
      BY <3>1 DEF WorkInv, PlanInv, CarriedInv, OwnInv, ReadyInv, At, Staging, Owning
    <3> QED BY <3>1, <3>3, <3>4 DEF JobInv
  <2> QED BY <2>1, <2>2
<1> HIDE DEF j
<1>10. DirectoryInv'
  BY <1>3 DEF ManualInv, DirectoryInv, Beginning, BelowCurrent, InactivePrefix
<1>11. Current' = Current
  BY <1>3 DEF Current
<1>12. RecordsInv'
  <2>1. NothingStale'
    BY <1>2, <1>3, <1>11 DEF NothingStale
  <2>2. ActivePublished'
    <3>1. SUFFICES ASSUME CurrentLoads', ~raced'
                   PROVE  RecordsOf(Current.key) \subseteq dns'
      BY <1>11 DEF ActivePublished
    <3>2. CurrentLoads /\ ~raced /\ Current.key # job[p].key
      BY <1>1, <1>2, <1>3, <3>1 DEF CurrentLoads, Current
    <3>3. RecordsOf(Current.key) \subseteq dns
      BY <1>2, <3>2 DEF ManualInv, RecordsInv, ActivePublished
    <3> QED BY <1>8, <3>2, <3>3
  <2> QED BY <2>1, <2>2 DEF RecordsInv
<1>13. OneFiller'
  BY <1>6, <1>9 DEF ManualInv, OneFiller, OthersWait, At
<1>14. DirectoryGrows
  <2>1. age \in Nat /\ pointer.number \in Nat
    BY <1>1, PointerTypes, NumbersAreNaturals DEF TypeOK
  <2> QED BY <1>3, <2>1 DEF DirectoryGrows
<1>15. ASSUME NEW q \in Procs \ {p} PROVE JobInv(q)'
  <2>1. job'[q] = job[q] /\ (At(q, "fill") => roots'[job[q].number].state = "partial")
    BY <1>3, <1>6, OwnRoot DEF OthersWait, At
  <2>2. /\ WorkInv(q)' /\ PlanInv(q)' /\ CarriedInv(q)' /\ OwnInv(q)'
        /\ RetirementInv(q)'
    BY <1>7, <1>14, <2>1, OthersKept
  <2>3. ReadyInv(q)'
    <3>1. SUFFICES ASSUME ~raced', ~(job[q].number <= pointer.number) PROVE ReadyInv(q)'
      BY <1>3, <2>1 DEF ReadyInv
    <3>2. ~raced /\ Fenced(p) /\ NoSuccessor /\ Current.key # job[p].key
      BY <1>1, <1>2, <3>1
    <3>3. job[q].pc \notin Owning \cup {"fill"}
      BY <3>1, <3>2, OwnRoot DEF NoSuccessor
    <3>4. CASE job[q].pc \in Staging /\ job[q].cmd = "create" /\ job[q].active
      <4>1. PlanInv(q) /\ CarriedInv(q) /\ ReadyInv(q)
        BY DEF ManualInv, JobInv
      <4>2. job[q].number \in Nat /\ pointer.number \in Nat
            /\ job[q].number >= 1 /\ pointer.number >= 1
        BY <1>1, PointerTypes, JobTypes
      <4>3. job[q].number > 1
        BY <3>1, <4>2
      <4>4. job[q].number <= pointer.number + 1
        BY <3>4, <4>1, <4>3 DEF PlanInv
      <4>5. job[q].number - 1 = pointer.number
        BY <3>1, <4>2, <4>4
      <4>6. job[q].key = Current.key
        BY <3>4, <4>1, <4>3, <4>5 DEF CarriedInv, Current
      <4>7. RecordsOf(job[q].key) \subseteq dns
        BY <3>1, <3>2, <3>4, <4>1 DEF ReadyInv
      <4>8. RecordsOf(job[q].key) \subseteq dns'
        BY <1>8, <3>2, <4>6, <4>7
      <4> QED BY <2>1, <3>3, <4>8 DEF ReadyInv, At, Owning
    <3>5. CASE ~(job[q].pc \in Staging /\ job[q].cmd = "create" /\ job[q].active)
      BY <2>1, <3>3, <3>5 DEF ReadyInv, At, Owning
    <3> QED BY <3>4, <3>5
  <2> QED BY <2>2, <2>3 DEF JobInv
<1> QED BY <1>7, <1>9, <1>10, <1>12, <1>13, <1>15 DEF ManualInv

-----------------------------------------------------------------------------
(* The environment.                                                        *)

\* A step of no process.
LEMMA EnvironmentKeeps ==
  ASSUME ManualInv, TypeOK', DirectoryInv', RecordsInv', DirectoryGrows, RecordsGrow,
         job' = job,
         \A q \in Procs : At(q, "fill") => roots'[job[q].number].state = "partial"
  PROVE  ManualInv'
<1>1. ASSUME NEW q \in Procs PROVE JobInv(q)'
  BY OthersKept, ReadyKept DEF JobInv
<1>2. OneFiller'
  BY DEF ManualInv, OneFiller, At
<1> QED BY <1>1, <1>2 DEF ManualInv

LEMMA RefetchKeeps ==
  ASSUME ManualInv, NEW r \in Records, Refetch(r)
  PROVE  ManualInv'
<1>1. /\ UNCHANGED <<directory, dns, crashes, raced, job>> /\ TypeOK
      /\ pointer' = pointer /\ roots' = roots /\ age' = age
  BY DEF Refetch, directory, ManualInv
<1>2. /\ recursive' \subseteq recursive \cup dns /\ recursive' \subseteq Records
      /\ recursive \cap dns \subseteq recursive'
  BY <1>1 DEF Refetch, TypeOK
<1>3. TypeOK'
  BY <1>1, <1>2 DEF TypeOK
<1>4. DirectoryInv'
  BY <1>1 DEF ManualInv, DirectoryInv, Beginning, BelowCurrent, InactivePrefix
<1>5. RecordsInv'
  BY <1>1, <1>2 DEF ManualInv, RecordsInv, NothingStale, ActivePublished,
     CurrentLoads, Current
<1>6. DirectoryGrows /\ RecordsGrow
  <2>1. age \in Nat /\ pointer.number \in Nat
    BY <1>1, PointerTypes, NumbersAreNaturals DEF TypeOK
  <2> QED BY <1>1, <1>2, <2>1 DEF DirectoryGrows, RecordsGrow, Answered
<1>7. \A q \in Procs : At(q, "fill") => roots'[job[q].number].state = "partial"
  BY <1>1, OwnRoot DEF At
<1> QED BY <1>1, <1>3, <1>4, <1>5, <1>6, <1>7, EnvironmentKeeps

LEMMA TickKeeps ==
  ASSUME ManualInv, Tick
  PROVE  ManualInv'
<1>1. /\ UNCHANGED <<roots, pointer, dns, recursive, crashes, raced, job>> /\ TypeOK
      /\ age < Overlap /\ age' = age + 1
  BY DEF Tick, ManualInv
<1>2. age \in 0..Overlap
  BY <1>1 DEF TypeOK
<1>3. age' \in 0..Overlap /\ age <= age'
  BY <1>1, <1>2, NumbersAreNaturals
<1>4. TypeOK'
  BY <1>1, <1>3 DEF TypeOK
<1>5. DirectoryInv' /\ RecordsInv'
  BY <1>1 DEF ManualInv, DirectoryInv, Beginning, BelowCurrent, InactivePrefix,
     RecordsInv, NothingStale, ActivePublished, CurrentLoads, Current
<1>6. DirectoryGrows /\ RecordsGrow
  <2>1. pointer.number \in Nat
    BY <1>1, PointerTypes
  <2> QED BY <1>1, <1>3, <2>1 DEF DirectoryGrows, RecordsGrow, Answered
<1>7. \A q \in Procs : At(q, "fill") => roots'[job[q].number].state = "partial"
  BY <1>1, OwnRoot DEF At
<1> QED BY <1>1, <1>4, <1>5, <1>6, <1>7, EnvironmentKeeps

\* A native campaign: its generation is committed and published.
LEMMA CampaignKeeps ==
  ASSUME ManualInv, Campaign
  PROVE  ManualInv'
<1> DEFINE n == pointer.number + 1
           r == [key |-> <<n, 0>>, active |-> TRUE, state |-> "committed",
                 native |-> TRUE]
<1>1. /\ NoSuccessor /\ HasNext(pointer.number) /\ TypeOK
      /\ roots' = [m \in DOMAIN roots \cup {n} |-> IF m = n THEN r ELSE roots[m]]
      /\ pointer' = [number |-> n, state |-> "committed", native |-> TRUE]
      /\ dns' = dns \cup RecordsOf(<<n, 0>>)
      /\ recursive' = recursive \cup RecordsOf(<<n, 0>>)
      /\ age' = 0 /\ UNCHANGED <<crashes, raced, job>>
  BY DEF Campaign, AtMaximum, ManualInv
<1>2. /\ pointer.number \in Nat /\ pointer.number >= 1 /\ n \in Numbers
      /\ n > pointer.number /\ n - 1 = pointer.number
      /\ n = pointer.number + 1 /\ n \in Nat
  BY <1>1, PointerTypes, NumbersAreNaturals DEF HasNext, Numbers
<1>3. n \notin DOMAIN roots /\ n - 1 \in DOMAIN roots
  <2>1. \A m \in DOMAIN roots : m <= pointer.number
    BY <1>1 DEF NoSuccessor
  <2>2. pointer.number \in DOMAIN roots
    BY <1>1 DEF NoSuccessor, CurrentLoads
  <2> QED BY <1>2, <2>1, <2>2
<1>4. <<n, 0>> \in Keys /\ r \in Root
  BY <1>2 DEF Keys, Root
<1>5. /\ pointer'.number = n /\ pointer'.state = "committed"
      /\ pointer' \in [number : Numbers, native : BOOLEAN,
                       state : {"absent", "staging", "committed"}]
  BY <1>1, <1>2
<1>6. r.key = <<n, 0>> /\ r.active /\ r.state = "committed"
  OBVIOUS
<1> HIDE DEF n, r
<1>7. /\ \E k \in 0..LastNumber : roots' \in [1..k -> Root]
      /\ DOMAIN roots' = DOMAIN roots \cup {n}
      /\ \A m \in DOMAIN roots : m < n /\ m # n /\ roots'[m] = roots[m]
      /\ roots'[n] = r
  BY <1>1, <1>2, <1>3, <1>4, RootAdded
<1>8. RecordsOf(<<n, 0>>) \subseteq Records
  BY <1>4 DEF RecordsOf, Records
<1>9. TypeOK'
  <2>1. age' \in 0..Overlap
    BY <1>1, NumbersAreNaturals
  <2>2. dns' \subseteq Records /\ recursive' \subseteq Records
    BY <1>1, <1>8 DEF TypeOK
  <2>3. /\ crashes' \in 0..MaxCrashes /\ raced' \in BOOLEAN
        /\ job' \in [Procs -> Job]
    BY <1>1 DEF TypeOK
  <2> QED BY <1>5, <1>7, <2>1, <2>2, <2>3 DEF TypeOK
<1>10. Beginning'
  BY <1>5 DEF Beginning
<1>11. BelowCurrent'
  <2>1. SUFFICES ASSUME NEW m \in 1..n
                 PROVE  m \in DOMAIN roots' /\ roots'[m].state = "committed"
    BY <1>5 DEF BelowCurrent
  <2>2. m = n \/ m \in 1..pointer.number
    BY <1>2, <2>1
  <2>3. m \in 1..pointer.number => m \in DOMAIN roots /\ roots[m].state = "committed"
    BY <1>1 DEF ManualInv, DirectoryInv, BelowCurrent, NoSuccessor, CurrentLoads
  <2> QED BY <1>6, <1>7, <2>2, <2>3
<1>12. InactivePrefix'
  <2>1. InactivePrefix
    BY DEF ManualInv, DirectoryInv
  <2>2. 1 \in DOMAIN roots' => ~roots'[1].active
    <3>1. n # 1
      BY <1>2
    <3> QED BY <1>7, <2>1, <3>1 DEF InactivePrefix
  <2>3. ASSUME NEW k \in DOMAIN roots', ~roots'[k].active, NEW m \in 1..k
        PROVE  ~roots'[m].active /\ roots'[m].key = roots'[k].key
    <3>1. k \in DOMAIN roots
      BY <1>6, <1>7, <2>3
    <3>2. m \in DOMAIN roots
      BY <1>1, <3>1, RootTypes
    <3> QED BY <1>7, <2>1, <2>3, <3>1, <3>2 DEF InactivePrefix
  <2> QED BY <2>2, <2>3 DEF InactivePrefix
<1>13. Current' = r
  BY <1>5, <1>7 DEF Current
<1>14. RecordsInv'
  BY <1>1, <1>5, <1>6, <1>13 DEF RecordsInv, NothingStale, ActivePublished
<1>15. DirectoryGrows
  BY <1>2, <1>5, <1>7 DEF DirectoryGrows
<1>16. RecordsGrow
  BY <1>1 DEF RecordsGrow, Answered
<1>17. \A q \in Procs : At(q, "fill") => roots'[job[q].number].state = "partial"
  BY <1>7, OwnRoot DEF At
<1> QED BY <1>1, <1>9, <1>10, <1>11, <1>12, <1>14, <1>15, <1>16, <1>17,
           EnvironmentKeeps DEF DirectoryInv

-----------------------------------------------------------------------------
(* The invariant.                                                          *)

\* Nothing is there at first.
LEMMA InitHolds == Init => ManualInv
<1> SUFFICES ASSUME Init PROVE ManualInv
  OBVIOUS
<1>1. /\ roots = <<>> /\ pointer = Absent /\ age = 0 /\ dns = {} /\ recursive = {}
      /\ crashes = 0 /\ raced = FALSE /\ job = [p \in Procs |-> Idle]
  BY DEF Init
<1>2. DOMAIN roots = {} /\ DOMAIN roots = 1..0
  BY <1>1
<1>3. roots \in [1..0 -> Root]
  BY <1>1, <1>2
<1>4. /\ pointer \in [number : Numbers, native : BOOLEAN,
                       state : {"absent", "staging", "committed"}]
      /\ pointer.state = "absent" /\ pointer.number = 1 /\ pointer.native = FALSE
  BY <1>1, NumbersAreNaturals DEF Absent
<1>5. TypeOK
  <2>1. \E k \in 0..LastNumber : roots \in [1..k -> Root]
    <3>1. 0 \in 0..LastNumber
      BY NumbersAreNaturals
    <3> QED BY <1>3, <3>1
  <2>2. age \in 0..Overlap /\ crashes \in 0..MaxCrashes
    BY <1>1, NumbersAreNaturals
  <2>3. dns \subseteq Records /\ recursive \subseteq Records /\ raced \in BOOLEAN
    BY <1>1
  <2>4. job \in [Procs -> Job]
    BY <1>1, IdleIsJob
  <2> QED BY <1>4, <2>1, <2>2, <2>3, <2>4 DEF TypeOK
<1>6. DirectoryInv /\ RecordsInv
  BY <1>1, <1>2, <1>4 DEF DirectoryInv, Beginning, BelowCurrent, InactivePrefix,
     RecordsInv, NothingStale, ActivePublished, CurrentLoads
<1>7. \A p \in Procs : job[p].pc = "idle"
  BY <1>1, IdleIsJob
<1>8. OneFiller /\ \A p \in Procs : JobInv(p)
  BY <1>7 DEF OneFiller, JobInv, WorkInv, PlanInv, CarriedInv, OwnInv, ReadyInv,
     RetirementInv, At, Staging, Owning, Retiring
<1> QED BY <1>5, <1>6, <1>8 DEF ManualInv

\* Every step keeps it.
LEMMA NextKeeps == ManualInv /\ [Next]_vars => ManualInv'
<1> SUFFICES ASSUME ManualInv, [Next]_vars PROVE ManualInv'
  OBVIOUS
<1>1. CASE UNCHANGED vars
  BY <1>1 DEF vars, directory, ManualInv, TypeOK, DirectoryInv, Beginning,
     BelowCurrent, InactivePrefix, RecordsInv, NothingStale, ActivePublished,
     CurrentLoads, Current, OneFiller, JobInv, WorkInv, PlanInv, CarriedInv, OwnInv,
     ReadyInv, RetirementInv, RotatedOne, Answered, At
<1>2. ASSUME NEW p \in Procs, Step(p) PROVE ManualInv'
  BY <1>2, ReserveKeeps, RecheckKeeps, AddRootKeeps, FillKeeps, StoredKeeps,
     StagedKeeps, PublishKeeps, ProveKeeps, CommitKeeps, SwitchKeeps, FenceKeeps,
     DeleteKeeps DEF Step
<1>3. ASSUME NEW p \in Procs, Begin(p) PROVE ManualInv'
  BY <1>3, BootstrapKeeps, AdministerKeeps, RotateKeeps, CarryKeeps, RetireKeeps
  DEF Begin
<1> QED BY <1>1, <1>2, <1>3, CrashKeeps, RefetchKeeps, TickKeeps, CampaignKeeps
        DEF Next

\* What holds between any two calls of the commands, on any directory and any
\* number of processes.
THEOREM Invariance == Spec => []ManualInv
<1> QED BY InitHolds, NextKeeps, PTL DEF Spec

-----------------------------------------------------------------------------
(* What follows from the invariant.                                        *)

\* Roots, pointer, records and jobs keep their form, and the roots are
\* numbered without a hole.
THEOREM TypeCorrectness == Spec => []TypeOK
<1>1. ManualInv => TypeOK
  BY DEF ManualInv
<1> QED BY <1>1, Invariance, PTL

\* The pointer names a complete committed generation (the switch follows the
\* commit of the root, and roots are never removed).
THEOREM CompleteCurrent == Spec => []CurrentComplete
<1>1. ManualInv => CurrentComplete
  BY CurrentIsComplete DEF ManualInv
<1> QED BY <1>1, Invariance, PTL

\* A command that lost the race for a number does not go on with the candidate
\* of the winner unless it is the very same.
THEOREM CandidateOwned == Spec => []OwnCandidate
<1>1. ManualInv => OwnCandidate
  <2>1. SUFFICES ASSUME ManualInv, NEW p \in Procs, job[p].pc \in Owning
                 PROVE  /\ job[p].number \in DOMAIN roots
                        /\ roots[job[p].number].key = job[p].key
    BY DEF OwnCandidate, Owning
  <2>2. OwnInv(p)
    BY <2>1 DEF ManualInv, JobInv
  <2> QED BY <2>1, <2>2 DEF OwnInv
<1> QED BY <1>1, Invariance, PTL

\* Signers use a published key, as long as no delete was overtaken.
THEOREM ActiveKeyPublished == Spec => []ActivePublished
<1>1. ManualInv => ActivePublished
  BY DEF ManualInv, RecordsInv
<1> QED BY <1>1, Invariance, PTL

\* The pointer moves when a command switches or a campaign runs, by one.
LEMMA WhoMoves ==
  ASSUME ManualInv, Next, Moved
  PROVE  /\ pointer'.number = pointer.number + 1
         /\ \/ \E p \in Procs : At(p, "switch") /\ SwitchAsserted(job[p].number)
                                /\ job[p].number > 1 /\ roots' = roots
                                /\ pointer'.number = job[p].number
            \/ pointer'.native
<1>1. CASE \E p \in Procs : Switch(p)
  <2>1. PICK p \in Procs : Switch(p)
    BY <1>1
  <2>2. /\ job[p].number \in Nat /\ pointer.number \in Nat /\ job[p].number >= 1
        /\ pointer.number >= 1
    BY JobTypes, PointerTypes, <2>1 DEF ManualInv
  <2>3. SwitchAsserted(job[p].number) /\ pointer'.number = job[p].number
    BY <2>1 DEF Switch, Moved
  <2>4. SwitchAsserted(job[p].number) =>
          (job[p].number = 1 /\ pointer.number = 1) \/ pointer.number = job[p].number - 1
    BY DEF SwitchAsserted, Absent
  <2>5. At(p, "switch") /\ roots' = roots
    BY <2>1 DEF Switch
  <2> QED BY <2>2, <2>3, <2>4, <2>5 DEF Moved
<1>2. CASE Campaign
  BY <1>2 DEF Campaign
<1>3. CASE \E p \in Procs : Reserve(p)
  BY <1>3 DEF Reserve, Absent, Moved
<1>4. ASSUME ~(\E p \in Procs : Switch(p) \/ Reserve(p)), ~Campaign
      PROVE  FALSE
  <2>1. ASSUME NEW p \in Procs, Begin(p) \/ Crash(p) PROVE pointer' = pointer
    BY <2>1 DEF Begin, Bootstrap, Administer, Rotate, RollBack, Carry, Resume,
       ResumeRollBack, Continue, Retire, Crash, directory
  <2>2. ASSUME NEW p \in Procs, Step(p) PROVE pointer' = pointer
    BY <1>4, <2>2 DEF Step, Recheck, AddRoot, Fill, Stored, Staged, Publish,
       Prove, Refresh, Commit, Fence, Delete, directory
  <2>3. ASSUME NEW r \in Records, Refetch(r) PROVE pointer' = pointer
    BY <2>3 DEF Refetch, directory
  <2>4. Tick => pointer' = pointer
    BY DEF Tick
  <2> QED BY <1>4, <2>1, <2>2, <2>3, <2>4 DEF Next, Moved
<1> QED BY <1>1, <1>2, <1>3, <1>4

\* The pointer never returns and never skips a generation (the switch asserts
\* the generation its candidate was planned on).
THEOREM ForwardOnly == Spec => PointerForward
<1>1. ManualInv /\ [Next]_vars => [Moved => pointer'.number = pointer.number + 1]_vars
  BY WhoMoves
<1>2. Spec => [][Moved => pointer'.number = pointer.number + 1]_vars
  BY <1>1, Invariance, PTL DEF Spec
<1> QED BY <1>2 DEF PointerForward

\* A command activates a key that both channels answer with, or the key that
\* was active before it, as long as no delete was overtaken.
THEOREM ProvenBeforeSwitch == Spec => PointerProven
<1> DEFINE Good == Switched /\ Current'.active /\ ~raced => Current'.key = Current.key \/ Answered(Current'.key)
<1>1. ManualInv /\ [Next]_vars => [Good]_vars
  <2>1. SUFFICES ASSUME ManualInv, Next, Switched, Current'.active, ~raced
                 PROVE  Current'.key = Current.key \/ Answered(Current'.key)
    OBVIOUS
  <2>2. PICK p \in Procs : /\ At(p, "switch") /\ SwitchAsserted(job[p].number)
                           /\ job[p].number > 1 /\ roots' = roots
                           /\ pointer'.number = job[p].number
    BY <2>1, WhoMoves DEF Switched
  <2>3. /\ job[p].number \in Nat /\ pointer.number \in Nat
        /\ pointer.number = job[p].number - 1
    BY <2>1, <2>2, JobTypes, PointerTypes DEF ManualInv, SwitchAsserted
  <2>4. Current' = roots[job[p].number]
    BY <2>2 DEF Current
  <2>5. Current'.key = job[p].key /\ job[p].pc = "switch"
    BY <2>1, <2>2, <2>4 DEF ManualInv, JobInv, OwnInv, Owning, At
  <2>6. CASE job[p].cmd = "create"
    BY <2>1, <2>2, <2>3, <2>5, <2>6
    DEF ManualInv, JobInv, CarriedInv, Staging, Owning, Current
  <2>7. CASE job[p].cmd # "create"
    <3>1. ReadyInv(p) /\ ~(job[p].number <= pointer.number)
      BY <2>1, <2>3 DEF ManualInv, JobInv
    <3> QED BY <2>1, <2>2, <2>5, <2>7, <3>1 DEF ReadyInv
  <2> QED BY <2>6, <2>7
<1>2. Spec => [][Good]_vars
  BY <1>1, Invariance, PTL DEF Spec
<1> QED BY <1>2 DEF PointerProven

\* Only a retirement removes a record, after the overlap and with nobody left
\* that needs the key, as long as its fence has not fallen.
THEOREM RetiredAfterOverlap == Spec => OverlapKept
<1> DEFINE Kept == ~raced' => \A r \in dns \ dns' : age >= Overlap /\ ~Needed(r[1])
<1>1. ManualInv /\ [Next]_vars => [Kept]_vars
  <2>1. SUFFICES ASSUME ManualInv, Next, ~raced', NEW r \in dns, r \notin dns'
                 PROVE  age >= Overlap /\ ~Needed(r[1])
    BY DEF vars
  <2>2. CASE \E p \in Procs : Delete(p)
    <3>1. PICK p \in Procs : Delete(p)
      BY <2>2
    <3>2. At(p, "delete") /\ Fenced(p) /\ r = <<job[p].key, Low(job[p].todo)>>
      BY <2>1, <3>1 DEF Delete
    <3>3. /\ NoSuccessor /\ pointer.number = job[p].number
          /\ Current.key # job[p].key /\ age >= Overlap
      BY <2>1, <3>2, RetiredUnused
    <3>4. \A n \in DOMAIN roots : n >= pointer.number => n = pointer.number
      <4>1. \A n \in DOMAIN roots : n \in Nat /\ pointer.number \in Nat
        BY <2>1, RootTypes, PointerTypes DEF ManualInv
      <4> QED BY <3>3, <4>1 DEF NoSuccessor
    <3> QED BY <3>2, <3>3, <3>4 DEF Needed, Current
  <2>3. CASE ~(\E p \in Procs : Delete(p))
    <3>1. ASSUME NEW p \in Procs, Begin(p) \/ Crash(p) PROVE dns' = dns
      BY <3>1 DEF Begin, Bootstrap, Administer, Rotate, RollBack, Carry, Resume,
         ResumeRollBack, Continue, Retire, Crash
    <3>2. ASSUME NEW p \in Procs, Step(p) PROVE dns \subseteq dns'
      BY <2>3, <3>2 DEF Step, Reserve, Recheck, AddRoot, Fill, Stored, Staged,
         Publish, Prove, Refresh, Commit, Switch, Fence
    <3>3. ASSUME NEW s \in Records, Refetch(s) PROVE dns' = dns
      BY <3>3 DEF Refetch
    <3>4. Tick \/ Campaign => dns \subseteq dns'
      BY DEF Tick, Campaign
    <3> QED BY <2>1, <3>1, <3>2, <3>3, <3>4 DEF Next
  <2> QED BY <2>2, <2>3
<1>2. Spec => [][Kept]_vars
  BY <1>1, Invariance, PTL DEF Spec
<1> QED BY <1>2 DEF OverlapKept

\* Where resolvers agree with the server, --observe and --retire-generation
\* judge the same generations eligible.
THEOREM PhaseIsPrediction == Spec => []PhasePredictsRetirement
<1>1. ASSUME ManualInv PROVE PhasePredictsRetirement
  <2> DEFINE seen == {Seen(r) : r \in RecordsOf(OldKey)}
             c == pointer.number + 1
  <2>1. /\ pointer.number \in Nat /\ pointer.number >= 1 /\ TypeOK
        /\ \A n \in DOMAIN roots : n \in Nat /\ n >= 1
    BY <1>1, PointerTypes, RootTypes, NumbersAreNaturals DEF ManualInv
  <2>2. RecordsOf(OldKey) # {}
    <3>1. PICK a \in Algorithms : TRUE
      BY ManualAssumption
    <3>2. <<OldKey, a>> \in RecordsOf(OldKey)
      BY <3>1 DEF RecordsOf
    <3> QED BY <3>2
  <2>3. seen = {"present"} <=> RecordsOf(OldKey) \subseteq dns \cap recursive
    BY <2>2 DEF Seen
  <2>4. CurrentLoads /\ History /\ c \notin DOMAIN roots => NoSuccessor
    <3>1. SUFFICES ASSUME CurrentLoads, History, c \notin DOMAIN roots,
                          NEW n \in DOMAIN roots
                   PROVE  n <= pointer.number /\ roots[n].state = "committed"
      BY DEF NoSuccessor
    <3>2. n <= pointer.number
      <4>1. \A m \in 1..n : m \in DOMAIN roots
        BY <2>1, RootTypes
      <4> QED BY <2>1, <3>1, <4>1
    <3>3. n \in 1..pointer.number
      BY <2>1, <3>2
    <3> QED BY <1>1, <3>1, <3>2, <3>3
            DEF CurrentLoads, ManualInv, DirectoryInv, BelowCurrent
  <2>5. NoSuccessor => CurrentLoads /\ History /\ c \notin DOMAIN roots
    BY <2>1 DEF NoSuccessor
  <2>6. RotatedOne(pointer.number) => pointer.number - 1 \in DOMAIN roots
    BY DEF RotatedOne
  <2>7. PredecessorPhase(OldKey) = "retire-eligible" <=>
          RecordsOf(OldKey) \subseteq dns \cap recursive /\ age >= Overlap
    BY <2>3 DEF PredecessorPhase
  <2>8. Phase = "retire-eligible" <=>
          /\ CurrentLoads /\ History /\ c \notin DOMAIN roots
          /\ RotatedOne(pointer.number) /\ Proven(Current.key) /\ ActivationReadable
          /\ PredecessorPhase(OldKey) = "retire-eligible"
    BY <2>6 DEF Phase
  <2> QED BY <2>4, <2>5, <2>7, <2>8 DEF PhasePredictsRetirement, RetireReady
<1> QED BY <1>1, Invariance, PTL
=============================================================================
