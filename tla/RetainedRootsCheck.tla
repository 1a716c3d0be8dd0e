------------------------- MODULE RetainedRootsCheck -------------------------
(***************************************************************************)
(* The readers of the root index as the source writes them: loops over a   *)
(* slice of roots in whatever order the search returned them, duplicates   *)
(* included.  The slice grows one root at a time, so that a run visits     *)
(* every slice of bounded length, and the loops of the store and of the    *)
(* application are compared with the shape rules of RetainedRoots.         *)
(***************************************************************************)
EXTENDS RetainedRoots, FiniteSets, Sequences, SequencesExt

CONSTANTS
  MaxNumber,   \* root numbers run from 0, which no reader accepts
  MaxLength    \* bound on the length of the slice

ASSUME BoundsAssumption == MaxNumber \in Nat /\ MaxLength \in Nat

VARIABLE roots  \* the slice: records of number, schema and state

\* "other" is any marker the code does not know.
GenerationRoot == [number : 0..MaxNumber, schema : Schemas \cup {"other"},
                   state : RootStates]

Init == roots = <<>>

AppendRoot(r) == Len(roots) < MaxLength /\ roots' = Append(roots, r)

Next == \E r \in GenerationRoot : AppendRoot(r)

Spec == Init /\ [][Next]_roots

-----------------------------------------------------------------------------
(* retained_roots.go: one pass over a copy sorted by number.               *)

\* The places up to that of the i-th root; roots of one number, which the loop
\* then rejects, stay in the order of the slice.
UpTo(rs, i) ==
  {j \in DOMAIN rs : \/ rs[j].number < rs[i].number
                     \/ rs[j].number = rs[i].number /\ j <= i}
ByNumber(rs) ==
  [n \in DOMAIN rs |-> rs[CHOOSE i \in DOMAIN rs : Cardinality(UpTo(rs, i)) = n]]

RootAllowed(r) == /\ r.number # 0
                  /\ \/ r.schema = "v1" /\ r.number = 1
                     \/ r.schema \in {"v2", "v3"}

\* Mutant: no gap at the schema boundary either.
FollowsDirectly(previous, r) ==
  /\ r.number - previous.number = 1
  /\ previous.schema = "v3" => r.schema = "v3"

Follows(previous, r) ==
  /\ r.number > previous.number
  /\ ~(previous.schema = "v3" /\ r.schema # previous.schema)
  /\ \/ r.number - previous.number = 1
     \/ previous.schema # "v3" /\ r.schema = "v3"

ValidRetainedRoots(rs) ==
  LET ordered == ByNumber(rs)
  IN /\ rs # <<>>
     /\ \A i \in DOMAIN ordered :
          /\ RootAllowed(ordered[i])
          /\ i > 1 => Follows(ordered[i - 1], ordered[i])

-----------------------------------------------------------------------------
(* The three loops that decide whether a writer or reader may go on.       *)

HistoryHasExactCurrentMaximum(rs, current) ==
  /\ current # 0 /\ ValidRetainedRoots(rs)
  /\ \A i \in DOMAIN rs : rs[i].number <= current /\ rs[i].state = "committed"
  /\ \E i \in DOMAIN rs : rs[i].number = current

\* Mutant: the source of the candidate may be missing.
HistoryHasOrphanShape(rs, expected, candidate) ==
  /\ candidate = expected + 1 /\ ValidRetainedRoots(rs)
  /\ \A i \in DOMAIN rs :
       /\ rs[i].number <= candidate
       /\ rs[i].number # candidate => rs[i].state = "committed"
  /\ \E i \in DOMAIN rs : rs[i].number = candidate

HistoryHasPendingShape(rs, expected, candidate) ==
  /\ candidate = expected + 1 /\ ValidRetainedRoots(rs)
  /\ \A i \in DOMAIN rs :
       /\ rs[i].number <= candidate
       /\ rs[i].number # candidate => rs[i].state = "committed"
  /\ \E i \in DOMAIN rs : rs[i].number = expected /\ rs[i].state = "committed"
  /\ \E i \in DOMAIN rs : rs[i].number = candidate

\* The application's loop; "malformed" stands for ErrMalformed.
ExactPendingSuccessor(rs, current) ==
  LET accepted == /\ ValidRetainedRoots(rs)
                  /\ \A i \in DOMAIN rs :
                       \/ rs[i].number <= current /\ rs[i].state = "committed"
                       \/ rs[i].number = current + 1
                  /\ \E i \in DOMAIN rs : rs[i].number = current
      pending == \E i \in DOMAIN rs : rs[i].number = current + 1
  IN IF ~accepted THEN "malformed" ELSE IF pending THEN "pending" ELSE "none"

-----------------------------------------------------------------------------
(* The same index as the set RetainedRoots speaks of.                      *)

Numbers(rs) == {rs[i].number : i \in DOMAIN rs}
Unique(rs) == \A i, j \in DOMAIN rs : rs[i].number = rs[j].number => i = j
RootOf(rs, n) == CHOOSE r \in {rs[i] : i \in DOMAIN rs} : r.number = n
SchemaOf(rs) == [n \in Numbers(rs) |-> RootOf(rs, n).schema]
StateOf(rs) == [n \in Numbers(rs) |-> RootOf(rs, n).state]

Candidates == 1..MaxNumber

\* The sorted pass of the store accepts exactly the legal shapes: no order of
\* the search result, duplicate, gap or foreign marker slips through.
ShapeAgrees ==
  ValidRetainedRoots(roots) <=>
    /\ Unique(roots)
    /\ LegalShape(Numbers(roots), SchemaOf(roots))

\* The loops of the store are the predicates the campaign specification uses.
LoopsAgree ==
  \A n \in Candidates :
    /\ HistoryHasExactCurrentMaximum(roots, n) <=>
         /\ Unique(roots)
         /\ ExactCurrentMaximum(Numbers(roots), SchemaOf(roots),
                                StateOf(roots), n)
    /\ HistoryHasPendingShape(roots, n, n + 1) <=>
         /\ Unique(roots)
         /\ PendingShape(Numbers(roots), SchemaOf(roots), StateOf(roots),
                         n, n + 1)

\* The planner of the application and the writer of the store were written
\* apart and must never disagree: what the planner calls idle the writer may
\* stage on, and what it calls pending the reader of candidates accepts.
PlannerAndStoreAgree ==
  \A n \in Candidates :
    LET verdict == ExactPendingSuccessor(roots, n)
    IN /\ verdict = "none" <=> HistoryHasExactCurrentMaximum(roots, n)
       /\ verdict = "pending" <=> HistoryHasPendingShape(roots, n, n + 1)

\* All readers of the index agree on what it says.
ReadersAgree == ShapeAgrees /\ LoopsAgree /\ PlannerAndStoreAgree

\* Staging the next v3 root, and purging the oldest v3 root below current,
\* each lead from an index the writer accepts to one every reader accepts.
WritesKeepShape ==
  \A n \in Candidates : HistoryHasExactCurrentMaximum(roots, n) =>
    LET successor == [number |-> n + 1, schema |-> "v3", state |-> "staging"]
        oldest(r) == /\ r.schema = "v3" /\ r.number < n
                     /\ \A q \in Candidates : q < r.number =>
                          ~\E i \in DOMAIN roots : /\ roots[i].number = q
                                                   /\ roots[i].schema = "v3"
    IN /\ ExactPendingSuccessor(Append(roots, successor), n) = "pending"
       /\ \A i \in DOMAIN roots : oldest(roots[i]) =>
            HistoryHasExactCurrentMaximum(RemoveAt(roots, i), n)
=============================================================================
