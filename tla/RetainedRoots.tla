--------------------------- MODULE RetainedRoots ---------------------------
(***************************************************************************)
(* The shape rules of the retained generation roots below ou=generations.  *)
(* Every reader of the DKIM2 dataset decides from the set of root numbers, *)
(* each root's schema marker and its state whether it may proceed.         *)
(*                                                                         *)
(* A root index is given by three arguments: P, the set of root numbers    *)
(* present, schema, the marker of every number of P, and state, its        *)
(* lifecycle state.  The directory holds one entry per number, so a set    *)
(* loses nothing; RetainedRootsCheck shows that LegalShape is what the     *)
(* source's loop over a sorted slice computes, duplicates included.        *)
(***************************************************************************)
EXTENDS Naturals

LegacySchemas == {"v1", "v2"}
Schemas == LegacySchemas \cup {"v3"}
RootStates == {"staging", "committed"}

\* The root that directly follows a in P.
Successor(P, a, b) == /\ a \in P /\ b \in P /\ a < b
                      /\ \A c \in P : ~(a < c /\ c < b)

\* One contiguous legacy prefix, then one contiguous v3 suffix; only the
\* boundary between them may hold a retention gap.  A v1 root is number 1.
LegalShape(P, schema) ==
  /\ P # {}
  /\ \A n \in P : /\ n > 0
                  /\ schema[n] \in Schemas
                  /\ schema[n] = "v1" => n = 1
  /\ \A a, b \in P : Successor(P, a, b) =>
        /\ schema[a] = "v3" => schema[b] = "v3"
        /\ b = a + 1 \/ (schema[a] \in LegacySchemas /\ schema[b] = "v3")

\* Current is present, committed, and the newest root; every root is committed.
ExactCurrentMaximum(P, schema, state, current) ==
  /\ LegalShape(P, schema)
  /\ current \in P
  /\ \A n \in P : n <= current /\ state[n] = "committed"

\* The candidate is the newest root, its source is present, and every root
\* but the candidate is committed.
PendingShape(P, schema, state, expected, candidate) ==
  /\ candidate = expected + 1
  /\ LegalShape(P, schema)
  /\ {expected, candidate} \subseteq P
  /\ \A n \in P : /\ n <= candidate
                  /\ n # candidate => state[n] = "committed"

\* The index a planner accepts: current present and committed, older roots
\* committed, and at most the immediate successor above it.
AcceptableToPlanner(P, schema, state, current) ==
  /\ LegalShape(P, schema)
  /\ current \in P
  /\ \A n \in P : /\ n <= current + 1
                  /\ n <= current => state[n] = "committed"

\* The pending successor of an acceptable index, or 0 when there is none.
PendingSuccessor(P, current) == IF current + 1 \in P THEN current + 1 ELSE 0
=============================================================================
