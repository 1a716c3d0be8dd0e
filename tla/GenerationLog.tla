--------------------------- MODULE GenerationLog ---------------------------
(***************************************************************************)
(* What generation activation promises its users, with no hosts, readers,  *)
(* entries, faults or retries: a log of generations.  A number is reserved *)
(* once, for one candidate, directly above the active generation; it is    *)
(* sealed before it is activated; activation goes up by one; and a         *)
(* candidate that changes active keys is activated only after its records  *)
(* are public.                                                             *)
(***************************************************************************)
EXTENDS Naturals

CONSTANTS Campaigns, Additions, First, None, LastNumber

Candidates == Campaigns \cup Additions
Numbers == 1..LastNumber

VARIABLES
  reserved,  \* reserved[n]: the candidate that owns number n, or None
  sealed,    \* numbers whose content is final
  active,    \* the number signers use
  public     \* candidates whose DNS records are visible

logVars == <<reserved, sealed, active, public>>

LogInit ==
  /\ reserved = [n \in Numbers |-> IF n = 1 THEN First ELSE None]
  /\ sealed = {1} /\ active = 1 /\ public = {}

Reserve(o) == /\ active + 1 \in Numbers
              /\ reserved[active + 1] = None
              /\ \A n \in Numbers : reserved[n] # o
              /\ reserved' = [reserved EXCEPT ![active + 1] = o]
              /\ UNCHANGED <<sealed, active, public>>

MakePublic(o) == /\ \E n \in Numbers : reserved[n] = o
                 /\ public' = public \cup {o}
                 /\ UNCHANGED <<reserved, sealed, active>>

SealNext == /\ active + 1 \in Numbers \ sealed
            /\ reserved[active + 1] \in Candidates
            /\ sealed' = sealed \cup {active + 1}
            /\ UNCHANGED <<reserved, active, public>>

Activate == /\ active + 1 \in sealed
            /\ reserved[active + 1] \in Campaigns => reserved[active + 1] \in public
            /\ active' = active + 1
            /\ UNCHANGED <<reserved, sealed, public>>

LogNext == \/ \E o \in Candidates : Reserve(o) \/ MakePublic(o)
           \/ SealNext \/ Activate

LogSpec == LogInit /\ [][LogNext]_logVars
=============================================================================
