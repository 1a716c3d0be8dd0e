---------------------------- MODULE TxtRegister ----------------------------
(***************************************************************************)
(* What the DNS side promises, with no callers, messages, caches or lost   *)
(* replies.  Every owner name is a register for one TXT record set.  The   *)
(* program fills an empty register and empties a register that holds the   *)
(* one value it meant; it never replaces a value and never touches one     *)
(* that stands for another key.  Everybody else may write anything.        *)
(***************************************************************************)
EXTENDS Naturals

CONSTANTS Owners, Keys, ZoneSets

Forms == {"preferred", "equivalent"}
Encodings(k) == {<<k, f>> : f \in Forms}

VARIABLES
  records,  \* records[o]: the values of the record set at o
  asked     \* the publications and deletions ever asked for

registerVars == <<records, asked>>

RegisterInit == records \in [Owners -> ZoneSets] /\ asked = {}

Ask(what, o, k) ==
  /\ asked' = asked \cup {[what |-> what, owner |-> o, key |-> k]}
  /\ UNCHANGED records

Fill(o, k) ==
  /\ [what |-> "publish", owner |-> o, key |-> k] \in asked
  /\ records[o] = {}
  /\ records' = [records EXCEPT ![o] = {<<k, "preferred">>}]
  /\ UNCHANGED asked

Clear(o, k) ==
  /\ [what |-> "delete", owner |-> o, key |-> k] \in asked
  /\ \E value \in Encodings(k) : records[o] = {value}
  /\ records' = [records EXCEPT ![o] = {}]
  /\ UNCHANGED asked

Edit(o) == /\ \E set \in ZoneSets : records' = [records EXCEPT ![o] = set]
           /\ UNCHANGED asked

RegisterNext ==
  \E o \in Owners :
    \/ \E k \in Keys : \/ \E what \in {"publish", "delete"} : Ask(what, o, k)
                       \/ Fill(o, k) \/ Clear(o, k)
    \/ Edit(o)

RegisterSpec == RegisterInit /\ [][RegisterNext]_registerVars
=============================================================================
