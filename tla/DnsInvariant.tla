---------------------------- MODULE DnsInvariant ----------------------------
(***************************************************************************)
(* The inductive invariant of DnsRecords.  The safety properties speak of  *)
(* calls that have ended; the invariant says what a call that is under way *)
(* has established, and what an update carries wherever it is.             *)
(***************************************************************************)
EXTENDS DnsRecords

Publishing(c) == pc[c] \in {"publishLookup", "publishExchange", "publishReadback"}
Deleting(c) == pc[c] \in {"deleteLookup", "deleteExchange", "deleteReadback"}
Proving(c) == pc[c] \in {"proveAuthoritative", "proveRecursive"}

AskedFor(what, r) == [what |-> what, owner |-> r.owner, key |-> r.key] \in asked

\* Nothing was lost of r since call c began, and the server has it.
Holds(c, r) == r \notin gone[c] => Exact(zone[r.owner], r.key)

\* The same for what a client of the resolver is told.
Visible(c, r) == r \notin gone[c] => Exact(Resolved(r.owner), r.key)

\* A call that writes is about one record and was asked for.
GoalInv(c) ==
  /\ left[c] \subseteq goal[c]
  /\ pc[c] # "idle" => at[c] \in goal[c]
  /\ Publishing(c) => goal[c] = {at[c]} /\ AskedFor("publish", at[c])
  /\ Deleting(c) => goal[c] = {at[c]} /\ AskedFor("delete", at[c])

\* Only the call whose update was carried out has an authenticated success.
WriteInv(c) ==
  /\ reply[c] = "success" =>
       applied[c] /\ pc[c] \in {"publishReadback", "deleteReadback"}
  /\ result[c] = "created" => applied[c]

\* The value to delete is an encoding of the key, and the record was there.
DeleteInv(c) ==
  /\ pc[c] = "deleteExchange" => observed[c] \in Encodings(at[c].key)
  /\ pc[c] \in {"deleteExchange", "deleteReadback"} => Holds(c, at[c])
  /\ result[c] = "removed" => goal[c] \subseteq gone[c]

\* What ProveAll has struck off is there and resolvable, and so is the record
\* whose authoritative poll succeeded.
ProofInv(c) ==
  /\ Proving(c) => \A r \in goal[c] \ left[c] : Holds(c, r) /\ Visible(c, r)
  /\ pc[c] = "proveRecursive" => Holds(c, at[c])
  /\ result[c] = "proved" => \A r \in goal[c] : Holds(c, r) /\ Visible(c, r)
  /\ result[c] \in {"created", "present"} => \A r \in goal[c] : Holds(c, r)

\* An update without a sender was asked for and carries a value of its key.
LateInv ==
  \A u \in late : /\ AskedFor(u.what, u)
                  /\ u.value \in Encodings(u.key)
                  /\ u.what = "publish" => u.value = <<u.key, "preferred">>

CallInv(c) == GoalInv(c) /\ WriteInv(c) /\ DeleteInv(c) /\ ProofInv(c)

\* What calls under way and updates without a sender have established; with
\* it the reports of PublishIfAbsent, ProveAll and DeleteExact are inductive.
DnsInv == TypeOK /\ LateInv /\ \A c \in Callers : CallInv(c)
=============================================================================
