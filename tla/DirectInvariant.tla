-------------------------- MODULE DirectInvariant ---------------------------
(***************************************************************************)
(* The inductive invariant of DirectLifecycle: what the entries and the    *)
(* records look like between any two calls, how far the snapshot of a      *)
(* command may be behind them, and what a command may rely on in the       *)
(* middle of its calls.                                                    *)
(***************************************************************************)
EXTENDS DirectLifecycle

CallShape == [do : Calls, key : Keys \cup {NoKey}]

\* Entries, snapshot, records, and a command of a known shape.
TypeOK ==
  /\ ldap \in Directory /\ tree \in Directory
  /\ zone \in [Names -> Names \cup {Tombstone, NoRecord}]
  /\ cached \subseteq Names \X Keys /\ wildcard \in BOOLEAN
  /\ phase \in Phases /\ doing \in CallShape /\ queue \subseteq Keys
  /\ outcome \in {"none", "failed", "completed"}
  /\ quiet \in [Keys -> 0..Horizon] /\ buried \in [Names -> 0..Horizon]
  /\ waived \subseteq Keys
  /\ operator \in 0..MaxOperator /\ faults \in 0..MaxFaults

-----------------------------------------------------------------------------
(* The entries and the records.                                            *)

\* Selectors bear the name of their key, and a time of modification.
WellFormed(d) ==
  /\ d.active \subseteq d.present /\ d.revoked \subseteq d.present
  /\ \A k \in Keys : d.name[k] = k /\ d.idle[k] <= Horizon

\* Only a key enabled by force is both active and revoked; a tombstone has
\* no complete record; an inactive key has been silent since it was modified.
EntriesInv ==
  /\ WellFormed(ldap)
  /\ ldap.active \cap ldap.revoked \subseteq waived
  /\ \A k \in ldap.revoked \ waived : zone[k] # k
  /\ \A k \in ldap.present \ ldap.active : ldap.idle[k] <= quiet[k]

-----------------------------------------------------------------------------
(* The snapshot of a running command.                                      *)

Running == phase # "idle"

\* Keys that the snapshot shows and the directory does not were removed by
\* another host, record included.  Nobody else revokes, enables or disables.
Snapshot(d) ==
  /\ WellFormed(d)
  /\ d.present \subseteq ldap.present \cup waived
  /\ \A k \in d.present \ ldap.present : zone[k] # k
  /\ ldap.revoked \subseteq d.revoked /\ d.active \cap d.revoked \subseteq waived
  /\ \A k \in d.revoked \ waived : zone[k] # k
UpToDate(d) ==
  /\ d.active = ldap.active
  /\ \A k \in d.present \ d.active : d.idle[k] <= quiet[k]

\* Only while the predecessors of a key are disabled the snapshot is behind.
TreeInv ==
  Running => Snapshot(tree) /\ (doing.do # "disable" => UpToDate(tree))

-----------------------------------------------------------------------------
(* The call.                                                               *)

CallInv ==
  LET k == doing.key
      do == doing.do
  IN /\ do # "none" => Running
     /\ do \notin {"none", "store", "clean"} => k \in Keys
     /\ do = "publish" => k \in (ldap.present \cup waived) \ ldap.revoked
     /\ do = "test" => k \in tree.present
     /\ do = "enable" => /\ k \in waived \/ zone[k] = k
                         /\ k \in ldap.revoked => k \in waived
     /\ do = "disable" => k \in ldap.active
     /\ do = "tombstone" => /\ k \in tree.present \ ldap.active
                            /\ k \in waived \/ quiet[k] > DeleteDelay
     /\ do = "revoke" => k \notin ldap.active /\ zone[k] # k
     /\ do = "erase" => k \in waived \/ zone[k] # k
     /\ do = "drop" => zone[k] = NoRecord
     /\ do \in {"erase", "drop"} /\ k \in ldap.active => k \in waived

DirectInv ==
  /\ TypeOK /\ EntriesInv /\ TreeInv /\ CallInv
  /\ NoOrphanRecord /\ ActiveKeyPublished
=============================================================================
