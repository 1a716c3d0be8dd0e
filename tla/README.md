# A verification of opendkim-manage-go's key lifecycles

`opendkim-manage-go` manages DKIM keys in LDAP and DNS. Its DKIM2 part keeps
every key set as an immutable *generation* under one LDAP base and lets a
single entry, `cn=current`, say which generation signers use. Several hosts may
run the program (by cron, by operators) against one directory; there is no lock
between them, only LDAP's per-entry atomicity, exclusive adds and assertion
controls. Its older part keeps OpenDKIM selectors as mutable LDAP entries and
moves them through a lifecycle of their own. This directory holds TLA+ models of
both parts, TLC configurations that check them, and proofs checked by TLAPS.

Paths below are relative to `src/internal/` unless they say otherwise.

## 1. Inventory of the system

| Component | State | Operations | Interacts with |
|---|---|---|---|
| Campaign activation (`app/dkim2_campaign.go`, `app/dkim2_administrative_campaign.go`, `app/dkim2_create_resume.go`, `dkim2store/role_repository.go`, `publication.go`, `ldap_repository.go`) | generation roots and their entries, `cn=current`, the was-active marker, TXT records; per run: source, frozen candidate, asserted pointer value | `--auto`, `--create`, `--active`, `--create --resume-generation n`; StageCampaign, LoadPending, CommitCampaignAndSwitch | LDAP, DNS publisher and prover, other hosts through the directory only |
| Retained root index (`dkim2store/retained_roots.go`, loops in `ldap_repository.go`, `app/dkim2_lifecycle.go`) | none, a slice of roots | ValidRetainedRoots, historyHasExactCurrentMaximum, historyHasPendingShape, exactPendingSuccessor, immediateCommittedPredecessor | called by every planner and every staging or pending read |
| Automatic retention (`app/dkim2_campaign.go` 376-435, `app/dkim2_retention_journal.go`, `dkim2store/retention.go`, `purge_plan.go`) | a journal file per host, the entries of the generation being purged | load journal, inventory, plan, create journal, delete entry by entry, remove journal | campaign activation moves the pointer under it; its deletes change what history readers see |
| DNS publication and proof (`dnsupdate/rotation.go`) | TXT records at the authoritative servers, resolver caches | PublishIfAbsent (prerequisite: no RRset), ProveAll (poll both channels) | called by `--auto` and manual rotation |
| DNS retirement (`dnsupdate/retirement.go`, `app/dkim2_lifecycle.go`) | TXT records of superseded selectors | retire: fence, value-dependent delete, readback | reads activation and history |
| Manual rotation and forward rollback (`app/dkim2_rotation.go`, `dkim2_lifecycle.go`) | a v2 candidate above current | `--rotate`, resume, rollback | same directory as campaigns |
| Lifecycle observation (`app/dkim2_lifecycle.go`) | none | classify every retained selector | reads LDAP and DNS |
| Initial publication (`ldap_repository.go` 1068-1310) | the staging `cn=current` of an empty base | Publish for generation 1, prepareBootstrap | before anything else |
| Generation planner (`dkim2model/rotation.go`, `campaign.go`, `create.go`, `lifecycle.go`) | none | eligibility, candidate construction, intent validation | called while planning and resuming |
| Candidate commitment (`dkim2model/candidate.go`) | none | digest over operation, source, number and content | every read of a v3 generation |
| LDAP work budget, limits (`dkim2store/work_budget.go`, `limits.go`) | counters of one run | consume | every LDAP call |
| LDAP mapping and validation (`dkim2store/mapper.go`, `schema.go`) | none | entries to a generation | every full read |
| Recovery table (`dkim2store/recovery.go`) | none | ClassifyRecovery | no command calls it |
| Dispatch and mutation fence (`app/dkim2_manager.go`, `application.go`) | an in-process token | acquire, release, Run | wraps every command |
| Legacy OpenDKIM manager, LDAP store, DNS update (`app/manager.go`, `ldapstore/`, `dnsupdate/dns.go`) | per-domain key entries and records | create, activate, age, delete | separate from DKIM2 data |
| Configuration, command line, key generation, selectors | none | parsing and cryptography | read once |

**What is hard.**
*Concurrency*: planning reads current, then the whole root index, then draws
keys, then stages; every one of these reads may be stale when it is used. Only
the exclusive add of the root and the assertions on the seal and the switch are
atomic with a check. *Failure*: a reply may be lost after the write took effect
at each of the six kinds of write; the code answers with one readback that has
to classify the outcome. A run may die between any two entries, between seal
and switch, between creating and writing its journal, between two deletes.
*Ordering*: DNS before the switch; the was-active mark before the switch; the
journal before the first delete; the root after every other entry.
*Everything must still finish*: a candidate left by one host is in the way of
everybody until somebody activates it.

**What makes each component correct.**
Campaign activation: the pointer always names a complete committed generation
and only moves up by one; one candidate, of one owner; no key in use before its
records are visible; the marker is exact evidence; committed data never
changes; a reported activation happened; an interrupted candidate is finished
by those who may, and by nobody else. Root index: the separately written loops
agree, and what the program itself writes is acceptable to them. Retention:
only once-active committed v3 data below the rollback reserve goes, root last,
journalled, never below the limit, and the index stays acceptable to readers.
DNS: never overwrite a foreign record, one decision per lost reply. Retirement:
delete only values superseded by a proved activation, after the overlap, while
nobody needs them. Manual rotation and rollback: activate what was planned and
proved and nothing else, forward only, and finish what was begun. Observation:
say what retirement would do. Planner: a candidate is resumed by the command
that planned it and, three stated cases apart, by no other, identifiers are
never reused by accident, and ages survive other bindings' successors. Legacy
manager: a domain never loses its signer, its active key has a complete record,
a key is silent long enough before it goes, and the lifecycle settles again
after any interruption; behind a CNAME the same holds while keys move between
slots.

The concrete hazards, each at its line and with the properties that watch it,
are listed in `PROJECT.json`.

## 2. Modules

| Module | Models | Uses |
|---|---|---|
| `RetainedRoots` | the shape rules of a root index, as set predicates | - |
| `RetainedRootsCheck` | the same rules as the source computes them, loop by loop over a slice | `RetainedRoots` |
| `RetainedRootsCheck_proofs` | theorems | `RetainedRootsCheck` |
| `CampaignActivation` | planning, staging, pending reads, publication, commit and switch, every fault, several hosts | `RetainedRoots`, `GenerationLog` |
| `GenerationLog` | abstract specification: what activation promises whoever reads the dataset | - |
| `CampaignInvariant` | the inductive invariant of `CampaignActivation` | `CampaignActivation` |
| `CampaignActivation_proofs` | theorems | `CampaignInvariant` |
| `Retention` | journal, inventory, purge plan, deletion, crashes, several hosts | `RetainedRoots` |
| `RetentionInvariant` | the inductive invariant of `Retention` | `Retention` |
| `Retention_proofs` | theorems | `RetentionInvariant` |
| `TxtRegister` | abstract specification: a guarded register per TXT owner name | - |
| `DnsRecords` | PublishIfAbsent, ProveAll and DeleteExact, caches, lost and late messages, other writers | `TxtRegister` |
| `DnsInvariant` | the inductive invariant of `DnsRecords` | `DnsRecords` |
| `DnsRecords_proofs` | theorems | `DnsInvariant` |
| `ManualLifecycle` | first creation, administrative publication, rotation, rollback, both resumes, retirement, observation, by several processes beside campaigns | - |
| `ManualInvariant` | the inductive invariant of `ManualLifecycle` | `ManualLifecycle` |
| `ManualLifecycle_proofs` | theorems | `ManualInvariant` |
| `Generations` | the planners and validators of `dkim2model` as operators on whole generations | - |
| `Successors` | the chain of generations those planners build, with purges and time | `Generations` |
| `SuccessorsInvariant` | the inductive invariant of `Successors` | `Successors` |
| `Successors_proofs` | theorems | `SuccessorsInvariant` |
| `SelectorLifecycle` | the legacy manager on one domain: LDAP, DNS, the commands and the phases of `--auto` that all domains share | - |
| `DirectLifecycle` | the sweep of a domain with records of its own, and its properties | `SelectorLifecycle` |
| `DirectInvariant` | the inductive invariant of `DirectLifecycle` | `DirectLifecycle` |
| `DirectLifecycle_proofs` | theorems | `DirectInvariant` |
| `CnameSlots` | the reorder of a domain behind a CNAME target | `SelectorLifecycle` |
| `CnameInvariant` | the inductive invariant of `CnameSlots` | `CnameSlots` |
| `CnameSlots_proofs` | theorems | `CnameInvariant` |
| `MCCampaignActivation`, `MCRetention`, `MCDnsRecords`, `MCManual`, `MCSuccessors`, `MCDirect`, `MCCname` | model values, small sets and symmetry for TLC | |

Operators named as a mutation in their comment ("Mutant: ...") are not part of
a specification. They are plausible bugs; substituting one must make TLC find
the property it is listed with violated.

### CampaignActivation

One variable per LDAP attribute that matters (`current`, `state`, `schema`,
`owner`, `content`, `wasActive`), the set of `published` candidates, and the
local variables of each host's run. `pc` names the call the run is about to
make; each LDAP or DNS write is one action, each read is one action.

* A generation's `owner` is the identity of the candidate its root commits to.
  The code's digest binds operation identifier, source, number and all content,
  so one identity stands for all of them; `Matches` is the code's
  `campaignPreparedMatches` and `DigestEqual`.
* `content` is the set of entries below a root, each with the identity of the
  candidate it was written for. Staging adds them in order; anything short of
  all of them is unreadable to `loadHistoricalLineages`, because key material
  is added last and its number is compared with the number of handles.
* Reads the code brackets with two reads of `cn=current` are one action: the
  pointer only moves forward (proved: `PointerMonotone`), so equal reads mean
  it did not move. LoadRetainedHistory is one action too; committed content is
  immutable (proved: `CommittedFrozen`), the only thing a longer read could
  add is one more failure, and failures are faults.
* LoadPending is two actions, index and candidate, because another host may
  seal or switch in between; the second accepts only the state the first saw.
* `ReplyLost` is a write that took effect while the caller saw an error. The
  marker's own readback is merged with it.
* `published` means both DNS channels show the records. It never shrinks:
  nobody retires records of a candidate or of the current generation.
* Two refusals the code has are not actions because they can not happen: an
  entry name below a root that is taken (`WriterInv`), and a marker whose
  source is not the committed root the pointer named (`FenceInv`).

Left out: the `--keytype` extension check on resume, dry runs (no writes), the
DNS writes of a resumed `--create` (they precede nothing that depends on them),
and `reconcileCurrentDNS`, which republishes current records when nothing is due.

### GenerationLog

The abstract specification has no hosts, entries, readers or faults: numbers
are reserved, sealed and activated in order, and a campaign is activated only
when public. `CampaignActivation!ImplementsLog` is the refinement, with
`reserved <- owner`, `sealed <-` the committed roots, `active <-` the number in
`cn=current`. Retention takes its campaign steps from this log.

### RetainedRootsCheck

The index shape is decided in four places with separately written loops. The
state is a slice of roots that grows by one arbitrary root per step, in any
order and with duplicates; the invariants compare the loops with the rules in
`RetainedRoots` and with each other, and check that the writes the program
makes (append a v3 root above the maximum, remove the lowest v3 root) lead from
an accepted index to an accepted index.

### Retention

The last phase of each `--auto` run. `journal[h]` is a file of host `h` and
survives crashes; `plan`, `fence`, `todo` are the run's memory. Deleting one
entry and observing its absence is one action, with `DeleteUnobserved` for a
lost observation. Campaigns of other runs are *unfenced* log steps, a superset
of what `CampaignActivation` allows, which is sound for the safety properties.

`Coherent` says which partial generations the history reader still accepts. It
counts and relates entries but does not verify the digest, so it accepts a
generation from which exactly the last selector's entries are gone; the
inventory verifies the digest and accepts only whole generations.

`schema[g]` is "v3" for roots that do not exist yet; it is read only for roots
that do. Generation numbers are never reused, since planning always takes
current + 1 and the pointer never moves back.

### DnsRecords

The three calls of `dnsupdate` that the DKIM2 commands make, for any number of
runs against one authoritative server and one resolver with a cache. `pc` names
the exchange a call is about to make: a lookup, the update, the one readback
after it, a poll of one channel; each is one action. `CampaignActivation` uses
of this module only "published means both channels show the records", which is
what `ReportedIsThere` and `ProvedIsResolvable` establish.

* A record set is a set of pairs of a key and an encoding. The code classifies
  an answer by the public key it carries (`Classify`), but a prerequisite
  compares the text; so DeleteExact must send the text it *read*, and
  PublishIfAbsent inserts the preferred text.
* An update reaches the server or not, and its answer arrives, is lost, or
  arrives without a valid signature; all combinations are actions. When a
  caller's timeout passes, the update may still be under way (`late`) and be
  carried out at any later time, its prerequisite checked then.
* Whether an empty record set is answered with "no such name" or "no data"
  depends on the rest of the zone. The publisher and DeleteExact take both for
  absence, ProveAll polls again only after "no data"; so an absent record is
  polled again or fails the proof, nondeterministically (`Unproved`).
* `gone`, `applied` and `asked` are history: the records lost under a call,
  whether its update was carried out, and what was ever asked for. They appear
  in no guard. The reports can only be right up to `gone`, since everybody else
  may edit the zone between a read and the report.
* A resolver fetches when it is asked and keeps the answer, also a negative
  one, until it expires; others may make it fetch before the publication.

`TxtRegister` is what is left without callers, messages and caches: a name is
filled only when it is empty and somebody asked for that key, emptied only of
the one value whose key was to be deleted, and otherwise changed by others only.

### ManualLifecycle

One binding, whose generation is its key set and whether it is active. A key set
is named by the number and the process it was planned for, so two processes that
plan under one number hold different keys. `job[p]` is the run of a process:
its command, the call it makes next (`pc`), the candidate it holds and the
records it has left. The bracketed reads are one action each, as in
`CampaignActivation`; every LDAP or DNS write is an action, and `Crash` ends a
command between any two of them.

* *Publication.* `Bootstrap`/`Reserve` create the staging pointer of an empty
  base (its entry is the fence). `Recheck` is the second reading of current and
  history; `AddRoot` the exclusive add, after whose error a rotation or rollback
  takes over a stored candidate equal to its own; `Fill` the remaining entries.
* *DNS.* `Publish` adds one record per action; `Prove` is a poll of both
  channels, done twice with `Refresh` (a pending read) between, as the code does
  before it commits.
* *Activation.* `Commit` seals the root, `Switch` moves the pointer under its
  assertion. A committed root no pointer names is accepted by the pending read,
  and the switch follows.
* *Resume.* `Resume` and `ResumeRollBack` judge the stored candidate with the
  validators of `Generations` (here reduced to one binding) and start the DNS
  work over. `--prepare-only` is the ending alternative of `Staged`.
* *Retirement.* `Fence` is read before every single delete. The delete itself is
  a step later, so a host may stage in between; `raced` is history: a delete went
  on after its fence had fallen. The window can not be closed by the code, since
  DNS and LDAP share no transaction; the properties say what holds unless it was
  hit, and `ActivePublished` that nothing else takes a record in use.
* *Observation.* `Phase` is the classification of `--observe`, a pure operator.
* `Campaign` is a native campaign as one step, with its effect on the directory,
  the pointer and the records.

Native campaigns share a dataset with manual commands only across a
configuration change or hosts configured differently; the code has no rule
against it, so `Campaigns = TRUE` allows it (safety), and the liveness run is
without.

### Generations and Successors

`Generations` holds the planners and validators as pure operators on whole
generations: several bindings, several algorithms, status and rollout. A
credential is one number, for selector, handle and key pair, which are always
allocated together; random identifiers are the next free numbers.
`Successors` applies the planners to one another's results: every chain of up to
five generations, with purges of the oldest native roots and a clock. After each
staging *every* validator is asked about the candidate, not only the one of the
command that planned it.

`ResumeMatchesPlan` is the heart: what each resume takes up, although it only
sees the stored generations. `AutoResumes`, `ExtensionResumes`, `CreateResumes`,
`RotationResumes` and `RollbackResumes` are the tests of the five resumes: the
validator, and for `--auto` and `--create` the commitment that only a native root
carries (`dkim2_campaign.go:246`, `dkim2_create_resume.go:36`). Without it a
manual rotation would pass for a campaign, and without the refusal of an empty
diff (`:259`) an activation that changes nothing would. With both, `--auto` takes
up campaigns and extensions and nothing else. A candidate passes for that of
another command in three cases, which the property names:

* a campaign or extension that changed a single enforced binding has the diff of
  a manual rotation of it;
* an activation that puts an active binding back to the rollout an older
  generation has (`enforce`, `observe`, `enforce`) under the same keys *is* the
  rebase of that generation, and passes for a rollback to it;
* a campaign that renewed every active binding, all with one set of algorithms,
  passes for the extension to that set.

None of them continues with keys other than those that were staged. A rollback
also passes under another source, if that has the binding in the same state.
An activation has no resume of its own, nor has a creation of the earlier format
(section 7); a rotation of an observed binding and a creation beyond the campaign
limit have one that refuses them (section 4).

### SelectorLifecycle, DirectLifecycle, CnameSlots

The legacy manager works on mutable entries. `ldap` is what the directory holds,
`tree` the snapshot a command works from (reloaded where the code reloads it,
or when an entry of it turns out to be gone: `Seen`), `zone` the TXT records,
`cached` what a recursive resolver may still answer. `phase` is where `--auto`
or an operator's command stands, `doing` the call it is in; each call is a small
chain of actions, one per LDAP or DNS write, as CmdCreate, CmdActive and
CmdDelete make them. An error of any of them ends the command (`Abort`, which
also stands for a crash and, after a write, for a lost reply).

* `quiet` and `buried` are days since a key last signed and since a tombstone
  was put in place; the code's own clocks are `age` and `idle` (creation and
  modification time). Every write of an entry renews the latter. All of them
  stop at the longest age any comparison asks for.
* `waived` are keys that an operator forced, that another host removed, or that
  were enabled on a cached answer: the code can promise nothing of them, and the
  properties leave them out. They are waived until the key is stored or tested
  anew.
* `CnameSlots` plans the renames as planCNAMERenames does (free targets first, an
  inactive key to a temporary name to open a cycle) and then executes the chain.
  The loop is unfolded: three keys need four turns at most (`Turn`, `Planned`), one
  per key and one to open the cycle;
  it starts from every arrangement of up to three keys over names and slots, as
  an earlier run that stopped, a renaming operator or a migration leaves them.

Left out: several domains, several algorithms in one domain, `--max-initial`,
interactive confirmation, and two full runs of the legacy manager at the same
time, against which the code has no protection.

## 3. Runs

| Run | Question | Bounds | States |
|---|---|---|---|
| `campaign` | safety of activation and its refinement of `GenerationLog` | 2 hosts, 2 campaigns (symmetric), 1 create, 1 active, numbers to 3, 2 entries, 2 faults | 854 281 |
| `campaign_progress` | `CampaignProgress`, `CreateProgress` | 2 hosts, 1 campaign, 1 create, 1 fault | 92 826 |
| `root_index` | the loops agree with the rules, writes keep them | numbers to 4, slices of at most 3, all orders, duplicates, all schemas and states | 65 641 |
| `retention` | safety of retention | 2 hosts, prefix 1 or 3, current 5 to 7, limit 4, reserve 1, batch 2, 3 entries and a root, 2 faults | 469 618 |
| `purge_resume` | finding A | 1 host, 1 fault | 611 |
| `dns_records` | reports, proofs, and the refinement of `TxtRegister` | 2 callers, 2 names, 2 keys, 2 polls, 1 fault, 1 edit by others, 1 late update | 2 350 930 |
| `dns_retry` | the three liveness properties of DNS calls | 2 callers, 2 names, 1 key, 1 fault, no edits | 115 736 |
| `direct` | safety and liveness of a domain with its own records | 3 keys, delay 0, retention 1, expiry 2 days, 1 command or configuration change, 1 fault or removal by another host, force options, stale resolver | 1 668 229 |
| `cname` | the slots at every moment and after a reorder | 4 keys (symmetric), up to 3 at first in any arrangement, 1 command or configuration change, 1 fault | 921 257 |
| `successors` | the planners against all validators | 2 bindings, 2 algorithms, 5 generations, reserve 1, clock to 1 | 591 332 |
| `manual` | safety of the manual commands | 2 processes, 2 algorithms, 4 generations, overlap 1, 1 crash, campaigns | 438 874 |
| `manual_progress` | `StagedSettles`, `RetirementEnds` | 1 process, 2 algorithms, 5 generations, overlap 1, 1 crash | 14 264 |

Why these bounds are enough to be interesting. Two hosts give every race of a
planner with a stager, a resumer and a committer; two faults give a crash in
the middle and a failed recovery. Three numbers allow two activations, so that
a host can be one generation behind and the second source is v3 and gets
marked. Two entries make a candidate that is begun but incomplete. Slices of
three with numbers to 4 contain the v1 root, the gap behind the legacy prefix,
and an illegal gap on either side of it. In `retention` two generations are
above the limit at first, so that a purge, its resumption and a second purge
fit, and the pointer may move twice while a host sleeps. In `dns_records` a
stored value in the other encoding and a set of two values are among the initial
zones; two names are needed to change the record that was proved first while the
second is polled; two polls let the bound be reached, and be reached on the
second channel after the first one has used some. In `dns_retry` nobody else
edits the zone: against an editor no retry can promise anything.

In `manual` the numbers 1 and 2 are the inactive first generation and its
activation; 3 and 4 allow a rotation and a rollback, or two rotations, with the
retirement of the replaced key beside them. The rollback to a *retired* key needs
a fifth number, which `manual_progress` has. Two algorithms make a retirement and
a publication stop half-way. `direct` has three keys: one that signs, its
successor, and one that is a tombstone while the next is created; delays are the
smallest that keep the strict and the non-strict comparison apart. `cname` has a
fourth key so that a reorder has something to prune. `successors` reaches a
rotation, another one, a purge of the root between and a rollback over them in
five generations; with two algorithms an extension and a rollback over it.

The deadlock check is off where the system really stops: `root_index` (the slice
stops growing), `successors`, `manual` and `manual_progress` (the numbers are
used up).

Bounded by a CONSTANT: `MaxGeneration`, `EntryCount`, `LastGeneration`,
`MaxFaults`, `MaxNumber`, `MaxLength`, `MaxAttempts` (the code's
`proof_max_attempts`), `MaxEdits`, `MaxLate`, `LastNumber`, `MaxTime`,
`MaxCrashes`, `MaxOperator` (commands of the operator and configuration changes
together), `InitialKeys`. The theorems hold for every value.

**Fairness.** `WF(HostStep)`: a started process goes on. `SF(StartAutomatic)`:
`--auto` is a scheduled job (the code speaks of a daily campaign), it is started
again even when operators' commands keep the host busy at times. `CreateProgress`
has an operator who retries `--create --resume-generation` (`OperatorRetries`) as
its premise: `--auto` never completes a create, it meets it and refuses, so only
the operator's retry helps. Faults are bounded in number, which stands for
"faults eventually stop"; without that no program makes progress.
For DNS, `Progress` is `WF(CallStep)` for each call and `WF(CacheExpires)`, since
answers have a time to live; `RetrySpec` adds `SF` of giving each command again,
the "later explicit invocation" that ErrPublishResumable and ErrDeleteResumable
ask for. A late update is not required to arrive.
In `ManualLifecycle`, a process that runs goes on, resolvers fetch again and time
passes (weak); the operator gives the resume of a pending candidate again, does
not stop every one of them at `--prepare-only`, and retires with
`--resume-retirement` what is due (strong: these are enabled between other
commands only). Nothing else starts anything.
In `DirectLifecycle`, a command goes on, the scheduler starts `--auto` again
(weak), days pass between runs although runs keep coming (`SF(Tick)`), and a
lookup that is repeated for ever sees a record that is there
(`SF(TestKeyPasses)`).

## 4. Findings

* **A, `purge_resume`.** `runAutomaticCampaign` reads the complete retained
  history first (`app/dkim2_campaign.go:28`) and reaches the journal only at its
  end. A purge that died between two deletes leaves a generation the history
  reader rejects, so every later `--auto` fails before it looks at the journal.
  `docs/specs/DKIM2-ROTATION.md:71` and `README.md:231` promise that the journal
  resumes the plan. Staging, pending reads and retirement read the same history:
  nothing but a manual repair helps. Only when the purge stopped exactly after
  a last selector's entries is the remainder readable.

Met while modelling, without a run of their own:

* The plan found in the journal is deleted before the counted loop, so such a
  run deletes `max_delete_batch` + 1 generations;
  `docs/specs/DKIM2-ROTATION.md:289` says at most `max_delete_batch`.
* A manual `--rotate`, rollback or administrative publication above a native
  current stages a root of the earlier format there
  (`app/dkim2_rotation.go:252`), which no reader of the history accepts: every
  later command on that base fails (`History` in `ManualLifecycle`).
  `docs/specs/DKIM2-ROTATION.md:298-300` states the shape that is broken.
* The activation time of a native generation is not readable
  (`dkim2store/ldap_repository.go:127` filters on the earlier format), so
  `--observe` ends in an error and no predecessor of a campaign can be retired;
  the same document, lines 417-419, excepts no format.
* A rotation of an active binding in rollout *observe* can be planned and staged,
  but the validator of its resume demands *enforce*: interrupted, it is stuck
  (`EnforcedRotationResumes` therefore speaks of enforced bindings).
* After a rollback that shrinks an extended key set, the diff is not one that
  retirement recognises; `docs/specs/DKIM2-ROTATION.md:424-427` says it does not
  depend on the set sizes. The extra records stay.
* `--observe` of a generation that carried every key over (a creation or an
  activation) ends in an error, where line 375 of that document promises `idle`.
* `--create` plans any number of bindings, but its resume holds the request to
  `max_campaign_bindings` (`dkim2model/create.go:71`, from
  `app/dkim2_create_resume.go:27`): a larger native creation that is interrupted
  is one that no command completes, where `README.md:185` of the repository
  promises its recovery (hence the premise in `CreationResumesByItsRequest`).
* A host that falls asleep between the retirement fence and the delete may delete
  a record that a rollback on another host has meanwhile proved again (`raced`).
  The fence is read before each delete, which bounds this to one record.
* `docs/specs/PARITY-AND-LIFECYCLE.md:73` says of every active selector that it
  has `DKIMDomain=*` exactly if configured. The reconciliation at
  `app/manager.go:1355` runs before the rotation and leaves inactive selectors
  alone, so one that was stored under the earlier configuration and is enabled
  by this run's rotation has the wrong value until the next run.
* Line 53 of that document has the slots reconciled on every run; a reorder that
  is refused (`app/manager.go:1527` and the lines around it) writes nothing.
* A revoked selector that an operator enables by force is later cleaned by
  `--auto` like any tombstone, although it is active.
* A run that stops between the DNS tombstone and the LDAP revocation leaves the
  two apart until a newer key is active and the sweep visits the old one.

## 5. Proofs

`CampaignActivation_proofs` proves, for any number of hosts, candidates,
entries, generations and faults, from `ConstantsAssumption` alone:

* `TypeCorrect`, `Invariance` (`Spec => []CampaignInv`) and from it
  `CurrentIsComplete`, `OnePending`, `NeverMixed`, `PublishedBeforeActivation`,
  `EvidenceExact`;
* the action properties `CommittedFrozen`, `PointerMonotone`,
  `ActivatedOnlyByItsRun`, `ReportsHold`;
* `Refinement`: `Spec => Log!LogSpec`.

None of the safety properties is inductive: they say nothing of what a host
that is half-way through may write. `CampaignInv` adds, per host:

* `SourceInv` - a planner's source is at most current, so its candidate is at
  most current + 1; `FreshInv` - until its root is added, an identity belongs to
  its planner only; `WriterInv` - the host that added a root is alone below it
  and its entries are the next ones in order (this gives `NoMixedGeneration`);
* `PreparedInv` - wherever the code has compared commitments, the stored
  candidate is complete and is the one the host holds; `ProvenInv` - behind the
  proof it is published (this gives `ActivatedKeysPublished`, with the
  observation that a commit on behalf of `resume` only ever holds a create,
  `OpInv`);
* `FenceInv` - the asserted pointer value was current once, so if it *is*
  current it is the immediate predecessor (this gives `PointerAdvances`), and
  its root is already marked (this gives `ActivationEvidence`);
* `SeenInv` - a state seen as committed stays committed.

and `DirectoryInv` for the directory between two writes. The proof that a step
preserves the invariant distinguishes *quiet* steps (they write nothing shared;
one lemma) from the six writes, one lemma each; for each write the other
hosts' part of the invariant is shown to survive.

`Retention_proofs` proves `TypeCorrect`, `Invariance`
(`Spec => []RetentionInv`), `RootLast`, `Journalled`, `IndexAcceptable` and the
action properties `EligibleOnly` and `LimitRespected`, for any number of hosts,
entries and faults and any configured limits with
`MinRollbackGenerations < MaxGenerations`, which the configuration check
demands.

Nothing in the code compares a plan with the retention policy again when it is
carried out, perhaps by a later run, so the policy properties rest on
`RetentionInv`: `PlanInv` holds of every plan in memory or in a journal, however
old. Its generation is below the reserve of the pointer it was made under, and
the pointer never moves back; as long as that generation is present it is the
oldest v3 root, so two sound plans for roots that exist name the same one, and
the index is still above its limit. `HostInv` ties a run to its plan: the plan
is in the journal before the first delete, the snapshot covers what is left of
the generation (`EntryDeleted` removes the root only as the last of the
snapshot, hence `RootLast`), and the journal goes when nothing is left.
`DatasetInv` says what is left of the index: the v3 roots still present are a
suffix up to current (`SuffixLeft`), and each of them below current is marked.
The proof takes the steps that change no LDAP data through one lemma
(`RunStepKeeps`), the four that do through another (`DatasetStepKeeps`).

`DnsRecords_proofs` proves `TypeCorrect`, `Invariance` (`Spec => []DnsInv`),
`OneCreator` (`CreatedIsMine`), `ReportsAreTrue` (`ReportedIsThere`),
`ProofsReachResolvers` (`ProvedIsResolvable`), `RemovalsHappened`
(`RemovedWentNow`) and `Refinement` (`Spec => WritesAreGuarded`), for any number
of callers, names, keys, faults and edits and whatever the zone holds at first.

The properties speak of calls that have ended; `DnsInv` says what a call under
way has established. `DeleteInv`: behind its lookup a deletion holds a value of
its key, and the record was there, so if it is absent later it went during the
call. `ProofInv`: what ProveAll has struck off its list is there and visible, and
behind the authoritative poll the present record is there. `LateInv`: an update
without a sender is still one that was asked for; the refinement needs it.
`WriteInv` ties an authenticated success to the call's own update. Every other
actor's step keeps these facts by one argument (`HoldsKept`): a change of the
zone that breaks "there" is recorded in `gone`, and the resolver's answer either
stays or becomes what is there (`ZoneChangeKeeps`, `CacheChangeKeeps`,
`OthersKeep`). The caller's own step then has one lemma per action.

`ManualLifecycle_proofs` proves `TypeCorrectness`, `Invariance`
(`Spec => []ManualInv`), `CompleteCurrent` (`CurrentComplete`), `CandidateOwned`
(`OwnCandidate`), `ActiveKeyPublished` (`ActivePublished`), `PhaseIsPrediction`
(`PhasePredictsRetirement`) and the action properties `ForwardOnly`
(`PointerForward`), `ProvenBeforeSwitch` (`PointerProven`) and
`RetiredAfterOverlap` (`OverlapKept`), for any number of processes, algorithms,
generations and crashes and any overlap, with and without campaigns.

A proof, a fence or a pending read is a fact about the past when it is used;
`ManualInv` says what is left of it. `OwnInv`: from the exclusive add to the
switch the root under the job's number carries the job's key. `ReadyInv`: unless
the pointer has reached that number, what was proved is still answered by both
channels, because a delete behind a valid fence is one with nothing staged
(`RetiredUnused`). `CarriedInv`: a creation or activation has the key of its
predecessor, whose records are therefore in use. `RetirementInv`: the key being
retired is the one its generation replaced, and while that generation is current
the overlap has passed. `InactivePrefix` says that a binding is first inactive
and, as long as it is, has one key; it excludes that the first switch activates
something unproved. Steps of others keep a job's facts because roots and pointer
only grow (`OthersKept`, `ReadyKept`, `StepKept`); each action then has one lemma
for its own job.

`Successors_proofs` proves `TypeCorrectness`, `Invariance`
(`Spec => []SuccessorsInv`), `SelectorsUnique` (`SelectorsStayUnique`),
`ResumesMatch` (`ResumeMatchesPlan`, with its three cases), `RetirementRemovesTheDifference`
(`RetirementIsTheDifference`) and the action property `AgesSurvive`
(`AgeSurvivesSuccessors`), for any finite sets of bindings and algorithms, any
number of generations, any limit of campaigns and any reserve.

The validators see two stored generations and the history, not the command that
wrote them. `SuccessorsInv` says what a root keeps of its plan until it is
committed (`CandidateInv`): one line per planner, in terms of the two contents and
of the credentials older roots hold, so that recognising a candidate is a comparison of two such
lines. What tells fresh keys from carried ones is `PlacesUnique`, which is
inductive by itself: a planner hands out either an identifier no retained root
uses or one that a root has *in the same place*. Fresh ones exist because the
identifiers in use are bounded (`HistoryInv`); this, the least element of a set of
numbers and the bound of a finite one are lemmas at the head of the module,
proved from well-foundedness by least counterexample. Purging only takes roots
away and never between staging and commitment, so it disturbs none of this;
neither uniqueness nor age needs the roots that are gone.

`RetainedRootsCheck_proofs` proves `SlicesStay`, `AllReadersAgree`
(`ReadersAgree`) and `AllWritesKeepShape` (`WritesKeepShape`) for root numbers up
to any bound and slices of any length. The sorted copy is defined by ranks (a
root's place is the number of roots up to it), so that no induction is needed:
the map from a root to its place is an injection of a finite set into itself,
hence a permutation (`Sorted`). `ValidIsShape` then shows that comparing
neighbours in that copy excludes duplicates and looks at exactly the pairs of
roots with no number between them, which is what `LegalShape` speaks of
(`ShapeIsLegal`). The remaining loops are quantifiers over the slice. Purging
brings up one new pair of neighbours, a legacy root and the v3 root behind the
purged one (`PurgingKeepsShape`); that is the gap the rules allow.

`DirectLifecycle_proofs` proves `TypeCorrectness`, `DirectInvariance`
(`Spec => []DirectInv`), `RecordsHaveEntries` (`NoOrphanRecord`),
`ActiveHasRecord` (`ActiveKeyPublished`) and the action properties `AlwaysSigned`
(`NeverUnsigned`) and `RetiredWhenQuiet` (`QuietBeforeRetirement`), for any finite
set of keys, any delays and retention, and any number of commands, faults and
removals by other hosts, with a resolver that lags or does not.

A command decides on a snapshot and on an answer of DNS, and writes later;
`DirectInv` says how far the two may be off by then. `Snapshot`: a key the
snapshot has and the directory has not was removed by another host, which takes
the record first and never an active key. `UpToDate`: the active keys of the
snapshot are those of the directory at every call but one, the chain that
disables the predecessors of a key; what this chain needs is only that its own
key is active (`CallInv`), and then that key is the one that stays. `EntriesInv`:
an inactive key has been silent since its entry was modified, so the age that
`Due` compares is at most the time of silence that `quiet` counts. `CallInv` has
a line for each call: a deletion that reached LDAP has removed the record before
(`drop`), a key that is being revoked is neither active nor complete (`revoke`).
There is one lemma per action; `EntrySteps` and `RecordSteps` name the few that
change entries and records, and the two action properties look at those alone.

`CnameSlots_proofs` proves `TypeCorrectness`, `Invariance` (`Spec => []CnameInv`),
`ActiveKeyResolves` (`ActiveResolves`) and, without another host that removes
selectors, the action property `ReorderReconciles`
(`CompletedReorderReconciles`), for any finite set of keys, any first arrangement
of any number of them, any delays, and any number of commands and faults.
`ActiveResolves` is also proved *with* removals by other hosts, which the run leaves
out. The premise of `ReorderReconciles` is needed: when a planned key is removed
before the last write the older ones do not move up until the next run.

`ActiveResolves` says nothing of the names an entry will bear. `CnameInv` follows the
plan of a reorder until it is carried out. `StepsInv` has three parts about the
steps left: a step takes a key to its slot or parks an inactive one (`Meant`); whoever
bears the name a step goes to leaves it by an earlier step (`Free`); the last step of
a key ends in its slot (`Ends`). The planner establishes them turn by turn
(`StepSound`, `TurnSound`, `PlannedFacts`), the first step may be carried out and
leaves them for the rest (`TailFacts`), and they survive the removal of entries
(`StepsStay`). So when a record is put before a rename nobody active resolves by what
it replaces (`FirstStepFacts`), and when the rename follows the record is the one of
the key. `SlotsInv` and `ExactInv` say what is settled from phase to phase behind
the renames. `TreeInv` bounds how far the snapshot of a command is behind the
entries, and `EntriesInv` says that names are distinct and ranks are the numbers up
to their count, which makes the order from newest to oldest a list of all entries
(`NewestFirstFacts`) and identifies it with the plan at the end (`PlanIsNewestFirst`).

All inductive invariants were checked by TLC on the instances of the runs before they
were proved.

**Only model-checked**: the nine liveness properties (liveness under fairness,
and `ENABLED`, are beyond TLAPS' backends). Every safety invariant and action
property of the passing runs is stated by a theorem, `WritesAreGuarded` and
`ImplementsLog` as refinements.

## 6. Plan

Done: 1 `RetainedRoots`, its check and theorems; 2 `CampaignActivation`, its invariant
and theorems; 3 `GenerationLog` and the refinement; 4 `Retention`, its invariant
and theorems; 5 `DnsRecords`, its invariant, theorems and register refinement;
6 `ManualLifecycle` (first publication, rotation, rollback, retirement,
observation), its invariant and theorems; 7 `Generations` and `Successors`, the
invariant and theorems of the latter;
8 `SelectorLifecycle` with `DirectLifecycle` and `CnameSlots`, and the invariants and
theorems of both.

Next: `CnameInv` speaks of one writing run. Two full runs of the legacy manager side
by side (hazard `app/manager.go:176`) have no property yet; a model of them would
say what a second scheduler on one domain can break.

## 7. What is not modelled

* Cryptography (key generation, digests, DNS signatures), the parsing of LDAP
  entries, configuration and command-line options, logging and output, and the
  wire format of purge plans: they keep no state, and the models use only what
  they accept. The contents of keys and records are abstracted to identities.
* The LDAP work budget: exhausted, it is a failed call, which the faults of
  `CampaignActivation` and `Retention` allow at every step. Deadlines likewise.
  The waiting for the in-process mutation fence under such a deadline is left
  out: the models let the commands of one process exclude each other.
* `ClassifyRecovery` (`dkim2store/recovery.go`): no command calls it.
* An interrupted `--create` or `--active` of the earlier format, and an
  interrupted first publication, are in `ManualLifecycle` as steps, but no
  property asks that they end: nothing completes them, as
  `docs/specs/DKIM2-ROTATION.md:176-178` says of the first generation.
* Late DNS deletes and other writers of the zone during a retirement: they are in
  `DnsRecords`; `ManualLifecycle` takes the exchange as one step.
* Attestations of `--retire-generation` are the operator's word.
* Legacy commands without `--update-dns`: they leave the DNS alone
  (`app/manager.go:328`, `412`, `431`, `554`), so that `--delete` removes an entry
  whose record stays, and who maintains the zone by other means has to follow.
  What `DirectLifecycle` and `CnameSlots` show of records and entries
  (`NoOrphanRecord` and `RecordsHaveEntries` first of all) is about runs with it.
* Two full legacy runs at once, several domains or algorithms per domain, and
  `--max-initial`.
