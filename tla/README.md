# IEMS-MADC: a verification project

TLA+ models, TLC runs and TLAPS proofs for the backend of IEMS-MADC, the
employee management system of an autonomous district council: a FastAPI
application over MongoDB, organised as a modular monolith (`src/backend`).
Paths below are relative to `src/backend`; `contexts/` is left out where the
context is named. All facts were read from the code, not from its documents.

Contents: [the system](#1-the-system), [the components](#2-inventory),
[the modules](#3-the-modules), [the runs](#4-the-runs),
[the proofs](#5-the-proofs), [findings](#6-findings-and-what-does-not-hold),
[not modelled](#7-what-is-not-modelled-and-why), [plan](#8-plan),
[how to run it](#9-how-to-run-it).

## 1. The system

One application process (a single uvicorn worker) serves HTTP requests. A
request is a coroutine: between two `await`s nothing else runs, at every
`await` (every database call) any other request may. Two processes overlap
when a deployment replaces one container by another.

All state is in MongoDB. Three mechanisms carry the whole system:

* **run_atomic** (`app_platform/db/atomic.py:21-32`) runs an operation in a
  transaction where the server has a replica set, and otherwise runs it again
  without one, as single writes in the order the code makes them. The
  deployment guide describes both (`docs/reference/google-cloud-deployment.md:237`
  of the repository). What a handler *reads* before it calls run_atomic is in
  neither case part of the transaction, and updates are unconditional `$set`s.
* **The outbox** (`app_platform/outbox`): a use case writes an event next to
  its change; the dispatcher of each process polls, leases an event for 30
  seconds, publishes it to the in-process bus, and marks it.
* **Subscribers** (`app/bootstrap/subscribers.py:29-52`): audit, documents,
  notifications, the employee read model, the Service Book's read side and the
  service events, in this order; the first that raises ends the publication.

So the hard behaviours are the interleavings of coroutines around stale reads,
crashes and raising calls between single writes, retries by clients and by the
dispatcher, and the passing of time against leases and retry times. Nothing is
multi-threaded and nothing is sent over a network but database calls.

## 2. Inventory

For each component: its state, its operations, what it interacts with, what is
hard about it, and what makes it correct. `PROJECT.json` lists the same
components with their sources and status, and the hazards line by line.

| component | state | operations | correct when |
|---|---|---|---|
| **outbox and event bus** | `outbox_events`: status, attempts, locked_until, next_attempt_at; the dispatcher's task and its batch | add_event, get_pending, lock_for_processing, publish, mark_sent, mark_failed, start, stop, replay_sent | every event reaches every subscriber before it is SENT; leases exclude; retries are bounded; every event is settled |
| **Service Book records** | `service_book_record_streams` (count), `service_book_records`, `employee_service_summaries` | record, correct, submit, verify, approve, lock, void, attach; projection of the summary | approved records are immutable; dual control; one hash chain; the summary follows the locked records |
| **leave applications and accounts** | `leave_applications`, `leave_ledger_entries` | apply, recommend, sanction, reject, cancel, view balances | nobody gets more than was accrued; a sanction has its debit; decisions are final; overlapping leave is refused |
| **documents** | `document_metadata`, the bucket and the archive | upload, supersede, lock, hold, release, tag, delete, retention sweep, signature requests | holds and locks are respected; version history is complete; rows, bytes and events agree |
| **run_atomic** | none | run an operation in or without a transaction | all of an operation or none, where transactions exist |
| **change requests** | `change_requests` | create, review, cancel; applies to profile or Service Book | applied exactly when it says APPLIED; the read model shows it once the events are delivered |
| **workflow tasks** | `workflow_tasks`, `workflow_transitions` | create, assign, start review, complete, reject, cancel | the history is a path of the state machine that ends at the status; nothing follows COMPLETED or CANCELLED |
| **seniority lists** | lists and their entries | generate, submit, verify, approve, reject, override, promote | three officers for one list; what is promoted is what was approved |
| **employee profile and identity workflow** | identity and profile extension, each with a workflow status | create, update, submit, verify, approve, return, delete | approval, audit record and event belong together; separation of duties over both workflows |
| **employee read model** | one composed row per employee, from which requests decide | create, patch, refresh, delete on events | a decision is taken from what the row is composed of |
| **Service Book opening** | the opening of each employee | draft, attach, submit, verify, approve and project | locked once, and then projected entry by entry |
| **Service Book read side** | entries and parts per employee | enter an event, patch its part | one entry per event; a part shows the newest event; redelivery changes nothing |
| **pay and allowances** | `pay_ledger_entries` | revise pay, set an allowance: append a row and announce it | a row without its event, or an event without its row, does not exist |
| **signature requests** | the request with its signers | create, sign, decline, cancel | complete means everybody signed, in order, and the document is locked |
| **sessions and accounts** | `users`, `refresh_tokens`, access tokens | create, update, authorities, deactivate, passwords; login, refresh, logout | an exclusive authority has one holder; an accepted token says what its user may do now |
| **departments** | `departments`, two authorities in `users` | create, update; hand over head of department and data entry operator | who is named holds the authority, and no other active account of that department |
| **versioned masters** (reference data) | rows per code and version, `master_audit_logs` | create, seed, update, deprecate | the versions of a code form one line; an acknowledged change is not lost, as long as a unique index or the timing sees to it |
| part revisions | numbered revisions with a hash chain | append, list | no fork, no gap |
| audit, notifications | one document per event | upsert | redelivery changes nothing |
| authorisation, system administration, forms, self service, reporting, domain separation, bootstrap | settings, catalogues, or none | single writes, checks and queries | no protocol of their own |

Interactions: leave, documents and records all write through run_atomic into the
outbox; a finalised leave, an applied change request and a completed signature
request lock documents (`documents/infrastructure/lock_ops.py`), outside their
transactions; a locked record is projected to the summary the opening also
writes; change requests write the profile extension of `employee_master` and are
checked against its stage; every transition and every GET of a profile composes
the read model anew, next to the events that patch it; the departments of the
system administration grant and revoke authorities in the accounts of
`identity_access`, which raise the version that invalidates tokens; everything
that reads across contexts does so from projections the dispatcher feeds.

## 3. The modules

| module | stands for | role |
|---|---|---|
| `Outbox` | `app_platform/outbox`, `app_platform/event_bus/bus.py` | the dispatchers against the collection, call by call |
| `EventDelivery` | — | what the outbox promises: hand out in order, settle once, never again; implemented by `Outbox` |
| `OutboxProofs` | — | theorems of `Outbox` |
| `ServiceRecords` | `service_book/records` | the handlers of one employee's stream |
| `ServiceLedger` | — | what a Service Book promises: append-only, amendable until approved; implemented by `ServiceRecords` |
| `ServiceRecordsProofs` | — | theorems of `ServiceRecords` |
| `Leave` | `leave_attendance` | the requests of one employee's leave and its account |
| `LeaveProofs` | — | theorems of `Leave` |
| `Documents` | `documents` | the jobs on files, rows and buckets |
| `DocumentsProofs` | — | theorems of `Documents` |
| `ChangeRequests` | `change_requests`, and the profile writes it applies | requests, reviews and cancellations that overlap |
| `EmployeeProfile` | `employee_master`: identity, profile, read model | one employee's record and the events behind it |
| `WorkflowTasks` | `workflow` | tasks and their histories |
| `SeniorityLists` | `seniority` | lists and their officers |
| `Opening` | `service_book/opening` | the opening of one employee's book |
| `ServiceBookReadSide` | `service_book/read_side`, `pay_benefits` | pay requests and the projector of entries and parts |
| `Signatures` | `documents/application/signature_service.py` | one signature request and its document |
| `Accounts` | `identity_access`: users, sessions, tokens | accounts against overlapping requests and logins |
| `Departments` | `system_admin/department` and the authority sync of `identity_access` | the hand-over of two authorities, call by call |
| `MasterVersions`, `MasterVersionsProofs` | `app_platform/reference_data` | the versions of one code, and theorems |
| `Services` | — | the ten components from `ChangeRequests` to `MasterVersions`, side by side |
| `OfficeProofs` | — | theorems of `Services`: tasks, lists, signatures, opening, read side, masters, departments |
| `EmployeeProofs` | — | theorems of `Services`: profiles, change requests, accounts |
| `ServicesProofs` | — | theorems of `Services` that are about several components |
| `MCOutbox`, `MCServiceRecords`, `MCLeave`, `MCDocuments`, `MCChangeRequests`, `MCServices` | — | the instances TLC checks |

`PROJECT.json` maps each definition to its lines. A definition whose comment
begins with "Mutant:" is not the system: it is the form a plausible bug would
take, kept next to the definition it replaces, to show that a property notices.

All modules follow one pattern. A request is a *job*: `job[c]` is what caller
`c` has read so far and the call it makes next, so that reads that have become
stale are part of the state. `CutOff` ends a job anywhere: a crash, or a call
that raises. Names of collections and of handlers are kept. History variables
(`disturbed`, `overlapped`, `cut`, `exposed`, ...) record that the condition a
property excepts has occurred, so that an exception is visible in the property
and cannot hide anything else.

### Outbox

A use case records an event (`AddEvent`, with the `$setOnInsert` on the
idempotency key). A dispatcher fetches a batch of the oldest pending events
(`GetPending`), takes them one by one (`LockForProcessing`, `SkipLocked`), calls
the handlers one after the other (`HandlerReturns`, `HandlerRaises`), and marks
the event with one call (`MarkSent`) or two (`ReadAttempts`, `MarkFailed`).
Everything a dispatcher holds in memory (`batch`, `job`, `handler`, `seen`) is
lost when its task ends (`Stop`, `DrainRaises`). `status`, `attempts`, `lease`
and `retry` are the fields of `outbox_events`. Time is reduced to what the
queries ask: a lease runs or is past, a retry time is ahead or due. Subscribers
are opaque: `delivered` says which handler has taken effect for which event. A
handler may raise after its effect, and may raise at any time, so that the
number of failures is bounded by max_attempts alone. `MayOverrun` says whether
a publication may outlast its lease, `FaultKinds` which faults occur.

### ServiceRecords

Each request (`Callers`) loads the stream and applies an operation of the
aggregate in one action: the reads in front of the last one only find the
employee's identifier, and the operation is done in memory behind it, without an
`await`. The stream the request then holds is a copy, `stream[c]`. With
`Transactions` the whole of it is written by `Commit`; without, by `WriteCount`,
`WriteRecord` in the order of the stream, `AddEvent`. `ReadSummary` and
`UpsertSummary` follow the lock of a record the summary knows. `ProjectOpening`
is the other writer of the summary: whatever stands there, the approval of the
opening puts IN_SERVICE (`opening_workflow_service.py:143-155`); `reopened`
marks that it did so over a posted termination. `CutOff` ends a request
anywhere: a crash, or a call that raises. A load orders equal sequence numbers
in any way (`Numberings`), as the sort of the query does, and `upsert_stream`
numbers the records anew. SHA-256 is taken to be injective and stands for the
record it hashes.

### Leave

Each request reads its application (`Recommend`, `Reject`, `Cancel`, `Sanction`)
or the dates and the balance (`CheckOverlap`, `CheckQuota`), reads the balance
and the account in two calls (`ReadBalance`, `ReadAccount`), and writes the
values it computed: `Commit` in a transaction, or `WriteDebit`, `WriteLeave` and
`AddEvent`. `LockAttachments` is never in the transaction; what it raises is
swallowed. The account is created by the first view or application
(`BuildAccount`, `OpenAccount`, an unconditional write) or by the first debit.
One employee, whole days and one year are enough for what the rules distinguish:
earned and half-pay leave read the account, the other types are capped by what
was sanctioned, commuted leave costs half-pay leave twice its days.

### Documents

Each job (`Callers`) reads a row and writes a row: `Edit` and `WriteEdit` are
every lock, hold, release and tag operation; `Attach`, `Create`, `Reread`,
`AnnounceScan`, `Describe`, `Retire` an upload and the version it supersedes,
with `Raise`, `Undo`, `Restore` for its except clauses; the scan's event is
published outside every `try` (`storage_ops.py:392`), so that `RaiseScan` leaves
bytes and row as they are. `Publish` follows `add_event`: a request that repeats
the Idempotency-Key of another adds no second event of a name (`untold`).
`Delete`, `DeleteBytes`, `RemoveRow` a deletion; `Sweep`, `Archive`,
`MarkArchived`, `Purge`, `SkipRow` the retention job over the rows its cursor
fetched. What is age or policy is a choice: the sweep may find any document due.
Rows are reduced to the fields that decide: held, locked, archived, current, and
what the version supersedes.

### ChangeRequests

A request (`Begin`) is an employee's for a change of one field of the profile or
its cancellation, or an officer's approval or rejection. An approval asks the
immutability rules of the profile's stage (`Check`) and then writes the profile,
composes the record, puts it in the read model, and writes the request, the lock
on the attachments, the notice and the events, each a step of its own
(`WriteProfile` to `WriteUpdated`). With transactions this is one `Commit`, but the lock
and the notice are not part of it, and the record is composed outside the session,
so the read model gets it as it was before. `MoveStage` moves the profile as
module `EmployeeProfile` says. `StartRefresh` and `WriteRefresh` are the refreshes
that come behind a transition and with every GET: what they have composed waits
in `views` until it is written. `Deliver` is the dispatcher's EMPLOYEE_UPDATED. It
patches the top level of the read model, and `projected` is that level; the
nested copies under `contact` and `identifiers` change with the next refresh only.
A request about the Service Book is not a case of its own: its bridge is always
refused (section 6).

### EmployeeProfile

One record: `identity` with its workflow, the profile `extension` with its own,
and `readModel`, the row composed of both *that every profile request decides
from*. Identity commands are transactions that emit events; `Deliver` takes any
event that was ever emitted, so late, twice and in any order. A profile request
reads the row (`ReadProfile`), is refused or decides, writes the extension, and
then refreshes the row, writes the audit record and publishes, each a step that
may not come; the refresh is one step here, and two in `ChangeRequests`.
`misread` marks a decision from a row that an event had overwritten.

### WorkflowTasks and SeniorityLists

A task's request reads it, asks the aggregate for the next status, and writes
with two calls: the unconditional update and the entry of the history. A list's
request reads the list, checks its status and who acted before, and writes the
fields it changes; `InsertPromoted` makes a new list of an approved one. A
ranking is a model value: overrides keep ranks a permutation, which the code
checks, and which one it is matters only for what was approved.

### Opening, Signatures

The opening is read whole and written whole (`SaveOpening`), and an approval
then projects it entry by entry (`ProjectEntry`) in the order of the code. A
draft is the set of keys it projects to and whether it is complete; it comes
with documents of its own or keeps those that were stored. A signature request
has its signers in order; the last signature looks for the document
(`FindDocument`) and writes its row back with the lock (`WriteLock`) before the
request is completed (`Upsert`). `ReadRow` and `WriteRow` are another operation
on the same row, which may write its copy over the lock (`undone`); `RemoveFile`
is an archival or a deletion.

### ServiceBookReadSide

Pay requests append a row to the ledger and enqueue its event; other contexts
announce records (`AnnounceRecord`). `AddEvent` is the outbox's: a request that
is sent again with its Idempotency-Key appends a second row and finds the event
of the first. The projector takes an event (`Take`), enters it in the book,
patches the part it names and returns; a subscriber in front of it or behind it
may raise (`Raises`), and the event is taken again later, behind newer ones.

### Accounts, Departments

`Accounts` has two kinds of callers: administrators, whose requests check the
exclusive authorities, write the user, end its sessions and raise its
token_version in separate calls, and users who log in and refresh, whose token
is made from the account as it was *read*. `Departments` is the other writer of
authorities: a request writes the department and then, for the head and for the
data entry operator, finds the account of the new holder (`FindTarget`), finds
who holds the authority there (`FindHolders`), takes it from each of them
(`RevokeHolder`), grants it (`Grant`), or takes it from the old one (`RevokeOld`).
Only active accounts are found as holders: one that was deactivated (`SetActive`)
keeps its authority. In `Accounts` these calls are single steps on one account
(`PullDepartmentAuthority`, `GrantDepartmentAuthority`).

### MasterVersions

A change reads the newest active row, inserts the successor under the next
version (`InsertRow`, refused by the unique index on code and version where the
master has one), retires the row it has read (`Supersede`) and writes the audit
entry (`LogChange`). That `is_active` and `superseded_by` are set by one update
lets one field stand for both. `indexed` says which master it is: ten
collections get the index (`runtime.py:606-626`), `document_types`,
`qualifications` and `roles` do not. The departments have it, but
`update_department` also changes their rows in place
(`management_router.py:343-377`); they are the subject of `Departments`.

### Services

Ten of the components share no state. Their instances stand side by side in
`Services`: the initial state chooses one, which then takes all the steps. The
run is the sum of ten runs, not their product, and each of its properties is
guarded by the component it is about (`Running`).

## 4. The runs

All runs finish; the numbers are distinct states.

| run | states | what it asks |
|---|---:|---|
| `outbox_faults` | 2.19 million | two dispatchers, leases that are overrun, crashes, database errors: `SentMeansDelivered`, `ExclusivePublication`, `RetryBudgetAgrees`, `AttemptsBounded` |
| `outbox_single` | 139 thousand | one process, restarted, leases that run out: `ImplementsDelivery`, `EmittedSettles` (liveness) |
| `records_fallback` | 1.79 million | one command at a time, no transactions, one cut off: `ChainLinear`, `TerminationSticks`, `ApprovedImmutable`, `ImplementsLedger` |
| `records_concurrent` | 1.03 million | two commands at once, transactions, one cut off: `DualControl`, `TrailExplainsPayload`, `ChainGrounded` |
| `records_lost` | violated | two commands at once: `ApprovedImmutable` fails |
| `leave_fallback` | 120 thousand | one request at a time, no transactions, no account yet, one fault: `WithinEntitlement`, `BalanceExplained`, `LockedAreDecided` |
| `leave_concurrent` | 322 thousand | two requests at once, transactions, one fault: `ReviewedByOthers`, `SanctionedIsDebited` |
| `leave_overspent` | violated | two requests at once: `WithinEntitlement` fails |
| `documents_lifecycle` | 5.49 million | one job at a time, one failing call, one cut off: `StoresAgree`, `SupersededRetired`, `HoldRespected`, `LockSticks`, `HistoryKept` |
| `documents_swept` | violated | one sweep: `SweepSparesProtected` fails |
| `services` | 807 thousand | ten components, see below |
| `profile_locked` | violated | a change request against a locked profile: `LockedIsReadOnly` fails |

What `services` asks of each component, and how many states it spends on it:

| component | states | properties |
|---|---:|---|
| workflow tasks | 34 thousand | `HistoryExplains`: the history is a path to the status the task shows |
| seniority lists | 55 thousand | `DutiesSeparated`: three officers for one list, and a final list says what the approved provisional list says |
| employee profile | 159 thousand | `DutiesSeparated` for identity and profile, whatever is delivered when; `DecisionsKnown`: what is under review is ready for it, and audit and event say the status |
| change requests | 192 thousand | `OutcomeAgrees`: APPLIED means applied, and the notice, the lock and the events say so; `ProjectionsCatchUp`: the read model shows it once the events are delivered, unless a refresh read before an update and wrote after it |
| opening | 12 thousand | `ProjectionsCatchUp`: the book shows what was approved, all of it and nothing else |
| signatures | 5 thousand | `SignedMeansSealed`: COMPLETED means signed by all and locked, unless another operation wrote the row over the lock |
| accounts | 102 thousand | `AuthoritiesAgree`: one holder of an exclusive authority, and an accepted token says what the account may do |
| read side, pay | 149 thousand | `BookFollows`: one entry per event, parts show the newest, a row has its event unless it repeats the key of another |
| versioned masters | 55 thousand | `VersionsInLine`: with the index, or while no two changes overlap, one line of versions, no acknowledged change lost, every row logged once |
| departments | 46 thousand | `HeldAsNamed`: an authority is held by exactly the employee its department names, unless an inactive holder was passed over |

`TypeOK` of each module is checked in its first run, of these ten in `services`.

### Bounds, and why they are enough

* *Outbox.* Two events, so that one can wait in a batch behind another and be
  settled by the other dispatcher meanwhile; a third in `outbox_single` repeats
  an idempotency key. Two subscribers, so that a failure can come between them.
  MaxAttempts 2 is the smallest with a retry before the dead letter, BatchSize 2
  the smallest with a batch that goes stale. Two faults: a crash or a call that
  raises for each dispatcher, or two restarts of one.
* *ServiceRecords.* Two records make a chain, a fork and a record overwritten by
  a command on another; ten commands take both to LOCKED (a record, three
  transitions and a lock each); the opening is approved at any time, and any
  number of times. Six commands with two callers are enough for an approval that
  is overwritten and repeated; the lost approval appears after seven. Two actors
  are the least with dual control. One correction and one attachment are enough
  for a trail.
* *Leave.* Three applications over two funds that compete, nine commands: apply
  and recommend twice, sanction twice, and a decision to spare; seven with two
  callers. The entitlement is one too small for all of them.
* *Documents.* Three documents make a version chain with a middle; six jobs are
  enough to upload all three in a chain and then sweep, delete or hold. One
  call that raises and one cut-off meet every write of an upload once.

* *Services.* Two requests at once is the least that overlaps, and enough for a
  check that another request makes stale; three would add no new kind of stale
  read, since every handler reads each document at most twice. One task and four
  commands reach a closed task and a step beyond; two lists and six commands
  take a provisional list through three officers and promote it. The record of
  an employee needs three users for separation of duties, and gets four
  commands, from no record at all or from an active identity whose profile is
  missing, rejected or approved. Two change requests, some of them made before,
  and two reviews; only APPROVED profiles at first, which `MoveStage` locks;
  refreshes hold one record at a time (`MaxViews`), the least that can become
  stale. Opening: three drafts (incomplete, and two whose keys differ) and four
  commands, enough to draft, submit, verify and approve. Three signers have a
  middle; six operations. Two accounts and three commands: two that compete and
  one that undoes. Two events and two publications of each, with one key to
  repeat. Four changes of a master. Two departments, two employees of whom one
  may have no account, and three commands, one at a time: swaps, hand-overs,
  clearances and deactivations.

Symmetry is used only where a run has no liveness property and the symmetric
values enter no `CHOOSE` that could tell them apart: dispatchers in
`outbox_faults`; actors and payloads in `records_fallback`; these, records and
callers in `records_concurrent`, where every record has the same kind; callers,
the pair of lists (requests, accounts, departments) and users in `services`;
requests and callers in `profile_locked`. Deadlock is not checked: every model
may stop when its bounded commands and faults are spent, and the bounded program
may simply be idle.

### Fairness

Only `Outbox!FairSpec` states fairness. Each dispatcher's own steps are weakly
fair (a running task is scheduled, and an awaited call returns), each lease runs
out and each retry time comes, and a process that is down is started again (the
restart policy of the compose file). Nothing is said of `AddEvent`, of handlers
that return rather than raise, or of a task that has died in a process that
lives: nothing in the code restarts it, and with one database error among the
faults TLC finds `EmittedSettles` violated.
An event whose handlers raise for ever is still settled, as a dead letter.

## 5. The proofs

All are checked by TLAPS, for every value of the constants that satisfies the
`ASSUME`s of the module and the condition named here; "one at a time" is
`OneAtATime`: any two callers are the same one. Every property in the table is
also checked by a run, in which TLC evaluates the `ASSUME`s. All properties of
the runs that pass are proved but one, the liveness of the outbox.

| theorem | property | also assumes |
|---|---|---|
| `OutboxProofs!TypeCorrect` | `TypeOK` | — |
| `OutboxProofs!AtLeastOnce` | `SentMeansDelivered` | — |
| `OutboxProofs!LeaseExcludes` | `ExclusivePublication` | — |
| `OutboxProofs!RetryBudget` | `RetryBudgetAgrees` | — |
| `OutboxProofs!AttemptsNeverExceed` | `AttemptsBounded` | — |
| `OutboxProofs!SingleProcessDelivers` | `ImplementsDelivery` | `SingleProcess`: one dispatcher, no database errors |
| `ServiceRecordsProofs!TypeCorrect` | `TypeOK` | — |
| `ServiceRecordsProofs!DualControlHolds` | `DualControl` | — |
| `ServiceRecordsProofs!TrailHolds` | `TrailExplainsPayload` | — |
| `ServiceRecordsProofs!ChainGroundedHolds` | `ChainGrounded` | — |
| `ServiceRecordsProofs!ImmutableOneAtATime` | `ApprovedImmutable` | one at a time |
| `ServiceRecordsProofs!ChainLinearOneAtATime` | `ChainLinear` | one at a time |
| `ServiceRecordsProofs!TerminationSticksOneAtATime` | `TerminationSticks` | one at a time |
| `ServiceRecordsProofs!LedgerOneAtATime` | `ImplementsLedger` | one at a time |
| `LeaveProofs!TypeCorrect` | `TypeOK` | — |
| `LeaveProofs!ReviewHolds` | `ReviewedByOthers` | — |
| `LeaveProofs!SanctionsDebited` | `SanctionedIsDebited` | the account exists from the start |
| `LeaveProofs!EntitlementKept` | `WithinEntitlement` | one at a time |
| `LeaveProofs!BalanceExplains` | `BalanceExplained` | one at a time |
| `LeaveProofs!LocksFollowDecisions` | `LockedAreDecided` | one at a time, no transactions |
| `DocumentsProofs!TypeCorrect` | `TypeOK` | — |
| `DocumentsProofs!HoldRespectedOneAtATime` | `HoldRespected` | one at a time |
| `DocumentsProofs!LockSticksOneAtATime` | `LockSticks` | one at a time |
| `DocumentsProofs!HistoryKeptOneAtATime` | `HistoryKept` | one at a time |
| `DocumentsProofs!StoresAgreeOneAtATime` | `StoresAgree` | one at a time |
| `DocumentsProofs!SupersededRetiredOneAtATime` | `SupersededRetired` | one at a time |
| `MasterVersionsProofs!TypeCorrect` | `TypeOK` of one master | MaxCommands is a number |
| `OfficeProofs!HistoryHolds` | `HistoryExplains` | — |
| `OfficeProofs!VersionsHold` | `VersionsInLine` | — |
| `OfficeProofs!SignaturesHold` | `SignedMeansSealed` | — |
| `OfficeProofs!BookHolds` | `BookFollows` | — |
| `OfficeProofs!OfficesHold` | `HeldAsNamed` | — |
| `EmployeeProofs!DecisionsHold` | `DecisionsKnown` | — |
| `EmployeeProofs!OutcomesHold` | `OutcomeAgrees` | — |
| `EmployeeProofs!AuthoritiesHold` | `AuthoritiesAgree` | — |
| `ServicesProofs!TypesHold` | `TypeOK` | — |
| `ServicesProofs!DutiesHold` | `DutiesSeparated` | — |
| `ServicesProofs!ProjectionsHold` | `ProjectionsCatchUp` | — |

The conditions are not for the sake of the proofs: with two requests at once, or
with the account missing at first, TLC finds the counterexamples of section 6.
"—" means any number of callers, any interleaving, and cut off anywhere; what a
property itself excepts (`disturbed`, `overlapped`, `cut`, `exposed`, `undone`,
`overtaken`, ...) is part of its statement.

**What is assumed of the constants.** Most `ASSUME`s say that the values that
stand for nothing (`None`, `Absent`, `NoEvent`) are not among the others, and
that bounds are numbers. The rest is what the code ensures: the fund types that
are capped are not those that have an account (`TypesAssumption`); nobody signs
a request twice (`validate_signers`, `SignersAssumption`); a pay request
announces a name the projector knows, and max_attempts is at least one
(`BookAssumption`); the summary of an opening is always projected
(`OpeningAssumption`); what department management hands on is no authority of
the others (`AccountsAssumption`).

**Outbox.** `IInv` adds to the types and the property that a dispatcher has a job
exactly while it works (`JobOK`) and that the handlers in front of its next one
have handled that job (`HandledSoFar`): `MarkSent` is reached past the last
handler, and `delivered` only grows, so it does not matter who else publishes or
marks the event. For the lease, `LInv` adds that a dispatcher at work holds a
running lease (`LeaseHeld`) and that what mark_failed has read is still the
counter (`SeenIsCurrent`). Both are about events outside `exposed`: an event is
exposed once its lease ran out under a publication, or a database call about it
raised after its effect. No bound on overruns or faults is assumed. For the
attempts, `AInv` counts: the attempts of an event plus the dispatchers that work
on it or still have it in their batch stay within the bound (`FailuresBounded`);
a fetch adds to the count only below MaxAttempts, and each failure moves one
from the second part to the first. The refinement of `EventDelivery` needs of
the single process that nothing in its batch or at work is settled (`RInv`);
each step is then a step of `EventDelivery` or changes nothing it speaks of.

**ServiceRecords.** Handlers overwrite each other's work, but they always write
*whole records*, and every record they write comes from a load and at most one
operation. So a property of single records that the operations preserve (`Good`:
type, dual control, trail) is preserved by every interleaving, with and without
transactions, also in the torn states of the fallback that no run with two
callers covers. `IInv` says it of the database and of every stream in memory;
the lemmas `RecordSound` to `TransitionSound` say it of the operations.
`ImmutableOneAtATime` needs more, because it compares two states: `KInv` says
that a request at work holds, of every approved record, what the database holds.
It is false with two requests, which is `records_lost`. `ChainGroundedHolds` is
about the graph of the references, for any interleaving: `GInv` says that it is
well-founded in the database, that what each stream in memory refers to is in
the database or is the one record that request has just made (`Referred`), and
that a record is recorded by one request (`RecordedOnce`); a new record has no
successor when it is added, and nothing is removed. `ChainLinearOneAtATime`
follows the numbers instead: `LInv` says that the stored records are numbered 1
to n, without gap or repetition, each referring to the one before it (`Linear`),
in the torn states of the fallback too, and that what the request at work will
write is one operation away (`Pending`). `LedgerOneAtATime` maps that order to
the entries of `ServiceLedger`: the write of the command's own record is a step
of it, every other write a stutter. `TerminationSticks` needs `PInv`: the
summary has been told of what is posted, but for what the request at work is
about to tell it (`Told`). It is about the runs without a crash in which no
opening was approved after the termination; the property says so.

**Leave.** For the review, `IInv` is made of the shape of a job, `Inserted`
(nobody else works on an application that is not in the database yet, and what
another request has read is never removed), and `Backed`: a status beyond
SUBMITTED has its recommendation, and a request that read one may rely on it,
since a write only adds to who reviewed the leave. For the debit, `DInv` says
that the account exists, every sanctioned leave has a debit, and a request about
to write a sanction on its own (the fallback) has debited it; debits only grow
(`DebitAdds`), while the absolute balances may be overwritten. What is summed
over all leaves needs one request at a time and `EInv`: the account and the debits
together never exceed what was accrued, and equal it when the account was opened
with the service; every granted leave is among the debits and no cap is exceeded
(`Funded`); and a request ahead of its debit has read what it can pay from
(`Payable`, `Ready`). A sum is the cardinality of a set of pairs, a leave and one
of its days; `TotalZero`, `TotalMonotone`, `TotalAdd` and `TotalChange` say what
it does when one leave joins or changes, by the theorems on finite sets, so that
no induction is needed.

**Documents.** `TInv`, for any number of jobs, says what each job holds at each
step: a job that writes a row back has read one. One job at a time, `DInv` adds
that an uploading job has its name to itself (`Named`, `UploadAlone`) and that
what a job has read is what is stored (`ReadIsCurrent`), from which the three
step properties follow. `SInv`, for jobs that are not cut off, describes the
states in between: the stores tell the same of every document but the one in
hand (`StoresTold`), for which `MidwayAgrees` says how far it has come, and one
version of a line is current, except midway in a replacement (`OnlyCurrent`,
`CurrentAlone`).

**The ten components of Services.** `Services` chooses one component and runs
it beside the others. Each is implemented by the composition (the lemmas
`SimulatesWorkflow` to `SimulatesDepartment`: its steps or a stutter), so an
invariant of a component alone is one of the whole. The invariants are stated
and proved component by component, under names with the component's prefix:

* *Workflow tasks* (`WorkIInv`): a task is in the state its history says
  (`WorkExplains`) or midway between the update and the history (`WorkMidway`).
  `WorkAppendExtends` is the fact about paths that closes the second; an appended
  entry is compared with the last one only, so histories may have any length.
* *Seniority lists* (`SenIInv`): two requests at work on one list have made it
  `overlapped` (`SenAlone`), what a handler asked of a list that is not is still
  true (`SenStillChecked`), a list names who brought it to its status, and a final
  list agrees with its source, which nothing ranks again: from APPROVED nothing
  is legal but a promotion.
* *Masters* (`MasterVersionsProofs`, used by INSTANCE; `VersionsHold` takes its
  lemma over to the composition): nothing excludes two requests but the unique
  index. `InsertedAtEnd` is the argument: with rows numbered 1 to n (`OneLine`),
  the number behind the row a request has read is free only if that row is the
  last, so a request inserts at the end or is refused, whatever it has read.
  Without the index the same is true while requests come one at a time, since
  the one at work has read the last row; `overlapped` ends it.
* *Signatures* (`SignSealInv`, `SignAloneInv`): the last signature is written
  behind the lock, whatever overlapped, and only a row written over it takes it
  back (`undone`); what was acknowledged is signed and in order as long as
  operations came alone. That the next signer is the first who has not signed is
  a least element, taken from the well-foundedness of the numbers.
* *Read side* (`ReadIInv`): the event being published is pending and entered
  before it is patched in (`ReadPublishing`), an entry exists once an event is
  sent (`ReadEntered`), events that were never taken again are patched in order
  (`ReadInLine`), and every row of the ledger is announced or about to be, by
  its own event or by that of the request whose key it repeats (`ReadPaid`).
* *Opening* (`OpnPInv`): the one request at work knows the opening and which
  entries it has yet to project (`OpnKnows`); the rest are as the opening says.
* *Departments* (`DeptDInv`): how far a request has handed each of the two
  authorities over (`DeptHanded`), from the write of the department to the grant.
* *Profile* (`ProfIInv`): three parts do not depend on what was delivered when:
  separation of duties over both workflows, that a decision is taken in a status
  it is legal in unless the row was overwritten (`ProfWriteInv`), and what the newest
  event and audit record say (`ProfToldInv`).
* *Change requests* (`ChgIInv`): an approval marks its request behind the profile
  (`ChgWInv`); how far a request that nobody disturbed has come, in outcome, notice,
  lock and events (`ChgRInv`); and, with transactions, events in order and no
  refresh overtaken, that a field without a pending event is shown as it is, in the
  read model and in every record a refresh has composed (`ChgCInv`).
* *Accounts* (`AccIInv`): without a disturbance the one administrator's request
  knows the account it writes (`AccRInv`) and what it has checked still holds
  (`AccCInv`); for tokens, whatever overlaps, `AccSInv` says of every token and of
  every account a login has read that it is older than the account, or agrees
  with it, or a request that is at work has yet to end it (`AccSnap`).

**Model-checked only.** Liveness (`EmittedSettles`): the prover does not reach
fairness and ENABLED. The four findings are counterexamples, and stay with TLC.
No module declares a RECURSIVE operator and nothing is proved by induction over
data: sequences and sums are used through what one more element does to them.

## 6. Findings, and what does not hold

Four runs end in a violation of what the repository says of itself:

* `records_lost`: a command loaded before another record was approved writes the
  record back as it was: the approval is gone (`approve_event_handler.py:61`).
* `leave_overspent`: two sanctions read one balance, both pass, and the second
  overwrites the first one's balance (`gateway_helpers.py:432`).
* `documents_swept`: the sweep archives a superseded version that still has its
  successor, which the comment at the head of the job rules out
  (`retention_job.py:68`).
* `profile_locked`: LOCKED is in neither list of stages the immutability
  validator asks, so a locked profile is the one most easily changed
  (`immutability.py:195`).

**Conditions.** These properties hold only under the condition of their run or
the exception they state; each was seen to fail with TLC when it is dropped,
mostly from the same two causes (a stale read, a crash between two writes):

* `EmittedSettles` fails with one database error outside the dispatcher's try
  block: it ends the task, and nothing restarts it.
* `RetryBudgetAgrees` fails for exposed events: an event may stay FAILED with
  its attempts used up, which get_pending never returns.
* `ChainLinear` fails with two commands at once: both records refer to the same
  predecessor. `ChainGrounded` is what remains.
* `TerminationSticks` fails after a crash in the fallback, or between the lock
  and the projection; the count of records is wrong after the same crash. It also
  fails without one when the opening is approved after a termination was posted:
  its projection puts IN_SERVICE over TERMINATED (`reopened`).
* With two requests on leave at once, overlapping leaves are both accepted, and
  a decision may be overwritten: a cancelled leave may end as SANCTIONED, or the
  other way round. `LockedAreDecided` fails with transactions when the commit
  fails, since the attachments are locked before it.
* A crash in the fallback between the debit and the status leaves a debit
  without a sanction; the retry debits again, on the employee's cost.
  `BalanceExplained` and `SanctionedIsDebited` fail with two requests at once
  when the account does not exist yet: a slower view erases the first debit. No
  balance was ever seen below zero.
* All step properties of `Documents`, `StoresAgree` and `SupersededRetired` fail
  with two overlapping jobs: a row is read whole and written whole, so a hold
  applied in between is lost and the sweep may archive a held document. In the same
  way a hold takes the lock of a completed signature request back (`undone`).
* `StoresAgree` speaks of bytes and rows, and of the events of documents that are
  not `untold`: when publishing the scan's result raises, the upload fails and its
  bytes and its row stay, without a DOCUMENT_UPLOADED; and a request that repeats
  an Idempotency-Key on another document adds no event at all.
* Overlapping requests reopen a closed task, change a list after its approval,
  give an exclusive authority two holders, or lose a signature that was
  acknowledged. An approval of an opening that is cut off during the projection
  is never completed: the opening is LOCKED and every later request is refused.
* A redelivered older event takes a part of the Service Book back to what it
  said before. In the fallback two interleaved approvals of change requests may
  leave the read model behind; with transactions a refresh does, when it has
  composed the record before an approval and writes it after the approval's event
  was delivered (`overtaken`). Nothing but the next refresh corrects it.
* A pay revision that is sent again with its Idempotency-Key makes a second row in
  the ledger, and no event (`PayAnnounced` asks for an event of the key).
* A master change that is cut off behind its insert leaves two active versions
  for good (readers take the newest). Two overlapping changes of a document type, a
  qualification or a role both succeed, and one of them is lost: nothing refuses the
  second row of a version.

**What the code does and its text does not say**, met while modelling and visible
in the models, without a run of its own:

* A change request about the Service Book is never applied: run_atomic always
  tries a session first, and the bridge answers with 409 because its approval
  refuses the DRAFT it has just recorded. The request stays PENDING.
* `current_user.py:35` announces that access tokens are rejected after role
  changes; department management changes HOD and DEPT_DATA_ENTRY without raising
  the token version (`TokensCurrent` excepts these), and reactivation through
  update_user asks for no exclusive authority (`revived`).
* A head of department cannot be moved to data entry while the field is cleared:
  the cleared field falls back to the old holder. Naming somebody without an
  account leaves the old holder's authority in place, and clearing that name
  afterwards revokes it from the absent one, so it is kept until the next grant
  (`missing`). An employee named by two departments is taken from the first. A
  holder whose account is inactive is passed over: when it is activated again, the
  department has two heads (`disturbed`).
* update_department finds a department by its code alone: after a versioned
  update of the same master it edits the superseded oldest row, while
  get_department shows the active one (`management_router.py:307`).
* The expiry job normalises its stage tags to lower case when it saves them and
  compares them in upper case, so it announces a stage again on every run,
  against its docstring (`expiry_job.py:5-8`).
* The docstring of the identity's rejection says "back to DRAFT"
  (`identity/api/write_router.py:297`); the code writes REJECTED. A republished
  identity event resets the workflow status in the read model, although
  `identity_repository.py:138` calls its consumers idempotent; this is what
  `misread` stands for.
* The pay snapshot ignores whether an allowance is an increment or a decrement.
  Corrections of records are possible before approval only, and are entered in
  the Service Book nevertheless.

## 7. What is not modelled, and why

* `replay_sent` and requeueing by an administrator: no caller outside tests;
  they break the order of the dispatcher by design.
* The second run of run_atomic after an error whose text only looks like a
  missing replica set: it needs a commit whose answer is lost, and the texts of
  the driver.
* Leave: crediting over time, half days, maternity and other uncapped types, the
  Part VI revision written with a debit (a unique index guards it).
* Documents: templates, share links, the malware scan, and the expiry job, which
  has no caller in the repository; the retention job, equally without one, is
  modelled because its own comment makes promises.
* Employee profile: the employee_master mirror, the archive collection, the
  rebuild from the identity (called by nobody), identity writes without
  transactions, and two requests on one record at once.
* Service Book read side: the rebuild (called by tests only; it would enter every
  event under another source a second time) and Part VI, merged when it is read.
* Accounts: lockout after failed logins, expiry by time, provisioning of
  employees, the membership checks of a department. Departments: their
  deactivation and their change log, and authorities granted elsewhere.
* Authorisation as such, and the department scope: a function of the caller's
  claims, checked by its own tests. Requests are taken after they were admitted;
  the rules on who may act twice (verifier and approver, applicant and officer)
  are kept, because they are state. The policy engine is used by tests only, and
  `unlock_workflow`, `delete_employee` and `admin_cancel_leave` always refuse.
* Audit and notifications: one upsert per event, under its identifier.
* Forms, catalogues, schema definitions, reporting, self service, domain
  separation, administration of settings: data, validation of single requests,
  queries, or static checks, without a protocol of their own. They are the larger
  part of the code by lines.
* The frontend, the migrations, the deployment and the scripts.

## 8. Plan

Done: the outbox and its refinement; records, leave, documents; change requests,
profile, tasks, seniority lists, opening, signatures, accounts, read side and
pay, masters, departments; every property of the runs that pass, liveness aside,
as a theorem. Next, in this order:

1. Proofs: what two requests at once can still not do, where the theorem is about
   one at a time: the debits of a leave never shrink, an approved record is
   overwritten by a loaded copy of itself and by nothing else.
2. Composition: `ChangeRequests` with `EmployeeProfile`, and `Accounts` with
   `Departments`, instead of the actions by which each stands for the other.
3. The read side and the employee read model as subscribers of `EventDelivery`:
   which of their properties follow from its promises alone.
4. The crediting of leave over time, and the lockout of accounts, which both need
   a clock.

## 9. How to run it

In this directory: `tlc -config Outbox_faults.cfg MCOutbox` for a run
(`PROJECT.json` names module and configuration of each), `tlapm
OutboxProofs.tla` for a module of proofs. `services` takes three to four
minutes with two workers, every other run less. `OfficeProofs` and `EmployeeProofs` take
about a quarter of an hour each, the other modules of proofs a few minutes.
