---------------------------- MODULE ChangeRequests ----------------------------
(***************************************************************************)
(* contexts/change_requests: an employee asks for a change of one field of *)
(* the profile, an officer applies it to the profile or rejects it, the    *)
(* employee may cancel it.  Several callers work at once.  With            *)
(* transactions the writes of a request are one commit, but the lock on    *)
(* the attachments and the notice to the employee are not part of it;      *)
(* without, every write is a step of its own.  The stage of the profile    *)
(* moves as module EmployeeProfile says.  Whoever reads the profile or     *)
(* moves it composes the record and puts it in the read model a step       *)
(* later, any number of them at a time.                                    *)
(***************************************************************************)
EXTENDS Naturals, Sequences, FiniteSets

CONSTANTS
  Requests,    \* change requests; each asks for a value of its own
  Fields,      \* fields of the profile they ask to change
  Callers,     \* requests that are handled at the same time
  None,        \* no value, no request
  Absent,      \* not created yet
  Old,         \* the value a field has before
  FirstStages, \* the stages the profile may be in at first
  MaxViews,    \* bound on the different records that refreshes hold at a time
  MaxCommands  \* bound on the requests handled

VARIABLES
  transactions,  \* does the database have transactions
  requests,      \* change_requests: Requests -> a document or Absent
  stage,         \* the status of the profile
  values,        \* the fields of the profile extension
  projected,     \* the same fields at the top level of the read model
  views,         \* the records that refreshes under way have composed
  locked,        \* requests whose attachments are locked
  notices,       \* what the employee was told of each request
  announced,     \* events of the requests: <<request, status>>
  pending,       \* EMPLOYEE_UPDATED events the dispatcher still has, oldest first
  job,           \* Callers -> the request it works on, how far it is, what it composed
  handled,       \* requests so far
  written,       \* history: requests whose values were written to the profile
  disturbed,     \* history: requests two callers worked on at once, or one left midway
  reordered,     \* history: a later EMPLOYEE_UPDATED overtook an earlier one
  overtaken      \* history: an update was delivered that a refresh under way had not read

vars == <<transactions, requests, stage, values, projected, views, locked, notices, announced,
          pending, job, handled, written, disturbed, reordered, overtaken>>

ProfileVars == <<stage, values, projected, views>>
OutsideVars == <<locked, notices>>
EventVars == <<announced, pending>>
HistoryVars == <<written, disturbed, reordered, overtaken>>

Idle == [step |-> "idle", request |-> None, command |-> None, view |-> None]

FieldNames == {"after_submission", "after_verification", "unrestricted"}

NewRequest(f) == [status |-> "PENDING", field |-> f]

\* Some requests may be waiting for a review already.
Init ==
  /\ transactions \in BOOLEAN
  /\ requests \in [Requests -> {Absent} \cup {NewRequest(f) : f \in Fields}]
  /\ stage \in FirstStages
  /\ values \in {[f \in Fields |-> IF f = "after_verification" THEN v ELSE Old] : v \in {None, Old}}
  /\ projected = values /\ views = {}
  /\ locked = {}
  /\ notices = [r \in Requests |-> {}]
  /\ announced = {<<r, "PENDING">> : r \in {r \in Requests : requests[r] # Absent}}
  /\ pending = <<>>
  /\ job = [c \in Callers |-> Idle]
  /\ handled = 0
  /\ written = {} /\ disturbed = {} /\ reordered = FALSE /\ overtaken = FALSE

At(c, step) == job[c].step = step

Go(c, step) == job' = [job EXCEPT ![c].step = step]

Finish(c) == job' = [job EXCEPT ![c] = Idle]

Stages ==
  [DRAFT |-> {"SUBMITTED"}, SUBMITTED |-> {"VERIFIED", "REJECTED"},
   VERIFIED |-> {"APPROVED", "REJECTED"}, APPROVED |-> {"LOCKED"}, LOCKED |-> {},
   REJECTED |-> {"SUBMITTED"}]

-------------------------------------------------------------------------------
(* Reading and checking. *)

Outcome ==
  [CREATE |-> "PENDING", CANCEL |-> "CANCELLED", APPROVE |-> "APPLIED", REJECT |-> "REJECTED"]

\* create_change_request makes the document; the others ask for a PENDING one.
Begin(c, command, r) ==
  /\ job[c] = Idle
  /\ handled < MaxCommands
  /\ handled' = handled + 1
  /\ IF command = "CREATE"
       THEN requests[r] = Absent /\ \A d \in Callers : job[d].request # r
       ELSE requests[r] # Absent /\ requests[r].status = "PENDING"
  /\ job' = [job EXCEPT ![c] = [step |-> IF command = "APPROVE" THEN "check" ELSE "write",
                                request |-> r, command |-> command, view |-> None]]
  /\ disturbed' = IF \E d \in Callers \ {c} : job[d].request = r
                    THEN disturbed \cup {r} ELSE disturbed
  /\ UNCHANGED <<transactions, requests, ProfileVars, OutsideVars, EventVars, written, reordered,
                 overtaken>>

\* validate_immutability: a field that was never set may still be.
Blocked(f, v) ==
  /\ values[f] \notin {None, v}
  /\ \/ f = "after_submission" /\ stage \in {"SUBMITTED", "VERIFIED", "APPROVED"}
     \/ f = "after_verification" /\ stage \in {"VERIFIED", "APPROVED"}

Check(c) ==
  LET r == job[c].request IN
  /\ At(c, "check")
  /\ IF Blocked(requests[r].field, r) THEN Finish(c) ELSE Go(c, "write")
  /\ UNCHANGED <<transactions, requests, ProfileVars, OutsideVars, EventVars, handled, HistoryVars>>

-------------------------------------------------------------------------------
(* What a request writes. *)

\* update_profile_fields, in the profile extension.
Apply(r) ==
  /\ values' = [values EXCEPT ![requests[r].field] = r]
  /\ written' = written \cup {r}

Document(c) ==
  IF job[c].command = "CREATE" THEN {NewRequest(f) : f \in Fields}
  ELSE {[requests[job[c].request] EXCEPT !.status = Outcome[job[c].command]]}

Mark(c) == \E doc \in Document(c) : requests' = [requests EXCEPT ![job[c].request] = doc]

Announce(c) == announced' = announced \cup {<<job[c].request, Outcome[job[c].command]>>}

\* Mutant: no EMPLOYEE_UPDATED for a request.
Unpublished(c) == pending' = pending

PublishUpdate(c) ==
  pending' = IF job[c].command = "APPROVE" THEN Append(pending, job[c].request) ELSE pending

-------------------------------------------------------------------------------
(* With transactions: the documents stay locked until the commit, and a     *)
(* second writer of one of them is refused with a write conflict.           *)

InTransaction(c) == transactions /\ job[c].step \in {"lock", "notify", "commit"}

Conflict(c) ==
  \E d \in Callers \ {c} :
    /\ InTransaction(d)
    /\ \/ job[d].request = job[c].request
       \/ job[d].command = "APPROVE" /\ job[c].command = "APPROVE"

AfterMark(c) ==
  CASE job[c].command = "APPROVE" -> "lock"
    [] job[c].command = "REJECT" -> "notify"
    [] OTHER -> IF transactions THEN "commit" ELSE "announce"

Open(c) ==
  /\ transactions
  /\ At(c, "write")
  /\ IF Conflict(c) THEN Finish(c) ELSE Go(c, AfterMark(c))
  /\ UNCHANGED <<transactions, requests, ProfileVars, OutsideVars, EventVars, handled, HistoryVars>>

WritesProfile(c) == InTransaction(c) /\ job[c].command = "APPROVE"

\* The record is composed outside the session, so the read model gets it as it
\* was before the transaction.
Commit(c) ==
  LET r == job[c].request IN
  /\ At(c, "commit")
  /\ IF job[c].command = "APPROVE"
       THEN Apply(r) /\ projected' = values
       ELSE UNCHANGED <<values, projected, written>>
  /\ Mark(c)
  /\ Announce(c)
  /\ PublishUpdate(c)
  /\ Finish(c)
  /\ UNCHANGED <<transactions, stage, views, OutsideVars, handled, disturbed, reordered,
                 overtaken>>

-------------------------------------------------------------------------------
(* Without transactions. *)

WriteProfile(c) ==
  /\ ~transactions
  /\ At(c, "write") /\ job[c].command = "APPROVE"
  /\ Apply(job[c].request)
  /\ Go(c, "compose")
  /\ UNCHANGED <<transactions, requests, stage, projected, views, OutsideVars, EventVars, handled,
                 disturbed, reordered, overtaken>>

Compose(c) ==
  /\ At(c, "compose")
  /\ job' = [job EXCEPT ![c].step = "project", ![c].view = values]
  /\ UNCHANGED <<transactions, requests, ProfileVars, OutsideVars, EventVars, handled,
                 HistoryVars>>

Project(c) ==
  /\ At(c, "project")
  /\ projected' = job[c].view
  /\ job' = [job EXCEPT ![c].step = "mark", ![c].view = None]
  /\ UNCHANGED <<transactions, requests, stage, values, views, OutsideVars, EventVars, handled,
                 HistoryVars>>

\* Mutant: the request is marked whatever became of the profile.
MarkFirst(c) ==
  /\ ~transactions
  /\ job[c].step \in {"write", "mark"}
  /\ Mark(c)
  /\ Go(c, AfterMark(c))
  /\ UNCHANGED <<transactions, ProfileVars, OutsideVars, EventVars, handled, HistoryVars>>

WriteRequest(c) ==
  /\ ~transactions
  /\ IF job[c].command = "APPROVE" THEN At(c, "mark") ELSE At(c, "write")
  /\ Mark(c)
  /\ Go(c, AfterMark(c))
  /\ UNCHANGED <<transactions, ProfileVars, OutsideVars, EventVars, handled, HistoryVars>>

\* CHANGE_REQUEST_* goes to the outbox, then EMPLOYEE_UPDATED.
WriteEvent(c) ==
  /\ At(c, "announce")
  /\ Announce(c)
  /\ IF job[c].command = "APPROVE" THEN Go(c, "publish") ELSE Finish(c)
  /\ UNCHANGED <<transactions, requests, ProfileVars, OutsideVars, pending, handled, HistoryVars>>

WriteUpdated(c) ==
  /\ At(c, "publish")
  /\ PublishUpdate(c)
  /\ Finish(c)
  /\ UNCHANGED <<transactions, requests, ProfileVars, OutsideVars, announced, handled, HistoryVars>>

-------------------------------------------------------------------------------
(* Both ways. *)

\* An error while locking is logged and forgotten.
LockAttachments(c) ==
  /\ At(c, "lock")
  /\ locked' \in {locked, locked \cup {job[c].request}}
  /\ Go(c, "notify")
  /\ UNCHANGED <<transactions, requests, ProfileVars, notices, EventVars, handled, HistoryVars>>

Notify(c) ==
  /\ At(c, "notify")
  /\ notices' = [notices EXCEPT ![job[c].request] = @ \cup {Outcome[job[c].command]}]
  /\ Go(c, IF transactions THEN "commit" ELSE "announce")
  /\ UNCHANGED <<transactions, requests, ProfileVars, locked, EventVars, handled, HistoryVars>>

\* The process stops or the database raises; an open transaction is undone.
CutOff(c) ==
  /\ InTransaction(c) \/ job[c].step \in {"compose", "project", "mark", "lock", "notify", "announce", "publish"}
  /\ disturbed' = disturbed \cup {job[c].request}
  /\ Finish(c)
  /\ UNCHANGED <<transactions, requests, ProfileVars, OutsideVars, EventVars, handled, written,
                 reordered, overtaken>>

\* What a transaction has written in the profile, the extension or its read
\* model, nobody else writes before it ends.
Free == \A c \in Callers : ~WritesProfile(c)

\* The profile moves on: persist_transition, whose refresh comes after it.
MoveStage(s) ==
  /\ s \in Stages[stage]
  /\ Free
  /\ stage' = s
  /\ UNCHANGED <<transactions, requests, values, projected, views, OutsideVars, EventVars, job,
                 handled, HistoryVars>>

\* A refresh of the read model, after a transition or for a GET, reads the
\* profile and its extension.
StartRefresh ==
  /\ Cardinality(views \cup {values}) <= MaxViews
  /\ views' = views \cup {values}
  /\ UNCHANGED <<transactions, requests, stage, values, projected, OutsideVars, EventVars, job,
                 handled, HistoryVars>>

\* It writes what it composed; another may have composed the same.
WriteRefresh(view) ==
  /\ view \in views
  /\ Free
  /\ projected' = view
  /\ views' \in {views, views \ {view}}
  /\ UNCHANGED <<transactions, requests, stage, values, OutsideVars, EventVars, job, handled,
                 HistoryVars>>

\* The dispatcher patches the top level of the read model; a retried event
\* comes late.
Deliver(i) ==
  /\ i \in DOMAIN pending
  /\ Free
  /\ projected' = [projected EXCEPT ![requests[pending[i]].field] = pending[i]]
  /\ pending' = SubSeq(pending, 1, i - 1) \o SubSeq(pending, i + 1, Len(pending))
  /\ reordered' = (reordered \/ i > 1)
  /\ overtaken' = (overtaken \/ \E view \in views :
                                  view[requests[pending[i]].field] # pending[i])
  /\ UNCHANGED <<transactions, requests, stage, values, views, OutsideVars, announced, job, handled,
                 written, disturbed>>

Handle(c) ==
  \/ \E command \in DOMAIN Outcome, r \in Requests : Begin(c, command, r)
  \/ Check(c) \/ Open(c) \/ Commit(c)
  \/ WriteProfile(c) \/ Compose(c) \/ Project(c) \/ WriteRequest(c) \/ WriteEvent(c)
  \/ WriteUpdated(c)
  \/ LockAttachments(c) \/ Notify(c) \/ CutOff(c)

Next ==
  \/ \E c \in Callers : Handle(c)
  \/ \E s \in DOMAIN Stages : MoveStage(s)
  \/ StartRefresh
  \/ \E view \in views : WriteRefresh(view)
  \/ \E i \in DOMAIN pending : Deliver(i)

Spec == Init /\ [][Next]_vars

-------------------------------------------------------------------------------
(* Properties. *)

RequestStatuses == {"PENDING", "CANCELLED", "APPLIED", "REJECTED"}

Values == [Fields -> Requests \cup {None, Old}]

\* Type invariant.
TypeOK ==
  /\ transactions \in BOOLEAN
  /\ requests \in [Requests -> [status : RequestStatuses, field : Fields] \cup {Absent}]
  /\ stage \in DOMAIN Stages
  /\ values \in Values /\ projected \in Values /\ views \subseteq Values
  /\ locked \subseteq Requests
  /\ notices \in [Requests -> SUBSET {"APPLIED", "REJECTED"}]
  /\ announced \subseteq Requests \X RequestStatuses
  /\ pending \in Seq(Requests)
  /\ \A c \in Callers : job[c] = Idle \/ job[c].request \in Requests
  /\ \A c \in Callers : At(c, "project") => job[c].view \in Values
  /\ handled \in 0..MaxCommands
  /\ written \cup disturbed \subseteq Requests
  /\ reordered \in BOOLEAN /\ overtaken \in BOOLEAN

AtRest(r) == \A c \in Callers : job[c].request # r

StatusOf(r) == IF requests[r] = Absent THEN Absent ELSE requests[r].status

\* A request that is APPLIED has its value in the profile, whoever else was at
\* work and wherever it was cut off.  When nothing disturbed it, its outcome,
\* the profile, the notice to the employee, the lock on its attachments and
\* its events say the same.
OutcomeAgrees ==
  \A r \in Requests :
    /\ StatusOf(r) = "APPLIED" => r \in written
    /\ AtRest(r) /\ r \notin disturbed =>
         /\ r \in written <=> StatusOf(r) = "APPLIED"
         /\ notices[r] = {StatusOf(r)} \cap {"APPLIED", "REJECTED"}
         /\ r \in locked => StatusOf(r) = "APPLIED"
         /\ StatusOf(r) # Absent =>
              {s \in RequestStatuses : <<r, s>> \in announced} = {"PENDING", StatusOf(r)}

\* With transactions the read model is overwritten with the record from before
\* the transaction, and with whatever a refresh has composed; it shows what was
\* applied once the events are delivered, unless one overtook another or came
\* between the read and the write of a refresh that had not seen its update.
ProjectionCatchesUp ==
  transactions /\ pending = <<>> /\ ~reordered /\ ~overtaken => projected = values

\* A locked profile is read-only.
LockedIsReadOnly == [][stage = "LOCKED" => values' = values]_vars
===============================================================================
