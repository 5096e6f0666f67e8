---------------------------- MODULE EmployeeProfile ----------------------------
(***************************************************************************)
(* One employee's record in contexts/employee_master: the identity and its *)
(* workflow, the profile extension and its own, and the read model that is *)
(* composed from both and that every profile request decides from.  The    *)
(* requests on the record come one after another; the dispatcher delivers  *)
(* the identity's events to the read model between any two of their        *)
(* database calls, late, again and out of order, and a request may be cut  *)
(* off after any of its writes.  Identities are written in transactions.   *)
(***************************************************************************)
EXTENDS Naturals

CONSTANTS
  Users,       \* officers and the employee; one may hold several authorities
  None,        \* a field that is not there, nobody
  Absent,      \* there is no document
  MaxCommands  \* bound on the requests that change the record

VARIABLES
  identity,    \* employee_identities
  extension,   \* employee_profile_extensions
  readModel,   \* employee_profile_read_models
  emitted,     \* events of the identity that may still be delivered, or again
  audited,     \* the status the newest audit record says was reached
  announced,   \* the status the newest event of the profile says
  job,         \* the request that is at work
  handled,     \* requests so far
  cut,         \* history: a request was cut off
  misread      \* history: a request decided from an outdated read model

vars == <<identity, extension, readModel, emitted, audited, announced, job, handled,
          cut, misread>>

IdentityVars == <<identity, emitted>>
HistoryVars == <<cut, misread>>

Idle == [step |-> "idle", command |-> None, actor |-> None, completed |-> None, status |-> None]

CreatedEvent(name, status) == [name |-> name, identity_status |-> status]

ProfileStatus == IF extension = Absent \/ extension.status = None THEN "DRAFT" ELSE extension.status

Reviewed(status, verifiedBy, approvedBy) ==
  [status |-> status, created_by |-> None, verified_by |-> verifiedBy,
   approved_by |-> approvedBy, completed |-> TRUE]

\* Nothing yet; or an identity just activated, with the events of its
\* creation and of its activation; or its profile rejected after it was
\* verified once, or approved.
Init ==
  /\ \/ identity = Absent /\ emitted = {} /\ extension = Absent
     \/ \E u, v, w \in Users :
          /\ v # u /\ w \notin {u, v}
          /\ identity = [status |-> "ACTIVE", created_by |-> u, verified_by |-> v,
                         activated_by |-> w]
          /\ emitted = {CreatedEvent("IDENTITY_CREATED", "DRAFT"),
                        CreatedEvent("CREATED", "DRAFT"), CreatedEvent("CREATED", "ACTIVE")}
          /\ extension \in {Absent, Reviewed("REJECTED", v, None), Reviewed("REJECTED", w, None),
                           Reviewed("APPROVED", v, w)}
  /\ readModel = Absent
  /\ audited = ProfileStatus /\ announced = ProfileStatus
  /\ job = Idle
  /\ handled = 0
  /\ cut = FALSE /\ misread = FALSE

Accept ==
  /\ job = Idle
  /\ handled < MaxCommands
  /\ handled' = handled + 1

-------------------------------------------------------------------------------
(* The identity.  Each request is one transaction with its events. *)

CreateIdentity(u) ==
  /\ Accept
  /\ identity = Absent
  /\ identity' = [status |-> "DRAFT", created_by |-> u, verified_by |-> None,
                  activated_by |-> None]
  /\ emitted' = emitted \cup {CreatedEvent("IDENTITY_CREATED", "DRAFT"),
                              CreatedEvent("CREATED", "DRAFT")}
  /\ UNCHANGED <<extension, readModel, audited, announced, job, HistoryVars>>

\* The next status of the identity, and who may take it there.
IdentityMove(command, u) ==
  CASE command = "SUBMIT" -> [from |-> {"DRAFT", "REJECTED"}, to |-> "SUBMITTED", not |-> {}]
    [] command = "VERIFY" -> [from |-> {"SUBMITTED"}, to |-> "VERIFIED",
                              not |-> {identity.created_by}]
    [] command = "ACTIVATE" -> [from |-> {"VERIFIED"}, to |-> "ACTIVE",
                                not |-> {identity.created_by, identity.verified_by}]
    [] command = "REJECT" -> [from |-> {"SUBMITTED", "VERIFIED"}, to |-> "REJECTED", not |-> {}]

\* transition_workflow: activation publishes EMPLOYEE_CREATED once more.
TransitionIdentity(command, u) ==
  /\ Accept
  /\ identity # Absent
  /\ LET move == IdentityMove(command, u) IN
     /\ identity.status \in move.from
     /\ u \notin move.not
     /\ identity' = [identity EXCEPT !.status = move.to,
                       !.verified_by = IF move.to = "VERIFIED" THEN u ELSE @,
                       !.activated_by = IF move.to = "ACTIVE" THEN u ELSE @]
     /\ emitted' = IF move.to = "ACTIVE" THEN emitted \cup {CreatedEvent("CREATED", "ACTIVE")}
                                         ELSE emitted
  /\ UNCHANGED <<extension, readModel, audited, announced, job, HistoryVars>>

\* update_identity: a patch of other fields, in any status.
UpdateIdentity ==
  /\ Accept
  /\ identity # Absent
  /\ emitted' = emitted \cup {CreatedEvent("UPDATED", None)}
  /\ UNCHANGED <<identity, extension, readModel, audited, announced, job, HistoryVars>>

-------------------------------------------------------------------------------
(* The read model. *)

NoFields == [status |-> None, identity_status |-> None, created_by |-> None,
             verified_by |-> None, completed |-> None]

\* The document a $set with upsert works on.
Row == IF readModel = Absent THEN NoFields ELSE readModel

CreatedBy == IF extension = Absent \/ extension.created_by = None
               THEN identity.created_by ELSE extension.created_by

\* The composed record shows the identity's own where the extension has none.
VerifiedBy == IF extension = Absent \/ extension.verified_by = None
                THEN identity.verified_by ELSE extension.verified_by

\* _refresh_profile_projection, read and written in one step here; what the
\* composed record lacks stays as it is.
Refreshed ==
  [status |-> ProfileStatus,
   identity_status |-> identity.status,
   created_by |-> CreatedBy,
   verified_by |-> IF VerifiedBy = None THEN Row.verified_by ELSE VerifiedBy,
   completed |-> IF extension = Absent \/ extension.completed = None
                  THEN Row.completed ELSE extension.completed]

\* project_employee_created and project_employee_identity_created overwrite
\* the status of the profile; a patch touches none of these fields.
Deliver(e) ==
  /\ e \in emitted
  /\ readModel' = IF e.name = "UPDATED" THEN Row
                  ELSE [Row EXCEPT !.status = "DRAFT",
                                   !.identity_status = e.identity_status,
                                   !.created_by = identity.created_by]
  /\ UNCHANGED <<identity, extension, emitted, audited, announced, job, handled, HistoryVars>>

\* A list or a view refreshes it, and removes it while the identity is rejected.
ReadProfile ==
  /\ identity # Absent
  /\ readModel' = IF identity.status = "REJECTED" THEN Absent ELSE Refreshed
  /\ UNCHANGED <<identity, extension, emitted, audited, announced, job, handled, HistoryVars>>

-------------------------------------------------------------------------------
(* A request on the profile. *)

ProfileCommands == {"UPDATE", "SUBMIT", "VERIFY", "APPROVE", "LOCK", "REJECT", "DELETE"}

Workflow ==
  [SUBMIT |-> "SUBMITTED", VERIFY |-> "VERIFIED", APPROVE |-> "APPROVED",
   LOCK |-> "LOCKED", REJECT |-> "REJECTED"]

At(step) == job.step = step

Go(step) == job' = [job EXCEPT !.step = step]

\* get_employee_record: the projection is refreshed, and then read back.
Begin ==
  /\ job = Idle
  /\ identity # Absent
  /\ readModel' = Refreshed
  /\ job' = [Idle EXCEPT !.step = "find"]
  /\ UNCHANGED <<IdentityVars, extension, audited, announced, handled, HistoryVars>>

\* The transition rules, the rules of the update and of the deletion, on the
\* record p that was read.
Allowed(p, u) ==
  [UPDATE |-> p.status \in {"DRAFT", "REJECTED", "APPROVED"},
   SUBMIT |-> /\ p.status \in {"DRAFT", "REJECTED"} /\ p.completed = TRUE
              /\ p.identity_status \in {None, "ACTIVE"},
   VERIFY |-> p.status = "SUBMITTED" /\ u # p.created_by,
   APPROVE |-> p.status = "VERIFIED" /\ u \notin {p.created_by, p.verified_by},
   LOCK |-> p.status = "APPROVED",
   REJECT |-> p.status \in {"SUBMITTED", "VERIFIED"},
   DELETE |-> p.status = "DRAFT" /\ u = p.created_by]

\* What get_profile returns: the row, or the composed record without one.
Found ==
  LET row == IF readModel = Absent THEN Refreshed ELSE readModel
  IN  [row EXCEPT !.status = IF @ = None THEN "DRAFT" ELSE @]

\* Which request it is shows when it decides.
Decide(command, u, completed) ==
  /\ At("find")
  /\ handled < MaxCommands
  /\ Allowed(Found, u)[command]
  /\ misread' = (misread \/ Found.status # ProfileStatus)
  /\ job' = [step |-> "write", command |-> command, actor |-> u, completed |-> completed,
             status |-> Found.status]
  /\ handled' = handled + 1
  /\ UNCHANGED <<IdentityVars, extension, readModel, audited, announced, cut>>

Refuse ==
  /\ At("find")
  /\ job' = Idle
  /\ UNCHANGED <<IdentityVars, extension, readModel, audited, announced, handled, HistoryVars>>

NewExtension(createdBy) ==
  [status |-> None, created_by |-> createdBy, verified_by |-> None, approved_by |-> None,
   completed |-> None]

\* update_profile: an upsert that names no creator.
WriteUpdate ==
  /\ At("write") /\ job.command = "UPDATE"
  /\ extension' = [(IF extension = Absent THEN NewExtension(None) ELSE extension)
                     EXCEPT !.completed = job.completed]
  /\ Go("project")
  /\ UNCHANGED <<IdentityVars, readModel, audited, announced, handled, HistoryVars>>

\* persist_transition: an upsert that does.
WriteTransition ==
  /\ At("write") /\ job.command \in DOMAIN Workflow
  /\ extension' = [(IF extension = Absent THEN NewExtension(job.actor) ELSE extension)
                     EXCEPT !.status = Workflow[job.command],
                            !.verified_by = IF job.command = "VERIFY" THEN job.actor ELSE @,
                            !.approved_by = IF job.command = "APPROVE" THEN job.actor ELSE @]
  /\ Go("project")
  /\ UNCHANGED <<IdentityVars, readModel, audited, announced, handled, HistoryVars>>

Project ==
  /\ At("project")
  /\ readModel' = Refreshed
  /\ Go("audit")
  /\ UNCHANGED <<IdentityVars, extension, audited, announced, handled, HistoryVars>>

\* archive_and_delete_profile
DeleteExtension ==
  /\ At("write") /\ job.command = "DELETE"
  /\ extension' = Absent
  /\ Go("forget")
  /\ UNCHANGED <<IdentityVars, readModel, audited, announced, handled, HistoryVars>>

DeleteReadModel ==
  /\ At("forget")
  /\ readModel' = Absent
  /\ Go("audit")
  /\ UNCHANGED <<IdentityVars, extension, audited, announced, handled, HistoryVars>>

\* Mutant: the status after is the status that was read.
ReachedBefore == job.status

\* The status an audit record and an event name; a deletion names none.
Reached ==
  CASE job.command \in DOMAIN Workflow -> Workflow[job.command]
    [] job.command = "UPDATE" -> job.status
    [] job.command = "DELETE" -> audited

\* write_workflow_audit; an update and a deletion end with it.
Audit ==
  /\ At("audit")
  /\ audited' = Reached
  /\ IF job.command \in DOMAIN Workflow THEN Go("publish") ELSE job' = Idle
  /\ UNCHANGED <<IdentityVars, extension, readModel, announced, handled, HistoryVars>>

\* publish_submitted and its siblings: the event goes to the outbox.
Publish ==
  /\ At("publish")
  /\ announced' = Reached
  /\ job' = Idle
  /\ UNCHANGED <<IdentityVars, extension, readModel, audited, handled, HistoryVars>>

\* The process stops, or the database raises, after the first write.
CutOff ==
  /\ job.step \in {"project", "forget", "audit", "publish"}
  /\ job' = Idle
  /\ cut' = TRUE
  /\ UNCHANGED <<IdentityVars, extension, readModel, audited, announced, handled, misread>>

Next ==
  \/ \E u \in Users : CreateIdentity(u)
  \/ \E u \in Users, command \in {"SUBMIT", "VERIFY", "ACTIVATE", "REJECT"} :
       TransitionIdentity(command, u)
  \/ UpdateIdentity
  \/ \E e \in emitted : Deliver(e)
  \/ ReadProfile
  \/ Begin \/ Refuse
  \/ \E command \in ProfileCommands, u \in Users, completed \in BOOLEAN :
       (command # "UPDATE" => ~completed) /\ Decide(command, u, completed)
  \/ WriteUpdate \/ WriteTransition \/ DeleteExtension \/ DeleteReadModel
  \/ Project \/ Audit \/ Publish
  \/ CutOff

Spec == Init /\ [][Next]_vars

-------------------------------------------------------------------------------
(* Properties. *)

Statuses == {"DRAFT", "SUBMITTED", "VERIFIED", "APPROVED", "LOCKED", "REJECTED"}
IdentityStatuses == {"DRAFT", "SUBMITTED", "VERIFIED", "ACTIVE", "REJECTED"}
Somebody == Users \cup {None}
Completed == BOOLEAN \cup {None}

Identity == [status : IdentityStatuses, created_by : Users, verified_by : Somebody,
             activated_by : Somebody]

Extension == [status : Statuses \cup {None}, created_by : Somebody, verified_by : Somebody,
              approved_by : Somebody, completed : Completed]

ReadModel == [status : Statuses \cup {None}, identity_status : IdentityStatuses \cup {None},
              created_by : Somebody, verified_by : Somebody, completed : Completed]

Steps == {"write", "project", "forget", "audit", "publish"}

Job == [step : Steps, command : ProfileCommands, actor : Users, completed : BOOLEAN,
        status : Statuses]

\* Type invariant.
TypeOK ==
  /\ identity \in Identity \cup {Absent}
  /\ extension \in Extension \cup {Absent}
  /\ readModel \in ReadModel \cup {Absent}
  /\ emitted \subseteq {CreatedEvent("IDENTITY_CREATED", "DRAFT"), CreatedEvent("CREATED", "DRAFT"),
                        CreatedEvent("CREATED", "ACTIVE"), CreatedEvent("UPDATED", None)}
  /\ audited \in Statuses /\ announced \in Statuses
  /\ job \in Job \cup {Idle, [Idle EXCEPT !.step = "find"]}
  /\ handled \in 0..MaxCommands
  /\ cut \in BOOLEAN /\ misread \in BOOLEAN

\* Whatever is delivered, replayed, cut off or done again after a rejection,
\* an approved record of a person has an approver who neither created nor
\* verified it, the identity as well as the profile.
ApprovedByThird ==
  /\ ProfileStatus \in {"APPROVED", "LOCKED"} =>
       /\ extension.approved_by \in Users \ {CreatedBy, extension.verified_by}
       /\ extension.verified_by \in Users \ {CreatedBy}
  /\ identity # Absent /\ identity.status = "ACTIVE" =>
       /\ identity.activated_by \in Users \ {identity.created_by, identity.verified_by}
       /\ identity.verified_by \in Users \ {identity.created_by}

\* A profile under review belongs to an active identity and has both of its
\* sections completed: neither an old event of the identity nor fields a
\* read model kept from a deleted profile make it look so.  Only a deletion
\* that was cut off, or a decision from a row an event had overwritten, can.
ReviewedIsReady ==
  ProfileStatus \in {"SUBMITTED", "VERIFIED"} /\ ~cut /\ ~misread =>
    identity.status = "ACTIVE" /\ extension.completed = TRUE

\* Nothing is decided silently: between requests, the newest audit record and
\* the newest event say the status the profile has.
DecisionsKnown ==
  job = Idle /\ ~cut /\ ~misread /\ ProfileStatus # "DRAFT" =>
    audited = ProfileStatus /\ announced = ProfileStatus
===============================================================================
