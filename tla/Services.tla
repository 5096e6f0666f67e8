-------------------------------- MODULE Services --------------------------------
(***************************************************************************)
(* The components that share no state with one another, side by side: the  *)
(* initial state chooses the component that runs, and the others stay as   *)
(* they are.                                                               *)
(***************************************************************************)
EXTENDS Naturals, Sequences, FiniteSets

CONSTANTS
  None, Absent, Keep, Old,   \* no value, no document, a field left out, the value before
  Callers,                   \* requests that are handled at the same time
  Bounds,                    \* bound on the requests of each component
  Tasks, Clerks,             \* tasks and who they are assigned to
  Lists, Rankings, Officers, \* seniority lists, orders of the employees, who decides
  Requests, Fields,          \* change requests and the fields they are about
  FirstStages,               \* stages the profile may be in at first
  Papers, Drafts, KeyOrder,  \* an opening's documents, drafts and keys
  Signers,                   \* in the order they have to sign
  People, Roles, HeadRole,   \* accounts and the authorities they may hold
  Names, PayNames, BookParts, PayPart, RequestKeys, MaxEvents, MaxAttempts, \* the book's events
  Offices, Employees, OfficeCallers \* departments, their employees and requests

VARIABLES
  component,   \* the component that runs
  tasks, history, taskJob, taskHandled, taskDisturbed,
  lists, listJob, listHandled, listOverlapped,
  identity, extension, readModel, emitted, audited, announced, profileJob, profileHandled,
  profileCut, misread,
  transactions, requests, stage, values, projected, views, locked, notices, requestEvents, pending,
  requestJob, requestHandled, written, requestDisturbed, reordered, overtaken,
  opening, entries, openingJob, openingHandled, openingDisturbed,
  request, stored, sealed, copied, signJob, signHandled, answered, signOverlapped, signCut,
  undone,
  users, sessions, tokens, accountJob, accountHandled, accountDisturbed, revived,
  bookTransactions, ledger, payJob, outbox, current, bookEntries, parts, retried, payCut,
  indexed, rows, changeLog, masterJob, masterHandled, acknowledged, unfinished, masterOverlapped,
  departments, accounts, inactive, departmentJob, departmentHandled, named, missing,
  departmentDisturbed

WorkflowVars == <<tasks, history, taskJob, taskHandled, taskDisturbed>>
SeniorityVars == <<lists, listJob, listHandled, listOverlapped>>
ProfileVars == <<identity, extension, readModel, emitted, audited, announced, profileJob,
                 profileHandled, profileCut, misread>>
RequestVars == <<transactions, requests, stage, values, projected, views, locked, notices,
                 requestEvents, pending, requestJob, requestHandled, written, requestDisturbed,
                 reordered, overtaken>>
OpeningVars == <<opening, entries, openingJob, openingHandled, openingDisturbed>>
SignVars ==
  <<request, stored, sealed, copied, signJob, signHandled, answered, signOverlapped, signCut,
    undone>>
AccountVars == <<users, sessions, tokens, accountJob, accountHandled, accountDisturbed, revived>>
ReadVars == <<bookTransactions, ledger, payJob, outbox, current, bookEntries, parts, retried,
              payCut>>
MasterVars == <<indexed, rows, changeLog, masterJob, masterHandled, acknowledged, unfinished,
                masterOverlapped>>
DepartmentVars == <<departments, accounts, inactive, departmentJob, departmentHandled, named,
                    missing, departmentDisturbed>>

Workflow == INSTANCE WorkflowTasks
  WITH Users <- Clerks, MaxCommands <- Bounds.workflow,
       job <- taskJob, handled <- taskHandled, disturbed <- taskDisturbed

Seniority == INSTANCE SeniorityLists
  WITH Users <- Officers, MaxCommands <- Bounds.seniority,
       job <- listJob, handled <- listHandled, overlapped <- listOverlapped

Profile == INSTANCE EmployeeProfile
  WITH Users <- Officers, MaxCommands <- Bounds.profile,
       job <- profileJob, handled <- profileHandled, cut <- profileCut

Change == INSTANCE ChangeRequests
  WITH MaxCommands <- Bounds.change, MaxViews <- Bounds.views,
       announced <- requestEvents, job <- requestJob, handled <- requestHandled,
       disturbed <- requestDisturbed

Book == INSTANCE Opening
  WITH Documents <- Papers, MaxCommands <- Bounds.opening,
       job <- openingJob, handled <- openingHandled, disturbed <- openingDisturbed

Signature == INSTANCE Signatures
  WITH MaxCommands <- Bounds.signatures,
       job <- signJob, handled <- signHandled, overlapped <- signOverlapped, cut <- signCut

Account == INSTANCE Accounts
  WITH Users <- People, MaxCommands <- Bounds.accounts,
       job <- accountJob, handled <- accountHandled, disturbed <- accountDisturbed

ReadSide == INSTANCE ServiceBookReadSide
  WITH Parts <- BookParts, NoPart <- None, transactions <- bookTransactions, job <- payJob,
       entries <- bookEntries, cut <- payCut

Master == INSTANCE MasterVersions
  WITH MaxCommands <- Bounds.masters,
       log <- changeLog, job <- masterJob, handled <- masterHandled, answered <- acknowledged,
       overlapped <- masterOverlapped

Department == INSTANCE Departments
  WITH Departments <- Offices, Callers <- OfficeCallers, MaxCommands <- Bounds.departments,
       job <- departmentJob, handled <- departmentHandled, disturbed <- departmentDisturbed

\* The values that stand for nobody and nothing are not among the rest.
ASSUME NoneAssumption ==
  None \notin Clerks \cup Tasks \cup Officers \cup Lists \cup Seniority!Commands \cup Seniority!Types
ASSUME AbsentAssumption == Absent \notin Workflow!Task /\ Absent \notin Seniority!List
ASSUME BoundsAssumption ==
  Bounds \in [workflow : Nat, seniority : Nat, profile : Nat, change : Nat, opening : Nat,
              signatures : Nat, accounts : Nat, masters : Nat, departments : Nat, views : Nat]

\* validate_signers: nobody signs twice.
ASSUME SignersAssumption ==
  /\ Signers \in Seq(Signature!ToSet(Signers))
  /\ \A i, k \in DOMAIN Signers : Signers[i] = Signers[k] => i = k
  /\ None \notin Signature!ToSet(Signers)
  /\ Absent \notin Signature!Request

\* A pay request announces an event of its own, and an event is published at
\* least once.
ASSUME BookAssumption ==
  /\ PayNames \subseteq Names /\ PayPart \in BookParts
  /\ MaxEvents \in Nat /\ MaxAttempts \in Nat \ {0}
  /\ None \notin 1..MaxEvents /\ None \notin RequestKeys

\* Nobody is an officer, and no value of a field stands for an empty one.
ASSUME ProfileAssumption ==
  /\ None \notin Officers /\ None \notin BOOLEAN
  /\ None \notin Profile!Statuses \cup Profile!IdentityStatuses
  /\ Absent \notin Profile!Identity /\ Absent \notin Profile!Extension /\ Absent \notin Profile!ReadModel

\* What department management hands on is not an authority of the others, and
\* a field that is left alone is none of its values.
ASSUME AccountsAssumption ==
  /\ HeadRole \notin Roles
  /\ (\A a \in SUBSET Account!Authorities : a # None) /\ None \notin BOOLEAN
  /\ Absent \notin [active : BOOLEAN, roles : SUBSET Account!Authorities, version : Nat]

\* The profile and its extension have these fields and stages, and no request
\* is nobody's.
ASSUME ChangeAssumption ==
  /\ Fields \subseteq Change!FieldNames /\ FirstStages \subseteq DOMAIN Change!Stages
  /\ None \notin Requests \cup DOMAIN Change!Outcome
  /\ Absent \notin Change!RequestStatuses
  /\ Absent \notin [status : Change!RequestStatuses, field : Fields]

\* Part I and the summary are projected of every opening.
ASSUME OpeningAssumption ==
  /\ KeyOrder \in Seq(Book!Keys) /\ "summary" \in Book!Keys
  /\ \A d \in Drafts : "summary" \in d.keys
  /\ Absent \notin [status : Book!Statuses, parts : Book!Parts, documents : SUBSET Papers]

\* No department is called nobody, and an account that holds nothing yet is an
\* account.
ASSUME OfficesAssumption ==
  /\ None \notin Employees \cup Offices
  /\ Absent \notin Department!Holders
  /\ Absent \notin [authorities : SUBSET Department!Authorities, department : Offices \cup {None}]

Init ==
  /\ component \in {"workflow", "seniority", "profile", "change", "opening", "signatures",
                   "accounts", "read_side", "masters", "departments"}
  /\ Workflow!Init /\ Seniority!Init /\ Profile!Init /\ Change!Init /\ Book!Init
  /\ Signature!Init /\ Account!Init /\ ReadSide!Init /\ Master!Init /\ Department!Init

Next ==
  /\ UNCHANGED component
  /\ \/ /\ component = "workflow" /\ Workflow!Next
        /\ UNCHANGED <<SeniorityVars, ProfileVars, RequestVars, OpeningVars, SignVars,
                        AccountVars, ReadVars, MasterVars, DepartmentVars>>
     \/ /\ component = "seniority" /\ Seniority!Next
        /\ UNCHANGED <<WorkflowVars, ProfileVars, RequestVars, OpeningVars, SignVars,
                        AccountVars, ReadVars, MasterVars, DepartmentVars>>
     \/ /\ component = "profile" /\ Profile!Next
        /\ UNCHANGED <<WorkflowVars, SeniorityVars, RequestVars, OpeningVars, SignVars,
                        AccountVars, ReadVars, MasterVars, DepartmentVars>>
     \/ /\ component = "change" /\ Change!Next
        /\ UNCHANGED <<WorkflowVars, SeniorityVars, ProfileVars, OpeningVars, SignVars,
                        AccountVars, ReadVars, MasterVars, DepartmentVars>>
     \/ /\ component = "opening" /\ Book!Next
        /\ UNCHANGED <<WorkflowVars, SeniorityVars, ProfileVars, RequestVars, SignVars,
                        AccountVars, ReadVars, MasterVars, DepartmentVars>>
     \/ /\ component = "signatures" /\ Signature!Next
        /\ UNCHANGED <<WorkflowVars, SeniorityVars, ProfileVars, RequestVars, OpeningVars,
                        AccountVars, ReadVars, MasterVars, DepartmentVars>>
     \/ /\ component = "accounts" /\ Account!Next
        /\ UNCHANGED <<WorkflowVars, SeniorityVars, ProfileVars, RequestVars, OpeningVars,
                        SignVars, ReadVars, MasterVars, DepartmentVars>>
     \/ /\ component = "read_side" /\ ReadSide!Next
        /\ UNCHANGED <<WorkflowVars, SeniorityVars, ProfileVars, RequestVars, OpeningVars,
                        SignVars, AccountVars, MasterVars, DepartmentVars>>
     \/ /\ component = "masters" /\ Master!Next
        /\ UNCHANGED <<WorkflowVars, SeniorityVars, ProfileVars, RequestVars, OpeningVars,
                        SignVars, AccountVars, ReadVars, DepartmentVars>>
     \/ /\ component = "departments" /\ Department!Next
        /\ UNCHANGED <<WorkflowVars, SeniorityVars, ProfileVars, RequestVars, OpeningVars,
                        SignVars, AccountVars, ReadVars, MasterVars>>

vars == <<component, WorkflowVars, SeniorityVars, ProfileVars, RequestVars, OpeningVars, SignVars,
          AccountVars, ReadVars, MasterVars, DepartmentVars>>

Spec == Init /\ [][Next]_vars

-------------------------------------------------------------------------------
(* Properties. *)

\* What stays as it is needs no check again: each property is about the
\* component that runs.
Running(name, property) == component = name => property

TypeOK ==
  /\ Running("workflow", Workflow!TypeOK)
  /\ Running("seniority", Seniority!TypeOK)
  /\ Running("profile", Profile!TypeOK)
  /\ Running("change", Change!TypeOK)
  /\ Running("opening", Book!TypeOK)
  /\ Running("signatures", Signature!TypeOK)
  /\ Running("accounts", Account!TypeOK)
  /\ Running("read_side", ReadSide!TypeOK)
  /\ Running("masters", Master!TypeOK)
  /\ Running("departments", Department!TypeOK)
HistoryExplains == Running("workflow", Workflow!HistoryExplains)
DutiesSeparated ==
  /\ Running("seniority", Seniority!DutiesSeparated /\ Seniority!FinalIsApproved)
  /\ Running("profile", Profile!ApprovedByThird)
DecisionsKnown == Running("profile", Profile!ReviewedIsReady /\ Profile!DecisionsKnown)
OutcomeAgrees == Running("change", Change!OutcomeAgrees)
ProjectionsCatchUp ==
  /\ Running("change", Change!ProjectionCatchesUp)
  /\ Running("opening", Book!OpeningProjected)
SignedMeansSealed == Running("signatures", Signature!SignedMeansSealed)
AuthoritiesAgree == Running("accounts", Account!OneHolder /\ Account!TokensCurrent)
BookFollows == Running("read_side", ReadSide!BookFollows)
VersionsInLine == Running("masters", Master!VersionsInLine)
HeldAsNamed == Running("departments", Department!HeldAsNamed)
===============================================================================
