--------------------------------- MODULE Leave ---------------------------------
(***************************************************************************)
(* The leave of one employee, as contexts/leave_attendance handles it: the *)
(* applications, the leave account they are debited from, and the requests *)
(* that apply for, recommend, sanction, reject and cancel them.            *)
(*                                                                         *)
(* A request reads the application, the balances and the account in        *)
(* separate calls that belong to no transaction, decides, and writes the   *)
(* values it has computed.  With Transactions its writes and its event are *)
(* one step; without (a standalone mongod) each is one.  The documents     *)
(* attached to a finalised leave are locked by a write that is never part  *)
(* of the transaction.                                                     *)
(*                                                                         *)
(* Days are whole and fall into one year.  Half-pay leave pays for         *)
(* commuted leave at twice its days, and the commuted balance, a cache, is *)
(* kept in half days.  No document is kept for a second account: find_one  *)
(* and update_one take the first.                                          *)
(***************************************************************************)
EXTENDS Integers, FiniteSets

CONSTANTS
  Leaves,        \* applications
  Callers,       \* requests that are handled at the same time
  Users,         \* the employee's own account and the officers'
  Applicant,     \* the employee's account
  TypeOf,        \* leave type of an application
  DaysOf,        \* days applied for
  Clash,         \* pairs of applications whose dates overlap
  Attached,      \* applications with attachments
  Accrued,       \* earned and half-pay leave accrued by the service
  Cap,           \* days of the capped types
  ServiceStart,  \* FALSE: no service start date is known
  Seeded,        \* TRUE: the account exists from the start
  None,          \* no application, no user
  Absent,        \* there is no document
  Transactions,  \* TRUE: multi-document transactions are available
  MaxCommands,   \* bound on the requests
  MaxCrashes     \* bound on requests cut off and on locks that fail

ASSUME LeaveAssumption == IsFiniteSet(Leaves) /\ None \notin Leaves
ASSUME DaysAssumption == DaysOf \in [Leaves -> Nat]
\* Earned, half-pay and commuted leave are paid from the account; every other
\* type is capped, casual leave and leave not due among them.
ASSUME TypesAssumption ==
  /\ {"CL", "LND"} \subseteq DOMAIN Cap
  /\ {"EL", "HPL", "CML"} \cap DOMAIN Cap = {}
  /\ TypeOf \in [Leaves -> {"EL", "HPL", "CML"} \cup DOMAIN Cap]
ASSUME EntitlementAssumption ==
  Cap \in [DOMAIN Cap -> Nat] /\ Accrued \in [{"EL", "HPL"} -> Nat]
ASSUME UsersAssumption == Applicant \in Users /\ None \notin Users
ASSUME OptionsAssumption == {Transactions, Seeded, ServiceStart} \subseteq BOOLEAN
ASSUME BoundsAssumption == {MaxCommands, MaxCrashes} \subseteq Nat

VARIABLES
  leaves,    \* leave_applications
  account,   \* the employee's document in leave_ledger_entries
  locked,    \* applications whose attachments are locked
  outbox,    \* pairs <<event name, application>>
  pc,        \* what each request does next
  job,       \* its command, application and user, and what it has read
  handled,   \* requests so far
  crashes    \* faults so far

vars == <<leaves, account, locked, outbox, pc, job, handled, crashes>>

Fields == {"EL", "HPL", "CML", "LND", "CL"}

-------------------------------------------------------------------------------
(* domain/leave_rules.py and domain/leave_accounting.py *)

\* The sum of f over the leaves in S, counted one by one.
Total(f, S) == Cardinality(UNION {{l} \X (1..f[l]) : l \in S})

Granted(l) == leaves[l] # Absent /\ leaves[l].status = "SANCTIONED"

\* Days of a type that were sanctioned.
Used(type) == Total(DaysOf, {l \in Leaves : Granted(l) /\ TypeOf[l] = type})

AtLeastZero(n) == IF n > 0 THEN n ELSE 0

\* What a leave costs, and from which balance.
Source(l) == IF TypeOf[l] = "CML" THEN "HPL" ELSE TypeOf[l]
Cost(l) == IF TypeOf[l] = "CML" THEN 2 * DaysOf[l] ELSE DaysOf[l]

\* compute_leave_balances: earned and half-pay leave come from the account,
\* the other types are capped by what was sanctioned.
Available(type) ==
  IF type \in {"EL", "HPL"}
    THEN IF account # Absent
           THEN account.balance[type]
           ELSE IF ServiceStart THEN AtLeastZero(Accrued[type] - Used(type)) ELSE 0
    ELSE AtLeastZero(Cap[type] - Used(type))

InitialAccount ==
  [balance |-> [f \in Fields |-> Available(IF f = "CML" THEN "HPL" ELSE f)],
   debits |-> [l \in Leaves |-> 0]]

\* Mutant: the account is debited the days, whatever the type costs.
ClosingUncommuted(l, available, opening) ==
  CASE TypeOf[l] \in {"EL", "HPL"} -> [f \in {TypeOf[l]} |-> opening[f] - DaysOf[l]]
    [] TypeOf[l] = "CML" -> [f \in {"HPL", "CML"} |->
                               IF f = "HPL" THEN opening[f] - DaysOf[l] ELSE available - Cost(l)]
    [] OTHER -> [f \in {TypeOf[l]} |-> available - DaysOf[l]]

\* The balances a debit sets.
Closing(l, available, opening) ==
  CASE TypeOf[l] \in {"EL", "HPL"} -> [f \in {TypeOf[l]} |-> opening[f] - DaysOf[l]]
    [] TypeOf[l] = "CML" -> [f \in {"HPL", "CML"} |->
                               IF f = "HPL" THEN opening[f] - Cost(l) ELSE available - Cost(l)]
    [] OTHER -> [f \in {TypeOf[l]} |-> available - DaysOf[l]]

\* records_ledger_transaction
RecordsDebit(l) == TypeOf[l] \in Fields

\* The balances that a debit leaves alone stay as they are.
Reset(balance, closing) ==
  [f \in Fields |-> IF f \in DOMAIN closing THEN closing[f] ELSE balance[f]]

Debited(acct, l, closing) ==
  [balance |-> Reset(acct.balance, closing), debits |-> [acct.debits EXCEPT ![l] = @ + 1]]

-------------------------------------------------------------------------------
\* A request that has read its application and no balance yet.
NewJob(command, l, u, status) ==
  [command |-> command, leave |-> l, user |-> u, status |-> status,
   available |-> 0, account |-> Absent, closing |-> <<>>]

Idle == NewJob(None, None, None, None)

Init ==
  /\ leaves = [l \in Leaves |-> Absent]
  /\ account = IF Seeded
                 THEN [balance |-> [f \in Fields |->
                         CASE f \in {"EL", "HPL"} -> Accrued[f]
                           [] f = "CML" -> Accrued["HPL"]
                           [] OTHER -> Cap[f]],
                       debits |-> [l \in Leaves |-> 0]]
                 ELSE Absent
  /\ locked = {}
  /\ outbox = {}
  /\ pc = [c \in Callers |-> "idle"]
  /\ job = [c \in Callers |-> Idle]
  /\ handled = 0
  /\ crashes = 0

Begin(c, command, l, u, status, step) ==
  /\ pc[c] = "idle"
  /\ handled < MaxCommands
  /\ handled' = handled + 1
  /\ pc' = [pc EXCEPT ![c] = step]
  /\ job' = [job EXCEPT ![c] = NewJob(command, l, u, status)]
  /\ UNCHANGED <<leaves, account, locked, outbox, crashes>>

\* The request goes on to a step; what it has read is in j.
Proceed(c, step, j) ==
  /\ pc' = [pc EXCEPT ![c] = step]
  /\ job' = [job EXCEPT ![c] = j]
  /\ UNCHANGED <<leaves, account, locked, outbox, handled, crashes>>

\* The request is refused: HTTP 400.
Refuse(c) == Proceed(c, "idle", Idle)

\* The first write of a request that has decided.
Decided(l, finalises) ==
  IF ~Transactions THEN "write" ELSE IF finalises /\ l \in Attached THEN "lock" ELSE "commit"

-------------------------------------------------------------------------------
(* apply_leave, and the balance views, which open the account too *)

\* A view of the balances.
View(c) ==
  /\ ServiceStart /\ account = Absent
  /\ Begin(c, "VIEW", None, Applicant, None, "build")

Apply(c, l) ==
  /\ leaves[l] = Absent
  /\ \A d \in Callers : job[d].leave # l
  /\ Begin(c, "APPLY", l, Applicant, None,
           IF ServiceStart /\ account = Absent THEN "build" ELSE "overlap")

\* _ensure_initial_leave_account has found no account: it computes one
BuildAccount(c) ==
  /\ pc[c] = "build"
  /\ Proceed(c, "open", [job[c] EXCEPT !.account = InitialAccount])

\* and sets it, whatever is there by now.
OpenAccount(c) ==
  /\ pc[c] = "open"
  /\ account' = job[c].account
  /\ IF job[c].command = "VIEW"
       THEN pc' = [pc EXCEPT ![c] = "idle"] /\ job' = [job EXCEPT ![c] = Idle]
       ELSE pc' = [pc EXCEPT ![c] = "overlap"] /\ UNCHANGED job
  /\ UNCHANGED <<leaves, locked, outbox, handled, crashes>>

Active == {"SUBMITTED", "RECOMMENDED", "SANCTIONED"}

Overlapping(l) ==
  \E k \in Leaves : leaves[k] # Absent /\ leaves[k].status \in Active /\ <<k, l>> \in Clash

CheckOverlap(c) ==
  /\ pc[c] = "overlap"
  /\ IF Overlapping(job[c].leave) THEN Refuse(c) ELSE Proceed(c, "quota", job[c])

CheckQuota(c) ==
  /\ pc[c] = "quota"
  /\ IF Cost(job[c].leave) > Available(Source(job[c].leave))
       THEN Refuse(c)
       ELSE Proceed(c, Decided(job[c].leave, FALSE), job[c])

-------------------------------------------------------------------------------
(* recommend, reject, cancel and sanction: the status is read first *)

Recommend(c, l, u) ==
  /\ leaves[l] # Absent
  /\ leaves[l].status = "SUBMITTED" /\ u # Applicant
  /\ Begin(c, "RECOMMEND", l, u, leaves[l].status, Decided(l, FALSE))

Reject(c, l, u) ==
  /\ leaves[l] # Absent
  /\ leaves[l].status \in {"SUBMITTED", "RECOMMENDED"}
  /\ Begin(c, "REJECT", l, u, leaves[l].status, Decided(l, TRUE))

Cancel(c, l) ==
  /\ leaves[l] # Absent
  /\ leaves[l].status \in {"SUBMITTED", "RECOMMENDED"}
  /\ Begin(c, "CANCEL", l, Applicant, leaves[l].status, Decided(l, FALSE))

\* Mutant: any leave may be sanctioned as it was submitted.
SanctionableUnrecommended(l, u) ==
  leaves[l].status \in {"SUBMITTED", "RECOMMENDED"} /\ u # Applicant

\* Casual leave needs no recommendation.
Sanctionable(l, u) ==
  /\ \/ leaves[l].status = "RECOMMENDED"
     \/ leaves[l].status = "SUBMITTED" /\ TypeOf[l] = "CL"
  /\ u # Applicant

Sanction(c, l, u) ==
  /\ leaves[l] # Absent
  /\ Sanctionable(l, u)
  /\ Begin(c, "SANCTION", l, u, leaves[l].status, "balance")

ReadBalance(c) ==
  /\ pc[c] = "balance"
  /\ LET l == job[c].leave
         available == Available(Source(l))
     IN  IF Cost(l) > available
           THEN Refuse(c)
           ELSE Proceed(c, IF RecordsDebit(l) THEN "account" ELSE Decided(l, TRUE),
                        [job[c] EXCEPT !.available = available])

\* _record_leave_debit reads the account once more, or computes one.
ReadAccount(c) ==
  /\ pc[c] = "account"
  /\ LET l == job[c].leave
         opening == IF account = Absent THEN InitialAccount ELSE account
         closing == Closing(l, job[c].available, opening.balance)
     IN  IF \E f \in DOMAIN closing : closing[f] < 0
           THEN Refuse(c)
           ELSE Proceed(c, IF Transactions THEN Decided(l, TRUE) ELSE "debit",
                        [job[c] EXCEPT !.account = opening, !.closing = closing])

-------------------------------------------------------------------------------
(* The writes. *)

\* Mutant: only the balances are set.
WithDebitUnrecorded(j) ==
  IF j.command = "SANCTION" /\ RecordsDebit(j.leave)
    THEN [(IF account = Absent THEN j.account ELSE account) EXCEPT !.balance = Reset(@, j.closing)]
    ELSE account

\* Mutant: only the transaction is recorded.
WithDebitUnset(j) ==
  IF j.command = "SANCTION" /\ RecordsDebit(j.leave)
    THEN Debited(IF account = Absent THEN j.account ELSE account, j.leave, <<>>)
    ELSE account

\* A new account is inserted when none was found, then the first is updated.
WithDebit(j) ==
  IF j.command = "SANCTION" /\ RecordsDebit(j.leave)
    THEN Debited(IF account = Absent THEN j.account ELSE account, j.leave, j.closing)
    ELSE account

\* insert_leave_application and update_leave_application
Written(j) ==
  CASE j.command = "APPLY" -> [status |-> "SUBMITTED", recommended_by |-> None,
                               sanctioned_by |-> None]
    [] j.command = "RECOMMEND" -> [leaves[j.leave] EXCEPT !.status = "RECOMMENDED",
                                                          !.recommended_by = j.user]
    [] j.command = "REJECT" -> [leaves[j.leave] EXCEPT !.status = "REJECTED"]
    [] j.command = "CANCEL" -> [leaves[j.leave] EXCEPT !.status = "CANCELLED"]
    [] j.command = "SANCTION" ->
         [leaves[j.leave] EXCEPT
            !.status = "SANCTIONED",
            !.sanctioned_by = j.user,
            !.recommended_by =
              IF j.status = "SUBMITTED" /\ TypeOf[j.leave] = "CL" THEN j.user ELSE @]

\* Mutant: a cancelled leave is final, too.
FinalisesAll(j) == j.command \in {"SANCTION", "REJECT", "CANCEL"}

Finalises(j) == j.command \in {"SANCTION", "REJECT"}

\* The event of a command.
EventOf ==
  [APPLY |-> "LEAVE_APPLIED", RECOMMEND |-> "LEAVE_RECOMMENDED", SANCTION |-> "LEAVE_APPROVED",
   REJECT |-> "LEAVE_REJECTED", CANCEL |-> "LEAVE_CANCELLED"]

ASSUME NoneAssumption == None \notin DOMAIN EventOf

Done(c) ==
  /\ pc' = [pc EXCEPT ![c] = "idle"]
  /\ job' = [job EXCEPT ![c] = Idle]

Publish(c) == outbox' = outbox \cup {<<EventOf[job[c].command], job[c].leave>>}

\* One transaction for the debit, the status and the event.
Commit(c) ==
  /\ pc[c] = "commit"
  /\ account' = WithDebit(job[c])
  /\ leaves' = [leaves EXCEPT ![job[c].leave] = Written(job[c])]
  /\ Publish(c) /\ Done(c)
  /\ UNCHANGED <<locked, handled, crashes>>

\* The fallback: the debit first, then the status, and the event last.
WriteDebit(c) ==
  /\ pc[c] = "debit"
  /\ account' = WithDebit(job[c])
  /\ pc' = [pc EXCEPT ![c] = "write"]
  /\ UNCHANGED <<leaves, locked, outbox, job, handled, crashes>>

\* Mutant: an application without attachments is locked too.
WriteLeaveUnattached(c) ==
  /\ pc[c] = "write"
  /\ leaves' = [leaves EXCEPT ![job[c].leave] = Written(job[c])]
  /\ pc' = [pc EXCEPT ![c] = IF Finalises(job[c]) THEN "lock" ELSE "publish"]
  /\ UNCHANGED <<account, locked, outbox, job, handled, crashes>>

WriteLeave(c) ==
  /\ pc[c] = "write"
  /\ leaves' = [leaves EXCEPT ![job[c].leave] = Written(job[c])]
  /\ pc' = [pc EXCEPT ![c] =
              IF Finalises(job[c]) /\ job[c].leave \in Attached THEN "lock" ELSE "publish"]
  /\ UNCHANGED <<account, locked, outbox, job, handled, crashes>>

AddEvent(c) ==
  /\ pc[c] = "publish"
  /\ Publish(c) /\ Done(c)
  /\ UNCHANGED <<leaves, account, locked, handled, crashes>>

\* _lock_leave_attachments_if_finalized has no session; what it raises is
\* logged and forgotten.
LockAttachments(c) ==
  /\ pc[c] = "lock"
  /\ \/ locked' = locked \cup {job[c].leave} /\ UNCHANGED crashes
     \/ crashes < MaxCrashes /\ crashes' = crashes + 1 /\ UNCHANGED locked
  /\ pc' = [pc EXCEPT ![c] = IF Transactions THEN "commit" ELSE "publish"]
  /\ UNCHANGED <<leaves, account, outbox, job, handled>>

\* A request is cut off: the process stops, or a database call raises.
CutOff(c) ==
  /\ pc[c] # "idle"
  /\ crashes < MaxCrashes
  /\ crashes' = crashes + 1
  /\ Done(c)
  /\ UNCHANGED <<leaves, account, locked, outbox, handled>>

-------------------------------------------------------------------------------
Handle(c) ==
  \/ View(c)
  \/ \E l \in Leaves :
       \/ Apply(c, l) \/ Cancel(c, l)
       \/ \E u \in Users : Recommend(c, l, u) \/ Reject(c, l, u) \/ Sanction(c, l, u)

Next ==
  \E c \in Callers :
    \/ Handle(c)
    \/ BuildAccount(c) \/ OpenAccount(c) \/ CheckOverlap(c) \/ CheckQuota(c)
    \/ ReadBalance(c) \/ ReadAccount(c)
    \/ Commit(c)
    \/ WriteDebit(c) \/ WriteLeave(c) \/ AddEvent(c)
    \/ LockAttachments(c)
    \/ CutOff(c)

Spec == Init /\ [][Next]_vars

-------------------------------------------------------------------------------
(* Properties. *)

Statuses == {"SUBMITTED", "RECOMMENDED", "SANCTIONED", "REJECTED", "CANCELLED"}

Application ==
  [status : Statuses, recommended_by : Users \cup {None}, sanctioned_by : Users \cup {None}]

Account == [balance : [Fields -> Int], debits : [Leaves -> Nat]]

ASSUME AbsentAssumption == Absent \notin Application /\ Absent \notin Account

Steps == {"idle", "build", "open", "overlap", "quota", "balance", "account", "commit", "debit",
          "write", "lock", "publish"}

Jobs == [command : DOMAIN EventOf \cup {"VIEW", None}, leave : Leaves \cup {None},
         user : Users \cup {None}, status : Statuses \cup {None}]

\* Type invariant.
TypeOK ==
  /\ leaves \in [Leaves -> Application \cup {Absent}]
  /\ account \in Account \cup {Absent}
  /\ locked \subseteq Attached
  /\ \A e \in outbox : \E k \in DOMAIN EventOf, l \in Leaves : e = <<EventOf[k], l>>
  /\ pc \in [Callers -> Steps]
  /\ \A c \in Callers :
       [command |-> job[c].command, leave |-> job[c].leave,
        user |-> job[c].user, status |-> job[c].status] \in Jobs
  /\ handled \in 0..MaxCommands
  /\ crashes \in 0..MaxCrashes

Quiet == \A c \in Callers : pc[c] = "idle"
DebitsOf(l) == IF account = Absent THEN 0 ELSE account.debits[l]

\* What is sanctioned from one source never costs more than the employee is
\* entitled to, although the balance is checked long before it is written.
WithinEntitlement ==
  \A s \in {Source(l) : l \in Leaves} :
    Total([l \in Leaves |-> Cost(l)], {l \in Leaves : Granted(l) /\ Source(l) = s})
      <= IF s \in {"EL", "HPL"} THEN Accrued[s] ELSE Cap[s]

\* The balance of earned and half-pay leave is what was accrued, less the
\* debits that are on record.
BalanceExplained ==
  account # Absent /\ ServiceStart =>
    \A s \in {"EL", "HPL"} :
      account.balance[s] =
        Accrued[s] - Total([l \in Leaves |-> DebitsOf(l) * Cost(l)],
                           {l \in Leaves : Source(l) = s})

\* No leave is sanctioned without its debit on record.
SanctionedIsDebited ==
  \A l \in Leaves : Granted(l) /\ RecordsDebit(l) => DebitsOf(l) > 0

\* A leave that is sanctioned was recommended and sanctioned by officers,
\* and that can still be seen, whatever else was decided about it meanwhile.
ReviewedByOthers ==
  \A l \in Leaves : Granted(l) =>
    /\ leaves[l].recommended_by \in Users \ {Applicant}
    /\ leaves[l].sanctioned_by \in Users \ {Applicant}

\* The attachments that are locked belong to leaves that are decided.
LockedAreDecided ==
  Quiet => \A l \in locked : leaves[l].status \in {"SANCTIONED", "REJECTED"}

===============================================================================
