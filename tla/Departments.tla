------------------------------ MODULE Departments ------------------------------
(***************************************************************************)
(* Departments and the two authorities they give: the head of department   *)
(* and the data entry operator.  A request writes the department and then  *)
(* hands each authority over in the users' documents, call by call, by     *)
(* sync_department_authority and revoke_department_authority of the        *)
(* identity context.                                                       *)
(***************************************************************************)
EXTENDS Naturals, FiniteSets

CONSTANTS
  Departments, \* department codes
  Employees,   \* employees, each with at most one account
  Callers,     \* requests that are handled at the same time
  None,        \* nobody
  Absent,      \* there is no document
  Keep,        \* a field the request leaves out
  MaxCommands  \* bound on the requests that get past their checks

VARIABLES
  departments, \* departments: the holder of each authority, by name
  accounts,    \* users: authorities and department of each employee
  inactive,    \* users: the employees whose is_active is False
  job,         \* the department a request has read, and how far it is
  handled,     \* requests so far
  named,       \* history: the employees each department has named
  missing,     \* history: authorities whose holder had no account
  disturbed    \* history: departments of overlapping requests, cut off, or
               \* with a holder that was passed over

vars == <<departments, accounts, inactive, job, handled, named, missing, disturbed>>

\* In the order _sync_role_holders takes them.
Authorities == {"HOD", "DEPT_DATA_ENTRY"}
Following == [HOD |-> "DEPT_DATA_ENTRY", DEPT_DATA_ENTRY |-> "done"]

Nobody == [a \in Authorities |-> None]
NewAccount == [authorities |-> {}, department |-> None]
Idle == [step |-> "idle", department |-> None, old |-> Nobody, new |-> Nobody,
         authority |-> "done", holders |-> {}]

AtWork(c, d) == job[c] # Idle /\ job[c].department = d

Init ==
  /\ departments = [d \in Departments |-> Absent]
  /\ accounts \in [Employees -> {Absent, NewAccount}]
  /\ inactive = {}
  /\ job = [c \in Callers |-> Idle]
  /\ handled = 0
  /\ named = [d \in Departments |-> {}]
  /\ missing = [d \in Departments |-> {}]
  /\ disturbed = {}

-------------------------------------------------------------------------------
\* An account is made for an employee who has none; its department says
\* nothing while it holds neither authority.
Provision(e) ==
  /\ accounts[e] = Absent
  /\ accounts' = [accounts EXCEPT ![e] = NewAccount]
  /\ UNCHANGED <<departments, inactive, job, handled, named, missing, disturbed>>

\* update_user of the identity context: the authorities stay with the account.
SetActive(e, active) ==
  /\ accounts[e] # Absent
  /\ handled < MaxCommands
  /\ handled' = handled + 1
  /\ inactive' = IF active THEN inactive \ {e} ELSE inactive \cup {e}
  /\ UNCHANGED <<departments, accounts, job, named, missing, disturbed>>

\* ensure_distinct_role_holders.
Distinct(holder) == holder["HOD"] = None \/ holder["HOD"] # holder["DEPT_DATA_ENTRY"]

Begin(c, d, step, old, new) ==
  /\ job[c] = Idle
  /\ handled < MaxCommands
  /\ handled' = handled + 1
  /\ job' = [job EXCEPT ![c] = [step |-> step, department |-> d, old |-> old, new |-> new,
                                authority |-> "HOD", holders |-> {}]]
  /\ disturbed' = disturbed \cup (IF \E b \in Callers : AtWork(b, d) THEN {d} ELSE {})
  /\ UNCHANGED <<departments, accounts, inactive, named, missing>>

CreateDepartment(c, d, new) ==
  /\ departments[d] = Absent
  /\ Distinct(new)
  /\ Begin(c, d, "insert", Nobody, new)

\* A field that is cleared still counts with its old holder when the two are
\* compared, not when the department is written.
UpdateDepartment(c, d, given) ==
  /\ departments[d] # Absent
  /\ LET old == departments[d]
         final == [a \in Authorities |-> IF given[a] \in {None, Keep} THEN old[a] ELSE given[a]]
         new == [a \in Authorities |-> IF given[a] = Keep THEN old[a] ELSE given[a]]
     IN  Distinct(final) /\ Begin(c, d, "update", old, new)

\* The insert of a code that has come to exist meanwhile raises: (code,
\* version) is unique, and both rows are version 1.
WriteDepartment(c) ==
  /\ job[c].step \in {"insert", "update"}
  /\ LET d == job[c].department IN
       \/ /\ job[c].step = "insert" => departments[d] = Absent
          /\ departments' = [departments EXCEPT ![d] = job[c].new]
          /\ named' = [named EXCEPT ![d] = @ \cup ({job[c].new[a] : a \in Authorities} \ {None})]
          /\ job' = [job EXCEPT ![c].step = "find"]
       \/ /\ job[c].step = "insert" /\ departments[d] # Absent
          /\ job' = [job EXCEPT ![c] = Idle]
          /\ UNCHANGED <<departments, named>>
  /\ UNCHANGED <<accounts, inactive, handled, missing, disturbed>>

\* The request turns to the next authority, or is answered.
Turned(j) == IF Following[j.authority] = "done" THEN Idle
            ELSE [j EXCEPT !.step = "find", !.authority = Following[j.authority], !.holders = {}]

HasAuthority(e, a) == e # None /\ accounts[e] # Absent /\ a \in accounts[e].authorities

\* The account of the new holder; of the old one when there is no new one.
\* Without an account the new holder's authority stays where it is.
FindTarget(c) ==
  /\ job[c].step = "find"
  /\ LET a == job[c].authority
         d == job[c].department
         new == job[c].new[a]
         old == job[c].old[a]
     IN  \/ /\ new # None /\ accounts[new] # Absent
            /\ job' = [job EXCEPT ![c].step = "holders"]
            /\ missing' = missing
         \/ /\ new # None /\ accounts[new] = Absent
            /\ job' = [job EXCEPT ![c] = Turned(job[c])]
            /\ missing' = [missing EXCEPT ![d] = @ \cup {a}]
         \/ /\ new = None /\ HasAuthority(old, a)
            /\ job' = [job EXCEPT ![c].step = "pull"]
            /\ missing' = missing
         \/ /\ new = None /\ ~HasAuthority(old, a)
            /\ job' = [job EXCEPT ![c] = Turned(job[c])]
            /\ missing' = missing
  /\ UNCHANGED <<departments, accounts, inactive, handled, named, disturbed>>

Held(d, a) ==
  {e \in Employees : /\ accounts[e] # Absent
                     /\ a \in accounts[e].authorities /\ accounts[e].department = d}

\* Mutant: the holders are looked for in every department.
FindAllHolders(c) ==
  /\ job[c].step = "holders"
  /\ LET a == job[c].authority IN
       job' = [job EXCEPT ![c].step = "hand_over",
                          ![c].holders = UNION {Held(d, a) : d \in Departments}
                                           \ ({job[c].new[a]} \cup inactive)]
  /\ UNCHANGED <<departments, accounts, inactive, handled, named, missing, disturbed>>

\* The accounts an authority is taken from: one that is not active keeps it.
FindHolders(c) ==
  /\ job[c].step = "holders"
  /\ LET d == job[c].department
         a == job[c].authority
         others == Held(d, a) \ {job[c].new[a]}
     IN  /\ job' = [job EXCEPT ![c].step = "hand_over", ![c].holders = others \ inactive]
         /\ disturbed' = disturbed \cup (IF others \cap inactive = {} THEN {} ELSE {d})
  /\ UNCHANGED <<departments, accounts, inactive, handled, named, missing>>

RevokeHolder(c) ==
  /\ job[c].step = "hand_over"
  /\ \E e \in job[c].holders :
       /\ accounts' = [accounts EXCEPT ![e].authorities = @ \ {job[c].authority}]
       /\ job' = [job EXCEPT ![c].holders = @ \ {e}]
  /\ UNCHANGED <<departments, inactive, handled, named, missing, disturbed>>

Grant(c) ==
  /\ job[c].step = "hand_over" /\ job[c].holders = {}
  /\ LET a == job[c].authority
         d == job[c].department
     IN  /\ accounts' = [accounts EXCEPT ![job[c].new[a]] =
                           [authorities |-> @.authorities \cup {a}, department |-> d]]
         /\ missing' = [missing EXCEPT ![d] = @ \ {a}]
  /\ job' = [job EXCEPT ![c] = Turned(job[c])]
  /\ UNCHANGED <<departments, inactive, handled, named, disturbed>>

\* revoke_department_authority, whatever department the account is in.
RevokeOld(c) ==
  /\ job[c].step = "pull"
  /\ accounts' = [accounts EXCEPT ![job[c].old[job[c].authority]].authorities =
                    @ \ {job[c].authority}]
  /\ job' = [job EXCEPT ![c] = Turned(job[c])]
  /\ UNCHANGED <<departments, inactive, handled, named, missing, disturbed>>

\* The process ends, or a call raises: no authority behind it is handed over.
CutOff(c) ==
  /\ job[c] # Idle
  /\ disturbed' = disturbed \cup {job[c].department}
  /\ job' = [job EXCEPT ![c] = Idle]
  /\ UNCHANGED <<departments, accounts, inactive, handled, named, missing>>

Next ==
  \/ \E e \in Employees : Provision(e) \/ \E active \in BOOLEAN : SetActive(e, active)
  \/ \E c \in Callers :
       \/ \E d \in Departments :
            \/ \E new \in [Authorities -> Employees \cup {None}] : CreateDepartment(c, d, new)
            \/ \E given \in [Authorities -> Employees \cup {None, Keep}] :
                 UpdateDepartment(c, d, given)
       \/ WriteDepartment(c) \/ FindTarget(c) \/ FindHolders(c) \/ RevokeHolder(c)
       \/ Grant(c) \/ RevokeOld(c) \/ CutOff(c)

Spec == Init /\ [][Next]_vars

-------------------------------------------------------------------------------
Holders == [Authorities -> Employees \cup {None}]

TypeOK ==
  /\ departments \in [Departments -> Holders \cup {Absent}]
  /\ accounts \in [Employees -> {Absent} \cup [authorities : SUBSET Authorities,
                                               department : Departments \cup {None}]]
  /\ inactive \subseteq Employees
  /\ job \in [Callers -> [step : {"idle", "insert", "update", "find", "holders", "hand_over",
                                  "pull"},
                          department : Departments \cup {None}, old : Holders, new : Holders,
                          authority : Authorities \cup {"done"}, holders : SUBSET Employees]]
  /\ handled \in 0..MaxCommands
  /\ named \in [Departments -> SUBSET Employees]
  /\ missing \in [Departments -> SUBSET Authorities]
  /\ disturbed \subseteq Departments

\* Nobody a department has ever named was named by another one too: an
\* account belongs to one department.
Exclusive(d) == \A b \in Departments \ {d} : named[d] \cap named[b] = {}

\* No update of the department overlapped another, was cut off or met an
\* inactive holder, none is at work, and it shares no employee with another
\* department.
Settled(d) ==
  /\ departments[d] # Absent
  /\ d \notin disturbed
  /\ \A c \in Callers : ~AtWork(c, d)
  /\ Exclusive(d)

\* Between requests the accounts say what the department says: each of its
\* authorities is held by exactly the employee it names, whatever was handed
\* over, swapped or cleared before, unless that employee had no account.
HeldAsNamed ==
  \A d \in Departments : Settled(d) =>
    \A a \in Authorities \ missing[d] : Held(d, a) = {departments[d][a]} \ {None}
===============================================================================
