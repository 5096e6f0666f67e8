-------------------------------- MODULE Accounts --------------------------------
(***************************************************************************)
(* identity_access/identity: the accounts, the authorities they hold, and  *)
(* the tokens that carry a copy of these.  An administrator's request      *)
(* reads, checks, writes and then ends the sessions, each a database call  *)
(* of its own; logins and refreshes run in between.                        *)
(***************************************************************************)
EXTENDS Naturals

CONSTANTS
  Users,       \* accounts, there or yet to be created
  Roles,       \* authorities one active account at most may hold
  HeadRole,    \* an authority that department management hands on
  Callers,     \* requests that are handled at the same time
  None,        \* a field a request leaves alone
  Absent,      \* no such account
  MaxCommands  \* bound on the requests that are handled

VARIABLES
  users,      \* users: active or not, authorities, token_version
  sessions,   \* refresh_tokens: how many each account has
  tokens,     \* access tokens handed out, each with what it says
  job,        \* Callers -> the request, what it read, what it wants
  handled,    \* requests so far
  disturbed,  \* history: two administrators' requests overlapped, or one was cut off
  revived     \* history: an account was made active again

vars == <<users, sessions, tokens, job, handled, disturbed, revived>>

Authorities == Roles \cup {HeadRole}

Idle == [step |-> "idle", command |-> None, user |-> None, read |-> Absent,
         add |-> None, remove |-> None, active |-> None]

NewAccount(roles) == [active |-> TRUE, roles |-> roles, version |-> 0]

Init ==
  /\ \E held \in SUBSET Roles, u \in Users \cup {Absent} :
       users = [v \in Users |-> IF v = u THEN NewAccount(held) ELSE Absent]
  /\ sessions = [u \in Users |-> IF users[u] = Absent THEN 0 ELSE 1]
  /\ tokens = {}
  /\ job = [c \in Callers |-> Idle]
  /\ handled = 0
  /\ disturbed = FALSE /\ revived = FALSE

AdminCommands == {"CREATE", "UPDATE", "PATCH", "DELETE", "PASSWORD"}

At(c, step) == job[c].step = step

Go(c, step) == job' = [job EXCEPT ![c].step = step]

Finish(c) == job' = [job EXCEPT ![c] = Idle]

Of(c) == users[job[c].user]

-------------------------------------------------------------------------------
(* An administrator's request begins with a read of the account. *)

Begin(c, request) ==
  /\ job[c] = Idle
  /\ handled < MaxCommands
  /\ handled' = handled + 1
  /\ job' = [job EXCEPT ![c] = request]
  /\ disturbed' = (disturbed \/ /\ request.command \in AdminCommands
                                /\ \E d \in Callers : job[d].command \in AdminCommands)
  /\ UNCHANGED <<users, sessions, tokens, revived>>

CreateUser(c, u, roles) ==
  /\ users[u] = Absent
  /\ Begin(c, [Idle EXCEPT !.step = "check", !.command = "CREATE", !.user = u, !.add = roles])

\* The authorities, when given, replace those the account has.
UpdateUser(c, u, roles, active) ==
  /\ users[u] # Absent
  /\ Begin(c, [Idle EXCEPT !.step = IF roles = None THEN "write" ELSE "check",
                           !.command = "UPDATE", !.user = u, !.read = users[u],
                           !.add = roles, !.active = active])

\* What is to be removed is not added.
PatchUserAuthorities(c, u, add, remove) ==
  /\ users[u] # Absent
  /\ Begin(c, [Idle EXCEPT !.step = "check", !.command = "PATCH", !.user = u,
                           !.read = users[u], !.add = add \ remove, !.remove = remove])

DeleteUser(c, u) ==
  /\ users[u] # Absent
  /\ Begin(c, [Idle EXCEPT !.step = "write", !.command = "DELETE", !.user = u,
                           !.read = users[u], !.active = FALSE])

\* By an administrator, by the user, or to a temporary password.
ChangePassword(c, u) ==
  /\ users[u] # Absent
  /\ Begin(c, [Idle EXCEPT !.step = "write", !.command = "PASSWORD", !.user = u,
                           !.read = users[u]])

-------------------------------------------------------------------------------
(* The rest of it. *)

\* find_users_with_authority
Holders(role, others) ==
  {v \in others : users[v] # Absent /\ users[v].active /\ role \in users[v].roles}

\* The authorities whose holders are looked for.
ToCheck(j) == IF j.command = "UPDATE" THEN j.add \ j.read.roles ELSE j.add

\* _validate_exclusive_role_assignment
Check(c) ==
  /\ At(c, "check")
  /\ IF \E role \in ToCheck(job[c]) : Holders(role, Users \ {job[c].user}) # {}
       THEN Finish(c) ELSE Go(c, "write")
  /\ UNCHANGED <<users, sessions, tokens, handled, disturbed, revived>>

\* The unique index on the e-mail address refuses a second insert.
WriteCreate(c) ==
  /\ At(c, "write") /\ job[c].command = "CREATE"
  /\ users' = [users EXCEPT ![job[c].user] = IF @ = Absent THEN NewAccount(job[c].add) ELSE @]
  /\ Finish(c)
  /\ UNCHANGED <<sessions, tokens, handled, disturbed, revived>>

\* Sessions are ended when the authorities asked for differ from those read.
RolesChanged(j) == j.add # None /\ j.read.roles # j.add

WriteUpdate(c) ==
  /\ At(c, "write") /\ job[c].command = "UPDATE"
  /\ users' = [users EXCEPT ![job[c].user].roles = IF job[c].add = None THEN @ ELSE job[c].add,
                            ![job[c].user].active = IF job[c].active = None THEN @ ELSE job[c].active]
  /\ IF RolesChanged(job[c]) THEN Go(c, "forget") ELSE Finish(c)
  /\ revived' = (revived \/ (job[c].active = TRUE /\ ~Of(c).active))
  /\ UNCHANGED <<sessions, tokens, handled, disturbed>>

\* patch_user_authorities of the repository adds first, then removes.
WritePatch(c) ==
  /\ At(c, "write") /\ job[c].command = "PATCH"
  /\ IF job[c].add # {}
       THEN /\ users' = [users EXCEPT ![job[c].user].roles = @ \cup job[c].add]
            /\ Go(c, IF job[c].remove # {} THEN "pull" ELSE "compare")
       ELSE /\ users' = [users EXCEPT ![job[c].user].roles = @ \ job[c].remove]
            /\ Go(c, "compare")
  /\ UNCHANGED <<sessions, tokens, handled, disturbed, revived>>

Pull(c) ==
  /\ At(c, "pull")
  /\ users' = [users EXCEPT ![job[c].user].roles = @ \ job[c].remove]
  /\ Go(c, "compare")
  /\ UNCHANGED <<sessions, tokens, handled, disturbed, revived>>

Compare(c) ==
  /\ At(c, "compare")
  /\ IF Of(c).roles # job[c].read.roles THEN Go(c, "forget") ELSE Finish(c)
  /\ UNCHANGED <<users, sessions, tokens, handled, disturbed, revived>>

WriteOther(c) ==
  /\ At(c, "write") /\ job[c].command \in {"DELETE", "PASSWORD"}
  /\ users' = [users EXCEPT ![job[c].user].active = IF job[c].active = None THEN @ ELSE FALSE]
  /\ Go(c, "forget")
  /\ UNCHANGED <<sessions, tokens, handled, disturbed, revived>>

\* _revoke_all_refresh_tokens: two calls.
Forget(c) ==
  /\ At(c, "forget")
  /\ sessions' = [sessions EXCEPT ![job[c].user] = 0]
  /\ Go(c, "bump")
  /\ UNCHANGED <<users, tokens, handled, disturbed, revived>>

Bump(c) ==
  /\ At(c, "bump")
  /\ users' = [users EXCEPT ![job[c].user].version = @ + 1]
  /\ Finish(c)
  /\ UNCHANGED <<sessions, tokens, handled, disturbed, revived>>

Unsettled == {"pull", "compare", "forget", "bump"}

\* The process stops, or the database raises, after the account was written.
CutOff(c) ==
  /\ job[c].step \in Unsettled
  /\ Finish(c)
  /\ disturbed' = TRUE
  /\ UNCHANGED <<users, sessions, tokens, handled, revived>>

\* The calls of sync_department_authority and revoke_department_authority: the
\* authority is pulled from one account at a time, then granted to one, and no
\* session ends.  Which accounts, and in which order, is Departments' matter.
PullDepartmentAuthority(u) ==
  /\ users[u] # Absent
  /\ handled < MaxCommands
  /\ handled' = handled + 1
  /\ users' = [users EXCEPT ![u].roles = @ \ {HeadRole}]
  /\ UNCHANGED <<sessions, tokens, job, disturbed, revived>>

GrantDepartmentAuthority(u) ==
  /\ users[u] # Absent
  /\ handled < MaxCommands
  /\ handled' = handled + 1
  /\ users' = [users EXCEPT ![u].roles = @ \cup {HeadRole}]
  /\ UNCHANGED <<sessions, tokens, job, disturbed, revived>>

-------------------------------------------------------------------------------
(* Logging in, refreshing, logging out. *)

\* A deactivated account is refused after its password was verified.
Login(c, u) ==
  /\ users[u] # Absent /\ users[u].active
  /\ Begin(c, [Idle EXCEPT !.step = "issue", !.command = "LOGIN", !.user = u, !.read = users[u]])

\* The old refresh token is found and deleted in one call.
Refresh(c, u) ==
  /\ job[c] = Idle
  /\ handled < MaxCommands
  /\ sessions[u] > 0
  /\ sessions' = [sessions EXCEPT ![u] = @ - 1]
  /\ job' = [job EXCEPT ![c] = [Idle EXCEPT !.step = "find", !.command = "REFRESH", !.user = u]]
  /\ handled' = handled + 1
  /\ UNCHANGED <<users, tokens, disturbed, revived>>

FindForRefresh(c) ==
  /\ At(c, "find")
  /\ IF Of(c).active
       THEN job' = [job EXCEPT ![c].step = "issue", ![c].read = Of(c)]
       ELSE Finish(c)
  /\ UNCHANGED <<users, sessions, tokens, handled, disturbed, revived>>

\* Mutant: the token says the version the account has by now.
IssueLate(c) ==
  /\ At(c, "issue")
  /\ tokens' = tokens \cup {[user |-> job[c].user, roles |-> job[c].read.roles,
                             version |-> Of(c).version]}
  /\ sessions' = [sessions EXCEPT ![job[c].user] = @ + 1]
  /\ Finish(c)
  /\ UNCHANGED <<users, handled, disturbed, revived>>

\* create_token and _store_refresh_token, from the account as it was read.
Issue(c) ==
  /\ At(c, "issue")
  /\ tokens' = tokens \cup {[user |-> job[c].user, roles |-> job[c].read.roles,
                             version |-> job[c].read.version]}
  /\ sessions' = [sessions EXCEPT ![job[c].user] = @ + 1]
  /\ Finish(c)
  /\ UNCHANGED <<users, handled, disturbed, revived>>

Logout(u) ==
  /\ sessions[u] > 0
  /\ handled < MaxCommands
  /\ handled' = handled + 1
  /\ sessions' = [sessions EXCEPT ![u] = @ - 1]
  /\ UNCHANGED <<users, tokens, job, disturbed, revived>>

\* get_current_user: the token is taken for what it says.
Accepted(t) == users[t.user].active /\ t.version = users[t.user].version

Next ==
  \/ \E u \in Users :
       Logout(u) \/ PullDepartmentAuthority(u) \/ GrantDepartmentAuthority(u)
  \/ \E c \in Callers, u \in Users :
       \/ \E roles \in SUBSET Roles : CreateUser(c, u, roles)
       \/ \E roles \in (SUBSET Authorities) \cup {None}, active \in {TRUE, FALSE, None} :
            (roles = None) # (active = None) /\ UpdateUser(c, u, roles, active)
       \/ \E add, remove \in SUBSET Roles :
            (add # {} \/ remove # {}) /\ PatchUserAuthorities(c, u, add, remove)
       \/ DeleteUser(c, u) \/ ChangePassword(c, u)
       \/ Login(c, u) \/ Refresh(c, u)
  \/ \E c \in Callers :
       \/ Check(c) \/ WriteCreate(c) \/ WriteUpdate(c) \/ WritePatch(c) \/ WriteOther(c)
       \/ Pull(c) \/ Compare(c) \/ Forget(c) \/ Bump(c) \/ CutOff(c)
       \/ FindForRefresh(c) \/ Issue(c)

Spec == Init /\ [][Next]_vars

-------------------------------------------------------------------------------
(* Properties. *)

Account == [active : BOOLEAN, roles : SUBSET Authorities, version : Nat]

\* Type invariant.
TypeOK ==
  /\ users \in [Users -> Account \cup {Absent}]
  /\ sessions \in [Users -> Nat]
  /\ tokens \subseteq [user : Users, roles : SUBSET Authorities, version : Nat]
  /\ \A c \in Callers : job[c] = Idle \/ job[c].user \in Users
  /\ handled \in 0..MaxCommands
  /\ disturbed \in BOOLEAN /\ revived \in BOOLEAN

\* An authority that only one active account may hold has one holder at most,
\* unless two administrators' requests overlapped or an account that held it
\* was made active again, which nothing checks.
OneHolder ==
  ~disturbed /\ ~revived => \A role \in Roles : \A v, w \in Holders(role, Users) : v = w

\* A token that is accepted says the authorities the account has, whenever it
\* was read, issued or refreshed, once the request that changed them is done.
\* What department management hands on is excepted: it ends no session.
TokensCurrent ==
  ~disturbed =>
    \A t \in tokens :
      Accepted(t) /\ (\A c \in Callers : job[c].user = t.user => job[c].step \notin Unsettled) =>
        t.roles \ {HeadRole} = users[t.user].roles \ {HeadRole}
===============================================================================
