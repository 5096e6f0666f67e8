---------------------------- MODULE SeniorityLists ----------------------------
(***************************************************************************)
(* The seniority lists of contexts/seniority: generated or promoted from   *)
(* an approved list, ranked by overrides, submitted, verified and approved *)
(* by different officers.  Every request reads the list, checks its status *)
(* and who acted before, and writes the fields it changes, whatever the    *)
(* list has become by then.                                                *)
(***************************************************************************)
EXTENDS Naturals

CONSTANTS
  Lists,       \* list_id values
  Callers,     \* requests that are handled at the same time
  Users,       \* officers; one may hold several authorities
  Rankings,    \* orders of the employees: ranks are a permutation
  None,        \* nobody, no list
  Absent,      \* there is no document
  MaxCommands  \* bound on the requests

VARIABLES
  lists,      \* seniority_lists
  job,        \* the list a request has read, and what it does with it
  handled,    \* requests so far
  overlapped  \* history: lists two requests worked on at the same time

vars == <<lists, job, handled, overlapped>>

\* PROMOTION_ORDER
Promoted == [DRAFT |-> "PROVISIONAL", PROVISIONAL |-> "FINAL"]

Idle == [command |-> None, list |-> None, actor |-> None, ranks |-> None]

NewList(type, ranks, from) ==
  [list_type |-> type, status |-> "DRAFT", ranks |-> ranks, promoted_from |-> from,
   submitted_by |-> None, verified_by |-> None, approved_by |-> None]

Init ==
  /\ lists = [l \in Lists |-> Absent]
  /\ job = [c \in Callers |-> Idle]
  /\ handled = 0
  /\ overlapped = {}

-------------------------------------------------------------------------------
\* Mutant: the list type is stored as the request spells it.
GenerateAsSpelt(l, type, ranks) ==
  /\ handled < MaxCommands
  /\ lists[l] = Absent
  /\ \E spelt \in {type, "final"} :
       lists' = [lists EXCEPT ![l] = NewList(spelt, ranks, None)]
  /\ handled' = handled + 1
  /\ UNCHANGED <<job, overlapped>>

\* generate_seniority_list: any type may be generated, validate_list_type
\* spells it, and one insert is all.
Generate(l, type, ranks) ==
  /\ handled < MaxCommands
  /\ lists[l] = Absent
  /\ lists' = [lists EXCEPT ![l] = NewList(type, ranks, None)]
  /\ handled' = handled + 1
  /\ UNCHANGED <<job, overlapped>>

\* A request has read list l and was not refused.
Begin(c, command, l, actor, ranks) ==
  /\ job[c] = Idle
  /\ handled < MaxCommands
  /\ job' = [job EXCEPT ![c] = [command |-> command, list |-> l, actor |-> actor,
                                ranks |-> ranks]]
  /\ handled' = handled + 1
  /\ overlapped' = IF \E d \in Callers : job[d].list = l
                     THEN overlapped \cup {l} ELSE overlapped
  /\ UNCHANGED lists

\* override_ranks: apply_rank_overrides has accepted the new order.
Override(c, l, u, ranks) ==
  /\ lists[l] # Absent
  /\ lists[l].list_type # "FINAL"
  /\ lists[l].status \in {"DRAFT", "REJECTED"}
  /\ Begin(c, "OVERRIDE", l, u, ranks)

Submit(c, l, u) ==
  /\ lists[l] # Absent
  /\ lists[l].status \in {"DRAFT", "REJECTED"}
  /\ Begin(c, "SUBMIT", l, u, None)

\* require_separation_of_duties, for verify and for approve
Verify(c, l, u) ==
  /\ lists[l] # Absent
  /\ lists[l].status = "SUBMITTED"
  /\ u # lists[l].submitted_by
  /\ Begin(c, "VERIFY", l, u, None)

\* Mutant: the approver need only not have verified.
ApproveOwn(c, l, u) ==
  /\ lists[l] # Absent
  /\ lists[l].status = "VERIFIED"
  /\ u # lists[l].verified_by
  /\ Begin(c, "APPROVE", l, u, None)

Approve(c, l, u) ==
  /\ lists[l] # Absent
  /\ lists[l].status = "VERIFIED"
  /\ u \notin {lists[l].submitted_by, lists[l].verified_by}
  /\ Begin(c, "APPROVE", l, u, None)

Reject(c, l, u) ==
  /\ lists[l] # Absent
  /\ lists[l].status \in {"SUBMITTED", "VERIFIED"}
  /\ Begin(c, "REJECT", l, u, None)

\* promote_seniority_list copies the employees it has read.
Promote(c, l, u) ==
  /\ lists[l] # Absent
  /\ lists[l].status = "APPROVED"
  /\ lists[l].list_type \in DOMAIN Promoted
  /\ Begin(c, "PROMOTE", l, u, lists[l].ranks)

-------------------------------------------------------------------------------
\* The fields update_list sets.
Written(doc, j) ==
  CASE j.command = "OVERRIDE" -> [doc EXCEPT !.ranks = j.ranks]
    [] j.command = "SUBMIT" -> [doc EXCEPT !.status = "SUBMITTED", !.submitted_by = j.actor]
    [] j.command = "VERIFY" -> [doc EXCEPT !.status = "VERIFIED", !.verified_by = j.actor]
    [] j.command = "APPROVE" -> [doc EXCEPT !.status = "APPROVED", !.approved_by = j.actor]
    [] j.command = "REJECT" -> [doc EXCEPT !.status = "REJECTED"]

Done(c) ==
  /\ job' = [job EXCEPT ![c] = Idle]
  /\ UNCHANGED <<handled, overlapped>>

UpdateList(c) ==
  LET j == job[c] IN
  /\ j.command \in {"OVERRIDE", "SUBMIT", "VERIFY", "APPROVE", "REJECT"}
  /\ lists' = [lists EXCEPT ![j.list] = Written(@, j)]
  /\ Done(c)

\* The new list is inserted under a new identifier; nothing asks whether its
\* source was promoted before.
InsertPromoted(c, l) ==
  LET j == job[c] IN
  /\ j.command = "PROMOTE"
  /\ lists[l] = Absent
  /\ lists' = [lists EXCEPT ![l] = NewList(Promoted[lists[j.list].list_type], j.ranks, j.list)]
  /\ Done(c)

Handle(c, l, u) ==
  \/ \E r \in Rankings : Override(c, l, u, r)
  \/ Submit(c, l, u) \/ Verify(c, l, u) \/ Approve(c, l, u) \/ Reject(c, l, u)
  \/ Promote(c, l, u)

Types == {"DRAFT", "PROVISIONAL", "FINAL"}

Next ==
  \/ \E l \in Lists, type \in Types, r \in Rankings : Generate(l, type, r)
  \/ \E c \in Callers :
       \/ \E l \in Lists, u \in Users : Handle(c, l, u)
       \/ UpdateList(c)
       \/ \E l \in Lists : InsertPromoted(c, l)

Spec == Init /\ [][Next]_vars

-------------------------------------------------------------------------------
(* Properties. *)

Statuses == {"DRAFT", "SUBMITTED", "VERIFIED", "APPROVED", "REJECTED"}

List == [list_type : Types, status : Statuses, ranks : Rankings,
         promoted_from : Lists \cup {None}, submitted_by : Users \cup {None},
         verified_by : Users \cup {None}, approved_by : Users \cup {None}]

Commands == {"OVERRIDE", "SUBMIT", "VERIFY", "APPROVE", "REJECT", "PROMOTE"}

Job == [command : Commands, list : Lists, actor : Users, ranks : Rankings \cup {None}]

\* Type invariant.
TypeOK ==
  /\ lists \in [Lists -> List \cup {Absent}]
  /\ job \in [Callers -> Job \cup {Idle}]
  /\ handled \in 0..MaxCommands
  /\ overlapped \subseteq Lists

\* Separation of duties can be read off a list however often it was
\* rejected and submitted again: a verified list names a verifier other than
\* its submitter, an approved one an approver other than both.  Only a
\* request that worked on the list while another did can break that.
DutiesSeparated ==
  \A l \in Lists : lists[l] # Absent /\ l \notin overlapped =>
    LET doc == lists[l] IN
    /\ doc.status \in {"VERIFIED", "APPROVED"} =>
         {doc.submitted_by, doc.verified_by} \subseteq Users /\ doc.submitted_by # doc.verified_by
    /\ doc.status = "APPROVED" =>
         doc.approved_by \in Users \ {doc.submitted_by, doc.verified_by}

\* A promoted final list ranks the employees as the approved provisional
\* list does that it names, for good: neither of the two can be ranked
\* again, unless two requests overlapped on the source.
FinalIsApproved ==
  \A l \in Lists :
    lists[l] # Absent /\ lists[l].list_type = "FINAL" /\ lists[l].promoted_from # None
      /\ lists[l].promoted_from \notin overlapped =>
      LET source == lists[lists[l].promoted_from] IN
      source.list_type = "PROVISIONAL" /\ source.status = "APPROVED"
        /\ source.ranks = lists[l].ranks

===============================================================================
