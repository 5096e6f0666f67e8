----------------------------- MODULE WorkflowTasks -----------------------------
(***************************************************************************)
(* The approval tasks of contexts/workflow.  A request reads the task,     *)
(* asks the aggregate WorkflowAggregate for the next status, writes the    *)
(* status back whatever the task has become by then, and appends the       *)
(* transition to the history with a call of its own.  There is no          *)
(* transaction.                                                            *)
(***************************************************************************)
EXTENDS Naturals, Sequences

CONSTANTS
  Tasks,       \* task_id values
  Callers,     \* requests that are handled at the same time
  Users,       \* actors and assignees
  None,        \* nobody
  Absent,      \* there is no document
  MaxCommands  \* bound on the requests that change a task

VARIABLES
  tasks,      \* workflow_tasks: status, assignee and closed_by
  history,    \* workflow_transitions of each task, as they were inserted
  job,        \* the task a request has read, and what it makes of it
  handled,    \* requests so far
  disturbed   \* history: tasks of overlapping requests, or of one cut off

vars == <<tasks, history, job, handled, disturbed>>

\* ApprovalTaskStatus, and the statuses update_task closes a task under.
Statuses == {"QUEUED", "ASSIGNED", "IN_REVIEW", "COMPLETED", "REJECTED", "CANCELLED"}
ClosedStates == {"COMPLETED", "REJECTED", "CANCELLED"}

Actions == {"ASSIGN", "START_REVIEW", "COMPLETE", "REJECT", "CANCEL"}

\* WorkflowAggregate: from where each action is legal, and where it leads.
AllowedFrom ==
  [ASSIGN |-> {"QUEUED"},
   START_REVIEW |-> {"QUEUED", "ASSIGNED"},
   COMPLETE |-> {"QUEUED", "ASSIGNED", "IN_REVIEW"},
   REJECT |-> Statuses \ ClosedStates,
   CANCEL |-> Statuses \ {"COMPLETED", "CANCELLED"}]

NextState ==
  [ASSIGN |-> "ASSIGNED", START_REVIEW |-> "IN_REVIEW", COMPLETE |-> "COMPLETED",
   REJECT |-> "REJECTED", CANCEL |-> "CANCELLED"]

Idle == [step |-> "idle", task |-> None, action |-> None, from |-> None,
         assignee |-> None, actor |-> None]

Init ==
  /\ tasks = [t \in Tasks |-> Absent]
  /\ history = [t \in Tasks |-> <<>>]
  /\ job = [c \in Callers |-> Idle]
  /\ handled = 0
  /\ disturbed = {}

AtWork(c, t) == job[c].step # "idle" /\ job[c].task = t

-------------------------------------------------------------------------------
\* create_task: one insert, the assignee as the request names it.
CreateTask(t, assignee) ==
  /\ tasks[t] = Absent
  /\ tasks' = [tasks EXCEPT ![t] = [status |-> "QUEUED", assignee |-> assignee,
                                    closed_by |-> None]]
  /\ UNCHANGED <<history, job, handled, disturbed>>

\* assign_task and transition_task read the task and let the aggregate
\* decide; a transition keeps the assignee it has read.
Read(c, t, action, actor, assignee) ==
  /\ job[c] = Idle
  /\ handled < MaxCommands
  /\ tasks[t] # Absent /\ tasks[t].status \in AllowedFrom[action]
  /\ job' = [job EXCEPT ![c] =
               [step |-> "update", task |-> t, action |-> action,
                from |-> tasks[t].status,
                assignee |-> IF action = "ASSIGN" THEN assignee ELSE tasks[t].assignee,
                actor |-> actor]]
  /\ handled' = handled + 1
  /\ disturbed' = IF \E d \in Callers : AtWork(d, t) THEN disturbed \cup {t} ELSE disturbed
  /\ UNCHANGED <<tasks, history>>

\* update_task sets every field it was given, and never clears closed_by.
UpdateTask(c) ==
  LET j == job[c]
      to == NextState[j.action]
  IN  /\ j.step = "update"
      /\ tasks' = [tasks EXCEPT ![j.task] =
                     [status |-> to, assignee |-> j.assignee,
                      closed_by |-> IF to \in ClosedStates THEN j.actor ELSE @.closed_by]]
      /\ job' = [job EXCEPT ![c].step = "append"]
      /\ UNCHANGED <<history, handled, disturbed>>

Appended(j, from) ==
  [history EXCEPT ![j.task] =
     Append(@, [action |-> j.action, from |-> from, to |-> NextState[j.action],
                actor |-> j.actor])]

\* Mutant: from_status is taken from the task that update_task returned.
AppendTransitionUpdated(c) ==
  /\ job[c].step = "append"
  /\ history' = Appended(job[c], tasks[job[c].task].status)
  /\ job' = [job EXCEPT ![c] = Idle]
  /\ UNCHANGED <<tasks, handled, disturbed>>

\* append_transition: a document of its own.
AppendTransition(c) ==
  /\ job[c].step = "append"
  /\ history' = Appended(job[c], job[c].from)
  /\ job' = [job EXCEPT ![c] = Idle]
  /\ UNCHANGED <<tasks, handled, disturbed>>

\* The process stops, or the database raises, between the two writes.
CutOff(c) ==
  /\ job[c].step = "append"
  /\ job' = [job EXCEPT ![c] = Idle]
  /\ disturbed' = disturbed \cup {job[c].task}
  /\ UNCHANGED <<tasks, history, handled>>

Next ==
  \/ \E t \in Tasks, u \in Users \cup {None} : CreateTask(t, u)
  \/ \E c \in Callers :
       \/ \E t \in Tasks, a \in Actions, u \in Users, v \in Users \cup {None} :
            Read(c, t, a, u, v)
       \/ UpdateTask(c) \/ AppendTransition(c) \/ CutOff(c)

Spec == Init /\ [][Next]_vars

-------------------------------------------------------------------------------
(* Properties. *)

Task == [status : Statuses, assignee : Users \cup {None}, closed_by : Users \cup {None}]

Entry == [action : Actions, from : Statuses, to : Statuses, actor : Users]

Job == [step : {"update", "append"}, task : Tasks, action : Actions, from : Statuses,
        assignee : Users \cup {None}, actor : Users]

\* Type invariant.
TypeOK ==
  /\ tasks \in [Tasks -> Task \cup {Absent}]
  /\ history \in [Tasks -> Seq(Entry)]
  /\ job \in [Callers -> Job \cup {Idle}]
  /\ handled \in 0..MaxCommands
  /\ disturbed \subseteq Tasks

\* The status before entry i of a history h, and after the last.
Before(h, i) == IF i = 1 THEN "QUEUED" ELSE h[i - 1].to

\* The history of a task explains it: its entries are a path from QUEUED to
\* the status the task shows, on which nothing follows COMPLETED or
\* CANCELLED, and it names as the one who closed it the actor of the last
\* entry.  Requests that overlap on the task, or one cut off between its two
\* writes, break that for good.
HistoryExplains ==
  \A t \in Tasks :
    tasks[t] # Absent /\ t \notin disturbed /\ (\A c \in Callers : ~AtWork(c, t)) =>
      LET h == history[t] IN
      /\ \A i \in 1..Len(h) : /\ h[i].from = Before(h, i)
                              /\ Before(h, i) \notin {"COMPLETED", "CANCELLED"}
      /\ tasks[t].status = Before(h, Len(h) + 1)
      /\ IF tasks[t].status \in ClosedStates
           THEN tasks[t].closed_by = h[Len(h)].actor
           ELSE tasks[t].closed_by = None

===============================================================================
