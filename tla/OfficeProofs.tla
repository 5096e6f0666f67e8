------------------------------ MODULE OfficeProofs ------------------------------
(* Workflow tasks, seniority lists, signatures, the Service Book's opening  *)
(* and read side, masters and departments: each as it runs beside the       *)
(* others, for any number of requests at a time.                            *)
EXTENDS Services, SequenceTheorems, WellFoundedInduction, TLAPS

MasterP == INSTANCE MasterVersionsProofs
  WITH MaxCommands <- Bounds.masters,
       log <- changeLog, job <- masterJob, handled <- masterHandled, answered <- acknowledged,
       overlapped <- masterOverlapped

LEMMA OfficeBounds ==
  /\ Bounds.workflow \in Nat /\ Bounds.seniority \in Nat /\ Bounds.profile \in Nat
  /\ Bounds.change \in Nat /\ Bounds.opening \in Nat /\ Bounds.signatures \in Nat
  /\ Bounds.accounts \in Nat /\ Bounds.masters \in Nat /\ Bounds.departments \in Nat
BY BoundsAssumption

-------------------------------------------------------------------------------
(* The composition takes the steps of one component and stutters in the *)
(* others, so it implements each. *)

LEMMA SimulatesMaster == Spec => MasterP!Spec
<1>1. Master!Init => MasterP!Init
  BY DEF Master!Init, MasterP!Init, Master!Idle, MasterP!Idle
<1>2. Master!Next => MasterP!Next
  BY DEF Master!Next, MasterP!Next, Master!Create, MasterP!Create, Master!Active,
         MasterP!Active, Master!Begin, MasterP!Begin, Master!Idle, MasterP!Idle, Master!Seed,
         MasterP!Seed, Master!Change, MasterP!Change, Master!NewestActive, MasterP!NewestActive,
         Master!InsertRow, MasterP!InsertRow, Master!Taken, MasterP!Taken, Master!NewRow,
         MasterP!NewRow, Master!Supersede, MasterP!Supersede, Master!LogChange,
         MasterP!LogChange, Master!CutOff, MasterP!CutOff
<1>3. Init => MasterP!Init
  BY <1>1 DEF Init
<1>4. [Next]_vars => [MasterP!Next]_(MasterP!vars)
  BY <1>2 DEF Next, vars, MasterVars, MasterP!vars
<1> QED
  BY <1>3, <1>4, PTL DEF Spec, MasterP!Spec

LEMMA SimulatesWorkflow == Spec => Workflow!Spec
<1>1. Init => Workflow!Init
  BY DEF Init
<1>2. [Next]_vars => [Workflow!Next]_(Workflow!vars)
  BY DEF Next, vars, WorkflowVars, Workflow!vars
<1> QED
  BY <1>1, <1>2, PTL DEF Spec, Workflow!Spec

LEMMA SimulatesSeniority == Spec => Seniority!Spec
<1>1. Init => Seniority!Init
  BY DEF Init
<1>2. [Next]_vars => [Seniority!Next]_(Seniority!vars)
  BY DEF Next, vars, SeniorityVars, Seniority!vars
<1> QED
  BY <1>1, <1>2, PTL DEF Spec, Seniority!Spec

LEMMA SimulatesSignature == Spec => Signature!Spec
<1>1. Init => Signature!Init
  BY DEF Init
<1>2. [Next]_vars => [Signature!Next]_(Signature!vars)
  BY DEF Next, vars, SignVars, Signature!vars
<1> QED
  BY <1>1, <1>2, PTL DEF Spec, Signature!Spec

LEMMA SimulatesReadSide == Spec => ReadSide!Spec
<1>1. Init => ReadSide!Init
  BY DEF Init
<1>2. [Next]_vars => [ReadSide!Next]_(ReadSide!vars)
  BY DEF Next, vars, ReadVars, ReadSide!vars
<1> QED
  BY <1>1, <1>2, PTL DEF Spec, ReadSide!Spec

LEMMA SimulatesBook == Spec => Book!Spec
<1>1. Init => Book!Init
  BY DEF Init
<1>2. [Next]_vars => [Book!Next]_(Book!vars)
  BY DEF Next, vars, OpeningVars, Book!vars
<1> QED
  BY <1>1, <1>2, PTL DEF Spec, Book!Spec

LEMMA SimulatesDepartment == Spec => Department!Spec
<1>1. Init => Department!Init
  BY DEF Init
<1>2. [Next]_vars => [Department!Next]_(Department!vars)
  BY DEF Next, vars, DepartmentVars, Department!vars
<1> QED
  BY <1>1, <1>2, PTL DEF Spec, Department!Spec


-------------------------------------------------------------------------------
(* Workflow tasks. *)

\* The model values that stand for nobody and nothing are not among the rest.
WorkDistinct ==
  None \notin Clerks \cup Tasks /\ Absent \notin Workflow!Task /\ Bounds.workflow \in Nat

-------------------------------------------------------------------------------
(* The inductive invariant. *)

\* The requests that work on one task are known to overlap.
WorkAlone ==
  \A t \in Tasks, c, d \in Callers :
    c # d /\ Workflow!AtWork(c, t) /\ Workflow!AtWork(d, t) => t \in taskDisturbed

\* What a request works on is there, and its action was legal.
WorkJobsLegal ==
  \A c \in Callers : taskJob[c].step # "idle" =>
    tasks[taskJob[c].task] # Absent /\ taskJob[c].from \in Workflow!AllowedFrom[taskJob[c].action]

\* The entries of h are a path from QUEUED that nothing closed for good.
WorkPath(h) ==
  \A i \in 1..Len(h) :
    h[i].from = Workflow!Before(h, i) /\ Workflow!Before(h, i) \notin {"COMPLETED", "CANCELLED"}

\* The task shows where h ends, and who ended it.
WorkExplains(h, task) ==
  /\ task.status = Workflow!Before(h, Len(h) + 1)
  /\ task.closed_by = IF task.status \in Workflow!ClosedStates THEN h[Len(h)].actor ELSE None

\* The task is as the request that works on it found it, or as it wrote it.
WorkMidway(h, task, j) ==
  /\ j.step = "update" => WorkExplains(h, task) /\ task.status = j.from
  /\ j.step = "append" =>
       /\ j.from = Workflow!Before(h, Len(h) + 1)
       /\ task.status = Workflow!NextState[j.action]
       /\ task.closed_by = IF task.status \in Workflow!ClosedStates THEN j.actor ELSE None

WorkExplained ==
  \A t \in Tasks : t \notin taskDisturbed =>
    /\ WorkPath(history[t])
    /\ tasks[t] = Absent => history[t] = <<>>
    /\ tasks[t] # Absent =>
         /\ (\A c \in Callers : ~Workflow!AtWork(c, t)) => WorkExplains(history[t], tasks[t])
         /\ \A c \in Callers : Workflow!AtWork(c, t) => WorkMidway(history[t], tasks[t], taskJob[c])

WorkIInv == Workflow!TypeOK /\ WorkAlone /\ WorkJobsLegal /\ WorkExplained

-------------------------------------------------------------------------------
(* The path. *)

\* Nothing leaves COMPLETED or CANCELLED, and what leaves REJECTED is a
\* cancellation.
LEMMA WorkTransitionsClose ==
  ASSUME NEW a \in Workflow!Actions, NEW s \in Workflow!AllowedFrom[a]
  PROVE  /\ s \in Workflow!Statuses \ {"COMPLETED", "CANCELLED"}
         /\ Workflow!NextState[a] \in Workflow!Statuses
         /\ s \in Workflow!ClosedStates => Workflow!NextState[a] \in Workflow!ClosedStates
BY DEF Workflow!Actions, Workflow!AllowedFrom, Workflow!NextState, Workflow!Statuses,
   Workflow!ClosedStates

LEMMA WorkAppendExtends ==
  ASSUME NEW h \in Seq(Workflow!Entry), NEW e \in Workflow!Entry, WorkPath(h),
         e.from = Workflow!Before(h, Len(h) + 1),
         e.from \notin {"COMPLETED", "CANCELLED"}
  PROVE  LET g == Append(h, e) IN
         /\ WorkPath(g)
         /\ Workflow!Before(g, Len(g) + 1) = e.to /\ g[Len(g)] = e
<1> DEFINE g == Append(h, e)
<1>1. /\ Len(g) = Len(h) + 1 /\ Len(h) \in Nat
      /\ g[Len(g)] = e
      /\ \A i \in 1..Len(h) : g[i] = h[i]
  OBVIOUS
<1>2. \A i \in 1..Len(g) : Workflow!Before(g, i) = Workflow!Before(h, i)
  BY <1>1 DEF Workflow!Before
<1>3. \A i \in 1..Len(g) : i \in 1..Len(h) \/ i = Len(g)
  BY <1>1
<1> HIDE DEF g
<1>4. WorkPath(g)
  BY <1>1, <1>2, <1>3 DEF WorkPath
<1>5. Workflow!Before(g, Len(g) + 1) = e.to
  BY <1>1 DEF Workflow!Before
<1> QED
  BY <1>1, <1>4, <1>5 DEF g

LEMMA WorkEmptyExplains ==
  ASSUME NEW task, task.status = "QUEUED", task.closed_by = None
  PROVE  WorkPath(<<>>) /\ WorkExplains(<<>>, task)
BY DEF WorkPath, WorkExplains, Workflow!Before, Workflow!ClosedStates

-------------------------------------------------------------------------------
(* The steps. *)

LEMMA WorkInitHolds ==
  ASSUME WorkDistinct, Workflow!Init
  PROVE  WorkIInv
<1>1. Workflow!TypeOK
  BY DEF Workflow!Init, Workflow!TypeOK, WorkDistinct
<1>2. WorkAlone /\ WorkJobsLegal
  BY DEF Workflow!Init, WorkAlone, WorkJobsLegal, Workflow!AtWork, Workflow!Idle
<1>3. WorkExplained
  BY DEF Workflow!Init, WorkExplained, WorkPath, Workflow!AtWork, Workflow!Idle
<1> QED
  BY <1>1, <1>2, <1>3 DEF WorkIInv

LEMMA WorkCreateTaskKeeps ==
  ASSUME WorkDistinct, WorkIInv, NEW t \in Tasks, NEW u \in Clerks \cup {None},
         Workflow!CreateTask(t, u)
  PROVE  WorkIInv'
<1> DEFINE new == [status |-> "QUEUED", assignee |-> u, closed_by |-> None]
<1>1. /\ tasks[t] = Absent /\ tasks' = [tasks EXCEPT ![t] = new]
      /\ UNCHANGED <<history, taskJob, taskHandled, taskDisturbed>>
  BY DEF Workflow!CreateTask
<1>2. new \in Workflow!Task /\ new # Absent
  BY DEF Workflow!Task, Workflow!Statuses, WorkDistinct
<1>3. /\ tasks' \in [Tasks -> Workflow!Task \cup {Absent}] /\ tasks'[t] = new
      /\ \A s \in Tasks : s # t => tasks'[s] = tasks[s]
  BY <1>1, <1>2 DEF WorkIInv, Workflow!TypeOK
<1>4. \A c \in Callers : ~Workflow!AtWork(c, t)
  BY <1>1 DEF WorkIInv, WorkJobsLegal, Workflow!AtWork
<1>5. Workflow!TypeOK' /\ WorkAlone'
  BY <1>1, <1>3 DEF WorkIInv, Workflow!TypeOK, WorkAlone, Workflow!AtWork
<1>6. WorkJobsLegal'
  BY <1>1, <1>2, <1>3 DEF WorkIInv, WorkJobsLegal, Workflow!TypeOK, Workflow!Job, Workflow!Idle
<1>7. WorkExplained'
  <2> SUFFICES ASSUME NEW s \in Tasks, s \notin taskDisturbed
               PROVE  /\ WorkPath(history[s])
                      /\ tasks'[s] = Absent => history[s] = <<>>
                      /\ tasks'[s] # Absent =>
                           /\ (\A c \in Callers : ~Workflow!AtWork(c, s)) =>
                                WorkExplains(history[s], tasks'[s])
                           /\ \A c \in Callers :
                                Workflow!AtWork(c, s) => WorkMidway(history[s], tasks'[s], taskJob[c])
    BY <1>1 DEF WorkExplained, Workflow!AtWork
  <2>1. CASE s = t
    BY <1>1, <1>3, <1>4, <2>1, WorkEmptyExplains DEF WorkIInv, WorkExplained
  <2>2. CASE s # t
    BY <1>3, <2>2 DEF WorkIInv, WorkExplained
  <2> QED
    BY <2>1, <2>2
<1> QED
  BY <1>5, <1>6, <1>7 DEF WorkIInv

LEMMA WorkReadKeeps ==
  ASSUME WorkDistinct, WorkIInv, NEW c \in Callers, NEW t \in Tasks, NEW a \in Workflow!Actions,
         NEW u \in Clerks, NEW v \in Clerks \cup {None}, Workflow!Read(c, t, a, u, v)
  PROVE  WorkIInv'
<1> DEFINE new == [step |-> "update", task |-> t, action |-> a, from |-> tasks[t].status,
                   assignee |-> IF a = "ASSIGN" THEN v ELSE tasks[t].assignee, actor |-> u]
<1>1. /\ taskJob[c] = Workflow!Idle /\ taskHandled < Bounds.workflow /\ taskHandled' = taskHandled + 1
      /\ tasks[t] # Absent /\ tasks[t].status \in Workflow!AllowedFrom[a]
      /\ taskJob' = [taskJob EXCEPT ![c] = new]
      /\ taskDisturbed' = IF \E d \in Callers : Workflow!AtWork(d, t) THEN taskDisturbed \cup {t}
           ELSE taskDisturbed
      /\ UNCHANGED <<tasks, history>>
  BY DEF Workflow!Read
<1>2. tasks[t] \in Workflow!Task
  BY <1>1 DEF WorkIInv, Workflow!TypeOK
<1>3. new \in Workflow!Job
  BY <1>2 DEF Workflow!Job, Workflow!Task
<1>4. /\ taskJob' \in [Callers -> Workflow!Job \cup {Workflow!Idle}] /\ taskJob'[c] = new
      /\ \A d \in Callers : d # c => taskJob'[d] = taskJob[d]
  BY <1>1, <1>3 DEF WorkIInv, Workflow!TypeOK
<1>5. /\ taskDisturbed \subseteq taskDisturbed' /\ taskDisturbed' \subseteq Tasks
      /\ \A s \in Tasks \ {t} : s \in taskDisturbed' => s \in taskDisturbed
  BY <1>1 DEF WorkIInv, Workflow!TypeOK
<1>6. ~Workflow!AtWork(c, t) /\ \A s \in Tasks : ~Workflow!AtWork(c, s)
  BY <1>1 DEF Workflow!AtWork, Workflow!Idle
<1>7. /\ \A s \in Tasks : Workflow!AtWork(c, s)' <=> s = t
      /\ \A d \in Callers, s \in Tasks : d # c => (Workflow!AtWork(d, s)' <=> Workflow!AtWork(d, s))
  BY <1>4 DEF Workflow!AtWork
<1>8. Workflow!TypeOK'
  <2>1. taskHandled' \in 0..Bounds.workflow
    BY <1>1 DEF WorkIInv, Workflow!TypeOK, WorkDistinct
  <2> QED
    BY <1>1, <1>4, <1>5, <2>1 DEF WorkIInv, Workflow!TypeOK
<1>9. WorkAlone'
  <2> SUFFICES ASSUME NEW s \in Tasks, NEW d \in Callers, NEW e \in Callers, d # e,
                      Workflow!AtWork(d, s)', Workflow!AtWork(e, s)'
               PROVE  s \in taskDisturbed'
    BY DEF WorkAlone
  <2>1. CASE d # c /\ e # c
    BY <1>5, <1>7, <2>1 DEF WorkIInv, WorkAlone
  <2>2. CASE d = c \/ e = c
    <3>1. s = t /\ \E k \in Callers : Workflow!AtWork(k, t)
      BY <1>7, <2>2
    <3> QED
      BY <1>1, <3>1
  <2> QED
    BY <2>1, <2>2
<1>10. WorkJobsLegal'
  BY <1>1, <1>4 DEF WorkIInv, WorkJobsLegal
<1>11. WorkExplained'
  <2> SUFFICES ASSUME NEW s \in Tasks, s \notin taskDisturbed'
               PROVE  /\ WorkPath(history[s])
                      /\ tasks[s] = Absent => history[s] = <<>>
                      /\ tasks[s] # Absent =>
                           /\ (\A d \in Callers : ~Workflow!AtWork(d, s)') =>
                                WorkExplains(history[s], tasks[s])
                           /\ \A d \in Callers :
                                Workflow!AtWork(d, s)' =>
                                  WorkMidway(history[s], tasks[s], taskJob'[d])
    BY <1>1 DEF WorkExplained
  <2>1. s \notin taskDisturbed
    BY <1>5
  <2>2. CASE s = t
    <3>1. \A d \in Callers : ~Workflow!AtWork(d, t)
      BY <1>1, <2>2
    <3>2. WorkExplains(history[t], tasks[t])
      BY <1>1, <2>1, <2>2, <3>1 DEF WorkIInv, WorkExplained
    <3>3. \A d \in Callers : Workflow!AtWork(d, t)' => d = c
      BY <1>7, <3>1
    <3>4. WorkMidway(history[t], tasks[t], new)
      BY <3>2 DEF WorkMidway
    <3>5. Workflow!AtWork(c, t)'
      BY <1>7
    <3> QED
      BY <1>1, <1>4, <2>1, <2>2, <3>3, <3>4, <3>5 DEF WorkIInv, WorkExplained
  <2>3. CASE s # t
    <3>1. ~Workflow!AtWork(c, s)' /\ ~Workflow!AtWork(c, s)
      BY <1>6, <1>7, <2>3
    <3>2. \A d \in Callers : Workflow!AtWork(d, s)' =>
            Workflow!AtWork(d, s) /\ taskJob'[d] = taskJob[d]
      BY <1>4, <1>7, <3>1
    <3>3. (\A d \in Callers : ~Workflow!AtWork(d, s)') => \A d \in Callers : ~Workflow!AtWork(d, s)
      BY <1>7, <3>1
    <3> QED
      BY <2>1, <3>2, <3>3 DEF WorkIInv, WorkExplained
  <2> QED
    BY <2>2, <2>3
<1> QED
  BY <1>8, <1>9, <1>10, <1>11 DEF WorkIInv

LEMMA WorkUpdateTaskKeeps ==
  ASSUME WorkDistinct, WorkIInv, NEW c \in Callers, Workflow!UpdateTask(c)
  PROVE  WorkIInv'
<1> DEFINE j == taskJob[c]
           t == j.task
           to == Workflow!NextState[j.action]
           closer == IF to \in Workflow!ClosedStates THEN j.actor ELSE tasks[t].closed_by
           new == [status |-> to, assignee |-> j.assignee, closed_by |-> closer]
<1>1. j.step = "update" /\ j \in Workflow!Job
  BY DEF Workflow!UpdateTask, WorkIInv, Workflow!TypeOK, Workflow!Idle
<1>2. /\ t \in Tasks /\ tasks[t] # Absent /\ tasks[t] \in Workflow!Task
      /\ j.action \in Workflow!Actions
      /\ j.from \in Workflow!AllowedFrom[j.action]
      /\ j.actor \in Clerks
      /\ j.assignee \in Clerks \cup {None}
  BY <1>1 DEF Workflow!Job, WorkIInv, WorkJobsLegal, Workflow!TypeOK
<1>3. /\ tasks' = [tasks EXCEPT ![t] = new]
      /\ taskJob' = [taskJob EXCEPT ![c].step = "append"]
      /\ UNCHANGED <<history, taskHandled, taskDisturbed>>
  BY <1>2 DEF Workflow!UpdateTask, WorkIInv, Workflow!TypeOK
<1>4. new \in Workflow!Task /\ new # Absent
  BY <1>2, WorkTransitionsClose DEF Workflow!Task, WorkDistinct
<1>5. /\ tasks' \in [Tasks -> Workflow!Task \cup {Absent}] /\ tasks'[t] = new
      /\ \A s \in Tasks : s # t => tasks'[s] = tasks[s]
  BY <1>2, <1>3, <1>4 DEF WorkIInv, Workflow!TypeOK
<1>6. /\ taskJob' \in [Callers -> Workflow!Job \cup {Workflow!Idle}]
      /\ taskJob'[c] = [j EXCEPT !.step = "append"]
      /\ \A d \in Callers : d # c => taskJob'[d] = taskJob[d]
  BY <1>1, <1>3 DEF WorkIInv, Workflow!TypeOK, Workflow!Job
<1>7. \A d \in Callers, s \in Tasks : Workflow!AtWork(d, s)' <=> Workflow!AtWork(d, s)
  BY <1>1, <1>6 DEF Workflow!AtWork, Workflow!Job
<1>8. Workflow!TypeOK' /\ WorkAlone'
  BY <1>3, <1>5, <1>6, <1>7 DEF WorkIInv, Workflow!TypeOK, WorkAlone
<1>9. WorkJobsLegal'
  <2> SUFFICES ASSUME NEW d \in Callers, taskJob'[d].step # "idle"
               PROVE  /\ tasks'[taskJob'[d].task] # Absent
                      /\ taskJob'[d].from \in Workflow!AllowedFrom[taskJob'[d].action]
    BY DEF WorkJobsLegal
  <2>1. /\ taskJob'[d].task = taskJob[d].task /\ taskJob'[d].from = taskJob[d].from
        /\ taskJob'[d].action = taskJob[d].action
        /\ taskJob[d].step # "idle"
        /\ taskJob[d] \in Workflow!Job
    <3>1. CASE d = c
      <4>1. j \in Workflow!Job /\ j = taskJob[c] /\ j.step # "idle"
        BY <1>1, <1>2 DEF Workflow!Job
      <4>2. /\ taskJob'[c].task = j.task /\ taskJob'[c].from = j.from /\ taskJob'[c].action = j.action
        BY <1>6, <4>1 DEF Workflow!Job
      <4> QED
        BY <3>1, <4>1, <4>2
    <3>2. CASE d # c
      <4>1. taskJob'[d] = taskJob[d] /\ taskJob[d] \in Workflow!Job \cup {Workflow!Idle}
        BY <1>6, <3>2 DEF WorkIInv, Workflow!TypeOK
      <4>2. taskJob[d] # Workflow!Idle
        BY <2>1, <4>1 DEF Workflow!Idle
      <4> QED
        BY <2>1, <4>1, <4>2
    <3> QED
      BY <3>1, <3>2
  <2> QED
    <3>1. taskJob[d].task \in Tasks /\ tasks[taskJob[d].task] # Absent
      BY <2>1 DEF WorkIInv, WorkJobsLegal, Workflow!Job
    <3>2. tasks'[taskJob[d].task] # Absent
      BY <1>4, <1>5, <3>1
    <3> QED
      BY <2>1, <3>2 DEF WorkIInv, WorkJobsLegal
<1>10. WorkExplained'
  <2> SUFFICES ASSUME NEW s \in Tasks, s \notin taskDisturbed
               PROVE  /\ WorkPath(history[s])
                      /\ tasks'[s] = Absent => history[s] = <<>>
                      /\ tasks'[s] # Absent =>
                           /\ (\A d \in Callers : ~Workflow!AtWork(d, s)) =>
                                WorkExplains(history[s], tasks'[s])
                           /\ \A d \in Callers :
                                Workflow!AtWork(d, s) =>
                                  WorkMidway(history[s], tasks'[s], taskJob'[d])
    BY <1>3, <1>7 DEF WorkExplained
  <2>1. CASE s = t
    <3>1. Workflow!AtWork(c, t)
      BY <1>1 DEF Workflow!AtWork
    <3>2. \A d \in Callers : Workflow!AtWork(d, t) => d = c
      BY <1>2, <2>1, <3>1 DEF WorkIInv, WorkAlone
    <3>3. /\ WorkPath(history[t]) /\ WorkExplains(history[t], tasks[t])
          /\ tasks[t].status = j.from
      BY <1>1, <1>2, <2>1, <3>1 DEF WorkIInv, WorkExplained, WorkMidway
    <3>4. new.closed_by = IF to \in Workflow!ClosedStates THEN j.actor ELSE None
      BY <1>2, <3>3, WorkTransitionsClose DEF WorkExplains
    <3>5. WorkMidway(history[t], new, taskJob'[c])
      BY <1>1, <1>6, <3>3, <3>4 DEF WorkMidway, WorkExplains, Workflow!Job
    <3> QED
      BY <1>4, <1>5, <2>1, <3>1, <3>2, <3>3, <3>5
  <2>2. CASE s # t
    <3>1. \A d \in Callers : Workflow!AtWork(d, s) => taskJob'[d] = taskJob[d]
      BY <1>6, <2>2 DEF Workflow!AtWork
    <3> QED
      BY <1>5, <2>2, <3>1 DEF WorkIInv, WorkExplained
  <2> QED
    BY <2>1, <2>2
<1> QED
  BY <1>8, <1>9, <1>10 DEF WorkIInv

LEMMA WorkAppendTransitionKeeps ==
  ASSUME WorkDistinct, WorkIInv, NEW c \in Callers, Workflow!AppendTransition(c)
  PROVE  WorkIInv'
<1> DEFINE j == taskJob[c]
           t == j.task
           e == [action |-> j.action, from |-> j.from, to |-> Workflow!NextState[j.action],
                 actor |-> j.actor]
<1>1. /\ j.step = "append" /\ j \in Workflow!Job
      /\ history' = [history EXCEPT ![t] = Append(@, e)]
      /\ taskJob' = [taskJob EXCEPT ![c] = Workflow!Idle]
      /\ UNCHANGED <<tasks, taskHandled, taskDisturbed>>
  BY DEF Workflow!AppendTransition, Workflow!Appended, WorkIInv, Workflow!TypeOK, Workflow!Idle
<1>2. /\ t \in Tasks /\ tasks[t] # Absent /\ history[t] \in Seq(Workflow!Entry)
      /\ j.action \in Workflow!Actions
      /\ j.from \in Workflow!AllowedFrom[j.action]
      /\ j.actor \in Clerks
  BY <1>1 DEF Workflow!Job, WorkIInv, WorkJobsLegal, Workflow!TypeOK
<1>3. e \in Workflow!Entry
  BY <1>2, WorkTransitionsClose DEF Workflow!Entry
<1>4. /\ history' \in [Tasks -> Seq(Workflow!Entry)] /\ history'[t] = Append(history[t], e)
      /\ \A s \in Tasks : s # t => history'[s] = history[s]
  BY <1>1, <1>2, <1>3 DEF WorkIInv, Workflow!TypeOK
<1>5. /\ taskJob' \in [Callers -> Workflow!Job \cup {Workflow!Idle}] /\ taskJob'[c] = Workflow!Idle
      /\ \A d \in Callers : d # c => taskJob'[d] = taskJob[d]
  BY <1>1 DEF WorkIInv, Workflow!TypeOK
<1>6. /\ \A s \in Tasks : ~Workflow!AtWork(c, s)'
      /\ \A d \in Callers, s \in Tasks : d # c => (Workflow!AtWork(d, s)' <=> Workflow!AtWork(d, s))
      /\ \A s \in Tasks : Workflow!AtWork(c, s) <=> s = t
  BY <1>1, <1>5 DEF Workflow!AtWork, Workflow!Idle
<1>7. Workflow!TypeOK' /\ WorkAlone'
  <2>1. Workflow!TypeOK'
    BY <1>1, <1>4, <1>5 DEF WorkIInv, Workflow!TypeOK
  <2>2. WorkAlone'
    BY <1>1, <1>6 DEF WorkIInv, WorkAlone
  <2> QED
    BY <2>1, <2>2
<1>8. WorkJobsLegal'
  BY <1>1, <1>5 DEF WorkIInv, WorkJobsLegal, Workflow!Idle
<1>9. WorkExplained'
  <2> SUFFICES ASSUME NEW s \in Tasks, s \notin taskDisturbed
               PROVE  /\ WorkPath(history'[s])
                      /\ tasks[s] = Absent => history'[s] = <<>>
                      /\ tasks[s] # Absent =>
                           /\ (\A d \in Callers : ~Workflow!AtWork(d, s)') =>
                                WorkExplains(history'[s], tasks[s])
                           /\ \A d \in Callers :
                                Workflow!AtWork(d, s)' =>
                                  WorkMidway(history'[s], tasks[s], taskJob'[d])
    BY <1>1 DEF WorkExplained
  <2>1. CASE s = t
    <3>1. Workflow!AtWork(c, t)
      BY <1>2, <1>6
    <3>2. \A d \in Callers : ~Workflow!AtWork(d, s)'
      <4>1. \A d \in Callers : d # c => ~Workflow!AtWork(d, s)
        BY <2>1, <3>1 DEF WorkIInv, WorkAlone
      <4> QED
        BY <1>6, <4>1
    <3>3. /\ WorkPath(history[t])
          /\ j.from = Workflow!Before(history[t], Len(history[t]) + 1)
          /\ tasks[t].status = Workflow!NextState[j.action]
          /\ tasks[t].closed_by = IF tasks[t].status \in Workflow!ClosedStates THEN j.actor ELSE None
      BY <1>1, <1>2, <2>1, <3>1 DEF WorkIInv, WorkExplained, WorkMidway
    <3>4. e.from = j.from /\ e.to = Workflow!NextState[j.action] /\ e.actor = j.actor
      OBVIOUS
    <3>5. e.from \notin {"COMPLETED", "CANCELLED"}
      BY <1>2, WorkTransitionsClose
    <3> HIDE DEF e
    <3>6. /\ WorkPath(history'[t])
          /\ Workflow!Before(history'[t], Len(history'[t]) + 1) = Workflow!NextState[j.action]
          /\ history'[t][Len(history'[t])].actor = j.actor
      BY <1>2, <1>3, <1>4, <3>3, <3>4, <3>5, WorkAppendExtends, SMTT(60)
    <3>7. WorkExplains(history'[t], tasks[t])
      BY <3>3, <3>6 DEF WorkExplains
    <3> QED
      BY <1>2, <2>1, <3>2, <3>6, <3>7
  <2>2. CASE s # t
    <3>1. \A d \in Callers : Workflow!AtWork(d, s)' <=> Workflow!AtWork(d, s)
      BY <1>6, <2>2
    <3>2. \A d \in Callers : Workflow!AtWork(d, s)' => taskJob'[d] = taskJob[d]
      BY <1>5, <1>6
    <3>3. (\A d \in Callers : ~Workflow!AtWork(d, s)') => \A d \in Callers : ~Workflow!AtWork(d, s)
      BY <3>1
    <3>4. /\ WorkPath(history[s])
          /\ tasks[s] = Absent => history[s] = <<>>
          /\ tasks[s] # Absent =>
               /\ (\A d \in Callers : ~Workflow!AtWork(d, s)) => WorkExplains(history[s], tasks[s])
               /\ \A d \in Callers : Workflow!AtWork(d, s) =>
                    WorkMidway(history[s], tasks[s], taskJob[d])
      BY DEF WorkIInv, WorkExplained
    <3>5. history'[s] = history[s]
      BY <1>4, <2>2
    <3> HIDE DEF e
    <3>6. tasks[s] # Absent =>
            \A d \in Callers : Workflow!AtWork(d, s)' => WorkMidway(history[s], tasks[s], taskJob'[d])
      BY <3>1, <3>2, <3>4
    <3> QED
      BY <3>3, <3>4, <3>5, <3>6
  <2> QED
    BY <2>1, <2>2
<1> QED
  BY <1>7, <1>8, <1>9 DEF WorkIInv

LEMMA WorkCutOffKeeps ==
  ASSUME WorkDistinct, WorkIInv, NEW c \in Callers, Workflow!CutOff(c)
  PROVE  WorkIInv'
<1> DEFINE t == taskJob[c].task
<1>1. /\ taskJob[c].step = "append" /\ taskJob[c] \in Workflow!Job
      /\ taskJob' = [taskJob EXCEPT ![c] = Workflow!Idle]
      /\ taskDisturbed' = taskDisturbed \cup {t}
      /\ UNCHANGED <<tasks, history, taskHandled>>
  BY DEF Workflow!CutOff, WorkIInv, Workflow!TypeOK, Workflow!Idle
<1>2. t \in Tasks
  BY <1>1 DEF Workflow!Job
<1>3. /\ taskJob' \in [Callers -> Workflow!Job \cup {Workflow!Idle}] /\ taskJob'[c] = Workflow!Idle
      /\ \A d \in Callers : d # c => taskJob'[d] = taskJob[d]
  BY <1>1 DEF WorkIInv, Workflow!TypeOK
<1>4. \A d \in Callers, s \in Tasks :
        /\ Workflow!AtWork(d, s)' => Workflow!AtWork(d, s) /\ taskJob'[d] = taskJob[d]
        /\ Workflow!AtWork(d, s) /\ ~Workflow!AtWork(d, s)' => s = t
  BY <1>3 DEF Workflow!AtWork, Workflow!Idle
<1>5. Workflow!TypeOK' /\ WorkAlone'
  BY <1>1, <1>2, <1>3, <1>4 DEF WorkIInv, Workflow!TypeOK, WorkAlone
<1>6. WorkJobsLegal'
  BY <1>1, <1>3 DEF WorkIInv, WorkJobsLegal, Workflow!Idle
<1>7. WorkExplained'
  BY <1>1, <1>4 DEF WorkIInv, WorkExplained
<1> QED
  BY <1>5, <1>6, <1>7 DEF WorkIInv

LEMMA WorkStepKeeps ==
  ASSUME WorkDistinct, WorkIInv, [Workflow!Next]_(Workflow!vars)
  PROVE  WorkIInv'
<1>1. CASE UNCHANGED Workflow!vars
  BY <1>1 DEF Workflow!vars, WorkIInv, Workflow!TypeOK, WorkAlone, WorkJobsLegal, WorkExplained,
     Workflow!AtWork
<1>2. ASSUME NEW t \in Tasks, NEW u \in Clerks \cup {None}, Workflow!CreateTask(t, u)
      PROVE  WorkIInv'
  BY <1>2, WorkCreateTaskKeeps
<1>3. ASSUME NEW c \in Callers, NEW t \in Tasks, NEW a \in Workflow!Actions, NEW u \in Clerks,
             NEW v \in Clerks \cup {None}, Workflow!Read(c, t, a, u, v)
      PROVE  WorkIInv'
  BY <1>3, WorkReadKeeps
<1>4. ASSUME NEW c \in Callers, Workflow!UpdateTask(c) PROVE WorkIInv'
  BY <1>4, WorkUpdateTaskKeeps
<1>5. ASSUME NEW c \in Callers, Workflow!AppendTransition(c) PROVE WorkIInv'
  BY <1>5, WorkAppendTransitionKeeps
<1>6. ASSUME NEW c \in Callers, Workflow!CutOff(c) PROVE WorkIInv'
  BY <1>6, WorkCutOffKeeps
<1> QED
  BY <1>1, <1>2, <1>3, <1>4, <1>5, <1>6 DEF Workflow!Next

LEMMA WorkInductive ==
  ASSUME WorkDistinct
  PROVE  Workflow!Spec => []WorkIInv
<1>1. Workflow!Init => WorkIInv
  BY WorkInitHolds
<1>2. WorkIInv /\ [Workflow!Next]_(Workflow!vars) => WorkIInv'
  BY WorkStepKeeps
<1> QED
  BY <1>1, <1>2, PTL DEF Workflow!Spec

-------------------------------------------------------------------------------
(* What follows. *)

\* Types, among them that only known statuses and transitions are written.
LEMMA WorkTypeCorrect ==
  ASSUME WorkDistinct
  PROVE  Workflow!Spec => []Workflow!TypeOK
<1>1. WorkIInv => Workflow!TypeOK
  BY DEF WorkIInv
<1> QED
  BY <1>1, WorkInductive, PTL

\* The transitions that were recorded are a path of the state machine that
\* leads from QUEUED to the status the task shows, and their last actor is
\* the one who closed it, for histories of any length; so it is after every
\* request that was alone with its task and not cut off.
LEMMA WorkHistoryHolds ==
  ASSUME WorkDistinct
  PROVE  Workflow!Spec => []Workflow!HistoryExplains
<1>1. WorkIInv => Workflow!HistoryExplains
  <2> SUFFICES ASSUME WorkIInv, NEW t \in Tasks, tasks[t] # Absent, t \notin taskDisturbed,
                      \A c \in Callers : ~Workflow!AtWork(c, t)
               PROVE  /\ WorkPath(history[t])
                      /\ tasks[t].status = Workflow!Before(history[t], Len(history[t]) + 1)
                      /\ IF tasks[t].status \in Workflow!ClosedStates
                           THEN tasks[t].closed_by = history[t][Len(history[t])].actor
                           ELSE tasks[t].closed_by = None
    BY DEF Workflow!HistoryExplains, WorkPath
  <2> QED
    BY DEF WorkIInv, WorkExplained, WorkExplains
<1> QED
  BY <1>1, WorkInductive, PTL



-------------------------------------------------------------------------------
(* Seniority lists. *)

\* The model values that stand for nobody and nothing are not among the rest.
SenDistinct ==
  /\ None \notin Officers \cup Lists \cup Seniority!Commands \cup Seniority!Types
  /\ Absent \notin Seniority!List
  /\ Bounds.seniority \in Nat

-------------------------------------------------------------------------------
(* The inductive invariant. *)

\* A request that ranks employees has an order of theirs.
SenJobsTyped ==
  /\ lists \in [Lists -> Seniority!List \cup {Absent}]
  /\ listJob \in [Callers -> Seniority!Job \cup {Seniority!Idle}]
  /\ listOverlapped \subseteq Lists
  /\ \A c \in Callers :
       listJob[c].command \in {"OVERRIDE", "PROMOTE"} => listJob[c].ranks \in Rankings

\* The requests that work on one list are known to overlap.
SenAlone ==
  \A c, d \in Callers :
    c # d /\ listJob[c] # Seniority!Idle /\ listJob[d] # Seniority!Idle /\ listJob[c].list = listJob[d].list =>
      listJob[c].list \in listOverlapped

\* What the handler of job j asks of the list it has read.
SenChecked(doc, j) ==
  /\ j.command = "OVERRIDE" => doc.status \in {"DRAFT", "REJECTED"}
  /\ j.command = "SUBMIT" => doc.status \in {"DRAFT", "REJECTED"}
  /\ j.command = "VERIFY" => doc.status = "SUBMITTED" /\ j.actor # doc.submitted_by
  /\ j.command = "APPROVE" =>
       doc.status = "VERIFIED" /\ j.actor \notin {doc.submitted_by, doc.verified_by}
  /\ j.command = "REJECT" => doc.status \in {"SUBMITTED", "VERIFIED"}
  /\ j.command = "PROMOTE" => doc.status = "APPROVED" /\ doc.ranks = j.ranks

\* A list is never removed and never changes its type, so that much of the
\* check holds for good; the rest holds while nobody else works on the list.
SenStillChecked ==
  \A c \in Callers : listJob[c] # Seniority!Idle =>
    LET doc == lists[listJob[c].list] IN
    /\ doc # Absent
    /\ listJob[c].command = "OVERRIDE" => doc.list_type # "FINAL"
    /\ listJob[c].command = "PROMOTE" => doc.list_type \in DOMAIN Seniority!Promoted
    /\ listJob[c].list \notin listOverlapped => SenChecked(doc, listJob[c])

\* The list knows who brought it to its status.
SenSeparated(doc) ==
  /\ doc.status = "SUBMITTED" => doc.submitted_by \in Officers
  /\ doc.status \in {"VERIFIED", "APPROVED"} =>
       {doc.submitted_by, doc.verified_by} \subseteq Officers /\ doc.submitted_by # doc.verified_by
  /\ doc.status = "APPROVED" =>
       doc.approved_by \in Officers \ {doc.submitted_by, doc.verified_by}

SenAllSeparated ==
  \A l \in Lists : lists[l] # Absent /\ l \notin listOverlapped => SenSeparated(lists[l])

SenFaithful(doc, source) ==
  source # Absent /\ source.list_type = "PROVISIONAL" /\ source.status = "APPROVED"
    /\ source.ranks = doc.ranks

SenAllFaithful ==
  \A l \in Lists :
    lists[l] # Absent /\ lists[l].list_type = "FINAL" /\ lists[l].promoted_from # None =>
      /\ lists[lists[l].promoted_from] # Absent
      /\ lists[l].promoted_from \notin listOverlapped =>
           SenFaithful(lists[l], lists[lists[l].promoted_from])

SenIInv == SenJobsTyped /\ SenAlone /\ SenStillChecked /\ SenAllSeparated /\ SenAllFaithful

-------------------------------------------------------------------------------
(* The steps. *)

LEMMA SenIdleHasNoList ==
  ASSUME SenDistinct
  PROVE  /\ Seniority!Idle.list \notin Lists /\ Seniority!Idle.command \notin Seniority!Commands
         /\ Seniority!Idle \notin Seniority!Job
BY DEF SenDistinct, Seniority!Idle, Seniority!Job

LEMMA SenInitHolds ==
  ASSUME SenDistinct, Seniority!Init
  PROVE  SenIInv
<1>1. SenJobsTyped
  BY SenIdleHasNoList DEF Seniority!Init, SenJobsTyped, Seniority!Commands
<1>2. SenAlone /\ SenStillChecked /\ SenAllSeparated /\ SenAllFaithful
  BY DEF Seniority!Init, SenAlone, SenStillChecked, SenAllSeparated, SenAllFaithful
<1> QED
  BY <1>1, <1>2 DEF SenIInv

\* A new document under an unused identifier.
LEMMA SenInsertKeeps ==
  ASSUME SenDistinct, SenIInv, NEW l \in Lists, lists[l] = Absent,
         NEW type \in Seniority!Types, NEW ranks \in Rankings, NEW from \in Lists \cup {None},
         lists' = [lists EXCEPT ![l] = Seniority!NewList(type, ranks, from)],
         type = "FINAL" /\ from # None =>
           lists[from] # Absent
             /\ (from \notin listOverlapped => SenFaithful(Seniority!NewList(type, ranks, from), lists[from])),
         listOverlapped' = listOverlapped,
         listJob' = listJob \/ \E c \in Callers : listJob' = [listJob EXCEPT ![c] = Seniority!Idle]
  PROVE  SenIInv'
<1> DEFINE new == Seniority!NewList(type, ranks, from)
<1>1. /\ new \in Seniority!List /\ new # Absent
      /\ new.status = "DRAFT" /\ new.list_type = type /\ new.promoted_from = from
      /\ new.ranks = ranks
  BY DEF Seniority!NewList, Seniority!List, Seniority!Statuses, SenDistinct
<1>2. /\ lists' \in [Lists -> Seniority!List \cup {Absent}]
      /\ lists'[l] = new
      /\ \A k \in Lists : k # l => lists'[k] = lists[k]
  BY <1>1 DEF SenIInv, SenJobsTyped
<1>3. \A c \in Callers : listJob'[c] = listJob[c] \/ listJob'[c] = Seniority!Idle
  BY DEF SenIInv, SenJobsTyped
<1> HIDE DEF new
<1>4. SenJobsTyped'
  <2>1. listJob' \in [Callers -> Seniority!Job \cup {Seniority!Idle}]
    BY DEF SenIInv, SenJobsTyped
  <2>2. \A c \in Callers :
          listJob'[c].command \in {"OVERRIDE", "PROMOTE"} => listJob'[c].ranks \in Rankings
    BY <1>3, SenIdleHasNoList DEF SenIInv, SenJobsTyped, Seniority!Commands
  <2> QED
    BY <1>2, <2>1, <2>2 DEF SenIInv, SenJobsTyped
<1>5. SenAlone'
  BY <1>3 DEF SenIInv, SenAlone
<1>6. SenStillChecked'
  <2> SUFFICES ASSUME NEW c \in Callers, listJob'[c] # Seniority!Idle
               PROVE  /\ lists'[listJob[c].list] = lists[listJob[c].list]
                      /\ listJob'[c] = listJob[c]
    BY DEF SenIInv, SenStillChecked
  <2>1. listJob'[c] = listJob[c]
    BY <1>3
  <2>2. listJob[c].list \in Lists /\ lists[listJob[c].list] # Absent
    BY <2>1 DEF SenIInv, SenJobsTyped, SenStillChecked, Seniority!Job
  <2> QED
    BY <1>2, <2>1, <2>2
<1>7. SenAllSeparated'
  BY <1>1, <1>2 DEF SenIInv, SenAllSeparated, SenSeparated
<1>8. SenAllFaithful'
  <2> SUFFICES ASSUME NEW k \in Lists, lists'[k] # Absent, lists'[k].list_type = "FINAL",
                      lists'[k].promoted_from # None
               PROVE  LET source == lists'[k].promoted_from IN
                      /\ lists'[source] # Absent
                      /\ source \notin listOverlapped => SenFaithful(lists'[k], lists'[source])
    BY DEF SenAllFaithful
  <2>1. CASE k = l
    <3>1. from \in Lists /\ lists[from] # Absent /\ from # l
      BY <1>1, <1>2, <2>1
    <3> QED
      BY <1>1, <1>2, <2>1, <3>1 DEF new
  <2>2. CASE k # l
    <3>1. lists'[k] = lists[k] /\ lists[k] \in Seniority!List
      BY <1>2, <2>2 DEF SenIInv, SenJobsTyped
    <3>2. lists[k].promoted_from \in Lists
      BY <3>1 DEF Seniority!List
    <3>3. /\ lists[lists[k].promoted_from] # Absent
          /\ lists[k].promoted_from \notin listOverlapped =>
               SenFaithful(lists[k], lists[lists[k].promoted_from])
      BY <3>1 DEF SenIInv, SenAllFaithful
    <3> QED
      BY <1>2, <3>1, <3>2, <3>3
  <2> QED
    BY <2>1, <2>2
<1> QED
  BY <1>4, <1>5, <1>6, <1>7, <1>8 DEF SenIInv

LEMMA SenGenerateKeeps ==
  ASSUME SenDistinct, SenIInv, NEW l \in Lists, NEW type \in Seniority!Types, NEW r \in Rankings,
         Seniority!Generate(l, type, r)
  PROVE  SenIInv'
<1>1. /\ lists[l] = Absent /\ lists' = [lists EXCEPT ![l] = Seniority!NewList(type, r, None)]
      /\ listOverlapped' = listOverlapped /\ listJob' = listJob
  BY DEF Seniority!Generate
<1> QED
  BY <1>1, SenInsertKeeps

LEMMA SenInsertPromotedKeeps ==
  ASSUME SenDistinct, SenIInv, NEW c \in Callers, NEW l \in Lists, Seniority!InsertPromoted(c, l)
  PROVE  SenIInv'
<1> DEFINE j == listJob[c]
           doc == lists[j.list]
<1>1. /\ j.command = "PROMOTE" /\ lists[l] = Absent
      /\ lists' = [lists EXCEPT ![l] = Seniority!NewList(Seniority!Promoted[doc.list_type], j.ranks, j.list)]
      /\ listOverlapped' = listOverlapped /\ listJob' = [listJob EXCEPT ![c] = Seniority!Idle]
  BY DEF Seniority!InsertPromoted, Seniority!Done
<1>2. j # Seniority!Idle /\ j \in Seniority!Job /\ j.ranks \in Rankings
  BY <1>1, SenIdleHasNoList DEF SenIInv, SenJobsTyped, Seniority!Commands
<1>3. j.list \in Lists
  BY <1>2 DEF Seniority!Job
<1>4. /\ doc # Absent /\ doc.list_type \in DOMAIN Seniority!Promoted
      /\ j.list \notin listOverlapped => doc.status = "APPROVED" /\ doc.ranks = j.ranks
  BY <1>1, <1>2 DEF SenIInv, SenStillChecked, SenChecked
<1>5. /\ Seniority!Promoted[doc.list_type] \in Seniority!Types
      /\ Seniority!Promoted[doc.list_type] = "FINAL" => doc.list_type = "PROVISIONAL"
  BY <1>4 DEF Seniority!Promoted, Seniority!Types
<1>6. Seniority!Promoted[doc.list_type] = "FINAL" /\ j.list # None =>
        doc # Absent
          /\ (j.list \notin listOverlapped =>
                SenFaithful(Seniority!NewList(Seniority!Promoted[doc.list_type], j.ranks, j.list), doc))
  BY <1>4, <1>5 DEF SenFaithful, Seniority!NewList
<1> QED
  BY <1>1, <1>2, <1>3, <1>5, <1>6, SenInsertKeeps

\* A request begins: its list is overlapped if another works on it.
LEMMA SenBeginKeeps ==
  ASSUME SenDistinct, SenIInv, NEW c \in Callers, NEW l \in Lists, NEW u \in Officers,
         NEW command \in Seniority!Commands, NEW ranks \in Rankings \cup {None},
         command \in {"OVERRIDE", "PROMOTE"} => ranks \in Rankings,
         Seniority!Begin(c, command, l, u, ranks),
         lists[l] # Absent,
         command = "OVERRIDE" => lists[l].list_type # "FINAL",
         command = "PROMOTE" => lists[l].list_type \in DOMAIN Seniority!Promoted,
         SenChecked(lists[l], [command |-> command, list |-> l, actor |-> u, ranks |-> ranks])
  PROVE  SenIInv'
<1> DEFINE new == [command |-> command, list |-> l, actor |-> u, ranks |-> ranks]
<1>1. /\ listJob[c] = Seniority!Idle /\ listJob' = [listJob EXCEPT ![c] = new] /\ lists' = lists
      /\ listOverlapped' = IF \E d \in Callers : listJob[d].list = l
                         THEN listOverlapped \cup {l} ELSE listOverlapped
  BY DEF Seniority!Begin
<1>2. new \in Seniority!Job /\ new # Seniority!Idle
  BY SenIdleHasNoList DEF Seniority!Job
<1>3. /\ listJob' \in [Callers -> Seniority!Job \cup {Seniority!Idle}]
      /\ listJob'[c] = new
      /\ \A d \in Callers : d # c => listJob'[d] = listJob[d]
  BY <1>1, <1>2 DEF SenIInv, SenJobsTyped
<1>4. /\ listOverlapped \subseteq listOverlapped' /\ listOverlapped' \subseteq Lists
  BY <1>1 DEF SenIInv, SenJobsTyped
<1>5. SenJobsTyped'
  BY <1>1, <1>3, <1>4 DEF SenIInv, SenJobsTyped
<1>6. SenAlone'
  <2> SUFFICES ASSUME NEW d \in Callers, NEW e \in Callers, d # e,
                      listJob'[d] # Seniority!Idle, listJob'[e] # Seniority!Idle,
                      listJob'[d].list = listJob'[e].list
               PROVE  listJob'[d].list \in listOverlapped'
    BY DEF SenAlone
  <2>1. CASE d # c /\ e # c
    BY <1>3, <1>4, <2>1 DEF SenIInv, SenAlone
  <2>2. CASE d = c \/ e = c
    <3>1. \E k \in Callers : listJob[k].list = l
      BY <1>3, <2>2
    <3> QED
      BY <1>1, <1>3, <2>2, <3>1
  <2> QED
    BY <2>1, <2>2
<1>7. SenStillChecked'
  BY <1>1, <1>3, <1>4 DEF SenIInv, SenStillChecked
<1>8. SenAllSeparated' /\ SenAllFaithful'
  BY <1>1, <1>4 DEF SenIInv, SenAllSeparated, SenAllFaithful
<1> QED
  BY <1>5, <1>6, <1>7, <1>8 DEF SenIInv

LEMMA SenHandleKeeps ==
  ASSUME SenDistinct, SenIInv, NEW c \in Callers, NEW l \in Lists, NEW u \in Officers,
         Seniority!Handle(c, l, u)
  PROVE  SenIInv'
<1> USE DEF Seniority!Commands, SenChecked
<1>1. ASSUME NEW r \in Rankings, Seniority!Override(c, l, u, r) PROVE SenIInv'
  BY <1>1, SenBeginKeeps DEF Seniority!Override
<1>2. CASE Seniority!Submit(c, l, u)
  BY <1>2, SenBeginKeeps DEF Seniority!Submit
<1>3. CASE Seniority!Verify(c, l, u)
  BY <1>3, SenBeginKeeps DEF Seniority!Verify
<1>4. CASE Seniority!Approve(c, l, u)
  BY <1>4, SenBeginKeeps DEF Seniority!Approve
<1>5. CASE Seniority!Reject(c, l, u)
  BY <1>5, SenBeginKeeps DEF Seniority!Reject
<1>6. CASE Seniority!Promote(c, l, u)
  <2>1. lists[l].ranks \in Rankings
    BY <1>6 DEF Seniority!Promote, SenIInv, SenJobsTyped, Seniority!List
  <2> QED
    BY <1>6, <2>1, SenBeginKeeps DEF Seniority!Promote
<1> QED
  BY <1>1, <1>2, <1>3, <1>4, <1>5, <1>6 DEF Seniority!Handle

\* What update_list makes of a list that was checked and not touched since.
LEMMA SenWrittenSeparated ==
  ASSUME SenDistinct, NEW doc \in Seniority!List, NEW j \in Seniority!Job, SenSeparated(doc),
         SenChecked(doc, j),
         j.command # "PROMOTE"
  PROVE  SenSeparated(Seniority!Written(doc, j))
<1>1. /\ j.command \in {"OVERRIDE", "SUBMIT", "VERIFY", "APPROVE", "REJECT"}
      /\ j.actor \in Officers
  BY DEF Seniority!Job, Seniority!Commands
<1>2. CASE j.command = "OVERRIDE"
  BY <1>2 DEF Seniority!Written, SenSeparated, SenChecked, Seniority!List
<1>3. CASE j.command = "SUBMIT"
  BY <1>1, <1>3 DEF Seniority!Written, SenSeparated, SenChecked, Seniority!List
<1>4. CASE j.command = "VERIFY"
  BY <1>1, <1>4 DEF Seniority!Written, SenSeparated, SenChecked, Seniority!List
<1>5. CASE j.command = "APPROVE"
  BY <1>1, <1>5 DEF Seniority!Written, SenSeparated, SenChecked, Seniority!List
<1>6. CASE j.command = "REJECT"
  BY <1>6 DEF Seniority!Written, SenSeparated, SenChecked, Seniority!List
<1> QED
  BY <1>1, <1>2, <1>3, <1>4, <1>5, <1>6

LEMMA SenWrittenTyped ==
  ASSUME SenDistinct, NEW doc \in Seniority!List, NEW j \in Seniority!Job, j.command # "PROMOTE",
         j.command = "OVERRIDE" => j.ranks \in Rankings
  PROVE  LET w == Seniority!Written(doc, j) IN
         /\ w \in Seniority!List
         /\ w.list_type = doc.list_type /\ w.promoted_from = doc.promoted_from
         /\ j.command # "OVERRIDE" => w.ranks = doc.ranks
<1>1. /\ j.command \in {"OVERRIDE", "SUBMIT", "VERIFY", "APPROVE", "REJECT"}
      /\ j.actor \in Officers
  BY DEF Seniority!Job, Seniority!Commands
<1>2. CASE j.command = "OVERRIDE"
  BY <1>2 DEF Seniority!Written, Seniority!List
<1>3. CASE j.command = "SUBMIT"
  BY <1>1, <1>3 DEF Seniority!Written, Seniority!List, Seniority!Statuses
<1>4. CASE j.command = "VERIFY"
  BY <1>1, <1>4 DEF Seniority!Written, Seniority!List, Seniority!Statuses
<1>5. CASE j.command = "APPROVE"
  BY <1>1, <1>5 DEF Seniority!Written, Seniority!List, Seniority!Statuses
<1>6. CASE j.command = "REJECT"
  BY <1>6 DEF Seniority!Written, Seniority!List, Seniority!Statuses
<1> QED
  BY <1>1, <1>2, <1>3, <1>4, <1>5, <1>6

LEMMA SenUpdateListKeeps ==
  ASSUME SenDistinct, SenIInv, NEW c \in Callers, Seniority!UpdateList(c)
  PROVE  SenIInv'
<1> DEFINE j == listJob[c]
           l == j.list
           new == Seniority!Written(lists[l], j)
<1>1. /\ j.command \in Seniority!Commands \ {"PROMOTE"}
      /\ lists' = [lists EXCEPT ![l] = new]
      /\ listOverlapped' = listOverlapped /\ listJob' = [listJob EXCEPT ![c] = Seniority!Idle]
  BY DEF Seniority!UpdateList, Seniority!Done, Seniority!Commands
<1>2. j # Seniority!Idle /\ j \in Seniority!Job /\ (j.command = "OVERRIDE" => j.ranks \in Rankings)
  BY <1>1, SenIdleHasNoList DEF SenIInv, SenJobsTyped, Seniority!Commands
<1>3. l \in Lists /\ lists[l] # Absent /\ lists[l] \in Seniority!List
  BY <1>2 DEF SenIInv, SenJobsTyped, SenStillChecked, Seniority!Job
<1>4. /\ new \in Seniority!List /\ new # Absent
      /\ new.list_type = lists[l].list_type /\ new.promoted_from = lists[l].promoted_from
      /\ j.command # "OVERRIDE" => new.ranks = lists[l].ranks
  BY <1>1, <1>2, <1>3, SenWrittenTyped DEF SenDistinct
<1>5. l \notin listOverlapped => SenSeparated(lists[l]) /\ SenChecked(lists[l], j)
  BY <1>2, <1>3 DEF SenIInv, SenStillChecked, SenAllSeparated
<1>6. l \notin listOverlapped => SenSeparated(new)
  BY <1>1, <1>2, <1>3, <1>5, SenWrittenSeparated
<1>7. j.command = "OVERRIDE" => lists[l].list_type # "FINAL"
  BY <1>2 DEF SenIInv, SenStillChecked
<1> HIDE DEF new
<1>8. /\ lists' \in [Lists -> Seniority!List \cup {Absent}]
      /\ lists'[l] = new
      /\ \A k \in Lists : k # l => lists'[k] = lists[k]
  BY <1>1, <1>3, <1>4 DEF SenIInv, SenJobsTyped
<1>9. /\ listJob' \in [Callers -> Seniority!Job \cup {Seniority!Idle}]
      /\ listJob'[c] = Seniority!Idle
      /\ \A d \in Callers : d # c => listJob'[d] = listJob[d]
  BY <1>1 DEF SenIInv, SenJobsTyped
<1>10. SenJobsTyped'
  BY <1>1, <1>8, <1>9, SenIdleHasNoList DEF SenIInv, SenJobsTyped, Seniority!Commands
<1>11. SenAlone'
  BY <1>1, <1>9 DEF SenIInv, SenAlone
<1>12. SenStillChecked'
  <2> SUFFICES ASSUME NEW d \in Callers, listJob'[d] # Seniority!Idle
               PROVE  LET doc == lists'[listJob'[d].list] IN
                      /\ doc # Absent
                      /\ listJob'[d].command = "OVERRIDE" => doc.list_type # "FINAL"
                      /\ listJob'[d].command = "PROMOTE" =>
                           doc.list_type \in DOMAIN Seniority!Promoted
                      /\ listJob'[d].list \notin listOverlapped' => SenChecked(doc, listJob'[d])
    BY DEF SenStillChecked
  <2>1. d # c /\ listJob'[d] = listJob[d] /\ listJob[d] # Seniority!Idle /\ listJob[d].list \in Lists
    BY <1>9 DEF SenIInv, SenJobsTyped, Seniority!Job
  <2>2. CASE listJob[d].list = l
    <3>1. l \in listOverlapped
      BY <1>2, <2>1, <2>2 DEF SenIInv, SenAlone
    <3> QED
      BY <1>1, <1>4, <1>8, <2>1, <2>2, <3>1 DEF SenIInv, SenStillChecked
  <2>3. CASE listJob[d].list # l
    <3>1. lists'[listJob[d].list] = lists[listJob[d].list]
      BY <1>8, <2>1, <2>3
    <3> QED
      BY <1>1, <2>1, <3>1 DEF SenIInv, SenStillChecked
  <2> QED
    BY <2>2, <2>3
<1>13. SenAllSeparated'
  BY <1>1, <1>6, <1>8 DEF SenIInv, SenAllSeparated
<1>14. SenAllFaithful'
  <2> SUFFICES ASSUME NEW k \in Lists, lists'[k] # Absent, lists'[k].list_type = "FINAL",
                      lists'[k].promoted_from # None
               PROVE  LET source == lists'[k].promoted_from IN
                      /\ lists'[source] # Absent
                      /\ source \notin listOverlapped => SenFaithful(lists'[k], lists'[source])
    BY <1>1 DEF SenAllFaithful
  <2> DEFINE source == lists[k].promoted_from
  <2>1. /\ lists[k] # Absent /\ lists[k].list_type = "FINAL"
        /\ lists'[k].promoted_from = source /\ source # None
    BY <1>3, <1>4, <1>8
  <2>2. /\ lists[source] # Absent
        /\ source \notin listOverlapped => SenFaithful(lists[k], lists[source])
    BY <2>1 DEF SenIInv, SenAllFaithful
  <2>3. source \in Lists
    BY <2>1 DEF SenIInv, SenJobsTyped, Seniority!List
  <2>4. lists'[k].ranks = lists[k].ranks
    BY <1>4, <1>7, <1>8, <2>1
  <2>5. CASE source = l
    <3>1. source \in listOverlapped
      BY <1>1, <1>5, <2>2, <2>5 DEF SenFaithful, SenChecked, Seniority!Commands
    <3> QED
      BY <1>4, <1>8, <2>1, <2>5, <3>1
  <2>6. CASE source # l
    BY <1>8, <2>1, <2>2, <2>3, <2>4, <2>6 DEF SenFaithful
  <2> QED
    BY <2>5, <2>6
<1> QED
  BY <1>10, <1>11, <1>12, <1>13, <1>14 DEF SenIInv

LEMMA SenStepKeeps ==
  ASSUME SenDistinct, SenIInv, [Seniority!Next]_(Seniority!vars)
  PROVE  SenIInv'
<1>1. CASE UNCHANGED Seniority!vars
  BY <1>1 DEF Seniority!vars, SenIInv, SenJobsTyped, SenAlone, SenStillChecked, SenAllSeparated,
     SenAllFaithful
<1>2. ASSUME NEW l \in Lists, NEW type \in Seniority!Types, NEW r \in Rankings,
             Seniority!Generate(l, type, r)
      PROVE  SenIInv'
  BY <1>2, SenGenerateKeeps
<1>3. ASSUME NEW c \in Callers, NEW l \in Lists, NEW u \in Officers, Seniority!Handle(c, l, u)
      PROVE  SenIInv'
  BY <1>3, SenHandleKeeps
<1>4. ASSUME NEW c \in Callers, Seniority!UpdateList(c)
      PROVE  SenIInv'
  BY <1>4, SenUpdateListKeeps
<1>5. ASSUME NEW c \in Callers, NEW l \in Lists, Seniority!InsertPromoted(c, l)
      PROVE  SenIInv'
  BY <1>5, SenInsertPromotedKeeps
<1> QED
  BY <1>1, <1>2, <1>3, <1>4, <1>5 DEF Seniority!Next

LEMMA SenInductive ==
  ASSUME SenDistinct
  PROVE  Seniority!Spec => []SenIInv
<1>1. Seniority!Init => SenIInv
  BY SenInitHolds
<1>2. SenIInv /\ [Seniority!Next]_(Seniority!vars) => SenIInv'
  BY SenStepKeeps
<1> QED
  BY <1>1, <1>2, PTL DEF Seniority!Spec

-------------------------------------------------------------------------------
(* What follows. *)

\* Types, among them that ranks are always an order of the employees.
LEMMA SenTypeCorrect ==
  ASSUME SenDistinct
  PROVE  Seniority!Spec => []Seniority!TypeOK
<1> DEFINE Counted == listHandled \in 0..Bounds.seniority
<1>1. Seniority!Init => Counted
  BY DEF Seniority!Init, SenDistinct
<1>2. Counted /\ [Seniority!Next]_(Seniority!vars) => Counted'
  <2> SUFFICES ASSUME Counted, [Seniority!Next]_(Seniority!vars) PROVE Counted'
    OBVIOUS
  <2>1. CASE UNCHANGED Seniority!vars
    BY <2>1 DEF Seniority!vars
  <2>2. ASSUME NEW l \in Lists, NEW type \in Seniority!Types, NEW r \in Rankings,
               Seniority!Generate(l, type, r)
        PROVE  Counted'
    BY <2>2 DEF SenDistinct, Seniority!Generate
  <2>3. ASSUME NEW c \in Callers, NEW l \in Lists, NEW u \in Officers, Seniority!Handle(c, l, u)
        PROVE  Counted'
    BY <2>3 DEF SenDistinct, Seniority!Handle, Seniority!Begin, Seniority!Override,
       Seniority!Submit, Seniority!Verify, Seniority!Approve, Seniority!Reject, Seniority!Promote
  <2>4. ASSUME NEW c \in Callers, Seniority!UpdateList(c)
        PROVE  Counted'
    BY <2>4 DEF Seniority!UpdateList, Seniority!Done
  <2>5. ASSUME NEW c \in Callers, NEW l \in Lists, Seniority!InsertPromoted(c, l)
        PROVE  Counted'
    BY <2>5 DEF Seniority!InsertPromoted, Seniority!Done
  <2> QED
    BY <2>1, <2>2, <2>3, <2>4, <2>5 DEF Seniority!Next
<1>3. SenIInv /\ Counted => Seniority!TypeOK
  BY DEF SenIInv, SenJobsTyped, Seniority!TypeOK
<1> QED
  BY <1>1, <1>2, <1>3, SenInductive, PTL DEF Seniority!Spec

\* Separation of duties, whatever officers and requests there are: a verified
\* list names a verifier who did not submit it, an approved one an approver
\* who did neither, unless two requests overlapped on that very list.
LEMMA SenDutiesHold ==
  ASSUME SenDistinct
  PROVE  Seniority!Spec => []Seniority!DutiesSeparated
<1>1. SenIInv => Seniority!DutiesSeparated
  BY DEF SenIInv, SenAllSeparated, SenSeparated, Seniority!DutiesSeparated
<1> QED
  BY <1>1, SenInductive, PTL

\* A promoted final list ranks the employees as the approved provisional list
\* it was made from does, for good.
LEMMA SenPromotionHolds ==
  ASSUME SenDistinct
  PROVE  Seniority!Spec => []Seniority!FinalIsApproved
<1>1. SenIInv => Seniority!FinalIsApproved
  BY DEF SenIInv, SenAllFaithful, SenFaithful, Seniority!FinalIsApproved
<1> QED
  BY <1>1, SenInductive, PTL


\* The least of some natural numbers.
LEMMA Least ==
  ASSUME NEW T, T \subseteq Nat, T # {}
  PROVE  \E i \in T : \A k \in T : i <= k
<1>1. PICK x \in T : \A y \in T : ~(<<y, x>> \in OpToRel(<, Nat))
  BY NatLessThanWellFounded, WFMin
<1>2. ASSUME NEW y \in T
      PROVE  ~(y < x)
  <2>1. y \in Nat /\ x \in Nat
    BY <1>1
  <2>2. y < x => <<y, x>> \in OpToRel(<, Nat)
    BY <2>1, Zenon DEF OpToRel
  <2> QED
    BY <1>1, <2>2
<1>3. \A y \in T : x <= y
  BY <1>2
<1> QED
  BY <1>3

SignOpened(r) == {i \in DOMAIN Signers : Signers[i] \notin r.signed \cup r.declined}

LEMMA SignTurns ==
  ASSUME NEW r
  PROVE  /\ Signature!Turn(r) = None => Signature!ToSet(Signers) \subseteq r.signed \cup r.declined
         /\ Signature!Turn(r) # None =>
              \E i \in DOMAIN Signers :
                /\ Signature!Turn(r) = Signers[i]
                /\ \A k \in 1..(i - 1) : Signers[k] \in r.signed \cup r.declined
<1>1. DOMAIN Signers = 1..Len(Signers) /\ Len(Signers) \in Nat
  BY SignersAssumption
<1>2. Signature!ToSet(Signers) = {Signers[i] : i \in DOMAIN Signers}
  BY DEF Signature!ToSet
<1>3. CASE SignOpened(r) = {}
  BY <1>1, <1>2, <1>3 DEF Signature!Turn, SignOpened
<1>4. CASE SignOpened(r) # {}
  <2> DEFINE i == CHOOSE i \in SignOpened(r) : \A k \in SignOpened(r) : i <= k
  <2>1. \E j \in SignOpened(r) : \A k \in SignOpened(r) : j <= k
    <3>1. SignOpened(r) \subseteq Nat
      BY <1>1 DEF SignOpened
    <3> QED
      BY <3>1, <1>4, Least
  <2>2. i \in SignOpened(r) /\ \A k \in SignOpened(r) : i <= k
    BY <2>1
  <2>3. Signature!Turn(r) = Signers[i]
    BY <1>4 DEF Signature!Turn, SignOpened
  <2> HIDE DEF i
  <2>4. Signature!Turn(r) # None
    BY <2>2, <2>3, <1>2, SignersAssumption DEF SignOpened
  <2>5. ASSUME NEW k \in 1..(i - 1)
        PROVE  Signers[k] \in r.signed \cup r.declined
    BY <2>2, <1>1 DEF SignOpened
  <2> QED
    BY <2>2, <2>3, <2>4, <2>5 DEF SignOpened
<1> QED
  BY <1>3, <1>4

-------------------------------------------------------------------------------
SignWorking ==
  [step : {"lock", "seal", "write"}, command : {"SIGN", "DECLINE", "CANCEL"},
   actor : Signature!ToSet(Signers) \cup {None}, read : Signature!Request]

SignTInv ==
  /\ request \in Signature!Request \cup {Absent}
  /\ stored \in BOOLEAN /\ sealed \in BOOLEAN /\ copied \in BOOLEAN
  /\ signJob \in [Callers -> SignWorking \cup {Signature!Idle}]
  /\ signHandled \in 0..Bounds.signatures
  /\ answered \subseteq Signature!ToSet(Signers)
  /\ signOverlapped \in BOOLEAN /\ signCut \in BOOLEAN /\ undone \in BOOLEAN

\* What a request may hold: nobody declined it while it is open or after it was
\* completed, and a completed one was signed by all.
SignProper(r) ==
  /\ r.status # "DECLINED" => r.declined = {}
  /\ r.status = "COMPLETED" => r.signed = Signature!ToSet(Signers)

\* The last signature is written behind the lock.
SignLastSeals(j) ==
  /\ SignProper(j.read)
  /\ j.step \in {"lock", "seal"} => j.read.status = "COMPLETED" /\ j.command = "SIGN"
  /\ j.step = "write" /\ j.read.status = "COMPLETED" /\ stored /\ ~undone => sealed
  /\ j.command = "SIGN" => j.actor \in Signature!ToSet(Signers)

SignSealInv ==
  /\ request # Absent => SignProper(request) /\ (request.status = "COMPLETED" /\ stored /\ ~undone => sealed)
  /\ \A c \in Callers : signJob[c] # Signature!Idle => SignLastSeals(signJob[c])
  /\ request = Absent => answered = {} /\ ~sealed /\ \A c \in Callers : signJob[c] = Signature!Idle

SignInOrder(signed) ==
  \A i \in DOMAIN Signers : Signers[i] \in signed => \A k \in 1..i : Signers[k] \in signed

\* One operation at a time: it works on the request as it is.
SignCurrent(j) ==
  /\ request # Absent /\ request.status = "PENDING"
  /\ j.read.signed = IF j.command = "SIGN" THEN request.signed \cup {j.actor} ELSE request.signed
  /\ SignInOrder(j.read.signed)

SignAloneInv ==
  /\ \A c, d \in Callers : signJob[c] # Signature!Idle /\ signJob[d] # Signature!Idle => c = d
  /\ \A c \in Callers : signJob[c] # Signature!Idle => SignCurrent(signJob[c])
  /\ request # Absent => answered = request.signed
  /\ sealed /\ ~signCut /\ request.status # "COMPLETED" =>
       \E c \in Callers : signJob[c] # Signature!Idle /\ signJob[c].read.status = "COMPLETED"
  /\ SignInOrder(answered)

SignIInv == SignTInv /\ SignSealInv /\ (~signOverlapped => SignAloneInv)

LEMMA SignIdleIs ==
  /\ Signature!Idle \notin SignWorking
  /\ Signature!Idle.step = "idle" /\ Signature!Idle.read = Absent
  /\ Absent \notin Signature!Request
BY SignersAssumption DEF Signature!Idle, SignWorking

LEMMA SignInvInit == Signature!Init => SignIInv
<1> SUFFICES ASSUME Signature!Init PROVE SignIInv
  OBVIOUS
<1> USE DEF Signature!Init
<1>1. SignTInv
  <2>1. signHandled \in 0..Bounds.signatures
    BY OfficeBounds
  <2> QED
    BY <2>1 DEF SignTInv
<1>2. SignSealInv
  BY DEF SignSealInv
<1>3. SignAloneInv
  BY DEF SignAloneInv, SignInOrder
<1> QED
  BY <1>1, <1>2, <1>3 DEF SignIInv

\* The request an operation has made of the one it read.
SignMade(r, command, u) ==
  CASE command = "SIGN" -> [r EXCEPT !.signed = @ \cup {u}]
    [] command = "DECLINE" -> [r EXCEPT !.declined = @ \cup {u}, !.status = "DECLINED"]
    [] command = "CANCEL" -> [r EXCEPT !.status = "CANCELLED"]

LEMMA SignBeginKeeps ==
  ASSUME SignIInv, NEW c \in Callers,
         NEW command \in {"SIGN", "DECLINE", "CANCEL"},
         NEW u \in Signature!ToSet(Signers) \cup {None},
         command # "CANCEL" => u \in Signature!ToSet(Signers),
         Signature!Begin(c, command, u)
  PROVE  SignIInv'
<1> DEFINE read == SignMade(request, command, u)
           last == command = "SIGN" /\ Signature!Turn(read) = None
           j == [step |-> IF last THEN "lock" ELSE "write", command |-> command, actor |-> u,
                 read |-> [read EXCEPT !.status = IF last THEN "COMPLETED" ELSE @]]
<1>1. /\ signJob[c] = Signature!Idle /\ request # Absent /\ signHandled < Bounds.signatures
      /\ signJob' = [signJob EXCEPT ![c] = j]
      /\ signHandled' = signHandled + 1
      /\ signOverlapped' = (signOverlapped \/ \E d \in Callers \ {c} : signJob[d] # Signature!Idle)
      /\ UNCHANGED <<request, stored, sealed, copied, answered, signCut, undone>>
  BY DEF Signature!Begin, SignMade
<1>2. request.status = "PENDING" /\ (command # "CANCEL" => u = Signature!Turn(request))
  BY DEF Signature!Begin, Signature!MaySign
<1>3. SignTInv /\ SignSealInv /\ request \in Signature!Request
  BY <1>1 DEF SignIInv, SignTInv
<1>4. request.declined = {}
  BY <1>1, <1>2, <1>3 DEF SignSealInv, SignProper
<1>5. /\ read \in Signature!Request /\ read.status # "COMPLETED"
      /\ read.signed = IF command = "SIGN" THEN request.signed \cup {u} ELSE request.signed
      /\ read.status # "DECLINED" => read.declined = {}
      /\ command = "SIGN" => read.status = "PENDING"
  <2>1. CASE command = "SIGN"
    BY <2>1, <1>2, <1>3, <1>4 DEF SignMade, Signature!Request
  <2>2. CASE command = "DECLINE"
    BY <2>2, <1>2, <1>3, <1>4 DEF SignMade, Signature!Request
  <2>3. CASE command = "CANCEL"
    BY <2>3, <1>2, <1>3, <1>4 DEF SignMade, Signature!Request
  <2> QED
    BY <2>1, <2>2, <2>3
<1>6. last => read.signed = Signature!ToSet(Signers)
  <2> SUFFICES ASSUME last PROVE read.signed = Signature!ToSet(Signers)
    OBVIOUS
  <2> HIDE DEF read
  <2>1. Signature!ToSet(Signers) \subseteq read.signed \cup read.declined
    BY SignTurns
  <2>2. read.declined = {}
    BY <1>5
  <2>3. read.signed \subseteq Signature!ToSet(Signers)
    BY <1>5 DEF Signature!Request
  <2> QED
    BY <2>1, <2>2, <2>3
<1> HIDE DEF read
<1>7. /\ j.read \in Signature!Request
      /\ j.read.signed = read.signed /\ j.read.declined = read.declined
      /\ j.read.status = IF last THEN "COMPLETED" ELSE read.status
  BY <1>5 DEF Signature!Request
<1>8. /\ j \in SignWorking /\ j # Signature!Idle
      /\ j.step = (IF last THEN "lock" ELSE "write") /\ j.command = command /\ j.actor = u
  BY <1>7, SignIdleIs DEF SignWorking
<1>9. SignLastSeals(j)
  BY <1>5, <1>6, <1>7, <1>8 DEF SignLastSeals, SignProper
<1> HIDE DEF j
<1>10. SignTInv'
  BY <1>1, <1>3, <1>8, OfficeBounds DEF SignTInv
<1>11. \A d \in Callers : signJob'[d] = IF d = c THEN j ELSE signJob[d]
  BY <1>1, <1>3 DEF SignTInv
<1>12. SignSealInv'
  BY <1>1, <1>3, <1>9, <1>11 DEF SignSealInv, SignLastSeals, SignProper
<1>13. ASSUME ~signOverlapped' PROVE SignAloneInv'
  <2>1. SignAloneInv /\ \A d \in Callers : signJob[d] = Signature!Idle
    BY <1>1, <1>13 DEF SignIInv
  <2>2. \A d \in Callers : signJob'[d] # Signature!Idle <=> d = c
    BY <2>1, <1>8, <1>11
  <2>3. SignInOrder(j.read.signed)
    <3>1. SignInOrder(request.signed)
      BY <1>1, <2>1 DEF SignAloneInv
    <3>2. CASE command # "SIGN"
      BY <3>1, <3>2, <1>5, <1>7
    <3>3. CASE command = "SIGN"
      <4>1. u = Signature!Turn(request) /\ u # None
        BY <1>2, <3>3, SignersAssumption
      <4>2. PICK i \in DOMAIN Signers : u = Signers[i] /\ \A k \in 1..(i - 1) :
                   Signers[k] \in request.signed
        BY <4>1, <1>4, SignTurns
      <4>3. DOMAIN Signers = 1..Len(Signers) /\ Len(Signers) \in Nat
        BY SignersAssumption
      <4>4. read.signed = request.signed \cup {u}
        BY <1>5, <3>3
      <4>5. ASSUME NEW a \in DOMAIN Signers, Signers[a] \in read.signed, NEW k \in 1..a
            PROVE  Signers[k] \in read.signed
        <5>1. CASE Signers[a] \in request.signed
          BY <5>1, <3>1, <4>4, <4>5 DEF SignInOrder
        <5>2. CASE Signers[a] = u
          <6>1. a = i
            BY <5>2, <4>2, SignersAssumption
          <6>2. k = i \/ k \in 1..(i - 1)
            BY <6>1, <4>3
          <6> QED
            BY <6>2, <4>2, <4>4
        <5> QED
          BY <5>1, <5>2, <4>4, <4>5
      <4> QED
        BY <4>5, <1>7 DEF SignInOrder
    <3> QED
      BY <3>2, <3>3
  <2>4. ASSUME NEW d \in Callers, signJob'[d] # Signature!Idle
        PROVE  SignCurrent(signJob[d])'
    <3>1. signJob'[d] = j
      BY <2>2, <2>4, <1>11
    <3>2. j.command = command /\ j.actor = u
      BY <1>8
    <3> QED
      BY <3>1, <3>2, <1>1, <1>2, <1>5, <1>7, <2>3 DEF SignCurrent, SignInOrder
  <2> QED
    BY <2>1, <2>2, <2>4, <1>1 DEF SignAloneInv, SignInOrder
<1> QED
  BY <1>10, <1>12, <1>13 DEF SignIInv

LEMMA SignCreateKeeps ==
  ASSUME SignIInv, Signature!CreateRequest
  PROVE  SignIInv'
<1>1. /\ request = Absent /\ request' = Signature!NewRequest
      /\ signHandled < Bounds.signatures /\ signHandled' = signHandled + 1
      /\ UNCHANGED <<stored, sealed, copied, signJob, answered, signOverlapped, signCut, undone>>
  BY DEF Signature!CreateRequest
<1>2. SignTInv /\ SignSealInv
  BY DEF SignIInv
<1>3. /\ Signature!NewRequest \in Signature!Request
      /\ Signature!NewRequest.status = "PENDING"
      /\ Signature!NewRequest.declined = {}
      /\ Signature!NewRequest.signed = {}
  BY DEF Signature!NewRequest, Signature!Request
<1>4. SignTInv'
  BY <1>1, <1>2, <1>3, OfficeBounds DEF SignTInv
<1>5. answered = {} /\ ~sealed /\ \A c \in Callers : signJob[c] = Signature!Idle
  BY <1>1, <1>2 DEF SignSealInv
<1>6. request' # Absent
  BY <1>1, <1>3, SignIdleIs
<1>7. SignSealInv'
  BY <1>1, <1>3, <1>5, <1>6 DEF SignSealInv, SignProper
<1>8. SignAloneInv'
  BY <1>1, <1>3, <1>5, <1>6 DEF SignAloneInv, SignInOrder
<1> QED
  BY <1>4, <1>7, <1>8 DEF SignIInv

LEMMA SignRemoveKeeps ==
  ASSUME SignIInv, Signature!RemoveFile
  PROVE  SignIInv'
<1>1. /\ stored' = FALSE
      /\ UNCHANGED <<request, sealed, copied, signJob, signHandled, answered, signOverlapped,
                      signCut, undone>>
  BY DEF Signature!RemoveFile
<1>2. SignTInv'
  BY <1>1 DEF SignIInv, SignTInv
<1>3. SignSealInv'
  BY <1>1 DEF SignIInv, SignSealInv, SignLastSeals, SignProper
<1>4. ~signOverlapped' => SignAloneInv'
  BY <1>1 DEF SignIInv, SignAloneInv, SignCurrent, SignInOrder
<1> QED
  BY <1>2, <1>3, <1>4 DEF SignIInv

LEMMA SignReadRowKeeps ==
  ASSUME SignIInv, Signature!ReadRow
  PROVE  SignIInv'
<1>1. /\ copied' = TRUE
      /\ UNCHANGED <<request, stored, sealed, signJob, signHandled, answered, signOverlapped,
                      signCut, undone>>
  BY DEF Signature!ReadRow
<1>2. SignTInv'
  BY <1>1 DEF SignIInv, SignTInv
<1>3. SignSealInv'
  BY <1>1 DEF SignIInv, SignSealInv, SignLastSeals, SignProper
<1>4. ~signOverlapped' => SignAloneInv'
  BY <1>1 DEF SignIInv, SignAloneInv, SignCurrent, SignInOrder
<1> QED
  BY <1>2, <1>3, <1>4 DEF SignIInv

LEMMA SignWriteRowKeeps ==
  ASSUME SignIInv, Signature!WriteRow
  PROVE  SignIInv'
<1>1. /\ copied' = FALSE /\ sealed' = FALSE /\ undone' = (undone \/ sealed)
      /\ UNCHANGED <<request, stored, signJob, signHandled, answered, signOverlapped, signCut>>
  BY DEF Signature!WriteRow
<1>2. SignTInv'
  BY <1>1 DEF SignIInv, SignTInv
<1>3. SignSealInv'
  BY <1>1 DEF SignIInv, SignSealInv, SignLastSeals, SignProper
<1>4. ~signOverlapped' => SignAloneInv'
  BY <1>1 DEF SignIInv, SignAloneInv, SignCurrent, SignInOrder
<1> QED
  BY <1>2, <1>3, <1>4 DEF SignIInv

LEMMA SignFindKeeps ==
  ASSUME SignIInv, NEW c \in Callers, Signature!FindDocument(c)
  PROVE  SignIInv'
<1> DEFINE j == [signJob[c] EXCEPT !.step = IF stored THEN "seal" ELSE "write"]
<1>1. /\ signJob[c].step = "lock"
      /\ signJob' = [signJob EXCEPT ![c] = j]
      /\ UNCHANGED <<request, stored, sealed, copied, signHandled, answered, signOverlapped,
                      signCut, undone>>
  BY DEF Signature!FindDocument
<1>2. SignTInv /\ SignSealInv
  BY DEF SignIInv
<1>3. signJob[c] \in SignWorking /\ signJob[c] # Signature!Idle
  BY <1>1, <1>2, SignIdleIs DEF SignTInv
<1>4. /\ j \in SignWorking /\ j # Signature!Idle
      /\ j.step = (IF stored THEN "seal" ELSE "write") /\ j.command = signJob[c].command /\ j.actor = signJob[c].actor
      /\ j.read = signJob[c].read
  BY <1>3, SignIdleIs DEF SignWorking
<1> HIDE DEF j
<1>5. \A d \in Callers : signJob'[d] = IF d = c THEN j ELSE signJob[d]
  BY <1>1, <1>2 DEF SignTInv
<1>6. SignTInv'
  BY <1>1, <1>2, <1>4 DEF SignTInv
<1>7. SignLastSeals(signJob[c]) /\ request # Absent /\ signJob[c].read.status = "COMPLETED"
  BY <1>1, <1>2, <1>3 DEF SignSealInv, SignLastSeals
<1>8. SignSealInv'
  <2>1. ASSUME NEW d \in Callers, signJob'[d] # Signature!Idle
        PROVE  SignLastSeals(signJob[d])'
    <3>1. CASE d = c
      BY <3>1, <1>1, <1>4, <1>5, <1>7 DEF SignLastSeals, SignProper
    <3>2. CASE d # c
      <4>1. signJob'[d] = signJob[d] /\ SignLastSeals(signJob[d])
        BY <3>2, <2>1, <1>2, <1>5 DEF SignSealInv
      <4> QED
        BY <4>1, <1>1 DEF SignLastSeals, SignProper
    <3> QED
      BY <3>1, <3>2
  <2>2. request' # Absent
    BY <1>1, <1>7
  <2> QED
    BY <2>1, <2>2, <1>1, <1>2, <1>7 DEF SignSealInv, SignProper
<1>9. ASSUME ~signOverlapped' PROVE SignAloneInv'
  <2>1. SignAloneInv
    BY <1>1, <1>9 DEF SignIInv
  <2>2. \A d \in Callers : signJob'[d] # Signature!Idle <=> signJob[d] # Signature!Idle
    BY <1>3, <1>4, <1>5
  <2>3. ASSUME NEW d \in Callers, signJob'[d] # Signature!Idle
        PROVE  SignCurrent(signJob[d])'
    <3>1. SignCurrent(signJob[d])
      BY <2>1, <2>2, <2>3 DEF SignAloneInv
    <3> QED
      BY <3>1, <1>1, <1>4, <1>5 DEF SignCurrent, SignInOrder
  <2>4. signJob'[c].read.status = "COMPLETED"
    BY <1>4, <1>5, <1>7
  <2> QED
    BY <2>1, <2>2, <2>3, <2>4, <1>1, <1>3 DEF SignAloneInv, SignInOrder
<1> QED
  BY <1>6, <1>8, <1>9 DEF SignIInv

LEMMA SignLockKeeps ==
  ASSUME SignIInv, NEW c \in Callers, Signature!WriteLock(c)
  PROVE  SignIInv'
<1> DEFINE j == [signJob[c] EXCEPT !.step = "write"]
<1>1. /\ signJob[c].step = "seal"
      /\ sealed' = TRUE
      /\ signJob' = [signJob EXCEPT ![c] = j]
      /\ UNCHANGED <<request, stored, copied, signHandled, answered, signOverlapped, signCut, undone>>
  BY DEF Signature!WriteLock
<1>2. SignTInv /\ SignSealInv
  BY DEF SignIInv
<1>3. signJob[c] \in SignWorking /\ signJob[c] # Signature!Idle
  BY <1>1, <1>2, SignIdleIs DEF SignTInv
<1>4. /\ j \in SignWorking /\ j # Signature!Idle
      /\ j.step = "write" /\ j.command = signJob[c].command /\ j.actor = signJob[c].actor
      /\ j.read = signJob[c].read
  BY <1>3, SignIdleIs DEF SignWorking
<1> HIDE DEF j
<1>5. \A d \in Callers : signJob'[d] = IF d = c THEN j ELSE signJob[d]
  BY <1>1, <1>2 DEF SignTInv
<1>6. SignTInv'
  BY <1>1, <1>2, <1>4 DEF SignTInv
<1>7. SignLastSeals(signJob[c]) /\ request # Absent /\ signJob[c].read.status = "COMPLETED"
  BY <1>1, <1>2, <1>3 DEF SignSealInv, SignLastSeals
<1>8. SignSealInv'
  <2>1. ASSUME NEW d \in Callers, signJob'[d] # Signature!Idle
        PROVE  SignLastSeals(signJob[d])'
    <3>1. CASE d = c
      BY <3>1, <1>1, <1>4, <1>5, <1>7 DEF SignLastSeals, SignProper
    <3>2. CASE d # c
      <4>1. signJob'[d] = signJob[d] /\ SignLastSeals(signJob[d])
        BY <3>2, <2>1, <1>2, <1>5 DEF SignSealInv
      <4> QED
        BY <4>1, <1>1 DEF SignLastSeals, SignProper
    <3> QED
      BY <3>1, <3>2
  <2>2. request' # Absent
    BY <1>1, <1>7
  <2> QED
    BY <2>1, <2>2, <1>1, <1>2, <1>7 DEF SignSealInv, SignProper
<1>9. ASSUME ~signOverlapped' PROVE SignAloneInv'
  <2>1. SignAloneInv
    BY <1>1, <1>9 DEF SignIInv
  <2>2. \A d \in Callers : signJob'[d] # Signature!Idle <=> signJob[d] # Signature!Idle
    BY <1>3, <1>4, <1>5
  <2>3. ASSUME NEW d \in Callers, signJob'[d] # Signature!Idle
        PROVE  SignCurrent(signJob[d])'
    <3>1. SignCurrent(signJob[d])
      BY <2>1, <2>2, <2>3 DEF SignAloneInv
    <3> QED
      BY <3>1, <1>1, <1>4, <1>5 DEF SignCurrent, SignInOrder
  <2>4. signJob'[c].read.status = "COMPLETED"
    BY <1>4, <1>5, <1>7
  <2> QED
    BY <2>1, <2>2, <2>3, <2>4, <1>1, <1>3 DEF SignAloneInv, SignInOrder
<1> QED
  BY <1>6, <1>8, <1>9 DEF SignIInv

LEMMA SignUpsertKeeps ==
  ASSUME SignIInv, NEW c \in Callers, Signature!Upsert(c)
  PROVE  SignIInv'
<1>1. /\ signJob[c].step = "write"
      /\ request' = signJob[c].read
      /\ answered' = IF signJob[c].command = "SIGN" THEN answered \cup {signJob[c].actor}
           ELSE answered
      /\ signJob' = [signJob EXCEPT ![c] = Signature!Idle]
      /\ UNCHANGED <<stored, sealed, copied, signHandled, signOverlapped, signCut, undone>>
  BY DEF Signature!Upsert
<1>2. SignTInv /\ SignSealInv
  BY DEF SignIInv
<1>3. /\ signJob[c] \in SignWorking
      /\ signJob[c] # Signature!Idle
      /\ signJob[c].read \in Signature!Request
  BY <1>1, <1>2, SignIdleIs DEF SignTInv, SignWorking
<1>4. SignLastSeals(signJob[c])
  BY <1>2, <1>3 DEF SignSealInv
<1>5. \A d \in Callers : signJob'[d] = IF d = c THEN Signature!Idle ELSE signJob[d]
  BY <1>1, <1>2 DEF SignTInv
<1>6. request' # Absent
  BY <1>1, <1>3, SignIdleIs
<1>7. SignTInv'
  BY <1>1, <1>2, <1>3, <1>4 DEF SignTInv, SignLastSeals
<1>8. SignSealInv'
  BY <1>1, <1>2, <1>4, <1>5, <1>6 DEF SignSealInv, SignLastSeals, SignProper
<1>9. ASSUME ~signOverlapped' PROVE SignAloneInv'
  <2>1. SignAloneInv
    BY <1>1, <1>9 DEF SignIInv
  <2>2. \A d \in Callers : signJob'[d] = Signature!Idle
    BY <1>3, <1>5, <2>1 DEF SignAloneInv
  <2>3. SignCurrent(signJob[c]) /\ answered = request.signed
    BY <1>3, <2>1 DEF SignAloneInv, SignCurrent
  <2>4. answered' = signJob[c].read.signed
    BY <1>1, <2>3 DEF SignCurrent
  <2>5. SignInOrder(answered)'
    BY <2>3, <2>4 DEF SignCurrent, SignInOrder
  <2>6. sealed /\ ~signCut => signJob[c].read.status = "COMPLETED"
    BY <1>3, <2>1, <2>3 DEF SignAloneInv, SignCurrent
  <2> QED
    BY <2>2, <2>4, <2>5, <2>6, <1>1 DEF SignAloneInv
<1> QED
  BY <1>7, <1>8, <1>9 DEF SignIInv

LEMMA SignCutOffKeeps ==
  ASSUME SignIInv, NEW c \in Callers, Signature!CutOff(c)
  PROVE  SignIInv'
<1>1. /\ signJob[c] # Signature!Idle
      /\ signCut' = (signCut \/ signJob[c].read.status = "COMPLETED")
      /\ signJob' = [signJob EXCEPT ![c] = Signature!Idle]
      /\ UNCHANGED <<request, stored, sealed, copied, signHandled, answered, signOverlapped,
                      undone>>
  BY DEF Signature!CutOff
<1>2. SignTInv /\ SignSealInv
  BY DEF SignIInv
<1>3. signJob[c] # Signature!Idle
  BY <1>1
<1>4. \A d \in Callers : signJob'[d] = IF d = c THEN Signature!Idle ELSE signJob[d]
  BY <1>1, <1>2 DEF SignTInv
<1>5. SignTInv'
  BY <1>1, <1>2 DEF SignTInv
<1>6. SignSealInv'
  BY <1>1, <1>2, <1>4 DEF SignSealInv, SignLastSeals, SignProper
<1>7. ASSUME ~signOverlapped' PROVE SignAloneInv'
  <2>1. SignAloneInv
    BY <1>1, <1>7 DEF SignIInv
  <2>2. \A d \in Callers : signJob'[d] = Signature!Idle
    BY <1>3, <1>4, <2>1 DEF SignAloneInv
  <2>3. sealed /\ ~signCut' => request.status = "COMPLETED"
    BY <1>1, <1>3, <2>1 DEF SignAloneInv
  <2> QED
    BY <2>1, <2>2, <2>3, <1>1 DEF SignAloneInv, SignInOrder
<1> QED
  BY <1>5, <1>6, <1>7 DEF SignIInv

LEMMA SignInvNext == SignIInv /\ [Signature!Next]_(Signature!vars) => SignIInv'
<1> SUFFICES ASSUME SignIInv, [Signature!Next]_(Signature!vars) PROVE SignIInv'
  OBVIOUS
<1>1. CASE Signature!CreateRequest
  BY <1>1, SignCreateKeeps
<1>2. CASE Signature!RemoveFile
  BY <1>2, SignRemoveKeeps
<1>3. ASSUME NEW c \in Callers, NEW u \in Signature!ToSet(Signers),
             NEW command \in {"SIGN", "DECLINE"},
             Signature!Begin(c, command, u)
      PROVE  SignIInv'
  BY <1>3, SignBeginKeeps
<1>4. ASSUME NEW c \in Callers, Signature!Begin(c, "CANCEL", None) PROVE SignIInv'
  BY <1>4, SignBeginKeeps
<1>5. ASSUME NEW c \in Callers, Signature!WriteLock(c) PROVE SignIInv'
  BY <1>5, SignLockKeeps
<1>9. ASSUME NEW c \in Callers, Signature!FindDocument(c) PROVE SignIInv'
  BY <1>9, SignFindKeeps
<1>10. CASE Signature!ReadRow
  BY <1>10, SignReadRowKeeps
<1>11. CASE Signature!WriteRow
  BY <1>11, SignWriteRowKeeps
<1>6. ASSUME NEW c \in Callers, Signature!Upsert(c) PROVE SignIInv'
  BY <1>6, SignUpsertKeeps
<1>7. ASSUME NEW c \in Callers, Signature!CutOff(c) PROVE SignIInv'
  BY <1>7, SignCutOffKeeps
<1>8. CASE UNCHANGED Signature!vars
  <2>1. UNCHANGED <<request, stored, sealed, copied, signJob, signHandled, answered, signOverlapped,
                  signCut, undone>>
    BY <1>8 DEF Signature!vars
  <2>2. SignTInv'
    BY <2>1 DEF SignIInv, SignTInv
  <2>3. SignSealInv'
    BY <2>1 DEF SignIInv, SignSealInv, SignLastSeals, SignProper
  <2>4. ~signOverlapped' => SignAloneInv'
    BY <2>1 DEF SignIInv, SignAloneInv, SignCurrent, SignInOrder
  <2> QED
    BY <2>2, <2>3, <2>4 DEF SignIInv
<1> QED
  BY <1>1, <1>2, <1>3, <1>4, <1>5, <1>6, <1>7, <1>8, <1>9, <1>10, <1>11 DEF Signature!Next

LEMMA SignInvariance == Signature!Spec => []SignIInv
BY SignInvInit, SignInvNext, PTL DEF Signature!Spec

LEMMA SignTypes == SignIInv => Signature!TypeOK
<1> SUFFICES ASSUME SignIInv PROVE Signature!TypeOK
  OBVIOUS
<1>1. SignTInv
  BY DEF SignIInv
<1>2. \A c \in Callers : signJob[c] = Signature!Idle \/ signJob[c].read \in Signature!Request
  BY <1>1 DEF SignTInv, SignWorking
<1> QED
  BY <1>1, <1>2 DEF Signature!TypeOK, SignTInv

LEMMA SignSeals == SignIInv => Signature!SignedMeansSealed
<1> SUFFICES ASSUME SignIInv PROVE Signature!SignedMeansSealed
  OBVIOUS
<1>1. SignTInv /\ SignSealInv
  BY DEF SignIInv
<1>2. request # Absent /\ request.status = "COMPLETED" =>
        request.signed = Signature!ToSet(Signers) /\ (stored /\ ~undone => sealed)
  BY <1>1 DEF SignSealInv, SignProper
<1>3. ASSUME ~signOverlapped, sealed, ~signCut, request.status # "COMPLETED"
      PROVE  \E c \in Callers : signJob[c].read # Absent /\ signJob[c].read.status = "COMPLETED"
  <2>1. PICK c \in Callers : signJob[c] # Signature!Idle /\ signJob[c].read.status = "COMPLETED"
    BY <1>3 DEF SignIInv, SignAloneInv
  <2>2. signJob[c].read \in Signature!Request
    BY <2>1, <1>1 DEF SignTInv, SignWorking
  <2> QED
    BY <2>1, <2>2, SignIdleIs
<1>4. ~signOverlapped => (request # Absent => answered = request.signed) /\ SignInOrder(answered)
  BY DEF SignIInv, SignAloneInv
<1> QED
  BY <1>2, <1>3, <1>4 DEF Signature!SignedMeansSealed, SignInOrder



-------------------------------------------------------------------------------
(* The Service Book's read side. *)

ReadRow == [name : PayNames, key : RequestKeys \cup {None}]

ReadEvent ==
  [name : Names, part : BookParts \cup {None}, row : ReadSide!Events \cup {None},
   key : RequestKeys \cup {None}, status : {"PENDING", "SENT", "DEAD"}, attempts : 0..MaxAttempts]

ReadCurrent == [event : ReadSide!Events, step : {"enter", "patch", "others"}]

ReadTInv ==
  /\ bookTransactions \in BOOLEAN /\ retried \in BOOLEAN /\ payCut \in BOOLEAN
  /\ ledger \in Seq(ReadRow) /\ Len(ledger) <= MaxEvents
  /\ outbox \in Seq(ReadEvent) /\ Len(outbox) <= MaxEvents
  /\ payJob \in [Callers -> ReadSide!Events \cup {None}]
  /\ current \in ReadCurrent \cup {ReadSide!Nothing}
  /\ bookEntries \in [ReadSide!Events -> {0, 1}]
  /\ parts \in [BookParts -> ReadSide!Events \cup {None}]

\* The event that is published is not sent yet, and is entered before it is
\* patched in.
ReadPublishing ==
  current # ReadSide!Nothing =>
    /\ current.event \in 1..Len(outbox)
    /\ outbox[current.event].status = "PENDING"
    /\ current.step # "enter" => bookEntries[current.event] = 1
    /\ current.step = "others" =>
         \A p \in BookParts : outbox[current.event].part = p => parts[p] = current.event

ReadEntered ==
  /\ \A e \in 1..Len(outbox) :
       /\ outbox[e].status = "SENT" => bookEntries[e] = 1
       /\ outbox[e].status = "PENDING" => outbox[e].attempts < MaxAttempts
  /\ \A p \in BookParts : parts[p] # None =>
       /\ parts[p] \in 1..Len(outbox)
       /\ bookEntries[parts[p]] = 1 /\ outbox[parts[p]].part = p

\* Without a failure the events are sent in their order.
ReadInLine ==
  /\ \A e \in 1..Len(outbox) : outbox[e].attempts = 0 /\ outbox[e].status # "DEAD"
  /\ \A e \in 1..Len(outbox) :
       outbox[e].status = "SENT" \/ (current # ReadSide!Nothing /\ current.event = e) =>
         \A d \in 1..(e - 1) : outbox[d].status = "SENT"
  /\ \A p \in BookParts : \A e \in 1..Len(outbox) :
       outbox[e].status = "SENT" /\ outbox[e].part = p => parts[p] # None /\ parts[p] >= e

\* An event of the row, or of another one of its name with its key.
ReadAnnounces(entry, event, r) ==
  event.row = r \/ (entry.key # None /\ event.name = entry.name /\ event.key = entry.key)

ReadPaid ==
  /\ \A c \in Callers : payJob[c] # None => payJob[c] \in 1..Len(ledger)
  /\ \A e \in 1..Len(outbox) :
       /\ outbox[e].row # None => outbox[e].row \in 1..Len(ledger)
       /\ outbox[e].name \in PayNames =>
            /\ outbox[e].row # None
            /\ ledger[outbox[e].row] = [name |-> outbox[e].name, key |-> outbox[e].key]
  /\ ~payCut => \A r \in 1..Len(ledger) :
       (\E c \in Callers : payJob[c] = r)
         \/ (\E e \in 1..Len(outbox) : ReadAnnounces(ledger[r], outbox[e], r))

\* A row is one request's or one event's.
ReadOnce ==
  /\ \A c, d \in Callers : payJob[c] # None /\ payJob[c] = payJob[d] => c = d
  /\ \A c \in Callers, e \in 1..Len(outbox) : payJob[c] # None => outbox[e].row # payJob[c]
  /\ \A d, e \in 1..Len(outbox) : outbox[d].row # None /\ outbox[d].row = outbox[e].row => d = e

ReadIInv ==
  /\ ReadTInv /\ ReadPublishing /\ ReadEntered /\ (~retried => ReadInLine)
  /\ ReadPaid /\ ReadOnce

LEMMA ReadNothingIs ==
  ReadSide!Nothing.event = None /\ ReadSide!Nothing.step = "idle" /\ ReadSide!Nothing \notin ReadCurrent /\ None \notin ReadSide!Events
BY BookAssumption DEF ReadSide!Nothing, ReadCurrent, ReadSide!Events

LEMMA ReadInvInit == ReadSide!Init => ReadIInv
<1> SUFFICES ASSUME ReadSide!Init PROVE ReadIInv
  OBVIOUS
<1> USE DEF ReadSide!Init
<1>1. ReadTInv
  <2>1. ledger \in Seq(ReadRow) /\ Len(ledger) = 0
    OBVIOUS
  <2>2. outbox \in Seq(ReadEvent) /\ Len(outbox) = 0
    OBVIOUS
  <2>3. 0 <= MaxEvents
    BY BookAssumption
  <2>4. bookEntries \in [ReadSide!Events -> {0, 1}]
    OBVIOUS
  <2> QED
    BY <2>1, <2>2, <2>3, <2>4 DEF ReadTInv
<1>2. ReadPublishing /\ ReadEntered /\ ReadInLine /\ ReadPaid /\ ReadOnce
  BY DEF ReadPublishing, ReadEntered, ReadInLine, ReadPaid, ReadOnce
<1> QED
  BY <1>1, <1>2 DEF ReadIInv

\* What add_event leaves in the outbox: the event, or one with its key.
ReadAdded(name, part, row, key) ==
  /\ outbox' \in Seq(ReadEvent) /\ Len(outbox') <= MaxEvents
  /\ \A i \in 1..Len(outbox) : i \in 1..Len(outbox') /\ outbox'[i] = outbox[i]
  /\ \A i \in 1..Len(outbox') : i \notin 1..Len(outbox) =>
       i = Len(outbox) + 1 /\ outbox'[i] = ReadSide!NewEvent(name, part, row, key)
  /\ \E i \in 1..Len(outbox') :
       \/ outbox'[i].row = row
       \/ key # None /\ outbox'[i].name = name /\ outbox'[i].key = key

LEMMA ReadEventAdded ==
  ASSUME ReadTInv, NEW name \in Names, NEW part \in BookParts \cup {None},
         NEW row \in ReadSide!Events \cup {None}, NEW key \in RequestKeys \cup {None},
         Len(outbox) < MaxEvents, ReadSide!AddEvent(name, part, row, key)
  PROVE  ReadAdded(name, part, row, key)
<1> DEFINE e == ReadSide!NewEvent(name, part, row, key)
<1>1. e \in ReadEvent /\ e.row = row
  BY BookAssumption DEF ReadSide!NewEvent, ReadEvent
<1>2. outbox \in Seq(ReadEvent) /\ Len(outbox) \in Nat
  BY DEF ReadTInv
<1>3. CASE outbox' = Append(outbox, e)
  <2> HIDE DEF e
  <2>1. /\ outbox' \in Seq(ReadEvent) /\ Len(outbox') = Len(outbox) + 1
        /\ \A i \in 1..Len(outbox) : outbox'[i] = outbox[i]
        /\ outbox'[Len(outbox) + 1] = e
    BY <1>1, <1>2, <1>3
  <2>2. Len(outbox) + 1 \in 1..Len(outbox') /\ Len(outbox') <= MaxEvents
    BY <1>2, <2>1, BookAssumption
  <2>3. \A i \in 1..Len(outbox') : i \notin 1..Len(outbox) => i = Len(outbox) + 1
    BY <1>2, <2>1
  <2>4. \A i \in 1..Len(outbox) : i \in 1..Len(outbox')
    BY <1>2, <2>1
  <2> QED
    BY <1>1, <2>1, <2>2, <2>3, <2>4 DEF e, ReadAdded
<1>4. CASE /\ outbox' = outbox /\ key # None
           /\ \E i \in 1..Len(outbox) : outbox[i].name = name /\ outbox[i].key = key
  BY <1>2, <1>4 DEF ReadTInv, ReadAdded
<1> QED
  BY <1>3, <1>4 DEF ReadSide!AddEvent

LEMMA ReadNewEventIs ==
  ASSUME NEW name, NEW part, NEW row, NEW key
  PROVE  /\ ReadSide!NewEvent(name, part, row, key).status = "PENDING"
         /\ ReadSide!NewEvent(name, part, row, key).attempts = 0
         /\ ReadSide!NewEvent(name, part, row, key).name = name
         /\ ReadSide!NewEvent(name, part, row, key).row = row
         /\ ReadSide!NewEvent(name, part, row, key).key = key
BY DEF ReadSide!NewEvent

\* What the subscriber has done stays, with the event or without it.
LEMMA ReadPendingAdded ==
  ASSUME ReadTInv, ReadPublishing, ReadEntered,
         \A i \in 1..Len(outbox) : i \in 1..Len(outbox') /\ outbox'[i] = outbox[i],
         \A i \in 1..Len(outbox') : i \notin 1..Len(outbox) =>
           i = Len(outbox) + 1 /\ outbox'[i].status = "PENDING" /\ outbox'[i].attempts = 0,
         UNCHANGED <<current, bookEntries, parts, retried>>
  PROVE  ReadPublishing' /\ ReadEntered' /\ (ReadInLine => ReadInLine')
<1>1. ReadPublishing'
  BY DEF ReadPublishing
<1>2. ReadEntered'
  <2>1. ASSUME NEW i \in 1..Len(outbox')
        PROVE  /\ outbox'[i].status = "SENT" => bookEntries'[i] = 1
               /\ outbox'[i].status = "PENDING" => outbox'[i].attempts < MaxAttempts
    <3>1. CASE i \in 1..Len(outbox)
      BY <3>1 DEF ReadEntered
    <3>2. CASE i \notin 1..Len(outbox)
      BY <3>2, BookAssumption
    <3> QED
      BY <3>1, <3>2
  <2>2. ASSUME NEW p \in BookParts, parts'[p] # None
        PROVE  /\ parts'[p] \in 1..Len(outbox')
               /\ bookEntries'[parts'[p]] = 1 /\ outbox'[parts'[p]].part = p
    BY <2>2 DEF ReadEntered
  <2> QED
    BY <2>1, <2>2 DEF ReadEntered
<1>3. ASSUME ReadInLine PROVE ReadInLine'
  <2>1. \A i \in 1..Len(outbox') : outbox'[i].attempts = 0 /\ outbox'[i].status # "DEAD"
    BY <1>3 DEF ReadInLine
  <2>2. ASSUME NEW i \in 1..Len(outbox'),
               outbox'[i].status = "SENT" \/ (current # ReadSide!Nothing /\ current.event = i),
               NEW d \in 1..(i - 1)
        PROVE  outbox'[d].status = "SENT"
    <3>1. i \in 1..Len(outbox)
      BY <2>2 DEF ReadPublishing
    <3>2. outbox[d].status = "SENT"
      BY <3>1, <2>2, <1>3 DEF ReadInLine
    <3>3. d \in 1..Len(outbox)
      BY <3>1 DEF ReadTInv
    <3> QED
      BY <3>2, <3>3
  <2>3. ASSUME NEW p \in BookParts, NEW i \in 1..Len(outbox'),
               outbox'[i].status = "SENT", outbox'[i].part = p
        PROVE  parts'[p] # None /\ parts'[p] >= i
    <3>1. i \in 1..Len(outbox)
      BY <2>3
    <3> QED
      BY <3>1, <2>3, <1>3 DEF ReadInLine
  <2> QED
    BY <2>1, <2>2, <2>3 DEF ReadInLine
<1> QED
  BY <1>1, <1>2, <1>3

LEMMA ReadRevisePayKeeps ==
  ASSUME ReadIInv, NEW c \in Callers, ReadSide!RevisePay(c)
  PROVE  ReadIInv'
<1>1. /\ payJob[c] = None /\ Len(outbox) < MaxEvents /\ Len(ledger) < MaxEvents
      /\ UNCHANGED <<bookTransactions, current, bookEntries, parts, retried, payCut>>
  BY DEF ReadSide!RevisePay, ReadSide!Room
<1>2. PICK name \in PayNames, key \in RequestKeys \cup {None} :
        /\ ledger' = Append(ledger, [name |-> name, key |-> key])
        /\ IF bookTransactions
             THEN ReadSide!AddEvent(name, PayPart, Len(ledger) + 1, key) /\ UNCHANGED payJob
             ELSE /\ payJob' = [payJob EXCEPT ![c] = Len(ledger) + 1]
                  /\ UNCHANGED outbox
  BY DEF ReadSide!RevisePay
<1>3. ReadTInv /\ ReadPublishing /\ ReadEntered /\ (~retried => ReadInLine) /\ ReadPaid /\ ReadOnce
  BY DEF ReadIInv
<1>4. Len(ledger) \in Nat /\ Len(outbox) \in Nat
  BY <1>3 DEF ReadTInv
<1> DEFINE row == Len(ledger) + 1
<1>5. row \in ReadSide!Events /\ row # None /\ row \notin 1..Len(ledger)
  BY <1>1, <1>4, BookAssumption DEF ReadSide!Events
<1>6. /\ ledger' \in Seq(ReadRow) /\ Len(ledger') = row
      /\ ledger'[row].name = name /\ ledger'[row].key = key
      /\ ledger'[row] = [name |-> name, key |-> key]
      /\ \A r \in 1..Len(ledger) : r \in 1..Len(ledger') /\ ledger'[r] = ledger[r]
      /\ row \in 1..Len(ledger') /\ Len(ledger') <= MaxEvents
  <2>1. [name |-> name, key |-> key] \in ReadRow /\ ledger \in Seq(ReadRow)
    BY <1>3 DEF ReadRow, ReadTInv
  <2> QED
    BY <2>1, <1>1, <1>2, <1>4, BookAssumption
<1>7. \A r \in 1..Len(ledger') : r \in 1..Len(ledger) \/ r = row
  BY <1>4, <1>6
<1>8. /\ \A d \in Callers : payJob[d] # None => payJob[d] # row
      /\ \A e \in 1..Len(outbox) : outbox[e].row # row
  BY <1>3, <1>5 DEF ReadPaid
<1>9. CASE bookTransactions
  <2>1. ReadSide!AddEvent(name, PayPart, row, key) /\ UNCHANGED payJob
    BY <1>2, <1>9
  <2> DEFINE e == ReadSide!NewEvent(name, PayPart, row, key)
  <2>2. /\ outbox' \in Seq(ReadEvent) /\ Len(outbox') <= MaxEvents
        /\ \A i \in 1..Len(outbox) : i \in 1..Len(outbox') /\ outbox'[i] = outbox[i]
        /\ \A i \in 1..Len(outbox') : i \notin 1..Len(outbox) => i = Len(outbox) + 1 /\ outbox'[i] = e
        /\ \E i \in 1..Len(outbox') :
             \/ outbox'[i].row = row
             \/ key # None /\ outbox'[i].name = name /\ outbox'[i].key = key
    BY <1>1, <1>3, <1>5, <2>1, ReadEventAdded, BookAssumption DEF ReadAdded
  <2>3. e.status = "PENDING" /\ e.attempts = 0 /\ e.name = name /\ e.row = row /\ e.key = key
    BY ReadNewEventIs
  <2> HIDE DEF e, row
  <2>4. ReadTInv'
    BY <1>1, <1>3, <1>6, <2>1, <2>2 DEF ReadTInv
  <2>5. ReadPublishing' /\ ReadEntered' /\ (~retried' => ReadInLine')
    BY <1>1, <1>3, <2>2, <2>3, ReadPendingAdded
  <2>6. \A d \in Callers : payJob'[d] # None => payJob'[d] \in 1..Len(ledger')
    BY <1>3, <1>6, <2>1 DEF ReadPaid
  <2>7. ASSUME NEW i \in 1..Len(outbox')
        PROVE  /\ outbox'[i].row # None => outbox'[i].row \in 1..Len(ledger')
               /\ outbox'[i].name \in PayNames =>
                    /\ outbox'[i].row # None
                    /\ ledger'[outbox'[i].row] = [name |-> outbox'[i].name, key |-> outbox'[i].key]
    <3>1. CASE i \in 1..Len(outbox)
      BY <3>1, <1>3, <1>6, <2>2 DEF ReadPaid
    <3>2. CASE outbox'[i] = e
      BY <3>2, <1>5, <1>6, <2>3
    <3> QED
      BY <3>1, <3>2, <2>2
  <2>8. ASSUME ~payCut', NEW r \in 1..Len(ledger')
        PROVE  (\E d \in Callers : payJob'[d] = r)
                 \/ (\E i \in 1..Len(outbox') : ReadAnnounces(ledger'[r], outbox'[i], r))
    <3>1. CASE r \in 1..Len(ledger)
      <4>1. \/ \E d \in Callers : payJob[d] = r
            \/ \E i \in 1..Len(outbox) : ReadAnnounces(ledger[r], outbox[i], r)
        BY <3>1, <2>8, <1>1, <1>3 DEF ReadPaid
      <4> QED
        BY <4>1, <3>1, <1>6, <2>1, <2>2
    <3>2. CASE r = row
      BY <3>2, <1>6, <2>2 DEF ReadAnnounces
    <3> QED
      BY <3>1, <3>2, <1>7
  <2>9. ReadOnce'
    <3>1. \A d \in Callers, i \in 1..Len(outbox') : payJob'[d] # None => outbox'[i].row # payJob'[d]
      BY <1>3, <1>8, <2>1, <2>2, <2>3 DEF ReadOnce
    <3>2. ASSUME NEW i \in 1..Len(outbox'), NEW k \in 1..Len(outbox'),
                 outbox'[i].row # None, outbox'[i].row = outbox'[k].row
          PROVE  i = k
      <4>1. CASE i \in 1..Len(outbox) /\ k \in 1..Len(outbox)
        BY <4>1, <3>2, <1>3, <2>2 DEF ReadOnce
      <4>2. CASE ~(i \in 1..Len(outbox) /\ k \in 1..Len(outbox))
        BY <4>2, <3>2, <1>8, <2>2, <2>3
      <4> QED
        BY <4>1, <4>2
    <3> QED
      BY <3>1, <3>2, <1>3, <2>1 DEF ReadOnce
  <2> QED
    BY <2>4, <2>5, <2>6, <2>7, <2>8, <2>9 DEF ReadIInv, ReadPaid
<1>10. CASE ~bookTransactions
  <2>1. payJob' = [payJob EXCEPT ![c] = row] /\ UNCHANGED outbox
    BY <1>2, <1>10
  <2> HIDE DEF row
  <2>2. \A d \in Callers : payJob'[d] = IF d = c THEN row ELSE payJob[d]
    BY <2>1, <1>3 DEF ReadTInv
  <2>3. ReadTInv'
    BY <1>1, <1>3, <1>5, <1>6, <2>1 DEF ReadTInv
  <2>4. ReadPublishing' /\ ReadEntered' /\ (~retried' => ReadInLine')
    BY <1>1, <1>3, <2>1 DEF ReadPublishing, ReadEntered, ReadInLine
  <2>5. \A d \in Callers : payJob'[d] # None => payJob'[d] \in 1..Len(ledger')
    BY <1>3, <1>6, <2>2 DEF ReadPaid
  <2>6. \A i \in 1..Len(outbox') :
          /\ outbox'[i].row # None => outbox'[i].row \in 1..Len(ledger')
          /\ outbox'[i].name \in PayNames =>
               /\ outbox'[i].row # None
               /\ ledger'[outbox'[i].row] = [name |-> outbox'[i].name, key |-> outbox'[i].key]
    BY <1>3, <1>6, <2>1 DEF ReadPaid
  <2>7. ASSUME ~payCut', NEW r \in 1..Len(ledger')
        PROVE  (\E d \in Callers : payJob'[d] = r)
                 \/ (\E i \in 1..Len(outbox') : ReadAnnounces(ledger'[r], outbox'[i], r))
    <3>1. CASE r \in 1..Len(ledger)
      <4>1. \/ \E d \in Callers : payJob[d] = r
            \/ \E i \in 1..Len(outbox) : ReadAnnounces(ledger[r], outbox[i], r)
        BY <3>1, <2>7, <1>1, <1>3 DEF ReadPaid
      <4>2. r # None
        BY <3>1, <1>1, <1>4, BookAssumption
      <4>3. ASSUME NEW d \in Callers, payJob[d] = r PROVE payJob'[d] = r
        BY <4>2, <4>3, <2>2, <1>1
      <4> QED
        BY <4>1, <4>3, <3>1, <1>6, <2>1
    <3>2. CASE r = row
      BY <3>2, <2>2
    <3> QED
      BY <3>1, <3>2, <1>7
  <2>8. ReadOnce'
    BY <1>3, <1>8, <2>1, <2>2 DEF ReadOnce
  <2> QED
    BY <2>3, <2>4, <2>5, <2>6, <2>7, <2>8 DEF ReadIInv, ReadPaid
<1> QED
  BY <1>9, <1>10

LEMMA ReadEnqueueKeeps ==
  ASSUME ReadIInv, NEW c \in Callers, ReadSide!EnqueueEvent(c)
  PROVE  ReadIInv'
<1> DEFINE row == payJob[c]
           name == ledger[row].name
           key == ledger[row].key
           e == ReadSide!NewEvent(name, PayPart, row, key)
<1>1. /\ row # None /\ Len(outbox) < MaxEvents
      /\ ReadSide!AddEvent(name, PayPart, row, key)
      /\ payJob' = [payJob EXCEPT ![c] = None]
      /\ UNCHANGED <<bookTransactions, ledger, current, bookEntries, parts, retried, payCut>>
  BY DEF ReadSide!EnqueueEvent, ReadSide!Room
<1>2. ReadTInv /\ ReadPublishing /\ ReadEntered /\ (~retried => ReadInLine) /\ ReadPaid /\ ReadOnce
  BY DEF ReadIInv
<1>3. /\ row \in ReadSide!Events /\ row \in 1..Len(ledger)
      /\ name \in Names /\ key \in RequestKeys \cup {None}
      /\ ledger[row] = [name |-> name, key |-> key]
  <2>1. row \in ReadSide!Events /\ row \in 1..Len(ledger)
    BY <1>1, <1>2 DEF ReadTInv, ReadPaid
  <2>2. ledger[row] \in ReadRow
    BY <2>1, <1>2 DEF ReadTInv
  <2> QED
    BY <2>1, <2>2, BookAssumption DEF ReadRow
<1>4. /\ outbox' \in Seq(ReadEvent) /\ Len(outbox') <= MaxEvents
      /\ \A i \in 1..Len(outbox) : i \in 1..Len(outbox') /\ outbox'[i] = outbox[i]
      /\ \A i \in 1..Len(outbox') : i \notin 1..Len(outbox) => i = Len(outbox) + 1 /\ outbox'[i] = e
      /\ \E i \in 1..Len(outbox') :
           \/ outbox'[i].row = row
           \/ key # None /\ outbox'[i].name = name /\ outbox'[i].key = key
  <2>1. PayPart \in BookParts \cup {None} /\ row \in ReadSide!Events \cup {None}
    BY <1>3, BookAssumption
  <2>2. name \in Names /\ key \in RequestKeys \cup {None}
    BY <1>3
  <2>3. ReadTInv /\ Len(outbox) < MaxEvents /\ ReadSide!AddEvent(name, PayPart, row, key)
    BY <1>1, <1>2
  <2> HIDE DEF name, key, row
  <2>4. ReadAdded(name, PayPart, row, key)
    BY <2>1, <2>2, <2>3, ReadEventAdded
  <2> QED
    BY <2>4 DEF ReadAdded
<1>5. e.status = "PENDING" /\ e.attempts = 0 /\ e.name = name /\ e.row = row /\ e.key = key
  BY ReadNewEventIs
<1>50. row = payJob[c] /\ name = ledger[row].name /\ key = ledger[row].key
  OBVIOUS
<1> HIDE DEF e, name, key, row
<1>6. ReadTInv'
  BY <1>1, <1>2, <1>4 DEF ReadTInv
<1>7. ReadPublishing' /\ ReadEntered' /\ (~retried' => ReadInLine')
  BY <1>1, <1>2, <1>4, <1>5, ReadPendingAdded
<1>8. \A d \in Callers : payJob'[d] = IF d = c THEN None ELSE payJob[d]
  BY <1>1, <1>2 DEF ReadTInv
<1>9. \A d \in Callers : payJob'[d] # None => payJob'[d] \in 1..Len(ledger')
  BY <1>1, <1>2, <1>8 DEF ReadPaid
<1>10. \A i \in 1..Len(outbox') :
         /\ outbox'[i].row # None => outbox'[i].row \in 1..Len(ledger')
         /\ outbox'[i].name \in PayNames =>
              /\ outbox'[i].row # None
              /\ ledger'[outbox'[i].row] = [name |-> outbox'[i].name, key |-> outbox'[i].key]
  <2>1. ASSUME NEW i \in 1..Len(outbox)
        PROVE  /\ outbox[i].row # None => outbox[i].row \in 1..Len(ledger)
               /\ outbox[i].name \in PayNames =>
                    /\ outbox[i].row # None
                    /\ ledger[outbox[i].row] = [name |-> outbox[i].name, key |-> outbox[i].key]
    BY <1>2 DEF ReadPaid
  <2> QED
    BY <2>1, <1>1, <1>3, <1>4, <1>5
<1>11. ASSUME ~payCut', NEW r \in 1..Len(ledger')
       PROVE  (\E d \in Callers : payJob'[d] = r)
                \/ (\E i \in 1..Len(outbox') : ReadAnnounces(ledger'[r], outbox'[i], r))
  <2>1. \/ \E d \in Callers : payJob[d] = r
        \/ \E i \in 1..Len(outbox) : ReadAnnounces(ledger[r], outbox[i], r)
    BY <1>1, <1>2, <1>11 DEF ReadPaid
  <2>2. CASE r = row
    BY <2>2, <1>1, <1>4, <1>50 DEF ReadAnnounces
  <2>3. CASE r # row
    BY <2>1, <2>3, <1>1, <1>4, <1>8, <1>50
  <2> QED
    BY <2>2, <2>3
<1>12. ReadOnce'
  BY <1>1, <1>2, <1>4, <1>5, <1>8, <1>50 DEF ReadOnce
<1> QED
  BY <1>6, <1>7, <1>9, <1>10, <1>11, <1>12 DEF ReadIInv, ReadPaid

LEMMA ReadCutOffKeeps ==
  ASSUME ReadIInv, NEW c \in Callers, ReadSide!CutOff(c)
  PROVE  ReadIInv'
<1>1. /\ payJob' = [payJob EXCEPT ![c] = None] /\ payCut' = TRUE
      /\ UNCHANGED <<bookTransactions, ledger, outbox, current, bookEntries, parts, retried>>
  BY DEF ReadSide!CutOff
<1>2. ReadTInv /\ ReadPublishing /\ ReadEntered /\ (~retried => ReadInLine) /\ ReadPaid /\ ReadOnce
  BY DEF ReadIInv
<1>3. ReadTInv'
  BY <1>1, <1>2 DEF ReadTInv
<1>4. ReadPublishing' /\ ReadEntered' /\ (~retried' => ReadInLine')
  BY <1>1, <1>2 DEF ReadPublishing, ReadEntered, ReadInLine
<1>5. \A d \in Callers : payJob'[d] = IF d = c THEN None ELSE payJob[d]
  BY <1>1, <1>2 DEF ReadTInv
<1>6. ReadPaid' /\ ReadOnce'
  BY <1>1, <1>2, <1>5 DEF ReadPaid, ReadOnce
<1> QED
  BY <1>3, <1>4, <1>6 DEF ReadIInv

LEMMA ReadAnnounceKeeps ==
  ASSUME ReadIInv, NEW name \in Names \ PayNames, NEW part \in BookParts \cup {None},
         NEW key \in RequestKeys \cup {None}, ReadSide!AnnounceRecord(name, part, key)
  PROVE  ReadIInv'
<1> DEFINE e == ReadSide!NewEvent(name, part, None, key)
<1>1. /\ Len(outbox) < MaxEvents
      /\ ReadSide!AddEvent(name, part, None, key)
      /\ UNCHANGED <<bookTransactions, ledger, payJob, current, bookEntries, parts, retried, payCut>>
  BY DEF ReadSide!AnnounceRecord, ReadSide!Room
<1>2. ReadTInv /\ ReadPublishing /\ ReadEntered /\ (~retried => ReadInLine) /\ ReadPaid /\ ReadOnce
  BY DEF ReadIInv
<1>3. /\ outbox' \in Seq(ReadEvent) /\ Len(outbox') <= MaxEvents
      /\ \A i \in 1..Len(outbox) : i \in 1..Len(outbox') /\ outbox'[i] = outbox[i]
      /\ \A i \in 1..Len(outbox') : i \notin 1..Len(outbox) => i = Len(outbox) + 1 /\ outbox'[i] = e
  <2>1. name \in Names /\ None \in ReadSide!Events \cup {None}
    OBVIOUS
  <2>2. ReadAdded(name, part, None, key)
    BY <1>1, <1>2, <2>1, ReadEventAdded
  <2> QED
    BY <2>2 DEF ReadAdded
<1>4. e.status = "PENDING" /\ e.attempts = 0 /\ e.name = name /\ e.row = None
  BY ReadNewEventIs
<1> HIDE DEF e
<1>5. ReadTInv'
  BY <1>1, <1>2, <1>3 DEF ReadTInv
<1>6. ReadPublishing' /\ ReadEntered' /\ (~retried' => ReadInLine')
  BY <1>1, <1>2, <1>3, <1>4, ReadPendingAdded
<1>7. \A i \in 1..Len(outbox') :
        /\ outbox'[i].row # None => outbox'[i].row \in 1..Len(ledger')
        /\ outbox'[i].name \in PayNames =>
             /\ outbox'[i].row # None
             /\ ledger'[outbox'[i].row] = [name |-> outbox'[i].name, key |-> outbox'[i].key]
  <2>1. ASSUME NEW i \in 1..Len(outbox)
        PROVE  /\ outbox[i].row # None => outbox[i].row \in 1..Len(ledger)
               /\ outbox[i].name \in PayNames =>
                    /\ outbox[i].row # None
                    /\ ledger[outbox[i].row] = [name |-> outbox[i].name, key |-> outbox[i].key]
    BY <1>2 DEF ReadPaid
  <2> QED
    BY <2>1, <1>1, <1>3, <1>4
<1>8. ~payCut' => \A r \in 1..Len(ledger') :
        (\E d \in Callers : payJob'[d] = r)
          \/ (\E i \in 1..Len(outbox') : ReadAnnounces(ledger'[r], outbox'[i], r))
  BY <1>1, <1>2, <1>3 DEF ReadPaid
<1>9. ReadOnce'
  <2>1. ASSUME NEW i \in 1..Len(outbox'), outbox'[i].row # None
        PROVE  i \in 1..Len(outbox) /\ outbox'[i] = outbox[i]
    BY <2>1, <1>3, <1>4
  <2>2. payJob' = payJob
    BY <1>1
  <2>3. ASSUME NEW b \in Callers, NEW i \in 1..Len(outbox'), payJob'[b] # None
        PROVE  outbox'[i].row # payJob'[b]
    BY <2>1, <2>2, <2>3, <1>2 DEF ReadOnce
  <2>4. ASSUME NEW h \in 1..Len(outbox'), NEW i \in 1..Len(outbox'),
               outbox'[h].row # None, outbox'[h].row = outbox'[i].row
        PROVE  h = i
    BY <2>1, <2>4, <1>2 DEF ReadOnce
  <2> QED
    BY <2>2, <2>3, <2>4, <1>2 DEF ReadOnce
<1> QED
  BY <1>1, <1>2, <1>5, <1>6, <1>7, <1>8, <1>9 DEF ReadIInv, ReadPaid

LEMMA ReadTakeKeeps ==
  ASSUME ReadIInv, NEW e \in 1..Len(outbox), ReadSide!Take(e)
  PROVE  ReadIInv'
<1>1. /\ current = ReadSide!Nothing /\ outbox[e].status = "PENDING"
      /\ \A d \in 1..(e - 1) : outbox[d].status # "PENDING" \/ outbox[d].attempts > 0
      /\ current' = [event |-> e, step |-> "enter"]
      /\ UNCHANGED <<bookTransactions, ledger, payJob, outbox, bookEntries, parts, retried, payCut>>
  BY DEF ReadSide!Take, ReadSide!Due
<1>2. ReadTInv /\ ReadPublishing /\ ReadEntered /\ (~retried => ReadInLine) /\ ReadPaid /\ ReadOnce
  BY DEF ReadIInv
<1>3. e \in ReadSide!Events
  BY <1>2, BookAssumption DEF ReadTInv, ReadSide!Events
<1>4. /\ current' \in ReadCurrent
      /\ current' # ReadSide!Nothing
      /\ current'.event = e
      /\ current'.step = "enter"
  BY <1>1, <1>3, ReadNothingIs DEF ReadCurrent
<1>5. ReadTInv'
  BY <1>1, <1>2, <1>4 DEF ReadTInv
<1>6. ReadPublishing' /\ ReadEntered' /\ ReadPaid' /\ ReadOnce'
  BY <1>1, <1>2, <1>4 DEF ReadPublishing, ReadEntered, ReadPaid, ReadOnce
<1>7. ASSUME ~retried' PROVE ReadInLine'
  <2>1. ReadInLine
    BY <1>1, <1>2, <1>7
  <2>2. ASSUME NEW d \in 1..(e - 1)
        PROVE  outbox[d].status = "SENT"
    <3>1. d \in 1..Len(outbox) /\ e \in Nat
      BY <1>2 DEF ReadTInv
    <3>2. outbox[d].attempts = 0 /\ outbox[d].status # "DEAD" /\ outbox[d] \in ReadEvent
      BY <2>1, <3>1, <1>2 DEF ReadInLine, ReadTInv
    <3>3. outbox[d].status \in {"SENT", "DEAD"}
      BY <3>2, <1>1, <2>2 DEF ReadEvent
    <3> QED
      BY <3>2, <3>3
  <2> QED
    BY <2>1, <2>2, <1>1, <1>4 DEF ReadInLine
<1> QED
  BY <1>5, <1>6, <1>7 DEF ReadIInv

LEMMA ReadAppendEntryKeeps ==
  ASSUME ReadIInv, ReadSide!AppendEntry
  PROVE  ReadIInv'
<1> DEFINE e == current.event
<1>1. /\ current.step = "enter"
      /\ bookEntries' = [bookEntries EXCEPT ![e] = IF @ = 0 THEN 1 ELSE @]
      /\ current' = [current EXCEPT !.step = "patch"]
      /\ UNCHANGED <<bookTransactions, ledger, payJob, outbox, parts, retried, payCut>>
  BY DEF ReadSide!AppendEntry
<1>2. ReadTInv /\ ReadPublishing /\ ReadEntered /\ (~retried => ReadInLine) /\ ReadPaid /\ ReadOnce
  BY DEF ReadIInv
<1>3. current \in ReadCurrent /\ current # ReadSide!Nothing
  BY <1>1, <1>2, ReadNothingIs DEF ReadTInv
<1>4. /\ current' \in ReadCurrent
      /\ current' # ReadSide!Nothing
      /\ current'.event = e
      /\ current'.step = "patch"
  BY <1>1, <1>3, ReadNothingIs DEF ReadCurrent
<1>5. e \in ReadSide!Events
  BY <1>3 DEF ReadCurrent
<1>6. /\ bookEntries' \in [ReadSide!Events -> {0, 1}]
      /\ bookEntries'[e] = 1
      /\ \A i \in ReadSide!Events : bookEntries[i] = 1 => bookEntries'[i] = 1
  BY <1>1, <1>2, <1>5 DEF ReadTInv
<1>7. 1..Len(outbox) \subseteq ReadSide!Events
  BY <1>2, BookAssumption DEF ReadTInv, ReadSide!Events
<1> HIDE DEF e
<1>8. ReadTInv'
  BY <1>1, <1>2, <1>4, <1>6 DEF ReadTInv
<1>9. ReadPublishing'
  BY <1>1, <1>2, <1>3, <1>4, <1>6 DEF ReadPublishing, e
<1>10. ReadEntered'
  BY <1>1, <1>2, <1>6, <1>7 DEF ReadEntered
<1>11. (~retried' => ReadInLine') /\ ReadPaid' /\ ReadOnce'
  BY <1>1, <1>2, <1>3, <1>4 DEF ReadInLine, ReadPaid, ReadOnce, e
<1> QED
  BY <1>8, <1>9, <1>10, <1>11 DEF ReadIInv

LEMMA ReadUpsertPartKeeps ==
  ASSUME ReadIInv, ReadSide!UpsertPart
  PROVE  ReadIInv'
<1> DEFINE e == current.event
<1>1. /\ current.step = "patch"
      /\ parts' = [p \in BookParts |-> IF outbox[e].part = p THEN e ELSE parts[p]]
      /\ current' = [current EXCEPT !.step = "others"]
      /\ UNCHANGED <<bookTransactions, ledger, payJob, outbox, bookEntries, retried, payCut>>
  BY DEF ReadSide!UpsertPart
<1>2. ReadTInv /\ ReadPublishing /\ ReadEntered /\ (~retried => ReadInLine) /\ ReadPaid /\ ReadOnce
  BY DEF ReadIInv
<1>3. current \in ReadCurrent /\ current # ReadSide!Nothing
  BY <1>1, <1>2, ReadNothingIs DEF ReadTInv
<1>4. /\ current' \in ReadCurrent
      /\ current' # ReadSide!Nothing
      /\ current'.event = e
      /\ current'.step = "others"
  BY <1>1, <1>3, ReadNothingIs DEF ReadCurrent
<1>5. /\ e \in ReadSide!Events
      /\ e \in 1..Len(outbox)
      /\ bookEntries[e] = 1
      /\ outbox[e].status = "PENDING"
      /\ e # None
  BY <1>1, <1>2, <1>3, ReadNothingIs DEF ReadCurrent, ReadPublishing
<1>6. current.event = e
  OBVIOUS
<1> HIDE DEF e
<1>7. ReadTInv'
  BY <1>1, <1>2, <1>4, <1>5 DEF ReadTInv
<1>8. \A p \in BookParts : parts'[p] = IF outbox[e].part = p THEN e ELSE parts[p]
  BY <1>1
<1>9. ReadPublishing'
  BY <1>1, <1>4, <1>5, <1>8 DEF ReadPublishing
<1>10. ReadEntered'
  BY <1>1, <1>2, <1>5, <1>8 DEF ReadEntered
<1>11. ASSUME ~retried' PROVE ReadInLine'
  <2>1. ReadInLine
    BY <1>1, <1>2, <1>11
  <2>2. ASSUME NEW p \in BookParts, NEW i \in 1..Len(outbox), outbox[i].status = "SENT",
               outbox[i].part = p
        PROVE  parts'[p] # None /\ parts'[p] >= i
    <3>1. CASE outbox[e].part = p
      <4>1. e \in Nat /\ i \in Nat /\ Len(outbox) \in Nat
        BY <1>2, <1>5, BookAssumption DEF ReadSide!Events, ReadTInv
      <4>2. ~(i > e)
        <5> SUFFICES ASSUME i > e PROVE FALSE
          OBVIOUS
        <5>1. e \in 1..(i - 1)
          BY <4>1, <1>5
        <5> QED
          BY <5>1, <2>1, <2>2, <1>5 DEF ReadInLine
      <4> QED
        BY <4>1, <4>2, <3>1, <1>5, <1>8
    <3>2. CASE outbox[e].part # p
      BY <3>2, <2>1, <2>2, <1>8 DEF ReadInLine
    <3> QED
      BY <3>1, <3>2
  <2>3. \A i \in 1..Len(outbox') :
          outbox'[i].status = "SENT" \/ (current' # ReadSide!Nothing /\ current'.event = i) =>
            \A d \in 1..(i - 1) : outbox'[d].status = "SENT"
    BY <2>1, <1>1, <1>3, <1>4, <1>6 DEF ReadInLine
  <2> QED
    BY <2>1, <2>2, <2>3, <1>1 DEF ReadInLine
<1>12. ReadPaid' /\ ReadOnce'
  BY <1>1, <1>2 DEF ReadPaid, ReadOnce
<1> QED
  BY <1>7, <1>9, <1>10, <1>11, <1>12 DEF ReadIInv

\* The event that was published is marked.
LEMMA ReadEventMarked ==
  ASSUME ReadTInv, NEW e \in 1..Len(outbox), NEW new \in ReadEvent,
         outbox' = [outbox EXCEPT ![e] = new],
         new.name = outbox[e].name, new.part = outbox[e].part, new.row = outbox[e].row,
         new.key = outbox[e].key
  PROVE  /\ outbox' \in Seq(ReadEvent) /\ Len(outbox') = Len(outbox)
         /\ \A i \in 1..Len(outbox) :
              /\ outbox'[i].name = outbox[i].name /\ outbox'[i].part = outbox[i].part
              /\ outbox'[i].row = outbox[i].row /\ outbox'[i].key = outbox[i].key
              /\ outbox'[i].status = IF i = e THEN new.status ELSE outbox[i].status
              /\ outbox'[i].attempts = IF i = e THEN new.attempts ELSE outbox[i].attempts
<1>1. outbox \in Seq(ReadEvent) /\ Len(outbox) \in Nat
  BY DEF ReadTInv
<1>2. /\ outbox' \in Seq(ReadEvent) /\ Len(outbox') = Len(outbox)
      /\ \A i \in 1..Len(outbox) : outbox'[i] = IF i = e THEN new ELSE outbox[i]
  BY <1>1
<1> QED
  BY <1>2

LEMMA ReadPaidStays ==
  ASSUME ReadPaid, ReadOnce, UNCHANGED <<ledger, payJob, payCut>>, Len(outbox') = Len(outbox),
         \A i \in 1..Len(outbox) : /\ outbox'[i].name = outbox[i].name
                                  /\ outbox'[i].row = outbox[i].row /\ outbox'[i].key = outbox[i].key
  PROVE  ReadPaid' /\ ReadOnce'
<1>1. \A e \in 1..Len(outbox') :
        /\ outbox'[e].row # None => outbox'[e].row \in 1..Len(ledger')
        /\ outbox'[e].name \in PayNames =>
             /\ outbox'[e].row # None
             /\ ledger'[outbox'[e].row] = [name |-> outbox'[e].name, key |-> outbox'[e].key]
  BY DEF ReadPaid
<1>2. \A r \in 1..Len(ledger), i \in 1..Len(outbox) :
        ReadAnnounces(ledger[r], outbox[i], r) => ReadAnnounces(ledger'[r], outbox'[i], r)
  BY DEF ReadAnnounces
<1>3. ~payCut' => \A r \in 1..Len(ledger') :
        (\E c \in Callers : payJob'[c] = r)
          \/ (\E e \in 1..Len(outbox') : ReadAnnounces(ledger'[r], outbox'[e], r))
  BY <1>2 DEF ReadPaid
<1>4. \A c \in Callers : payJob'[c] # None => payJob'[c] \in 1..Len(ledger')
  BY DEF ReadPaid
<1>5. ReadOnce'
  BY DEF ReadOnce
<1> QED
  BY <1>1, <1>3, <1>4, <1>5 DEF ReadPaid

LEMMA ReadSentKeeps ==
  ASSUME ReadIInv, ReadSide!Sent
  PROVE  ReadIInv'
<1> DEFINE e == current.event
<1>1. /\ current.step = "others"
      /\ outbox' = [outbox EXCEPT ![e].status = "SENT"]
      /\ current' = ReadSide!Nothing
      /\ UNCHANGED <<bookTransactions, ledger, payJob, bookEntries, parts, retried, payCut>>
  BY DEF ReadSide!Sent
<1>2. ReadTInv /\ ReadPublishing /\ ReadEntered /\ (~retried => ReadInLine) /\ ReadPaid /\ ReadOnce
  BY DEF ReadIInv
<1>3. current \in ReadCurrent /\ current # ReadSide!Nothing
  BY <1>1, <1>2, ReadNothingIs DEF ReadTInv
<1>4. /\ e \in 1..Len(outbox) /\ outbox[e].status = "PENDING" /\ bookEntries[e] = 1
      /\ \A p \in BookParts : outbox[e].part = p => parts[p] = e
  BY <1>1, <1>2, <1>3 DEF ReadPublishing
<1>5. outbox[e] \in ReadEvent /\ outbox[e].attempts \in 0..MaxAttempts
  <2>1. outbox[e] \in ReadEvent
    BY <1>2, <1>4 DEF ReadTInv
  <2> QED
    BY <2>1 DEF ReadEvent
<1>6. current.event = e
  OBVIOUS
<1> HIDE DEF e
<1> DEFINE new == [outbox[e] EXCEPT !.status = "SENT"]
<1>7. /\ new \in ReadEvent
      /\ new.name = outbox[e].name /\ new.part = outbox[e].part /\ new.row = outbox[e].row
      /\ new.key = outbox[e].key
      /\ new.status = "SENT" /\ new.attempts = outbox[e].attempts
  BY <1>5 DEF ReadEvent
<1>70. outbox' = [outbox EXCEPT ![e] = new]
  BY <1>1
<1> HIDE DEF new
<1>8. /\ outbox' \in Seq(ReadEvent) /\ Len(outbox') = Len(outbox)
      /\ \A i \in 1..Len(outbox) :
           /\ outbox'[i].name = outbox[i].name /\ outbox'[i].part = outbox[i].part
           /\ outbox'[i].row = outbox[i].row /\ outbox'[i].key = outbox[i].key
           /\ outbox'[i].status = IF i = e THEN "SENT" ELSE outbox[i].status
           /\ outbox'[i].attempts = outbox[i].attempts
  <2>1. /\ outbox' \in Seq(ReadEvent) /\ Len(outbox') = Len(outbox)
        /\ \A i \in 1..Len(outbox) :
             /\ outbox'[i].name = outbox[i].name /\ outbox'[i].part = outbox[i].part
             /\ outbox'[i].row = outbox[i].row /\ outbox'[i].key = outbox[i].key
             /\ outbox'[i].status = IF i = e THEN new.status ELSE outbox[i].status
             /\ outbox'[i].attempts = IF i = e THEN new.attempts ELSE outbox[i].attempts
    BY <1>2, <1>4, <1>7, <1>70, ReadEventMarked
  <2> QED
    BY <2>1, <1>7
<1>9. ReadTInv'
  BY <1>1, <1>2, <1>8 DEF ReadTInv
<1>10. ReadPublishing'
  BY <1>1 DEF ReadPublishing
<1>11. ReadEntered'
  BY <1>1, <1>2, <1>4, <1>8 DEF ReadEntered
<1>12. ASSUME ~retried' PROVE ReadInLine'
  <2>1. ReadInLine
    BY <1>1, <1>2, <1>12
  <2>2. \A d \in 1..(e - 1) : outbox[d].status = "SENT"
    BY <2>1, <1>3, <1>4, <1>6 DEF ReadInLine
  <2>3. Len(outbox) \in Nat
    BY <1>2 DEF ReadTInv
  <2>4. ASSUME NEW i \in 1..Len(outbox), outbox'[i].status = "SENT", NEW d \in 1..(i - 1)
        PROVE  outbox'[d].status = "SENT"
    <3>1. d \in 1..Len(outbox)
      BY <2>3
    <3>2. outbox[d].status = "SENT"
      BY <2>1, <2>2, <2>4, <1>8 DEF ReadInLine
    <3> QED
      BY <3>1, <3>2, <1>8
  <2>5. ASSUME NEW p \in BookParts, NEW i \in 1..Len(outbox), outbox'[i].status = "SENT",
               outbox'[i].part = p
        PROVE  parts'[p] # None /\ parts'[p] >= i
    <3>1. CASE i = e
      <4>1. parts'[p] = e
        BY <3>1, <2>5, <1>1, <1>4, <1>8
      <4>2. e \in Nat /\ e # None
        BY <1>3, <1>6, ReadNothingIs, BookAssumption DEF ReadCurrent, ReadSide!Events
      <4> QED
        BY <4>1, <4>2, <3>1
    <3>2. CASE i # e
      BY <3>2, <2>1, <2>5, <1>1, <1>8 DEF ReadInLine
    <3> QED
      BY <3>1, <3>2
  <2>6. \A i \in 1..Len(outbox) : outbox'[i].attempts = 0 /\ outbox'[i].status # "DEAD"
    BY <2>1, <1>8 DEF ReadInLine
  <2> QED
    BY <2>4, <2>5, <2>6, <1>1, <1>8 DEF ReadInLine
<1>13. ReadPaid' /\ ReadOnce'
  <2>1. /\ Len(outbox') = Len(outbox)
        /\ \A i \in 1..Len(outbox) :
             outbox'[i].name = outbox[i].name /\ outbox'[i].row = outbox[i].row
               /\ outbox'[i].key = outbox[i].key
    BY <1>8
  <2> QED
    BY <2>1, <1>1, <1>2, ReadPaidStays
<1> QED
  BY <1>9, <1>10, <1>11, <1>12, <1>13 DEF ReadIInv

LEMMA ReadRaisesKeeps ==
  ASSUME ReadIInv, ReadSide!Raises
  PROVE  ReadIInv'
<1> DEFINE e == current.event
           n == outbox[e].attempts + 1
           s == IF n >= MaxAttempts THEN "DEAD" ELSE "PENDING"
<1>1. /\ current # ReadSide!Nothing
      /\ outbox' = [outbox EXCEPT ![e].attempts = n, ![e].status = s]
      /\ current' = ReadSide!Nothing /\ retried' = TRUE
      /\ UNCHANGED <<bookTransactions, ledger, payJob, bookEntries, parts, payCut>>
  BY DEF ReadSide!Raises
<1>2. ReadTInv /\ ReadPublishing /\ ReadEntered /\ ReadPaid /\ ReadOnce
  BY DEF ReadIInv
<1>3. e \in 1..Len(outbox) /\ outbox[e].status = "PENDING"
  BY <1>1, <1>2 DEF ReadPublishing
<1>4. /\ outbox[e] \in ReadEvent
      /\ outbox[e].attempts < MaxAttempts
      /\ outbox[e].attempts \in 0..MaxAttempts
  <2>1. outbox[e] \in ReadEvent
    BY <1>2, <1>3 DEF ReadTInv
  <2>2. outbox[e].attempts < MaxAttempts
    BY <1>2, <1>3 DEF ReadEntered
  <2> QED
    BY <2>1, <2>2 DEF ReadEvent
<1>5. /\ n \in 0..MaxAttempts
      /\ s \in {"PENDING", "SENT", "DEAD"}
      /\ (s = "PENDING" => n < MaxAttempts)
      /\ s # "SENT"
  BY <1>4, BookAssumption
<1> HIDE DEF e, n, s
<1> DEFINE new == [[outbox[e] EXCEPT !.attempts = n] EXCEPT !.status = s]
<1>6. /\ new \in ReadEvent
      /\ new.name = outbox[e].name /\ new.part = outbox[e].part /\ new.row = outbox[e].row
      /\ new.key = outbox[e].key
      /\ new.status = s /\ new.attempts = n
  BY <1>4, <1>5 DEF ReadEvent
<1>60. outbox' = [outbox EXCEPT ![e] = new]
  BY <1>1
<1> HIDE DEF new
<1>7. /\ outbox' \in Seq(ReadEvent) /\ Len(outbox') = Len(outbox)
      /\ \A i \in 1..Len(outbox) :
           /\ outbox'[i].name = outbox[i].name /\ outbox'[i].part = outbox[i].part
           /\ outbox'[i].row = outbox[i].row /\ outbox'[i].key = outbox[i].key
           /\ outbox'[i].status = IF i = e THEN s ELSE outbox[i].status
           /\ outbox'[i].attempts = IF i = e THEN n ELSE outbox[i].attempts
  <2>1. /\ outbox' \in Seq(ReadEvent) /\ Len(outbox') = Len(outbox)
        /\ \A i \in 1..Len(outbox) :
             /\ outbox'[i].name = outbox[i].name /\ outbox'[i].part = outbox[i].part
             /\ outbox'[i].row = outbox[i].row /\ outbox'[i].key = outbox[i].key
             /\ outbox'[i].status = IF i = e THEN new.status ELSE outbox[i].status
             /\ outbox'[i].attempts = IF i = e THEN new.attempts ELSE outbox[i].attempts
    BY <1>2, <1>3, <1>6, <1>60, ReadEventMarked
  <2> QED
    BY <2>1, <1>6
<1>8. ReadTInv'
  BY <1>1, <1>2, <1>7 DEF ReadTInv
<1>9. ReadPublishing'
  BY <1>1 DEF ReadPublishing
<1>10. ReadEntered'
  BY <1>1, <1>2, <1>3, <1>5, <1>7 DEF ReadEntered
<1>11. ReadPaid' /\ ReadOnce'
  <2>1. /\ Len(outbox') = Len(outbox)
        /\ \A i \in 1..Len(outbox) :
             outbox'[i].name = outbox[i].name /\ outbox'[i].row = outbox[i].row
               /\ outbox'[i].key = outbox[i].key
    BY <1>7
  <2> QED
    BY <2>1, <1>1, <1>2, ReadPaidStays
<1> QED
  BY <1>1, <1>8, <1>9, <1>10, <1>11 DEF ReadIInv

LEMMA ReadInvNext == ReadIInv /\ [ReadSide!Next]_(ReadSide!vars) => ReadIInv'
<1> SUFFICES ASSUME ReadIInv, [ReadSide!Next]_(ReadSide!vars) PROVE ReadIInv'
  OBVIOUS
<1>1. ASSUME NEW c \in Callers, ReadSide!RevisePay(c) PROVE ReadIInv'
  BY <1>1, ReadRevisePayKeeps
<1>2. ASSUME NEW c \in Callers, ReadSide!EnqueueEvent(c) PROVE ReadIInv'
  BY <1>2, ReadEnqueueKeeps
<1>3. ASSUME NEW c \in Callers, ReadSide!CutOff(c) PROVE ReadIInv'
  BY <1>3, ReadCutOffKeeps
<1>4. ASSUME NEW name \in Names \ PayNames, NEW part \in BookParts \cup {None},
             NEW key \in RequestKeys \cup {None}, ReadSide!AnnounceRecord(name, part, key)
      PROVE  ReadIInv'
  BY <1>4, ReadAnnounceKeeps
<1>5. ASSUME NEW e \in 1..Len(outbox), ReadSide!Take(e) PROVE ReadIInv'
  BY <1>5, ReadTakeKeeps
<1>6. CASE ReadSide!AppendEntry
  BY <1>6, ReadAppendEntryKeeps
<1>7. CASE ReadSide!UpsertPart
  BY <1>7, ReadUpsertPartKeeps
<1>8. CASE ReadSide!Sent
  BY <1>8, ReadSentKeeps
<1>9. CASE ReadSide!Raises
  BY <1>9, ReadRaisesKeeps
<1>10. CASE UNCHANGED ReadSide!vars
  <2>1. UNCHANGED <<bookTransactions, ledger, payJob, outbox, current, bookEntries, parts, retried,
                    payCut>>
    BY <1>10 DEF ReadSide!vars
  <2>2. ReadTInv'
    BY <2>1 DEF ReadIInv, ReadTInv
  <2>3. ReadPublishing' /\ ReadEntered' /\ (~retried' => ReadInLine') /\ ReadPaid' /\ ReadOnce'
    BY <2>1 DEF ReadIInv, ReadPublishing, ReadEntered, ReadInLine, ReadPaid, ReadOnce
  <2> QED
    BY <2>2, <2>3 DEF ReadIInv
<1> QED
  BY <1>1, <1>2, <1>3, <1>4, <1>5, <1>6, <1>7, <1>8, <1>9, <1>10 DEF ReadSide!Next

LEMMA ReadInvariance == ReadSide!Spec => []ReadIInv
BY ReadInvInit, ReadInvNext, PTL DEF ReadSide!Spec

LEMMA ReadTypes == ReadIInv => ReadSide!TypeOK
<1> SUFFICES ASSUME ReadIInv PROVE ReadSide!TypeOK
  OBVIOUS
<1>1. ReadTInv /\ ReadEntered
  BY DEF ReadIInv
<1>2. ASSUME NEW e \in 1..Len(outbox)
      PROVE  /\ outbox[e].name \in Names /\ outbox[e].part \in BookParts \cup {None}
             /\ outbox[e].key \in RequestKeys \cup {None}
             /\ outbox[e].attempts \in 0..MaxAttempts
             /\ outbox[e].status \in {"PENDING", "SENT", "DEAD"}
  <2>1. outbox[e] \in ReadEvent
    BY <1>1 DEF ReadTInv
  <2> QED
    BY <2>1 DEF ReadEvent
<1>3. current.event \in ReadSide!Events \cup {None}
  BY <1>1, ReadNothingIs DEF ReadTInv, ReadCurrent
<1>4. bookEntries \in [ReadSide!Events -> Nat]
  BY <1>1 DEF ReadTInv
<1> QED
  BY <1>1, <1>2, <1>3, <1>4 DEF ReadSide!TypeOK, ReadTInv

LEMMA ReadFollows == ReadIInv => ReadSide!BookFollows
<1> SUFFICES ASSUME ReadIInv PROVE ReadSide!BookFollows
  OBVIOUS
<1>1. ReadTInv /\ ReadEntered /\ (~retried => ReadInLine) /\ ReadPaid /\ ReadOnce
  BY DEF ReadIInv
<1>2. ReadSide!EnteredOnce
  BY <1>1 DEF ReadSide!EnteredOnce, ReadTInv, ReadEntered
<1>3. ReadSide!PartsFollow
  BY <1>1 DEF ReadSide!PartsFollow, ReadEntered, ReadInLine
<1>4. ReadSide!PayAnnounced
  BY <1>1 DEF ReadSide!PayAnnounced, ReadSide!Announces, ReadAnnounces, ReadPaid, ReadOnce
<1> QED
  BY <1>2, <1>3, <1>4 DEF ReadSide!BookFollows



-------------------------------------------------------------------------------
(* The opening of a service book. *)

OpnOpened == [status : Book!Statuses, parts : Book!Parts, documents : SUBSET Papers]

OpnSteps == {"find", "draft", "again", "save", "saved", "project"}

OpnJob ==
  [step : OpnSteps, command : {"DRAFT", "ATTACH", "SUBMIT", "VERIFY", "APPROVE"}, read : OpnOpened \cup {Absent},
   input : Book!Payloads \cup Papers \cup {None}, todo : SUBSET Book!Keys]

OpnTInv ==
  /\ opening \in OpnOpened \cup {Absent}
  /\ entries \in [Book!Keys -> Book!Parts \cup {Absent}]
  /\ openingJob \in [Callers -> OpnJob \cup {Book!Idle}]
  /\ openingHandled \in 0..Bounds.opening
  /\ openingDisturbed \in BOOLEAN

\* What a request has read, and has for input; an opening is never deleted.
OpnKind(j) ==
  /\ j.step \in {"find", "draft", "again"} => j.command = "ATTACH"
  /\ j.step \in {"saved", "project"} => j.command = "APPROVE"
  /\ j.command = "ATTACH" => j.input \in Papers
  /\ j.command = "DRAFT" => j.input \in Book!Payloads
  /\ j.step \in {"save", "project"} /\ j.command # "DRAFT" => j.read \in OpnOpened

OpnKInv ==
  \A c \in Callers : openingJob[c].step # "idle" =>
    OpnKind(openingJob[c]) /\ (openingJob[c].step \in {"again", "saved"} => opening # Absent)

\* What the entries are of an opening when all but these were written.
OpnShows(entry, k, doc, todo) ==
  entry = IF Book!Status(doc) = "LOCKED" /\ k \in doc.parts.keys \ todo THEN doc.parts ELSE Absent

\* The one request that is at work knows the opening, and how far it has come.
OpnKnows(j) ==
  /\ j.step \in {"save", "draft", "project"} => j.read = opening
  /\ j.step = "save" /\ j.command \in DOMAIN Book!Moves =>
       Book!Status(opening) = Book!Moves[j.command].from
  /\ j.step = "save" /\ j.command = "DRAFT" => Book!Status(opening) \in Book!EditableStatuses
  /\ j.step = "draft" => Book!Status(opening) \in Book!EditableStatuses
  /\ j.step = "saved" =>
       Book!Status(opening) = "LOCKED" /\ \A k \in Book!Keys :
         OpnShows(entries[k], k, opening, Book!Keys)
  /\ j.step = "project" =>
       /\ Book!Status(opening) = "LOCKED" /\ j.todo \subseteq opening.parts.keys /\ j.todo # {}
       /\ \A k \in Book!Keys : OpnShows(entries[k], k, opening, j.todo)

OpnPInv ==
  ~openingDisturbed =>
    /\ \A c, d \in Callers : openingJob[c] # Book!Idle /\ openingJob[d] # Book!Idle => c = d
    /\ \A c \in Callers : OpnKnows(openingJob[c])
    /\ (\A c \in Callers : openingJob[c].step \notin {"saved", "project"}) =>
         \A k \in Book!Keys : OpnShows(entries[k], k, opening, {})

OpnIInv == OpnTInv /\ OpnKInv /\ OpnPInv

LEMMA OpnIdleIs ==
  /\ Book!Idle.step = "idle" /\ Book!Idle \notin OpnJob
  /\ OpnKnows(Book!Idle)
BY DEF Book!Idle, OpnJob, OpnSteps, OpnKnows

LEMMA OpnJobIs ==
  ASSUME OpnTInv, NEW c \in Callers
  PROVE  /\ openingJob[c] \in OpnJob \/ openingJob[c] = Book!Idle
         /\ openingJob[c].step # "idle" => openingJob[c] \in OpnJob /\ openingJob[c] # Book!Idle
         /\ openingJob[c] # Book!Idle => openingJob[c] \in OpnJob /\ openingJob[c].step # "idle"
<1>1. openingJob[c] \in OpnJob \/ openingJob[c] = Book!Idle
  BY DEF OpnTInv
<1>2. \A j \in OpnJob : j.step # "idle"
  BY DEF OpnJob, OpnSteps
<1> QED
  BY <1>1, <1>2, OpnIdleIs

LEMMA OpnAtIs ==
  ASSUME OpnIInv, NEW c \in Callers, openingJob[c].step # "idle"
  PROVE  /\ openingJob[c] \in OpnJob /\ openingJob[c] # Book!Idle /\ OpnKind(openingJob[c])
         /\ openingJob[c].step \in {"again", "saved"} => opening # Absent
         /\ ~openingDisturbed =>
              OpnKnows(openingJob[c]) /\ \A d \in Callers \ {c} : openingJob[d] = Book!Idle
         /\ ~openingDisturbed /\ openingJob[c].step \notin {"saved", "project"} =>
              \A k \in Book!Keys : OpnShows(entries[k], k, opening, {})
<1>1. openingJob[c] \in OpnJob /\ openingJob[c] # Book!Idle
  BY OpnJobIs DEF OpnIInv
<1>2. OpnKind(openingJob[c]) /\ (openingJob[c].step \in {"again", "saved"} => opening # Absent)
  BY DEF OpnIInv, OpnKInv
<1>3. ~openingDisturbed =>
        OpnKnows(openingJob[c]) /\ \A d \in Callers \ {c} : openingJob[d] = Book!Idle
  BY <1>1 DEF OpnIInv, OpnPInv
<1>4. ASSUME ~openingDisturbed, openingJob[c].step \notin {"saved", "project"}
      PROVE  \A k \in Book!Keys : OpnShows(entries[k], k, opening, {})
  <2>1. \A d \in Callers : openingJob[d].step \notin {"saved", "project"}
    BY <1>3, <1>4, OpnIdleIs
  <2> QED
    BY <1>4, <2>1 DEF OpnIInv, OpnPInv
<1> QED
  BY <1>1, <1>2, <1>3, <1>4

LEMMA OpnInvInit == Book!Init => OpnIInv
<1> SUFFICES ASSUME Book!Init PROVE OpnIInv
  OBVIOUS
<1>1. \A c \in Callers : openingJob[c] = Book!Idle
  BY DEF Book!Init
<1>2. opening \in OpnOpened \cup {Absent} /\ Book!Status(opening) # "LOCKED"
  BY DEF Book!Init, Book!NewOpening, OpnOpened, Book!Statuses, Book!Parts, Book!Status
<1>3. OpnTInv
  <2>1. openingJob \in [Callers -> OpnJob \cup {Book!Idle}]
    BY DEF Book!Init
  <2>2. entries \in [Book!Keys -> Book!Parts \cup {Absent}]
    BY DEF Book!Init
  <2>3. openingHandled \in 0..Bounds.opening
    BY OfficeBounds DEF Book!Init
  <2> QED
    BY <1>2, <2>1, <2>2, <2>3 DEF OpnTInv, Book!Init
<1>4. OpnKInv
  BY <1>1, OpnIdleIs DEF OpnKInv
<1>5. \A k \in Book!Keys : OpnShows(entries[k], k, opening, {})
  BY <1>2 DEF OpnShows, Book!Init
<1>6. OpnPInv
  BY <1>1, <1>5, OpnIdleIs DEF OpnPInv
<1> QED
  BY <1>3, <1>4, <1>6 DEF OpnIInv

\* A step of one request.
LEMMA OpnStepKeeps ==
  ASSUME OpnIInv, NEW c \in Callers, NEW j \in OpnJob \cup {Book!Idle},
         openingJob' = [openingJob EXCEPT ![c] = j],
         opening' \in OpnOpened \cup {Absent}, opening # Absent => opening' # Absent,
         entries' \in [Book!Keys -> Book!Parts \cup {Absent}],
         openingHandled' \in 0..Bounds.opening, openingDisturbed' \in BOOLEAN,
         openingDisturbed => openingDisturbed',
         j # Book!Idle => OpnKind(j) /\ (j.step \in {"again", "saved"} => opening' # Absent),
         ~openingDisturbed' => \A d \in Callers \ {c} : openingJob[d] = Book!Idle,
         ~openingDisturbed' => OpnKnows(j)',
         ~openingDisturbed' /\ j.step \notin {"saved", "project"} =>
           \A k \in Book!Keys : OpnShows(entries'[k], k, opening', {})
  PROVE  OpnIInv'
<1>1. /\ openingJob \in [Callers -> OpnJob \cup {Book!Idle}]
      /\ openingJob' \in [Callers -> OpnJob \cup {Book!Idle}]
  BY DEF OpnIInv, OpnTInv
<1>2. openingJob'[c] = j /\ \A d \in Callers \ {c} : openingJob'[d] = openingJob[d]
  BY <1>1
<1>3. OpnTInv'
  BY <1>1 DEF OpnTInv
<1>4. OpnKInv'
  <2> SUFFICES ASSUME NEW d \in Callers, openingJob'[d].step # "idle"
      PROVE  /\ OpnKind(openingJob'[d])
             /\ (openingJob'[d].step \in {"again", "saved"} => opening' # Absent)
    BY DEF OpnKInv, OpnKind
  <2>1. CASE d = c
    BY <1>2, <2>1, OpnIdleIs
  <2>2. CASE d # c
    BY <1>2, <2>2 DEF OpnIInv, OpnKInv
  <2> QED
    BY <2>1, <2>2
<1>5. OpnPInv'
  <2> SUFFICES ASSUME ~openingDisturbed'
      PROVE  /\ \A d, e \in Callers : openingJob'[d] # Book!Idle /\ openingJob'[e] # Book!Idle =>
                  d = e
             /\ \A d \in Callers : OpnKnows(openingJob[d])'
             /\ (\A d \in Callers : openingJob'[d].step \notin {"saved", "project"}) =>
                  \A k \in Book!Keys : OpnShows(entries'[k], k, opening', {})
    BY DEF OpnPInv, OpnShows, Book!Status, Book!Idle
  <2>1. \A d \in Callers \ {c} : openingJob'[d] = Book!Idle
    BY <1>2
  <2>2. \A d, e \in Callers : openingJob'[d] # Book!Idle /\ openingJob'[e] # Book!Idle => d = e
    BY <2>1
  <2>3. ASSUME NEW d \in Callers PROVE OpnKnows(openingJob[d])'
    <3>1. CASE d = c
      <4>1. openingJob'[d] = j
        BY <1>2, <3>1
      <4> QED
        BY <4>1 DEF OpnKnows
    <3>2. CASE d # c
      <4>1. openingJob'[d].step = "idle"
        BY <2>1, <3>2, OpnIdleIs
      <4> QED
        BY <4>1 DEF OpnKnows
    <3> QED
      BY <3>1, <3>2
  <2> QED
    BY <1>2, <2>2, <2>3
<1> QED
  BY <1>3, <1>4, <1>5 DEF OpnIInv

-------------------------------------------------------------------------------
\* A request begins with the opening as it is.
LEMMA OpnBeginKeeps ==
  ASSUME OpnIInv, NEW c \in Callers,
         NEW command \in {"DRAFT", "ATTACH", "SUBMIT", "VERIFY", "APPROVE"},
         NEW step \in {"save", "find", "again"}, NEW input \in Book!Payloads \cup Papers \cup {None},
         Book!Begin(c, command, step, input),
         step \in {"find", "again"} => command = "ATTACH",
         step = "again" => opening # Absent,
         command = "ATTACH" => input \in Papers /\ step # "save",
         command = "DRAFT" => input \in Book!Payloads /\ Book!Status(opening) \in Book!EditableStatuses,
         command \in DOMAIN Book!Moves => Book!Status(opening) = Book!Moves[command].from
  PROVE  OpnIInv'
<1>0. PICK j : j = [step |-> step, command |-> command, read |-> opening, input |-> input, todo |-> {}]
  OBVIOUS
<1>1. /\ openingJob[c] = Book!Idle
      /\ openingJob' = [openingJob EXCEPT ![c] = j]
      /\ UNCHANGED <<opening, entries>>
      /\ openingHandled < Bounds.opening /\ openingHandled' = openingHandled + 1
      /\ openingDisturbed' = (openingDisturbed \/ \E d \in Callers \ {c} : openingJob[d] # Book!Idle)
  BY <1>0 DEF Book!Begin
<1>2. OpnTInv
  BY DEF OpnIInv
<1>3. j \in OpnJob
  BY <1>0, <1>2 DEF OpnJob, OpnSteps, OpnTInv
<1>4. /\ j.step = step /\ j.command = command /\ j.read = opening /\ j.input = input
  BY <1>0
<1>5. command \in {"SUBMIT", "VERIFY", "APPROVE"} => opening \in OpnOpened
  BY <1>2 DEF Book!Moves, Book!Status, OpnTInv
<1>6. OpnKind(j)
  BY <1>4, <1>5 DEF OpnKind
<1>7. OpnKnows(j)'
  <2>1. step \notin {"saved", "project", "draft"}
    OBVIOUS
  <2> QED
    BY <1>1, <1>4, <2>1 DEF OpnKnows, Book!Status
<1>8. ~openingDisturbed' => \A k \in Book!Keys : OpnShows(entries[k], k, opening, {})
  <2> SUFFICES ASSUME ~openingDisturbed'
               PROVE \A k \in Book!Keys : OpnShows(entries[k], k, opening, {})
    OBVIOUS
  <2>1. ~openingDisturbed /\ \A d \in Callers : openingJob[d] = Book!Idle
    BY <1>1
  <2> QED
    BY <2>1, OpnIdleIs DEF OpnIInv, OpnPInv
<1>9. openingHandled' \in 0..Bounds.opening
  BY <1>1, <1>2, OfficeBounds DEF OpnTInv
<1>10. openingDisturbed' \in BOOLEAN /\ (openingDisturbed => openingDisturbed')
  BY <1>1
<1>11. ~openingDisturbed' => \A d \in Callers \ {c} : openingJob[d] = Book!Idle
  BY <1>1
<1>12. opening' \in OpnOpened \cup {Absent} /\ entries' \in [Book!Keys -> Book!Parts \cup {Absent}]
  BY <1>1, <1>2 DEF OpnTInv
<1> QED
  BY <1>1, <1>3, <1>4, <1>6, <1>7, <1>8, <1>9, <1>10, <1>11, <1>12, OpnStepKeeps

LEMMA OpnUpsertDraftKeeps ==
  ASSUME OpnIInv, NEW c \in Callers, NEW payload \in Book!Payloads, Book!UpsertDraft(c, payload)
  PROVE  OpnIInv'
<1>1. Book!Status(opening) \in Book!EditableStatuses /\ Book!Begin(c, "DRAFT", "save", payload)
  BY DEF Book!UpsertDraft
<1>2. "DRAFT" \notin DOMAIN Book!Moves
  BY DEF Book!Moves
<1> QED
  BY <1>1, <1>2, OpnBeginKeeps

LEMMA OpnTransitionKeeps ==
  ASSUME OpnIInv, NEW c \in Callers, NEW command \in DOMAIN Book!Moves, Book!Transition(c, command)
  PROVE  OpnIInv'
<1>1. Book!Status(opening) = Book!Moves[command].from /\ Book!Begin(c, command, "save", None)
  BY DEF Book!Transition
<1>2. command \in {"SUBMIT", "VERIFY", "APPROVE"}
  BY DEF Book!Moves
<1> QED
  BY <1>1, <1>2, OpnBeginKeeps

LEMMA OpnAttachDocumentKeeps ==
  ASSUME OpnIInv, NEW c \in Callers, NEW document \in Papers, Book!AttachDocument(c, document)
  PROVE  OpnIInv'
<1>1. "ATTACH" \notin DOMAIN Book!Moves
  BY DEF Book!Moves
<1>2. CASE opening = Absent
  <2>1. Book!Begin(c, "ATTACH", "find", document)
    BY <1>2 DEF Book!AttachDocument
  <2> QED
    BY <1>1, <2>1, OpnBeginKeeps
<1>3. CASE opening # Absent
  <2>1. Book!Begin(c, "ATTACH", "again", document)
    BY <1>3 DEF Book!AttachDocument
  <2> QED
    BY <1>1, <1>3, <2>1, OpnBeginKeeps
<1> QED
  BY <1>2, <1>3

-------------------------------------------------------------------------------
\* A request that is over, or refused.
LEMMA OpnFinishKeeps ==
  ASSUME OpnIInv, NEW c \in Callers, openingJob[c].step # "idle", Book!Finish(c),
         opening' \in OpnOpened \cup {Absent}, opening # Absent => opening' # Absent,
         entries' \in [Book!Keys -> Book!Parts \cup {Absent}],
         openingHandled' = openingHandled, openingDisturbed' \in BOOLEAN,
         openingDisturbed => openingDisturbed',
         ~openingDisturbed' => \A k \in Book!Keys : OpnShows(entries'[k], k, opening', {})
  PROVE  OpnIInv'
<1>1. openingJob' = [openingJob EXCEPT ![c] = Book!Idle]
  BY DEF Book!Finish
<1>2. openingHandled' \in 0..Bounds.opening
  BY DEF OpnIInv, OpnTInv
<1>3. ~openingDisturbed' => \A d \in Callers \ {c} : openingJob[d] = Book!Idle
  BY OpnAtIs
<1>4. PICK j : j = Book!Idle
  OBVIOUS
<1>5. OpnKnows(j)'
  <2>1. j.step = "idle"
    BY <1>4, OpnIdleIs
  <2> QED
    BY <2>1 DEF OpnKnows
<1> QED
  BY <1>1, <1>2, <1>3, <1>4, <1>5, OpnStepKeeps

LEMMA OpnFindForAttachKeeps ==
  ASSUME OpnIInv, NEW c \in Callers, Book!FindForAttach(c)
  PROVE  OpnIInv'
<1>1. openingJob[c].step = "find" /\ UNCHANGED <<opening, entries, openingHandled, openingDisturbed>>
  BY DEF Book!FindForAttach, Book!At
<1>2. /\ openingJob[c] \in OpnJob /\ OpnKind(openingJob[c])
      /\ ~openingDisturbed => \A d \in Callers \ {c} : openingJob[d] = Book!Idle
      /\ ~openingDisturbed => \A k \in Book!Keys : OpnShows(entries[k], k, opening, {})
  BY <1>1, OpnAtIs
<1>3. /\ opening' \in OpnOpened \cup {Absent} /\ entries' \in [Book!Keys -> Book!Parts \cup {Absent}]
      /\ openingHandled' \in 0..Bounds.opening /\ openingDisturbed' \in BOOLEAN
  BY <1>1 DEF OpnIInv, OpnTInv
<1>4. CASE Book!Finish(c)
  BY <1>1, <1>2, <1>3, <1>4, OpnFinishKeeps
<1>5. CASE /\ Book!Status(opening) \in Book!EditableStatuses
           /\ openingJob' = [openingJob EXCEPT ![c].step = "draft", ![c].read = opening]
  <2>1. PICK j : j = [openingJob[c] EXCEPT !.step = "draft", !.read = opening]
    OBVIOUS
  <2>2. openingJob' = [openingJob EXCEPT ![c] = j]
    BY <1>5, <2>1 DEF OpnIInv, OpnTInv
  <2>3. j \in OpnJob
    BY <1>1, <1>2, <1>3, <2>1 DEF OpnJob, OpnSteps
  <2>4. /\ j.step = "draft"
        /\ j.read = opening
        /\ j.command = openingJob[c].command
        /\ j.input = openingJob[c].input
    BY <1>2, <2>1 DEF OpnJob
  <2>5. OpnKind(j)
    BY <1>1, <1>2, <2>4 DEF OpnKind
  <2>6. OpnKnows(j)'
    BY <1>1, <1>5, <2>4 DEF OpnKnows, Book!Status
  <2> QED
    BY <1>1, <1>2, <1>3, <2>2, <2>3, <2>4, <2>5, <2>6, OpnStepKeeps
<1> QED
  BY <1>4, <1>5 DEF Book!FindForAttach

\* An opening that is not locked shows nothing, whatever it holds.
LEMMA OpnNothingShown ==
  ASSUME NEW entry, NEW k, NEW doc, NEW other, NEW todo, NEW left,
         OpnShows(entry, k, doc, todo), Book!Status(doc) # "LOCKED", Book!Status(other) # "LOCKED"
  PROVE  OpnShows(entry, k, other, left)
BY DEF OpnShows

LEMMA OpnDraftedIs ==
  ASSUME NEW doc \in OpnOpened \cup {Absent}, NEW payload \in [parts : Book!Parts, documents : SUBSET Papers]
  PROVE  /\ Book!Drafted(doc, payload) \in OpnOpened
         /\ Book!Status(Book!Drafted(doc, payload)) = "DRAFT"
         /\ Book!Drafted(doc, payload) # Absent
<1>1. Absent \notin OpnOpened
  BY OpeningAssumption DEF OpnOpened
<1>2. Book!Drafted(doc, payload) \in OpnOpened
  BY DEF Book!Drafted, Book!NewOpening, OpnOpened, Book!Statuses
<1>3. Book!Drafted(doc, payload).status = "DRAFT"
  BY DEF Book!Drafted, Book!NewOpening
<1> QED
  BY <1>1, <1>2, <1>3 DEF Book!Status

LEMMA OpnDraftForAttachKeeps ==
  ASSUME OpnIInv, NEW c \in Callers, Book!DraftForAttach(c)
  PROVE  OpnIInv'
<1>1. /\ openingJob[c].step = "draft" /\ UNCHANGED <<entries, openingHandled, openingDisturbed>>
      /\ opening' = Book!Drafted(openingJob[c].read, [parts |-> Book!EmptyDraft, documents |-> {}])
  BY DEF Book!DraftForAttach, Book!At
<1>2. /\ openingJob[c] \in OpnJob /\ OpnKind(openingJob[c])
      /\ ~openingDisturbed =>
           OpnKnows(openingJob[c]) /\ \A d \in Callers \ {c} : openingJob[d] = Book!Idle
      /\ ~openingDisturbed => \A k \in Book!Keys : OpnShows(entries[k], k, opening, {})
  BY <1>1, OpnAtIs
<1>3. /\ entries' \in [Book!Keys -> Book!Parts \cup {Absent}]
      /\ openingHandled' \in 0..Bounds.opening /\ openingDisturbed' \in BOOLEAN
  BY <1>1 DEF OpnIInv, OpnTInv
<1>4. opening' \in OpnOpened /\ Book!Status(opening)' = "DRAFT" /\ opening' # Absent
  <2>1. /\ openingJob[c].read \in OpnOpened \cup {Absent}
        /\ [parts |-> Book!EmptyDraft, documents |-> {}] \in [parts : Book!Parts, documents : SUBSET Papers]
    BY <1>2 DEF OpnJob, Book!Parts
  <2>2. PICK doc : doc = Book!Drafted(openingJob[c].read, [parts |-> Book!EmptyDraft, documents |-> {}])
    OBVIOUS
  <2>3. doc \in OpnOpened /\ Book!Status(doc) = "DRAFT" /\ doc # Absent
    BY <2>1, <2>2, OpnDraftedIs
  <2> QED
    BY <1>1, <2>2, <2>3 DEF Book!Status
<1>5. PICK j : j = [openingJob[c] EXCEPT !.step = "again"]
  OBVIOUS
<1>6. openingJob' = [openingJob EXCEPT ![c] = j]
  BY <1>5 DEF Book!DraftForAttach, OpnIInv, OpnTInv
<1>7. j \in OpnJob
  BY <1>2, <1>5 DEF OpnJob, OpnSteps
<1>8. j.step = "again" /\ j.command = openingJob[c].command /\ j.input = openingJob[c].input
  BY <1>2, <1>5 DEF OpnJob
<1>9. OpnKind(j)
  BY <1>1, <1>2, <1>8 DEF OpnKind
<1>10. OpnKnows(j)'
  BY <1>8 DEF OpnKnows
<1>11. ~openingDisturbed => \A k \in Book!Keys : OpnShows(entries'[k], k, opening', {})
  <2> SUFFICES ASSUME ~openingDisturbed, NEW k \in Book!Keys
               PROVE OpnShows(entries'[k], k, opening', {})
    OBVIOUS
  <2>1. Book!Status(opening) # "LOCKED"
    BY <1>1, <1>2 DEF OpnKnows, Book!EditableStatuses
  <2>2. entries[k] = Absent
    BY <1>2, <2>1 DEF OpnShows
  <2> QED
    BY <1>1, <1>4, <2>2 DEF OpnShows, Book!Status
<1> QED
  BY <1>1, <1>2, <1>3, <1>4, <1>6, <1>7, <1>8, <1>9, <1>10, <1>11, OpnStepKeeps

LEMMA OpnReadAgainKeeps ==
  ASSUME OpnIInv, NEW c \in Callers, Book!ReadAgain(c)
  PROVE  OpnIInv'
<1>1. /\ openingJob[c].step = "again"
      /\ UNCHANGED <<opening, entries, openingHandled, openingDisturbed>>
      /\ openingJob' = [openingJob EXCEPT ![c].step = "save", ![c].read = opening]
  BY DEF Book!ReadAgain, Book!At
<1>2. /\ openingJob[c] \in OpnJob /\ OpnKind(openingJob[c]) /\ opening # Absent
      /\ ~openingDisturbed => \A d \in Callers \ {c} : openingJob[d] = Book!Idle
      /\ ~openingDisturbed => \A k \in Book!Keys : OpnShows(entries[k], k, opening, {})
  BY <1>1, OpnAtIs
<1>3. /\ opening \in OpnOpened \cup {Absent} /\ entries' \in [Book!Keys -> Book!Parts \cup {Absent}]
      /\ openingHandled' \in 0..Bounds.opening /\ openingDisturbed' \in BOOLEAN
  BY <1>1 DEF OpnIInv, OpnTInv
<1>4. PICK j : j = [openingJob[c] EXCEPT !.step = "save", !.read = opening]
  OBVIOUS
<1>5. openingJob' = [openingJob EXCEPT ![c] = j]
  BY <1>1, <1>4 DEF OpnIInv, OpnTInv
<1>6. j \in OpnJob
  BY <1>2, <1>3, <1>4 DEF OpnJob, OpnSteps
<1>7. j.step = "save" /\ j.read = opening /\ j.command = "ATTACH" /\ j.input = openingJob[c].input
  BY <1>1, <1>2, <1>4 DEF OpnJob, OpnKind
<1>8. OpnKind(j)
  BY <1>1, <1>2, <1>3, <1>7 DEF OpnKind
<1>9. OpnKnows(j)'
  BY <1>1, <1>7 DEF OpnKnows, Book!Moves
<1> QED
  BY <1>1, <1>2, <1>3, <1>5, <1>6, <1>7, <1>8, <1>9, OpnStepKeeps

LEMMA OpnSaveOpeningKeeps ==
  ASSUME OpnIInv, NEW c \in Callers, Book!SaveOpening(c)
  PROVE  OpnIInv'
<1>1. /\ openingJob[c].step = "save" /\ UNCHANGED <<entries, openingHandled, openingDisturbed>>
      /\ opening' = Book!Written(openingJob[c])
  BY DEF Book!SaveOpening, Book!At
<1>2. /\ openingJob[c] \in OpnJob /\ OpnKind(openingJob[c])
      /\ ~openingDisturbed =>
           OpnKnows(openingJob[c]) /\ \A d \in Callers \ {c} : openingJob[d] = Book!Idle
      /\ ~openingDisturbed => \A k \in Book!Keys : OpnShows(entries[k], k, opening, {})
  BY <1>1, OpnAtIs
<1>3. /\ entries' \in [Book!Keys -> Book!Parts \cup {Absent}]
      /\ openingHandled' \in 0..Bounds.opening /\ openingDisturbed' \in BOOLEAN
  BY <1>1 DEF OpnIInv, OpnTInv
<1>4. Absent \notin OpnOpened
  BY OpeningAssumption DEF OpnOpened
<1>5. ~openingDisturbed => openingJob[c].read = opening
  BY <1>1, <1>2 DEF OpnKnows
<1>6. CASE openingJob[c].command = "DRAFT"
  <2>1. Book!Finish(c) /\ opening' = Book!Drafted(openingJob[c].read, openingJob[c].input)
    BY <1>1, <1>6 DEF Book!SaveOpening, Book!Written
  <2>2. /\ openingJob[c].read \in OpnOpened \cup {Absent}
        /\ openingJob[c].input \in [parts : Book!Parts, documents : SUBSET Papers]
    BY <1>2, <1>6 DEF OpnJob, OpnKind, Book!Parts, Book!Payloads
  <2>3. PICK doc : doc = Book!Drafted(openingJob[c].read, openingJob[c].input)
    OBVIOUS
  <2>4. doc \in OpnOpened /\ Book!Status(doc) = "DRAFT" /\ doc # Absent
    BY <2>2, <2>3, OpnDraftedIs
  <2>5. ~openingDisturbed => \A k \in Book!Keys : OpnShows(entries[k], k, doc, {})
    <3> SUFFICES ASSUME ~openingDisturbed, NEW k \in Book!Keys PROVE OpnShows(entries[k], k, doc, {})
      OBVIOUS
    <3>1. Book!Status(opening) # "LOCKED"
      BY <1>1, <1>2, <1>6 DEF OpnKnows, Book!EditableStatuses
    <3>2. OpnShows(entries[k], k, opening, {}) /\ Book!Status(doc) # "LOCKED"
      BY <1>2, <2>4
    <3> QED
      BY <3>1, <3>2, OpnNothingShown
  <2> QED
    BY <1>1, <1>3, <2>1, <2>3, <2>4, <2>5, OpnFinishKeeps
<1>7. CASE openingJob[c].command = "ATTACH"
  <2>1. /\ Book!Finish(c)
        /\ opening' = [openingJob[c].read EXCEPT !.documents = @ \cup {openingJob[c].input}]
    BY <1>1, <1>7 DEF Book!SaveOpening, Book!Written
  <2>2. openingJob[c].read \in OpnOpened /\ openingJob[c].input \in Papers
    BY <1>1, <1>2, <1>7 DEF OpnKind
  <2>3. /\ opening' \in OpnOpened
        /\ opening'.status = openingJob[c].read.status
        /\ opening'.parts = openingJob[c].read.parts
    BY <2>1, <2>2 DEF OpnOpened
  <2>4. opening' # Absent
    BY <1>4, <2>3
  <2>5. ~openingDisturbed => \A k \in Book!Keys : OpnShows(entries'[k], k, opening', {})
    <3> SUFFICES ASSUME ~openingDisturbed, NEW k \in Book!Keys
                 PROVE OpnShows(entries'[k], k, opening', {})
      OBVIOUS
    <3>1. opening # Absent /\ OpnShows(entries[k], k, opening, {})
      BY <1>2, <1>4, <1>5, <2>2
    <3> QED
      BY <1>1, <1>5, <2>3, <2>4, <3>1 DEF OpnShows, Book!Status
  <2> QED
    BY <1>1, <1>3, <2>1, <2>3, <2>4, <2>5, OpnFinishKeeps
<1>8. CASE openingJob[c].command \in {"SUBMIT", "VERIFY", "APPROVE"}
  <2>1. opening' = [openingJob[c].read EXCEPT !.status = Book!Moves[openingJob[c].command].to]
    BY <1>1, <1>8 DEF Book!Written
  <2>2. openingJob[c].read \in OpnOpened
    BY <1>1, <1>2, <1>8 DEF OpnKind
  <2>3. Book!Moves[openingJob[c].command].to \in Book!Statuses
    BY <1>8 DEF Book!Moves, Book!Statuses
  <2>4. /\ opening' \in OpnOpened /\ opening'.status = Book!Moves[openingJob[c].command].to
        /\ opening'.parts = openingJob[c].read.parts
    BY <2>1, <2>2, <2>3 DEF OpnOpened
  <2>5. opening' # Absent
    BY <1>4, <2>4
  <2>6. ~openingDisturbed => \A k \in Book!Keys : entries[k] = Absent
    <3> SUFFICES ASSUME ~openingDisturbed, NEW k \in Book!Keys PROVE entries[k] = Absent
      OBVIOUS
    <3>1. Book!Status(opening) = Book!Moves[openingJob[c].command].from
      BY <1>1, <1>2, <1>8 DEF OpnKnows, Book!Moves
    <3>2. Book!Status(opening) # "LOCKED"
      BY <1>8, <3>1 DEF Book!Moves
    <3> QED
      BY <1>2, <3>2 DEF OpnShows
  <2>7. CASE openingJob[c].command # "APPROVE"
    <3>1. Book!Finish(c)
      BY <2>7 DEF Book!SaveOpening
    <3>2. opening'.status # "LOCKED"
      BY <1>8, <2>4, <2>7 DEF Book!Moves
    <3>3. ~openingDisturbed => \A k \in Book!Keys : OpnShows(entries'[k], k, opening', {})
      BY <1>1, <2>5, <2>6, <3>2 DEF OpnShows, Book!Status
    <3> QED
      BY <1>1, <1>3, <2>4, <2>5, <3>1, <3>3, OpnFinishKeeps
  <2>8. CASE openingJob[c].command = "APPROVE"
    <3>1. PICK j : j = [openingJob[c] EXCEPT !.step = "saved"]
      OBVIOUS
    <3>2. openingJob' = [openingJob EXCEPT ![c] = j]
      BY <2>8, <3>1 DEF Book!SaveOpening, OpnIInv, OpnTInv
    <3>3. j \in OpnJob
      BY <1>2, <3>1 DEF OpnJob, OpnSteps
    <3>4. j.step = "saved" /\ j.command = "APPROVE"
      BY <1>2, <2>8, <3>1 DEF OpnJob
    <3>5. OpnKind(j)
      BY <3>4 DEF OpnKind
    <3>6. opening'.status = "LOCKED"
      BY <2>4, <2>8 DEF Book!Moves
    <3>7. ~openingDisturbed => OpnKnows(j)'
      BY <1>1, <2>5, <2>6, <3>4, <3>6 DEF OpnKnows, OpnShows, Book!Status
    <3> QED
      BY <1>1, <1>2, <1>3, <2>4, <2>5, <3>2, <3>3, <3>4, <3>5, <3>7, OpnStepKeeps
  <2> QED
    BY <2>7, <2>8
<1> QED
  BY <1>2, <1>6, <1>7, <1>8 DEF OpnJob

LEMMA OpnReadSavedKeeps ==
  ASSUME OpnIInv, NEW c \in Callers, Book!ReadSaved(c)
  PROVE  OpnIInv'
<1>1. /\ openingJob[c].step = "saved"
      /\ UNCHANGED <<opening, entries, openingHandled, openingDisturbed>>
      /\ openingJob' = [openingJob EXCEPT ![c].step = "project", ![c].read = opening,
                            ![c].todo = Book!Keys \cap opening.parts.keys]
  BY DEF Book!ReadSaved, Book!At
<1>2. /\ openingJob[c] \in OpnJob /\ OpnKind(openingJob[c]) /\ opening # Absent
      /\ ~openingDisturbed =>
           OpnKnows(openingJob[c]) /\ \A d \in Callers \ {c} : openingJob[d] = Book!Idle
  BY <1>1, OpnAtIs
<1>3. /\ opening \in OpnOpened /\ entries' \in [Book!Keys -> Book!Parts \cup {Absent}]
      /\ openingHandled' \in 0..Bounds.opening /\ openingDisturbed' \in BOOLEAN
  BY <1>1, <1>2 DEF OpnIInv, OpnTInv
<1>4. PICK j : j = [openingJob[c] EXCEPT !.step = "project", !.read = opening,
                                  !.todo = Book!Keys \cap opening.parts.keys]
  OBVIOUS
<1>5. openingJob' = [openingJob EXCEPT ![c] = j]
  BY <1>1, <1>4 DEF OpnIInv, OpnTInv
<1>6. j \in OpnJob
  BY <1>2, <1>3, <1>4 DEF OpnJob, OpnSteps
<1>7. /\ j.step = "project" /\ j.read = opening /\ j.command = "APPROVE"
      /\ j.todo = Book!Keys \cap opening.parts.keys
  BY <1>1, <1>2, <1>4 DEF OpnJob, OpnKind
<1>8. OpnKind(j)
  BY <1>3, <1>7 DEF OpnKind
<1>9. "summary" \in Book!Keys \cap opening.parts.keys
  <2>1. opening.parts \in Book!Parts
    BY <1>3 DEF OpnOpened
  <2>2. \A d \in Book!Parts : "summary" \in d.keys
    BY OpeningAssumption DEF Book!Parts, Book!EmptyDraft
  <2> QED
    BY <2>1, <2>2, OpeningAssumption
<1>10. ~openingDisturbed => OpnKnows(j)'
  <2> SUFFICES ASSUME ~openingDisturbed PROVE OpnKnows(j)'
    OBVIOUS
  <2>1. /\ Book!Status(opening) = "LOCKED"
        /\ \A k \in Book!Keys : OpnShows(entries[k], k, opening, Book!Keys)
    BY <1>1, <1>2 DEF OpnKnows
  <2>2. \A k \in Book!Keys : OpnShows(entries[k], k, opening, j.todo)
    BY <1>7, <2>1 DEF OpnShows
  <2> QED
    BY <1>1, <1>7, <1>9, <2>1, <2>2 DEF OpnKnows, OpnShows, Book!Status
<1> QED
  BY <1>1, <1>2, <1>3, <1>5, <1>6, <1>7, <1>8, <1>10, OpnStepKeeps

LEMMA OpnFirstIs ==
  ASSUME NEW todo, todo \subseteq Book!Keys, todo # {}
  PROVE  Book!First(todo) \in todo
<1> DEFINE places == {i \in DOMAIN KeyOrder : KeyOrder[i] \in todo}
<1>1. DOMAIN KeyOrder = 1..Len(KeyOrder) /\ Len(KeyOrder) \in Nat
  BY OpeningAssumption
<1>2. places \subseteq Nat
  BY <1>1
<1>3. places # {}
  <2>1. PICK k \in todo : k \in Book!Keys
    OBVIOUS
  <2>2. PICK i \in DOMAIN KeyOrder : KeyOrder[i] = k
    BY <2>1 DEF Book!Keys, Book!ToSet
  <2> QED
    BY <2>1, <2>2
<1>4. \E i \in places : \A k \in places : i <= k
  <2> HIDE DEF places
  <2> QED
    BY <1>2, <1>3, Least
<1>5. (CHOOSE i \in places : \A k \in places : i <= k) \in places
  BY <1>4
<1> QED
  BY <1>5 DEF Book!First

LEMMA OpnProjectEntryKeeps ==
  ASSUME OpnIInv, NEW c \in Callers, Book!ProjectEntry(c)
  PROVE  OpnIInv'
<1>1. PICK k, left :
        /\ k = Book!First(openingJob[c].todo) /\ left = openingJob[c].todo \ {k}
        /\ entries' = [entries EXCEPT ![k] = openingJob[c].read.parts]
        /\ IF left = {} THEN Book!Finish(c) ELSE openingJob' = [openingJob EXCEPT ![c].todo = left]
  BY DEF Book!ProjectEntry
<1>2. openingJob[c].step = "project" /\ UNCHANGED <<opening, openingHandled, openingDisturbed>>
  BY DEF Book!ProjectEntry, Book!At
<1>3. /\ openingJob[c] \in OpnJob /\ OpnKind(openingJob[c])
      /\ ~openingDisturbed =>
           OpnKnows(openingJob[c]) /\ \A d \in Callers \ {c} : openingJob[d] = Book!Idle
  BY <1>2, OpnAtIs
<1>4. /\ openingJob[c].read \in OpnOpened
      /\ openingJob[c].read.parts \in Book!Parts
      /\ openingJob[c].todo \subseteq Book!Keys
  BY <1>2, <1>3 DEF OpnKind, OpnOpened, OpnJob
<1>5. /\ opening' \in OpnOpened \cup {Absent} /\ entries' \in [Book!Keys -> Book!Parts \cup {Absent}]
      /\ openingHandled' \in 0..Bounds.opening /\ openingDisturbed' \in BOOLEAN
  BY <1>1, <1>2, <1>4 DEF OpnIInv, OpnTInv
<1>6. ASSUME ~openingDisturbed
      PROVE  \A m \in Book!Keys : OpnShows(entries'[m], m, opening', left)
  <2>1. /\ Book!Status(opening) = "LOCKED"
        /\ openingJob[c].todo \subseteq opening.parts.keys
        /\ openingJob[c].todo # {}
        /\ \A m \in Book!Keys : OpnShows(entries[m], m, opening, openingJob[c].todo)
        /\ openingJob[c].read = opening
    BY <1>2, <1>3, <1>6 DEF OpnKnows
  <2>2. k \in openingJob[c].todo
    BY <1>1, <1>4, <2>1, OpnFirstIs
  <2>3. entries \in [Book!Keys -> Book!Parts \cup {Absent}]
    BY DEF OpnIInv, OpnTInv
  <2>4. ASSUME NEW m \in Book!Keys PROVE OpnShows(entries'[m], m, opening, left)
    <3>1. CASE m = k
      <4>1. entries'[m] = opening.parts
        BY <1>1, <2>1, <2>3, <3>1
      <4>2. m \in opening.parts.keys \ left
        BY <1>1, <2>1, <2>2, <3>1
      <4> QED
        BY <2>1, <4>1, <4>2 DEF OpnShows
    <3>2. CASE m # k
      <4>1. entries'[m] = entries[m]
        BY <1>1, <2>3, <3>2
      <4>2. m \in left <=> m \in openingJob[c].todo
        BY <1>1, <3>2
      <4> QED
        BY <2>1, <4>1, <4>2 DEF OpnShows
    <3> QED
      BY <3>1, <3>2
  <2> QED
    BY <1>2, <2>4
<1>7. CASE left = {}
  BY <1>1, <1>2, <1>5, <1>6, <1>7, OpnFinishKeeps
<1>8. CASE left # {}
  <2>1. PICK j : j = [openingJob[c] EXCEPT !.todo = left]
    OBVIOUS
  <2>2. openingJob' = [openingJob EXCEPT ![c] = j]
    BY <1>1, <1>8, <2>1 DEF OpnIInv, OpnTInv
  <2>3. left \subseteq Book!Keys /\ left \subseteq openingJob[c].todo
    BY <1>1, <1>4
  <2>4. j \in OpnJob
    BY <1>3, <2>1, <2>3 DEF OpnJob
  <2>5. /\ j.step = "project"
        /\ j.read = openingJob[c].read
        /\ j.command = openingJob[c].command
        /\ j.todo = left
        /\ j.input = openingJob[c].input
    BY <1>2, <1>3, <2>1 DEF OpnJob
  <2>6. OpnKind(j)
    BY <1>2, <1>3, <2>5 DEF OpnKind
  <2>7. ~openingDisturbed => OpnKnows(j)'
    <3> SUFFICES ASSUME ~openingDisturbed PROVE OpnKnows(j)'
      OBVIOUS
    <3>1. /\ Book!Status(opening) = "LOCKED"
          /\ openingJob[c].todo \subseteq opening.parts.keys
          /\ openingJob[c].read = opening
      BY <1>2, <1>3 DEF OpnKnows
    <3> QED
      BY <1>2, <1>6, <1>8, <2>3, <2>5, <3>1 DEF OpnKnows, OpnShows, Book!Status
  <2> QED
    BY <1>2, <1>3, <1>5, <2>2, <2>4, <2>5, <2>6, <2>7, OpnStepKeeps
<1> QED
  BY <1>7, <1>8

LEMMA OpnCutOffKeeps ==
  ASSUME OpnIInv, NEW c \in Callers, Book!CutOff(c)
  PROVE  OpnIInv'
<1>1. /\ openingJob[c].step # "idle" /\ Book!Finish(c) /\ openingDisturbed' = TRUE
      /\ UNCHANGED <<opening, entries, openingHandled>>
  BY DEF Book!CutOff
<1>2. opening' \in OpnOpened \cup {Absent} /\ entries' \in [Book!Keys -> Book!Parts \cup {Absent}]
  BY <1>1 DEF OpnIInv, OpnTInv
<1> QED
  BY <1>1, <1>2, OpnFinishKeeps

-------------------------------------------------------------------------------
LEMMA OpnInvNext == OpnIInv /\ [Book!Next]_(Book!vars) => OpnIInv'
<1> SUFFICES ASSUME OpnIInv, [Book!Next]_(Book!vars) PROVE OpnIInv'
  OBVIOUS
<1>1. CASE UNCHANGED Book!vars
  BY <1>1 DEF Book!vars, OpnIInv, OpnTInv, OpnKInv, OpnKind, OpnPInv, OpnKnows, OpnShows, Book!Status
<1>2. ASSUME NEW c \in Callers, NEW payload \in Book!Payloads, Book!UpsertDraft(c, payload) PROVE OpnIInv'
  BY <1>2, OpnUpsertDraftKeeps
<1>3. ASSUME NEW c \in Callers, NEW command \in DOMAIN Book!Moves, Book!Transition(c, command)
      PROVE OpnIInv'
  BY <1>3, OpnTransitionKeeps
<1>4. ASSUME NEW c \in Callers, NEW document \in Papers, Book!AttachDocument(c, document)
      PROVE OpnIInv'
  BY <1>4, OpnAttachDocumentKeeps
<1>5. ASSUME NEW c \in Callers,
             \/ Book!FindForAttach(c) \/ Book!DraftForAttach(c) \/ Book!ReadAgain(c)
             \/ Book!SaveOpening(c) \/ Book!ReadSaved(c) \/ Book!ProjectEntry(c) \/ Book!CutOff(c)
      PROVE  OpnIInv'
  BY <1>5, OpnFindForAttachKeeps, OpnDraftForAttachKeeps, OpnReadAgainKeeps, OpnSaveOpeningKeeps,
     OpnReadSavedKeeps,
     OpnProjectEntryKeeps, OpnCutOffKeeps
<1> QED
  BY <1>1, <1>2, <1>3, <1>4, <1>5 DEF Book!Next

LEMMA OpnInvariance == Book!Spec => []OpnIInv
BY OpnInvInit, OpnInvNext, PTL DEF Book!Spec

LEMMA OpnTypes == OpnIInv => Book!TypeOK
<1> SUFFICES ASSUME OpnIInv PROVE Book!TypeOK
  OBVIOUS
<1>1. \A c \in Callers : openingJob[c] = Book!Idle \/ openingJob[c].read \in Book!Openings
  BY OpnJobIs DEF OpnIInv, OpnJob, OpnOpened, Book!Openings
<1> QED
  BY <1>1 DEF OpnIInv, OpnTInv, Book!TypeOK, OpnOpened, Book!Openings

LEMMA OpnProjects == OpnIInv => Book!OpeningProjected
<1> SUFFICES ASSUME OpnIInv, ~openingDisturbed, \A c \in Callers : openingJob[c] = Book!Idle,
                    NEW k \in Book!Keys
    PROVE  entries[k] = IF Book!Status(opening) = "LOCKED" /\ k \in opening.parts.keys
                          THEN opening.parts ELSE Absent
  BY DEF Book!OpeningProjected
<1>1. OpnShows(entries[k], k, opening, {})
  BY OpnIdleIs DEF OpnIInv, OpnPInv
<1> QED
  BY <1>1 DEF OpnShows



-------------------------------------------------------------------------------
(* Offices. *)

DeptAccount == [authorities : SUBSET Department!Authorities, department : Offices \cup {None}]

DeptWorking ==
  [step : {"insert", "update", "find", "holders", "hand_over", "pull"},
   department : Offices, old : Department!Holders, new : Department!Holders,
   authority : Department!Authorities,
   holders : SUBSET Employees]

DeptTInv ==
  /\ departments \in [Offices -> Department!Holders \cup {Absent}]
  /\ accounts \in [Employees -> {Absent} \cup DeptAccount]
  /\ departmentJob \in [OfficeCallers -> DeptWorking \cup {Department!Idle}]
  /\ departmentHandled \in 0..Bounds.departments
  /\ named \in [Offices -> SUBSET Employees]
  /\ missing \in [Offices -> SUBSET Department!Authorities]
  /\ departmentDisturbed \subseteq Offices

\* An account that holds an authority belongs to a department that has named
\* its employee.
DeptBelongs(e) ==
  accounts[e] # Absent =>
    /\ accounts[e].department = None => accounts[e].authorities = {}
    /\ accounts[e].department # None => e \in named[accounts[e].department]

DeptNamedBy(d) ==
  IF departments[d] = Absent THEN named[d] = {}
  ELSE \A a \in Department!Authorities : departments[d][a] \in named[d] \cup {None}

DeptHasAccount(e) == e \in Employees /\ accounts[e] # Absent

DeptWritten(j) == j.step \notin {"insert", "update"}

\* A request works on employees its department has named.
DeptWorks(j) ==
  /\ \A a \in Department!Authorities : j.old[a] \in named[j.department] \cup {None}
  /\ ~DeptWritten(j) => j.authority = "HOD"
  /\ j.step = "insert" => j.old = Department!Nobody
  /\ DeptWritten(j) => \A a \in Department!Authorities : j.new[a] \in named[j.department] \cup {None}
  /\ j.step \in {"holders", "hand_over"} => DeptHasAccount(j.new[j.authority])
  /\ j.step = "pull" => DeptHasAccount(j.old[j.authority]) /\ j.new[j.authority] = None
  /\ \A e \in j.holders : e \in named[j.department] /\ DeptHasAccount(e)

\* The first of the two authorities is handed over when it is the second's turn.
DeptDone(j, a) == DeptWritten(j) /\ a = "HOD" /\ j.authority = "DEPT_DATA_ENTRY"

DeptShown(d, a, holder) == a \in missing[d] \/ Department!Held(d, a) = {holder} \ {None}

\* How far a request has handed an authority over.
DeptHanded(j, d, a) ==
  IF j.step = "hand_over" /\ j.authority = a
    THEN Department!Held(d, a) \subseteq j.holders \cup {j.new[a]}
    ELSE DeptShown(d, a, IF DeptDone(j, a) THEN j.new[a] ELSE j.old[a])

DeptAlone(d) ==
  \A b, c \in OfficeCallers : Department!AtWork(b, d) /\ Department!AtWork(c, d) => b = c

\* What the request at work has read, and has written by now.
DeptRead(j, d) ==
  /\ j.step = "insert" => departments[d] = Absent
  /\ j.step = "update" => departments[d] = j.old
  /\ DeptWritten(j) => departments[d] = j.new

DeptUpheld(d) ==
  /\ \A c \in OfficeCallers : Department!AtWork(c, d) =>
       DeptRead(departmentJob[c], d) /\ \A a \in Department!Authorities :
         DeptHanded(departmentJob[c], d, a)
  /\ departments[d] # Absent /\ (\A c \in OfficeCallers : ~Department!AtWork(c, d)) =>
       \A a \in Department!Authorities : DeptShown(d, a, departments[d][a])

DeptHInv ==
  /\ \A e \in Employees : DeptBelongs(e)
  /\ \A d \in Offices : DeptNamedBy(d)
  /\ \A c \in OfficeCallers : departmentJob[c] # Department!Idle => DeptWorks(departmentJob[c])

DeptDInv ==
  \A d \in Offices : d \notin departmentDisturbed =>
    DeptAlone(d) /\ (Department!Exclusive(d) => DeptUpheld(d))

DeptIInv == DeptTInv /\ DeptHInv /\ DeptDInv

LEMMA DeptIdleIs ==
  /\ Department!Idle \notin DeptWorking /\ Department!Idle.step = "idle"
  /\ Department!Authorities = {"HOD", "DEPT_DATA_ENTRY"}
  /\ Department!Nobody \in Department!Holders
  /\ (\A a \in Department!Authorities : Department!Nobody[a] = None)
  /\ Department!NewAccount \in DeptAccount /\ Department!NewAccount # Absent
  /\ Department!NewAccount.authorities = {} /\ Department!NewAccount.department = None
  /\ None \notin Employees
  /\ None \notin Offices
  /\ Absent \notin Department!Holders
  /\ Absent \notin DeptAccount
BY OfficesAssumption DEF Department!Idle, DeptWorking, Department!Authorities, Department!Nobody,
   Department!Holders, Department!NewAccount, DeptAccount

LEMMA DeptInvInit == Department!Init => DeptIInv
<1> SUFFICES ASSUME Department!Init PROVE DeptIInv
  OBVIOUS
<1> USE DEF Department!Init
<1>1. DeptTInv
  <2>1. accounts \in [Employees -> {Absent} \cup DeptAccount]
    BY DeptIdleIs
  <2>2. departmentHandled \in 0..Bounds.departments
    BY OfficeBounds
  <2> QED
    BY <2>1, <2>2 DEF DeptTInv
<1>2. DeptHInv
  <2>1. \A e \in Employees : DeptBelongs(e)
    BY DeptIdleIs DEF DeptBelongs
  <2> QED
    BY <2>1 DEF DeptHInv, DeptNamedBy
<1>3. DeptDInv
  BY DEF DeptDInv, DeptAlone, DeptUpheld, Department!AtWork
<1> QED
  BY <1>1, <1>2, <1>3 DEF DeptIInv

-------------------------------------------------------------------------------
\* A step at another department leaves this one alone.
LEMMA DeptElsewhere ==
  ASSUME NEW d \in Offices, DeptAlone(d) /\ (Department!Exclusive(d) => DeptUpheld(d)),
         Department!Exclusive(d)' => Department!Exclusive(d),
         \A c \in OfficeCallers : Department!AtWork(c, d)' <=> Department!AtWork(c, d),
         \A c \in OfficeCallers : Department!AtWork(c, d) => departmentJob'[c] = departmentJob[c],
         departments'[d] = departments[d], missing'[d] = missing[d],
         Department!Exclusive(d)' =>
           \A a \in Department!Authorities : Department!Held(d, a)' = Department!Held(d, a)
  PROVE  DeptAlone(d)' /\ (Department!Exclusive(d)' => DeptUpheld(d)')
<1>1. DeptAlone(d)'
  BY DEF DeptAlone
<1>2. ASSUME Department!Exclusive(d)' PROVE DeptUpheld(d)'
  <2>1. DeptUpheld(d)
    BY <1>2
  <2>2. ASSUME NEW c \in OfficeCallers, Department!AtWork(c, d)'
        PROVE  /\ DeptRead(departmentJob[c], d)'
               /\ \A a \in Department!Authorities : DeptHanded(departmentJob[c], d, a)'
    <3>1. /\ Department!AtWork(c, d)
          /\ departmentJob'[c] = departmentJob[c]
          /\ DeptRead(departmentJob[c], d)
          /\ \A a \in Department!Authorities : DeptHanded(departmentJob[c], d, a)
      BY <2>1, <2>2 DEF DeptUpheld
    <3>2. DeptRead(departmentJob[c], d)'
      BY <3>1 DEF DeptRead, DeptWritten
    <3>3. ASSUME NEW a \in Department!Authorities
          PROVE  DeptHanded(departmentJob[c], d, a)'
      BY <3>1, <1>2 DEF DeptHanded, DeptShown, DeptDone, DeptWritten
    <3> QED
      BY <3>2, <3>3
  <2>3. ASSUME departments'[d] # Absent, \A c \in OfficeCallers : ~Department!AtWork(c, d)'
        PROVE  \A a \in Department!Authorities : DeptShown(d, a, departments[d][a])'
    BY <1>2, <2>1, <2>3 DEF DeptUpheld, DeptShown
  <2> QED
    BY <2>2, <2>3 DEF DeptUpheld
<1> QED
  BY <1>1, <1>2

\* What departments have named and which accounts there are only grows.
LEMMA DeptWorksKept ==
  ASSUME NEW j, DeptWorks(j), named[j.department] \subseteq named'[j.department],
         \A e : DeptHasAccount(e) => DeptHasAccount(e)'
  PROVE  DeptWorks(j)'
BY DEF DeptWorks, DeptWritten

\* The request turns to the next authority once one is handed over.
LEMMA DeptTurnKeeps ==
  ASSUME DeptTInv, NEW c \in OfficeCallers, departmentJob[c] \in DeptWorking,
         DeptWritten(departmentJob[c]),
         NEW d \in Offices, d = departmentJob[c].department, DeptAlone(d),
         departmentJob' = [departmentJob EXCEPT ![c] = Department!Turned(departmentJob[c])],
         departments'[d] = departmentJob[c].new,
         \A a \in Department!Authorities :
           LET holder == IF a = departmentJob[c].authority \/ DeptDone(departmentJob[c], a)
                 THEN departmentJob[c].new[a] ELSE departmentJob[c].old[a]
           IN  a \in missing'[d] \/ Department!Held(d, a)' = {holder} \ {None}
  PROVE  DeptAlone(d)' /\ DeptUpheld(d)'
<1> DEFINE j == departmentJob[c]
<1>1. \A b \in OfficeCallers : departmentJob'[b] = IF b = c THEN Department!Turned(j)
        ELSE departmentJob[b]
  BY DEF DeptTInv
<1>2. j # Department!Idle /\ Department!AtWork(c, d)
  BY DeptIdleIs DEF Department!AtWork
<1>3. \A b \in OfficeCallers \ {c} : ~Department!AtWork(b, d)'
  BY <1>1, <1>2 DEF Department!AtWork, DeptAlone
<1>4. DeptAlone(d)'
  BY <1>3 DEF DeptAlone
<1>5. CASE j.authority = "DEPT_DATA_ENTRY"
  <2>1. Department!Turned(j) = Department!Idle
    BY <1>5 DEF Department!Turned, Department!Following
  <2>2. \A b \in OfficeCallers : ~Department!AtWork(b, d)'
    BY <1>1, <1>3, <2>1 DEF Department!AtWork
  <2>3. \A a \in Department!Authorities : a = j.authority \/ DeptDone(j, a)
    BY <1>5, DeptIdleIs DEF DeptDone
  <2>4. \A a \in Department!Authorities : DeptShown(d, a, departments[d][a])'
    BY <2>3 DEF DeptShown
  <2> QED
    BY <1>4, <2>2, <2>4 DEF DeptUpheld
<1>6. CASE j.authority = "HOD"
  <2>0. PICK k : k = [j EXCEPT !.step = "find", !.authority = "DEPT_DATA_ENTRY", !.holders = {}]
    OBVIOUS
  <2>1. Department!Turned(j) = k
    BY <1>6, <2>0 DEF Department!Turned, Department!Following
  <2>2. /\ k.step = "find"
        /\ k.authority = "DEPT_DATA_ENTRY"
        /\ k.old = j.old
        /\ k.new = j.new
        /\ k.department = d
    BY <2>0 DEF DeptWorking
  <2>3. \A b \in OfficeCallers : Department!AtWork(b, d)' => b = c
    BY <1>3
  <2>4. DeptRead(k, d)'
    BY <2>2 DEF DeptRead, DeptWritten
  <2>5. ASSUME NEW a \in Department!Authorities
        PROVE  DeptHanded(k, d, a)'
    <3>1. DeptDone(k, a) <=> a = "HOD"
      BY <2>2 DEF DeptDone, DeptWritten
    <3>2. a = j.authority \/ DeptDone(j, a) <=> a = "HOD"
      BY <1>6 DEF DeptDone
    <3> QED
      BY <2>2, <3>1, <3>2 DEF DeptHanded, DeptShown
  <2>6. ASSUME NEW b \in OfficeCallers, Department!AtWork(b, d)'
        PROVE  /\ DeptRead(departmentJob[b], d)'
               /\ \A a \in Department!Authorities : DeptHanded(departmentJob[b], d, a)'
    <3>1. departmentJob'[b] = k
      BY <1>1, <2>1, <2>3, <2>6
    <3>2. DeptRead(departmentJob[b], d)'
      BY <3>1, <2>4 DEF DeptRead, DeptWritten
    <3>3. \A a \in Department!Authorities : DeptHanded(departmentJob[b], d, a)'
      BY <3>1, <2>5 DEF DeptHanded, DeptShown, DeptDone, DeptWritten
    <3> QED
      BY <3>2, <3>3
  <2>7. Department!AtWork(c, d)'
    BY <1>1, <2>1, <2>2, DeptIdleIs DEF Department!AtWork
  <2> QED
    BY <1>4, <2>6, <2>7 DEF DeptUpheld
<1> QED
  BY <1>5, <1>6, DeptIdleIs DEF DeptWorking

LEMMA DeptTurnedIs ==
  ASSUME NEW j \in DeptWorking, DeptWritten(j), DeptWorks(j)
  PROVE  /\ Department!Turned(j) \in DeptWorking \cup {Department!Idle}
         /\ Department!Turned(j) # Department!Idle =>
              DeptWorks(Department!Turned(j)) /\ Department!Turned(j).department = j.department
<1>1. CASE j.authority = "DEPT_DATA_ENTRY"
  BY <1>1 DEF Department!Turned, Department!Following
<1>2. CASE j.authority = "HOD"
  <2> DEFINE k == [j EXCEPT !.step = "find", !.authority = "DEPT_DATA_ENTRY", !.holders = {}]
  <2>1. Department!Turned(j) = k
    BY <1>2 DEF Department!Turned, Department!Following
  <2>2. /\ k \in DeptWorking
        /\ k.step = "find" /\ k.authority = "DEPT_DATA_ENTRY" /\ k.old = j.old /\ k.new = j.new
        /\ k.department = j.department /\ k.holders = {}
    BY DeptIdleIs DEF DeptWorking
  <2> HIDE DEF k
  <2>3. DeptWorks(k)
    BY <2>2 DEF DeptWorks, DeptWritten
  <2> QED
    BY <2>1, <2>2, <2>3
<1> QED
  BY <1>1, <1>2, DeptIdleIs DEF DeptWorking

LEMMA DeptProvisionKeeps ==
  ASSUME DeptIInv, NEW e \in Employees, Department!Provision(e)
  PROVE  DeptIInv'
<1>1. /\ accounts[e] = Absent /\ accounts' = [accounts EXCEPT ![e] = Department!NewAccount]
      /\ UNCHANGED <<departments, departmentJob, departmentHandled, named, missing,
                     departmentDisturbed>>
  BY DEF Department!Provision
<1>2. DeptTInv /\ DeptHInv /\ DeptDInv
  BY DEF DeptIInv
<1>3. DeptTInv'
  BY <1>1, <1>2, DeptIdleIs DEF DeptTInv
<1>4. \A f \in Employees : accounts'[f] = IF f = e THEN Department!NewAccount ELSE accounts[f]
  BY <1>1, <1>2 DEF DeptTInv
<1>5. DeptHInv'
  <2>1. ASSUME NEW f \in Employees PROVE DeptBelongs(f)'
    BY <1>1, <1>2, <1>4, DeptIdleIs DEF DeptHInv, DeptBelongs
  <2>2. \A d \in Offices : DeptNamedBy(d)'
    BY <1>1, <1>2 DEF DeptHInv, DeptNamedBy
  <2>3. ASSUME NEW c \in OfficeCallers, departmentJob'[c] # Department!Idle
        PROVE DeptWorks(departmentJob[c])'
    <3>1. /\ departmentJob'[c] = departmentJob[c]
          /\ DeptWorks(departmentJob[c])
          /\ departmentJob[c] \in DeptWorking
      BY <1>1, <1>2, <2>3 DEF DeptHInv, DeptTInv
    <3>2. \A a \in Department!Authorities : departmentJob[c].new[a] \in Employees \cup {None} /\ departmentJob[c].old[a] \in Employees \cup {None}
      BY <3>1 DEF DeptWorking, Department!Holders
    <3>3. \A f \in Employees \cup {None} : DeptHasAccount(f) => DeptHasAccount(f)'
      BY <1>4, DeptIdleIs DEF DeptHasAccount
    <3> QED
      BY <3>1, <3>2, <3>3, <1>1 DEF DeptWorks, DeptWritten, DeptWorking
  <2> QED
    BY <2>1, <2>2, <2>3 DEF DeptHInv
<1>6. DeptDInv'
  <2>1. ASSUME NEW d \in Offices, NEW a \in Department!Authorities
        PROVE  Department!Held(d, a)' = Department!Held(d, a)
    BY <1>1, <1>4, DeptIdleIs DEF Department!Held
  <2>2. ASSUME NEW d \in Offices, d \notin departmentDisturbed'
        PROVE  DeptAlone(d)' /\ (Department!Exclusive(d)' => DeptUpheld(d)')
    <3>1. DeptAlone(d) /\ (Department!Exclusive(d) => DeptUpheld(d))
      BY <1>1, <1>2, <2>2 DEF DeptDInv
    <3>2. Department!Exclusive(d)' => Department!Exclusive(d)
      BY <1>1 DEF Department!Exclusive
    <3>3. \A c \in OfficeCallers : Department!AtWork(c, d)' <=> Department!AtWork(c, d)
      BY <1>1 DEF Department!AtWork
    <3> QED
      BY <1>1, <2>1, <3>1, <3>2, <3>3, DeptElsewhere
  <2> QED
    BY <2>2 DEF DeptDInv
<1> QED
  BY <1>3, <1>5, <1>6 DEF DeptIInv

\* The other departments are left alone by a step at this one: it writes only
\* accounts of employees it has named.
LEMMA DeptOthersKeep ==
  ASSUME DeptIInv, NEW c \in OfficeCallers, NEW d \in Offices,
         NEW k \in DeptWorking \cup {Department!Idle},
         departmentJob' = [departmentJob EXCEPT ![c] = k],
         departmentJob[c] # Department!Idle => departmentJob[c].department = d,
         k # Department!Idle => k.department = d,
         \A b \in Offices \ {d} : departments'[b] = departments[b] /\ missing'[b] = missing[b],
         \A b \in Offices : named[b] \subseteq named'[b],
         departmentDisturbed \subseteq departmentDisturbed',
         \A e \in Employees : accounts'[e] # accounts[e] => e \in named'[d],
         \A e \in Employees : DeptBelongs(e)'
  PROVE  \A b \in Offices \ {d} : b \notin departmentDisturbed' =>
           DeptAlone(b)' /\ (Department!Exclusive(b)' => DeptUpheld(b)')
<1> SUFFICES ASSUME NEW b \in Offices \ {d}, b \notin departmentDisturbed'
             PROVE  DeptAlone(b)' /\ (Department!Exclusive(b)' => DeptUpheld(b)')
  OBVIOUS
<1>1. DeptAlone(b) /\ (Department!Exclusive(b) => DeptUpheld(b))
  BY DEF DeptIInv, DeptDInv
<1>2. Department!Exclusive(b)' => Department!Exclusive(b)
  <2> SUFFICES ASSUME Department!Exclusive(b)', NEW x \in Offices \ {b}
               PROVE named[b] \cap named[x] = {}
    BY DEF Department!Exclusive
  <2>1. named'[b] \cap named'[x] = {}
    BY DEF Department!Exclusive
  <2> QED
    BY <2>1
<1>3. \A x \in OfficeCallers : departmentJob'[x] = IF x = c THEN k ELSE departmentJob[x]
  BY DEF DeptIInv, DeptTInv
<1>4. \A x \in OfficeCallers : (Department!AtWork(x, b)' <=> Department!AtWork(x, b)) /\ (Department!AtWork(x, b) => departmentJob'[x] = departmentJob[x])
  BY <1>3 DEF Department!AtWork
<1>5. ASSUME Department!Exclusive(b)', NEW a \in Department!Authorities
      PROVE  Department!Held(b, a)' = Department!Held(b, a)
  <2>1. ASSUME NEW e \in Employees, accounts'[e] # accounts[e]
        PROVE  /\ ~(accounts[e] # Absent /\ accounts[e].department = b)
               /\ ~(accounts'[e] # Absent /\ accounts'[e].department = b)
    <3>1. e \notin named'[b]
      BY <1>5, <2>1 DEF Department!Exclusive
    <3>2. b # None
      BY DeptIdleIs
    <3>3. DeptBelongs(e) /\ DeptBelongs(e)' /\ e \notin named[b]
      BY <3>1 DEF DeptIInv, DeptHInv
    <3> QED
      BY <3>1, <3>2, <3>3 DEF DeptBelongs
  <2> QED
    BY <2>1 DEF Department!Held
<1> QED
  BY <1>1, <1>2, <1>4, <1>5, DeptElsewhere

\* The other requests work on as they did.
LEMMA DeptJobsKeep ==
  ASSUME DeptIInv, NEW c \in OfficeCallers, NEW k \in DeptWorking \cup {Department!Idle},
         departmentJob' = [departmentJob EXCEPT ![c] = k],
         k # Department!Idle => DeptWorks(k)',
         \A b \in Offices : named[b] \subseteq named'[b],
         \A e : DeptHasAccount(e) => DeptHasAccount(e)'
  PROVE  \A b \in OfficeCallers : departmentJob'[b] # Department!Idle => DeptWorks(departmentJob[b])'
<1> SUFFICES ASSUME NEW b \in OfficeCallers, departmentJob'[b] # Department!Idle
             PROVE DeptWorks(departmentJob[b])'
  OBVIOUS
<1>1. departmentJob'[b] = IF b = c THEN k ELSE departmentJob[b]
  BY DEF DeptIInv, DeptTInv
<1>2. CASE b = c
  BY <1>1, <1>2 DEF DeptWorks, DeptWritten
<1>3. CASE b # c
  <2>1. PICK j \in DeptWorking : j = departmentJob[b]
    BY <1>1, <1>3 DEF DeptIInv, DeptTInv
  <2>2. DeptWorks(j)
    BY <1>1, <1>3, <2>1 DEF DeptIInv, DeptHInv
  <2>3. named[j.department] \subseteq named'[j.department]
    BY DEF DeptWorking
  <2>4. DeptWorks(j)'
    BY <2>2, <2>3, DeptWorksKept
  <2> QED
    BY <1>1, <1>3, <2>1, <2>4 DEF DeptWorks, DeptWritten
<1> QED
  BY <1>2, <1>3

LEMMA DeptBeginKeeps ==
  ASSUME DeptIInv, NEW c \in OfficeCallers, NEW d \in Offices, NEW step \in {"insert", "update"},
         NEW old \in Department!Holders, NEW new \in Department!Holders,
         Department!Begin(c, d, step, old, new),
         step = "insert" => departments[d] = Absent /\ old = Department!Nobody,
         step = "update" => departments[d] = old
  PROVE  DeptIInv'
<1> DEFINE j == [step |-> step, department |-> d, old |-> old, new |-> new,
                 authority |-> "HOD", holders |-> {}]
<1>1. /\ departmentJob[c] = Department!Idle
      /\ departmentHandled < Bounds.departments
      /\ departmentHandled' = departmentHandled + 1
      /\ departmentJob' = [departmentJob EXCEPT ![c] = j]
      /\ departmentDisturbed' = departmentDisturbed \cup (IF \E b \in OfficeCallers : Department!AtWork(b, d) THEN {d} ELSE {})
      /\ UNCHANGED <<departments, accounts, named, missing>>
  BY DEF Department!Begin
<1>2. DeptTInv /\ DeptHInv /\ DeptDInv
  BY DEF DeptIInv
<1>3. /\ j \in DeptWorking /\ j # Department!Idle
      /\ j.step = step /\ j.department = d /\ j.old = old /\ j.new = new /\ j.authority = "HOD"
      /\ j.holders = {}
  BY DeptIdleIs DEF DeptWorking
<1> HIDE DEF j
<1>4. DeptTInv'
  <2>1. departmentHandled' \in 0..Bounds.departments
    BY <1>1, <1>2, OfficeBounds DEF DeptTInv
  <2> QED
    BY <2>1, <1>1, <1>2, <1>3 DEF DeptTInv
<1>5. \A b \in OfficeCallers : departmentJob'[b] = IF b = c THEN j ELSE departmentJob[b]
  BY <1>1, <1>2 DEF DeptTInv
<1>6. DeptHInv'
  <2>1. \A e \in Employees : DeptBelongs(e)'
    BY <1>1, <1>2 DEF DeptHInv, DeptBelongs
  <2>2. \A b \in Offices : DeptNamedBy(b)'
    BY <1>1, <1>2 DEF DeptHInv, DeptNamedBy
  <2>3. \A a \in Department!Authorities : old[a] \in named[d] \cup {None}
    <3>1. CASE step = "insert"
      BY <3>1, DeptIdleIs
    <3>2. CASE step = "update"
      <4>1. departments[d] = old /\ old # Absent /\ DeptNamedBy(d)
        BY <3>2, <1>2, DeptIdleIs DEF DeptHInv
      <4> QED
        BY <4>1 DEF DeptNamedBy
    <3> QED
      BY <3>1, <3>2
  <2>4. PICK k : k = j
    OBVIOUS
  <2>5. DeptWorks(k)'
    BY <2>3, <2>4, <1>1, <1>3 DEF DeptWorks, DeptWritten
  <2>6. \A e : DeptHasAccount(e) => DeptHasAccount(e)'
    BY <1>1 DEF DeptHasAccount
  <2>7. \A b \in OfficeCallers : departmentJob'[b] # Department!Idle => DeptWorks(departmentJob[b])'
    BY <2>4, <2>5, <2>6, <1>1, <1>3, DeptJobsKeep
  <2> QED
    BY <2>1, <2>2, <2>7 DEF DeptHInv
<1>7. \A b \in Offices \ {d} : b \notin departmentDisturbed' =>
        DeptAlone(b)' /\ (Department!Exclusive(b)' => DeptUpheld(b)')
  <2>1. departmentDisturbed \subseteq departmentDisturbed'
    BY <1>1
  <2>2. \A e \in Employees : accounts'[e] # accounts[e] => e \in named'[d]
    BY <1>1
  <2>3. \A e \in Employees : DeptBelongs(e)'
    BY <1>6 DEF DeptHInv
  <2> QED
    BY <2>1, <2>2, <2>3, <1>1, <1>3, DeptOthersKeep
<1>8. ASSUME d \notin departmentDisturbed'
      PROVE  DeptAlone(d)' /\ (Department!Exclusive(d)' => DeptUpheld(d)')
  <2>1. d \notin departmentDisturbed /\ \A b \in OfficeCallers : ~Department!AtWork(b, d)
    BY <1>1, <1>8
  <2>2. \A b \in OfficeCallers : Department!AtWork(b, d)' => b = c
    BY <2>1, <1>5 DEF Department!AtWork
  <2>3. DeptAlone(d)'
    BY <2>2 DEF DeptAlone
  <2>4. ASSUME Department!Exclusive(d)' PROVE DeptUpheld(d)'
    <3>1. DeptUpheld(d)
      BY <2>1, <2>4, <1>1, <1>2 DEF DeptDInv, Department!Exclusive
    <3>2. PICK k : k = j
      OBVIOUS
    <3>3. DeptRead(k, d)'
      BY <3>2, <1>1, <1>3 DEF DeptRead, DeptWritten
    <3>4. ASSUME NEW a \in Department!Authorities PROVE DeptShown(d, a, old[a])
      <4>1. CASE step = "insert"
        <5>1. named[d] = {} /\ old[a] = None
          BY <4>1, <1>2, DeptIdleIs DEF DeptHInv, DeptNamedBy
        <5>2. Department!Held(d, a) = {}
          <6> SUFFICES ASSUME NEW e \in Department!Held(d, a) PROVE FALSE
            OBVIOUS
          <6>1. e \in Employees /\ accounts[e] # Absent /\ accounts[e].department = d
            BY DEF Department!Held
          <6>2. DeptBelongs(e) /\ d # None
            BY <6>1, <1>2, DeptIdleIs DEF DeptHInv
          <6> QED
            BY <5>1, <6>1, <6>2 DEF DeptBelongs
        <5> QED
          BY <5>1, <5>2 DEF DeptShown
      <4>2. CASE step = "update"
        BY <4>2, <2>1, <3>1, DeptIdleIs DEF DeptUpheld
      <4> QED
        BY <4>1, <4>2
    <3>5. ASSUME NEW a \in Department!Authorities PROVE DeptHanded(k, d, a)'
      <4>1. k.step = step /\ ~DeptDone(k, a) /\ k.old[a] = old[a]
        BY <3>2, <1>3 DEF DeptDone, DeptWritten
      <4>2. DeptShown(d, a, old[a])'
        BY <3>4, <1>1 DEF DeptShown, Department!Held
      <4> QED
        BY <4>1, <4>2 DEF DeptHanded, DeptShown, DeptDone
    <3>6. ASSUME NEW b \in OfficeCallers, Department!AtWork(b, d)'
          PROVE  /\ DeptRead(departmentJob[b], d)'
                 /\ \A a \in Department!Authorities : DeptHanded(departmentJob[b], d, a)'
      <4>1. departmentJob'[b] = k
        BY <2>2, <3>2, <3>6, <1>5
      <4> QED
        BY <4>1, <3>3, <3>5 DEF DeptRead, DeptHanded, DeptShown, DeptDone, DeptWritten
    <3>7. Department!AtWork(c, d)'
      BY <1>3, <1>5 DEF Department!AtWork
    <3> QED
      BY <3>6, <3>7 DEF DeptUpheld
  <2> QED
    BY <2>3, <2>4
<1> QED
  BY <1>4, <1>6, <1>7, <1>8 DEF DeptIInv, DeptDInv

\* What has to be shown of a step of the request that works at department d.
LEMMA DeptStepKeeps ==
  ASSUME DeptIInv, NEW c \in OfficeCallers, departmentJob[c] # Department!Idle, NEW d \in Offices,
         d = departmentJob[c].department,
         NEW k \in DeptWorking \cup {Department!Idle},
         departmentJob' = [departmentJob EXCEPT ![c] = k], k # Department!Idle => k.department = d,
         DeptTInv',
         \A b \in Offices \ {d} : departments'[b] = departments[b] /\ missing'[b] = missing[b],
         \A b \in Offices : named[b] \subseteq named'[b] /\ DeptNamedBy(b)',
         departmentDisturbed \subseteq departmentDisturbed',
         \A e \in Employees : accounts'[e] # accounts[e] => e \in named'[d],
         \A e \in Employees : DeptBelongs(e)',
         \A e : DeptHasAccount(e) => DeptHasAccount(e)',
         k # Department!Idle => DeptWorks(k)',
         d \notin departmentDisturbed' =>
           DeptAlone(d)' /\ (Department!Exclusive(d)' => DeptUpheld(d)')
  PROVE  DeptIInv'
<1>1. \A b \in OfficeCallers : departmentJob'[b] # Department!Idle => DeptWorks(departmentJob[b])'
  BY DeptJobsKeep
<1>2. DeptHInv'
  BY <1>1 DEF DeptHInv
<1>3. \A b \in Offices \ {d} : b \notin departmentDisturbed' =>
        DeptAlone(b)' /\ (Department!Exclusive(b)' => DeptUpheld(b)')
  BY DeptOthersKeep
<1>4. DeptDInv'
  BY <1>3 DEF DeptDInv
<1> QED
  BY <1>2, <1>4 DEF DeptIInv

\* The request goes on to another step, and nobody else comes to work at the
\* department.
LEMMA DeptGoes ==
  ASSUME DeptTInv, NEW c \in OfficeCallers, NEW d \in Offices, departmentJob[c] # Department!Idle,
         d = departmentJob[c].department,
         DeptAlone(d), NEW k, k # Department!Idle, k.department = d,
         departmentJob' = [departmentJob EXCEPT ![c] = k],
         DeptRead(k, d)', \A a \in Department!Authorities : DeptHanded(k, d, a)'
  PROVE  DeptAlone(d)' /\ DeptUpheld(d)'
<1>1. \A b \in OfficeCallers : departmentJob'[b] = IF b = c THEN k ELSE departmentJob[b]
  BY DEF DeptTInv
<1>2. Department!AtWork(c, d)
  BY DEF Department!AtWork
<1>3. \A b \in OfficeCallers : Department!AtWork(b, d)' <=> b = c
  BY <1>1, <1>2 DEF Department!AtWork, DeptAlone
<1>4. DeptAlone(d)'
  BY <1>3 DEF DeptAlone
<1>5. ASSUME NEW b \in OfficeCallers, Department!AtWork(b, d)'
      PROVE  /\ DeptRead(departmentJob[b], d)'
             /\ \A a \in Department!Authorities : DeptHanded(departmentJob[b], d, a)'
  <2>1. departmentJob'[b] = k
    BY <1>1, <1>3, <1>5
  <2> QED
    BY <2>1 DEF DeptRead, DeptHanded, DeptShown, DeptDone, DeptWritten
<1>6. Department!AtWork(c, d)'
  BY <1>3
<1> QED
  BY <1>4, <1>5, <1>6 DEF DeptUpheld

\* What is known of a request at work.
LEMMA DeptAtWorkIs ==
  ASSUME DeptIInv, NEW c \in OfficeCallers, departmentJob[c].step # "idle"
  PROVE  /\ DeptTInv /\ DeptHInv /\ DeptDInv
         /\ departmentJob[c] # Department!Idle
         /\ departmentJob[c] \in DeptWorking
         /\ departmentJob[c].department \in Offices
         /\ departmentJob[c].authority \in Department!Authorities /\ DeptWorks(departmentJob[c])
         /\ departmentJob[c].department \notin departmentDisturbed =>
              /\ DeptAlone(departmentJob[c].department)
              /\ Department!Exclusive(departmentJob[c].department) =>
                   /\ DeptUpheld(departmentJob[c].department)
                   /\ DeptRead(departmentJob[c], departmentJob[c].department)
                   /\ \A a \in Department!Authorities :
                        DeptHanded(departmentJob[c], departmentJob[c].department, a)
<1>1. DeptTInv /\ DeptHInv /\ DeptDInv
  BY DEF DeptIInv
<1>2. departmentJob[c] # Department!Idle /\ departmentJob[c] \in DeptWorking
  BY <1>1, DeptIdleIs DEF DeptTInv
<1>3. departmentJob[c].department \in Offices /\ departmentJob[c].authority \in Department!Authorities
  BY <1>2 DEF DeptWorking
<1>4. DeptWorks(departmentJob[c])
  BY <1>1, <1>2 DEF DeptHInv
<1>5. Department!AtWork(c, departmentJob[c].department)
  BY <1>2 DEF Department!AtWork
<1> QED
  BY <1>1, <1>2, <1>3, <1>4, <1>5 DEF DeptDInv, DeptUpheld

LEMMA DeptWriteKeeps ==
  ASSUME DeptIInv, NEW c \in OfficeCallers, Department!WriteDepartment(c)
  PROVE  DeptIInv'
<1>0. PICK j : j = departmentJob[c]
  OBVIOUS
<1> DEFINE d == j.department
           k == [j EXCEPT !.step = "find"]
<1>1. /\ j.step \in {"insert", "update"}
      /\ UNCHANGED <<accounts, departmentHandled, missing, departmentDisturbed>>
  BY <1>0 DEF Department!WriteDepartment
<1>2. /\ DeptTInv /\ DeptHInv /\ DeptDInv
      /\ departmentJob[c] # Department!Idle /\ j \in DeptWorking /\ d \in Offices /\ DeptWorks(j)
      /\ d \notin departmentDisturbed =>
           /\ DeptAlone(d)
           /\ Department!Exclusive(d) =>
                DeptUpheld(d) /\ DeptRead(j, d) /\ \A a \in Department!Authorities :
                  DeptHanded(j, d, a)
  BY <1>0, <1>1, DeptAtWorkIs
<1>3. \A e : DeptHasAccount(e) => DeptHasAccount(e)'
  BY <1>1 DEF DeptHasAccount
<1>4. ASSUME departments' = [departments EXCEPT ![d] = j.new],
             named' = [named EXCEPT ![d] = @ \cup ({j.new[a] : a \in Department!Authorities} \ {None})],
             departmentJob' = [departmentJob EXCEPT ![c].step = "find"]
      PROVE  DeptIInv'
  <2>1. departmentJob' = [departmentJob EXCEPT ![c] = k]
    BY <1>0, <1>4
  <2>2. /\ k \in DeptWorking
        /\ k # Department!Idle
        /\ k.step = "find"
        /\ k.department = d
        /\ k.old = j.old
        /\ k.new = j.new /\ k.authority = j.authority /\ k.holders = j.holders
    BY <1>2, DeptIdleIs DEF DeptWorking
  <2>3. /\ j.new \in Department!Holders
        /\ \A a \in Department!Authorities : j.new[a] \in Employees \cup {None}
    BY <1>2 DEF DeptWorking, Department!Holders
  <2> HIDE DEF k
  <2>4. /\ named'[d] = named[d] \cup ({j.new[a] : a \in Department!Authorities} \ {None})
        /\ \A b \in Offices \ {d} : named'[b] = named[b] /\ departments'[b] = departments[b]
        /\ departments'[d] = j.new
    BY <1>2, <1>4 DEF DeptTInv
  <2> HIDE DEF d
  <2>5. DeptTInv'
    <3>1. departments' \in [Offices -> Department!Holders \cup {Absent}]
      BY <1>2, <1>4, <2>3 DEF DeptTInv
    <3>2. named' \in [Offices -> SUBSET Employees]
      BY <1>2, <1>4, <2>3 DEF DeptTInv
    <3> QED
      BY <3>1, <3>2, <2>1, <2>2, <1>1, <1>2 DEF DeptTInv
  <2>6. \A b \in Offices : named[b] \subseteq named'[b]
    BY <2>4
  <2>7. \A b \in Offices : DeptNamedBy(b)'
    BY <1>2, <2>3, <2>4, DeptIdleIs DEF DeptHInv, DeptNamedBy
  <2>8. ASSUME NEW e \in Employees PROVE DeptBelongs(e)'
    <3>1. DeptBelongs(e) /\ (accounts[e] # Absent => accounts[e].department \in Offices \cup {None})
      BY <1>2 DEF DeptHInv, DeptTInv, DeptAccount
    <3> QED
      BY <3>1, <2>6, <1>1 DEF DeptBelongs
  <2>9. DeptWorks(k)'
    BY <1>2, <1>3, <2>2, <2>4 DEF DeptWorks, DeptWritten, d
  <2>10. ASSUME d \notin departmentDisturbed'
         PROVE  DeptAlone(d)' /\ (Department!Exclusive(d)' => DeptUpheld(d)')
    <3>1. DeptAlone(d) /\ d = departmentJob[c].department
      BY <1>0, <1>1, <1>2, <2>10 DEF d
    <3>2. \A b \in OfficeCallers : departmentJob'[b] = IF b = c THEN k ELSE departmentJob[b]
      BY <1>2, <2>1 DEF DeptTInv
    <3>3. DeptAlone(d)'
      BY <3>1, <3>2, <2>2, <1>2 DEF DeptAlone, Department!AtWork
    <3>4. ASSUME Department!Exclusive(d)' PROVE DeptUpheld(d)'
      <4>1. Department!Exclusive(d)
        <5> SUFFICES ASSUME NEW b \in Offices \ {d} PROVE named[d] \cap named[b] = {}
          BY DEF Department!Exclusive
        <5>1. named'[d] \cap named'[b] = {}
          BY <3>4 DEF Department!Exclusive
        <5> QED
          BY <5>1, <1>2, <2>6 DEF d
      <4>2. \A a \in Department!Authorities : DeptHanded(j, d, a)
        BY <4>1, <1>1, <1>2, <2>10
      <4>3. DeptRead(k, d)'
        BY <2>2, <2>4 DEF DeptRead, DeptWritten
      <4>4. ASSUME NEW a \in Department!Authorities PROVE DeptHanded(k, d, a)'
        <5>1. j.authority = "HOD" /\ ~DeptDone(k, a) /\ ~DeptDone(j, a)
          BY <1>1, <1>2, <2>2 DEF DeptWorks, DeptWritten, DeptDone
        <5>2. DeptShown(d, a, j.old[a])
          BY <5>1, <4>2, <1>1 DEF DeptHanded
        <5>3. DeptShown(d, a, k.old[a])'
          BY <5>2, <2>2, <1>1 DEF DeptShown, Department!Held
        <5> QED
          BY <5>1, <5>3, <2>2 DEF DeptHanded, DeptShown, DeptDone
      <4> QED
        BY <4>3, <4>4, <3>1, <2>1, <2>2, <1>2, DeptGoes
    <3> QED
      BY <3>3, <3>4
  <2>11. d \in Offices /\ d = departmentJob[c].department
    BY <1>0, <1>2 DEF d
  <2>12. \A e \in Employees : accounts'[e] # accounts[e] => e \in named'[d]
    BY <1>1
  <2>13. \A b \in Offices \ {d} : departments'[b] = departments[b] /\ missing'[b] = missing[b]
    BY <1>1, <2>4
  <2> QED
    BY <1>1, <1>2, <1>3, <2>1, <2>2, <2>5, <2>6, <2>7, <2>8, <2>9, <2>10, <2>11, <2>12, <2>13,
       DeptStepKeeps
<1>5. ASSUME j.step = "insert", departments[d] # Absent,
             departmentJob' = [departmentJob EXCEPT ![c] = Department!Idle],
             UNCHANGED <<departments, named>>
      PROVE  DeptIInv'
  <2>1. DeptTInv'
    BY <1>1, <1>2, <1>5 DEF DeptTInv
  <2>2. \A b \in Offices : DeptNamedBy(b)'
    BY <1>2, <1>5 DEF DeptHInv, DeptNamedBy
  <2>3. \A e \in Employees : DeptBelongs(e)'
    BY <1>1, <1>2, <1>5 DEF DeptHInv, DeptBelongs
  <2> HIDE DEF d
  <2>4. d = departmentJob[c].department
    BY <1>0 DEF d
  <2>5. \A b \in OfficeCallers : departmentJob'[b] = IF b = c THEN Department!Idle
          ELSE departmentJob[b]
    BY <1>2, <1>5 DEF DeptTInv
  <2>6. ASSUME d \notin departmentDisturbed'
        PROVE  DeptAlone(d)' /\ (Department!Exclusive(d)' => DeptUpheld(d)')
    <3>1. DeptAlone(d) /\ (Department!Exclusive(d) => DeptRead(j, d))
      BY <1>1, <1>2, <2>6
    <3>2. ~Department!Exclusive(d)
      BY <3>1, <1>5 DEF DeptRead
    <3>3. ~Department!Exclusive(d)'
      BY <3>2, <1>5 DEF Department!Exclusive
    <3>4. DeptAlone(d)'
      BY <3>1, <2>5 DEF DeptAlone, Department!AtWork
    <3> QED
      BY <3>3, <3>4
  <2>7. \A b \in Offices \ {d} : departments'[b] = departments[b] /\ missing'[b] = missing[b]
    BY <1>1, <1>5
  <2>8. \A b \in Offices : named[b] \subseteq named'[b]
    BY <1>5
  <2>9. \A e \in Employees : accounts'[e] = accounts[e]
    BY <1>1
  <2>10. departmentDisturbed \subseteq departmentDisturbed'
    BY <1>1
  <2> QED
    BY <1>2, <1>3, <1>5, <2>1, <2>2, <2>3, <2>4, <2>6, <2>7, <2>8, <2>9, <2>10, DeptStepKeeps
<1> QED
  BY <1>0, <1>1, <1>4, <1>5 DEF Department!WriteDepartment

\* What has to be shown of a step behind the write of the department.
LEMMA DeptLaterKeeps ==
  ASSUME DeptIInv, NEW c \in OfficeCallers, departmentJob[c].step # "idle",
         NEW j, j = departmentJob[c], DeptWritten(j),
         NEW k \in DeptWorking \cup {Department!Idle},
         departmentJob' = [departmentJob EXCEPT ![c] = k],
         k # Department!Idle => k.department = j.department /\ DeptWorks(k)',
         UNCHANGED <<departments, departmentHandled, named>>,
         departmentDisturbed \subseteq departmentDisturbed', departmentDisturbed' \subseteq Offices,
         missing' \in [Offices -> SUBSET Department!Authorities],
         \A b \in Offices \ {j.department} : missing'[b] = missing[b],
         accounts' \in [Employees -> {Absent} \cup DeptAccount],
         \A e \in Employees :
           DeptBelongs(e)' /\ (accounts'[e] # accounts[e] => e \in named[j.department]),
         \A e \in Employees : DeptHasAccount(e) => DeptHasAccount(e)',
         j.department \notin departmentDisturbed' /\ DeptAlone(j.department) /\ Department!Exclusive(j.department)
           /\ departments[j.department] = j.new
           /\ (\A a \in Department!Authorities : DeptHanded(j, j.department, a)) =>
                DeptUpheld(j.department)'
  PROVE  DeptIInv'
<1> DEFINE d == j.department
<1>1. /\ DeptTInv /\ DeptHInv /\ DeptDInv
      /\ departmentJob[c] # Department!Idle /\ j \in DeptWorking /\ d \in Offices /\ DeptWorks(j)
      /\ d \notin departmentDisturbed =>
           /\ DeptAlone(d)
           /\ Department!Exclusive(d) =>
                DeptUpheld(d) /\ DeptRead(j, d) /\ \A a \in Department!Authorities :
                  DeptHanded(j, d, a)
  BY DeptAtWorkIs
<1>2. DeptTInv'
  BY <1>1 DEF DeptTInv
<1>3. \A b \in Offices : DeptNamedBy(b)'
  BY <1>1 DEF DeptHInv, DeptNamedBy
<1>4. \A b \in OfficeCallers : departmentJob'[b] = IF b = c THEN k ELSE departmentJob[b]
  BY <1>1 DEF DeptTInv
<1>5. d = departmentJob[c].department
  OBVIOUS
<1>6. \A e : DeptHasAccount(e) => DeptHasAccount(e)'
  BY DEF DeptHasAccount
<1> HIDE DEF d
<1>7. ASSUME d \notin departmentDisturbed'
      PROVE  DeptAlone(d)' /\ (Department!Exclusive(d)' => DeptUpheld(d)')
  <2>1. /\ DeptAlone(d)
        /\ (Department!Exclusive(d) => DeptRead(j, d) /\ \A a \in Department!Authorities : DeptHanded(j, d, a))
    BY <1>1, <1>7
  <2>2. DeptAlone(d)'
    BY <2>1, <1>1, <1>4, <1>5 DEF DeptAlone, Department!AtWork, d
  <2>3. ASSUME Department!Exclusive(d)' PROVE DeptUpheld(d)'
    <3>1. Department!Exclusive(d)
      BY <2>3 DEF Department!Exclusive
    <3>2. departments[d] = j.new /\ \A a \in Department!Authorities : DeptHanded(j, d, a)
      BY <2>1, <3>1 DEF DeptRead
    <3> QED
      BY <2>1, <3>1, <3>2, <1>7 DEF d
  <2> QED
    BY <2>2, <2>3
<1>8. \A b \in Offices \ {d} : departments'[b] = departments[b] /\ missing'[b] = missing[b]
  BY DEF d
<1>9. \A b \in Offices : named[b] \subseteq named'[b]
  OBVIOUS
<1>10. \A e \in Employees : (accounts'[e] # accounts[e] => e \in named'[d]) /\ DeptBelongs(e)'
  BY DEF d
<1>11. k # Department!Idle => k.department = d /\ DeptWorks(k)'
  BY DEF d
<1> QED
  BY <1>1, <1>2, <1>3, <1>5, <1>6, <1>7, <1>8, <1>9, <1>10, <1>11, DeptStepKeeps

\* Nothing but the request itself changes.
LEMMA DeptAccountsStay ==
  ASSUME DeptIInv, UNCHANGED <<accounts, named>>
  PROVE  /\ accounts' \in [Employees -> {Absent} \cup DeptAccount]
         /\ \A e \in Employees : DeptBelongs(e)' /\ accounts'[e] = accounts[e]
         /\ \A e \in Employees : DeptHasAccount(e) => DeptHasAccount(e)'
         /\ \A d, a : Department!Held(d, a)' = Department!Held(d, a)
<1>1. DeptTInv /\ DeptHInv
  BY DEF DeptIInv
<1>2. accounts' \in [Employees -> {Absent} \cup DeptAccount]
  BY <1>1 DEF DeptTInv
<1>3. \A e \in Employees : DeptBelongs(e)' /\ accounts'[e] = accounts[e]
  BY <1>1 DEF DeptHInv, DeptBelongs
<1>4. \A e \in Employees : DeptHasAccount(e) => DeptHasAccount(e)'
  BY DEF DeptHasAccount
<1>5. \A d, a : Department!Held(d, a)' = Department!Held(d, a)
  BY DEF Department!Held
<1> QED
  BY <1>2, <1>3, <1>4, <1>5

LEMMA DeptFindTargetKeeps ==
  ASSUME DeptIInv, NEW c \in OfficeCallers, Department!FindTarget(c)
  PROVE  DeptIInv'
<1>0. PICK j : j = departmentJob[c]
  OBVIOUS
<1> DEFINE a == j.authority
           d == j.department
<1>1. /\ j.step = "find"
      /\ UNCHANGED <<departments, accounts, departmentHandled, named, departmentDisturbed>>
  BY <1>0 DEF Department!FindTarget
<1>2. /\ DeptTInv
      /\ DeptHInv
      /\ departmentJob[c] # Department!Idle
      /\ j \in DeptWorking
      /\ d \in Offices
      /\ a \in Department!Authorities
      /\ DeptWorks(j) /\ DeptWritten(j)
  BY <1>0, <1>1, DeptAtWorkIs DEF DeptWritten
<1>3. /\ accounts' \in [Employees -> {Absent} \cup DeptAccount]
      /\ \A e \in Employees : DeptBelongs(e)' /\ accounts'[e] = accounts[e]
      /\ \A e \in Employees : DeptHasAccount(e) => DeptHasAccount(e)'
      /\ \A b, x : Department!Held(b, x)' = Department!Held(b, x)
  BY <1>1, DeptAccountsStay
<1>4. departmentDisturbed \subseteq departmentDisturbed' /\ departmentDisturbed' \subseteq Offices
  BY <1>1, <1>2 DEF DeptTInv
<1>5. \A x \in Department!Authorities : DeptHanded(j, d, x) =>
        DeptShown(d, x, IF DeptDone(j, x) THEN j.new[x] ELSE j.old[x])
  BY <1>1 DEF DeptHanded
<1>6. ~DeptDone(j, a)
  BY <1>2 DEF DeptDone
<1> HIDE DEF a, d
<1>7. ASSUME NEW step \in {"holders", "pull"},
             departmentJob' = [departmentJob EXCEPT ![c].step = step], missing' = missing,
             step = "holders" => DeptHasAccount(j.new[a]),
             step = "pull" => DeptHasAccount(j.old[a]) /\ j.new[a] = None
      PROVE  DeptIInv'
  <2>1. PICK k : k = [j EXCEPT !.step = step]
    OBVIOUS
  <2>2. departmentJob' = [departmentJob EXCEPT ![c] = k]
    BY <1>0, <1>7, <2>1
  <2>3. /\ k \in DeptWorking
        /\ k # Department!Idle
        /\ k.step = step
        /\ k.department = d
        /\ k.old = j.old
        /\ k.new = j.new /\ k.authority = a /\ k.holders = j.holders
    BY <1>2, <2>1, DeptIdleIs DEF DeptWorking, a, d
  <2>4. DeptWorks(k)
    BY <1>1, <1>2, <1>7, <2>3 DEF DeptWorks, DeptWritten, a, d
  <2>5. DeptWorks(k)'
    BY <1>1, <2>4 DEF DeptWorks, DeptWritten, DeptHasAccount
  <2>6. ASSUME DeptAlone(d), departments[d] = j.new,
               \A x \in Department!Authorities : DeptHanded(j, d, x)
        PROVE  DeptUpheld(d)'
    <3>1. DeptRead(k, d)'
      BY <1>1, <1>7, <2>3, <2>6 DEF DeptRead, DeptWritten
    <3>2. ASSUME NEW x \in Department!Authorities PROVE DeptHanded(k, d, x)'
      <4>1. DeptDone(k, x) <=> DeptDone(j, x)
        BY <1>1, <1>7, <2>3 DEF DeptDone, DeptWritten, a
      <4>2. DeptShown(d, x, IF DeptDone(j, x) THEN j.new[x] ELSE j.old[x])
        BY <1>5, <2>6
      <4>3. DeptShown(d, x, IF DeptDone(k, x) THEN k.new[x] ELSE k.old[x])'
        BY <4>1, <4>2, <1>3, <1>7, <2>3 DEF DeptShown, DeptDone, DeptWritten
      <4> QED
        BY <4>3, <1>7, <2>3 DEF DeptHanded
    <3> QED
      BY <3>1, <3>2, <1>0, <1>2, <2>2, <2>3, <2>6, DeptGoes DEF d
  <2>7. /\ missing' \in [Offices -> SUBSET Department!Authorities]
        /\ \A b \in Offices \ {d} : missing'[b] = missing[b]
    BY <1>2, <1>7 DEF DeptTInv
  <2> QED
    BY <1>0, <1>1, <1>2, <1>3, <1>4, <2>2, <2>3, <2>5, <2>6, <2>7, DeptLaterKeeps DEF d
<1>8. ASSUME departmentJob' = [departmentJob EXCEPT ![c] = Department!Turned(j)],
             (missing' = missing /\ j.new[a] = None /\ ~Department!HasAuthority(j.old[a], a))
               \/ missing' = [missing EXCEPT ![d] = @ \cup {a}]
      PROVE  DeptIInv'
  <2>1. PICK k : k = Department!Turned(j)
    OBVIOUS
  <2>2. /\ k \in DeptWorking \cup {Department!Idle}
        /\ (k # Department!Idle => DeptWorks(k) /\ k.department = d)
    BY <1>2, <2>1, DeptTurnedIs DEF d
  <2>3. k # Department!Idle => DeptWorks(k)'
    BY <1>1, <2>2 DEF DeptWorks, DeptWritten, DeptHasAccount
  <2>4. /\ missing' \in [Offices -> SUBSET Department!Authorities]
        /\ \A b \in Offices \ {d} : missing'[b] = missing[b]
        /\ missing[d] \subseteq missing'[d]
    BY <1>2, <1>8 DEF DeptTInv
  <2>5. ASSUME DeptAlone(d), departments[d] = j.new,
               \A x \in Department!Authorities : DeptHanded(j, d, x)
        PROVE  DeptUpheld(d)'
    <3>1. ASSUME NEW x \in Department!Authorities
          PROVE  LET holder == IF x = j.authority \/ DeptDone(j, x) THEN j.new[x] ELSE j.old[x]
                 IN  x \in missing'[d] \/ Department!Held(d, x)' = {holder} \ {None}
      <4>1. x \in missing[d] \/ Department!Held(d, x) = {IF DeptDone(j, x) THEN j.new[x] ELSE j.old[x]} \ {None}
        BY <1>5, <2>5 DEF DeptShown
      <4>2. CASE x # a
        BY <4>1, <4>2, <1>3, <2>4 DEF a
      <4>3. CASE x = a /\ a \in missing'[d]
        BY <4>3
      <4>4. CASE x = a /\ a \notin missing'[d]
        <5>1. missing' = missing /\ j.new[a] = None /\ ~Department!HasAuthority(j.old[a], a)
          BY <4>4, <1>2, <1>8 DEF DeptTInv
        <5>2. Department!Held(d, a) = {j.old[a]} \ {None}
          BY <4>1, <4>4, <5>1, <1>6
        <5>3. Department!Held(d, a) = {}
          <6> SUFFICES ASSUME NEW e \in Department!Held(d, a) PROVE FALSE
            OBVIOUS
          <6>1. e = j.old[a] /\ e # None
            BY <5>2
          <6> QED
            BY <6>1, <5>1 DEF Department!Held, Department!HasAuthority
        <5> QED
          BY <5>1, <5>3, <4>4, <1>3 DEF a
      <4> QED
        BY <4>2, <4>3, <4>4
    <3> QED
      BY <3>1, <1>0, <1>1, <1>2, <1>8, <2>5, DeptTurnKeeps DEF d
  <2> QED
    BY <1>0, <1>1, <1>2, <1>3, <1>4, <1>8, <2>1, <2>2, <2>3, <2>4, <2>5, DeptLaterKeeps DEF d
<1>9. j.new[a] \in Employees \cup {None} /\ j.old[a] \in Employees \cup {None}
  BY <1>2 DEF DeptWorking, Department!Holders
<1>10. CASE j.new[a] # None /\ accounts[j.new[a]] # Absent
  BY <1>0, <1>7, <1>9, <1>10 DEF Department!FindTarget, DeptHasAccount, a, d
<1>11. CASE j.new[a] # None /\ accounts[j.new[a]] = Absent
  BY <1>0, <1>8, <1>9, <1>11 DEF Department!FindTarget, a, d
<1>12. CASE j.new[a] = None /\ Department!HasAuthority(j.old[a], a)
  BY <1>0, <1>7, <1>9, <1>12 DEF Department!FindTarget, DeptHasAccount, Department!HasAuthority, a, d
<1>13. CASE j.new[a] = None /\ ~Department!HasAuthority(j.old[a], a)
  BY <1>0, <1>8, <1>9, <1>13 DEF Department!FindTarget, a, d
<1> QED
  BY <1>10, <1>11, <1>12, <1>13
\* The accounts one step has written for one employee.
LEMMA DeptOneAccount ==
  ASSUME DeptTInv, NEW e \in Employees, NEW r \in DeptAccount, accounts' = [accounts EXCEPT ![e] = r]
  PROVE  /\ accounts' \in [Employees -> {Absent} \cup DeptAccount]
         /\ \A f \in Employees : accounts'[f] = IF f = e THEN r ELSE accounts[f]
         /\ r # Absent
         /\ \A f : DeptHasAccount(f) => DeptHasAccount(f)'
         /\ \A d, a : Department!Held(d, a)' = (Department!Held(d, a) \ {e}) \cup
                        (IF a \in r.authorities /\ r.department = d THEN {e} ELSE {})
<1>1. /\ accounts' \in [Employees -> {Absent} \cup DeptAccount]
      /\ \A f \in Employees : accounts'[f] = IF f = e THEN r ELSE accounts[f]
  BY DEF DeptTInv
<1>2. r # Absent
  BY DeptIdleIs
<1>3. \A f : DeptHasAccount(f) => DeptHasAccount(f)'
  BY <1>1, <1>2 DEF DeptHasAccount
<1>4. ASSUME NEW d, NEW a
      PROVE  Department!Held(d, a)' = (Department!Held(d, a) \ {e}) \cup
                        (IF a \in r.authorities /\ r.department = d THEN {e} ELSE {})
  BY <1>1, <1>2 DEF Department!Held
<1> QED
  BY <1>1, <1>2, <1>3, <1>4

LEMMA DeptAccountIs ==
  ASSUME DeptIInv, NEW e, DeptHasAccount(e)
  PROVE  /\ e \in Employees /\ accounts[e] \in DeptAccount /\ accounts[e] # Absent /\ DeptBelongs(e)
         /\ \A d \in Offices : accounts[e].department = d => e \in named[d]
<1>1. e \in Employees /\ accounts[e] \in DeptAccount /\ accounts[e] # Absent /\ DeptBelongs(e)
  BY DEF DeptIInv, DeptTInv, DeptHInv, DeptHasAccount
<1> QED
  BY <1>1, DeptIdleIs DEF DeptBelongs

LEMMA DeptFindHoldersKeeps ==
  ASSUME DeptIInv, NEW c \in OfficeCallers, Department!FindHolders(c)
  PROVE  DeptIInv'
<1>0. PICK j : j = departmentJob[c]
  OBVIOUS
<1> DEFINE a == j.authority
           d == j.department
<1>1. /\ j.step = "holders"
      /\ departmentJob' = [departmentJob EXCEPT ![c].step = "hand_over",
                                                ![c].holders = (Department!Held(d, a) \ {j.new[a]}) \ inactive]
      /\ departmentDisturbed' = departmentDisturbed \cup
           (IF (Department!Held(d, a) \ {j.new[a]}) \cap inactive = {} THEN {} ELSE {d})
      /\ UNCHANGED <<departments, accounts, departmentHandled, named, missing>>
  BY <1>0 DEF Department!FindHolders
<1>2. /\ DeptTInv
      /\ DeptHInv
      /\ departmentJob[c] # Department!Idle
      /\ j \in DeptWorking
      /\ d \in Offices
      /\ a \in Department!Authorities
      /\ DeptWorks(j) /\ DeptWritten(j)
  BY <1>0, <1>1, DeptAtWorkIs DEF DeptWritten
<1>3. /\ accounts' \in [Employees -> {Absent} \cup DeptAccount]
      /\ \A e \in Employees : DeptBelongs(e)' /\ accounts'[e] = accounts[e]
      /\ \A e \in Employees : DeptHasAccount(e) => DeptHasAccount(e)'
      /\ \A b, x : Department!Held(b, x)' = Department!Held(b, x)
  BY <1>1, DeptAccountsStay
<1>4. departmentDisturbed \subseteq departmentDisturbed' /\ departmentDisturbed' \subseteq Offices
  BY <1>1, <1>2 DEF DeptTInv
<1>5. /\ missing' \in [Offices -> SUBSET Department!Authorities]
      /\ \A b \in Offices \ {d} : missing'[b] = missing[b]
  BY <1>1, <1>2 DEF DeptTInv
<1> HIDE DEF a, d
<1>6. PICK k : k = [j EXCEPT !.step = "hand_over",
                             !.holders = (Department!Held(d, a) \ {j.new[a]}) \ inactive]
  OBVIOUS
<1>7. departmentJob' = [departmentJob EXCEPT ![c] = k]
  BY <1>0, <1>1, <1>6
<1>8. Department!Held(d, a) \subseteq Employees
  BY DEF Department!Held
<1>9. /\ k \in DeptWorking
      /\ k # Department!Idle
      /\ k.step = "hand_over"
      /\ k.department = d
      /\ k.old = j.old
      /\ k.new = j.new /\ k.authority = a
      /\ k.holders = (Department!Held(d, a) \ {j.new[a]}) \ inactive
  BY <1>2, <1>6, <1>8, DeptIdleIs DEF DeptWorking, a, d
<1>10. DeptWorks(k)'
  <2>1. ASSUME NEW e \in k.holders PROVE e \in named[d] /\ DeptHasAccount(e)
    <3>1. e \in Employees /\ accounts[e] # Absent /\ accounts[e].department = d
      BY <1>9 DEF Department!Held
    <3>2. DeptHasAccount(e)
      BY <3>1 DEF DeptHasAccount
    <3> QED
      BY <3>1, <3>2, <1>2, DeptAccountIs
  <2>2. DeptWorks(k)
    BY <2>1, <1>1, <1>2, <1>9 DEF DeptWorks, DeptWritten, a, d
  <2> QED
    BY <2>2, <1>1 DEF DeptWorks, DeptWritten, DeptHasAccount
<1>11. ASSUME d \notin departmentDisturbed', DeptAlone(d), departments[d] = j.new,
              \A x \in Department!Authorities : DeptHanded(j, d, x)
       PROVE  DeptUpheld(d)'
  <2>1. DeptRead(k, d)'
    BY <1>1, <1>9, <1>11 DEF DeptRead, DeptWritten
  <2>3. k.holders = Department!Held(d, a) \ {j.new[a]}
    BY <1>1, <1>9, <1>11 DEF a, d
  <2>2. ASSUME NEW x \in Department!Authorities PROVE DeptHanded(k, d, x)'
    <3>1. CASE x = a
      BY <2>3, <3>1, <1>3, <1>9 DEF DeptHanded
    <3>2. CASE x # a
      <4>1. DeptDone(k, x) <=> DeptDone(j, x)
        BY <1>1, <1>9 DEF DeptDone, DeptWritten, a
      <4>2. DeptShown(d, x, IF DeptDone(j, x) THEN j.new[x] ELSE j.old[x])
        BY <1>11, <1>1 DEF DeptHanded
      <4>3. DeptShown(d, x, IF DeptDone(k, x) THEN k.new[x] ELSE k.old[x])'
        BY <4>1, <4>2, <1>1, <1>3, <1>9 DEF DeptShown, DeptDone, DeptWritten
      <4> QED
        BY <4>3, <3>2, <1>9 DEF DeptHanded
    <3> QED
      BY <3>1, <3>2
  <2> QED
    BY <2>1, <2>2, <1>0, <1>2, <1>7, <1>9, <1>11, DeptGoes DEF d
<1> QED
  <2>1. \A e \in Employees : DeptBelongs(e)' /\ (accounts'[e] # accounts[e] => e \in named[d])
    BY <1>3
  <2>2. departmentJob[c].step # "idle" /\ UNCHANGED <<departments, departmentHandled, named>>
    BY <1>0, <1>1
  <2>3. /\ k \in DeptWorking \cup {Department!Idle}
        /\ (k # Department!Idle => k.department = d /\ DeptWorks(k)')
    BY <1>9, <1>10
  <2> QED
    BY <2>1, <2>2, <2>3, <1>0, <1>2, <1>3, <1>4, <1>5, <1>7, <1>11, DeptLaterKeeps DEF d

LEMMA DeptRevokeHolderKeeps ==
  ASSUME DeptIInv, NEW c \in OfficeCallers, Department!RevokeHolder(c)
  PROVE  DeptIInv'
<1>0. PICK j : j = departmentJob[c]
  OBVIOUS
<1> DEFINE a == j.authority
           d == j.department
<1>1. /\ j.step = "hand_over"
      /\ UNCHANGED <<departments, departmentHandled, named, missing, departmentDisturbed>>
  BY <1>0 DEF Department!RevokeHolder
<1>2. PICK e \in j.holders : /\ accounts' = [accounts EXCEPT ![e].authorities = @ \ {a}]
                             /\ departmentJob' = [departmentJob EXCEPT ![c].holders = @ \ {e}]
  BY <1>0 DEF Department!RevokeHolder
<1>3. /\ DeptTInv
      /\ DeptHInv
      /\ departmentJob[c] # Department!Idle
      /\ j \in DeptWorking
      /\ d \in Offices
      /\ a \in Department!Authorities
      /\ DeptWorks(j) /\ DeptWritten(j)
  BY <1>0, <1>1, DeptAtWorkIs DEF DeptWritten
<1>4. e \in named[d] /\ DeptHasAccount(e)
  BY <1>2, <1>3 DEF DeptWorks
<1> HIDE DEF a, d
<1>5. e \in Employees /\ accounts[e] \in DeptAccount /\ DeptBelongs(e) /\ accounts[e] # Absent
  BY <1>4, DeptAccountIs
<1>6. PICK r : r = [accounts[e] EXCEPT !.authorities = @ \ {a}]
  OBVIOUS
<1>7. /\ r \in DeptAccount /\ accounts' = [accounts EXCEPT ![e] = r]
      /\ r.authorities = accounts[e].authorities \ {a} /\ r.department = accounts[e].department
  BY <1>2, <1>5, <1>6 DEF DeptAccount
<1>8. /\ accounts' \in [Employees -> {Absent} \cup DeptAccount]
      /\ \A f \in Employees : accounts'[f] = IF f = e THEN r ELSE accounts[f]
      /\ r # Absent
      /\ \A f : DeptHasAccount(f) => DeptHasAccount(f)'
      /\ \A b, x : Department!Held(b, x)' = (Department!Held(b, x) \ {e}) \cup
                     (IF x \in r.authorities /\ r.department = b THEN {e} ELSE {})
  BY <1>3, <1>5, <1>7, DeptOneAccount
<1>9. Department!Held(d, a)' = Department!Held(d, a) \ {e}
  BY <1>7, <1>8
<1>10. ASSUME NEW x \in Department!Authorities, x # a
       PROVE  Department!Held(d, x)' = Department!Held(d, x)
  <2>1. e \in Department!Held(d, x) <=> x \in accounts[e].authorities /\ accounts[e].department = d
    BY <1>5 DEF Department!Held
  <2>2. x \in r.authorities <=> x \in accounts[e].authorities
    BY <1>7, <1>10
  <2> QED
    BY <2>1, <2>2, <1>7, <1>8
<1>11. ASSUME NEW f \in Employees
       PROVE  DeptBelongs(f)' /\ (accounts'[f] # accounts[f] => f \in named[d])
  <2>1. DeptBelongs(f)
    BY <1>3 DEF DeptHInv
  <2> QED
    BY <2>1, <1>1, <1>4, <1>5, <1>7, <1>8 DEF DeptBelongs
<1>12. PICK k : k = [j EXCEPT !.holders = @ \ {e}]
  OBVIOUS
<1>13. departmentJob' = [departmentJob EXCEPT ![c] = k]
  BY <1>0, <1>2, <1>12
<1>14. /\ k \in DeptWorking
       /\ k # Department!Idle
       /\ k.step = "hand_over"
       /\ k.department = d
       /\ k.old = j.old
       /\ k.new = j.new /\ k.authority = a /\ k.holders = j.holders \ {e}
  BY <1>1, <1>3, <1>12, DeptIdleIs DEF DeptWorking, a, d
<1>15. DeptWorks(k)'
  <2>1. DeptWorks(k)
    BY <1>1, <1>3, <1>14 DEF DeptWorks, DeptWritten, a, d
  <2> QED
    BY <2>1, <1>1, <1>8, DeptWorksKept
<1>16. ASSUME DeptAlone(d), departments[d] = j.new,
              \A x \in Department!Authorities : DeptHanded(j, d, x)
       PROVE  DeptUpheld(d)'
  <2>1. DeptRead(k, d)'
    BY <1>1, <1>14, <1>16 DEF DeptRead, DeptWritten
  <2>2. ASSUME NEW x \in Department!Authorities PROVE DeptHanded(k, d, x)'
    <3>1. CASE x = a
      <4>1. Department!Held(d, a) \subseteq j.holders \cup {j.new[a]}
        BY <1>1, <1>3, <1>16 DEF DeptHanded, a
      <4> QED
        BY <4>1, <3>1, <1>9, <1>14 DEF DeptHanded
    <3>2. CASE x # a
      <4>1. DeptDone(k, x) <=> DeptDone(j, x)
        BY <1>1, <1>14 DEF DeptDone, DeptWritten, a
      <4>2. DeptShown(d, x, IF DeptDone(j, x) THEN j.new[x] ELSE j.old[x])
        BY <1>16, <3>2 DEF DeptHanded, a
      <4>3. DeptShown(d, x, IF DeptDone(k, x) THEN k.new[x] ELSE k.old[x])'
        BY <4>1, <4>2, <3>2, <1>1, <1>10, <1>14 DEF DeptShown, DeptDone, DeptWritten
      <4> QED
        BY <4>3, <3>2, <1>14 DEF DeptHanded
    <3> QED
      BY <3>1, <3>2
  <2> QED
    BY <2>1, <2>2, <1>0, <1>3, <1>13, <1>14, <1>16, DeptGoes DEF d
<1>17. departmentDisturbed \subseteq departmentDisturbed' /\ departmentDisturbed' \subseteq Offices
  BY <1>1, <1>3 DEF DeptTInv
<1>18. /\ missing' \in [Offices -> SUBSET Department!Authorities]
       /\ \A b \in Offices \ {d} : missing'[b] = missing[b]
  BY <1>1, <1>3 DEF DeptTInv
<1> QED
  BY <1>0, <1>1, <1>3, <1>8, <1>11, <1>13, <1>14, <1>15, <1>16, <1>17, <1>18, DeptLaterKeeps DEF d
LEMMA DeptGrantKeeps ==
  ASSUME DeptIInv, NEW c \in OfficeCallers, Department!Grant(c)
  PROVE  DeptIInv'
<1>0. PICK j : j = departmentJob[c]
  OBVIOUS
<1> DEFINE a == j.authority
           d == j.department
<1>1. /\ j.step = "hand_over"
      /\ j.holders = {}
      /\ UNCHANGED <<departments, departmentHandled, named, departmentDisturbed>>
      /\ accounts' = [accounts EXCEPT ![j.new[a]] = [authorities |-> @.authorities \cup {a}, department |-> d]]
      /\ missing' = [missing EXCEPT ![d] = @ \ {a}]
      /\ departmentJob' = [departmentJob EXCEPT ![c] = Department!Turned(j)]
  BY <1>0 DEF Department!Grant
<1>2. /\ DeptTInv
      /\ DeptHInv
      /\ departmentJob[c] # Department!Idle
      /\ j \in DeptWorking
      /\ d \in Offices
      /\ a \in Department!Authorities
      /\ DeptWorks(j) /\ DeptWritten(j)
  BY <1>0, <1>1, DeptAtWorkIs DEF DeptWritten
<1> HIDE DEF a, d
<1>3. PICK e : e = j.new[a]
  OBVIOUS
<1>4. DeptHasAccount(e)
  BY <1>1, <1>2, <1>3 DEF DeptWorks, a
<1>5. /\ e \in Employees /\ accounts[e] \in DeptAccount /\ DeptBelongs(e) /\ accounts[e] # Absent
      /\ \A b \in Offices : accounts[e].department = b => e \in named[b]
  BY <1>4, DeptAccountIs
<1>6. e \in named[d] /\ e # None
  <2>1. j.new[a] \in named[d] \cup {None}
    BY <1>2 DEF DeptWorks, d
  <2> QED
    BY <2>1, <1>3, <1>5, DeptIdleIs
<1>7. PICK r : r = [authorities |-> accounts[e].authorities \cup {a}, department |-> d]
  OBVIOUS
<1>8. /\ r \in DeptAccount /\ accounts' = [accounts EXCEPT ![e] = r]
      /\ r.authorities = accounts[e].authorities \cup {a} /\ r.department = d
  BY <1>1, <1>2, <1>3, <1>5, <1>7 DEF DeptAccount
<1>9. /\ accounts' \in [Employees -> {Absent} \cup DeptAccount]
      /\ \A f \in Employees : accounts'[f] = IF f = e THEN r ELSE accounts[f]
      /\ r # Absent
      /\ \A f : DeptHasAccount(f) => DeptHasAccount(f)'
      /\ \A b, x : Department!Held(b, x)' = (Department!Held(b, x) \ {e}) \cup
                     (IF x \in r.authorities /\ r.department = b THEN {e} ELSE {})
  BY <1>2, <1>5, <1>8, DeptOneAccount
<1>10. \A f \in Employees : DeptBelongs(f)' /\ (accounts'[f] # accounts[f] => f \in named[d])
  <2> SUFFICES ASSUME NEW f \in Employees
               PROVE DeptBelongs(f)' /\ (accounts'[f] # accounts[f] => f \in named[d])
    OBVIOUS
  <2>1. DeptBelongs(f)
    BY <1>2 DEF DeptHInv
  <2>2. d # None
    BY <1>2, DeptIdleIs
  <2> QED
    BY <2>1, <2>2, <1>1, <1>6, <1>8, <1>9 DEF DeptBelongs
<1>11. PICK k : k = Department!Turned(j)
  OBVIOUS
<1>12. /\ k \in DeptWorking \cup {Department!Idle}
       /\ (k # Department!Idle => DeptWorks(k) /\ k.department = d)
  BY <1>2, <1>11, DeptTurnedIs DEF d
<1>13. k # Department!Idle => DeptWorks(k)'
  <2> SUFFICES ASSUME k # Department!Idle PROVE DeptWorks(k)'
    OBVIOUS
  <2> QED
    BY <1>1, <1>9, <1>12, DeptWorksKept
<1>14. /\ missing' \in [Offices -> SUBSET Department!Authorities]
       /\ \A b \in Offices \ {d} : missing'[b] = missing[b]
       /\ missing'[d] = missing[d] \ {a}
  BY <1>1, <1>2 DEF DeptTInv
<1>15. ASSUME DeptAlone(d), Department!Exclusive(d), departments[d] = j.new,
              \A x \in Department!Authorities : DeptHanded(j, d, x)
       PROVE  DeptUpheld(d)'
  <2>1. ASSUME NEW x \in Department!Authorities
        PROVE  LET holder == IF x = j.authority \/ DeptDone(j, x) THEN j.new[x] ELSE j.old[x]
               IN  x \in missing'[d] \/ Department!Held(d, x)' = {holder} \ {None}
    <3>1. CASE x = a
      <4>1. Department!Held(d, a) \subseteq {e}
        BY <1>1, <1>2, <1>3, <1>15 DEF DeptHanded, a
      <4>2. Department!Held(d, a)' = {e}
        BY <4>1, <1>8, <1>9
      <4> QED
        BY <3>1, <4>2, <1>3, <1>6 DEF a
    <3>2. CASE x # a
      <4>1. x \in missing[d] \/ Department!Held(d, x) = {IF DeptDone(j, x) THEN j.new[x] ELSE j.old[x]} \ {None}
        BY <3>2, <1>15 DEF DeptHanded, DeptShown, a
      <4>2. x \in accounts[e].authorities => accounts[e].department = d
        <5> SUFFICES ASSUME x \in accounts[e].authorities, accounts[e].department # d PROVE FALSE
          OBVIOUS
        <5>1. accounts[e].department # None
          BY <1>5 DEF DeptBelongs
        <5>2. accounts[e].department \in Offices \ {d}
          BY <5>1, <1>5 DEF DeptAccount
        <5>3. e \in named[accounts[e].department]
          BY <5>2, <1>5
        <5> QED
          BY <5>2, <5>3, <1>6, <1>15 DEF Department!Exclusive
      <4>3. e \in Department!Held(d, x) <=> x \in accounts[e].authorities
        BY <4>2, <1>5 DEF Department!Held
      <4>4. Department!Held(d, x)' = Department!Held(d, x)
        BY <4>3, <3>2, <1>8, <1>9
      <4> QED
        BY <4>1, <4>4, <3>2, <1>14 DEF a
    <3> QED
      BY <3>1, <3>2
  <2>2. departments'[d] = j.new
    BY <1>1, <1>15
  <2> QED
    BY <2>1, <2>2, <1>0, <1>1, <1>2, <1>15, DeptTurnKeeps DEF d
<1>16. departmentDisturbed \subseteq departmentDisturbed' /\ departmentDisturbed' \subseteq Offices
  BY <1>1, <1>2 DEF DeptTInv
<1>17. /\ departmentJob[c].step # "idle"
       /\ UNCHANGED <<departments, departmentHandled, named>>
       /\ departmentJob' = [departmentJob EXCEPT ![c] = k]
  BY <1>0, <1>1, <1>11
<1>18. k # Department!Idle => k.department = d /\ DeptWorks(k)'
  BY <1>12, <1>13
<1>19. \A f \in Employees : DeptHasAccount(f) => DeptHasAccount(f)'
  BY <1>9
<1> QED
  BY <1>0, <1>2, <1>9, <1>10, <1>12, <1>14, <1>15, <1>16, <1>17, <1>18, <1>19, DeptLaterKeeps DEF d

LEMMA DeptRevokeOldKeeps ==
  ASSUME DeptIInv, NEW c \in OfficeCallers, Department!RevokeOld(c)
  PROVE  DeptIInv'
<1>0. PICK j : j = departmentJob[c]
  OBVIOUS
<1> DEFINE a == j.authority
           d == j.department
<1>1. /\ j.step = "pull"
      /\ UNCHANGED <<departments, departmentHandled, named, missing, departmentDisturbed>>
      /\ accounts' = [accounts EXCEPT ![j.old[a]].authorities = @ \ {a}]
      /\ departmentJob' = [departmentJob EXCEPT ![c] = Department!Turned(j)]
  BY <1>0 DEF Department!RevokeOld
<1>2. /\ DeptTInv
      /\ DeptHInv
      /\ departmentJob[c] # Department!Idle
      /\ j \in DeptWorking
      /\ d \in Offices
      /\ a \in Department!Authorities
      /\ DeptWorks(j) /\ DeptWritten(j)
  BY <1>0, <1>1, DeptAtWorkIs DEF DeptWritten
<1> HIDE DEF a, d
<1>3. PICK e : e = j.old[a]
  OBVIOUS
<1>4. DeptHasAccount(e) /\ j.new[a] = None
  BY <1>1, <1>2, <1>3 DEF DeptWorks, a
<1>5. e \in Employees /\ accounts[e] \in DeptAccount /\ DeptBelongs(e) /\ accounts[e] # Absent
  BY <1>4, DeptAccountIs
<1>6. e \in named[d]
  <2>1. j.old[a] \in named[d] \cup {None}
    BY <1>2 DEF DeptWorks, d
  <2> QED
    BY <2>1, <1>3, <1>5, DeptIdleIs
<1>7. PICK r : r = [accounts[e] EXCEPT !.authorities = @ \ {a}]
  OBVIOUS
<1>8. /\ r \in DeptAccount /\ accounts' = [accounts EXCEPT ![e] = r]
      /\ r.authorities = accounts[e].authorities \ {a} /\ r.department = accounts[e].department
  BY <1>1, <1>3, <1>5, <1>7 DEF DeptAccount
<1>9. /\ accounts' \in [Employees -> {Absent} \cup DeptAccount]
      /\ \A f \in Employees : accounts'[f] = IF f = e THEN r ELSE accounts[f]
      /\ r # Absent
      /\ \A f : DeptHasAccount(f) => DeptHasAccount(f)'
      /\ \A b, x : Department!Held(b, x)' = (Department!Held(b, x) \ {e}) \cup
                     (IF x \in r.authorities /\ r.department = b THEN {e} ELSE {})
  BY <1>2, <1>5, <1>8, DeptOneAccount
<1>10. \A f \in Employees : DeptBelongs(f)' /\ (accounts'[f] # accounts[f] => f \in named[d])
  <2> SUFFICES ASSUME NEW f \in Employees
               PROVE DeptBelongs(f)' /\ (accounts'[f] # accounts[f] => f \in named[d])
    OBVIOUS
  <2>1. DeptBelongs(f)
    BY <1>2 DEF DeptHInv
  <2> QED
    BY <2>1, <1>1, <1>5, <1>6, <1>8, <1>9 DEF DeptBelongs
<1>11. PICK k : k = Department!Turned(j)
  OBVIOUS
<1>12. /\ k \in DeptWorking \cup {Department!Idle}
       /\ (k # Department!Idle => DeptWorks(k) /\ k.department = d)
  BY <1>2, <1>11, DeptTurnedIs DEF d
<1>13. k # Department!Idle => k.department = d /\ DeptWorks(k)'
  <2> SUFFICES ASSUME k # Department!Idle PROVE k.department = d /\ DeptWorks(k)'
    OBVIOUS
  <2> QED
    BY <1>1, <1>9, <1>12, DeptWorksKept
<1>14. /\ missing' \in [Offices -> SUBSET Department!Authorities] /\ missing'[d] = missing[d]
       /\ \A b \in Offices \ {d} : missing'[b] = missing[b]
  BY <1>1, <1>2 DEF DeptTInv
<1>15. ASSUME DeptAlone(d), departments[d] = j.new,
              \A x \in Department!Authorities : DeptHanded(j, d, x)
       PROVE  DeptUpheld(d)'
  <2>1. ASSUME NEW x \in Department!Authorities
        PROVE  LET holder == IF x = j.authority \/ DeptDone(j, x) THEN j.new[x] ELSE j.old[x]
               IN  x \in missing'[d] \/ Department!Held(d, x)' = {holder} \ {None}
    <3>1. x \in missing[d] \/ Department!Held(d, x) = {IF DeptDone(j, x) THEN j.new[x] ELSE j.old[x]} \ {None}
      BY <1>1, <1>15 DEF DeptHanded, DeptShown
    <3>2. CASE x = a
      <4>1. ~DeptDone(j, a)
        BY <1>2 DEF DeptDone, a
      <4>2. a \in missing[d] \/ Department!Held(d, a) \subseteq {e}
        BY <3>1, <3>2, <4>1, <1>3
      <4>3. Department!Held(d, a)' = Department!Held(d, a) \ {e}
        BY <1>8, <1>9
      <4> QED
        BY <3>2, <4>2, <4>3, <1>4, <1>14 DEF a
    <3>3. CASE x # a
      <4>1. e \in Department!Held(d, x) <=> x \in accounts[e].authorities /\ accounts[e].department = d
        BY <1>5 DEF Department!Held
      <4>2. Department!Held(d, x)' = Department!Held(d, x)
        BY <4>1, <3>3, <1>8, <1>9
      <4> QED
        BY <3>1, <4>2, <3>3, <1>14 DEF a
    <3> QED
      BY <3>2, <3>3
  <2>2. departments'[d] = j.new
    BY <1>1, <1>15
  <2> QED
    BY <2>1, <2>2, <1>0, <1>1, <1>2, <1>15, DeptTurnKeeps DEF d
<1>16. departmentDisturbed \subseteq departmentDisturbed' /\ departmentDisturbed' \subseteq Offices
  BY <1>1, <1>2 DEF DeptTInv
<1>17. /\ departmentJob[c].step # "idle"
       /\ UNCHANGED <<departments, departmentHandled, named>>
       /\ departmentJob' = [departmentJob EXCEPT ![c] = k]
  BY <1>0, <1>1, <1>11
<1>18. \A f \in Employees : DeptHasAccount(f) => DeptHasAccount(f)'
  BY <1>9
<1> QED
  BY <1>0, <1>2, <1>9, <1>10, <1>12, <1>13, <1>14, <1>15, <1>16, <1>17, <1>18, DeptLaterKeeps DEF d

LEMMA DeptCutOffKeeps ==
  ASSUME DeptIInv, NEW c \in OfficeCallers, Department!CutOff(c)
  PROVE  DeptIInv'
<1>1. /\ departmentJob[c] # Department!Idle
      /\ departmentJob' = [departmentJob EXCEPT ![c] = Department!Idle]
      /\ departmentDisturbed' = departmentDisturbed \cup {departmentJob[c].department}
      /\ UNCHANGED <<departments, accounts, departmentHandled, named, missing>>
  BY DEF Department!CutOff
<1>2. DeptTInv /\ DeptHInv /\ DeptDInv
  BY DEF DeptIInv
<1>3. departmentJob[c] \in DeptWorking
  BY <1>1, <1>2 DEF DeptTInv
<1>4. PICK d \in Offices : d = departmentJob[c].department
  BY <1>3 DEF DeptWorking
<1>5. DeptTInv'
  BY <1>1, <1>2, <1>4 DEF DeptTInv
<1>6. \A b \in Offices : named[b] \subseteq named'[b] /\ DeptNamedBy(b)'
  BY <1>1, <1>2 DEF DeptHInv, DeptNamedBy
<1>7. /\ \A e \in Employees : DeptBelongs(e)' /\ accounts'[e] = accounts[e]
      /\ \A e : DeptHasAccount(e) => DeptHasAccount(e)'
  <2>1. \A e \in Employees : DeptBelongs(e)' /\ accounts'[e] = accounts[e]
    BY <1>1, DeptAccountsStay
  <2> QED
    BY <2>1, <1>1 DEF DeptHasAccount
<1>8. d \in departmentDisturbed' /\ departmentDisturbed \subseteq departmentDisturbed'
  BY <1>1, <1>4
<1>9. \A b \in Offices \ {d} : departments'[b] = departments[b] /\ missing'[b] = missing[b]
  BY <1>1
<1> QED
  BY <1>1, <1>4, <1>5, <1>6, <1>7, <1>8, <1>9, DeptStepKeeps

\* Whether an account is active is nothing the departments know of.
LEMMA DeptSetActiveKeeps ==
  ASSUME DeptIInv, NEW e \in Employees, NEW active \in BOOLEAN, Department!SetActive(e, active)
  PROVE  DeptIInv'
<1>1. /\ departmentHandled' \in 0..Bounds.departments
      /\ UNCHANGED <<departments, accounts, departmentJob, named, missing, departmentDisturbed>>
  BY OfficeBounds DEF DeptIInv, DeptTInv, Department!SetActive
<1>2. DeptTInv' /\ DeptHInv'
  BY <1>1 DEF DeptIInv, DeptTInv, DeptHInv, DeptBelongs, DeptNamedBy, DeptWorks, DeptWritten,
     DeptHasAccount
<1>3. DeptDInv'
  BY <1>1 DEF DeptIInv, DeptDInv, DeptAlone, Department!Exclusive, DeptUpheld, Department!AtWork,
     DeptRead, DeptHanded, DeptShown, Department!Held, DeptDone, DeptWritten
<1> QED
  BY <1>2, <1>3 DEF DeptIInv

LEMMA DeptInvNext == DeptIInv /\ [Department!Next]_(Department!vars) => DeptIInv'
<1> SUFFICES ASSUME DeptIInv, [Department!Next]_(Department!vars) PROVE DeptIInv'
  OBVIOUS
<1>1. CASE UNCHANGED Department!vars
  <2>1. DeptTInv' /\ DeptHInv'
    BY <1>1 DEF DeptIInv, DeptTInv, DeptHInv, Department!vars, DeptBelongs, DeptNamedBy, DeptWorks,
       DeptWritten, DeptHasAccount
  <2>2. DeptDInv'
    BY <1>1 DEF DeptIInv, DeptDInv, Department!vars, DeptAlone, Department!Exclusive, DeptUpheld,
       Department!AtWork, DeptRead, DeptHanded, DeptShown, Department!Held,
                DeptDone, DeptWritten
  <2> QED
    BY <2>1, <2>2 DEF DeptIInv
<1>2. ASSUME NEW c \in OfficeCallers, NEW d \in Offices,
             NEW new \in [Department!Authorities -> Employees \cup {None}],
             Department!CreateDepartment(c, d, new)
      PROVE  DeptIInv'
  <2>1. Department!Nobody \in Department!Holders /\ new \in Department!Holders
    BY DeptIdleIs DEF Department!Holders
  <2> QED
    BY <1>2, <2>1, DeptBeginKeeps DEF Department!CreateDepartment
<1>3. ASSUME NEW c \in OfficeCallers, NEW d \in Offices,
             NEW given \in [Department!Authorities -> Employees \cup {None, Keep}],
             Department!UpdateDepartment(c, d, given)
      PROVE  DeptIInv'
  <2> DEFINE old == departments[d]
             new == [a \in Department!Authorities |-> IF given[a] = Keep THEN old[a] ELSE given[a]]
  <2>1. old # Absent /\ Department!Begin(c, d, "update", old, new)
    BY <1>3 DEF Department!UpdateDepartment
  <2>2. old \in Department!Holders
    BY <2>1 DEF DeptIInv, DeptTInv
  <2>3. new \in Department!Holders
    BY <2>2 DEF Department!Holders
  <2> HIDE DEF new
  <2> QED
    BY <2>1, <2>2, <2>3, DeptBeginKeeps
<1>4. CASE \E e \in Employees : Department!Provision(e)
  BY <1>4, DeptProvisionKeeps
<1>6. CASE \E e \in Employees, active \in BOOLEAN : Department!SetActive(e, active)
  BY <1>6, DeptSetActiveKeeps
<1>5. ASSUME NEW c \in OfficeCallers,
             Department!WriteDepartment(c) \/ Department!FindTarget(c) \/ Department!FindHolders(c) \/ Department!RevokeHolder(c)
               \/ Department!Grant(c) \/ Department!RevokeOld(c) \/ Department!CutOff(c)
      PROVE  DeptIInv'
  BY <1>5, DeptWriteKeeps, DeptFindTargetKeeps, DeptFindHoldersKeeps, DeptRevokeHolderKeeps,
     DeptGrantKeeps, DeptRevokeOldKeeps,
     DeptCutOffKeeps
<1> QED
  BY <1>1, <1>2, <1>3, <1>4, <1>5, <1>6 DEF Department!Next

\* Accounts are active or not.
DeptActive == inactive \subseteq Employees

LEMMA DeptTypes == DeptIInv /\ DeptActive => Department!TypeOK
<1> SUFFICES ASSUME DeptIInv, inactive \subseteq Employees PROVE Department!TypeOK
  BY DEF DeptActive
<1>1. DeptWorking \cup {Department!Idle} \subseteq
        [step : {"idle", "insert", "update", "find", "holders", "hand_over", "pull"},
         department : Offices \cup {None}, old : Department!Holders, new : Department!Holders,
         authority : Department!Authorities \cup {"done"}, holders : SUBSET Employees]
  <2>1. Department!Nobody \in Department!Holders
    BY DeptIdleIs
  <2> QED
    BY <2>1 DEF DeptWorking, Department!Idle
<1>2. DeptTInv
  BY DEF DeptIInv
<1> QED
  BY <1>1, <1>2 DEF DeptTInv, Department!TypeOK, DeptAccount

LEMMA DeptHolds == DeptIInv => Department!HeldAsNamed
<1> SUFFICES ASSUME DeptIInv, NEW d \in Offices, Department!Settled(d),
                    NEW a \in Department!Authorities \ missing[d]
             PROVE  Department!Held(d, a) = {departments[d][a]} \ {None}
  BY DEF Department!HeldAsNamed
<1>1. departments[d] # Absent /\ (\A c \in OfficeCallers : ~Department!AtWork(c, d)) /\ DeptUpheld(d)
  BY DEF Department!Settled, DeptIInv, DeptDInv
<1> QED
  BY <1>1 DEF DeptUpheld, DeptShown

LEMMA DeptInvariance == Department!Spec => []DeptIInv
BY DeptInvInit, DeptInvNext, PTL DEF Department!Spec

LEMMA DeptActiveTyped == Department!Spec => []DeptActive
<1>1. Department!Init => DeptActive
  BY DEF DeptActive, Department!Init
<1>2. DeptActive /\ [Department!Next]_(Department!vars) => DeptActive'
  <2> SUFFICES ASSUME inactive \subseteq Employees, [Department!Next]_(Department!vars)
               PROVE  inactive' \subseteq Employees
    BY DEF DeptActive
  <2>1. ASSUME NEW e \in Employees, NEW active \in BOOLEAN, Department!SetActive(e, active)
        PROVE  inactive' \subseteq Employees
    BY <2>1 DEF Department!SetActive
  <2>2. ASSUME NEW e, Department!Provision(e) PROVE inactive' = inactive
    BY <2>2 DEF Department!Provision
  <2>3. ASSUME NEW c, NEW d, NEW new, Department!CreateDepartment(c, d, new) PROVE inactive' = inactive
    BY <2>3 DEF Department!CreateDepartment, Department!Begin
  <2>4. ASSUME NEW c, NEW d, NEW given, Department!UpdateDepartment(c, d, given)
        PROVE  inactive' = inactive
    BY <2>4 DEF Department!UpdateDepartment, Department!Begin
  <2>5. ASSUME NEW c,
               \/ Department!WriteDepartment(c) \/ Department!FindTarget(c) \/ Department!FindHolders(c)
               \/ Department!RevokeHolder(c) \/ Department!Grant(c) \/ Department!RevokeOld(c)
               \/ Department!CutOff(c)
        PROVE  inactive' = inactive
    <3>1. CASE Department!WriteDepartment(c)
      BY <3>1 DEF Department!WriteDepartment
    <3>2. CASE Department!FindTarget(c)
      BY <3>2 DEF Department!FindTarget
    <3>3. CASE Department!FindHolders(c) \/ Department!RevokeHolder(c)
      BY <3>3 DEF Department!FindHolders, Department!RevokeHolder
    <3>4. CASE Department!Grant(c) \/ Department!RevokeOld(c) \/ Department!CutOff(c)
      BY <3>4 DEF Department!Grant, Department!RevokeOld, Department!CutOff
    <3> QED
      BY <2>5, <3>1, <3>2, <3>3, <3>4
  <2>6. CASE UNCHANGED Department!vars
    BY <2>6 DEF Department!vars
  <2> QED
    BY <2>1, <2>2, <2>3, <2>4, <2>5, <2>6 DEF Department!Next
<1> QED
  BY <1>1, <1>2, PTL DEF Department!Spec

-------------------------------------------------------------------------------
(* What the assumptions say of tasks and lists. *)

LEMMA TasksDistinct == WorkDistinct
BY NoneAssumption, AbsentAssumption, OfficeBounds DEF WorkDistinct

LEMMA ListsDistinct == SenDistinct
BY NoneAssumption, AbsentAssumption, OfficeBounds DEF SenDistinct

LEMMA MasterTypes == Spec => []Master!TypeOK
<1>1. MasterP!Bounded
  BY OfficeBounds DEF MasterP!Bounded
<1>2. MasterP!Spec => []MasterP!TypeOK
  BY <1>1, MasterP!TypeCorrect
<1>3. MasterP!TypeOK => Master!TypeOK
  BY DEF Master!TypeOK, MasterP!TypeOK, Master!Row, MasterP!Row, Master!Entry,
         MasterP!Entry, Master!Commands, MasterP!Commands, Master!Job, MasterP!Job
<1> QED
  BY SimulatesMaster, <1>2, <1>3, PTL

-------------------------------------------------------------------------------
(* The theorems. *)

\* Between requests the recorded history of a task is a path from QUEUED to
\* the status it shows and names who closed it, unless two requests met on the
\* task or one was cut off between the service's two writes.
THEOREM HistoryHolds == Spec => []HistoryExplains
<1>1. Workflow!HistoryExplains => HistoryExplains
  BY DEF HistoryExplains, Running
<1> QED
  BY SimulatesWorkflow, TasksDistinct, WorkHistoryHolds, <1>1, PTL

\* The versions of a master follow one another without gap or fork, no change
\* that was acknowledged is lost and every row is logged once: insert,
\* supersede and log are three writes and may be cut off, and requests overlap
\* on the masters with the unique index, which no two do on the others.
THEOREM VersionsHold == Spec => []VersionsInLine
<1>1. MasterP!Bounded
  BY BoundsAssumption DEF MasterP!Bounded
<1>2. MasterP!Spec => []MasterP!VersionsInLine
  BY <1>1, MasterP!LineHolds
<1>3. MasterP!VersionsInLine => VersionsInLine
  BY DEF VersionsInLine, Running, Master!VersionsInLine, MasterP!VersionsInLine,
         Master!OneLine, MasterP!OneLine, Master!RetiredInTime, MasterP!RetiredInTime,
         Master!Ahead, MasterP!Ahead, Master!NoLostChange, MasterP!NoLostChange,
         Master!EveryRowLogged, MasterP!EveryRowLogged
<1> QED
  BY SimulatesMaster, <1>2, <1>3, PTL

\* A completed signature request has every signature and its stored document
\* locked, and no acknowledged signature is lost or out of turn, unless two
\* operations overlapped: page, request and lock are written one by one.
THEOREM SignaturesHold == Spec => []SignedMeansSealed
<1>1. Signature!SignedMeansSealed => SignedMeansSealed
  BY DEF SignedMeansSealed, Running
<1> QED
  BY SimulatesSignature, SignInvariance, SignSeals, <1>1, PTL

\* The book has one entry for every pay event however often it is published,
\* its parts show the newest event they were told of, and every row of the pay
\* ledger is announced, unless a request was cut off without a transaction.
THEOREM BookHolds == Spec => []BookFollows
<1>1. ReadSide!BookFollows => BookFollows
  BY DEF BookFollows, Running
<1> QED
  BY SimulatesReadSide, ReadInvariance, ReadFollows, <1>1, PTL

\* Between requests each authority of a department is held by the employee the
\* department names for it and by nobody else, unless requests on it overlapped,
\* were cut off or met a holder whose account is inactive: department and
\* accounts are written one after the other.
THEOREM OfficesHold == Spec => []HeldAsNamed
<1>1. Department!HeldAsNamed => HeldAsNamed
  BY DEF HeldAsNamed, Running
<1> QED
  BY SimulatesDepartment, DeptInvariance, DeptHolds, <1>1, PTL

===============================================================================
