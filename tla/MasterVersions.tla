---------------------------- MODULE MasterVersions ----------------------------
(***************************************************************************)
(* The versions of one master record of app_platform/reference_data.  A    *)
(* change reads the active version, inserts its successor first, and then  *)
(* retires the row it has read and logs the change: three calls without a  *)
(* transaction.  Only a unique index on (code, version) keeps overlapping  *)
(* changes in line, and not every master has one: document_types,          *)
(* qualifications and roles have none.  The departments, whose rows        *)
(* department management also changes in place, are not masters here.      *)
(***************************************************************************)
EXTENDS Naturals, Sequences

CONSTANTS
  Callers,     \* requests that are handled at the same time
  None,        \* nothing
  MaxCommands  \* bound on the requests that get past their checks

VARIABLES
  indexed,    \* whether the master has the unique index on (code, version)
  rows,       \* the rows of the code in the order they were inserted; a row
              \* is active until superseded_by names the row behind it, 0 if none
  log,        \* master_audit_logs: the rows before and after each change
  job,        \* the row a request has read, and how far it is
  handled,    \* requests so far
  answered,   \* history: requests that were answered with success
  unfinished, \* history: rows whose request was cut off behind its insert
  overlapped \* history: a request began while another was at work

vars == <<indexed, rows, log, job, handled, answered, unfinished, overlapped>>

Commands == {"CREATE", "SYSTEM_SEED", "UPDATE_VERSION", "DEPRECATE"}

Idle == [step |-> "idle", command |-> None, number |-> 0, read |-> 0, new |-> 0]

\* active_record_query, and the order get_required_active_record sorts in.
Active == {i \in DOMAIN rows : rows[i].superseded_by = 0}
NewestActive ==
  {i \in Active :
     \A j \in Active : \/ rows[j].version < rows[i].version
                       \/ rows[j].version = rows[i].version /\ j <= i}

Init ==
  /\ indexed \in BOOLEAN
  /\ rows = <<>>
  /\ log = <<>>
  /\ job = [c \in Callers |-> Idle]
  /\ handled = 0
  /\ answered = {}
  /\ unfinished = {}
  /\ overlapped = FALSE

-------------------------------------------------------------------------------
Begin(c, command, read) ==
  /\ job[c] = Idle
  /\ handled < MaxCommands
  /\ handled' = handled + 1
  /\ job' = [job EXCEPT ![c] = [step |-> "insert", command |-> command,
                                number |-> handled + 1, read |-> read, new |-> 0]]
  /\ overlapped' = (overlapped \/ \E d \in Callers : job[d] # Idle)
  /\ UNCHANGED <<indexed, rows, log, answered, unfinished>>

\* create_master_record asks for an active record, the seed for any.
Create(c) == Active = {} /\ Begin(c, "CREATE", 0)
Seed(c) == rows = <<>> /\ Begin(c, "SYSTEM_SEED", 0)

\* update_master_record and deprecate_master_record.
Change(c, command) == \E i \in NewestActive : Begin(c, command, i)

\* build_initial_record and its kin: the metadata that was read, with the
\* request's own merged into it, under the next version.
NewRow(j) ==
  [version |-> IF j.read = 0 THEN 1 ELSE rows[j.read].version + 1,
   superseded_by |-> 0,
   previous |-> j.read,
   edits |-> (IF j.read = 0 THEN {} ELSE rows[j.read].edits) \cup {j.number}]

\* Mutant: the index is unique on the identifier of the row only.
TakenByNobody(version) == FALSE

\* The unique index refuses a second row of a version.
Taken(version) == indexed /\ \E i \in DOMAIN rows : rows[i].version = version

InsertRow(c) ==
  /\ job[c].step = "insert"
  /\ \/ /\ ~Taken(NewRow(job[c]).version)
        /\ rows' = Append(rows, NewRow(job[c]))
        /\ job' = [job EXCEPT ![c].step = IF job[c].read = 0 THEN "log" ELSE "supersede",
                              ![c].new = Len(rows) + 1]
     \/ /\ Taken(NewRow(job[c]).version)
        /\ rows' = rows
        /\ job' = [job EXCEPT ![c] = Idle]
  /\ UNCHANGED <<indexed, log, handled, answered, unfinished, overlapped>>

\* supersede_active_record, by the _id of the row that was read: is_active
\* and superseded_by are set by one update.
Supersede(c) ==
  /\ job[c].step = "supersede"
  /\ rows' = [rows EXCEPT ![job[c].read].superseded_by = job[c].new]
  /\ job' = [job EXCEPT ![c].step = "log"]
  /\ UNCHANGED <<indexed, log, handled, answered, unfinished, overlapped>>

LogChange(c) ==
  /\ job[c].step = "log"
  /\ log' = Append(log, [action |-> job[c].command, before |-> job[c].read,
                         after |-> job[c].new])
  /\ answered' = answered \cup {job[c].number}
  /\ job' = [job EXCEPT ![c] = Idle]
  /\ UNCHANGED <<indexed, rows, handled, unfinished, overlapped>>

\* The process ends, or a call raises.
CutOff(c) ==
  /\ job[c] # Idle
  /\ unfinished' = unfinished \cup ({job[c].new} \ {0})
  /\ job' = [job EXCEPT ![c] = Idle]
  /\ UNCHANGED <<indexed, rows, log, handled, answered, overlapped>>

Next ==
  \E c \in Callers :
    \/ Create(c) \/ Seed(c)
    \/ \E command \in {"UPDATE_VERSION", "DEPRECATE"} : Change(c, command)
    \/ InsertRow(c) \/ Supersede(c) \/ LogChange(c) \/ CutOff(c)

Spec == Init /\ [][Next]_vars

-------------------------------------------------------------------------------
Row == [version : Nat, superseded_by : Nat, previous : Nat, edits : SUBSET (1..MaxCommands)]

Entry == [action : Commands, before : Nat, after : Nat]

Job == [step : {"idle", "insert", "supersede", "log"}, command : Commands \cup {None},
        number : 0..MaxCommands, read : 0..Len(rows), new : 0..Len(rows)]

TypeOK ==
  /\ indexed \in BOOLEAN /\ overlapped \in BOOLEAN
  /\ rows \in Seq(Row)
  /\ log \in Seq(Entry)
  /\ job \in [Callers -> Job]
  /\ handled \in 0..MaxCommands
  /\ answered \subseteq 1..MaxCommands
  /\ unfinished \subseteq DOMAIN rows

\* The rows are numbered 1, 2, 3 without a gap or a repetition, each made
\* from the one before it, and the newest is active; a row gives way to its
\* own successor only.
OneLine ==
  /\ \A i \in DOMAIN rows : rows[i].version = i /\ rows[i].previous = i - 1
  /\ \A i \in DOMAIN rows :
       \/ rows[i].superseded_by = 0
       \/ i < Len(rows) /\ rows[i].superseded_by = i + 1

\* Whether the request that made this row is still about to do this.
Ahead(i, steps) == \E c \in Callers : job[c].new = i /\ job[c].step \in steps

\* A second row is active only while, or because, the request that made its
\* successor has not come to retire it.
RetiredInTime ==
  \A i \in DOMAIN rows :
    i < Len(rows) /\ rows[i].superseded_by = 0 => i + 1 \in unfinished \/ Ahead(i + 1, {"supersede"})

\* What was answered with success is in the version everybody reads from now
\* on: no change is lost to another that was made from the same version.
NoLostChange == \A n \in answered : rows # <<>> /\ n \in rows[Len(rows)].edits

\* Every row has exactly one entry in the audit log, with the row it was made
\* from, unless its request was cut off or has not come that far.
EveryRowLogged ==
  /\ \A k, l \in DOMAIN log : log[k].after = log[l].after => k = l
  /\ \A k \in DOMAIN log : log[k].before = log[k].after - 1
  /\ \A i \in DOMAIN rows :
       \/ \E k \in DOMAIN log : log[k].after = i
       \/ i \in unfinished \/ Ahead(i, {"supersede", "log"})

\* However the requests overlap and wherever they are cut off; without the
\* index, only as long as no two overlapped.
VersionsInLine ==
  indexed \/ ~overlapped => OneLine /\ RetiredInTime /\ NoLostChange /\ EveryRowLogged
===============================================================================
