------------------------- MODULE MasterVersionsProofs -------------------------
(* The versions of a master record stay in one line, and no change that was *)
(* answered is lost, wherever requests are cut off: a successor is inserted *)
(* at the end or not at all.  With the index, for any number of requests at *)
(* the same time, because a version that is taken can only be taken by the  *)
(* end; without it, for one at a time, because it has read the end.         *)
EXTENDS MasterVersions, TLAPS

Bounded == MaxCommands \in Nat

-------------------------------------------------------------------------------
(* The inductive invariant. *)

\* What a request knows of itself, in line or not.
JobsTyped ==
  \A c \in Callers :
    /\ job[c].step = "idle" => job[c] = Idle
    /\ job[c].step = "insert" => job[c].new = 0
    /\ job[c].step # "idle" => job[c].command \in Commands /\ job[c].number \in 1..MaxCommands
    /\ job[c].step = "supersede" => job[c].read # 0

\* A request that has inserted its row stands on the row it has read, and
\* what it changed is in the newest version.
JobsInLine ==
  \A c \in Callers : job[c].step \in {"supersede", "log"} =>
    /\ job[c].new = job[c].read + 1
    /\ job[c].number \in rows[Len(rows)].edits

\* Without the index, the one request at work has read the newest row.
OneAtATime ==
  indexed \/ (/\ \A c, d \in Callers : job[c] # Idle /\ job[d] # Idle => c = d
              /\ \A c \in Callers : job[c].step = "insert" => job[c].read = Len(rows))

\* A row belongs to the request that inserted it until that is answered, or
\* was cut off.
Owned ==
  \A c \in Callers : job[c].new # 0 =>
    /\ job[c].new \notin unfinished
    /\ \A k \in DOMAIN log : log[k].after # job[c].new
    /\ \A d \in Callers : job[d].new = job[c].new => d = c

Logged == \A k \in DOMAIN log : log[k].after \in DOMAIN rows

InLine == OneLine /\ RetiredInTime /\ NoLostChange /\ EveryRowLogged

TInv == TypeOK /\ JobsTyped

LineInv == JobsInLine /\ OneAtATime /\ Owned /\ Logged /\ InLine

IInv == TInv /\ (indexed \/ ~overlapped => LineInv)

-------------------------------------------------------------------------------
\* The row that update_master_record reads is one of the rows, and of a line
\* the last one.
LEMMA NewestIsThere ==
  ASSUME TypeOK, NEW n, n \in NewestActive
  PROVE  n \in 1..Len(rows) /\ (OneLine => n = Len(rows))
<1>1. /\ Len(rows) \in Nat /\ DOMAIN rows = 1..Len(rows)
      /\ \A j \in 1..Len(rows) : rows[j].version \in Nat
  <2>1. Len(rows) \in Nat /\ \A j \in 1..Len(rows) : rows[j] \in Row
    BY DEF TypeOK
  <2> QED
    BY <2>1 DEF TypeOK, Row
<1>2. /\ n \in 1..Len(rows)
      /\ \A j \in Active :
           rows[j].version < rows[n].version \/ (rows[j].version = rows[n].version /\ j <= n)
  <2>1. /\ n \in Active
        /\ \A j \in Active :
             rows[j].version < rows[n].version \/ (rows[j].version = rows[n].version /\ j <= n)
    BY DEF NewestActive
  <2>2. n \in DOMAIN rows
    BY <2>1, Zenon DEF Active
  <2> QED
    BY <1>1, <2>1, <2>2, Zenon
<1>3. ASSUME OneLine PROVE n = Len(rows)
  <2>1. /\ \A j \in 1..Len(rows) : rows[j].version = j
        /\ Len(rows) \in 1..Len(rows) /\ rows[Len(rows)].superseded_by = 0
    BY <1>1, <1>2, <1>3 DEF OneLine
  <2>2. Len(rows) \in Active
    BY <1>1, <2>1 DEF Active
  <2>3. Len(rows) <= n
    BY <1>1, <1>2, <2>1, <2>2
  <2> QED
    <3>1. n \in 1..Len(rows) /\ Len(rows) \in Nat
      BY <1>1, <1>2
    <3> QED
      BY <2>3, <3>1
<1> QED
  BY <1>2, <1>3

\* A row that a request would insert.
LEMMA NewRowIs ==
  ASSUME TInv, NEW c \in Callers, job[c].step = "insert"
  PROVE  /\ job[c].read \in 0..Len(rows) /\ job[c].new = 0
         /\ NewRow(job[c]) \in Row
         /\ NewRow(job[c]).superseded_by = 0 /\ NewRow(job[c]).previous = job[c].read
         /\ NewRow(job[c]).version = IF job[c].read = 0 THEN 1 ELSE rows[job[c].read].version + 1
         /\ NewRow(job[c]).edits = {job[c].number} \cup
              IF job[c].read = 0 THEN {} ELSE rows[job[c].read].edits
<1>1. /\ job[c] \in Job /\ job[c].number \in 1..MaxCommands /\ job[c].new = 0
      /\ Len(rows) \in Nat /\ \A i \in 1..Len(rows) : rows[i] \in Row
  BY DEF TInv, TypeOK, JobsTyped
<1>2. job[c].read \in 0..Len(rows) /\ job[c].read \in Nat
  BY <1>1 DEF Job
<1>3. job[c].read # 0 =>
        /\ rows[job[c].read].version \in Nat
        /\ rows[job[c].read].edits \in SUBSET (1..MaxCommands)
  BY <1>1, <1>2 DEF Row
<1>4. NewRow(job[c]) \in Row
  BY <1>1, <1>2, <1>3 DEF NewRow, Row
<1> QED
  BY <1>1, <1>2, <1>4 DEF NewRow

-------------------------------------------------------------------------------
(* Types. *)

\* A request that ends.
LEMMA EndTyped ==
  ASSUME TInv, Bounded, NEW c \in Callers, job' = [job EXCEPT ![c] = Idle], rows' = rows
  PROVE  job' \in [Callers -> Job'] /\ JobsTyped'
<1>1. Len(rows) \in Nat /\ MaxCommands \in Nat
  BY DEF TInv, TypeOK, Bounded
<1>2. Idle \in Job /\ Job' = Job
  BY <1>1 DEF Idle, Job
<1> QED
  BY <1>2 DEF TInv, TypeOK, JobsTyped, Idle

LEMMA BeginTyped ==
  ASSUME TInv, Bounded, NEW c \in Callers, NEW command \in Commands, NEW read \in 0..Len(rows),
         Begin(c, command, read)
  PROVE  TInv'
<1>1. /\ handled < MaxCommands /\ handled' = handled + 1 /\ handled \in Nat /\ MaxCommands \in Nat
      /\ UNCHANGED <<indexed, rows, log, answered, unfinished>> /\ overlapped' \in BOOLEAN
      /\ Job' = Job
  BY DEF TInv, Bounded, Begin, TypeOK, Job
<1> DEFINE j == [step |-> "insert", command |-> command,
                 number |-> handled + 1, read |-> read, new |-> 0]
<1>2. job' = [job EXCEPT ![c] = j]
  BY DEF Begin
<1>3. j \in Job
  BY <1>1 DEF Job, TInv, TypeOK
<1>4. job' \in [Callers -> Job']
  BY <1>1, <1>2, <1>3 DEF TInv, TypeOK
<1>5. JobsTyped'
  BY <1>1, <1>2 DEF TInv, TypeOK, JobsTyped
<1> QED
  BY <1>1, <1>4, <1>5 DEF TInv, TypeOK

LEMMA InsertTyped ==
  ASSUME TInv, NEW c \in Callers, InsertRow(c), ~Taken(NewRow(job[c]).version)
  PROVE  TInv'
<1> DEFINE new == NewRow(job[c])
           step == IF job[c].read = 0 THEN "log" ELSE "supersede"
<1>1. /\ job[c].step = "insert" /\ rows' = Append(rows, new)
      /\ job' = [job EXCEPT ![c].step = step, ![c].new = Len(rows) + 1]
      /\ UNCHANGED <<indexed, log, handled, answered, unfinished, overlapped>>
  BY DEF InsertRow
<1>2. new \in Row /\ job[c] \in Job /\ rows \in Seq(Row) /\ Len(rows) \in Nat
  BY <1>1, NewRowIs DEF TInv, TypeOK
<1> HIDE DEF new
<1>3. /\ rows' \in Seq(Row) /\ Len(rows') = Len(rows) + 1
      /\ DOMAIN rows = 1..Len(rows) /\ DOMAIN rows' = 1..(Len(rows) + 1)
  BY <1>1, <1>2
<1>4. \A j : j \in Job => j \in Job'
  BY <1>1, <1>3 DEF Job
<1>5. [[job[c] EXCEPT !.step = step] EXCEPT !.new = Len(rows) + 1] \in Job'
  <2>1. step \in {"idle", "insert", "supersede", "log"} /\ Len(rows) + 1 \in 0..Len(rows')
    BY <1>2, <1>3
  <2>2. job[c] \in Job'
    BY <1>2, <1>4
  <2> HIDE DEF step
  <2> QED
    BY <2>1, <2>2 DEF Job
<1>6. job' \in [Callers -> Job']
  BY <1>1, <1>4, <1>5 DEF TInv, TypeOK
<1>7. JobsTyped'
  <2>1. ASSUME NEW d \in Callers, d # c PROVE job'[d] = job[d]
    BY <1>1, <2>1 DEF TInv, TypeOK
  <2>2. /\ job'[c].step = step /\ job'[c].command = job[c].command
        /\ job'[c].number = job[c].number /\ job'[c].read = job[c].read
    BY <1>1, <1>2 DEF TInv, TypeOK, Job
  <2>3. step \in {"supersede", "log"} /\ (step = "supersede" => job[c].read # 0)
    OBVIOUS
  <2>4. job[c].command \in Commands /\ job[c].number \in 1..MaxCommands
    BY <1>1 DEF TInv, JobsTyped
  <2> HIDE DEF step
  <2>5. ASSUME NEW d \in Callers
        PROVE  /\ job'[d].step = "idle" => job'[d] = Idle
               /\ job'[d].step = "insert" => job'[d].new = 0
               /\ job'[d].step # "idle" =>
                    job'[d].command \in Commands /\ job'[d].number \in 1..MaxCommands
               /\ job'[d].step = "supersede" => job'[d].read # 0
    <3>1. CASE d = c
      BY <2>2, <2>3, <2>4, <3>1
    <3>2. CASE d # c
      BY <2>1, <3>2 DEF TInv, JobsTyped
    <3> QED
      BY <3>1, <3>2
  <2> QED
    BY <2>5 DEF JobsTyped
<1> QED
  BY <1>1, <1>3, <1>6, <1>7 DEF TInv, TypeOK

LEMMA SupersedeTyped ==
  ASSUME TInv, NEW c \in Callers, Supersede(c)
  PROVE  TInv'
<1> DEFINE r == job[c].read
           old == [rows[r] EXCEPT !.superseded_by = job[c].new]
<1>1. /\ job[c].step = "supersede" /\ job[c] \in Job /\ r # 0
      /\ rows \in Seq(Row) /\ Len(rows) \in Nat /\ DOMAIN rows = 1..Len(rows)
      /\ rows' = [rows EXCEPT ![r] = old]
      /\ job' = [job EXCEPT ![c].step = "log"]
      /\ UNCHANGED <<indexed, log, handled, answered, unfinished, overlapped>>
  BY DEF TInv, TypeOK, JobsTyped, Supersede
<1>2. r \in 1..Len(rows) /\ job[c].new \in Nat
  BY <1>1 DEF Job
<1>3. old \in Row
  <2>1. rows[r] \in Row
    BY <1>1, <1>2
  <2> QED
    BY <1>2, <2>1 DEF Row
<1> HIDE DEF old
<1>4. rows' \in Seq(Row) /\ Len(rows') = Len(rows) /\ DOMAIN rows' = DOMAIN rows
  BY <1>1, <1>2, <1>3
<1>5. Job' = Job
  BY <1>4 DEF Job
<1>6. [job[c] EXCEPT !.step = "log"] \in Job
  BY <1>1 DEF Job
<1>7. job' \in [Callers -> Job']
  BY <1>1, <1>5, <1>6 DEF TInv, TypeOK
<1>8. JobsTyped'
  BY <1>1, <1>6 DEF TInv, TypeOK, JobsTyped, Job
<1> QED
  BY <1>1, <1>4, <1>7, <1>8 DEF TInv, TypeOK

LEMMA LogTyped ==
  ASSUME TInv, Bounded, NEW c \in Callers, LogChange(c)
  PROVE  TInv'
<1>1. /\ job[c].step = "log" /\ job[c] \in Job /\ job[c].command \in Commands
      /\ job[c].number \in 1..MaxCommands /\ Len(rows) \in Nat
      /\ job' = [job EXCEPT ![c] = Idle]
      /\ log' = Append(log, [action |-> job[c].command, before |-> job[c].read, after |-> job[c].new])
      /\ UNCHANGED <<indexed, rows, handled, unfinished, overlapped>>
      /\ answered' = answered \cup {job[c].number}
  BY DEF TInv, TypeOK, JobsTyped, LogChange
<1>2. [action |-> job[c].command, before |-> job[c].read, after |-> job[c].new] \in Entry
  BY <1>1 DEF Job, Entry
<1>3. job' \in [Callers -> Job'] /\ JobsTyped'
  BY <1>1, EndTyped
<1>4. log' \in Seq(Entry) /\ answered' \subseteq 1..MaxCommands
  <2>1. log \in Seq(Entry) /\ answered \subseteq 1..MaxCommands
    BY DEF TInv, TypeOK
  <2>2. log' = Append(log, [action |-> job[c].command, before |-> job[c].read, after |-> job[c].new])
    BY <1>1
  <2>3. answered' \subseteq 1..MaxCommands
    BY <1>1, <2>1
  <2> QED
    BY <1>2, <2>1, <2>2, <2>3
<1> QED
  BY <1>1, <1>3, <1>4 DEF TInv, TypeOK

LEMMA CutOffTyped ==
  ASSUME TInv, Bounded, NEW c \in Callers, CutOff(c)
  PROVE  TInv'
<1>1. /\ job[c] \in Job /\ Len(rows) \in Nat /\ DOMAIN rows = 1..Len(rows)
      /\ job' = [job EXCEPT ![c] = Idle]
      /\ unfinished' = unfinished \cup ({job[c].new} \ {0})
      /\ UNCHANGED <<indexed, rows, log, handled, answered, overlapped>>
  BY DEF TInv, TypeOK, CutOff
<1>2. unfinished' \subseteq DOMAIN rows'
  BY <1>1 DEF TInv, TypeOK, Job
<1>3. job' \in [Callers -> Job'] /\ JobsTyped'
  BY <1>1, EndTyped
<1> QED
  BY <1>1, <1>2, <1>3 DEF TInv, TypeOK

LEMMA TypesKeep == ASSUME Bounded, TInv, [Next]_vars PROVE TInv'
<1>1. CASE UNCHANGED vars
  BY <1>1 DEF vars, TInv, TypeOK, Job, JobsTyped
<1>2. ASSUME NEW c \in Callers, Create(c) \/ Seed(c) PROVE TInv'
  <2>1. 0 \in 0..Len(rows)
    BY DEF TInv, TypeOK
  <2> QED
    BY <1>2, <2>1, BeginTyped DEF Create, Seed, Commands
<1>3. ASSUME NEW c \in Callers, NEW command \in {"UPDATE_VERSION", "DEPRECATE"},
             Change(c, command)
      PROVE  TInv'
  <2>1. PICK i \in NewestActive : Begin(c, command, i)
    BY <1>3 DEF Change
  <2>2. i \in 0..Len(rows)
    BY NewestIsThere DEF TInv, TypeOK
  <2> QED
    BY <2>1, <2>2, BeginTyped DEF Commands
<1>4. ASSUME NEW c \in Callers, InsertRow(c) PROVE TInv'
  <2>1. CASE Taken(NewRow(job[c]).version)
    <3>1. job' = [job EXCEPT ![c] = Idle]
          /\ UNCHANGED <<indexed, rows, log, handled, answered, unfinished, overlapped>>
      BY <1>4, <2>1 DEF InsertRow
    <3>2. job' \in [Callers -> Job'] /\ JobsTyped'
      BY <3>1, EndTyped
    <3> QED
      BY <3>1, <3>2 DEF TInv, TypeOK
  <2>2. CASE ~Taken(NewRow(job[c]).version)
    BY <1>4, <2>2, InsertTyped
  <2> QED
    BY <2>1, <2>2
<1>5. ASSUME NEW c \in Callers, Supersede(c) \/ LogChange(c) \/ CutOff(c) PROVE TInv'
  BY <1>5, SupersedeTyped, LogTyped, CutOffTyped
<1> QED
  BY <1>1, <1>2, <1>3, <1>4, <1>5 DEF Next

-------------------------------------------------------------------------------
(* The line. *)
USE DEF OneLine, RetiredInTime, NoLostChange, EveryRowLogged

\* A request that inserts, or is behind its insert, is the only one at work.
LEMMA OneStays ==
  ASSUME OneAtATime, NEW c \in Callers, job[c].step # "idle", indexed' = indexed,
         job'[c].step # "insert", \A d \in Callers \ {c} : job'[d] = job[d]
  PROVE  OneAtATime'
<1>1. CASE indexed
  BY <1>1 DEF OneAtATime
<1>2. CASE ~indexed
  <2>1. \A d \in Callers \ {c} : job[d] = Idle /\ job'[d] = Idle
    BY <1>2 DEF OneAtATime, Idle
  <2> QED
    BY <2>1 DEF OneAtATime, Idle
<1> QED
  BY <1>1, <1>2

LEMMA BeginKeeps ==
  ASSUME TInv, LineInv, Bounded, NEW c \in Callers, NEW command \in Commands, NEW read \in 0..Len(rows),
         Begin(c, command, read),
         indexed \/ ((\A d \in Callers : job[d] = Idle) /\ read = Len(rows))
  PROVE  LineInv'
<1>1. /\ job[c] = Idle /\ handled < MaxCommands /\ handled' = handled + 1
      /\ handled \in Nat /\ MaxCommands \in Nat
      /\ UNCHANGED <<indexed, rows, log, answered, unfinished>>
      /\ job \in [Callers -> Job] /\ Job' = Job
  BY DEF TInv, LineInv, Bounded, Begin, TypeOK, Job
<1> DEFINE j == [step |-> "insert", command |-> command,
                 number |-> handled + 1, read |-> read, new |-> 0]
<1>2. job' = [job EXCEPT ![c] = j]
  BY DEF Begin
<1>3. /\ job'[c] = j
      /\ \A d \in Callers \ {c} : job'[d] = job[d]
  BY <1>1, <1>2
<1>5. JobsInLine'
  BY <1>1, <1>3 DEF TInv, LineInv, JobsInLine, JobsTyped
<1>6. Owned' /\ Logged'
  <2>1. \A b \in Callers : job'[b].new # 0 => job'[b] = job[b]
    BY <1>3
  <2> QED
    BY <1>1, <2>1 DEF TInv, LineInv, Owned, Logged
<1>7. OneLine' /\ NoLostChange'
  BY <1>1 DEF TInv, LineInv, InLine
<1>8. RetiredInTime' /\ EveryRowLogged'
  <2>1. \A i, s : Ahead(i, s) /\ s \subseteq {"supersede", "log"} => Ahead(i, s)'
    BY <1>1, <1>3 DEF Ahead, Idle
  <2> QED
    BY <1>1, <2>1 DEF TInv, LineInv, InLine
<1>9. OneAtATime'
  BY <1>1, <1>3 DEF OneAtATime, Idle
<1> QED
  BY <1>5, <1>6, <1>7, <1>8, <1>9 DEF LineInv, InLine

\* A request that ends without a trace of its own.
LEMMA RefusalKeeps ==
  ASSUME TInv, LineInv, Bounded, NEW c \in Callers, job[c].step = "insert",
         job' = [job EXCEPT ![c] = Idle],
         UNCHANGED <<indexed, rows, log, handled, answered, unfinished>>
  PROVE  LineInv'
<1>1. /\ job'[c] = Idle /\ job[c].new = 0
      /\ \A d \in Callers \ {c} : job'[d] = job[d]
  BY DEF TInv, LineInv, TypeOK, JobsInLine, JobsTyped
<1>3. JobsInLine'
  BY <1>1 DEF TInv, LineInv, JobsInLine, JobsTyped, Idle
<1>4. Owned' /\ Logged'
  <2>1. \A b \in Callers : job'[b].new # 0 => job'[b] = job[b]
    BY <1>1 DEF Idle
  <2> QED
    BY <2>1 DEF TInv, LineInv, Owned, Logged
<1>5. InLine'
  <2>1. \A i, s : Ahead(i, s) /\ s \subseteq {"supersede", "log"} => Ahead(i, s)'
    BY <1>1 DEF Ahead
  <2> QED
    BY <2>1 DEF TInv, LineInv, InLine
<1>6. OneAtATime'
  BY <1>1, OneStays DEF LineInv, Idle
<1> QED
  BY <1>3, <1>4, <1>5, <1>6 DEF LineInv

\* Only the end of the line is free.
LEMMA InsertedAtEnd ==
  ASSUME TInv, LineInv, NEW c \in Callers, job[c].step = "insert", ~Taken(NewRow(job[c]).version)
  PROVE  /\ job[c].read = Len(rows)
         /\ NewRow(job[c]) \in Row
         /\ NewRow(job[c]).version = Len(rows) + 1
         /\ Len(rows) # 0 => rows[Len(rows)].edits \subseteq NewRow(job[c]).edits
<1>1. /\ Len(rows) \in Nat /\ DOMAIN rows = 1..Len(rows)
      /\ \A i \in 1..Len(rows) : rows[i].version = i
  BY DEF TInv, LineInv, TypeOK, InLine
<1>2. job[c].read \in 0..Len(rows) /\ NewRow(job[c]) \in Row
  BY NewRowIs
<1>3. NewRow(job[c]).version = job[c].read + 1
  BY <1>1, <1>2, NewRowIs
<1>4. job[c].read = Len(rows)
  <2>1. ASSUME indexed, job[c].read < Len(rows) PROVE FALSE
    <3>1. job[c].read + 1 \in 1..Len(rows)
      BY <1>1, <1>2, <2>1
    <3> QED
      BY <1>1, <1>3, <2>1, <3>1 DEF Taken
  <2>2. CASE ~indexed
    BY <2>2 DEF LineInv, OneAtATime
  <2> QED
    BY <1>1, <1>2, <2>1, <2>2
<1>5. Len(rows) # 0 => rows[Len(rows)].edits \subseteq NewRow(job[c]).edits
  BY <1>1, <1>4, NewRowIs
<1> QED
  BY <1>2, <1>3, <1>4, <1>5

LEMMA InsertKeeps ==
  ASSUME TInv, LineInv, NEW c \in Callers, job[c].step = "insert", ~Taken(NewRow(job[c]).version),
         InsertRow(c)
  PROVE  LineInv'
<1> DEFINE new == NewRow(job[c])
           step == IF job[c].read = 0 THEN "log" ELSE "supersede"
<1>1. /\ rows' = Append(rows, new)
      /\ job' = [job EXCEPT ![c].step = step, ![c].new = Len(rows) + 1]
      /\ UNCHANGED <<indexed, log, handled, answered, unfinished>>
      /\ job[c] \in Job /\ job[c].command \in Commands /\ job[c].number \in 1..MaxCommands
      /\ rows \in Seq(Row) /\ Len(rows) \in Nat
  BY DEF TInv, LineInv, TypeOK, JobsInLine, JobsTyped, InsertRow
<1>2. /\ job[c].read = Len(rows) /\ new \in Row /\ new.version = Len(rows) + 1
      /\ Len(rows) # 0 => rows[Len(rows)].edits \subseteq new.edits
  BY InsertedAtEnd
<1>3. /\ rows' \in Seq(Row) /\ Len(rows') = Len(rows) + 1
      /\ rows'[Len(rows) + 1] = new
      /\ \A i \in 1..Len(rows) : rows'[i] = rows[i]
      /\ DOMAIN rows = 1..Len(rows) /\ DOMAIN rows' = 1..(Len(rows) + 1)
  BY <1>1, <1>2
<1>4. /\ job'[c] = [job[c] EXCEPT !.step = step, !.new = Len(rows) + 1]
      /\ \A d \in Callers \ {c} : job'[d] = job[d]
  BY <1>1 DEF TInv, LineInv, TypeOK
<1>5. job'[c] = [step |-> step, command |-> job[c].command, number |-> job[c].number,
                 read |-> job[c].read, new |-> Len(rows) + 1]
  <2>1. job[c] = [step |-> job[c].step, command |-> job[c].command, number |-> job[c].number,
                  read |-> job[c].read, new |-> job[c].new]
    BY <1>1 DEF Job
  <2> HIDE DEF step
  <2> QED
    BY <1>4, <2>1
<1>6. \A d \in Callers : job[d].new \in 0..Len(rows)
  BY DEF TInv, LineInv, TypeOK, Job
<1>8. JobsInLine'
  <2>1. ASSUME NEW d \in Callers, job[d].step \in {"supersede", "log"}
        PROVE  job[d].number \in rows'[Len(rows')].edits
    <3>1. job[d].new # 0 /\ job[d].number \in rows[Len(rows)].edits
      <4>1. job[d].new = job[d].read + 1 /\ job[d].read \in Nat
        BY <2>1 DEF TInv, LineInv, JobsInLine, JobsTyped, TypeOK, Job
      <4> QED
        BY <2>1, <4>1 DEF TInv, LineInv, JobsInLine, JobsTyped
    <3>2. Len(rows) # 0
      BY <1>1, <1>6, <3>1
    <3> QED
      BY <1>2, <1>3, <3>1, <3>2
  <2>2. job[c].number \in rows'[Len(rows')].edits
    BY <1>3, NewRowIs
  <2>3. /\ job'[c].step \in {"supersede", "log"} /\ job'[c].number = job[c].number
        /\ job'[c].new = job'[c].read + 1
    BY <1>2, <1>5
  <2>4. ASSUME NEW d \in Callers, job'[d].step \in {"supersede", "log"}
        PROVE  job'[d].new = job'[d].read + 1 /\ job'[d].number \in rows'[Len(rows')].edits
    <3>1. CASE d = c
      BY <2>2, <2>3, <3>1
    <3>2. CASE d # c
      BY <1>4, <2>1, <2>4, <3>2 DEF LineInv, JobsInLine
    <3> QED
      BY <3>1, <3>2
  <2> QED
    BY <2>4 DEF JobsInLine
<1>9. Owned' /\ Logged'
  <2>1. Len(rows) + 1 \notin unfinished /\ \A k \in DOMAIN log : log[k].after # Len(rows) + 1
    BY <1>1, <1>3 DEF TInv, LineInv, TypeOK, Logged
  <2>2. Owned'
    <3>1. job'[c].new = Len(rows) + 1
      BY <1>5
    <3>2. Len(rows) \in Nat /\ UNCHANGED <<unfinished, log>>
      BY <1>1
    <3>3. \A d \in Callers \ {c} : job'[d] = job[d] /\ job'[d].new # Len(rows) + 1
      BY <1>4, <1>6, <3>2
    <3>4. ASSUME NEW d \in Callers \ {c}, job[d].new # 0
          PROVE  /\ job[d].new \notin unfinished
                 /\ \A k \in DOMAIN log : log[k].after # job[d].new
                 /\ \A e \in Callers : job'[e].new = job[d].new => e = d
      BY <3>1, <3>3, <3>4 DEF TInv, LineInv, Owned
    <3> QED
      BY <2>1, <3>1, <3>2, <3>3, <3>4 DEF Owned
  <2>3. Logged'
    BY <1>1, <1>3 DEF TInv, LineInv, Logged
  <2> QED
    BY <2>2, <2>3
<1>10. \A i, s : Ahead(i, s) /\ s \subseteq {"supersede", "log"} => Ahead(i, s)'
  BY <1>4 DEF Ahead
<1>11. OneLine' /\ NoLostChange'
  <2>1. new.superseded_by = 0 /\ new.previous = job[c].read
    BY NewRowIs
  <2>2. OneLine'
    BY <1>1, <1>2, <1>3, <2>1 DEF TInv, LineInv, InLine
  <2>3. NoLostChange'
    <3>1. rows' # <<>>
      BY <1>1, <1>3
    <3>2. answered # {} => Len(rows) # 0
      BY <1>1 DEF TInv, LineInv, InLine
    <3>3. \A n \in answered : n \in rows[Len(rows)].edits
      BY DEF TInv, LineInv, InLine
    <3> QED
      BY <1>1, <1>2, <1>3, <3>1, <3>2, <3>3
  <2> QED
    BY <2>2, <2>3
<1>12. RetiredInTime'
  <2>1. ASSUME NEW i \in 1..Len(rows), rows[i].superseded_by = 0
        PROVE  i + 1 \in unfinished' \/ Ahead(i + 1, {"supersede"})'
    <3>1. CASE i < Len(rows)
      BY <1>1, <1>3, <1>10, <2>1, <3>1 DEF TInv, LineInv, InLine
    <3>2. CASE i = Len(rows)
      <4>1. job'[c].step = "supersede" /\ job'[c].new = i + 1
        BY <1>1, <1>2, <1>5, <3>2
      <4> QED
        BY <4>1 DEF Ahead
    <3> QED
      BY <1>1, <3>1, <3>2
  <2> QED
    BY <1>1, <1>3, <2>1
<1>13. EveryRowLogged'
  <2>1. ASSUME NEW i, i = Len(rows) + 1 PROVE Ahead(i, {"supersede", "log"})'
    <3>1. job'[c].step \in {"supersede", "log"} /\ job'[c].new = i
      BY <1>5, <2>1
    <3> QED
      BY <3>1 DEF Ahead
  <2>2. \A i \in 1..(Len(rows) + 1) : i \in 1..Len(rows) \/ i = Len(rows) + 1
    BY <1>1
  <2> QED
    BY <1>1, <1>3, <1>10, <2>1, <2>2 DEF TInv, LineInv, InLine
<1>14. OneAtATime'
  <2>1. job'[c].step # "insert" /\ job[c].step # "idle"
    BY <1>5
  <2> QED
    BY <1>1, <1>4, <2>1, OneStays DEF LineInv
<1> QED
  BY <1>8, <1>9, <1>11, <1>12, <1>13, <1>14 DEF LineInv, InLine

LEMMA SupersedeKeeps ==
  ASSUME TInv, LineInv, NEW c \in Callers, Supersede(c)
  PROVE  LineInv'
<1> DEFINE r == job[c].read
<1>1. /\ job[c].step = "supersede" /\ job[c] \in Job
      /\ job[c].new = r + 1 /\ r # 0
      /\ rows \in Seq(Row) /\ Len(rows) \in Nat /\ DOMAIN rows = 1..Len(rows)
      /\ UNCHANGED <<indexed, log, handled, answered, unfinished>>
  BY DEF TInv, LineInv, TypeOK, JobsInLine, JobsTyped, Supersede
<1>2. r \in 1..Len(rows) /\ r < Len(rows) /\ r + 1 \in 1..Len(rows)
  BY <1>1 DEF Job
<1> DEFINE old == [rows[r] EXCEPT !.superseded_by = r + 1]
<1>3. /\ rows' = [rows EXCEPT ![r] = old]
      /\ rows[r] \in Row
  BY <1>1, <1>2 DEF Supersede
<1>4. /\ old \in Row /\ old.superseded_by = r + 1
      /\ old.version = rows[r].version /\ old.previous = rows[r].previous
      /\ old.edits = rows[r].edits
  <2>1. rows[r] = [version |-> rows[r].version, superseded_by |-> rows[r].superseded_by,
                   previous |-> rows[r].previous, edits |-> rows[r].edits]
    BY <1>3 DEF Row
  <2>2. old = [version |-> rows[r].version, superseded_by |-> r + 1,
               previous |-> rows[r].previous, edits |-> rows[r].edits]
    BY <2>1
  <2>3. /\ rows[r].version \in Nat /\ rows[r].previous \in Nat
        /\ rows[r].edits \in SUBSET (1..MaxCommands)
    BY <1>3 DEF Row
  <2>4. r + 1 \in Nat
    BY <1>1, <1>2
  <2> HIDE DEF old
  <2> QED
    BY <2>2, <2>3, <2>4 DEF Row
<1> HIDE DEF old
<1>5. /\ rows' \in Seq(Row) /\ Len(rows') = Len(rows) /\ DOMAIN rows' = 1..Len(rows)
      /\ rows'[r] = old
      /\ \A i \in 1..Len(rows) : i # r => rows'[i] = rows[i]
  BY <1>1, <1>2, <1>3, <1>4
<1>6. /\ job'[c] = [job[c] EXCEPT !.step = "log"]
      /\ \A d \in Callers \ {c} : job'[d] = job[d]
  BY DEF TInv, LineInv, TypeOK, Supersede
<1>7. /\ job'[c].step = "log" /\ job'[c].new = job[c].new /\ job'[c].read = job[c].read
      /\ job'[c].command = job[c].command /\ job'[c].number = job[c].number
      /\ job'[c] \in Job
  BY <1>1, <1>6 DEF Job
<1>9. JobsInLine'
  <2>1. rows'[Len(rows')].edits = rows[Len(rows)].edits
    BY <1>1, <1>2, <1>5
  <2>2. job'[c].new = job'[c].read + 1 /\ job'[c].number \in rows[Len(rows)].edits
    BY <1>1, <1>7 DEF LineInv, JobsInLine
  <2> QED
    BY <1>6, <2>1, <2>2 DEF LineInv, JobsInLine
<1>10. Owned' /\ Logged'
  <2>1. \A d \in Callers : job'[d].new = job[d].new
    BY <1>6, <1>7
  <2> QED
    BY <1>1, <1>5, <2>1 DEF TInv, LineInv, Owned, Logged
<1>11. OneLine' /\ NoLostChange'
  <2>1. OneLine'
    <3>1. \A i \in 1..Len(rows) :
            /\ rows[i].version = i /\ rows[i].previous = i - 1
            /\ \/ rows[i].superseded_by = 0
               \/ i < Len(rows) /\ rows[i].superseded_by = i + 1
      BY <1>1 DEF TInv, LineInv, InLine
    <3>2. ASSUME NEW i \in 1..Len(rows)
          PROVE  /\ rows'[i].version = i /\ rows'[i].previous = i - 1
                 /\ \/ rows'[i].superseded_by = 0
                    \/ i < Len(rows) /\ rows'[i].superseded_by = i + 1
      <4>1. CASE i = r
        BY <1>2, <1>4, <1>5, <3>1, <4>1
      <4>2. CASE i # r
        BY <1>5, <3>1, <4>2
      <4> QED
        BY <4>1, <4>2
    <3> QED
      BY <1>5, <3>2
  <2>2. rows' # <<>> /\ rows'[Len(rows')] = rows[Len(rows)]
    BY <1>1, <1>2, <1>5
  <2> QED
    BY <1>1, <2>1, <2>2 DEF TInv, LineInv, InLine
<1>12. RetiredInTime'
  <2>1. ASSUME NEW i \in 1..Len(rows), i < Len(rows), rows'[i].superseded_by = 0
        PROVE  i + 1 \in unfinished \/ Ahead(i + 1, {"supersede"})'
    <3>1. i # r /\ rows[i].superseded_by = 0
      BY <1>4, <1>5, <2>1
    <3>2. i + 1 \in unfinished \/ Ahead(i + 1, {"supersede"})
      BY <1>1, <2>1, <3>1 DEF TInv, LineInv, InLine
    <3>3. CASE Ahead(i + 1, {"supersede"})
      <4>1. PICK d \in Callers : job[d].new = i + 1 /\ job[d].step \in {"supersede"}
        BY <3>3 DEF Ahead
      <4>2. d # c
        BY <1>1, <1>2, <3>1, <4>1
      <4> QED
        BY <1>6, <4>1, <4>2 DEF Ahead
    <3> QED
      BY <3>2, <3>3
  <2> QED
    BY <1>1, <1>5, <2>1
<1>13. EveryRowLogged'
  <2>1. \A i : Ahead(i, {"supersede", "log"}) => Ahead(i, {"supersede", "log"})'
    BY <1>6, <1>7 DEF Ahead
  <2> QED
    BY <1>1, <1>5, <2>1 DEF TInv, LineInv, InLine
<1>14. OneAtATime'
  BY <1>1, <1>6, <1>7, OneStays DEF LineInv
<1> QED
  BY <1>9, <1>10, <1>11, <1>12, <1>13, <1>14 DEF LineInv, InLine

LEMMA LogKeeps ==
  ASSUME TInv, LineInv, Bounded, NEW c \in Callers, LogChange(c)
  PROVE  LineInv'
<1> DEFINE entry == [action |-> job[c].command, before |-> job[c].read, after |-> job[c].new]
<1>1. /\ job[c].step = "log" /\ job[c] \in Job
      /\ job[c].command \in Commands /\ job[c].number \in 1..MaxCommands
      /\ job[c].new = job[c].read + 1 /\ job[c].number \in rows[Len(rows)].edits
      /\ rows \in Seq(Row) /\ Len(rows) \in Nat /\ DOMAIN rows = 1..Len(rows)
      /\ log \in Seq(Entry) /\ Len(log) \in Nat /\ DOMAIN log = 1..Len(log)
      /\ answered' = answered \cup {job[c].number}
      /\ UNCHANGED <<indexed, rows, handled, unfinished>>
  BY DEF TInv, LineInv, TypeOK, JobsInLine, JobsTyped, LogChange
<1>2. job[c].new \in 1..Len(rows) /\ job[c].read \in Nat /\ entry \in Entry
  BY <1>1 DEF Job, Entry
<1>3. /\ log' \in Seq(Entry) /\ DOMAIN log' = 1..(Len(log) + 1)
      /\ log'[Len(log) + 1] = entry
      /\ \A k \in 1..Len(log) : log'[k] = log[k]
  BY <1>1, <1>2 DEF LogChange
<1>4. /\ job'[c] = Idle
      /\ \A d \in Callers \ {c} : job'[d] = job[d]
  BY DEF TInv, LineInv, TypeOK, LogChange
<1>5. \A k \in 1..Len(log) : log[k].after # job[c].new
  <2>1. DOMAIN log = 1..Len(log) /\ job[c].new # 0
    BY <1>1, <1>2
  <2> QED
    BY <2>1 DEF TInv, LineInv, Owned
<1>7. JobsInLine'
  BY <1>1, <1>4 DEF TInv, LineInv, JobsInLine, JobsTyped, Idle
<1>8. Owned' /\ Logged'
  <2>1. ASSUME NEW b \in Callers, job'[b].new # 0
        PROVE  b # c /\ job'[b] = job[b] /\ job[b].new # job[c].new
    BY <1>2, <1>4, <2>1 DEF TInv, LineInv, Owned, Idle
  <2>2. ASSUME NEW b \in Callers, job'[b].new # 0
        PROVE  /\ job'[b].new \notin unfinished'
               /\ \A k \in DOMAIN log' : log'[k].after # job'[b].new
               /\ \A d \in Callers : job'[d].new = job'[b].new => d = b
    <3>1. b # c /\ job'[b] = job[b] /\ job[b].new # job[c].new /\ job[b].new # 0
      BY <2>1, <2>2
    <3>2. /\ job[b].new \notin unfinished
          /\ \A k \in DOMAIN log : log[k].after # job[b].new
          /\ \A d \in Callers : job[d].new = job[b].new => d = b
      BY <3>1 DEF TInv, LineInv, Owned
    <3>3. unfinished' = unfinished
      BY <1>1
    <3>4. ASSUME NEW k \in DOMAIN log'
          PROVE  log'[k].after # job'[b].new
      <4>1. k \in 1..Len(log) \/ k = Len(log) + 1
        BY <1>1, <1>3
      <4>2. entry.after = job[c].new
        OBVIOUS
      <4> QED
        BY <1>1, <1>3, <3>1, <3>2, <4>1, <4>2
    <3>5. ASSUME NEW d \in Callers, job'[d].new = job'[b].new
          PROVE  d = b
      <4>1. d # c /\ job'[d] = job[d]
        BY <2>1, <2>2, <3>5
      <4> QED
        BY <3>1, <3>2, <3>5, <4>1
    <3> QED
      BY <3>1, <3>2, <3>3, <3>4, <3>5
  <2>3. Owned'
    BY <2>2 DEF Owned
  <2>4. Logged'
    <3>1. \A k \in 1..Len(log) : log[k].after \in 1..Len(rows)
      BY <1>1 DEF TInv, LineInv, Logged
    <3>2. entry.after \in 1..Len(rows)
      BY <1>2
    <3>3. \A k \in 1..(Len(log) + 1) : k \in 1..Len(log) \/ k = Len(log) + 1
      BY <1>1
    <3>4. DOMAIN rows' = 1..Len(rows)
      BY <1>1
    <3> QED
      BY <1>3, <3>1, <3>2, <3>3, <3>4 DEF Logged
  <2> QED
    BY <2>3, <2>4
<1>9. OneLine' /\ NoLostChange'
  BY <1>1, <1>2 DEF TInv, LineInv, InLine
<1>10. RetiredInTime'
  <2>1. \A i : Ahead(i, {"supersede"}) => Ahead(i, {"supersede"})'
    BY <1>1, <1>4 DEF Ahead
  <2> QED
    BY <1>1, <2>1 DEF TInv, LineInv, InLine
<1>11. EveryRowLogged'
  <2>1. \A i : Ahead(i, {"supersede", "log"}) => i = job[c].new \/ Ahead(i, {"supersede", "log"})'
    BY <1>4 DEF Ahead
  <2>2. \A k, l \in DOMAIN log' : log'[k].after = log'[l].after => k = l
    BY <1>1, <1>3, <1>5 DEF TInv, LineInv, InLine
  <2>3. \A k \in DOMAIN log' : log'[k].before = log'[k].after - 1
    BY <1>1, <1>2, <1>3 DEF TInv, LineInv, InLine
  <2>4. ASSUME NEW i \in DOMAIN rows
        PROVE  \/ \E k \in DOMAIN log' : log'[k].after = i
               \/ i \in unfinished \/ Ahead(i, {"supersede", "log"})'
    <3>1. CASE i = job[c].new
      BY <1>1, <1>3, <3>1
    <3>2. CASE i # job[c].new
      <4>1. \/ \E k \in 1..Len(log) : log[k].after = i
            \/ i \in unfinished \/ Ahead(i, {"supersede", "log"})
        BY <1>1 DEF TInv, LineInv, InLine
      <4>2. \A k \in 1..Len(log) : k \in DOMAIN log'
        BY <1>1, <1>3
      <4> QED
        BY <1>3, <2>1, <3>2, <4>1, <4>2
    <3> QED
      BY <3>1, <3>2
  <2> QED
    BY <1>1, <2>2, <2>3, <2>4
<1>12. OneAtATime'
  BY <1>1, <1>4, OneStays DEF LineInv, Idle
<1> QED
  BY <1>7, <1>8, <1>9, <1>10, <1>11, <1>12 DEF LineInv, InLine

LEMMA CutOffKeeps ==
  ASSUME TInv, LineInv, Bounded, NEW c \in Callers, CutOff(c)
  PROVE  LineInv'
<1>1. /\ job[c] \in Job /\ job[c].step # "idle"
      /\ unfinished' = unfinished \cup ({job[c].new} \ {0})
      /\ UNCHANGED <<indexed, rows, log, handled, answered>>
      /\ Len(rows) \in Nat /\ DOMAIN rows = 1..Len(rows)
  BY DEF TInv, TypeOK, JobsTyped, CutOff
<1>2. /\ job'[c] = Idle
      /\ \A d \in Callers \ {c} : job'[d] = job[d]
  BY DEF TInv, LineInv, TypeOK, CutOff
<1>4. JobsInLine'
  BY <1>1, <1>2 DEF TInv, LineInv, JobsInLine, JobsTyped, Idle
<1>5. Owned' /\ Logged'
  <2>1. ASSUME NEW b \in Callers, job'[b].new # 0
        PROVE  b # c /\ job'[b] = job[b] /\ job[b].new # job[c].new
    BY <1>2, <2>1 DEF TInv, LineInv, Owned, Idle
  <2> QED
    BY <1>1, <1>2, <2>1 DEF TInv, LineInv, Owned, Logged
<1>6. OneLine' /\ NoLostChange'
  BY <1>1 DEF TInv, LineInv, InLine
<1>7. ASSUME NEW i \in Nat \ {0}, NEW s, Ahead(i, s)
      PROVE  i \in unfinished' \/ Ahead(i, s)'
  BY <1>1, <1>2, <1>7 DEF Ahead
<1>8. RetiredInTime' /\ EveryRowLogged'
  BY <1>1, <1>7 DEF TInv, LineInv, InLine
<1>9. OneAtATime'
  BY <1>1, <1>2, OneStays DEF LineInv, Idle
<1> QED
  BY <1>4, <1>5, <1>6, <1>8, <1>9 DEF LineInv, InLine

-------------------------------------------------------------------------------
LEMMA InitHolds == ASSUME Bounded PROVE Init => IInv
<1> SUFFICES ASSUME Init PROVE IInv
  OBVIOUS
<1>1. /\ rows = <<>> /\ log = <<>> /\ handled = 0 /\ answered = {} /\ unfinished = {}
      /\ \A c \in Callers : job[c] = Idle
      /\ Len(rows) = 0 /\ DOMAIN rows = {} /\ DOMAIN log = {}
  BY DEF Init
<1>2. TypeOK
  <2>1. Idle \in Job
    BY <1>1 DEF Idle, Job, Bounded
  <2>2. job \in [Callers -> Job]
    BY <2>1 DEF Init
  <2> QED
    <3>1. rows \in Seq(Row) /\ log \in Seq(Entry) /\ unfinished \subseteq DOMAIN rows
      BY <1>1
    <3>2. handled \in 0..MaxCommands
      BY <1>1 DEF Bounded
    <3>3. indexed \in BOOLEAN /\ overlapped \in BOOLEAN
      BY DEF Init
    <3> QED
      BY <1>1, <2>2, <3>1, <3>2, <3>3 DEF TypeOK
<1>3. JobsTyped /\ JobsInLine /\ OneAtATime /\ Owned /\ Logged
  BY <1>1 DEF JobsTyped, JobsInLine, OneAtATime, Owned, Logged, Idle
<1>4. InLine
  BY <1>1 DEF InLine
<1> QED
  BY <1>2, <1>3, <1>4 DEF IInv, TInv, LineInv

\* A request that begins while the line holds, and is not the first overlap
\* of a master without the index, has read the end.
LEMMA BeginInLine ==
  ASSUME Bounded, TInv, LineInv, NEW c \in Callers, NEW command \in Commands,
         NEW read \in 0..Len(rows), read = Len(rows), Begin(c, command, read),
         indexed' \/ ~overlapped'
  PROVE  LineInv'
<1>1. indexed \/ \A d \in Callers : job[d] = Idle
  BY DEF Begin
<1> QED
  BY <1>1, BeginKeeps

LEMMA StepKeeps == ASSUME Bounded PROVE IInv /\ [Next]_vars => IInv'
<1> SUFFICES ASSUME IInv, [Next]_vars, indexed' \/ ~overlapped' PROVE LineInv'
  BY TypesKeep DEF IInv
<1>1. TInv /\ overlapped \in BOOLEAN
  BY DEF IInv, TInv, TypeOK
<1>2. LineInv
  <2>1. ASSUME NEW c \in Callers, NEW command, NEW i, Begin(c, command, i)
        PROVE  indexed' = indexed /\ (overlapped => overlapped')
    BY <2>1 DEF Begin
  <2>2. indexed' = indexed /\ (overlapped => overlapped')
    <3>1. ASSUME NEW c \in Callers, Create(c) \/ Seed(c) \/ \E command : Change(c, command)
          PROVE  indexed' = indexed /\ (overlapped => overlapped')
      BY <2>1, <3>1 DEF Create, Seed, Change
    <3>2. ASSUME NEW c \in Callers, InsertRow(c) \/ Supersede(c) \/ LogChange(c) \/ CutOff(c)
          PROVE  UNCHANGED <<indexed, overlapped>>
      BY <3>2 DEF InsertRow, Supersede, LogChange, CutOff
    <3> QED
      BY <3>1, <3>2 DEF Next, vars
  <2> QED
    BY <2>2 DEF IInv
<1>3. CASE UNCHANGED vars
  BY <1>2, <1>3 DEF vars, LineInv, JobsInLine, OneAtATime, Owned, Logged, InLine, Ahead
<1>4. ASSUME NEW c \in Callers, Create(c) \/ Seed(c) PROVE LineInv'
  <2>1. Len(rows) \in Nat /\ DOMAIN rows = 1..Len(rows)
    BY <1>1 DEF TInv, TypeOK
  <2>2. Active = {} => Len(rows) = 0
    <3>1. Len(rows) # 0 => Len(rows) \in 1..Len(rows) /\ rows[Len(rows)].superseded_by = 0
      BY <1>2, <2>1 DEF LineInv, InLine
    <3> QED
      BY <2>1, <3>1 DEF Active
  <2>3. Len(rows) = 0 /\ 0 \in 0..Len(rows)
    BY <1>4, <2>1, <2>2 DEF Create, Seed
  <2> QED
    BY <1>1, <1>2, <1>4, <2>3, BeginInLine DEF Create, Seed, Commands
<1>5. ASSUME NEW c \in Callers, NEW command \in {"UPDATE_VERSION", "DEPRECATE"},
             Change(c, command)
      PROVE  LineInv'
  <2>1. PICK i \in NewestActive : Begin(c, command, i)
    BY <1>5 DEF Change
  <2>2. TypeOK /\ OneLine
    BY <1>1, <1>2 DEF TInv, LineInv, InLine
  <2>3. i \in 0..Len(rows) /\ i = Len(rows)
    <3>1. i \in 1..Len(rows) /\ i = Len(rows)
      BY <2>2, NewestIsThere
    <3> QED
      BY <3>1
  <2>4. command \in Commands
    BY DEF Commands
  <2> QED
    BY <1>1, <1>2, <2>1, <2>3, <2>4, BeginInLine
<1>6. ASSUME NEW c \in Callers, InsertRow(c) PROVE LineInv'
  <2>1. CASE Taken(NewRow(job[c]).version)
    BY <1>1, <1>2, <1>6, <2>1, RefusalKeeps DEF InsertRow
  <2>2. CASE ~Taken(NewRow(job[c]).version)
    BY <1>1, <1>2, <1>6, <2>2, InsertKeeps DEF InsertRow
  <2> QED
    BY <2>1, <2>2
<1>7. ASSUME NEW c \in Callers, Supersede(c) \/ LogChange(c) \/ CutOff(c) PROVE LineInv'
  BY <1>1, <1>2, <1>7, SupersedeKeeps, LogKeeps, CutOffKeeps
<1> QED
  BY <1>3, <1>4, <1>5, <1>6, <1>7 DEF Next

LEMMA Invariance == ASSUME Bounded PROVE Spec => []IInv
  BY InitHolds, StepKeeps, PTL DEF Spec

-------------------------------------------------------------------------------
\* Rows, log and requests stay in their ranges.
THEOREM TypeCorrect == ASSUME Bounded PROVE Spec => []TypeOK
<1>1. IInv => TypeOK
  BY DEF IInv, TInv
<1> QED
  BY <1>1, Invariance, PTL

\* With the index however many requests change one record at the same time,
\* without it as long as no two have: its versions are one line, a second one
\* is active only between two calls of a request or after it was cut off
\* there, every change that was answered is in the newest version, and every
\* row has its one entry in the log.
THEOREM LineHolds == ASSUME Bounded PROVE Spec => []VersionsInLine
<1>1. IInv => VersionsInLine
  BY DEF IInv, LineInv, InLine, VersionsInLine
<1> QED
  BY <1>1, Invariance, PTL
===============================================================================
