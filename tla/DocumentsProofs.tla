---------------------------- MODULE DocumentsProofs ----------------------------
(***************************************************************************)
(* Theorems of Documents: the types for any number of jobs at a time, and  *)
(* the properties of the files and rows for jobs that come one at a time,  *)
(* whatever calls of theirs raise and wherever they are cut off.           *)
(***************************************************************************)
EXTENDS Documents, TLAPS

Edits == {"LOCK", "HOLD", "RELEASE", "TAG"}

Uploading == {"create", "scan", "reread", "describe", "retire", "undo", "restore"}

Steps == {"idle", "edit", "announce", "successor", "remove", "sweep", "mark", "markMissing"}
           \cup Uploading

Job == [command : Commands \cup {None}, doc : Docs \cup {None},
        row : Metadata \cup {Absent}, old : Docs \cup {None}, oldRow : Metadata \cup {Absent},
        rows : SUBSET (Docs \X Metadata), event : Events \cup {None}]

-------------------------------------------------------------------------------
(* Types.  A job has what its next call needs. *)

JobTyped(step, j) ==
  /\ step = "edit" => j.command \in Edits /\ j.doc \in Docs /\ j.row \in Metadata
  /\ step \in Uploading => j.command = "ATTACH"
  /\ j.command = "ATTACH" => j.doc \in Docs /\ (j.old # None => j.oldRow \in Metadata)
  /\ step = "describe" => j.row \in Metadata
  /\ step \in {"retire", "restore"} => j.old # None
  /\ step = "retire" => j.event \in Events
  /\ step \in {"successor", "remove"} => j.doc \in Docs /\ j.command \in {"DELETE", "SWEEP"}
  /\ step \in {"sweep", "mark", "markMissing"} => j.command = "SWEEP"
  /\ step \in {"mark", "markMissing"} => j.doc \in Docs /\ j.row \in Metadata
  /\ step = "announce" => j.doc \in Docs /\ j.event \in Events

TInv ==
  /\ TypeOK
  /\ pc \in [Callers -> Steps]
  /\ job \in [Callers -> Job]
  /\ \A c \in Callers : JobTyped(pc[c], job[c])

\* Whatever a job does, it is a job again.
LEMMA JobMoves ==
  ASSUME TInv, NEW c \in Callers, NEW step \in Steps, NEW j \in Job, JobTyped(step, j),
         pc' = [pc EXCEPT ![c] = step], job' = [job EXCEPT ![c] = j]
  PROVE  /\ pc' \in [Callers -> Steps] /\ job' \in [Callers -> Job]
         /\ \A b \in Callers : JobTyped(pc'[b], job'[b])
         /\ pc'[c] = step /\ job'[c] = j
<1>1. pc' \in [Callers -> Steps] /\ pc'[c] = step /\ \A b \in Callers \ {c} : pc'[b] = pc[b]
  BY DEF TInv
<1>2. job' \in [Callers -> Job] /\ job'[c] = j /\ \A b \in Callers \ {c} : job'[b] = job[b]
  BY DEF TInv
<1> QED
  BY <1>1, <1>2 DEF TInv

\* Types of what is not a job.
StoresTyped ==
  /\ meta \in [Docs -> Metadata \cup {Absent}]
  /\ blob \in [Docs -> SUBSET {"document", "archive"}]
  /\ named \subseteq Docs
  /\ outbox \subseteq Events \X Docs
  /\ handled \in 0..MaxCommands
  /\ failures \in 0..MaxFailures
  /\ crashes \in 0..MaxCrashes
  /\ untold \subseteq Docs

LEMMA TInvSplits ==
  TInv <=> /\ StoresTyped /\ pc \in [Callers -> Steps] /\ job \in [Callers -> Job]
           /\ \A c \in Callers : JobTyped(pc[c], job[c])
BY DEF TInv, TypeOK, StoresTyped, Job

LEMMA RowTyped ==
  /\ Blank \in Metadata
  /\ \A row \in Metadata :
       /\ [row EXCEPT !.locked = TRUE] \in Metadata
       /\ [row EXCEPT !.held = TRUE] \in Metadata
       /\ [row EXCEPT !.held = FALSE] \in Metadata
       /\ [row EXCEPT !.archived = TRUE] \in Metadata
       /\ [row EXCEPT !.current = FALSE] \in Metadata
       /\ \A command \in Edits : Changed(command, row) \in Metadata
       /\ \A d \in Docs : [row EXCEPT !.supersedes = d, !.current = TRUE] \in Metadata
  /\ TInv => \A d \in Docs : Row(d) \in Metadata
<1>1. Blank \in Metadata
  BY DEF Blank, Metadata
<1>2. ASSUME NEW row \in Metadata
      PROVE  /\ [row EXCEPT !.locked = TRUE] \in Metadata
             /\ [row EXCEPT !.held = TRUE] \in Metadata
             /\ [row EXCEPT !.held = FALSE] \in Metadata
             /\ [row EXCEPT !.archived = TRUE] \in Metadata
             /\ [row EXCEPT !.current = FALSE] \in Metadata
             /\ \A d \in Docs : [row EXCEPT !.supersedes = d, !.current = TRUE] \in Metadata
  BY DEF Metadata
<1>3. ASSUME NEW row \in Metadata, NEW command \in Edits
      PROVE  Changed(command, row) \in Metadata
  BY <1>2 DEF Changed
<1>4. TInv => \A d \in Docs : Row(d) \in Metadata
  BY <1>1 DEF TInv, TypeOK, Row
<1> QED
  BY <1>1, <1>2, <1>3, <1>4

LEMMA NewJobTyped ==
  /\ Idle \in Job /\ JobTyped("idle", Idle)
  /\ \A command \in Commands \cup {None}, d \in Docs \cup {None},
        row \in Metadata \cup {Absent} : NewJob(command, d, row) \in Job
BY NoneAssumption DEF Idle, NewJob, Job, JobTyped, Uploading, Commands

LEMMA InitTInv == Init => TInv
<1> SUFFICES ASSUME Init PROVE TInv
  OBVIOUS
<1>1. StoresTyped
  BY BoundsAssumption DEF Init, StoresTyped
<1>2. pc \in [Callers -> Steps] /\ job \in [Callers -> Job]
  BY NewJobTyped DEF Init, Steps
<1>3. \A c \in Callers : JobTyped(pc[c], job[c])
  BY NewJobTyped DEF Init
<1> QED
  BY <1>1, <1>2, <1>3, TInvSplits

\* A job that is done, cut off, or goes on with what it has.
LEMMA JobEnds ==
  ASSUME TInv, NEW c \in Callers, Done(c)
  PROVE  /\ pc' \in [Callers -> Steps] /\ job' \in [Callers -> Job]
         /\ \A b \in Callers : JobTyped(pc'[b], job'[b])
         /\ pc'[c] = "idle" /\ job'[c] = Idle
BY NewJobTyped, JobMoves DEF Done, Goto, Steps

LEMMA JobGoes ==
  ASSUME TInv, NEW c \in Callers, NEW step \in Steps, Goto(c, step), UNCHANGED job,
         JobTyped(step, job[c])
  PROVE  /\ pc' \in [Callers -> Steps] /\ job' \in [Callers -> Job]
         /\ \A b \in Callers : JobTyped(pc'[b], job'[b])
         /\ pc'[c] = step /\ job'[c] = job[c]
<1>1. job' = [job EXCEPT ![c] = job[c]] /\ job[c] \in Job
  BY DEF TInv
<1> QED
  BY <1>1, JobMoves DEF Goto

JobsTyped ==
  /\ pc \in [Callers -> Steps] /\ job \in [Callers -> Job]
  /\ \A c \in Callers : JobTyped(pc[c], job[c])

LEMMA TInvAgain ==
  ASSUME StoresTyped', JobsTyped'
  PROVE  TInv'
BY DEF TInv, TypeOK, StoresTyped, JobsTyped, Job

LEMMA BeginTyped ==
  ASSUME TInv, NEW c \in Callers, NEW step \in Steps, NEW j \in Job, JobTyped(step, j),
         Begin(c, step, j)
  PROVE  JobsTyped' /\ handled' \in 0..MaxCommands
         /\ UNCHANGED <<meta, outbox, failures, crashes, untold>> /\ pc'[c] = step /\ job'[c] = j
<1>1. handled' \in 0..MaxCommands
  BY BoundsAssumption DEF Begin, TInv, TypeOK
<1> QED
  BY <1>1, JobMoves DEF Begin, JobsTyped

LEMMA RequestTyped ==
  ASSUME TInv, NEW c \in Callers, Request(c)
  PROVE  TInv'
<1> USE DEF StoresTyped
<1>0. StoresTyped
  BY TInvSplits
<1>1. ASSUME NEW d \in Docs, NEW command \in Edits, Edit(c, command, d)
      PROVE  TInv'
  <2>1. Row(d) \in Metadata
    BY RowTyped
  <2>2. NewJob(command, d, Row(d)) \in Job
        /\ JobTyped("edit", NewJob(command, d, Row(d)))
    BY <2>1, NewJobTyped DEF NewJob, JobTyped, Edits, Uploading, Commands
  <2>3. JobsTyped' /\ handled' \in 0..MaxCommands /\ UNCHANGED <<meta, outbox, failures, crashes, untold>>
    BY <1>1, <2>2, BeginTyped DEF Edit, Steps
  <2> QED
    BY <1>0, <1>1, <2>3, TInvAgain DEF Edit
<1>2. ASSUME NEW d \in Docs, NEW old \in Docs \cup {None}, Attach(c, d, old)
      PROVE  TInv'
  <2> DEFINE j == [NewJob("ATTACH", d, Absent) EXCEPT
                     !.old = old, !.oldRow = IF old = None THEN Absent ELSE meta[old]]
  <2>1. (IF old = None THEN Absent ELSE meta[old]) \in Metadata \cup {Absent}
        /\ (old # None => meta[old] \in Metadata)
    BY <1>0, <1>2 DEF Attach
  <2>2. NewJob("ATTACH", d, Absent) \in Job
    BY NewJobTyped DEF Commands
  <2>3. j \in Job
    BY <2>1, <2>2 DEF Job
  <2>4. j.command = "ATTACH" /\ j.doc = d /\ j.old = old /\ (old # None => j.oldRow = meta[old])
    BY DEF NewJob
  <2> HIDE DEF j
  <2>5. JobTyped("create", j)
    BY <2>1, <2>4 DEF JobTyped, Uploading
  <2>6. Begin(c, "create", j)
    BY <1>2 DEF Attach, j
  <2>7. JobsTyped' /\ handled' \in 0..MaxCommands /\ UNCHANGED <<meta, outbox, failures, crashes, untold>>
    BY <2>3, <2>5, <2>6, BeginTyped DEF Steps, Uploading
  <2>8. named' \subseteq Docs /\ blob' \in [Docs -> SUBSET {"document", "archive"}]
    BY <1>0, <1>2 DEF Attach
  <2> QED
    BY <1>0, <2>7, <2>8, TInvAgain
<1>3. ASSUME NEW d \in Docs, Delete(c, d)
      PROVE  TInv'
  <2>1. NewJob("DELETE", d, meta[d]) \in Job
        /\ JobTyped("successor", NewJob("DELETE", d, meta[d]))
    BY <1>0, NewJobTyped DEF NewJob, JobTyped, Uploading, Commands
  <2>2. JobsTyped' /\ handled' \in 0..MaxCommands /\ UNCHANGED <<meta, outbox, failures, crashes, untold>>
    BY <1>3, <2>1, BeginTyped DEF Delete, Steps
  <2> QED
    BY <1>0, <1>3, <2>2, TInvAgain DEF Delete
<1>4. ASSUME Sweep(c) PROVE TInv'
  <2> DEFINE rows == {<<d, meta[d]>> : d \in {e \in Docs : meta[e] # Absent}}
             j == [NewJob("SWEEP", None, Absent) EXCEPT !.rows = rows]
  <2>1. rows \subseteq Docs \X Metadata
    BY <1>0
  <2>2. NewJob("SWEEP", None, Absent) \in Job
    BY NewJobTyped DEF Commands
  <2>3. j \in Job /\ j.command = "SWEEP"
    BY <2>1, <2>2 DEF Job, NewJob
  <2> HIDE DEF j
  <2>4. JobTyped("sweep", j)
    BY <2>3 DEF JobTyped, Uploading
  <2>5. Begin(c, "sweep", j)
    BY <1>4 DEF Sweep, j
  <2>6. JobsTyped' /\ handled' \in 0..MaxCommands /\ UNCHANGED <<meta, outbox, failures, crashes, untold>>
    BY <2>3, <2>4, <2>5, BeginTyped DEF Steps
  <2> QED
    BY <1>0, <1>4, <2>6, TInvAgain DEF Sweep
<1> QED
  BY <1>1, <1>2, <1>3, <1>4 DEF Request, Edits

LEMMA PublishTyped ==
  ASSUME StoresTyped, NEW c \in Callers, NEW event \in Events, job[c].doc \in Docs,
         Publish(c, event)
  PROVE  outbox' \subseteq Events \X Docs /\ untold' \subseteq Docs
BY DEF StoresTyped, Publish

\* What the steps of a job write.
LEMMA EditTyped ==
  ASSUME TInv, NEW c \in Callers, WriteEdit(c) \/ Announce(c)
  PROVE  TInv'
<1>0. StoresTyped /\ job[c] \in Job /\ JobTyped(pc[c], job[c])
  BY TInvSplits
<1>1. CASE WriteEdit(c)
  <2> DEFINE event == EventAfter(job[c].command, job[c].row)
             j == [job[c] EXCEPT !.event = event]
  <2>1. job[c].command \in Edits /\ job[c].doc \in Docs /\ job[c].row \in Metadata
    BY <1>0, <1>1 DEF WriteEdit, JobTyped
  <2>2. Changed(job[c].command, job[c].row) \in Metadata
    BY <2>1, RowTyped
  <2>3. event \in Events \cup {None}
    BY <2>1 DEF EventAfter, Events
  <2>4. StoresTyped'
    BY <1>0, <1>1, <2>1, <2>2 DEF StoresTyped, WriteEdit, WriteRow
  <2>5. CASE event = None
    BY <1>1, <2>4, <2>5, JobEnds, TInvAgain DEF WriteEdit, JobsTyped
  <2>6. CASE event # None
    <3>1. j \in Job
      BY <1>0, <2>3 DEF Job
    <3>2. j.doc = job[c].doc /\ j.event = event /\ j.command = job[c].command
      BY <3>1, <1>0 DEF Job
    <3>3. pc' = [pc EXCEPT ![c] = "announce"] /\ job' = [job EXCEPT ![c] = j]
      BY <1>1, <2>6 DEF WriteEdit, Goto
    <3> HIDE DEF j
    <3>4. JobTyped("announce", j)
      BY <2>1, <2>3, <2>6, <3>2 DEF JobTyped, Uploading, Edits
    <3>5. JobsTyped'
      BY <3>1, <3>3, <3>4, JobMoves DEF JobsTyped, Steps
    <3> QED
      BY <2>4, <3>5, TInvAgain
  <2> QED
    BY <2>5, <2>6
<1>2. CASE Announce(c)
  <2>1. job[c].doc \in Docs /\ job[c].event \in Events
    BY <1>0, <1>2 DEF Announce, JobTyped
  <2>2. StoresTyped'
    BY <1>0, <1>2, <2>1, PublishTyped DEF StoresTyped, Announce
  <2>3. CASE job[c].command = "SWEEP"
    <3>1. JobTyped("sweep", job[c])
      BY <2>3 DEF JobTyped, Uploading
    <3>2. Goto(c, "sweep") /\ UNCHANGED job
      BY <1>2, <2>3 DEF Announce
    <3> QED
      BY <2>2, <3>1, <3>2, JobGoes, TInvAgain DEF JobsTyped, Steps
  <2>4. CASE job[c].command # "SWEEP"
    BY <1>2, <2>2, <2>4, JobEnds, TInvAgain DEF Announce, JobsTyped
  <2> QED
    BY <2>3, <2>4
<1> QED
  BY <1>1, <1>2

LEMMA UploadTyped ==
  ASSUME TInv, NEW c \in Callers, Create(c) \/ Reread(c) \/ Describe(c) \/ Retire(c)
  PROVE  TInv'
<1>0. StoresTyped /\ job[c] \in Job /\ JobTyped(pc[c], job[c])
  BY TInvSplits
<1>00. job[c].command = "ATTACH" /\ job[c].doc \in Docs
       /\ (job[c].old # None => job[c].old \in Docs /\ job[c].oldRow \in Metadata)
  BY <1>0 DEF JobTyped, Uploading, Job, Create, Reread, Describe, Retire
<1>1. CASE Create(c)
  <2>1. StoresTyped'
    BY <1>0, <1>00, <1>1, RowTyped DEF StoresTyped, Create, WriteRow
  <2>2. JobTyped("scan", job[c])
    BY <1>00 DEF JobTyped, Uploading
  <2> QED
    BY <1>1, <2>1, <2>2, JobGoes, TInvAgain DEF Create, JobsTyped, Steps, Uploading
<1>2. CASE Reread(c)
  <2> DEFINE j == [job[c] EXCEPT !.row = Row(job[c].doc)]
  <2>1. Row(job[c].doc) \in Metadata
    BY <1>00, RowTyped
  <2>2. j \in Job
    BY <1>0, <2>1 DEF Job
  <2>3. j.doc = job[c].doc /\ j.old = job[c].old /\ j.oldRow = job[c].oldRow
        /\ j.row \in Metadata /\ j.command = "ATTACH"
    BY <1>0, <1>00, <2>1 DEF Job
  <2>4. pc' = [pc EXCEPT ![c] = "describe"] /\ job' = [job EXCEPT ![c] = j]
    BY <1>2 DEF Reread, Goto
  <2> HIDE DEF j
  <2>5. JobTyped("describe", j)
    BY <1>00, <2>3 DEF JobTyped, Uploading
  <2>6. JobsTyped'
    BY <2>2, <2>4, <2>5, JobMoves DEF JobsTyped, Steps, Uploading
  <2>7. StoresTyped'
    BY <1>0, <1>2 DEF StoresTyped, Reread
  <2> QED
    BY <2>6, <2>7, TInvAgain
<1>3. CASE Describe(c)
  <2> DEFINE old == job[c].old
             row == IF old = None THEN job[c].row
                    ELSE [job[c].row EXCEPT !.supersedes = old, !.current = TRUE]
             step == IF old = None THEN "announce" ELSE "retire"
             j == [job[c] EXCEPT !.event = "DOCUMENT_UPLOADED"]
  <2>1. row \in Metadata
    BY <1>0, <1>00, <1>3, RowTyped DEF Describe, JobTyped
  <2>2. StoresTyped'
    BY <1>0, <1>00, <1>3, <2>1 DEF StoresTyped, Describe, WriteRow
  <2>3. j \in Job
    BY <1>0 DEF Job, Events
  <2>4. j.doc = job[c].doc /\ j.old = job[c].old /\ j.oldRow = job[c].oldRow
        /\ j.event \in Events /\ j.command = "ATTACH"
    BY <1>0, <1>00 DEF Job, Events
  <2>5. pc' = [pc EXCEPT ![c] = step] /\ job' = [job EXCEPT ![c] = j]
    BY <1>3 DEF Describe, Goto
  <2> HIDE DEF j
  <2>6. JobTyped(step, j)
    BY <1>00, <2>4 DEF JobTyped, Uploading
  <2>7. JobsTyped'
    BY <2>3, <2>5, <2>6, JobMoves DEF JobsTyped, Steps, Uploading
  <2> QED
    BY <2>2, <2>7, TInvAgain
<1>4. CASE Retire(c)
  <2>1. job[c].old # None
    BY <1>0, <1>4 DEF Retire, JobTyped
  <2>2. [job[c].oldRow EXCEPT !.current = FALSE] \in Metadata
    BY <1>00, <2>1, RowTyped
  <2>3. StoresTyped'
    BY <1>0, <1>00, <1>4, <2>1, <2>2 DEF StoresTyped, Retire, WriteRow
  <2>4. JobTyped("announce", job[c])
    BY <1>0, <1>00, <1>4 DEF JobTyped, Uploading, Retire
  <2> QED
    BY <1>4, <2>3, <2>4, JobGoes, TInvAgain DEF Retire, JobsTyped, Steps
<1> QED
  BY <1>1, <1>2, <1>3, <1>4

LEMMA ScanTyped ==
  ASSUME TInv, NEW c \in Callers, AnnounceScan(c) \/ RaiseScan(c)
  PROVE  TInv'
<1>0. StoresTyped /\ job[c] \in Job /\ JobTyped(pc[c], job[c])
  BY TInvSplits
<1>00. job[c].command = "ATTACH" /\ job[c].doc \in Docs
       /\ (job[c].old # None => job[c].oldRow \in Metadata)
  BY <1>0 DEF JobTyped, Uploading, AnnounceScan, RaiseScan
<1>1. CASE AnnounceScan(c)
  <2>1. StoresTyped'
    BY <1>0, <1>00, <1>1, PublishTyped DEF StoresTyped, AnnounceScan, Events
  <2>2. JobTyped("reread", job[c])
    BY <1>00 DEF JobTyped, Uploading
  <2> QED
    BY <1>1, <2>1, <2>2, JobGoes, TInvAgain DEF AnnounceScan, JobsTyped, Steps, Uploading
<1>2. CASE RaiseScan(c)
  <2>1. StoresTyped'
    BY <1>0, <1>00, <1>2, BoundsAssumption DEF StoresTyped, RaiseScan
  <2> QED
    BY <1>2, <2>1, JobEnds, TInvAgain DEF RaiseScan, JobsTyped
<1> QED
  BY <1>1, <1>2

LEMMA UndoTyped ==
  ASSUME TInv, NEW c \in Callers, Raise(c) \/ Undo(c) \/ Restore(c)
  PROVE  TInv'
<1>0. StoresTyped /\ job[c] \in Job /\ JobTyped(pc[c], job[c])
  BY TInvSplits
<1>00. job[c].command = "ATTACH" /\ job[c].doc \in Docs
       /\ (job[c].old # None => job[c].old \in Docs /\ job[c].oldRow \in Metadata)
  BY <1>0 DEF JobTyped, Uploading, Job, Raise, Undo, Restore
<1>1. CASE Raise(c)
  <2>1. pc[c] = "announce" => job[c].event \in Events
    BY <1>0 DEF JobTyped
  <2>2. failures' \in 0..MaxFailures /\ crashes' \in 0..MaxCrashes
    BY <1>0, <1>1, BoundsAssumption DEF StoresTyped, Raise
  <2>3. meta' \in [Docs -> Metadata \cup {Absent}] /\ outbox' \subseteq Events \X Docs
    <3>1. CASE UNCHANGED <<meta, outbox>>
      BY <1>0, <3>1 DEF StoresTyped
    <3>2. CASE WriteRow(job[c].doc, Blank) /\ UNCHANGED outbox
      BY <1>0, <3>2, RowTyped DEF StoresTyped, WriteRow
    <3>3. CASE pc[c] = "announce" /\ outbox' = outbox \cup {<<job[c].event, job[c].doc>>}
               /\ UNCHANGED meta
      BY <1>0, <1>00, <2>1, <3>3 DEF StoresTyped
    <3> QED
      BY <1>1, <3>1, <3>2, <3>3 DEF Raise
  <2>4. StoresTyped'
    BY <1>0, <1>1, <2>2, <2>3 DEF StoresTyped, Raise
  <2>5. JobTyped("undo", job[c])
    BY <1>00 DEF JobTyped, Uploading
  <2>6. JobsTyped'
    <3>1. CASE pc[c] = "create"
      BY <1>1, <3>1, JobEnds DEF Raise, JobsTyped
    <3>2. CASE pc[c] # "create"
      BY <1>1, <2>5, <3>2, JobGoes DEF Raise, JobsTyped, Steps, Uploading
    <3> QED
      BY <3>1, <3>2
  <2> QED
    BY <2>4, <2>6, TInvAgain
<1>2. CASE Undo(c)
  <2>1. StoresTyped'
    BY <1>0, <1>00, <1>2 DEF StoresTyped, Undo, WriteRow
  <2>2. JobsTyped'
    <3>1. CASE job[c].old = None
      BY <1>2, <3>1, JobEnds DEF Undo, JobsTyped
    <3>2. CASE job[c].old # None
      <4>1. JobTyped("restore", job[c])
        BY <1>00, <3>2 DEF JobTyped, Uploading
      <4> QED
        BY <1>2, <3>2, <4>1, JobGoes DEF Undo, JobsTyped, Steps, Uploading
    <3> QED
      BY <3>1, <3>2
  <2> QED
    BY <2>1, <2>2, TInvAgain
<1>3. CASE Restore(c)
  <2>1. job[c].old # None
    BY <1>0, <1>3 DEF Restore, JobTyped
  <2>2. StoresTyped'
    BY <1>0, <1>00, <1>3, <2>1 DEF StoresTyped, Restore, WriteRow
  <2> QED
    BY <1>3, <2>2, JobEnds, TInvAgain DEF Restore, JobsTyped
<1> QED
  BY <1>1, <1>2, <1>3

LEMMA RemovalTyped ==
  ASSUME TInv, NEW c \in Callers, DeleteBytes(c) \/ RemoveRow(c)
  PROVE  TInv'
<1>0. StoresTyped /\ job[c] \in Job /\ JobTyped(pc[c], job[c])
  BY TInvSplits
<1>00. job[c].doc \in Docs
  BY <1>0 DEF JobTyped, DeleteBytes, RemoveRow
<1>1. CASE DeleteBytes(c)
  <2>1. StoresTyped'
    BY <1>0, <1>00, <1>1 DEF StoresTyped, DeleteBytes
  <2>2. JobTyped("remove", job[c])
    BY <1>0, <1>00, <1>1 DEF JobTyped, Uploading, DeleteBytes
  <2>3. CASE Done(c)
    BY <2>1, <2>3, JobEnds, TInvAgain DEF JobsTyped
  <2>4. CASE Goto(c, "remove") /\ UNCHANGED job
    BY <2>1, <2>2, <2>4, JobGoes, TInvAgain DEF JobsTyped, Steps
  <2> QED
    BY <1>1, <2>3, <2>4 DEF DeleteBytes
<1>2. CASE RemoveRow(c)
  <2> DEFINE j == [job[c] EXCEPT !.event = "DOCUMENT_DELETED"]
  <2>1. StoresTyped'
    BY <1>0, <1>00, <1>2 DEF StoresTyped, RemoveRow, WriteRow
  <2>2. j \in Job
    BY <1>0 DEF Job, Events
  <2>3. j.doc = job[c].doc /\ j.old = job[c].old /\ j.oldRow = job[c].oldRow
        /\ j.event \in Events /\ j.command = job[c].command
    BY <1>0 DEF Job, Events
  <2>4. pc' = [pc EXCEPT ![c] = "announce"] /\ job' = [job EXCEPT ![c] = j]
    BY <1>2 DEF RemoveRow, Goto
  <2> HIDE DEF j
  <2>5. JobTyped("announce", j)
    BY <1>0, <1>00, <2>3 DEF JobTyped, Uploading
  <2>6. JobsTyped'
    BY <2>2, <2>4, <2>5, JobMoves DEF JobsTyped, Steps
  <2> QED
    BY <2>1, <2>6, TInvAgain
<1> QED
  BY <1>1, <1>2

\* What the sweep does with a row it has fetched.
LEMMA JudgedTyped ==
  ASSUME TInv, NEW c \in Callers, NEW step \in {"mark", "markMissing", "remove"},
         pc[c] = "sweep", NEW r \in job[c].rows, Goto(c, step), Judge(c, r)
  PROVE  JobsTyped' /\ r[1] \in Docs /\ r[2] \in Metadata
<1> DEFINE j == [job[c] EXCEPT !.rows = @ \ {r}, !.doc = r[1], !.row = r[2], !.event = None]
<1>1. job[c] \in Job /\ JobTyped("sweep", job[c])
  BY TInvSplits
<1>2. r \in Docs \X Metadata
  BY <1>1 DEF Job
<1>3. r[1] \in Docs /\ r[2] \in Metadata
  BY <1>2
<1>4. j \in Job
  BY <1>1, <1>3 DEF Job
<1>5. j.doc = r[1] /\ j.row = r[2] /\ j.command = "SWEEP"
  BY <1>1, <1>4 DEF Job, JobTyped
<1>6. pc' = [pc EXCEPT ![c] = step] /\ job' = [job EXCEPT ![c] = j]
  BY DEF Goto, Judge
<1> HIDE DEF j
<1>7. JobTyped(step, j)
  BY <1>3, <1>5 DEF JobTyped, Uploading
<1>8. JobsTyped'
  BY <1>4, <1>6, <1>7, JobMoves DEF JobsTyped, Steps
<1> QED
  BY <1>3, <1>8

LEMMA SweepTyped ==
  ASSUME TInv, NEW c \in Callers, NEW r \in job[c].rows,
         SkipRow(c, r) \/ Archive(c, r) \/ Purge(c, r)
  PROVE  TInv'
<1>0. StoresTyped /\ job[c] \in Job /\ JobTyped(pc[c], job[c])
  BY TInvSplits
<1>1. CASE SkipRow(c, r)
  <2> DEFINE j == [job[c] EXCEPT !.rows = @ \ {r}]
  <2>1. j \in Job
    BY <1>0 DEF Job
  <2>2. j.command = "SWEEP"
    BY <1>0, <1>1 DEF Job, JobTyped, SkipRow
  <2>3. pc' = [pc EXCEPT ![c] = "sweep"] /\ job' = [job EXCEPT ![c] = j]
    BY <1>1, TInvSplits DEF SkipRow
  <2> HIDE DEF j
  <2>4. JobTyped("sweep", j)
    BY <2>2 DEF JobTyped, Uploading
  <2>5. JobsTyped'
    BY <2>1, <2>3, <2>4, JobMoves DEF JobsTyped, Steps
  <2>6. StoresTyped'
    BY <1>0, <1>1 DEF StoresTyped, SkipRow
  <2> QED
    BY <2>5, <2>6, TInvAgain
<1>2. CASE Archive(c, r)
  <2>1. JobsTyped' /\ r[1] \in Docs
    BY <1>2, JudgedTyped DEF Archive
  <2>2. StoresTyped'
    BY <1>0, <1>2, <2>1 DEF StoresTyped, Archive
  <2> QED
    BY <2>1, <2>2, TInvAgain
<1>3. CASE Purge(c, r)
  <2>1. JobsTyped' /\ r[1] \in Docs
    BY <1>3, JudgedTyped DEF Purge
  <2>2. StoresTyped'
    BY <1>0, <1>3, <2>1 DEF StoresTyped, Purge
  <2> QED
    BY <2>1, <2>2, TInvAgain
<1> QED
  BY <1>1, <1>2, <1>3

LEMMA MarkTyped ==
  ASSUME TInv, NEW c \in Callers, MarkArchived(c) \/ SweepEnds(c) \/ CutOff(c)
  PROVE  TInv'
<1>0. StoresTyped /\ job[c] \in Job /\ JobTyped(pc[c], job[c])
  BY TInvSplits
<1>1. CASE MarkArchived(c)
  <2> DEFINE j == [job[c] EXCEPT !.event = "DOCUMENT_ARCHIVED"]
             step == IF pc[c] = "mark" THEN "announce" ELSE "sweep"
  <2>1. job[c].command = "SWEEP" /\ job[c].doc \in Docs /\ job[c].row \in Metadata
    BY <1>0, <1>1 DEF MarkArchived, JobTyped
  <2>2. [job[c].row EXCEPT !.archived = TRUE] \in Metadata
    BY <2>1, RowTyped
  <2>3. StoresTyped'
    BY <1>0, <1>1, <2>1, <2>2 DEF StoresTyped, MarkArchived, WriteRow
  <2>4. j \in Job
    BY <1>0 DEF Job, Events
  <2>5. j.doc = job[c].doc /\ j.event \in Events /\ j.command = "SWEEP"
    BY <1>0, <2>1 DEF Job, Events
  <2>6. pc' = [pc EXCEPT ![c] = step] /\ job' = [job EXCEPT ![c] = j]
    BY <1>1 DEF MarkArchived, Goto
  <2> HIDE DEF j
  <2>7. JobTyped(step, j)
    BY <2>1, <2>5 DEF JobTyped, Uploading
  <2>8. JobsTyped'
    BY <2>4, <2>6, <2>7, JobMoves DEF JobsTyped, Steps
  <2> QED
    BY <2>3, <2>8, TInvAgain
<1>2. CASE SweepEnds(c)
  <2>1. StoresTyped'
    BY <1>0, <1>2 DEF StoresTyped, SweepEnds
  <2> QED
    BY <1>2, <2>1, JobEnds, TInvAgain DEF SweepEnds, JobsTyped
<1>3. CASE CutOff(c)
  <2>1. \A r \in job[c].rows : r[1] \in Docs
    BY <1>0 DEF Job
  <2>2. blob' \in [Docs -> SUBSET {"document", "archive"}]
    BY <1>0, <1>3, <2>1 DEF StoresTyped, CutOff
  <2>3. crashes' \in 0..MaxCrashes
    BY <1>0, <1>3, BoundsAssumption DEF StoresTyped, CutOff
  <2>4. StoresTyped'
    BY <1>0, <1>3, <2>2, <2>3 DEF StoresTyped, CutOff
  <2> QED
    BY <1>3, <2>4, JobEnds, TInvAgain DEF CutOff, JobsTyped
<1> QED
  BY <1>1, <1>2, <1>3

LEMMA StepTInv ==
  ASSUME TInv, [Next]_vars
  PROVE  TInv'
<1>1. CASE UNCHANGED vars
  BY <1>1 DEF vars, TInv, TypeOK
<1>2. CASE Next
  <2>1. PICK c \in Callers :
          \/ Request(c)
          \/ WriteEdit(c) \/ Announce(c)
          \/ Create(c) \/ AnnounceScan(c) \/ RaiseScan(c)
          \/ Reread(c) \/ Describe(c) \/ Retire(c)
          \/ Raise(c) \/ Undo(c) \/ Restore(c)
          \/ DeleteBytes(c) \/ RemoveRow(c)
          \/ \E r \in job[c].rows : SkipRow(c, r) \/ Archive(c, r) \/ Purge(c, r)
          \/ MarkArchived(c) \/ SweepEnds(c) \/ CutOff(c)
    BY <1>2 DEF Next
  <2> QED
    BY <2>1, RequestTyped, EditTyped, UploadTyped, ScanTyped, UndoTyped, RemovalTyped, SweepTyped, MarkTyped
<1> QED
  BY <1>1, <1>2

\* Every row, bucket, event and job stays of its type: a job that writes a row
\* back has one, and the sweep archives and removes rows only.  For any number
\* of jobs at a time.
THEOREM TypeCorrect == Spec => []TypeOK
<1>1. Init => TInv
  BY InitTInv
<1>2. TInv /\ [Next]_vars => TInv'
  BY StepTInv
<1>3. TInv => TypeOK
  BY DEF TInv
<1> QED
  BY <1>1, <1>2, <1>3, PTL DEF Spec

-------------------------------------------------------------------------------
(* One job at a time. *)

OneAtATime == \E c : Callers = {c}

\* What is in the database has a name that was given out, and a version
\* supersedes another one.
Named ==
  /\ \A d \in Docs : meta[d] # Absent \/ blob[d] # {} => d \in named
  /\ \A d \in Docs : meta[d] # Absent /\ meta[d].supersedes # None
                       => meta[d].supersedes \in named \ {d}
  /\ \A p \in outbox : p[2] \in named

Described(j) == [held |-> FALSE, locked |-> FALSE, archived |-> FALSE, current |-> TRUE,
                 supersedes |-> j.old]
Retired(row) == [row EXCEPT !.current = FALSE]

\* The document of an upload is new to everybody, and the version it
\* supersedes is as the job has left it.
UploadAlone(step, j) ==
  /\ j.doc \in named /\ ~HasSuccessor(j.doc)
  /\ j.old # j.doc
  /\ step = "create" => meta[j.doc] = Absent
  /\ step \in {"scan", "reread", "describe"} => meta[j.doc] = Blank
  /\ step = "describe" => j.row = Blank
  /\ step \in {"retire", "announce"} => meta[j.doc] = Described(j) /\ j.event = "DOCUMENT_UPLOADED"
  /\ step = "undo" => meta[j.doc] \in {Blank, Described(j)}
  /\ step = "restore" => meta[j.doc] = Absent
  /\ j.old # None =>
       /\ j.old \in named /\ Replaceable(j.oldRow)
       /\ step \in {"create", "scan", "reread", "describe", "retire"} => meta[j.old] = j.oldRow
       /\ step = "announce" => meta[j.old] = Retired(j.oldRow)
       /\ step \in {"undo", "restore"} => meta[j.old] \in {j.oldRow, Retired(j.oldRow)}

\* What a job has read is in the database until it writes it.
ReadIsCurrent(step, j) ==
  /\ step = "edit" => "document" \in blob[j.doc] /\ j.row = Row(j.doc)
  /\ step = "successor" => j.row = meta[j.doc] /\ "document" \in blob[j.doc] /\ Replaceable(Row(j.doc))
  /\ step \in {"remove", "announce"} => j.doc \in named
  /\ step = "remove" => ~Has(j.doc, "held")
       /\ (meta[j.doc] # Absent =>
             meta[j.doc].archived \/ (~meta[j.doc].locked /\ ~HasSuccessor(j.doc)))
  /\ step \in {"mark", "markMissing"} => meta[j.doc] = j.row /\ ~j.row.held
  /\ j.command = "SWEEP" =>
       \A r \in j.rows : meta[r[1]] = r[2] /\ (step # "sweep" => r[1] # j.doc)

JobInv(step, j) ==
  /\ j.command = "ATTACH" => UploadAlone(step, j)
  /\ ReadIsCurrent(step, j)

DInv ==
  /\ TInv
  /\ Named
  /\ \A c \in Callers : JobInv(pc[c], job[c])

\* What a step has to show for the only job there is.
LEMMA DInvAgain ==
  ASSUME OneAtATime, NEW c \in Callers, TInv', Named', JobInv(pc[c], job[c])'
  PROVE  DInv'
<1>1. \A b \in Callers : b = c
  BY DEF OneAtATime
<1> QED
  BY <1>1 DEF DInv

\* A job that is done asks nothing of the stores.
LEMMA DInvAtRest ==
  ASSUME OneAtATime, NEW c \in Callers, TInv, TInv', Named', Done(c)
  PROVE  DInv'
<1>1. pc'[c] = "idle" /\ job'[c] = Idle
  BY JobEnds
<1>2. job'[c].command = None /\ job'[c].rows = {}
  BY <1>1 DEF Idle, NewJob
<1>3. JobInv(pc[c], job[c])'
  BY <1>1, <1>2, NoneAssumption DEF JobInv, UploadAlone, ReadIsCurrent, Commands
<1> QED
  BY <1>3, DInvAgain

LEMMA DInvFacts ==
  ASSUME DInv, NEW c \in Callers
  PROVE  /\ StoresTyped /\ job[c] \in Job /\ JobTyped(pc[c], job[c])
         /\ Named /\ JobInv(pc[c], job[c])
         /\ pc \in [Callers -> Steps] /\ job \in [Callers -> Job]
BY TInvSplits DEF DInv

LEMMA InitDInv == Init => DInv
<1> SUFFICES ASSUME Init PROVE DInv
  OBVIOUS
<1>1. Named
  BY DEF Init, Named
<1>2. ASSUME NEW c \in Callers PROVE JobInv(pc[c], job[c])
  <2>1. pc[c] = "idle" /\ job[c].command = None /\ job[c].rows = {}
    BY DEF Init, Idle, NewJob
  <2> QED
    BY <2>1, NoneAssumption DEF JobInv, UploadAlone, ReadIsCurrent, Commands
<1> QED
  BY <1>1, <1>2, InitTInv DEF DInv

\* Writing a row on does not change what it supersedes.
LEMMA SuccessorsStay ==
  ASSUME StoresTyped, NEW d \in Docs, NEW row \in Metadata, WriteRow(d, row),
         row.supersedes = Row(d).supersedes, Named, d \in named
  PROVE  /\ \A x \in Docs : HasSuccessor(x)' <=> HasSuccessor(x)
         /\ \A e \in Docs : meta'[e] # Absent => e \in named
         /\ \A e \in Docs : meta'[e] # Absent /\ meta'[e].supersedes # None
                              => meta'[e].supersedes \in named \ {e}
<1>1. meta'[d] = row /\ \A e \in Docs \ {d} : meta'[e] = meta[e]
  BY DEF WriteRow, StoresTyped
<1>2. row # Absent
  BY AbsentAssumption
<1>3. row.supersedes = IF meta[d] = Absent THEN None ELSE meta[d].supersedes
  BY DEF Row, Blank
<1>4. \A e, x \in Docs :
        (meta'[e] # Absent /\ meta'[e].supersedes = x) <=> (meta[e] # Absent /\ meta[e].supersedes = x)
  BY <1>1, <1>2, <1>3, DocsAssumption
<1>5. \A x \in Docs : HasSuccessor(x)' <=> HasSuccessor(x)
  BY <1>4 DEF HasSuccessor
<1> QED
  BY <1>1, <1>2, <1>3, <1>5 DEF Named

LEMMA RequestDInv ==
  ASSUME OneAtATime, DInv, NEW c \in Callers, Request(c), TInv'
  PROVE  DInv'
<1>0. StoresTyped /\ Named /\ TInv
  BY DInvFacts DEF DInv
<1>1. ASSUME NEW d \in Docs, NEW command \in Edits, Edit(c, command, d)
      PROVE  DInv'
  <2> DEFINE j == NewJob(command, d, Row(d))
  <2>1. pc'[c] = "edit" /\ job'[c] = j
    BY <1>0, <1>1 DEF Edit, Begin, TInv
  <2>2. UNCHANGED <<meta, outbox, blob, named>> /\ "document" \in blob[d]
    BY <1>1 DEF Edit, Begin
  <2>3. j.command \in Edits /\ j.doc = d /\ j.row = Row(d)
    BY DEF NewJob
  <2> HIDE DEF j
  <2>4. JobInv(pc[c], job[c])'
    BY <2>1, <2>2, <2>3 DEF JobInv, ReadIsCurrent, Edits, Row
  <2>5. Named'
    BY <1>0, <2>2 DEF Named
  <2> QED
    BY <2>4, <2>5, DInvAgain
<1>2. ASSUME NEW d \in Docs, NEW old \in Docs \cup {None}, Attach(c, d, old)
      PROVE  DInv'
  <2> DEFINE j == [NewJob("ATTACH", d, Absent) EXCEPT
                     !.old = old, !.oldRow = IF old = None THEN Absent ELSE meta[old]]
  <2>1. pc'[c] = "create" /\ job'[c] = j
    BY <1>0, <1>2 DEF Attach, Begin, TInv
  <2>2. UNCHANGED <<meta, outbox>> /\ d \notin named /\ named' = named \cup {d}
        /\ blob' = [blob EXCEPT ![d] = {"document"}]
        /\ (old # None => meta[old] # Absent /\ Replaceable(meta[old]))
    BY <1>2 DEF Attach, Begin
  <2>3. j.command = "ATTACH" /\ j.doc = d /\ j.old = old /\ (old # None => j.oldRow = meta[old])
    BY DEF NewJob
  <2> HIDE DEF j
  <2>4. meta[d] = Absent /\ ~HasSuccessor(d)
    BY <1>0, <2>2, DocsAssumption DEF Named, HasSuccessor
  <2>5. old # d /\ (old # None => old \in named)
    BY <1>0, <2>2, DocsAssumption DEF Named
  <2>6. job'[c].command = "ATTACH" /\ job'[c].doc = d /\ job'[c].old = old
        /\ (old # None => job'[c].oldRow = meta[old])
    BY <2>1, <2>3
  <2>7. UploadAlone(pc[c], job[c])'
    BY <2>1, <2>2, <2>4, <2>5, <2>6 DEF UploadAlone, HasSuccessor
  <2>8. JobInv(pc[c], job[c])'
    BY <2>1, <2>6, <2>7 DEF JobInv, ReadIsCurrent
  <2>9. Named'
    BY <1>0, <2>2 DEF Named, StoresTyped
  <2> QED
    BY <2>8, <2>9, DInvAgain
<1>3. ASSUME NEW d \in Docs, Delete(c, d)
      PROVE  DInv'
  <2> DEFINE j == NewJob("DELETE", d, meta[d])
  <2>1. pc'[c] = "successor" /\ job'[c] = j
    BY <1>0, <1>3 DEF Delete, Begin, TInv
  <2>2. UNCHANGED <<meta, outbox, blob, named>> /\ "document" \in blob[d] /\ Replaceable(Row(d))
    BY <1>3 DEF Delete, Begin
  <2>3. j.command = "DELETE" /\ j.doc = d /\ j.row = meta[d]
    BY DEF NewJob
  <2> HIDE DEF j
  <2>4. JobInv(pc[c], job[c])'
    BY <2>1, <2>2, <2>3 DEF JobInv, ReadIsCurrent, Row
  <2>5. Named'
    BY <1>0, <2>2 DEF Named
  <2> QED
    BY <2>4, <2>5, DInvAgain
<1>4. ASSUME Sweep(c) PROVE DInv'
  <2> DEFINE rows == {<<d, meta[d]>> : d \in {e \in Docs : meta[e] # Absent}}
             j == [NewJob("SWEEP", None, Absent) EXCEPT !.rows = rows]
  <2>1. pc'[c] = "sweep" /\ job'[c] = j
    BY <1>0, <1>4 DEF Sweep, Begin, TInv
  <2>2. UNCHANGED <<meta, outbox, blob, named>>
    BY <1>4 DEF Sweep, Begin
  <2>3. j.command = "SWEEP" /\ \A r \in j.rows : meta[r[1]] = r[2]
    BY DEF NewJob
  <2> HIDE DEF j
  <2>4. JobInv(pc[c], job[c])'
    BY <2>1, <2>2, <2>3 DEF JobInv, ReadIsCurrent
  <2>5. Named'
    BY <1>0, <2>2 DEF Named
  <2> QED
    BY <2>4, <2>5, DInvAgain
<1> QED
  BY <1>1, <1>2, <1>3, <1>4 DEF Request, Edits

\* The row an edit writes is the one it has read, with its change.
LEMMA EditWrites ==
  ASSUME DInv, NEW c \in Callers, WriteEdit(c)
  PROVE  LET d == job[c].doc
             row == Changed(job[c].command, Row(d))
         IN  /\ d \in Docs /\ d \in named /\ "document" \in blob[d]
             /\ job[c].command \in Edits
             /\ WriteRow(d, row) /\ row \in Metadata
             /\ row.supersedes = Row(d).supersedes
             /\ row.archived = Row(d).archived /\ row.current = Row(d).current
             /\ row.locked = (Row(d).locked \/ job[c].command = "LOCK")
<1> DEFINE d == job[c].doc
           row == Changed(job[c].command, Row(d))
<1>1. pc[c] = "edit" /\ JobTyped("edit", job[c]) /\ JobInv("edit", job[c]) /\ Named /\ StoresTyped
  BY DInvFacts DEF WriteEdit
<1>2. d \in Docs /\ job[c].command \in Edits /\ "document" \in blob[d] /\ job[c].row = Row(d)
  BY <1>1 DEF JobTyped, JobInv, ReadIsCurrent
<1>3. WriteRow(d, row)
  BY <1>2 DEF WriteEdit
<1>4. row \in Metadata /\ Row(d) \in Metadata
  BY <1>2, RowTyped DEF DInv
<1>5. d \in named
  BY <1>1, <1>2 DEF Named
<1> HIDE DEF d
<1>6. Row(d) \in Metadata =>
        /\ row.supersedes = Row(d).supersedes /\ row.archived = Row(d).archived
        /\ row.current = Row(d).current /\ row.locked = (Row(d).locked \/ job[c].command = "LOCK")
  BY <1>2 DEF Changed, Edits, Metadata
<1> QED
  BY <1>2, <1>3, <1>4, <1>5, <1>6 DEF d

LEMMA EditDInv ==
  ASSUME OneAtATime, DInv, NEW c \in Callers, WriteEdit(c) \/ Announce(c), TInv'
  PROVE  DInv'
<1>0. StoresTyped /\ Named /\ TInv /\ JobTyped(pc[c], job[c]) /\ JobInv(pc[c], job[c])
  BY DInvFacts DEF DInv
<1>1. CASE WriteEdit(c)
  <2> DEFINE d == job[c].doc
  <2>1. Named'
    <3>1. PICK row \in Metadata :
             d \in Docs /\ d \in named /\ WriteRow(d, row) /\ row.supersedes = Row(d).supersedes
      BY <1>1, EditWrites
    <3>2. UNCHANGED <<blob, named, outbox>>
      BY <1>1 DEF WriteEdit
    <3> QED
      BY <1>0, <3>1, <3>2, SuccessorsStay DEF Named
  <2>2. job[c].command \in Edits /\ d \in named
    BY <1>1, EditWrites
  <2>3. CASE EventAfter(job[c].command, job[c].row) = None
    BY <1>0, <1>1, <2>1, <2>3, DInvAtRest DEF WriteEdit
  <2>4. CASE EventAfter(job[c].command, job[c].row) # None
    <3>1. pc'[c] = "announce" /\ job'[c].command = job[c].command /\ job'[c].doc = d
          /\ UNCHANGED named
      BY <1>0, <1>1, <2>4 DEF WriteEdit, Goto, TInv, Job
    <3>2. JobInv(pc[c], job[c])'
      BY <2>2, <3>1 DEF JobInv, ReadIsCurrent, Edits
    <3> QED
      BY <2>1, <3>2, DInvAgain
  <2> QED
    BY <2>3, <2>4
<1>2. CASE Announce(c)
  <2>1. pc[c] = "announce" /\ UNCHANGED <<meta, blob, named>>
        /\ outbox' \subseteq outbox \cup {<<job[c].event, job[c].doc>>}
    BY <1>2 DEF Announce, Publish
  <2>2. job[c].doc \in named
    BY <1>0, <2>1 DEF JobInv, ReadIsCurrent
  <2>3. Named'
    BY <1>0, <2>1, <2>2 DEF Named
  <2>4. CASE job[c].command = "SWEEP"
    <3>1. pc'[c] = "sweep" /\ UNCHANGED job
      BY <1>0, <1>2, <2>4 DEF Announce, Goto, TInv
    <3>2. JobInv(pc[c], job[c])'
      BY <1>0, <2>1, <2>4, <3>1 DEF JobInv, ReadIsCurrent
    <3> QED
      BY <2>3, <3>2, DInvAgain
  <2>5. CASE job[c].command # "SWEEP"
    BY <1>0, <1>2, <2>3, <2>5, DInvAtRest DEF Announce
  <2> QED
    BY <2>4, <2>5
<1> QED
  BY <1>1, <1>2

\* What is known of an upload at its steps.
LEMMA UploadFacts ==
  ASSUME DInv, NEW c \in Callers, job[c].command = "ATTACH"
  PROVE  /\ StoresTyped /\ Named /\ TInv /\ UploadAlone(pc[c], job[c])
         /\ job[c] \in Job /\ job[c].doc \in Docs /\ job[c].doc # None
         /\ job[c].old \in Docs \cup {None}
         /\ job[c].old # None => job[c].oldRow \in Metadata
BY DInvFacts, DocsAssumption DEF DInv, JobTyped, JobInv, Job

LEMMA UploadDInv ==
  ASSUME OneAtATime, DInv, NEW c \in Callers, TInv',
         Create(c) \/ Reread(c) \/ Describe(c) \/ Retire(c)
  PROVE  DInv'
<1> DEFINE d == job[c].doc
           old == job[c].old
<1>1. job[c].command = "ATTACH"
  BY DInvFacts DEF JobTyped, Uploading, Create, Reread, Describe, Retire
<1>2. /\ StoresTyped /\ Named /\ TInv /\ UploadAlone(pc[c], job[c])
      /\ job[c] \in Job /\ d \in Docs /\ d # None /\ old \in Docs \cup {None}
      /\ old # None => job[c].oldRow \in Metadata
  BY <1>1, UploadFacts
<1>3. d \in named /\ ~HasSuccessor(d) /\ old # d /\ (old # None => old \in named)
  BY <1>2 DEF UploadAlone
<1>4. CASE Create(c)
  <2>1. pc[c] = "create" /\ UNCHANGED <<blob, named, outbox, job>>
        /\ meta' = [meta EXCEPT ![d] = Blank]
    BY <1>4 DEF Create, WriteRow
  <2>2. pc'[c] = "scan"
    BY <1>2, <1>4 DEF Create, Goto, TInv
  <2>3. meta'[d] = Blank /\ \A e \in Docs \ {d} : meta'[e] = meta[e]
    BY <1>2, <2>1 DEF StoresTyped
  <2>4. Blank.supersedes = None
    BY DEF Blank
  <2>5. Named'
    BY <1>2, <1>3, <2>1, <2>3, <2>4 DEF Named
  <2>6. ~HasSuccessor(d)'
    BY <1>2, <1>3, <2>1, <2>3, <2>4 DEF HasSuccessor
  <2>7. UploadAlone(pc[c], job[c])'
    BY <1>2, <1>3, <2>1, <2>2, <2>3, <2>6 DEF UploadAlone
  <2>8. JobInv(pc[c], job[c])'
    BY <1>1, <2>1, <2>2, <2>7 DEF JobInv, ReadIsCurrent
  <2> QED
    BY <2>5, <2>8, DInvAgain
<1>5. CASE Reread(c)
  <2>1. pc[c] = "reread" /\ UNCHANGED <<meta, blob, named, outbox>>
        /\ job' = [job EXCEPT ![c].row = Row(d)]
    BY <1>5 DEF Reread
  <2>2. pc'[c] = "describe"
    BY <1>2, <1>5 DEF Reread, Goto, TInv
  <2>3. /\ job'[c].row = Row(d) /\ job'[c].doc = d /\ job'[c].old = old
        /\ job'[c].oldRow = job[c].oldRow /\ job'[c].command = "ATTACH"
    BY <1>1, <1>2, <2>1 DEF TInv, Job
  <2>4. meta[d] = Blank /\ Blank # Absent
    BY <1>2, <2>1, RowTyped, AbsentAssumption DEF UploadAlone
  <2>5. Row(d) = Blank
    BY <2>4 DEF Row
  <2>6. Named' /\ ~HasSuccessor(d)'
    BY <1>2, <1>3, <2>1 DEF Named, HasSuccessor
  <2>7. UploadAlone(pc[c], job[c])'
    BY <1>2, <1>3, <2>1, <2>2, <2>3, <2>4, <2>5, <2>6 DEF UploadAlone
  <2>8. JobInv(pc[c], job[c])'
    BY <2>2, <2>3, <2>7 DEF JobInv, ReadIsCurrent
  <2> QED
    BY <2>6, <2>8, DInvAgain
<1>6. CASE Describe(c)
  <2> DEFINE row == [held |-> FALSE, locked |-> FALSE, archived |-> FALSE, current |-> TRUE,
                     supersedes |-> old]
             step == IF old = None THEN "announce" ELSE "retire"
  <2>1. pc[c] = "describe" /\ UNCHANGED <<blob, named, outbox>>
        /\ job' = [job EXCEPT ![c].event = "DOCUMENT_UPLOADED"]
    BY <1>6 DEF Describe
  <2>2. pc'[c] = step
    BY <1>2, <1>6 DEF Describe, Goto, TInv
  <2>3. /\ job'[c].event = "DOCUMENT_UPLOADED" /\ job'[c].doc = d /\ job'[c].old = old
        /\ job'[c].oldRow = job[c].oldRow /\ job'[c].command = "ATTACH"
    BY <1>1, <1>2, <2>1 DEF TInv, Job
  <2>4. job[c].row = Blank
    BY <1>2, <2>1 DEF UploadAlone
  <2>5. meta' = [meta EXCEPT ![d] = row]
    <3>1. row = IF old = None THEN Blank ELSE [Blank EXCEPT !.supersedes = old, !.current = TRUE]
      <4>1. CASE old = None
        BY <4>1 DEF Blank
      <4>2. CASE old # None
        BY <4>2 DEF Blank
      <4> QED
        BY <4>1, <4>2
    <3> QED
      BY <1>6, <2>4, <3>1 DEF Describe, WriteRow
  <2>6. meta'[d] = row /\ row.supersedes = old /\ \A e \in Docs \ {d} : meta'[e] = meta[e]
    BY <1>2, <2>5 DEF StoresTyped, Blank
  <2> HIDE DEF row
  <2>7. Named'
    BY <1>2, <1>3, <2>1, <2>6 DEF Named
  <2>8. ~HasSuccessor(d)'
    BY <1>2, <1>3, <2>3, <2>6 DEF HasSuccessor
  <2>9. meta'[d] = Described(job'[c])
    BY <2>3, <2>6 DEF Described, row
  <2>10. old # None => meta'[old] = job[c].oldRow
    BY <1>2, <1>3, <2>1, <2>6 DEF UploadAlone
  <2>11. UploadAlone(pc[c], job[c])'
    BY <1>2, <1>3, <2>1, <2>2, <2>3, <2>8, <2>9, <2>10 DEF UploadAlone
  <2>12. JobInv(pc[c], job[c])'
    BY <1>3, <2>1, <2>2, <2>3, <2>11 DEF JobInv, ReadIsCurrent
  <2> QED
    BY <2>7, <2>12, DInvAgain
<1>7. CASE Retire(c)
  <2>1. pc[c] = "retire" /\ UNCHANGED <<blob, named, outbox, job>>
        /\ WriteRow(old, Retired(job[c].oldRow))
    BY <1>7 DEF Retire, Retired
  <2>2. pc'[c] = "announce"
    BY <1>2, <1>7 DEF Retire, Goto, TInv
  <2>3. old # None
    BY <2>1, DInvFacts DEF JobTyped
  <2>4. meta[old] = job[c].oldRow /\ meta[d] = Described(job[c]) /\ job[c].event = "DOCUMENT_UPLOADED"
    BY <1>2, <2>1, <2>3 DEF UploadAlone
  <2>5. Retired(job[c].oldRow) \in Metadata
        /\ Retired(job[c].oldRow).supersedes = job[c].oldRow.supersedes
    BY <1>2, <2>3 DEF Retired, Metadata
  <2>6. Row(old) = job[c].oldRow
    BY <1>2, <2>3, <2>4, AbsentAssumption DEF Row
  <2>7. /\ HasSuccessor(d)' <=> HasSuccessor(d)
        /\ Named'
    BY <1>2, <1>3, <2>1, <2>3, <2>5, <2>6, SuccessorsStay DEF Named
  <2>8. meta'[old] = Retired(job[c].oldRow) /\ meta'[d] = meta[d]
    BY <1>2, <1>3, <2>1, <2>3 DEF WriteRow, StoresTyped
  <2>9. UploadAlone(pc[c], job[c])'
    BY <1>2, <1>3, <2>1, <2>2, <2>3, <2>4, <2>7, <2>8 DEF UploadAlone
  <2>10. JobInv(pc[c], job[c])'
    BY <1>1, <1>3, <2>1, <2>2, <2>9 DEF JobInv, ReadIsCurrent
  <2> QED
    BY <2>7, <2>10, DInvAgain
<1> QED
  BY <1>4, <1>5, <1>6, <1>7

LEMMA ScanDInv ==
  ASSUME OneAtATime, DInv, NEW c \in Callers, TInv', AnnounceScan(c) \/ RaiseScan(c)
  PROVE  DInv'
<1> DEFINE d == job[c].doc
<1>1. job[c].command = "ATTACH"
  BY DInvFacts DEF JobTyped, Uploading, AnnounceScan, RaiseScan
<1>2. StoresTyped /\ Named /\ TInv /\ UploadAlone(pc[c], job[c]) /\ d \in named
  BY <1>1, UploadFacts DEF UploadAlone
<1>3. /\ pc[c] = "scan" /\ UNCHANGED <<meta, blob, named>>
      /\ outbox' \subseteq outbox \cup {<<"DOCUMENT_SCAN_COMPLETED", d>>}
  BY DEF AnnounceScan, RaiseScan, Publish
<1>4. Named'
  BY <1>2, <1>3 DEF Named
<1>5. CASE AnnounceScan(c)
  <2>1. pc'[c] = "reread" /\ UNCHANGED job
    BY <1>2, <1>5 DEF AnnounceScan, Goto, TInv
  <2>2. UploadAlone(pc[c], job[c])'
    BY <1>2, <1>3, <2>1 DEF UploadAlone, HasSuccessor
  <2>3. JobInv(pc[c], job[c])'
    BY <1>1, <2>1, <2>2 DEF JobInv, ReadIsCurrent
  <2> QED
    BY <1>4, <2>3, DInvAgain
<1>6. CASE RaiseScan(c)
  BY <1>2, <1>4, <1>6, DInvAtRest DEF RaiseScan
<1> QED
  BY <1>5, <1>6

LEMMA UndoDInv ==
  ASSUME OneAtATime, DInv, NEW c \in Callers, TInv', Raise(c) \/ Undo(c) \/ Restore(c)
  PROVE  DInv'
<1> DEFINE d == job[c].doc
           old == job[c].old
<1>1. job[c].command = "ATTACH"
  BY DInvFacts DEF JobTyped, Uploading, Raise, Undo, Restore
<1>2. /\ StoresTyped /\ Named /\ TInv /\ UploadAlone(pc[c], job[c])
      /\ job[c] \in Job /\ d \in Docs /\ d # None /\ old \in Docs \cup {None}
      /\ old # None => job[c].oldRow \in Metadata
  BY <1>1, UploadFacts
<1>3. d \in named /\ ~HasSuccessor(d) /\ old # d /\ (old # None => old \in named)
  BY <1>2 DEF UploadAlone
<1>4. CASE Raise(c)
  <2>1. \A e \in Docs : blob'[e] \subseteq blob[e]
    BY <1>2, <1>4 DEF Raise, StoresTyped
  <2>2. \A p \in outbox' : p \in outbox \/ p[2] = d
    BY <1>4 DEF Raise
  <2>3. named' = named
    BY <1>4 DEF Raise
  <2>4. CASE UNCHANGED meta
    <3>1. Named'
      BY <1>2, <1>3, <2>1, <2>2, <2>3, <2>4 DEF Named
    <3>2. CASE pc[c] = "create"
      BY <1>2, <1>4, <3>1, <3>2, DInvAtRest DEF Raise
    <3>3. CASE pc[c] # "create"
      <4>1. pc'[c] = "undo" /\ UNCHANGED job
        BY <1>2, <1>4, <3>3 DEF Raise, Goto, TInv
      <4>2. pc[c] \in {"reread", "describe", "retire", "announce"}
        BY <1>4, <3>3 DEF Raise
      <4>3. meta[d] \in {Blank, Described(job[c])}
        BY <1>2, <4>2 DEF UploadAlone
      <4>4. old # None => meta[old] \in {job[c].oldRow, Retired(job[c].oldRow)}
        BY <1>2, <4>2 DEF UploadAlone
      <4>5. ~HasSuccessor(d)'
        BY <1>3, <2>4, <4>1 DEF HasSuccessor
      <4>6. UploadAlone(pc[c], job[c])'
        BY <1>2, <1>3, <2>3, <2>4, <4>1, <4>3, <4>4, <4>5 DEF UploadAlone
      <4>7. JobInv(pc[c], job[c])'
        BY <1>1, <4>1, <4>6 DEF JobInv, ReadIsCurrent
      <4> QED
        BY <3>1, <4>7, DInvAgain
    <3> QED
      BY <3>2, <3>3
  <2>5. CASE pc[c] = "create" /\ WriteRow(d, Blank)
    <3>1. meta'[d] = Blank /\ Blank.supersedes = None /\ \A e \in Docs \ {d} : meta'[e] = meta[e]
      BY <1>2, <2>5 DEF StoresTyped, WriteRow, Blank
    <3>2. Named'
      BY <1>2, <1>3, <2>1, <2>2, <2>3, <3>1 DEF Named
    <3> QED
      BY <1>2, <1>4, <2>5, <3>2, DInvAtRest DEF Raise
  <2> QED
    BY <1>4, <2>4, <2>5 DEF Raise
<1>5. CASE Undo(c)
  <2>1. pc[c] = "undo" /\ UNCHANGED <<blob, named, outbox>> /\ WriteRow(d, Absent)
    BY <1>5 DEF Undo
  <2>2. meta'[d] = Absent /\ \A e \in Docs \ {d} : meta'[e] = meta[e]
    BY <1>2, <2>1 DEF StoresTyped, WriteRow
  <2>3. Named'
    BY <1>2, <1>3, <2>1, <2>2 DEF Named
  <2>4. CASE old = None
    BY <1>2, <1>5, <2>3, <2>4, DInvAtRest DEF Undo
  <2>5. CASE old # None
    <3>1. pc'[c] = "restore" /\ UNCHANGED job
      BY <1>2, <1>5, <2>5 DEF Undo, Goto, TInv
    <3>2. ~HasSuccessor(d)'
      BY <1>2, <1>3, <2>2, <3>1 DEF HasSuccessor
    <3>3. meta'[old] \in {job[c].oldRow, Retired(job[c].oldRow)}
      BY <1>2, <1>3, <2>1, <2>2, <2>5 DEF UploadAlone
    <3>4. UploadAlone(pc[c], job[c])'
      BY <1>2, <1>3, <2>1, <2>2, <3>1, <3>2, <3>3 DEF UploadAlone
    <3>5. JobInv(pc[c], job[c])'
      BY <1>1, <3>1, <3>4 DEF JobInv, ReadIsCurrent
    <3> QED
      BY <2>3, <3>5, DInvAgain
  <2> QED
    BY <2>4, <2>5
<1>6. CASE Restore(c)
  <2>1. old # None
    BY <1>6, DInvFacts DEF Restore, JobTyped
  <2>2. UNCHANGED <<blob, named, outbox>> /\ WriteRow(old, job[c].oldRow) /\ Done(c)
    BY <1>6 DEF Restore
  <2>3. meta[old] \in {job[c].oldRow, Retired(job[c].oldRow)}
    BY <1>2, <1>6, <2>1 DEF Restore, UploadAlone
  <2>4. job[c].oldRow.supersedes = Row(old).supersedes
    BY <1>2, <2>1, <2>3, AbsentAssumption DEF Row, Retired, Metadata, StoresTyped
  <2>5. Named'
    BY <1>2, <1>3, <2>1, <2>2, <2>4, SuccessorsStay DEF Named
  <2> QED
    BY <1>2, <2>2, <2>5, DInvAtRest
<1> QED
  BY <1>4, <1>5, <1>6

LEMMA RemovalDInv ==
  ASSUME OneAtATime, DInv, NEW c \in Callers, TInv', DeleteBytes(c) \/ RemoveRow(c)
  PROVE  DInv'
<1> DEFINE d == job[c].doc
<1>1. /\ StoresTyped /\ Named /\ TInv /\ JobTyped(pc[c], job[c]) /\ JobInv(pc[c], job[c])
      /\ job[c] \in Job
  BY DInvFacts DEF DInv
<1>2. d \in Docs /\ job[c].command \in {"DELETE", "SWEEP"}
  BY <1>1 DEF JobTyped, DeleteBytes, RemoveRow
<1>3. CASE DeleteBytes(c)
  <2>1. pc[c] = "successor" /\ UNCHANGED <<meta, named, outbox>>
    BY <1>3 DEF DeleteBytes
  <2>2. \A e \in Docs : blob'[e] \subseteq blob[e]
    BY <1>1, <1>3 DEF DeleteBytes, StoresTyped
  <2>3. Named'
    BY <1>1, <2>1, <2>2 DEF Named
  <2>4. CASE job[c].row # Absent /\ HasSuccessor(d)
    BY <1>1, <1>3, <2>3, <2>4, DInvAtRest DEF DeleteBytes
  <2>5. CASE ~(job[c].row # Absent /\ HasSuccessor(d))
    <3>1. pc'[c] = "remove" /\ UNCHANGED job
      BY <1>1, <1>3, <2>5 DEF DeleteBytes, Goto, TInv
    <3>2. job[c].row = meta[d] /\ "document" \in blob[d] /\ Replaceable(Row(d))
      BY <1>1, <2>1 DEF JobInv, ReadIsCurrent
    <3>3. ~Has(d, "held") /\ (meta[d] # Absent => ~meta[d].locked /\ ~HasSuccessor(d))
      BY <2>5, <3>2 DEF Has, Replaceable, Row
    <3>4. d \in named
      BY <1>1, <1>2, <3>2 DEF Named
    <3>5. ~Has(d, "held")' /\ (meta'[d] # Absent => ~meta'[d].locked /\ ~HasSuccessor(d)')
      BY <2>1, <3>1, <3>3 DEF Has, HasSuccessor
    <3>6. job[c].command # "SWEEP" \/ \A r \in job[c].rows : meta[r[1]] = r[2] /\ r[1] # d
      BY <1>1, <2>1 DEF JobInv, ReadIsCurrent
    <3>7. JobInv(pc[c], job[c])'
      BY <1>2, <2>1, <3>1, <3>4, <3>5, <3>6 DEF JobInv, ReadIsCurrent
    <3> QED
      BY <2>3, <3>7, DInvAgain
  <2> QED
    BY <2>4, <2>5
<1>4. CASE RemoveRow(c)
  <2>1. pc[c] = "remove" /\ UNCHANGED <<blob, named, outbox>> /\ WriteRow(d, Absent)
    BY <1>4 DEF RemoveRow
  <2>2. meta'[d] = Absent /\ \A e \in Docs \ {d} : meta'[e] = meta[e]
    BY <1>1, <1>2, <2>1 DEF StoresTyped, WriteRow
  <2>3. d \in named
    BY <1>1, <2>1 DEF JobInv, ReadIsCurrent
  <2>4. Named'
    BY <1>1, <1>2, <2>1, <2>2, <2>3 DEF Named
  <2>5. /\ pc'[c] = "announce" /\ job'[c].doc = d /\ job'[c].command = job[c].command
        /\ job'[c].rows = job[c].rows
    BY <1>1, <1>4 DEF RemoveRow, Goto, TInv, Job
  <2>6. job[c].command = "SWEEP" =>
          \A r \in job[c].rows : meta[r[1]] = r[2] /\ r[1] # d /\ r[1] \in Docs
    BY <1>1, <2>1 DEF JobInv, ReadIsCurrent, Job
  <2>7. JobInv(pc[c], job[c])'
    BY <1>2, <2>1, <2>2, <2>3, <2>5, <2>6 DEF JobInv, ReadIsCurrent
  <2> QED
    BY <2>4, <2>7, DInvAgain
<1> QED
  BY <1>3, <1>4

\* The row of a document that the sweep has judged is what it was when fetched.
LEMMA JudgedDInv ==
  ASSUME OneAtATime, DInv, NEW c \in Callers, TInv', NEW r \in job[c].rows,
         Archive(c, r) \/ Purge(c, r)
  PROVE  /\ r[1] \in Docs /\ r[2] \in Metadata /\ meta[r[1]] = r[2] /\ r[1] \in named
         /\ job'[c].doc = r[1] /\ job'[c].row = r[2] /\ job'[c].command = "SWEEP"
         /\ \A x \in job'[c].rows : meta[x[1]] = x[2] /\ x[1] # r[1] /\ x[1] \in Docs
         /\ Named'
<1>1. /\ StoresTyped /\ Named /\ TInv /\ JobTyped("sweep", job[c]) /\ JobInv("sweep", job[c])
      /\ job[c] \in Job /\ Judge(c, r)
  BY DInvFacts DEF DInv, Archive, Purge
<1>2. job[c].command = "SWEEP" /\ job[c].rows \subseteq Docs \X Metadata
  BY <1>1 DEF JobTyped, Job
<1>3. \A x \in job[c].rows : meta[x[1]] = x[2]
  BY <1>1, <1>2 DEF JobInv, ReadIsCurrent
<1>4. /\ job'[c].doc = r[1] /\ job'[c].row = r[2] /\ job'[c].command = "SWEEP"
      /\ job'[c].rows = job[c].rows \ {r}
  BY <1>1, <1>2 DEF Judge, TInv, Job
<1>5. r[1] \in Docs /\ r[2] \in Metadata /\ meta[r[1]] = r[2]
  BY <1>2, <1>3
<1>6. r[1] \in named
  BY <1>1, <1>5, AbsentAssumption DEF Named
<1>7. ASSUME NEW x \in job'[c].rows
      PROVE  meta[x[1]] = x[2] /\ x[1] # r[1] /\ x[1] \in Docs
  <2>1. x \in job[c].rows /\ x # r
    BY <1>4
  <2>2. x = <<x[1], x[2]>> /\ r = <<r[1], r[2]>> /\ x[1] \in Docs
    BY <1>2, <2>1
  <2> QED
    BY <1>3, <1>5, <2>1, <2>2
<1>8. \A e \in Docs : e # r[1] => blob'[e] = blob[e]
  BY <1>1 DEF Archive, Purge, StoresTyped
<1>9. Named'
  BY <1>1, <1>6, <1>8 DEF Named, Archive, Purge
<1> QED
  BY <1>4, <1>5, <1>6, <1>7, <1>9

LEMMA SweepDInv ==
  ASSUME OneAtATime, DInv, NEW c \in Callers, TInv', NEW r \in job[c].rows,
         SkipRow(c, r) \/ Archive(c, r) \/ Purge(c, r)
  PROVE  DInv'
<1>1. /\ StoresTyped /\ Named /\ TInv /\ JobTyped(pc[c], job[c]) /\ JobInv(pc[c], job[c])
      /\ job[c] \in Job
  BY DInvFacts DEF DInv
<1>2. CASE SkipRow(c, r)
  <2>1. pc[c] = "sweep" /\ UNCHANGED <<meta, blob, named, outbox, pc>>
        /\ job' = [job EXCEPT ![c].rows = @ \ {r}]
    BY <1>2 DEF SkipRow
  <2>2. job[c].command = "SWEEP"
    BY <1>1, <2>1 DEF JobTyped
  <2>3. job'[c].command = "SWEEP" /\ job'[c].rows \subseteq job[c].rows
    BY <1>1, <2>1, <2>2 DEF TInv, Job
  <2>4. JobInv(pc[c], job[c])'
    BY <1>1, <2>1, <2>2, <2>3 DEF JobInv, ReadIsCurrent
  <2>5. Named'
    BY <1>1, <2>1 DEF Named
  <2> QED
    BY <2>4, <2>5, DInvAgain
<1>3. CASE Archive(c, r)
  <2>1. pc'[c] \in {"mark", "markMissing"} /\ UNCHANGED <<meta, named>> /\ ~r[2].held
    BY <1>1, <1>3 DEF Archive, Goto, TInv, Archivable
  <2>2. JobInv(pc[c], job[c])'
    BY <1>3, <2>1, JudgedDInv DEF JobInv, ReadIsCurrent
  <2> QED
    BY <1>3, <2>2, JudgedDInv, DInvAgain
<1>4. CASE Purge(c, r)
  <2>1. pc'[c] = "remove" /\ UNCHANGED <<meta, named>> /\ ~r[2].held /\ r[2].archived
    BY <1>1, <1>4 DEF Purge, Goto, TInv, Purgeable
  <2>2. meta'[r[1]] = r[2] /\ job'[c].doc = r[1]
    BY <1>4, <2>1, JudgedDInv
  <2>3. JobInv(pc[c], job[c])'
    BY <1>4, <2>1, <2>2, JudgedDInv DEF JobInv, ReadIsCurrent, Has
  <2> QED
    BY <1>4, <2>3, JudgedDInv, DInvAgain
<1> QED
  BY <1>2, <1>3, <1>4

LEMMA MarkDInv ==
  ASSUME OneAtATime, DInv, NEW c \in Callers, TInv', MarkArchived(c) \/ SweepEnds(c) \/ CutOff(c)
  PROVE  DInv'
<1> DEFINE d == job[c].doc
<1>1. /\ StoresTyped /\ Named /\ TInv /\ JobTyped(pc[c], job[c]) /\ JobInv(pc[c], job[c])
      /\ job[c] \in Job
  BY DInvFacts DEF DInv
<1>2. CASE MarkArchived(c)
  <2> DEFINE row == [job[c].row EXCEPT !.archived = TRUE]
  <2>1. pc[c] \in {"mark", "markMissing"} /\ UNCHANGED <<blob, named, outbox>> /\ WriteRow(d, row)
        /\ pc' = [pc EXCEPT ![c] = IF pc[c] = "mark" THEN "announce" ELSE "sweep"]
        /\ job' = [job EXCEPT ![c].event = "DOCUMENT_ARCHIVED"]
    BY <1>2 DEF MarkArchived, Goto
  <2>2. job[c].command = "SWEEP" /\ d \in Docs /\ job[c].row \in Metadata
    BY <1>1, <2>1 DEF JobTyped
  <2>3. meta[d] = job[c].row /\ \A r \in job[c].rows : meta[r[1]] = r[2] /\ r[1] # d /\ r[1] \in Docs
    BY <1>1, <2>1, <2>2 DEF JobInv, ReadIsCurrent, Job
  <2>4. d \in named /\ Row(d) = job[c].row
    BY <1>1, <2>2, <2>3, AbsentAssumption DEF Named, Row
  <2>5. row \in Metadata /\ row.supersedes = Row(d).supersedes
    BY <2>2, <2>4, RowTyped DEF Metadata
  <2> HIDE DEF row
  <2>6. Named'
    BY <1>1, <2>1, <2>2, <2>4, <2>5, SuccessorsStay DEF Named
  <2>7. \A r \in job[c].rows : meta'[r[1]] = r[2]
    BY <1>1, <2>1, <2>2, <2>3 DEF WriteRow, StoresTyped
  <2>8. /\ pc'[c] \in {"announce", "sweep"} /\ job'[c].doc = d /\ job'[c].command = "SWEEP"
        /\ job'[c].rows = job[c].rows
    BY <1>1, <2>1, <2>2 DEF TInv, Job
  <2>9. JobInv(pc[c], job[c])'
    BY <2>1, <2>3, <2>4, <2>7, <2>8 DEF JobInv, ReadIsCurrent
  <2> QED
    BY <2>6, <2>9, DInvAgain
<1>3. CASE SweepEnds(c)
  <2>1. Named'
    BY <1>1, <1>3 DEF SweepEnds, Named
  <2> QED
    BY <1>1, <1>3, <2>1, DInvAtRest DEF SweepEnds
<1>4. CASE CutOff(c)
  <2>1. ASSUME NEW e \in Docs, blob'[e] # {} PROVE e \in named
    <3>1. CASE blob[e] # {}
      BY <1>1, <3>1 DEF Named
    <3>2. CASE blob[e] = {}
      <4>1. PICK r \in job[c].rows :
              pc[c] = "sweep" /\ "document" \in blob[r[1]]
              /\ blob' = [blob EXCEPT ![r[1]] = @ \cup {"archive"}]
        BY <1>4, <2>1, <3>2 DEF CutOff
      <4>2. r[1] # e
        BY <3>2, <4>1
      <4> QED
        BY <1>1, <2>1, <3>2, <4>1, <4>2 DEF StoresTyped
    <3> QED
      BY <3>1, <3>2
  <2>2. Named'
    BY <1>1, <1>4, <2>1 DEF Named, CutOff
  <2> QED
    BY <1>1, <1>4, <2>2, DInvAtRest DEF CutOff
<1> QED
  BY <1>2, <1>3, <1>4

LEMMA StepDInv ==
  ASSUME OneAtATime, DInv, [Next]_vars
  PROVE  DInv'
<1>0. TInv'
  BY StepTInv DEF DInv
<1>1. CASE UNCHANGED vars
  <2>1. Named'
    BY <1>1 DEF vars, DInv, Named
  <2>2. \A c \in Callers : JobInv(pc[c], job[c])'
    BY <1>1 DEF vars, DInv, JobInv, UploadAlone, ReadIsCurrent, HasSuccessor, Has, Row
  <2> QED
    BY <1>0, <2>1, <2>2 DEF DInv
<1>2. CASE Next
  <2>1. PICK c \in Callers :
          \/ Request(c)
          \/ WriteEdit(c) \/ Announce(c)
          \/ Create(c) \/ AnnounceScan(c) \/ RaiseScan(c)
          \/ Reread(c) \/ Describe(c) \/ Retire(c)
          \/ Raise(c) \/ Undo(c) \/ Restore(c)
          \/ DeleteBytes(c) \/ RemoveRow(c)
          \/ \E r \in job[c].rows : SkipRow(c, r) \/ Archive(c, r) \/ Purge(c, r)
          \/ MarkArchived(c) \/ SweepEnds(c) \/ CutOff(c)
    BY <1>2 DEF Next
  <2> QED
    BY <1>0, <2>1, RequestDInv, EditDInv, UploadDInv, ScanDInv, UndoDInv, RemovalDInv, SweepDInv,
       MarkDInv
<1> QED
  BY <1>1, <1>2

\* What a step may not do to a document.
HoldKept(d) ==
  Has(d, "held") =>
    /\ blob'[d] = blob[d]
    /\ meta'[d] # Absent
    /\ meta'[d].current = meta[d].current

LockKept(d) ==
  Has(d, "locked") => IF meta'[d] = Absent THEN meta[d].archived ELSE meta'[d].locked

VersionKept(d) ==
  meta[d] # Absent /\ ~meta[d].archived /\ HasSuccessor(d) =>
    meta'[d] # Absent /\ (blob'[d] = {} => blob[d] = {})

Kept(d) == HoldKept(d) /\ LockKept(d) /\ VersionKept(d)

\* Nothing is asked of a document a step leaves alone, or that is nobody's
\* yet.
LEMMA KeptAlone ==
  ASSUME NEW d \in Docs,
         \/ meta'[d] = meta[d] /\ blob'[d] = blob[d]
         \/ meta[d] = Absent
         \/ ~meta[d].held /\ ~meta[d].locked /\ ~HasSuccessor(d)
  PROVE  Kept(d)
BY DEF Kept, HoldKept, LockKept, VersionKept, Has

LEMMA UploadKeeps ==
  ASSUME DInv, NEW c \in Callers, NEW d \in Docs,
         Create(c) \/ Reread(c) \/ Describe(c) \/ Retire(c) \/ Raise(c) \/ Undo(c) \/ Restore(c)
  PROVE  Kept(d)
<1> DEFINE new == job[c].doc
           old == job[c].old
<1>1. job[c].command = "ATTACH" /\ JobTyped(pc[c], job[c])
  BY DInvFacts DEF JobTyped, Uploading, Create, Reread, Describe, Retire, Raise, Undo, Restore
<1>2. StoresTyped /\ UploadAlone(pc[c], job[c]) /\ new \in Docs /\ ~HasSuccessor(new)
      /\ (old # None => old \in Docs /\ job[c].oldRow \in Metadata /\ Replaceable(job[c].oldRow))
  BY <1>1, UploadFacts DEF UploadAlone
<1>3. meta[new] \in {Absent, Blank, Described(job[c])}
  <2>1. pc[c] \in {"create", "reread", "describe", "retire", "announce", "undo", "restore"}
    BY <1>1, <1>2, DocsAssumption
       DEF Create, Reread, Describe, Retire, Raise, Undo, Restore
  <2> QED
    BY <1>2, <2>1 DEF UploadAlone
<1>4. Kept(new)
  <2>1. ~Blank.held /\ ~Blank.locked /\ ~Described(job[c]).held /\ ~Described(job[c]).locked
    BY DEF Blank, Described
  <2> QED
    BY <1>2, <1>3, <2>1, KeptAlone
<1>5. CASE Retire(c) \/ Restore(c)
  <2>1. old # None
    BY <1>1, <1>5 DEF JobTyped, Retire, Restore
  <2>2. PICK row \in Metadata : WriteRow(old, row) /\ UNCHANGED blob
    BY <1>2, <1>5, <2>1, RowTyped DEF Retire, Restore
  <2>3. meta'[old] # Absent /\ blob'[old] = blob[old]
    BY <1>2, <2>1, <2>2, AbsentAssumption DEF WriteRow, StoresTyped
  <2>4. meta[old] \in {job[c].oldRow, Retired(job[c].oldRow)}
    BY <1>2, <1>5, <2>1 DEF UploadAlone, Retire, Restore
  <2>5. ~meta[old].held /\ ~meta[old].locked
    BY <1>2, <2>1, <2>4 DEF Retired, Replaceable, Metadata
  <2>6. Kept(old)
    BY <2>3, <2>5 DEF Kept, HoldKept, LockKept, VersionKept, Has
  <2>7. d # old => meta'[d] = meta[d] /\ blob'[d] = blob[d]
    BY <1>2, <2>2 DEF WriteRow, StoresTyped
  <2> QED
    BY <2>6, <2>7, KeptAlone
<1>6. CASE ~(Retire(c) \/ Restore(c))
  <2>1. d # new => meta'[d] = meta[d] /\ blob'[d] = blob[d]
    BY <1>2, <1>6 DEF Create, Reread, Describe, Raise, Undo, WriteRow, StoresTyped
  <2> QED
    BY <1>4, <2>1, KeptAlone
<1> QED
  BY <1>5, <1>6

LEMMA RemovalKeeps ==
  ASSUME DInv, NEW c \in Callers, NEW d \in Docs, DeleteBytes(c) \/ RemoveRow(c)
  PROVE  Kept(d)
<1>1. StoresTyped /\ JobTyped(pc[c], job[c]) /\ JobInv(pc[c], job[c])
  BY DInvFacts
<1>2. CASE d # job[c].doc
  BY <1>1, <1>2, KeptAlone DEF DeleteBytes, RemoveRow, WriteRow, StoresTyped
<1>3. CASE d = job[c].doc /\ DeleteBytes(c)
  <2>1. job[c].row = meta[d] /\ Replaceable(Row(d)) /\ UNCHANGED meta
    BY <1>1, <1>3 DEF DeleteBytes, JobInv, ReadIsCurrent
  <2>2. ~Has(d, "held")
    BY <2>1 DEF Has, Replaceable, Row
  <2>3. meta[d] # Absent /\ HasSuccessor(d) => UNCHANGED blob
    BY <1>3, <2>1 DEF DeleteBytes
  <2> QED
    BY <2>1, <2>2, <2>3 DEF Kept, HoldKept, LockKept, VersionKept, Has
<1>4. CASE d = job[c].doc /\ RemoveRow(c)
  <2>1. ~Has(d, "held")
        /\ (meta[d] # Absent => meta[d].archived \/ (~meta[d].locked /\ ~HasSuccessor(d)))
    BY <1>1, <1>4 DEF RemoveRow, JobInv, ReadIsCurrent
  <2>2. meta'[d] = Absent
    BY <1>1, <1>4 DEF RemoveRow, WriteRow, StoresTyped
  <2> QED
    BY <2>1, <2>2 DEF Kept, HoldKept, LockKept, VersionKept, Has
<1> QED
  BY <1>2, <1>3, <1>4

\* The rows a sweep has left are in the database.
LEMMA FetchedRows ==
  ASSUME DInv, NEW c \in Callers, pc[c] = "sweep", NEW r \in job[c].rows
  PROVE  r[1] \in Docs /\ r[2] \in Metadata /\ meta[r[1]] = r[2] /\ meta[r[1]] # Absent
<1>1. JobTyped("sweep", job[c]) /\ JobInv("sweep", job[c]) /\ job[c] \in Job
  BY DInvFacts
<1>2. r[1] \in Docs /\ r[2] \in Metadata /\ meta[r[1]] = r[2]
  BY <1>1 DEF JobTyped, JobInv, ReadIsCurrent, Job
<1> QED
  BY <1>2, AbsentAssumption

LEMMA SweepKeeps ==
  ASSUME DInv, NEW c \in Callers, NEW d \in Docs,
         \/ \E r \in job[c].rows : SkipRow(c, r) \/ Archive(c, r) \/ Purge(c, r)
         \/ MarkArchived(c) \/ SweepEnds(c) \/ CutOff(c)
  PROVE  Kept(d)
<1>1. StoresTyped /\ JobTyped(pc[c], job[c]) /\ JobInv(pc[c], job[c])
  BY DInvFacts
<1>2. ASSUME NEW r \in job[c].rows, SkipRow(c, r) PROVE Kept(d)
  BY <1>2, KeptAlone DEF SkipRow
<1>3. ASSUME NEW r \in job[c].rows, Archive(c, r) \/ Purge(c, r) PROVE Kept(d)
  <2>1. r[1] \in Docs /\ meta[r[1]] = r[2] /\ UNCHANGED meta
    BY <1>3, FetchedRows DEF Archive, Purge
  <2>2. CASE d # r[1]
    BY <1>1, <1>3, <2>1, <2>2, KeptAlone DEF Archive, Purge, StoresTyped
  <2>3. CASE d = r[1] /\ Archive(c, r)
    <3>1. ~meta[d].held
      BY <2>1, <2>3 DEF Archive, Archivable
    <3>2. blob'[d] = {} => blob[d] = {}
      BY <1>1, <2>3 DEF Archive, StoresTyped
    <3> QED
      BY <2>1, <3>1, <3>2 DEF Kept, HoldKept, LockKept, VersionKept, Has
  <2>4. CASE d = r[1] /\ Purge(c, r)
    <3>1. ~meta[d].held /\ meta[d].archived
      BY <2>1, <2>4 DEF Purge, Purgeable
    <3> QED
      BY <2>1, <3>1 DEF Kept, HoldKept, LockKept, VersionKept, Has
  <2> QED
    BY <1>3, <2>2, <2>3, <2>4
<1>4. CASE MarkArchived(c)
  <2> DEFINE row == [job[c].row EXCEPT !.archived = TRUE]
  <2>1. meta[job[c].doc] = job[c].row /\ ~job[c].row.held /\ job[c].doc \in Docs
        /\ job[c].row \in Metadata
    BY <1>1, <1>4 DEF MarkArchived, JobInv, JobTyped, ReadIsCurrent
  <2>2. row \in Metadata /\ row.locked = job[c].row.locked
    BY <2>1, RowTyped DEF Metadata
  <2>3. WriteRow(job[c].doc, row) /\ UNCHANGED blob
    BY <1>4 DEF MarkArchived
  <2> HIDE DEF row
  <2>4. CASE d = job[c].doc
    <3>1. meta'[d] = row /\ row # Absent
      BY <1>1, <2>2, <2>3, <2>4, AbsentAssumption DEF WriteRow, StoresTyped
    <3> QED
      BY <2>1, <2>2, <2>3, <2>4, <3>1 DEF Kept, HoldKept, LockKept, VersionKept, Has
  <2>5. CASE d # job[c].doc
    BY <1>1, <2>3, <2>5, KeptAlone DEF WriteRow, StoresTyped
  <2> QED
    BY <2>4, <2>5
<1>5. CASE SweepEnds(c)
  BY <1>5, KeptAlone DEF SweepEnds
<1>6. CASE CutOff(c)
  <2>1. CASE blob'[d] = blob[d]
    BY <1>6, <2>1, KeptAlone DEF CutOff
  <2>2. CASE blob'[d] # blob[d]
    <3>1. PICK r \in job[c].rows :
            pc[c] = "sweep" /\ Archivable(r[2]) /\ blob' = [blob EXCEPT ![r[1]] = @ \cup {"archive"}]
      BY <1>6, <2>2 DEF CutOff
    <3>2. d = r[1]
      BY <1>1, <2>2, <3>1 DEF StoresTyped
    <3>3. ~meta[d].held /\ UNCHANGED meta /\ blob'[d] # {}
      BY <1>1, <1>6, <3>1, <3>2, FetchedRows DEF CutOff, Archivable, StoresTyped
    <3> QED
      BY <3>3 DEF Kept, HoldKept, LockKept, VersionKept, Has
  <2> QED
    BY <2>1, <2>2
<1> QED
  BY <1>2, <1>3, <1>4, <1>5, <1>6

LEMMA RequestKeeps ==
  ASSUME DInv, NEW c \in Callers, NEW d \in Docs,
         Request(c) \/ WriteEdit(c) \/ Announce(c) \/ AnnounceScan(c) \/ RaiseScan(c)
  PROVE  Kept(d)
<1>1. StoresTyped /\ Named
  BY DInvFacts
<1>2. ASSUME NEW new \in Docs, NEW old \in Docs \cup {None}, Attach(c, new, old)
      PROVE  Kept(d)
  <2>1. meta' = meta /\ meta[new] = Absent
    BY <1>1, <1>2 DEF Attach, Begin, Named
  <2>2. d # new => blob'[d] = blob[d]
    BY <1>1, <1>2 DEF Attach, StoresTyped
  <2> QED
    BY <2>1, <2>2, KeptAlone
<1>3. ASSUME NEW e \in Docs, Delete(c, e) \/ \E command \in Edits : Edit(c, command, e)
      PROVE  Kept(d)
  BY <1>3, KeptAlone DEF Delete, Edit, Begin
<1>4. CASE Sweep(c) \/ Announce(c) \/ AnnounceScan(c) \/ RaiseScan(c)
  BY <1>4, KeptAlone DEF Sweep, Announce, AnnounceScan, RaiseScan, Begin
<1>5. CASE WriteEdit(c)
  <2> DEFINE e == job[c].doc
  <2>1. PICK row \in Metadata :
          /\ e \in Docs /\ WriteRow(e, row)
          /\ row.current = Row(e).current /\ (Row(e).locked => row.locked)
    BY <1>5, EditWrites
  <2>2. UNCHANGED blob
    BY <1>5 DEF WriteEdit
  <2>3. CASE d = e
    <3>1. meta'[d] = row /\ row # Absent
      BY <1>1, <2>1, <2>3, AbsentAssumption DEF WriteRow, StoresTyped
    <3> QED
      BY <2>1, <2>2, <2>3, <3>1 DEF Kept, HoldKept, LockKept, VersionKept, Has, Row
  <2>4. CASE d # e
    BY <1>1, <2>1, <2>2, <2>4, KeptAlone DEF WriteRow, StoresTyped
  <2> QED
    BY <2>3, <2>4
<1> QED
  BY <1>2, <1>3, <1>4, <1>5 DEF Request, Edits

LEMMA StepKeeps ==
  ASSUME DInv, Next
  PROVE  \A d \in Docs : Kept(d)
<1>1. TAKE d \in Docs
<1>2. PICK c \in Callers :
        \/ Request(c)
        \/ WriteEdit(c) \/ Announce(c)
        \/ Create(c) \/ AnnounceScan(c) \/ RaiseScan(c)
        \/ Reread(c) \/ Describe(c) \/ Retire(c)
        \/ Raise(c) \/ Undo(c) \/ Restore(c)
        \/ DeleteBytes(c) \/ RemoveRow(c)
        \/ \E r \in job[c].rows : SkipRow(c, r) \/ Archive(c, r) \/ Purge(c, r)
        \/ MarkArchived(c) \/ SweepEnds(c) \/ CutOff(c)
  BY DEF Next
<1> QED
  BY <1>2, RequestKeeps, UploadKeeps, RemovalKeeps, SweepKeeps

LEMMA DInvAlways ==
  ASSUME OneAtATime
  PROVE  Spec => []DInv
<1>1. Init => DInv
  BY InitDInv
<1>2. DInv /\ [Next]_vars => DInv'
  BY StepDInv
<1> QED
  BY <1>1, <1>2, PTL DEF Spec

\* When jobs come one at a time, a document under legal hold keeps its bytes
\* where they are, its row and its place in the version history until it is
\* released, whatever call raises and wherever a job is cut off.
THEOREM HoldRespectedOneAtATime ==
  ASSUME OneAtATime
  PROVE  Spec => HoldRespected
<1>1. DInv /\ [Next]_vars =>
        [\A d \in Docs : Has(d, "held") =>
           /\ blob'[d] = blob[d]
           /\ meta'[d] # Absent
           /\ meta'[d].current = meta[d].current]_vars
  BY StepKeeps DEF Kept, HoldKept
<1> QED
  BY <1>1, DInvAlways, PTL DEF Spec, HoldRespected

\* When jobs come one at a time, an approval lock is never taken back, and
\* only the sweep removes a locked document, once it is archived.
THEOREM LockSticksOneAtATime ==
  ASSUME OneAtATime
  PROVE  Spec => LockSticks
<1>1. DInv /\ [Next]_vars =>
        [\A d \in Docs : Has(d, "locked") =>
           IF meta'[d] = Absent THEN meta[d].archived ELSE meta'[d].locked]_vars
  BY StepKeeps DEF Kept, LockKept
<1> QED
  BY <1>1, DInvAlways, PTL DEF Spec, LockSticks

\* When jobs come one at a time, a version that has a successor keeps its row
\* and its bytes as long as it is not archived.
THEOREM HistoryKeptOneAtATime ==
  ASSUME OneAtATime
  PROVE  Spec => HistoryKept
<1>1. DInv /\ [Next]_vars =>
        [\A d \in Docs : meta[d] # Absent /\ ~meta[d].archived /\ HasSuccessor(d) =>
           meta'[d] # Absent /\ (blob'[d] = {} => blob[d] = {})]_vars
  BY StepKeeps DEF Kept, VersionKept
<1> QED
  BY <1>1, DInvAlways, PTL DEF Spec, HistoryKept

-------------------------------------------------------------------------------
(* One job at a time, and none cut off. *)

\* Where the bytes of a row are.
BytesOf(row) ==
  IF row = Absent THEN {} ELSE IF row.archived THEN {"archive"} ELSE {"document"}

Agrees(row, bytes, d, events) ==
  /\ bytes = BytesOf(row)
  /\ row # Absent =>
       /\ <<"DOCUMENT_UPLOADED", d>> \in events
       /\ row.held => <<"DOCUMENT_LEGAL_HOLD_APPLIED", d>> \in events
       /\ row.locked => <<"DOCUMENT_LOCKED", d>> \in events
       /\ row.archived => <<"DOCUMENT_ARCHIVED", d>> \in events
  /\ row = Absent /\ <<"DOCUMENT_UPLOADED", d>> \in events => <<"DOCUMENT_DELETED", d>> \in events

\* What the outbox knows; nothing is asked of it for a document it was not
\* told of.
Known == outbox \cup (Events \X untold)

\* What it is told next.
Told(step, j) == IF step = "announce" THEN Known \cup {<<j.event, j.doc>>} ELSE Known

\* The steps on which a job has changed only some of the stores.
Midway == {"create", "scan", "reread", "describe", "retire", "undo", "remove", "mark"}

StoresTold(step, j) ==
  \A d \in Docs : (step \in Midway /\ j.doc = d) \/ Agrees(meta[d], blob[d], d, Told(step, j))

\* What is missing is what the next calls of the job do.
MidwayAgrees(step, j) ==
  /\ step # "markMissing"
  /\ step \in {"create", "scan", "reread", "describe", "retire"} => blob[j.doc] = {"document"}
  /\ step \in {"undo", "remove"} => blob[j.doc] = {}
  /\ j.command = "ATTACH" =>
       (<<"DOCUMENT_UPLOADED", j.doc>> \in Known => <<"DOCUMENT_DELETED", j.doc>> \in Known)
  /\ step = "mark" =>
       /\ blob[j.doc] = {"archive"} /\ <<"DOCUMENT_UPLOADED", j.doc>> \in Known
       /\ j.row.locked => <<"DOCUMENT_LOCKED", j.doc>> \in Known

Supersedes(e, d) == meta[e] # Absent /\ meta[e].supersedes = d

\* The version an upload supersedes has no other successor while it is current.
OnlyCurrent(j) ==
  j.command = "ATTACH" /\ j.old # None =>
    \A e \in Docs \ {j.doc} : Supersedes(e, j.old) => ~j.oldRow.current

\* A superseded version is current only between the two writes.
CurrentAlone(step, j) ==
  \A d, e \in Docs : Supersedes(e, d) /\ meta[d] # Absent /\ meta[d].current =>
    step \in {"retire", "undo"} /\ j.doc = e /\ j.old = d

StoresInv(step, j) ==
  StoresTold(step, j) /\ MidwayAgrees(step, j) /\ OnlyCurrent(j) /\ CurrentAlone(step, j)

SInv == crashes = 0 => \A c \in Callers : StoresInv(pc[c], job[c])

\* What the outbox knows of other documents does not matter.
LEMMA AgreesTold ==
  ASSUME NEW d \in Docs, NEW row, NEW bytes, NEW events, NEW more, Agrees(row, bytes, d, events),
         \A event \in Events : <<event, d>> \in events <=> <<event, d>> \in more
  PROVE  Agrees(row, bytes, d, more)
BY DEF Agrees, Events

LEMMA InitSInv == Init => SInv
<1> SUFFICES ASSUME Init, NEW c \in Callers PROVE StoresInv(pc[c], job[c])
  BY DEF SInv
<1>1. pc[c] = "idle" /\ job[c].command = None /\ job[c].doc = None
  BY DEF Init, Idle, NewJob
<1>2. StoresTold(pc[c], job[c])
  BY <1>1 DEF Init, StoresTold, Agrees, BytesOf, Told, Known
<1>3. MidwayAgrees(pc[c], job[c]) /\ OnlyCurrent(job[c])
  BY <1>1, NoneAssumption DEF MidwayAgrees, OnlyCurrent, Commands
<1>4. CurrentAlone(pc[c], job[c])
  BY DEF Init, CurrentAlone
<1> QED
  BY <1>2, <1>3, <1>4 DEF StoresInv
\* The events of a job that has none to tell, and of one that has.
LEMMA ToldNext ==
  ASSUME NEW c \in Callers, pc[c] # "announce", UNCHANGED Known
  PROVE  /\ Told(pc[c], job[c]) = Known
         /\ pc'[c] # "announce" => Told(pc[c], job[c])' = Known
         /\ pc'[c] = "announce" =>
              Told(pc[c], job[c])' = Known \cup {<<job'[c].event, job'[c].doc>>}
BY DEF Told, Known

\* Steps that write nothing.
LEMMA QuietStores ==
  ASSUME DInv, NEW c \in Callers, StoresInv(pc[c], job[c]), UNCHANGED <<meta, blob, Known>>,
         pc[c] \in {"idle", "edit", "sweep", "successor"},
         pc'[c] \in {"idle", "edit", "sweep", "successor"}, job'[c].command # "ATTACH"
  PROVE  StoresInv(pc[c], job[c])'
<1>1. StoresTold(pc[c], job[c])'
  BY ToldNext DEF StoresInv, StoresTold, Midway
<1>2. MidwayAgrees(pc[c], job[c])' /\ OnlyCurrent(job[c])'
  BY DEF MidwayAgrees, OnlyCurrent
<1>3. CurrentAlone(pc[c], job[c])'
  BY DEF StoresInv, CurrentAlone, Supersedes
<1> QED
  BY <1>1, <1>2, <1>3 DEF StoresInv

LEMMA RequestStores ==
  ASSUME DInv, NEW c \in Callers, StoresInv(pc[c], job[c]), Request(c)
  PROVE  StoresInv(pc[c], job[c])'
<1>0. StoresTyped /\ Named /\ TInv
  BY DInvFacts DEF DInv
<1>1. ASSUME NEW d \in Docs, NEW command \in Edits, Edit(c, command, d)
      PROVE  StoresInv(pc[c], job[c])'
  <2>1. /\ UNCHANGED <<meta, blob, Known>> /\ pc[c] = "idle" /\ pc'[c] = "edit"
        /\ job'[c].command # "ATTACH"
    BY <1>0, <1>1 DEF Edit, Begin, TInv, NewJob, Edits, Known
  <2> QED
    BY <2>1, QuietStores
<1>2. ASSUME NEW d \in Docs, NEW old \in Docs \cup {None}, Attach(c, d, old)
      PROVE  StoresInv(pc[c], job[c])'
  <2>1. /\ UNCHANGED <<meta, Known>> /\ pc[c] = "idle" /\ pc'[c] = "create"
        /\ d \notin named /\ blob' = [blob EXCEPT ![d] = {"document"}]
    BY <1>0, <1>2 DEF Attach, Begin, TInv, Known
  <2>2. /\ job'[c].doc = d /\ job'[c].old = old
        /\ old # None => job'[c].oldRow = meta[old] /\ meta[old] # Absent
    BY <1>0, <1>2 DEF Attach, Begin, TInv, NewJob
  <2>3. StoresTold(pc[c], job[c])'
    <3>1. \A e \in Docs \ {d} : Agrees(meta[e], blob[e], e, Known) /\ blob'[e] = blob[e]
      BY <1>0, <2>1, ToldNext DEF StoresInv, StoresTold, Midway, StoresTyped
    <3> QED
      BY <2>1, <2>2, <3>1, ToldNext DEF StoresTold, Midway
  <2>4. MidwayAgrees(pc[c], job[c])'
    <3>1. <<"DOCUMENT_UPLOADED", d>> \notin outbox
      BY <1>0, <2>1 DEF Named
    <3>2. <<"DOCUMENT_UPLOADED", d>> \in Known => <<"DOCUMENT_DELETED", d>> \in Known
      BY <3>1 DEF Known, Events
    <3> QED
      BY <1>0, <2>1, <2>2, <3>2 DEF MidwayAgrees, StoresTyped
  <2>5. OnlyCurrent(job[c])'
    BY <2>1, <2>2 DEF StoresInv, CurrentAlone, OnlyCurrent, Supersedes
  <2>6. CurrentAlone(pc[c], job[c])'
    BY <2>1 DEF StoresInv, CurrentAlone, Supersedes
  <2> QED
    BY <2>3, <2>4, <2>5, <2>6 DEF StoresInv
<1>3. ASSUME NEW d \in Docs, Delete(c, d)
      PROVE  StoresInv(pc[c], job[c])'
  <2>1. /\ UNCHANGED <<meta, blob, Known>> /\ pc[c] = "idle" /\ pc'[c] = "successor"
        /\ job'[c].command # "ATTACH"
    BY <1>0, <1>3 DEF Delete, Begin, TInv, NewJob, Known
  <2> QED
    BY <2>1, QuietStores
<1>4. ASSUME Sweep(c) PROVE StoresInv(pc[c], job[c])'
  <2>1. /\ UNCHANGED <<meta, blob, Known>> /\ pc[c] = "idle" /\ pc'[c] = "sweep"
        /\ job'[c].command # "ATTACH"
    BY <1>0, <1>4 DEF Sweep, Begin, TInv, NewJob, Known
  <2> QED
    BY <2>1, QuietStores
<1> QED
  BY <1>1, <1>2, <1>3, <1>4 DEF Request, Edits

\* A step that writes one row and tells its event next.
LEMMA TellsNext ==
  ASSUME DInv, NEW c \in Callers, StoresInv(pc[c], job[c]), NEW d \in Docs,
         pc[c] # "announce", pc[c] \in Midway => job[c].doc = d, UNCHANGED Known,
         job'[c].doc = d, pc'[c] = "announce",
         \A e \in Docs \ {d} : meta'[e] = meta[e] /\ blob'[e] = blob[e],
         Agrees(meta'[d], blob'[d], d, Known \cup {<<job'[c].event, d>>})
  PROVE  StoresTold(pc[c], job[c])'
<1> DEFINE events == Known \cup {<<job'[c].event, d>>}
<1>1. Told(pc[c], job[c]) = Known /\ Told(pc[c], job[c])' = events
  BY ToldNext
<1>2. ASSUME NEW e \in Docs, e # d
      PROVE  Agrees(meta'[e], blob'[e], e, events)
  <2>1. Agrees(meta[e], blob[e], e, Known)
    BY <1>1, <1>2 DEF StoresInv, StoresTold
  <2>2. \A event \in Events : <<event, e>> \in Known <=> <<event, e>> \in events
    BY <1>2
  <2>3. Agrees(meta[e], blob[e], e, events)
    BY <2>1, <2>2, AgreesTold
  <2> QED
    BY <1>2, <2>3
<1> QED
  BY <1>1, <1>2 DEF StoresTold

\* Publishing tells of the job's document, or it is not told of any more.
LEMMA PublishTells ==
  ASSUME NEW c \in Callers, NEW event \in Events, Publish(c, event), NEW d \in Docs,
         NEW row, NEW bytes, Agrees(row, bytes, d, Known \cup {<<event, job[c].doc>>})
  PROVE  Agrees(row, bytes, d, Known')
<1>1. CASE outbox' = outbox \cup {<<event, job[c].doc>>} /\ UNCHANGED untold
  <2>1. Known' = Known \cup {<<event, job[c].doc>>}
    BY <1>1 DEF Known
  <2> QED
    BY <2>1
<1>2. CASE untold' = untold \cup {job[c].doc} /\ UNCHANGED outbox
  <2>1. CASE d = job[c].doc
    <3>1. \A e \in Events : <<e, d>> \in Known'
      BY <1>2, <2>1 DEF Known
    <3> QED
      BY <3>1 DEF Agrees, Events
  <2>2. CASE d # job[c].doc
    <3>1. \A e \in Events :
            <<e, d>> \in Known \cup {<<event, job[c].doc>>} <=> <<e, d>> \in Known'
      BY <1>2, <2>2 DEF Known
    <3> QED
      BY <3>1, AgreesTold
  <2> QED
    BY <2>1, <2>2
<1> QED
  BY <1>1, <1>2 DEF Publish

LEMMA EditStores ==
  ASSUME DInv, NEW c \in Callers, StoresInv(pc[c], job[c]), WriteEdit(c) \/ Announce(c)
  PROVE  StoresInv(pc[c], job[c])'
<1>0. StoresTyped /\ Named /\ TInv /\ JobTyped(pc[c], job[c]) /\ JobInv(pc[c], job[c])
      /\ job[c] \in Job
  BY DInvFacts DEF DInv
<1>1. CASE WriteEdit(c)
  <2> DEFINE d == job[c].doc
             command == job[c].command
             event == EventAfter(command, job[c].row)
  <2>1. /\ d \in Docs /\ "document" \in blob[d] /\ command \in Edits
        /\ WriteRow(d, Changed(command, Row(d))) /\ Changed(command, Row(d)) \in Metadata
        /\ job[c].row = Row(d) /\ pc[c] = "edit" /\ UNCHANGED <<blob, Known>>
    BY <1>0, <1>1, EditWrites DEF WriteEdit, JobInv, ReadIsCurrent, Known
  <2>2. Agrees(meta[d], blob[d], d, Known)
    BY <2>1, ToldNext DEF StoresInv, StoresTold, Midway
  <2>3. meta[d] # Absent /\ Row(d) = meta[d] /\ meta[d] \in Metadata
    BY <1>0, <2>1, <2>2 DEF Agrees, BytesOf, Row, StoresTyped
  <2>4. meta'[d] = Changed(command, meta[d]) /\ meta'[d] # Absent
        /\ \A e \in Docs \ {d} : meta'[e] = meta[e]
    BY <1>0, <2>1, <2>3, AbsentAssumption DEF WriteRow, StoresTyped
  <2>5. /\ meta'[d].archived = meta[d].archived /\ meta'[d].current = meta[d].current
        /\ meta'[d].supersedes = meta[d].supersedes
    BY <2>1, <2>3, <2>4 DEF Changed, Edits, Metadata
  <2>6. CurrentAlone(pc[c], job[c])'
    BY <2>1, <2>3, <2>4, <2>5 DEF StoresInv, CurrentAlone, Supersedes
  <2>7. CASE event = None
    <3>1. pc'[c] = "idle" /\ job'[c].command = None
      BY <1>0, <1>1, <2>7 DEF WriteEdit, Done, Goto, TInv, Idle, NewJob
    <3>2. command \notin {"LOCK", "RELEASE"} /\ (command = "HOLD" => meta[d].held)
      BY <2>1, <2>3, <2>7, NoneAssumption DEF EventAfter, Events, Edits
    <3>3. (meta'[d].held <=> meta[d].held) /\ (meta'[d].locked <=> meta[d].locked)
      BY <2>1, <2>3, <2>4, <3>2 DEF Changed, Metadata, Edits
    <3>4. Agrees(meta'[d], blob'[d], d, Known)
      BY <2>1, <2>2, <2>3, <2>4, <2>5, <3>3 DEF Agrees, BytesOf
    <3>5. StoresTold(pc[c], job[c])'
      BY <2>1, <2>4, <3>1, <3>4, ToldNext DEF StoresInv, StoresTold, Midway
    <3>6. MidwayAgrees(pc[c], job[c])' /\ OnlyCurrent(job[c])'
      BY <3>1, NoneAssumption DEF MidwayAgrees, OnlyCurrent, Commands
    <3> QED
      BY <2>6, <3>5, <3>6 DEF StoresInv
  <2>8. CASE event # None
    <3>1. pc'[c] = "announce" /\ job'[c].command = command /\ job'[c].doc = d
          /\ job'[c].event = event
      BY <1>0, <1>1, <2>8 DEF WriteEdit, Goto, TInv, Job
    <3>2. /\ command = "LOCK" => event = "DOCUMENT_LOCKED"
          /\ command = "HOLD" /\ ~meta[d].held => event = "DOCUMENT_LEGAL_HOLD_APPLIED"
      BY <2>1, <2>3 DEF EventAfter
    <3>3. /\ meta'[d].held => meta[d].held \/ command = "HOLD"
          /\ meta'[d].locked => meta[d].locked \/ command = "LOCK"
      BY <2>1, <2>3, <2>4 DEF Changed, Metadata, Edits
    <3>4. Agrees(meta'[d], blob'[d], d, Known \cup {<<event, d>>})
      BY <2>1, <2>2, <2>3, <2>4, <2>5, <3>2, <3>3 DEF Agrees, BytesOf
    <3>5. StoresTold(pc[c], job[c])'
      BY <2>1, <2>4, <3>1, <3>4, TellsNext DEF Midway
    <3>6. MidwayAgrees(pc[c], job[c])' /\ OnlyCurrent(job[c])'
      BY <2>1, <3>1 DEF MidwayAgrees, OnlyCurrent, Edits
    <3> QED
      BY <2>6, <3>5, <3>6 DEF StoresInv
  <2> QED
    BY <2>7, <2>8
<1>2. CASE Announce(c)
  <2>1. /\ pc[c] = "announce" /\ UNCHANGED <<meta, blob>> /\ Publish(c, job[c].event)
        /\ job[c].event \in Events /\ Told(pc[c], job[c]) = Known \cup {<<job[c].event, job[c].doc>>}
    BY <1>0, <1>2 DEF Announce, Told, JobTyped
  <2>2. pc'[c] \in {"idle", "sweep"} /\ job'[c].command # "ATTACH"
    BY <1>0, <1>2, NoneAssumption DEF Announce, Done, Goto, TInv, Idle, NewJob, Commands
  <2>3. StoresTold(pc[c], job[c])'
    <3>1. \A e \in Docs : Agrees(meta[e], blob[e], e, Known \cup {<<job[c].event, job[c].doc>>})
      BY <2>1 DEF StoresInv, StoresTold, Midway
    <3>2. \A e \in Docs : Agrees(meta'[e], blob'[e], e, Known')
      BY <2>1, <3>1, PublishTells
    <3> QED
      BY <2>2, <3>2 DEF StoresTold, Told
  <2>4. MidwayAgrees(pc[c], job[c])' /\ OnlyCurrent(job[c])'
    BY <2>2 DEF MidwayAgrees, OnlyCurrent
  <2>5. CurrentAlone(pc[c], job[c])'
    BY <2>1 DEF StoresInv, CurrentAlone, Supersedes
  <2> QED
    BY <2>3, <2>4, <2>5 DEF StoresInv
<1> QED
  BY <1>1, <1>2

LEMMA UploadStores ==
  ASSUME DInv, NEW c \in Callers, StoresInv(pc[c], job[c]),
         Create(c) \/ Reread(c) \/ Describe(c) \/ Retire(c)
  PROVE  StoresInv(pc[c], job[c])'
<1> DEFINE d == job[c].doc
           old == job[c].old
<1>1. job[c].command = "ATTACH"
  BY DInvFacts DEF JobTyped, Uploading, Create, Reread, Describe, Retire
<1>2. /\ StoresTyped /\ Named /\ TInv /\ UploadAlone(pc[c], job[c])
      /\ job[c] \in Job /\ d \in Docs /\ d # None /\ old \in Docs \cup {None}
      /\ old # None => job[c].oldRow \in Metadata
  BY <1>1, UploadFacts
<1>3. d \in named /\ ~HasSuccessor(d) /\ old # d
  BY <1>2 DEF UploadAlone
<1>4. \A e \in Docs : ~Supersedes(e, d)
  BY <1>3 DEF Supersedes, HasSuccessor
<1>5. CASE Create(c)
  <2>1. pc[c] = "create" /\ pc'[c] = "scan" /\ UNCHANGED <<blob, Known, job>>
        /\ meta' = [meta EXCEPT ![d] = Blank]
    BY <1>2, <1>5 DEF Create, WriteRow, Goto, TInv, Known
  <2>2. meta'[d] = Blank /\ Blank.supersedes = None /\ \A e \in Docs \ {d} : meta'[e] = meta[e]
    BY <1>2, <2>1 DEF StoresTyped, Blank
  <2>3. StoresTold(pc[c], job[c])'
    BY <2>1, <2>2, ToldNext DEF StoresInv, StoresTold, Midway
  <2>4. MidwayAgrees(pc[c], job[c])'
    BY <2>1 DEF StoresInv, MidwayAgrees
  <2>5. OnlyCurrent(job[c])'
    BY <1>2, <2>1, <2>2 DEF StoresInv, OnlyCurrent, Supersedes
  <2>6. CurrentAlone(pc[c], job[c])'
    BY <1>2, <1>4, <2>1, <2>2, DocsAssumption DEF StoresInv, CurrentAlone, Supersedes
  <2> QED
    BY <2>3, <2>4, <2>5, <2>6 DEF StoresInv
<1>6. CASE Reread(c)
  <2>1. pc[c] = "reread" /\ pc'[c] = "describe" /\ UNCHANGED <<meta, blob, Known>>
    BY <1>2, <1>6 DEF Reread, Goto, TInv, Known
  <2>2. /\ job'[c].doc = d /\ job'[c].old = old
        /\ job'[c].oldRow = job[c].oldRow /\ job'[c].command = "ATTACH"
    BY <1>1, <1>2, <1>6 DEF Reread, TInv, Job
  <2>3. StoresTold(pc[c], job[c])'
    BY <2>1, <2>2, ToldNext DEF StoresInv, StoresTold, Midway
  <2>4. MidwayAgrees(pc[c], job[c])'
    BY <1>1, <2>1, <2>2 DEF StoresInv, MidwayAgrees
  <2>5. OnlyCurrent(job[c])'
    BY <1>1, <2>1, <2>2 DEF StoresInv, OnlyCurrent, Supersedes
  <2>6. CurrentAlone(pc[c], job[c])'
    BY <2>1 DEF StoresInv, CurrentAlone, Supersedes
  <2> QED
    BY <2>3, <2>4, <2>5, <2>6 DEF StoresInv
<1>7. CASE Describe(c)
  <2>1. pc[c] = "describe" /\ UNCHANGED <<blob, Known>>
        /\ pc'[c] = (IF old = None THEN "announce" ELSE "retire")
    BY <1>2, <1>7 DEF Describe, Goto, TInv, Known
  <2>2. /\ job'[c].event = "DOCUMENT_UPLOADED" /\ job'[c].doc = d /\ job'[c].old = old
        /\ job'[c].oldRow = job[c].oldRow /\ job'[c].command = "ATTACH"
    BY <1>1, <1>2, <1>7 DEF Describe, TInv, Job
  <2>3. job[c].row = Blank
    BY <1>2, <2>1 DEF UploadAlone
  <2>4. PICK row \in Metadata :
          /\ meta' = [meta EXCEPT ![d] = row]
          /\ ~row.held /\ ~row.locked /\ ~row.archived /\ row.supersedes = old
    <3>1. CASE old = None
      BY <1>7, <2>3, <3>1, RowTyped DEF Describe, WriteRow, Blank
    <3>2. CASE old # None
      <4> DEFINE new == [Blank EXCEPT !.supersedes = old, !.current = TRUE]
      <4>1. new \in Metadata
        BY <1>2, <3>2, RowTyped
      <4>2. ~new.held /\ ~new.locked /\ ~new.archived /\ new.supersedes = old
        BY DEF Blank
      <4>3. meta' = [meta EXCEPT ![d] = new]
        BY <1>7, <2>3, <3>2 DEF Describe, WriteRow
      <4> QED
        BY <4>1, <4>2, <4>3
    <3> QED
      BY <3>1, <3>2
  <2>5. meta'[d] = row /\ row # Absent /\ \A e \in Docs \ {d} : meta'[e] = meta[e]
    BY <1>2, <2>4, AbsentAssumption DEF StoresTyped
  <2>6. StoresTold(pc[c], job[c])'
    <3>1. CASE old = None
      <4>1. blob[d] = {"document"}
        BY <2>1 DEF StoresInv, MidwayAgrees
      <4>2. Agrees(meta'[d], blob'[d], d, Known \cup {<<job'[c].event, d>>})
        BY <2>1, <2>2, <2>4, <2>5, <4>1 DEF Agrees, BytesOf
      <4> QED
        BY <1>2, <2>1, <2>2, <2>5, <3>1, <4>2, TellsNext
    <3>2. CASE old # None
      BY <2>1, <2>2, <2>5, <3>2, ToldNext DEF StoresInv, StoresTold, Midway
    <3> QED
      BY <3>1, <3>2
  <2>7. MidwayAgrees(pc[c], job[c])'
    BY <1>1, <2>1, <2>2 DEF StoresInv, MidwayAgrees
  <2>8. OnlyCurrent(job[c])'
    BY <1>1, <1>2, <2>2, <2>5 DEF StoresInv, OnlyCurrent, Supersedes
  <2>9. CurrentAlone(pc[c], job[c])'
    BY <1>2, <1>3, <1>4, <2>1, <2>2, <2>4, <2>5, DocsAssumption DEF StoresInv, CurrentAlone, Supersedes
  <2> QED
    BY <2>6, <2>7, <2>8, <2>9 DEF StoresInv
<1>8. CASE Retire(c)
  <2> DEFINE row == Retired(job[c].oldRow)
  <2>1. pc[c] = "retire" /\ pc'[c] = "announce" /\ UNCHANGED <<blob, Known, job>>
        /\ WriteRow(old, row)
    BY <1>2, <1>8 DEF Retire, Retired, Goto, TInv, Known
  <2>2. old # None
    BY <2>1, DInvFacts DEF JobTyped
  <2>3. meta[old] = job[c].oldRow /\ meta[d] = Described(job[c]) /\ job[c].event = "DOCUMENT_UPLOADED"
    BY <1>2, <2>1, <2>2 DEF UploadAlone
  <2>4. /\ row \in Metadata /\ row # Absent /\ ~row.current
        /\ row.supersedes = meta[old].supersedes /\ row.held = meta[old].held
        /\ row.locked = meta[old].locked /\ row.archived = meta[old].archived
    BY <1>2, <2>2, <2>3, AbsentAssumption DEF Retired, Metadata
  <2>5. meta'[old] = row /\ \A e \in Docs \ {old} : meta'[e] = meta[e]
    BY <1>2, <2>1, <2>2 DEF WriteRow, StoresTyped
  <2>6. meta[old] # Absent /\ meta[d] # Absent
    <3>1. Described(job[c]) \in Metadata
      BY <1>2 DEF Described, Metadata
    <3> QED
      BY <1>2, <2>2, <2>3, <3>1, AbsentAssumption
  <2> DEFINE events == Known \cup {<<"DOCUMENT_UPLOADED", d>>}
  <2>7. Told(pc[c], job[c]) = Known /\ Told(pc[c], job[c])' = events
    BY <2>1, <2>3, ToldNext
  <2>8. ASSUME NEW e \in Docs, e # d
        PROVE  Agrees(meta'[e], blob'[e], e, events)
    <3>1. Agrees(meta[e], blob[e], e, Known)
      BY <2>7, <2>8 DEF StoresInv, StoresTold
    <3>2. Agrees(meta[e], blob[e], e, events)
      BY <2>8, <3>1, AgreesTold
    <3>3. CASE e = old
      BY <2>1, <2>4, <2>5, <2>6, <3>2, <3>3 DEF Agrees, BytesOf
    <3>4. CASE e # old
      BY <2>1, <2>5, <3>2, <3>4
    <3> QED
      BY <3>3, <3>4
  <2>9. Agrees(meta'[d], blob'[d], d, events)
    <3>1. blob[d] = {"document"}
      BY <2>1 DEF StoresInv, MidwayAgrees
    <3>2. ~meta[d].held /\ ~meta[d].locked /\ ~meta[d].archived
      BY <2>3 DEF Described
    <3> QED
      BY <1>2, <1>3, <2>1, <2>5, <2>6, <3>1, <3>2 DEF Agrees, BytesOf
  <2>10. StoresTold(pc[c], job[c])'
    BY <2>7, <2>8, <2>9 DEF StoresTold
  <2>11. MidwayAgrees(pc[c], job[c])'
    BY <2>1 DEF StoresInv, MidwayAgrees
  <2>12. OnlyCurrent(job[c])'
    BY <2>1, <2>4, <2>5, <2>6 DEF StoresInv, OnlyCurrent, Supersedes
  <2>13. CurrentAlone(pc[c], job[c])'
    BY <2>1, <2>4, <2>5, <2>6 DEF StoresInv, CurrentAlone, Supersedes
  <2> QED
    BY <2>10, <2>11, <2>12, <2>13 DEF StoresInv
<1> QED
  BY <1>5, <1>6, <1>7, <1>8

LEMMA ScanStores ==
  ASSUME DInv, NEW c \in Callers, StoresInv(pc[c], job[c]), AnnounceScan(c) \/ RaiseScan(c)
  PROVE  StoresInv(pc[c], job[c])'
<1> DEFINE d == job[c].doc
<1>1. job[c].command = "ATTACH"
  BY DInvFacts DEF JobTyped, Uploading, AnnounceScan, RaiseScan
<1>2. StoresTyped /\ TInv /\ UploadAlone(pc[c], job[c]) /\ d \in Docs
  BY <1>1, UploadFacts
<1>3. pc[c] = "scan" /\ UNCHANGED <<meta, blob>> /\ meta[d] = Blank /\ blob[d] = {"document"}
  BY <1>2 DEF AnnounceScan, RaiseScan, UploadAlone, StoresInv, MidwayAgrees
<1>4. \A e \in Docs \ {d} : Agrees(meta[e], blob[e], e, Known)
  BY <1>3 DEF StoresInv, StoresTold, Told
<1>5. CurrentAlone(pc[c], job[c])'
  BY <1>3 DEF StoresInv, CurrentAlone, Supersedes
<1>6. CASE AnnounceScan(c)
  <2>1. /\ pc'[c] = "reread" /\ UNCHANGED job /\ Publish(c, "DOCUMENT_SCAN_COMPLETED")
        /\ "DOCUMENT_SCAN_COMPLETED" \in Events
    BY <1>2, <1>6 DEF AnnounceScan, Goto, TInv, Events
  <2>2. \A e \in Docs \ {d} : Agrees(meta[e], blob[e], e, Known')
    <3>1. TAKE e \in Docs \ {d}
    <3>2. Agrees(meta[e], blob[e], e, Known \cup {<<"DOCUMENT_SCAN_COMPLETED", d>>})
      BY <1>4, AgreesTold
    <3> QED
      BY <2>1, <3>2, PublishTells
  <2>3. StoresTold(pc[c], job[c])'
    BY <1>3, <2>1, <2>2 DEF StoresTold, Midway, Told
  <2>4. <<"DOCUMENT_UPLOADED", d>> \in Known' => <<"DOCUMENT_DELETED", d>> \in Known'
    <3>1. <<"DOCUMENT_UPLOADED", d>> \in Known => <<"DOCUMENT_DELETED", d>> \in Known
      BY <1>1 DEF StoresInv, MidwayAgrees
    <3> QED
      BY <1>2, <2>1, <3>1 DEF Publish, Known, Events
  <2>5. MidwayAgrees(pc[c], job[c])'
    BY <1>3, <2>1, <2>4 DEF StoresInv, MidwayAgrees
  <2>6. OnlyCurrent(job[c])'
    BY <1>3, <2>1 DEF StoresInv, OnlyCurrent, Supersedes
  <2> QED
    BY <1>5, <2>3, <2>5, <2>6 DEF StoresInv
<1>7. CASE RaiseScan(c)
  <2>1. pc'[c] = "idle" /\ job'[c].command = None
    BY <1>2, <1>7 DEF RaiseScan, Done, Goto, TInv, Idle, NewJob
  <2>2. Known' = Known \cup (Events \X {d})
    BY <1>7 DEF RaiseScan, Known
  <2>3. Agrees(meta'[d], blob'[d], d, Known')
    <3>1. \A event \in Events : <<event, d>> \in Known'
      BY <2>2
    <3>2. BytesOf(Blank) = {"document"} /\ Blank # Absent
      BY RowTyped, AbsentAssumption DEF BytesOf, Blank
    <3> QED
      BY <1>3, <3>1, <3>2 DEF Agrees, Events
  <2>4. ASSUME NEW e \in Docs \ {d} PROVE Agrees(meta'[e], blob'[e], e, Known')
    <3>1. \A event \in Events : <<event, e>> \in Known <=> <<event, e>> \in Known'
      BY <2>2
    <3> QED
      BY <1>3, <1>4, <3>1, AgreesTold
  <2>5. StoresTold(pc[c], job[c])'
    BY <2>1, <2>3, <2>4 DEF StoresTold, Told
  <2>6. MidwayAgrees(pc[c], job[c])' /\ OnlyCurrent(job[c])'
    BY <2>1, NoneAssumption DEF MidwayAgrees, OnlyCurrent, Commands
  <2> QED
    BY <1>5, <2>5, <2>6 DEF StoresInv
<1> QED
  BY <1>6, <1>7

LEMMA UndoStores ==
  ASSUME DInv, NEW c \in Callers, StoresInv(pc[c], job[c]), crashes' = crashes,
         Raise(c) \/ Undo(c) \/ Restore(c)
  PROVE  StoresInv(pc[c], job[c])'
<1> DEFINE d == job[c].doc
           old == job[c].old
<1>1. job[c].command = "ATTACH" /\ JobTyped(pc[c], job[c])
  BY DInvFacts DEF JobTyped, Uploading, Raise, Undo, Restore
<1>2. /\ StoresTyped /\ Named /\ TInv /\ UploadAlone(pc[c], job[c])
      /\ job[c] \in Job /\ d \in Docs /\ d # None /\ old \in Docs \cup {None}
      /\ old # None => job[c].oldRow \in Metadata
  BY <1>1, UploadFacts
<1>3. d \in named /\ ~HasSuccessor(d) /\ old # d
  BY <1>2 DEF UploadAlone
<1>4. \A e \in Docs : ~Supersedes(e, d)
  BY <1>3 DEF Supersedes, HasSuccessor
<1>5. CASE Raise(c)
  <2>1. /\ UNCHANGED <<meta, Known>> /\ blob' = [blob EXCEPT ![d] = @ \ {"document"}]
        /\ pc[c] \in {"create", "reread", "describe", "retire", "announce"}
    BY <1>2, <1>5 DEF Raise, StoresTyped, Known
  <2>2. blob[d] = {"document"}
    <3>1. CASE pc[c] = "announce"
      <4>1. meta[d] = Described(job[c])
        BY <1>2, <3>1 DEF UploadAlone
      <4>2. meta[d] \in Metadata /\ ~meta[d].archived
        BY <1>2, <4>1 DEF Described, Metadata
      <4>3. BytesOf(meta[d]) = {"document"}
        BY <4>2, AbsentAssumption DEF BytesOf
      <4> QED
        BY <1>2, <3>1, <4>3 DEF StoresInv, StoresTold, Midway, Agrees
    <3>2. CASE pc[c] # "announce"
      BY <2>1, <3>2 DEF StoresInv, MidwayAgrees
    <3> QED
      BY <3>1, <3>2
  <2>3. blob'[d] = {} /\ \A e \in Docs \ {d} : blob'[e] = blob[e]
    BY <1>2, <2>1, <2>2 DEF StoresTyped
  <2>4. <<"DOCUMENT_UPLOADED", d>> \in Known => <<"DOCUMENT_DELETED", d>> \in Known
    BY <1>1, <2>1 DEF StoresInv, MidwayAgrees
  <2>5. \A e \in Docs \ {d} : Agrees(meta[e], blob[e], e, Known)
    <3>1. TAKE e \in Docs \ {d}
    <3>2. Agrees(meta[e], blob[e], e, Told(pc[c], job[c]))
      BY DEF StoresInv, StoresTold
    <3>3. \A event \in Events : <<event, e>> \in Told(pc[c], job[c]) <=> <<event, e>> \in Known
      BY DEF Told
    <3> QED
      BY <3>2, <3>3, AgreesTold
  <2>6. CASE pc[c] = "create"
    <3>1. pc'[c] = "idle" /\ job'[c].command = None
      BY <1>2, <1>5, <2>6 DEF Raise, Done, Goto, TInv, Idle, NewJob
    <3>2. meta[d] = Absent
      BY <1>2, <2>6 DEF UploadAlone
    <3>3. Agrees(meta'[d], blob'[d], d, Known)
      BY <2>1, <2>3, <2>4, <3>2 DEF Agrees, BytesOf
    <3>4. StoresTold(pc[c], job[c])'
      BY <2>1, <2>3, <2>5, <3>1, <3>3 DEF StoresTold, Told
    <3>5. MidwayAgrees(pc[c], job[c])' /\ OnlyCurrent(job[c])'
      BY <3>1, NoneAssumption DEF MidwayAgrees, OnlyCurrent, Commands
    <3>6. CurrentAlone(pc[c], job[c])'
      BY <2>1, <2>6 DEF StoresInv, CurrentAlone, Supersedes
    <3> QED
      BY <3>4, <3>5, <3>6 DEF StoresInv
  <2>7. CASE pc[c] # "create"
    <3>1. pc'[c] = "undo" /\ UNCHANGED job
      BY <1>2, <1>5, <2>7 DEF Raise, Goto, TInv
    <3>2. StoresTold(pc[c], job[c])'
      BY <2>1, <2>3, <2>5, <3>1 DEF StoresTold, Told, Midway
    <3>3. MidwayAgrees(pc[c], job[c])'
      BY <2>1, <2>3, <2>4, <3>1 DEF MidwayAgrees
    <3>4. OnlyCurrent(job[c])'
      BY <2>1, <3>1 DEF StoresInv, OnlyCurrent, Supersedes
    <3>5. CurrentAlone(pc[c], job[c])'
      BY <2>1, <3>1 DEF StoresInv, CurrentAlone, Supersedes
    <3> QED
      BY <3>2, <3>3, <3>4, <3>5 DEF StoresInv
  <2> QED
    BY <2>6, <2>7
<1>6. CASE Undo(c)
  <2>1. pc[c] = "undo" /\ UNCHANGED <<blob, Known>> /\ WriteRow(d, Absent)
    BY <1>6 DEF Undo, Known
  <2>2. meta'[d] = Absent /\ \A e \in Docs \ {d} : meta'[e] = meta[e]
    BY <1>2, <2>1 DEF StoresTyped, WriteRow
  <2>3. /\ blob[d] = {}
        /\ <<"DOCUMENT_UPLOADED", d>> \in Known => <<"DOCUMENT_DELETED", d>> \in Known
    BY <1>1, <2>1 DEF StoresInv, MidwayAgrees
  <2>4. \A e \in Docs : Agrees(meta'[e], blob'[e], e, Known)
    <3>1. Agrees(meta'[d], blob'[d], d, Known)
      BY <2>1, <2>2, <2>3 DEF Agrees, BytesOf
    <3>2. \A e \in Docs \ {d} : Agrees(meta'[e], blob'[e], e, Known)
      BY <2>1, <2>2 DEF StoresInv, StoresTold, Told
    <3> QED
      BY <3>1, <3>2
  <2>5. /\ pc'[c] \in {"idle", "restore"}
        /\ job'[c] = job[c] \/ job'[c] = Idle
    BY <1>2, <1>6 DEF Undo, Done, Goto, TInv
  <2>6. StoresTold(pc[c], job[c])'
    BY <2>1, <2>4, <2>5 DEF StoresTold, Told
  <2>7. MidwayAgrees(pc[c], job[c])'
    BY <2>1, <2>3, <2>5, NoneAssumption DEF MidwayAgrees, Idle, NewJob, Commands
  <2>8. OnlyCurrent(job[c])'
    BY <2>2, <2>5, NoneAssumption DEF StoresInv, OnlyCurrent, Supersedes, Idle, NewJob, Commands
  <2>9. CurrentAlone(pc[c], job[c])'
    BY <1>2, <2>1, <2>2 DEF StoresInv, CurrentAlone, Supersedes
  <2> QED
    BY <2>6, <2>7, <2>8, <2>9 DEF StoresInv
<1>7. CASE Restore(c)
  <2>1. old # None /\ pc[c] = "restore" /\ UNCHANGED <<blob, Known>> /\ WriteRow(old, job[c].oldRow)
    BY <1>1, <1>7 DEF Restore, JobTyped, Known
  <2>2. meta[old] \in {job[c].oldRow, Retired(job[c].oldRow)} /\ meta[d] = Absent
    BY <1>2, <2>1 DEF UploadAlone
  <2>3. meta'[old] = job[c].oldRow /\ \A e \in Docs \ {old} : meta'[e] = meta[e]
    BY <1>2, <2>1 DEF StoresTyped, WriteRow
  <2>4. /\ meta[old] # Absent /\ meta'[old] # Absent /\ meta[old].held = meta'[old].held
        /\ meta[old].locked = meta'[old].locked /\ meta[old].archived = meta'[old].archived
        /\ meta[old].supersedes = meta'[old].supersedes
    <3>1. Retired(job[c].oldRow) \in Metadata
      BY <1>2, <2>1, RowTyped DEF Retired
    <3> QED
      BY <1>2, <2>1, <2>2, <2>3, <3>1, AbsentAssumption DEF Retired, Metadata
  <2>5. pc'[c] = "idle" /\ job'[c].command = None
    BY <1>2, <1>7 DEF Restore, Done, Goto, TInv, Idle, NewJob
  <2>6. StoresTold(pc[c], job[c])'
    <3>1. \A e \in Docs : Agrees(meta[e], blob[e], e, Known)
      BY <2>1 DEF StoresInv, StoresTold, Told, Midway
    <3>2. Agrees(meta'[old], blob'[old], old, Known)
      BY <1>2, <2>1, <2>4, <3>1 DEF Agrees, BytesOf
    <3> QED
      BY <2>1, <2>3, <2>5, <3>1, <3>2 DEF StoresTold, Told
  <2>7. MidwayAgrees(pc[c], job[c])' /\ OnlyCurrent(job[c])'
    BY <2>5, NoneAssumption DEF MidwayAgrees, OnlyCurrent, Commands
  <2>8. CurrentAlone(pc[c], job[c])'
    <3>1. ASSUME NEW x \in Docs, NEW e \in Docs, Supersedes(e, x)', meta'[x] # Absent, meta'[x].current
          PROVE  FALSE
      <4>1. Supersedes(e, x)
        BY <2>3, <2>4, <3>1 DEF Supersedes
      <4>2. e # d
        BY <2>2, <4>1 DEF Supersedes
      <4>3. CASE x = old
        BY <1>1, <2>1, <2>3, <3>1, <4>1, <4>2, <4>3 DEF StoresInv, OnlyCurrent
      <4>4. CASE x # old
        BY <2>1, <2>3, <3>1, <4>1, <4>4 DEF StoresInv, CurrentAlone
      <4> QED
        BY <4>3, <4>4
    <3> QED
      BY <3>1 DEF CurrentAlone
  <2> QED
    BY <2>6, <2>7, <2>8 DEF StoresInv
<1> QED
  BY <1>5, <1>6, <1>7

\* Steps that change the bytes of one document, whose row is next.
LEMMA BytesFirst ==
  ASSUME DInv, NEW c \in Callers, StoresInv(pc[c], job[c]), NEW d \in Docs,
         pc[c] \in {"successor", "sweep"}, UNCHANGED <<meta, Known>>,
         \A e \in Docs \ {d} : blob'[e] = blob[e],
         pc'[c] \in Midway, job'[c].doc = d, job'[c].command # "ATTACH",
         MidwayAgrees(pc[c], job[c])'
  PROVE  StoresInv(pc[c], job[c])'
<1>1. StoresTold(pc[c], job[c])'
  BY ToldNext DEF StoresInv, StoresTold, Midway
<1>2. OnlyCurrent(job[c])'
  BY DEF OnlyCurrent
<1>3. CurrentAlone(pc[c], job[c])'
  BY DEF StoresInv, CurrentAlone, Supersedes
<1> QED
  BY <1>1, <1>2, <1>3 DEF StoresInv

LEMMA RemovalStores ==
  ASSUME DInv, NEW c \in Callers, StoresInv(pc[c], job[c]), DeleteBytes(c) \/ RemoveRow(c)
  PROVE  StoresInv(pc[c], job[c])'
<1> DEFINE d == job[c].doc
<1>1. /\ StoresTyped /\ TInv /\ JobTyped(pc[c], job[c]) /\ JobInv(pc[c], job[c])
      /\ job[c] \in Job
  BY DInvFacts DEF DInv
<1>2. d \in Docs /\ job[c].command \in {"DELETE", "SWEEP"}
  BY <1>1 DEF JobTyped, DeleteBytes, RemoveRow
<1>3. CASE DeleteBytes(c)
  <2>1. pc[c] = "successor" /\ UNCHANGED <<meta, Known>>
    BY <1>3 DEF DeleteBytes, Known
  <2>2. CASE job[c].row # Absent /\ HasSuccessor(d)
    <3>1. pc'[c] = "idle" /\ job'[c].command = None /\ UNCHANGED blob
      BY <1>1, <1>3, <2>2 DEF DeleteBytes, Done, Goto, TInv, Idle, NewJob
    <3> QED
      BY <2>1, <3>1, NoneAssumption, QuietStores DEF Commands
  <2>3. CASE ~(job[c].row # Absent /\ HasSuccessor(d))
    <3>1. pc'[c] = "remove" /\ UNCHANGED job /\ blob' = [blob EXCEPT ![d] = @ \ {"document"}]
      BY <1>1, <1>3, <2>3 DEF DeleteBytes, Goto, TInv
    <3>2. "document" \in blob[d] /\ blob[d] = BytesOf(meta[d])
      BY <1>1, <1>2, <2>1 DEF JobInv, ReadIsCurrent, StoresInv, StoresTold, Midway, Agrees
    <3>3. blob'[d] = {} /\ \A e \in Docs \ {d} : blob'[e] = blob[e]
      BY <1>1, <1>2, <3>1, <3>2 DEF BytesOf, StoresTyped
    <3>4. MidwayAgrees(pc[c], job[c])'
      BY <1>2, <3>1, <3>3 DEF MidwayAgrees
    <3> QED
      BY <1>2, <2>1, <3>1, <3>3, <3>4, BytesFirst DEF Midway
  <2> QED
    BY <2>2, <2>3
<1>4. CASE RemoveRow(c)
  <2>1. pc[c] = "remove" /\ UNCHANGED <<blob, Known>> /\ WriteRow(d, Absent)
    BY <1>4 DEF RemoveRow, Known
  <2>2. meta'[d] = Absent /\ \A e \in Docs \ {d} : meta'[e] = meta[e]
    BY <1>1, <1>2, <2>1 DEF StoresTyped, WriteRow
  <2>3. /\ pc'[c] = "announce" /\ job'[c].doc = d /\ job'[c].command = job[c].command
        /\ job'[c].event = "DOCUMENT_DELETED"
    BY <1>1, <1>4 DEF RemoveRow, Goto, TInv, Job
  <2>4. blob[d] = {}
    BY <2>1 DEF StoresInv, MidwayAgrees
  <2>5. Agrees(meta'[d], blob'[d], d, Known \cup {<<job'[c].event, d>>})
    BY <2>1, <2>2, <2>3, <2>4 DEF Agrees, BytesOf
  <2>6. StoresTold(pc[c], job[c])'
    BY <1>2, <2>1, <2>2, <2>3, <2>5, TellsNext
  <2>7. MidwayAgrees(pc[c], job[c])' /\ OnlyCurrent(job[c])'
    BY <1>2, <2>3 DEF MidwayAgrees, OnlyCurrent
  <2>8. CurrentAlone(pc[c], job[c])'
    BY <2>1, <2>2 DEF StoresInv, CurrentAlone, Supersedes
  <2> QED
    BY <2>6, <2>7, <2>8 DEF StoresInv
<1> QED
  BY <1>3, <1>4

LEMMA SweepStores ==
  ASSUME OneAtATime, DInv, NEW c \in Callers, StoresInv(pc[c], job[c]), TInv',
         NEW r \in job[c].rows, SkipRow(c, r) \/ Archive(c, r) \/ Purge(c, r)
  PROVE  StoresInv(pc[c], job[c])'
<1>1. /\ StoresTyped /\ TInv /\ JobTyped(pc[c], job[c]) /\ job[c] \in Job
      /\ pc[c] = "sweep"
  BY DInvFacts DEF DInv, SkipRow, Archive, Purge
<1>2. job[c].command = "SWEEP"
  BY <1>1 DEF JobTyped
<1>3. CASE SkipRow(c, r)
  <2>1. job'[c].command = "SWEEP" /\ UNCHANGED <<meta, blob, Known, pc>>
    BY <1>1, <1>2, <1>3 DEF SkipRow, TInv, Job, Known
  <2> QED
    BY <1>1, <2>1, QuietStores
<1>4. r[1] \in Docs /\ r[2] \in Metadata /\ meta[r[1]] = r[2] /\ meta[r[1]] # Absent
  BY <1>1, FetchedRows
<1>5. Agrees(r[2], blob[r[1]], r[1], Known)
  <2>1. Agrees(meta[r[1]], blob[r[1]], r[1], Told(pc[c], job[c]))
    BY <1>1, <1>4 DEF StoresInv, StoresTold, Midway
  <2> QED
    BY <1>1, <1>4, <2>1 DEF Told
<1>6. CASE Archive(c, r) \/ Purge(c, r)
  <2>1. job'[c].doc = r[1] /\ job'[c].row = r[2] /\ job'[c].command = "SWEEP"
    BY <1>6, JudgedDInv
  <2>2. UNCHANGED <<meta, Known>> /\ \A e \in Docs \ {r[1]} : blob'[e] = blob[e]
    BY <1>1, <1>6 DEF Archive, Purge, StoresTyped, Known
  <2>3. pc'[c] \in {"mark", "remove"} /\ MidwayAgrees(pc[c], job[c])'
    <3>1. CASE Archive(c, r)
      <4>1. ~r[2].archived
        BY <3>1 DEF Archive, Archivable
      <4>2. blob[r[1]] = {"document"}
        BY <1>4, <1>5, <4>1 DEF Agrees, BytesOf
      <4>3. blob'[r[1]] = {"archive"} /\ pc'[c] = "mark"
        BY <1>1, <1>4, <3>1, <4>2 DEF Archive, Goto, TInv, StoresTyped
      <4>4. /\ <<"DOCUMENT_UPLOADED", r[1]>> \in Known
            /\ r[2].locked => <<"DOCUMENT_LOCKED", r[1]>> \in Known
        BY <1>4, <1>5 DEF Agrees
      <4> QED
        BY <2>1, <2>2, <4>3, <4>4 DEF MidwayAgrees
    <3>2. CASE Purge(c, r)
      <4>1. r[2].archived
        BY <3>2 DEF Purge, Purgeable
      <4>2. blob[r[1]] = {"archive"}
        BY <1>4, <1>5, <4>1 DEF Agrees, BytesOf
      <4>3. blob'[r[1]] = {} /\ pc'[c] = "remove"
        BY <1>1, <1>4, <3>2, <4>2 DEF Purge, Goto, TInv, StoresTyped
      <4> QED
        BY <2>1, <4>3 DEF MidwayAgrees
    <3> QED
      BY <1>6, <3>1, <3>2
  <2> QED
    BY <1>1, <1>4, <2>1, <2>2, <2>3, BytesFirst DEF Midway
<1> QED
  BY <1>3, <1>6

LEMMA MarkStores ==
  ASSUME DInv, NEW c \in Callers, StoresInv(pc[c], job[c]), MarkArchived(c) \/ SweepEnds(c)
  PROVE  StoresInv(pc[c], job[c])'
<1> DEFINE d == job[c].doc
           row == [job[c].row EXCEPT !.archived = TRUE]
<1>1. /\ StoresTyped /\ TInv /\ JobTyped(pc[c], job[c]) /\ JobInv(pc[c], job[c])
      /\ job[c] \in Job
  BY DInvFacts DEF DInv
<1>2. CASE MarkArchived(c)
  <2>1. /\ pc[c] = "mark" /\ pc'[c] = "announce" /\ UNCHANGED <<blob, Known>> /\ WriteRow(d, row)
    BY <1>1, <1>2 DEF MarkArchived, Goto, TInv, StoresInv, MidwayAgrees, Known
  <2>2. d \in Docs /\ job[c].row \in Metadata /\ meta[d] = job[c].row /\ ~job[c].row.held
        /\ job[c].command = "SWEEP"
    BY <1>1, <2>1 DEF JobTyped, JobInv, ReadIsCurrent
  <2>3. /\ row \in Metadata /\ row.archived /\ ~row.held /\ row.locked = job[c].row.locked
        /\ row.current = job[c].row.current /\ row.supersedes = job[c].row.supersedes
    BY <2>2 DEF Metadata
  <2>4. /\ job'[c].doc = d /\ job'[c].command = "SWEEP" /\ job'[c].event = "DOCUMENT_ARCHIVED"
    BY <1>1, <1>2, <2>2 DEF MarkArchived, TInv, Job
  <2> HIDE DEF row
  <2>5. meta'[d] = row /\ row # Absent /\ meta[d] # Absent /\ \A e \in Docs \ {d} : meta'[e] = meta[e]
    BY <1>1, <2>1, <2>2, <2>3, AbsentAssumption DEF WriteRow, StoresTyped
  <2>6. /\ blob[d] = {"archive"} /\ <<"DOCUMENT_UPLOADED", d>> \in Known
        /\ row.locked => <<"DOCUMENT_LOCKED", d>> \in Known
    BY <2>1, <2>3 DEF StoresInv, MidwayAgrees
  <2>7. Agrees(meta'[d], blob'[d], d, Known \cup {<<job'[c].event, d>>})
    BY <2>1, <2>3, <2>4, <2>5, <2>6 DEF Agrees, BytesOf
  <2>8. StoresTold(pc[c], job[c])'
    BY <2>1, <2>2, <2>4, <2>5, <2>7, TellsNext
  <2>9. MidwayAgrees(pc[c], job[c])' /\ OnlyCurrent(job[c])'
    BY <2>1, <2>4 DEF MidwayAgrees, OnlyCurrent
  <2>10. CurrentAlone(pc[c], job[c])'
    BY <2>1, <2>2, <2>3, <2>5 DEF StoresInv, CurrentAlone, Supersedes
  <2> QED
    BY <2>8, <2>9, <2>10 DEF StoresInv
<1>3. CASE SweepEnds(c)
  <2>1. /\ UNCHANGED <<meta, blob, Known>> /\ pc[c] = "sweep" /\ pc'[c] = "idle"
        /\ job'[c].command = None
    BY <1>1, <1>3 DEF SweepEnds, Done, Goto, TInv, Idle, NewJob, Known
  <2> QED
    BY <2>1, NoneAssumption, QuietStores DEF Commands
<1> QED
  BY <1>2, <1>3

LEMMA StepSInv ==
  ASSUME OneAtATime, DInv, SInv, [Next]_vars
  PROVE  SInv'
<1>0. TInv' /\ crashes \in Nat
  BY StepTInv, BoundsAssumption DEF DInv, TInv, TypeOK
<1>1. CASE UNCHANGED vars
  <2>1. UNCHANGED <<meta, blob, pc, job, crashes>> /\ Known' = Known
    BY <1>1 DEF vars, Known
  <2>2. ASSUME NEW c \in Callers, StoresInv(pc[c], job[c]) PROVE StoresInv(pc[c], job[c])'
    <3>1. StoresTold(pc[c], job[c])'
      BY <2>1, <2>2 DEF StoresInv, StoresTold, Told
    <3>2. MidwayAgrees(pc[c], job[c])'
      BY <2>1, <2>2 DEF StoresInv, MidwayAgrees
    <3>3. OnlyCurrent(job[c])' /\ CurrentAlone(pc[c], job[c])'
      BY <2>1, <2>2 DEF StoresInv, OnlyCurrent, CurrentAlone, Supersedes
    <3> QED
      BY <3>1, <3>2, <3>3 DEF StoresInv
  <2> QED
    BY <2>1, <2>2 DEF SInv
<1>2. CASE Next
  <2>1. PICK c \in Callers :
          \/ Request(c)
          \/ WriteEdit(c) \/ Announce(c)
          \/ Create(c) \/ AnnounceScan(c) \/ RaiseScan(c)
          \/ Reread(c) \/ Describe(c) \/ Retire(c)
          \/ Raise(c) \/ Undo(c) \/ Restore(c)
          \/ DeleteBytes(c) \/ RemoveRow(c)
          \/ \E r \in job[c].rows : SkipRow(c, r) \/ Archive(c, r) \/ Purge(c, r)
          \/ MarkArchived(c) \/ SweepEnds(c) \/ CutOff(c)
    BY <1>2 DEF Next
  <2> SUFFICES ASSUME crashes' = 0 PROVE StoresInv(pc[c], job[c])'
    BY DEF SInv, OneAtATime
  <2>2. crashes = 0 /\ ~CutOff(c)
    <3>1. Request(c) => crashes' = crashes
      BY DEF Request, Edit, Attach, Delete, Sweep, Begin
    <3>2. Raise(c) => crashes' = crashes \/ crashes' = crashes + 1
      BY DEF Raise
    <3>3. CutOff(c) => crashes' = crashes + 1
      BY DEF CutOff
    <3>4. \/ WriteEdit(c) \/ Announce(c) \/ Create(c) \/ Reread(c) \/ Describe(c) \/ Retire(c)
          \/ AnnounceScan(c) \/ RaiseScan(c)
          \/ Undo(c) \/ Restore(c) \/ DeleteBytes(c) \/ RemoveRow(c)
          => crashes' = crashes
      BY DEF WriteEdit, Announce, AnnounceScan, RaiseScan, Create, Reread, Describe, Retire, Undo, Restore, DeleteBytes,
             RemoveRow
    <3>5. \/ \E r \in job[c].rows : SkipRow(c, r) \/ Archive(c, r) \/ Purge(c, r)
          \/ MarkArchived(c) \/ SweepEnds(c)
          => crashes' = crashes
      BY DEF SkipRow, Archive, Purge, MarkArchived, SweepEnds
    <3> QED
      BY <1>0, <2>1, <3>1, <3>2, <3>3, <3>4, <3>5
  <2>3. StoresInv(pc[c], job[c])
    BY <2>2 DEF SInv
  <2>4. crashes' = crashes
    BY <2>2
  <2> QED
    BY <1>0, <2>1, <2>2, <2>3, <2>4, RequestStores, EditStores, UploadStores, ScanStores, UndoStores,
       RemovalStores, SweepStores, MarkStores
<1> QED
  BY <1>1, <1>2

LEMMA SInvAlways ==
  ASSUME OneAtATime
  PROVE  Spec => [](DInv /\ SInv)
<1>1. Init => DInv /\ SInv
  BY InitDInv, InitSInv
<1>2. DInv /\ SInv /\ [Next]_vars => (DInv /\ SInv)'
  BY StepDInv, StepSInv
<1> QED
  BY <1>1, <1>2, PTL DEF Spec

\* When jobs come one at a time and none is cut off, then between the jobs the
\* bytes and the row of every document agree, whatever database calls have
\* raised, and the outbox tells the same but of a document whose scan could not
\* be announced or whose event a repeated key kept out: any other failed upload
\* leaves nothing behind.
THEOREM StoresAgreeOneAtATime ==
  ASSUME OneAtATime
  PROVE  Spec => []StoresAgree
<1>1. ASSUME DInv, SInv PROVE StoresAgree
  <2> SUFFICES ASSUME Quiet, crashes = 0, NEW d \in Docs
               PROVE  Agrees(meta[d], blob[d], d, Known)
    BY DEF StoresAgree, Agrees, BytesOf, Has, Known
  <2>1. PICK c : Callers = {c}
    BY DEF OneAtATime
  <2>2. pc[c] = "idle" /\ StoresInv(pc[c], job[c])
    BY <1>1, <2>1 DEF Quiet, SInv
  <2> QED
    BY <2>2 DEF StoresInv, StoresTold, Told, Midway
<1> QED
  BY <1>1, SInvAlways, PTL

\* When jobs come one at a time and none is cut off, a version that has a
\* successor is never left current, though the upload may fail after its row
\* was written and put the older version back.
THEOREM SupersededRetiredOneAtATime ==
  ASSUME OneAtATime
  PROVE  Spec => []SupersededRetired
<1>1. ASSUME DInv, SInv PROVE SupersededRetired
  <2> SUFFICES ASSUME Quiet, crashes = 0, NEW d \in Docs, HasSuccessor(d), meta[d] # Absent,
                      meta[d].current
               PROVE  FALSE
    BY DEF SupersededRetired
  <2>1. PICK c : Callers = {c}
    BY DEF OneAtATime
  <2>2. pc[c] = "idle" /\ StoresInv(pc[c], job[c])
    BY <1>1, <2>1 DEF Quiet, SInv
  <2>3. PICK e \in Docs : Supersedes(e, d)
    BY DEF HasSuccessor, Supersedes
  <2> QED
    BY <2>2, <2>3 DEF StoresInv, CurrentAlone
<1> QED
  BY <1>1, SInvAlways, PTL


===============================================================================
