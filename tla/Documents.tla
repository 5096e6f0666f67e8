------------------------------- MODULE Documents -------------------------------
(***************************************************************************)
(* The documents of contexts/documents: the metadata row of each file, the *)
(* buckets its bytes are in, and the jobs that upload, supersede, lock,    *)
(* hold, tag and delete it, or sweep all of them for retention.            *)
(*                                                                         *)
(* A job reads a row, and writes the whole row back later; nothing of it   *)
(* is in a transaction, and the write creates the row when it is gone.     *)
(* What the bucket storage does is done at once, between two awaits.       *)
(*                                                                         *)
(* A row is kept to the fields that decide.  Any document may be old       *)
(* enough for the sweep, which fetches all rows with its first batch.      *)
(***************************************************************************)
EXTENDS Naturals, FiniteSets

CONSTANTS
  Docs,         \* filenames, each for one upload
  Callers,      \* jobs that run at the same time
  None,         \* no document, no event
  Absent,       \* there is no row
  MaxCommands,  \* bound on the jobs
  MaxFailures,  \* bound on the database calls that raise
  MaxCrashes    \* bound on the jobs that are cut off

ASSUME DocsAssumption == None \notin Docs

ASSUME BoundsAssumption == {MaxCommands, MaxFailures, MaxCrashes} \subseteq Nat

VARIABLES
  meta,      \* document_metadata
  blob,      \* the buckets that hold the bytes
  named,     \* filenames given out
  outbox,    \* pairs <<event name, document>>
  pc,        \* what each job does next
  job,       \* its command, its document, and the rows it has read
  handled,   \* jobs so far
  failures,  \* database calls that raised
  crashes,   \* jobs cut off, or failed by a call that did its work
  untold     \* history: documents of which an event was never added

vars == <<meta, blob, named, outbox, pc, job, handled, failures, crashes, untold>>

-------------------------------------------------------------------------------
(* The rules. *)

Blank == [held |-> FALSE, locked |-> FALSE, archived |-> FALSE, current |-> TRUE,
          supersedes |-> None]

\* "metadata or {}"
Row(d) == IF meta[d] = Absent THEN Blank ELSE meta[d]

\* Mutant: the approval lock is not asked for.
ReplaceableUnlessHeld(row) == ~row.held

\* What may be deleted or superseded.
Replaceable(row) == ~row.held /\ ~row.locked

HasSuccessor(d) == \E e \in Docs : meta[e] # Absent /\ meta[e].supersedes = d

\* Mutant: nobody asks for the hold.
ArchivableHeld(row) == ~row.archived

\* is_eligible_for_archive and is_eligible_for_delete
Archivable(row) == ~row.held /\ ~row.archived
Purgeable(row) == ~row.held /\ row.archived

\* The row a command writes; tags, share links and expiry stages are in it.
Changed(command, row) ==
  CASE command = "LOCK" -> [row EXCEPT !.locked = TRUE]
    [] command = "HOLD" -> [row EXCEPT !.held = TRUE]
    [] command = "RELEASE" -> [row EXCEPT !.held = FALSE]
    [] OTHER -> row

\* Mutant: an event the catalogue does not have.
EventAfterMisnamed(command, row) ==
  CASE command = "LOCK" -> "DOCUMENT_LOCKED"
    [] command = "HOLD" /\ ~row.held -> "DOCUMENT_HOLD_APPLIED"
    [] command = "RELEASE" -> "DOCUMENT_LEGAL_HOLD_RELEASED"
    [] OTHER -> None

\* The event that follows; a hold is announced once.
EventAfter(command, row) ==
  CASE command = "LOCK" -> "DOCUMENT_LOCKED"
    [] command = "HOLD" /\ ~row.held -> "DOCUMENT_LEGAL_HOLD_APPLIED"
    [] command = "RELEASE" -> "DOCUMENT_LEGAL_HOLD_RELEASED"
    [] OTHER -> None

-------------------------------------------------------------------------------
NewJob(command, d, row) ==
  [command |-> command, doc |-> d, row |-> row, old |-> None, oldRow |-> Absent,
   rows |-> {}, event |-> None]

Idle == NewJob(None, None, Absent)

Init ==
  /\ meta = [d \in Docs |-> Absent]
  /\ blob = [d \in Docs |-> {}]
  /\ named = {}
  /\ outbox = {}
  /\ pc = [c \in Callers |-> "idle"]
  /\ job = [c \in Callers |-> Idle]
  /\ handled = 0
  /\ failures = 0
  /\ crashes = 0
  /\ untold = {}

Begin(c, step, j) ==
  /\ pc[c] = "idle"
  /\ handled < MaxCommands
  /\ handled' = handled + 1
  /\ pc' = [pc EXCEPT ![c] = step]
  /\ job' = [job EXCEPT ![c] = j]
  /\ UNCHANGED <<meta, outbox, failures, crashes, untold>>

Goto(c, step) == pc' = [pc EXCEPT ![c] = step]

Done(c) == Goto(c, "idle") /\ job' = [job EXCEPT ![c] = Idle]

WriteRow(d, row) == meta' = [meta EXCEPT ![d] = row]

-------------------------------------------------------------------------------
(* Locking, holding, releasing, tagging: read, then write. *)

Edit(c, command, d) ==
  /\ "document" \in blob[d]
  /\ command = "RELEASE" => Row(d).held
  /\ Begin(c, "edit", NewJob(command, d, Row(d)))
  /\ UNCHANGED <<blob, named>>

WriteEdit(c) ==
  /\ pc[c] = "edit"
  /\ LET j == job[c] IN
       /\ WriteRow(j.doc, Changed(j.command, j.row))
       /\ IF EventAfter(j.command, j.row) = None
            THEN Done(c)
            ELSE /\ Goto(c, "announce")
                 /\ job' = [job EXCEPT ![c].event = EventAfter(j.command, j.row)]
  /\ UNCHANGED <<blob, named, outbox, handled, failures, crashes, untold>>

\* publish_document_event.  When the request repeats the Idempotency-Key of an
\* earlier one, add_event finds the event of that name and adds none; the
\* sweep has no request and no key.
Publish(c, event) ==
  \/ outbox' = outbox \cup {<<event, job[c].doc>>} /\ UNCHANGED untold
  \/ /\ job[c].command # "SWEEP" /\ \E d \in Docs : <<event, d>> \in outbox
     /\ untold' = untold \cup {job[c].doc}
     /\ UNCHANGED outbox

\* The sweep goes on to its next row.
Announce(c) ==
  /\ pc[c] = "announce"
  /\ Publish(c, job[c].event)
  /\ IF job[c].command = "SWEEP" THEN Goto(c, "sweep") /\ UNCHANGED job ELSE Done(c)
  /\ UNCHANGED <<meta, blob, named, handled, failures, crashes>>

-------------------------------------------------------------------------------
(* attach_document_to_entity *)

\* The row of the version to supersede is read and judged, then the bytes
\* are stored under a new name.
Attach(c, d, old) ==
  /\ d \notin named
  /\ old # None => meta[old] # Absent /\ Replaceable(meta[old])
  /\ Begin(c, "create", [NewJob("ATTACH", d, Absent) EXCEPT
                           !.old = old,
                           !.oldRow = IF old = None THEN Absent ELSE meta[old]])
  /\ named' = named \cup {d}
  /\ blob' = [blob EXCEPT ![d] = {"document"}]

\* upload_document writes the first row
Create(c) ==
  /\ pc[c] = "create"
  /\ WriteRow(job[c].doc, Blank)
  /\ Goto(c, "scan")
  /\ UNCHANGED <<blob, named, outbox, job, handled, failures, crashes, untold>>

\* and publishes the result of the scan.  No except clause is around this call:
\* when it raises, the request ends and bytes and row stay.
AnnounceScan(c) ==
  /\ pc[c] = "scan"
  /\ Publish(c, "DOCUMENT_SCAN_COMPLETED")
  /\ Goto(c, "reread")
  /\ UNCHANGED <<meta, blob, named, job, handled, failures, crashes>>

RaiseScan(c) ==
  /\ pc[c] = "scan"
  /\ failures < MaxFailures
  /\ failures' = failures + 1
  /\ untold' = untold \cup {job[c].doc}
  /\ Done(c)
  /\ UNCHANGED <<meta, blob, named, outbox, handled, crashes>>

\* The row is read
Reread(c) ==
  /\ pc[c] = "reread"
  /\ job' = [job EXCEPT ![c].row = Row(job[c].doc)]
  /\ Goto(c, "describe")
  /\ UNCHANGED <<meta, blob, named, outbox, handled, failures, crashes, untold>>

\* and written again with what the request says of the document.
Describe(c) ==
  /\ pc[c] = "describe"
  /\ LET old == job[c].old IN
       /\ WriteRow(job[c].doc,
                   IF old = None THEN job[c].row
                   ELSE [job[c].row EXCEPT !.supersedes = old, !.current = TRUE])
       /\ Goto(c, IF old = None THEN "announce" ELSE "retire")
  /\ job' = [job EXCEPT ![c].event = "DOCUMENT_UPLOADED"]
  /\ UNCHANGED <<blob, named, outbox, handled, failures, crashes, untold>>

\* Mutant: the superseded row is written back as it was.
RetireUnchanged(c) ==
  /\ pc[c] = "retire"
  /\ WriteRow(job[c].old, job[c].oldRow)
  /\ Goto(c, "announce")
  /\ UNCHANGED <<blob, named, outbox, job, handled, failures, crashes, untold>>

\* The row that was read at first is no longer current.
Retire(c) ==
  /\ pc[c] = "retire"
  /\ WriteRow(job[c].old, [job[c].oldRow EXCEPT !.current = FALSE])
  /\ Goto(c, "announce")
  /\ UNCHANGED <<blob, named, outbox, job, handled, failures, crashes, untold>>

\* A database call raises: the bytes are deleted at once.  The first write
\* or the event may have reached the database although the call raised; what
\* the other calls may have written is undone.
Raise(c) ==
  /\ job[c].command = "ATTACH"
  /\ pc[c] \in {"create", "reread", "describe", "retire", "announce"}
  /\ blob' = [blob EXCEPT ![job[c].doc] = @ \ {"document"}]
  /\ \/ /\ failures < MaxFailures
        /\ failures' = failures + 1
        /\ UNCHANGED <<meta, outbox, crashes>>
     \/ /\ crashes < MaxCrashes
        /\ crashes' = crashes + 1
        /\ \/ pc[c] = "create" /\ WriteRow(job[c].doc, Blank) /\ UNCHANGED outbox
           \/ /\ pc[c] = "announce"
              /\ outbox' = outbox \cup {<<job[c].event, job[c].doc>>}
              /\ UNCHANGED meta
        /\ UNCHANGED failures
  /\ IF pc[c] = "create" THEN Done(c) ELSE Goto(c, "undo") /\ UNCHANGED job
  /\ UNCHANGED <<named, handled, untold>>

\* Mutant: the new row is forgotten.
UndoBytes(c) ==
  /\ pc[c] = "undo"
  /\ UNCHANGED meta
  /\ IF job[c].old = None THEN Done(c) ELSE Goto(c, "restore") /\ UNCHANGED job
  /\ UNCHANGED <<blob, named, outbox, handled, failures, crashes, untold>>

\* The except clause: the new row is deleted
Undo(c) ==
  /\ pc[c] = "undo"
  /\ WriteRow(job[c].doc, Absent)
  /\ IF job[c].old = None THEN Done(c) ELSE Goto(c, "restore") /\ UNCHANGED job
  /\ UNCHANGED <<blob, named, outbox, handled, failures, crashes, untold>>

\* and the superseded row is written as it was.
Restore(c) ==
  /\ pc[c] = "restore"
  /\ WriteRow(job[c].old, job[c].oldRow)
  /\ Done(c)
  /\ UNCHANGED <<blob, named, outbox, handled, failures, crashes, untold>>

-------------------------------------------------------------------------------
(* delete_document *)

Delete(c, d) ==
  /\ "document" \in blob[d]
  /\ Replaceable(Row(d))
  /\ Begin(c, "successor", NewJob("DELETE", d, meta[d]))
  /\ UNCHANGED <<blob, named>>

\* Mutant: version history is not protected.
DeleteBytesUnasked(c) ==
  /\ pc[c] = "successor"
  /\ blob' = [blob EXCEPT ![job[c].doc] = @ \ {"document"}]
  /\ Goto(c, "remove")
  /\ UNCHANGED <<meta, named, outbox, job, handled, failures, crashes, untold>>

\* has_successor, and when there is none the bytes are deleted,
DeleteBytes(c) ==
  /\ pc[c] = "successor"
  /\ LET d == job[c].doc IN
       IF job[c].row # Absent /\ HasSuccessor(d)
         THEN Done(c) /\ UNCHANGED blob
         ELSE /\ blob' = [blob EXCEPT ![d] = @ \ {"document"}]
              /\ Goto(c, "remove")
              /\ UNCHANGED job
  /\ UNCHANGED <<meta, named, outbox, handled, failures, crashes, untold>>

\* then the row, by a request or by the sweep.
RemoveRow(c) ==
  /\ pc[c] = "remove"
  /\ WriteRow(job[c].doc, Absent)
  /\ Goto(c, "announce")
  /\ job' = [job EXCEPT ![c].event = "DOCUMENT_DELETED"]
  /\ UNCHANGED <<blob, named, outbox, handled, failures, crashes, untold>>

-------------------------------------------------------------------------------
(* retention_job.run_once: rows are judged as they were fetched. *)

Sweep(c) ==
  /\ Begin(c, "sweep", [NewJob("SWEEP", None, Absent) EXCEPT
                          !.rows = {<<d, meta[d]>> : d \in {e \in Docs : meta[e] # Absent}}])
  /\ UNCHANGED <<blob, named>>

Judge(c, r) ==
  job' = [job EXCEPT ![c].rows = @ \ {r}, ![c].doc = r[1], ![c].row = r[2], ![c].event = None]

SkipRow(c, r) ==
  /\ pc[c] = "sweep" /\ r \in job[c].rows
  /\ job' = [job EXCEPT ![c].rows = @ \ {r}]
  /\ UNCHANGED <<meta, blob, named, outbox, pc, handled, failures, crashes, untold>>

\* _archive moves the bytes, or finds none, and then writes the row.
Archive(c, r) ==
  /\ pc[c] = "sweep" /\ r \in job[c].rows
  /\ Archivable(r[2])
  /\ blob' = [blob EXCEPT ![r[1]] =
                IF "document" \in @ THEN (@ \ {"document"}) \cup {"archive"} ELSE @]
  /\ Goto(c, IF "document" \in blob[r[1]] THEN "mark" ELSE "markMissing")
  /\ Judge(c, r)
  /\ UNCHANGED <<meta, named, outbox, handled, failures, crashes, untold>>

MarkArchived(c) ==
  /\ pc[c] \in {"mark", "markMissing"}
  /\ WriteRow(job[c].doc, [job[c].row EXCEPT !.archived = TRUE])
  /\ Goto(c, IF pc[c] = "mark" THEN "announce" ELSE "sweep")
  /\ job' = [job EXCEPT ![c].event = "DOCUMENT_ARCHIVED"]
  /\ UNCHANGED <<blob, named, outbox, handled, failures, crashes, untold>>

\* _permanent_delete
Purge(c, r) ==
  /\ pc[c] = "sweep" /\ r \in job[c].rows
  /\ Purgeable(r[2])
  /\ blob' = [blob EXCEPT ![r[1]] = @ \ {"archive"}]
  /\ Goto(c, "remove")
  /\ Judge(c, r)
  /\ UNCHANGED <<meta, named, outbox, handled, failures, crashes, untold>>

SweepEnds(c) ==
  /\ pc[c] = "sweep" /\ job[c].rows = {}
  /\ Done(c)
  /\ UNCHANGED <<meta, blob, named, outbox, handled, failures, crashes, untold>>

\* A job is cut off: the process stops, or a call raises where nothing
\* catches it.  A copy to the archive may be all that was done.
CutOff(c) ==
  /\ pc[c] # "idle"
  /\ crashes < MaxCrashes
  /\ crashes' = crashes + 1
  /\ \/ UNCHANGED blob
     \/ pc[c] = "sweep" /\ \E r \in job[c].rows :
          /\ Archivable(r[2]) /\ "document" \in blob[r[1]]
          /\ blob' = [blob EXCEPT ![r[1]] = @ \cup {"archive"}]
  /\ Done(c)
  /\ UNCHANGED <<meta, named, outbox, handled, failures, untold>>

-------------------------------------------------------------------------------
Request(c) ==
  \/ \E d \in Docs :
       \/ \E command \in {"LOCK", "HOLD", "RELEASE", "TAG"} : Edit(c, command, d)
       \/ \E old \in Docs \cup {None} : Attach(c, d, old)
       \/ Delete(c, d)
  \/ Sweep(c)

Next ==
  \E c \in Callers :
    \/ Request(c)
    \/ WriteEdit(c) \/ Announce(c)
    \/ Create(c) \/ AnnounceScan(c) \/ RaiseScan(c) \/ Reread(c) \/ Describe(c) \/ Retire(c)
    \/ Raise(c) \/ Undo(c) \/ Restore(c)
    \/ DeleteBytes(c) \/ RemoveRow(c)
    \/ \E r \in job[c].rows : SkipRow(c, r) \/ Archive(c, r) \/ Purge(c, r)
    \/ MarkArchived(c) \/ SweepEnds(c)
    \/ CutOff(c)

Spec == Init /\ [][Next]_vars

-------------------------------------------------------------------------------
(* Properties. *)

Metadata == [held : BOOLEAN, locked : BOOLEAN, archived : BOOLEAN, current : BOOLEAN,
             supersedes : Docs \cup {None}]

ASSUME AbsentAssumption == Absent \notin Metadata

Events == {"DOCUMENT_SCAN_COMPLETED", "DOCUMENT_UPLOADED", "DOCUMENT_LOCKED",
           "DOCUMENT_LEGAL_HOLD_APPLIED", "DOCUMENT_LEGAL_HOLD_RELEASED", "DOCUMENT_ARCHIVED",
           "DOCUMENT_DELETED"}

Commands == {"LOCK", "HOLD", "RELEASE", "TAG", "ATTACH", "DELETE", "SWEEP"}

ASSUME NoneAssumption == None \notin Events \cup Commands

\* Type invariant.
TypeOK ==
  /\ meta \in [Docs -> Metadata \cup {Absent}]
  /\ blob \in [Docs -> SUBSET {"document", "archive"}]
  /\ named \subseteq Docs
  /\ outbox \subseteq Events \X Docs
  /\ \A c \in Callers :
       /\ job[c].doc \in Docs \cup {None} /\ job[c].old \in Docs \cup {None}
       /\ job[c].row \in Metadata \cup {Absent} /\ job[c].oldRow \in Metadata \cup {Absent}
       /\ job[c].rows \subseteq Docs \X Metadata
       /\ job[c].event \in Events \cup {None}
  /\ handled \in 0..MaxCommands
  /\ failures \in 0..MaxFailures
  /\ crashes \in 0..MaxCrashes
  /\ untold \subseteq Docs

Quiet == \A c \in Callers : pc[c] = "idle"
Has(d, field) == meta[d] # Absent /\ meta[d][field]

\* One job at a time: a document under legal hold stays where it is, is not
\* superseded, and keeps its row, until the hold is released.
HoldRespected ==
  [][\A d \in Docs : Has(d, "held") =>
       /\ blob'[d] = blob[d]
       /\ meta'[d] # Absent
       /\ meta'[d].current = meta[d].current]_vars

\* One job at a time: a lock is for good, and nothing but the sweep removes
\* a locked document.
LockSticks ==
  [][\A d \in Docs : Has(d, "locked") =>
       IF meta'[d] = Absent THEN meta[d].archived ELSE meta'[d].locked]_vars

\* One job at a time: a version that was superseded is removed by the sweep
\* only, once it is archived.
HistoryKept ==
  [][\A d \in Docs : meta[d] # Absent /\ ~meta[d].archived /\ HasSuccessor(d) =>
       meta'[d] # Absent /\ (blob'[d] = {} => blob[d] = {})]_vars

\* One job at a time, and none cut off: a document has bytes exactly when it
\* has a row, and they are where the row says, whichever database call of an
\* upload raises.  The outbox knows what became of the document, and a failed
\* upload leaves nothing behind; excepted are the document whose upload failed
\* at the event of its scan, which stays as it was stored, and the one whose
\* request repeated a key.
StoresAgree ==
  Quiet /\ crashes = 0 =>
    \A d \in Docs :
      /\ blob[d] = CASE meta[d] = Absent -> {}
                     [] Has(d, "archived") -> {"archive"}
                     [] OTHER -> {"document"}
      /\ d \notin untold =>
           /\ meta[d] # Absent => <<"DOCUMENT_UPLOADED", d>> \in outbox
           /\ Has(d, "held") => <<"DOCUMENT_LEGAL_HOLD_APPLIED", d>> \in outbox
           /\ Has(d, "locked") => <<"DOCUMENT_LOCKED", d>> \in outbox
           /\ Has(d, "archived") => <<"DOCUMENT_ARCHIVED", d>> \in outbox
           /\ meta[d] = Absent /\ <<"DOCUMENT_UPLOADED", d>> \in outbox
                => <<"DOCUMENT_DELETED", d>> \in outbox

\* One job at a time, and none cut off: a version that has a successor is
\* not current, whatever failed in between.
SupersededRetired ==
  Quiet /\ crashes = 0 =>
    \A d \in Docs : HasSuccessor(d) /\ meta[d] # Absent => ~meta[d].current

\* The retention sweep never touches a document under legal hold or a
\* version that has a successor (retention_job.py).
SweepSparesProtected ==
  [][\A c \in Callers, d \in Docs :
       job[c].command = "SWEEP" /\ blob'[d] # blob[d] => ~Has(d, "held") /\ ~HasSuccessor(d)]_vars

===============================================================================
