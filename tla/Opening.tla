-------------------------------- MODULE Opening --------------------------------
(***************************************************************************)
(* contexts/service_book/opening: the opening of one employee's service    *)
(* book is drafted part by part, submitted, verified and approved; the     *)
(* approval locks it and then writes the service summary and one entry per *)
(* part and row, each a write of its own.  Every request reads the whole   *)
(* document and writes all of it back, and several may be at work at once. *)
(***************************************************************************)
EXTENDS Naturals, Sequences, SequencesExt

CONSTANTS
  Drafts,      \* what a draft may hold: is it complete, and the keys of its entries
  KeyOrder,    \* the keys of the entries, in the order they are written
  Documents,   \* documents that may be attached
  Callers,     \* requests that are handled at the same time
  None,        \* nothing
  Absent,      \* there is no document
  MaxCommands  \* bound on the requests that are handled

VARIABLES
  opening,    \* service_book_openings
  entries,    \* the summary and service_book_entries: keys -> the parts they show
  job,        \* Callers -> the request, the document it read, what it has to write
  handled,    \* requests so far
  disturbed   \* history: two requests overlapped, or an approval was cut off

vars == <<opening, entries, job, handled, disturbed>>

Keys == ToSet(KeyOrder)

Idle == [step |-> "idle", command |-> None, read |-> Absent, input |-> None, todo |-> {}]

NewOpening(status, parts, documents) ==
  [status |-> status, parts |-> parts, documents |-> documents]

\* No opening yet, or one that was submitted or verified some time ago.
Init ==
  /\ opening \in {Absent} \cup {NewOpening(status, d, {}) : status \in {"SUBMITTED", "VERIFIED"},
                                                            d \in {e \in Drafts : e.complete}}
  /\ entries = [k \in Keys |-> Absent]
  /\ job = [c \in Callers |-> Idle]
  /\ handled = 0
  /\ disturbed = FALSE

\* What a request to save a draft brings.
Payloads == [parts : Drafts, documents : SUBSET Documents]

Status(doc) == IF doc = Absent THEN "NOT_STARTED" ELSE doc.status

\* Mutant: a draft may still be saved once the opening is locked.
EditableWhenLocked == {"NOT_STARTED", "DRAFT", "REJECTED", "LOCKED"}

EditableStatuses == {"NOT_STARTED", "DRAFT", "REJECTED"}

Moves ==
  [SUBMIT |-> [from |-> "DRAFT", to |-> "SUBMITTED"],
   VERIFY |-> [from |-> "SUBMITTED", to |-> "VERIFIED"],
   APPROVE |-> [from |-> "VERIFIED", to |-> "LOCKED"]]

At(c, step) == job[c].step = step

Finish(c) == job' = [job EXCEPT ![c] = Idle]

-------------------------------------------------------------------------------
(* The first read; a request that may not go on is refused. *)

Begin(c, command, step, input) ==
  /\ job[c] = Idle
  /\ handled < MaxCommands
  /\ handled' = handled + 1
  /\ job' = [job EXCEPT ![c] = [step |-> step, command |-> command, read |-> opening,
                                input |-> input, todo |-> {}]]
  /\ disturbed' = (disturbed \/ \E d \in Callers \ {c} : job[d] # Idle)
  /\ UNCHANGED <<opening, entries>>

UpsertDraft(c, payload) ==
  /\ Status(opening) \in EditableStatuses
  /\ Begin(c, "DRAFT", "save", payload)

Transition(c, command) ==
  /\ Status(opening) = Moves[command].from
  /\ command = "SUBMIT" => opening.parts.complete
  /\ Begin(c, command, "save", None)

\* In any status; without an opening an empty draft is saved first.
AttachDocument(c, document) ==
  Begin(c, "ATTACH", IF opening = Absent THEN "find" ELSE "again", document)

\* upsert_draft, called by attach_document, reads and checks for itself.
FindForAttach(c) ==
  /\ At(c, "find")
  /\ IF Status(opening) \in EditableStatuses
       THEN job' = [job EXCEPT ![c].step = "draft", ![c].read = opening]
       ELSE Finish(c)
  /\ UNCHANGED <<opening, entries, handled, disturbed>>

ReadAgain(c) ==
  /\ At(c, "again")
  /\ job' = [job EXCEPT ![c].step = "save", ![c].read = opening]
  /\ UNCHANGED <<opening, entries, handled, disturbed>>

-------------------------------------------------------------------------------
(* Writing: the whole document that was read, with what the request changes. *)

\* Documents are kept where the payload brings none; part_i always names the
\* employee.
Drafted(doc, payload) ==
  NewOpening("DRAFT", payload.parts,
             CASE payload.documents # {} -> payload.documents
               [] doc = Absent -> {}
               [] OTHER -> doc.documents)

EmptyDraft == [complete |-> FALSE, keys |-> {"summary", "part_i"}]

DraftForAttach(c) ==
  /\ At(c, "draft")
  /\ opening' = Drafted(job[c].read, [parts |-> EmptyDraft, documents |-> {}])
  /\ job' = [job EXCEPT ![c].step = "again"]
  /\ UNCHANGED <<entries, handled, disturbed>>

Written(j) ==
  CASE j.command = "DRAFT" -> Drafted(j.read, j.input)
    [] j.command = "ATTACH" -> [j.read EXCEPT !.documents = @ \cup {j.input}]
    [] OTHER -> [j.read EXCEPT !.status = Moves[j.command].to]

SaveOpening(c) ==
  /\ At(c, "save")
  /\ opening' = Written(job[c])
  /\ IF job[c].command = "APPROVE" THEN job' = [job EXCEPT ![c].step = "saved"] ELSE Finish(c)
  /\ UNCHANGED <<entries, handled, disturbed>>

\* save_opening returns the document as it is in the database by then.
ReadSaved(c) ==
  /\ At(c, "saved")
  /\ job' = [job EXCEPT ![c].step = "project", ![c].read = opening,
                        ![c].todo = Keys \cap opening.parts.keys]
  /\ UNCHANGED <<opening, entries, handled, disturbed>>

\* The key that comes first in the order.
First(todo) ==
  LET places == {i \in DOMAIN KeyOrder : KeyOrder[i] \in todo}
  IN  KeyOrder[CHOOSE i \in places : \A k \in places : i <= k]

\* _project_locked_opening: an upsert under a key of its own.
ProjectEntry(c) ==
  /\ At(c, "project")
  /\ LET k == First(job[c].todo)
         left == job[c].todo \ {k}
     IN  /\ entries' = [entries EXCEPT ![k] = job[c].read.parts]
         /\ IF left = {} THEN Finish(c) ELSE job' = [job EXCEPT ![c].todo = left]
  /\ UNCHANGED <<opening, handled, disturbed>>

\* The process stops, or the database raises, after the opening was locked.
CutOff(c) ==
  /\ job[c].step \in {"saved", "project"}
  /\ Finish(c)
  /\ disturbed' = TRUE
  /\ UNCHANGED <<opening, entries, handled>>

Next ==
  \E c \in Callers :
    \/ \E payload \in Payloads : UpsertDraft(c, payload)
    \/ \E command \in DOMAIN Moves : Transition(c, command)
    \/ \E document \in Documents : AttachDocument(c, document)
    \/ FindForAttach(c) \/ DraftForAttach(c) \/ ReadAgain(c)
    \/ SaveOpening(c) \/ ReadSaved(c) \/ ProjectEntry(c) \/ CutOff(c)

Spec == Init /\ [][Next]_vars

-------------------------------------------------------------------------------
(* Properties. *)

Statuses == {"DRAFT", "SUBMITTED", "VERIFIED", "LOCKED"}

Parts == Drafts \cup {EmptyDraft}

Openings == [status : Statuses, parts : Parts, documents : SUBSET Documents] \cup {Absent}

\* Type invariant.
TypeOK ==
  /\ opening \in Openings
  /\ entries \in [Keys -> Parts \cup {Absent}]
  /\ \A c \in Callers : job[c] = Idle \/ job[c].read \in Openings
  /\ handled \in 0..MaxCommands
  /\ disturbed \in BOOLEAN

\* The service book shows the opening: an entry for each part and row of a
\* locked opening with what was approved, none of any other, and nothing of an
\* opening that is not locked.  Requests that overlap, and an approval that was
\* cut off (no later request completes it), are excepted.
OpeningProjected ==
  ~disturbed /\ (\A c \in Callers : job[c] = Idle) =>
    \A k \in Keys :
      entries[k] = IF Status(opening) = "LOCKED" /\ k \in opening.parts.keys
                     THEN opening.parts ELSE Absent
===============================================================================
