---------------------------- MODULE ServiceRecords ----------------------------
(***************************************************************************)
(* The official Service Book records of one employee, as the command       *)
(* handlers of contexts/service_book/records keep them: a handler loads    *)
(* the employee's whole stream, applies one operation of the aggregate     *)
(* ServiceRecordStream to it in memory, and writes every record of the     *)
(* stream back.  The load is not part of the transaction that writes, so   *)
(* two handlers may work from the same load.                               *)
(*                                                                         *)
(* With Transactions the write of the stream and of its outbox event is    *)
(* one step; without (a standalone mongod, the fallback of run_atomic) it  *)
(* is one step for the stream document, one for each record in turn, and   *)
(* one for the event.  The summary of the employee's service is projected  *)
(* by the handler that locked a record, after its transaction; the         *)
(* approval of the employee's opening writes the same summary.             *)
(*                                                                         *)
(* SHA-256 is taken to be injective and every envelope holds the record's  *)
(* own identifier, so an event_hash is represented by the record itself.   *)
(* Streams of different employees share nothing.                           *)
(***************************************************************************)
EXTENDS Naturals, FiniteSets, Sequences

CONSTANTS
  Records,       \* service_event_id values
  Callers,       \* requests that are handled at the same time
  Actors,        \* users
  Payloads,      \* what a record says
  KindOf,        \* "engagement", "regularisation", "termination" or "other"
  None,          \* no record, no user, no status
  Absent,        \* there is no document
  Opening,       \* the opening_id of the employee's service book
  Transactions,  \* TRUE: multi-document transactions are available
  MaxRevisions,  \* bound on the corrections of one record
  MaxDocuments,  \* bound on the attachments of one record
  MaxCommands,   \* bound on the commands handled
  MaxCrashes     \* bound on the requests that are cut off

ASSUME RecordsAssumption == IsFiniteSet(Records) /\ Absent \notin Records /\ None \notin Records
ASSUME ActorsAssumption == None \notin Actors
ASSUME StatusAssumption == None \notin {"ENGAGED", "IN_SERVICE", "TERMINATED"}
ASSUME TransactionsAssumption == Transactions \in BOOLEAN
ASSUME BoundsAssumption == MaxCommands \in Nat /\ MaxCrashes \in Nat

VARIABLES
  records,   \* service_book_records, by service_event_id
  count,     \* event_count of the document in service_book_record_streams
  outbox,    \* pairs <<event name, record>> recorded in the outbox
  summary,   \* employee_service_summaries: service status and source record
  pc,        \* what each request does
  task,      \* the command a request handles and its record
  stream,    \* the stream a request has loaded and changed in memory
  written,   \* how many records of it a request has written back
  current,   \* the summary a request has read
  handled,   \* commands accepted so far
  crashes,   \* requests cut off so far
  reopened   \* history: the opening was approved after a termination was posted

handlerVars == <<pc, task, stream, written, current>>
vars == <<records, count, outbox, summary, handlerVars, handled, crashes, reopened>>

NoTask == [command |-> None, record |-> None]
NoSummary == [status |-> None, source |-> None]

Present(db) == {r \in Records : db[r] # Absent}

Init ==
  /\ records = [r \in Records |-> Absent]
  /\ count = 0
  /\ outbox = {}
  /\ summary = NoSummary
  /\ pc = [c \in Callers |-> "idle"]
  /\ task = [c \in Callers |-> NoTask]
  /\ stream = [c \in Callers |-> [r \in Records |-> Absent]]
  /\ written = [c \in Callers |-> 0]
  /\ current = [c \in Callers |-> NoSummary]
  /\ handled = 0
  /\ crashes = 0
  /\ reopened = FALSE

-------------------------------------------------------------------------------
(* The aggregate ServiceRecordStream: each operation maps a stream to the  *)
(* stream it leaves, and is guarded by what would raise a DomainError.     *)

Statuses == {"DRAFT", "SUBMITTED", "VERIFIED", "APPROVED", "LOCKED", "VOIDED"}

\* IMMUTABLE_STATUSES
Immutable == {"APPROVED", "LOCKED"}

\* ALLOWED_STATUS_TRANSITIONS
AllowedFrom == [SUBMITTED |-> {"DRAFT", "VERIFIED"}, VERIFIED |-> {"SUBMITTED"},
                APPROVED |-> {"VERIFIED"}, LOCKED |-> {"APPROVED"}]

\* record_event: the new record refers to the last one by its hash.
Last(s) ==
  LET Ends == {r \in Present(s) : \A q \in Present(s) : s[q].sequence <= s[r].sequence}
  IN  IF Ends = {} THEN None ELSE CHOOSE r \in Ends : TRUE

CanRecord(s, r) == s[r] = Absent

\* Mutant: the previous hash is taken once the record has been appended.
RecordedSelf(s, r, p) ==
  [s EXCEPT ![r] = [status |-> "DRAFT", is_voided |-> FALSE, payload |-> p,
                    hashed |-> p, revisions |-> <<>>, documents |-> 0,
                    verified_by |-> None, approved_by |-> None,
                    previous |-> r, sequence |-> Cardinality(Present(s)) + 1]]

Recorded(s, r, p) ==
  [s EXCEPT ![r] = [status |-> "DRAFT", is_voided |-> FALSE, payload |-> p,
                    hashed |-> p, revisions |-> <<>>, documents |-> 0,
                    verified_by |-> None, approved_by |-> None,
                    previous |-> Last(s),
                    sequence |-> Cardinality(Present(s)) + 1]]

\* Mutant: only a locked record is immutable.
CanCorrectApproved(s, r) == ~s[r].is_voided /\ s[r].status # "LOCKED"

\* correct_event
CanCorrect(s, r) == ~s[r].is_voided /\ s[r].status \notin Immutable

\* Mutant: the revision keeps what it replaces.
CorrectedOld(s, r, p) ==
  [s EXCEPT ![r].payload = p, ![r].revisions = Append(@, s[r].payload)]

Corrected(s, r, p) ==
  [s EXCEPT ![r].payload = p, ![r].revisions = Append(@, p)]

\* Mutant: void_event does not look at the status.
CanVoidAny(s, r) == s[r] # Absent

\* void_event: what is voided may be voided again.
CanVoid(s, r) == s[r].status \notin Immutable

\* Mutant: a status outside ServiceRecordStatus.
VoidedMisnamed(s, r) == [s EXCEPT ![r].is_voided = TRUE, ![r].status = "VOID"]

Voided(s, r) == [s EXCEPT ![r].is_voided = TRUE, ![r].status = "VOIDED"]

\* attach_document
CanAttach(s, r) == s[r].status \notin Immutable

Attached(s, r) == [s EXCEPT ![r].documents = @ + 1]

\* Mutant: the verifier may approve.
CanTransitionAlone(s, r, target, a) == ~s[r].is_voided /\ s[r].status \in AllowedFrom[target]

\* transition_event_status
CanTransition(s, r, target, a) ==
  /\ ~s[r].is_voided
  /\ s[r].status \in AllowedFrom[target]
  /\ target = "APPROVED" => s[r].verified_by # a

Transitioned(s, r, target, a) ==
  [s EXCEPT ![r].status = target,
            ![r].verified_by = IF target = "VERIFIED" THEN a ELSE @,
            ![r].approved_by = IF target = "APPROVED" THEN a ELSE @]

-------------------------------------------------------------------------------
(* Handling a command: load, apply, then persist. *)

\* get_stream sorts by sequence; the order of equal sequences is open.  The
\* records are numbered again when the stream is written.
Numberings(db) ==
  LET P == Present(db) IN
  {n \in [P -> 1..Cardinality(P)] :
     \A q, r \in P : q # r => n[q] # n[r] /\ (db[q].sequence < db[r].sequence => n[q] < n[r])}

Numbered(db, n) ==
  [r \in Records |-> IF db[r] = Absent THEN Absent ELSE [db[r] EXCEPT !.sequence = n[r]]]

Loaded == {Numbered(records, n) : n \in Numberings(records)}

\* The handler has loaded the stream and the aggregate has accepted.
Accept(c, command, r, s) ==
  /\ handled < MaxCommands
  /\ handled' = handled + 1
  /\ pc' = [pc EXCEPT ![c] = "persist"]
  /\ task' = [task EXCEPT ![c] = [command |-> command, record |-> r]]
  /\ stream' = [stream EXCEPT ![c] = s]
  /\ UNCHANGED <<records, count, outbox, summary, written, current, crashes, reopened>>

HandleRecord(c, r, p) ==
  /\ pc[c] = "idle"
  /\ records[r] = Absent
  /\ \A d \in Callers : pc[d] # "idle" => task[d].record # r \/ task[d].command # "RECORD"
  /\ \E s \in Loaded : CanRecord(s, r) /\ Accept(c, "RECORD", r, Recorded(s, r, p))

HandleCorrect(c, r, p) ==
  /\ pc[c] = "idle" /\ records[r] # Absent
  /\ Len(records[r].revisions) < MaxRevisions
  /\ \E s \in Loaded : CanCorrect(s, r) /\ Accept(c, "CORRECT", r, Corrected(s, r, p))

HandleVoid(c, r) ==
  /\ pc[c] = "idle" /\ records[r] # Absent
  /\ \E s \in Loaded : CanVoid(s, r) /\ Accept(c, "VOID", r, Voided(s, r))

HandleAttach(c, r) ==
  /\ pc[c] = "idle" /\ records[r] # Absent
  /\ records[r].documents < MaxDocuments
  /\ \E s \in Loaded : CanAttach(s, r) /\ Accept(c, "ATTACH", r, Attached(s, r))

\* submit, verify, approve and lock differ in their target only.
HandleTransition(c, r, target, a) ==
  /\ pc[c] = "idle" /\ records[r] # Absent
  /\ \E s \in Loaded :
       /\ CanTransition(s, r, target, a)
       /\ Accept(c, target, r, Transitioned(s, r, target, a))

-------------------------------------------------------------------------------
(* Persisting: upsert_stream writes the count and then every record as a   *)
(* whole, then the event is added to the outbox.                           *)

Projectable(r) == KindOf[r] # "other"

\* What the handler does once its writes are done.
AfterPersist(c) ==
  IF task[c].command = "LOCKED" /\ Projectable(task[c].record) THEN "project" ELSE "idle"

Done(c) ==
  /\ task' = [task EXCEPT ![c] = NoTask]
  /\ stream' = [stream EXCEPT ![c] = [r \in Records |-> Absent]]
  /\ written' = [written EXCEPT ![c] = 0]
  /\ current' = [current EXCEPT ![c] = NoSummary]

Finish(c) ==
  /\ pc' = [pc EXCEPT ![c] = AfterPersist(c)]
  /\ outbox' = outbox \cup {<<task[c].command, task[c].record>>}
  /\ IF AfterPersist(c) = "idle"
       THEN Done(c)
       ELSE UNCHANGED <<task, stream, written, current>>

\* One transaction for the whole stream and the event.
Commit(c) ==
  /\ Transactions
  /\ pc[c] = "persist"
  /\ records' = [r \in Records |-> IF stream[c][r] = Absent THEN records[r] ELSE stream[c][r]]
  /\ count' = Cardinality(Present(stream[c]))
  /\ Finish(c)
  /\ UNCHANGED <<summary, handled, crashes, reopened>>

\* The fallback: the document of the stream first,
WriteCount(c) ==
  /\ ~Transactions
  /\ pc[c] = "persist"
  /\ count' = Cardinality(Present(stream[c]))
  /\ pc' = [pc EXCEPT ![c] = "write"]
  /\ UNCHANGED <<records, outbox, summary, task, stream, written, current, handled, crashes,
                 reopened>>

\* then the records in their order,
WriteRecord(c, r) ==
  /\ pc[c] = "write"
  /\ stream[c][r] # Absent
  /\ stream[c][r].sequence = written[c] + 1
  /\ records' = [records EXCEPT ![r] = stream[c][r]]
  /\ written' = [written EXCEPT ![c] = @ + 1]
  /\ UNCHANGED <<count, outbox, summary, pc, task, stream, current, handled, crashes,
                 reopened>>

\* and the event last.
AddEvent(c) ==
  /\ pc[c] = "write"
  /\ written[c] = Cardinality(Present(stream[c]))
  /\ Finish(c)
  /\ UNCHANGED <<records, count, summary, handled, crashes, reopened>>

-------------------------------------------------------------------------------
(* EmployeeServiceSummaryProjectionService.project_posted_record *)

ReadSummary(c) ==
  /\ pc[c] = "project"
  /\ current' = [current EXCEPT ![c] = summary]
  /\ pc' = [pc EXCEPT ![c] = "upsert"]
  /\ UNCHANGED <<records, count, outbox, summary, task, stream, written, handled, crashes,
                 reopened>>

\* Mutant: a termination ends an engagement only, not a service.
StatusAfterEngagement(kind, status) ==
  CASE kind = "termination" -> IF status = "IN_SERVICE" THEN status ELSE "TERMINATED"
    [] kind = "regularisation" -> "IN_SERVICE"
    [] OTHER -> IF status = None THEN "ENGAGED" ELSE status

\* The service status after a record of this kind.
StatusAfter(kind, status) ==
  CASE kind = "termination" -> "TERMINATED"
    [] kind = "regularisation" -> "IN_SERVICE"
    [] OTHER -> IF status = None THEN "ENGAGED" ELSE status

UpsertSummary(c) ==
  /\ pc[c] = "upsert"
  /\ summary' = [status |-> StatusAfter(KindOf[task[c].record], current[c].status),
                 source |-> task[c].record]
  /\ pc' = [pc EXCEPT ![c] = "idle"]
  /\ Done(c)
  /\ UNCHANGED <<records, count, outbox, handled, crashes, reopened>>

\* The records of a kind that were posted.
PostedRecords(kind) == {r \in Present(records) : records[r].status = "LOCKED" /\ KindOf[r] = kind}

\* _project_locked_opening: whatever the summary says, the approval of the
\* opening puts IN_SERVICE there.  When it is approved is module Opening's.
ProjectOpening ==
  /\ summary' = [status |-> "IN_SERVICE", source |-> Opening]
  /\ reopened' = (reopened \/ PostedRecords("termination") # {})
  /\ UNCHANGED <<records, count, outbox, handlerVars, handled, crashes>>

\* A request is cut off: the process stops, or a database call raises.
CutOff(c) ==
  /\ pc[c] # "idle"
  /\ crashes < MaxCrashes
  /\ crashes' = crashes + 1
  /\ pc' = [pc EXCEPT ![c] = "idle"]
  /\ Done(c)
  /\ UNCHANGED <<records, count, outbox, summary, handled, reopened>>

-------------------------------------------------------------------------------
Handle(c) ==
  \E r \in Records :
    \/ \E p \in Payloads : HandleRecord(c, r, p) \/ HandleCorrect(c, r, p)
    \/ HandleVoid(c, r) \/ HandleAttach(c, r)
    \/ \E target \in DOMAIN AllowedFrom, a \in Actors : HandleTransition(c, r, target, a)

Next ==
  \/ \E c \in Callers :
       \/ Handle(c)
       \/ Commit(c)
       \/ WriteCount(c) \/ AddEvent(c) \/ \E r \in Records : WriteRecord(c, r)
       \/ ReadSummary(c) \/ UpsertSummary(c)
       \/ CutOff(c)
  \/ ProjectOpening

Spec == Init /\ [][Next]_vars

-------------------------------------------------------------------------------
(* Properties. *)

Document ==
  [status : Statuses, is_voided : BOOLEAN, payload : Payloads, hashed : Payloads,
   revisions : Seq(Payloads), documents : Nat,
   verified_by : Actors \cup {None}, approved_by : Actors \cup {None},
   previous : Records \cup {None}, sequence : Nat]

\* What the ledger of the records tells of one.
Entry == [status : Statuses, payload : Payloads, documents : Nat]

ASSUME AbsentAssumption == Absent \notin Document /\ Absent \notin Entry

Summary ==
  [status : {None, "ENGAGED", "IN_SERVICE", "TERMINATED"}, source : Records \cup {None, Opening}]

Commands == {"RECORD", "CORRECT", "VOID", "ATTACH", None} \cup DOMAIN AllowedFrom

\* Type invariant.
TypeOK ==
  /\ records \in [Records -> Document \cup {Absent}]
  /\ count \in Nat
  /\ outbox \subseteq Commands \X Records
  /\ summary \in Summary
  /\ pc \in [Callers -> {"idle", "persist", "write", "project", "upsert"}]
  /\ task \in [Callers -> [command : Commands, record : Records \cup {None}]]
  /\ stream \in [Callers -> [Records -> Document \cup {Absent}]]
  /\ written \in [Callers -> Nat]
  /\ current \in [Callers -> Summary]
  /\ handled \in 0..MaxCommands
  /\ crashes \in 0..MaxCrashes
  /\ reopened \in BOOLEAN

Quiet == \A c \in Callers : pc[c] = "idle"

\* What an approved record says can no longer change, whichever record of
\* the stream is written next; the only thing left to do with it is to lock it.
ApprovedImmutable ==
  [][\A r \in Records :
       records[r] # Absent /\ records[r].status \in Immutable =>
         /\ records'[r].status \in {records[r].status, "LOCKED"}
         /\ records'[r].payload = records[r].payload
         /\ records'[r].documents = records[r].documents
         /\ records'[r].previous = records[r].previous]_vars

\* The hashes form one chain in the order of the stream: every record
\* refers to the one in front of it, and no two to the same one.
ChainLinear ==
  \A r \in Present(records) :
    /\ IF records[r].sequence = 1
         THEN records[r].previous = None
         ELSE \E q \in Present(records) :
                q = records[r].previous /\ records[q].sequence + 1 = records[r].sequence
    /\ \A q \in Present(records) : records[q].previous = records[r].previous => q = r

\* Every hash refers to a record that exists, and following the references
\* ends: any set of records has one that refers to none of them.
ChainGrounded ==
  /\ \A r \in Present(records) : records[r].previous \in Present(records) \cup {None}
  /\ \A S \in SUBSET Present(records) :
       S # {} => \E r \in S : records[r].previous \notin S

\* No record is approved by its verifier, and none is approved or locked
\* without having been verified, whatever stale stream was written over it.
DualControl ==
  \A r \in Present(records) :
    records[r].status \in Immutable =>
      /\ records[r].verified_by # None /\ records[r].approved_by # None
      /\ records[r].verified_by # records[r].approved_by

\* The revisions explain what a record says: it says what the last
\* correction said, or else what was hashed when it was recorded.
TrailExplainsPayload ==
  \A r \in Present(records) :
    LET trail == <<records[r].hashed>> \o records[r].revisions
    IN  records[r].payload = trail[Len(trail)]

\* A termination, once posted, is what the summary says unless another posted
\* record regularised the service or the opening was approved after it: neither
\* an engagement that is posted later nor an opening approved earlier undoes it.
TerminationSticks ==
  /\ Quiet /\ crashes = 0 /\ ~reopened
  /\ PostedRecords("termination") # {} /\ PostedRecords("regularisation") = {}
  => summary.status = "TERMINATED"

\* Handled one at a time, the commands implement ServiceLedger: a record
\* keeps its place and, once approved, what it says.
LedgerOrder ==
  [i \in 1..Cardinality(Present(records)) |->
     CHOOSE r \in Present(records) : records[r].sequence = i]

EntryOf ==
  [r \in Records |->
     IF records[r] = Absent THEN Absent
     ELSE [status |-> records[r].status, payload |-> records[r].payload,
           documents |-> records[r].documents]]

Ledger == INSTANCE ServiceLedger WITH ledger <- LedgerOrder, entry <- EntryOf

ImplementsLedger == Ledger!Spec

===============================================================================
