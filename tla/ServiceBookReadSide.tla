-------------------------- MODULE ServiceBookReadSide --------------------------
(***************************************************************************)
(* service_book/read_side and pay_benefits: pay revisions and allowances   *)
(* are appended to the pay ledger and announced; approvals, corrections    *)
(* and voids of Service Book records are announced too; a subscriber       *)
(* enters each event in the Service Book and patches the part it names.    *)
(* An event whose publication fails is published again later, and one that *)
(* repeats the Idempotency-Key of another of its name is not stored.       *)
(***************************************************************************)
EXTENDS Naturals, Sequences

CONSTANTS
  Callers,      \* pay requests that are handled at the same time
  Names,        \* names of the events the subscriber listens to
  PayNames,     \* of these, the ones a pay request announces
  Parts,        \* parts of the book
  PayPart,      \* the part pay belongs to
  NoPart,       \* an event that names no part
  RequestKeys,  \* Idempotency-Keys of requests
  None,         \* no event, no row, no key
  MaxEvents,    \* bound on the events
  MaxAttempts   \* publications of an event before it is given up

VARIABLES
  transactions, \* whether run_atomic has transactions
  ledger,       \* pay_ledger_entries, in the order of created_at
  job,          \* Callers -> a row that is not announced yet, without transactions
  outbox,       \* the events, in the order of created_at
  current,      \* the event that is published, and how far the projector is
  entries,      \* service_book_entries: how many an event has
  parts,        \* service_book_part_projections: the event that was patched in last
  retried,      \* history: a publication failed
  cut           \* history: a pay request was cut off

vars == <<transactions, ledger, job, outbox, current, entries, parts, retried, cut>>

Events == 1..MaxEvents

Nothing == [event |-> None, step |-> "idle"]

Init ==
  /\ transactions \in BOOLEAN
  /\ ledger = <<>>
  /\ job = [c \in Callers |-> None]
  /\ outbox = <<>>
  /\ current = Nothing
  /\ entries = [e \in Events |-> 0]
  /\ parts = [p \in Parts |-> None]
  /\ retried = FALSE /\ cut = FALSE

NewEvent(name, part, row, key) ==
  [name |-> name, part |-> part, row |-> row, key |-> key, status |-> "PENDING", attempts |-> 0]

\* The outbox is bounded.
Room == Len(outbox) < MaxEvents

\* add_event: the stored event stays when the request repeats a key.
AddEvent(name, part, row, key) ==
  outbox' = IF key # None /\ \E e \in 1..Len(outbox) : outbox[e].name = name /\ outbox[e].key = key
              THEN outbox ELSE Append(outbox, NewEvent(name, part, row, key))

-------------------------------------------------------------------------------
(* Pay: the row, then the event.  Nothing recognises a request that is sent  *)
(* again, with its key or without one.                                       *)

RevisePay(c) ==
  /\ job[c] = None
  /\ Room /\ Len(ledger) < MaxEvents
  /\ \E name \in PayNames, key \in RequestKeys \cup {None} :
       /\ ledger' = Append(ledger, [name |-> name, key |-> key])
       /\ IF transactions
            THEN AddEvent(name, PayPart, Len(ledger) + 1, key) /\ UNCHANGED job
            ELSE /\ job' = [job EXCEPT ![c] = Len(ledger) + 1]
                 /\ UNCHANGED outbox
  /\ UNCHANGED <<transactions, current, entries, parts, retried, cut>>

EnqueueEvent(c) ==
  /\ job[c] # None /\ Room
  /\ AddEvent(ledger[job[c]].name, PayPart, job[c], ledger[job[c]].key)
  /\ job' = [job EXCEPT ![c] = None]
  /\ UNCHANGED <<transactions, ledger, current, entries, parts, retried, cut>>

CutOff(c) ==
  /\ job[c] # None
  /\ job' = [job EXCEPT ![c] = None]
  /\ cut' = TRUE
  /\ UNCHANGED <<transactions, ledger, outbox, current, entries, parts, retried>>

\* A handler of the records announces an approval, which carries the record's
\* part, or a correction or a void, which carry none.
AnnounceRecord(name, part, key) ==
  /\ Room
  /\ part # NoPart => name = "APPROVED"
  /\ AddEvent(name, part, None, key)
  /\ UNCHANGED <<transactions, ledger, job, current, entries, parts, retried, cut>>

-------------------------------------------------------------------------------
(* The subscriber.  The dispatcher takes the oldest event that is due; an    *)
(* event that failed is due some time later, and newer ones may be first.    *)

Due(e) ==
  /\ outbox[e].status = "PENDING"
  /\ \A d \in 1..(e - 1) : outbox[d].status # "PENDING" \/ outbox[d].attempts > 0

Take(e) ==
  /\ current = Nothing
  /\ Due(e)
  /\ current' = [event |-> e, step |-> "enter"]
  /\ UNCHANGED <<transactions, ledger, job, outbox, entries, parts, retried, cut>>

\* Mutant: a plain insert.
InsertEntry ==
  /\ current.step = "enter"
  /\ entries' = [entries EXCEPT ![current.event] = @ + 1]
  /\ current' = [current EXCEPT !.step = "patch"]
  /\ UNCHANGED <<transactions, ledger, job, outbox, parts, retried, cut>>

\* append_entry: $setOnInsert by the event that is the source.
AppendEntry ==
  /\ current.step = "enter"
  /\ entries' = [entries EXCEPT ![current.event] = IF @ = 0 THEN 1 ELSE @]
  /\ current' = [current EXCEPT !.step = "patch"]
  /\ UNCHANGED <<transactions, ledger, job, outbox, parts, retried, cut>>

\* upsert_part_projection: the version is written and never compared.
UpsertPart ==
  /\ current.step = "patch"
  /\ parts' = [p \in Parts |-> IF outbox[current.event].part = p THEN current.event ELSE parts[p]]
  /\ current' = [current EXCEPT !.step = "others"]
  /\ UNCHANGED <<transactions, ledger, job, outbox, entries, retried, cut>>

\* The subscribers behind it return, and the event is sent.
Sent ==
  /\ current.step = "others"
  /\ outbox' = [outbox EXCEPT ![current.event].status = "SENT"]
  /\ current' = Nothing
  /\ UNCHANGED <<transactions, ledger, job, entries, parts, retried, cut>>

\* A subscriber in front of it or behind it raises, or a call of its own.
Raises ==
  /\ current # Nothing
  /\ LET n == outbox[current.event].attempts + 1
     IN outbox' = [outbox EXCEPT ![current.event].attempts = n,
                                 ![current.event].status =
                                   IF n >= MaxAttempts THEN "DEAD" ELSE "PENDING"]
  /\ current' = Nothing
  /\ retried' = TRUE
  /\ UNCHANGED <<transactions, ledger, job, entries, parts, cut>>

Next ==
  \/ \E c \in Callers : RevisePay(c) \/ EnqueueEvent(c) \/ CutOff(c)
  \/ \E name \in Names \ PayNames, part \in Parts \cup {NoPart}, key \in RequestKeys \cup {None} :
       AnnounceRecord(name, part, key)
  \/ \E e \in 1..Len(outbox) : Take(e)
  \/ AppendEntry \/ UpsertPart \/ Sent \/ Raises

Spec == Init /\ [][Next]_vars

-------------------------------------------------------------------------------
(* Properties. *)

\* Type invariant.
TypeOK ==
  /\ transactions \in BOOLEAN
  /\ Len(ledger) <= MaxEvents /\ Len(outbox) <= MaxEvents
  /\ \A e \in 1..Len(outbox) :
       /\ outbox[e].name \in Names /\ outbox[e].part \in Parts \cup {NoPart}
       /\ outbox[e].key \in RequestKeys \cup {None}
       /\ outbox[e].attempts \in 0..MaxAttempts
       /\ outbox[e].status \in {"PENDING", "SENT", "DEAD"}
  /\ job \in [Callers -> Events \cup {None}]
  /\ current.event \in Events \cup {None}
  /\ entries \in [Events -> Nat]
  /\ parts \in [Parts -> Events \cup {None}]
  /\ retried \in BOOLEAN /\ cut \in BOOLEAN

\* However often an event is published, the book has one entry for it, and has
\* it when the event is sent.
EnteredOnce ==
  /\ \A e \in Events : entries[e] <= 1
  /\ \A e \in 1..Len(outbox) : outbox[e].status = "SENT" => entries[e] = 1

\* A part shows an event the book has an entry for, and the newest one as long
\* as no event had to be published again.
PartsFollow ==
  \A p \in Parts :
    /\ parts[p] # None => entries[parts[p]] = 1 /\ outbox[parts[p]].part = p
    /\ ~retried =>
         \A e \in 1..Len(outbox) :
           outbox[e].status = "SENT" /\ outbox[e].part = p => parts[p] # None /\ parts[p] >= e

\* An event of the row, or of another request of its name with its key.
Announces(e, r) ==
  \/ outbox[e].row = r
  \/ /\ ledger[r].key # None
     /\ outbox[e].name = ledger[r].name /\ outbox[e].key = ledger[r].key

\* No row of the pay ledger is announced twice, and each is, by an event of its
\* own or the request that still works on it, unless a request was cut off
\* without a transaction, or the row repeats the key of a request before it;
\* every event about pay has its row.
PayAnnounced ==
  /\ \A e \in 1..Len(outbox) : outbox[e].name \in PayNames =>
       ledger[outbox[e].row] = [name |-> outbox[e].name, key |-> outbox[e].key]
  /\ \A d, e \in 1..Len(outbox) : outbox[d].row # None /\ outbox[d].row = outbox[e].row => d = e
  /\ ~cut => \A r \in 1..Len(ledger) :
       (\E c \in Callers : job[c] = r) \/ (\E e \in 1..Len(outbox) : Announces(e, r))

BookFollows == EnteredOnce /\ PartsFollow /\ PayAnnounced
================================================================================
