------------------------- MODULE ServiceRecordsProofs -------------------------
(***************************************************************************)
(* ServiceRecords, proved for any number of records, actors and crashes,   *)
(* with and without transactions.                                          *)
(*                                                                         *)
(* For any number of requests: the handlers overwrite each other's         *)
(* streams, but they always write whole records, and every record they     *)
(* write comes from a load and at most one operation of the aggregate; a   *)
(* property of single records that the operations preserve (IInv) is kept  *)
(* by every interleaving.  The reference of a record is taken once and     *)
(* agrees in every copy (GInv), so the references have no cycle.           *)
(*                                                                         *)
(* For requests handled one at a time: what is about to be written is one  *)
(* operation away from what is stored (LInv), hence the chain is linear    *)
(* and ServiceLedger is implemented; and the summary has been told what is *)
(* posted, except by the request that is about to tell it (PInv).          *)
(***************************************************************************)
EXTENDS ServiceRecords, FiniteSetTheorems, TLAPS

-------------------------------------------------------------------------------
(* The property of a single record. *)

Controlled(d) ==
  /\ d.status \in {"VERIFIED", "APPROVED", "LOCKED"} => d.verified_by \in Actors
  /\ d.status \in Immutable => d.approved_by \in Actors /\ d.verified_by # d.approved_by
  /\ d.status = "VOIDED" => d.is_voided

Trailed(d) ==
  d.payload = IF d.revisions = <<>> THEN d.hashed ELSE d.revisions[Len(d.revisions)]

Good(d) == d \in Document /\ Controlled(d) /\ Trailed(d)

\* A stream, in the database or in a handler's memory, has good records only.
Streams == [Records -> Document \cup {Absent}]
Sound(s) == s \in Streams /\ \A r \in Records : s[r] # Absent => Good(s[r])

IInv ==
  /\ Sound(records)
  /\ stream \in [Callers -> Streams]
  /\ \A c \in Callers : Sound(stream[c])

-------------------------------------------------------------------------------
(* The operations of the aggregate keep it. *)

LEMMA PresentFinite ==
  ASSUME NEW s
  PROVE  IsFiniteSet(Present(s)) /\ Cardinality(Present(s)) \in Nat
<1>1. Present(s) \subseteq Records
  BY DEF Present
<1> QED
  BY <1>1, RecordsAssumption, FS_Subset, FS_CardinalityType

LEMMA RecordSound ==
  ASSUME NEW s, Sound(s), NEW r \in Records, NEW p \in Payloads
  PROVE  Sound(Recorded(s, r, p))
<1> DEFINE d == [status |-> "DRAFT", is_voided |-> FALSE, payload |-> p,
                 hashed |-> p, revisions |-> <<>>, documents |-> 0,
                 verified_by |-> None, approved_by |-> None,
                 previous |-> Last(s), sequence |-> Cardinality(Present(s)) + 1]
<1>1. Last(s) \in Records \cup {None}
  BY DEF Last, Present
<1>2. <<>> \in Seq(Payloads)
  OBVIOUS
<1>3. d \in Document
  BY <1>1, <1>2, PresentFinite DEF Document, Statuses
<1>4. Good(d)
  BY <1>3 DEF Good, Controlled, Trailed, Immutable
<1>5. Recorded(s, r, p) = [s EXCEPT ![r] = d]
  BY DEF Recorded
<1> QED
  BY <1>3, <1>4, <1>5 DEF Sound, Streams

LEMMA CorrectSound ==
  ASSUME NEW s, Sound(s), NEW r \in Records, Good(s[r]), NEW p \in Payloads
  PROVE  Sound(Corrected(s, r, p))
<1> DEFINE d == [s[r] EXCEPT !.payload = p, !.revisions = Append(@, p)]
<1>1. s[r] \in Document /\ Good(s[r])
  BY DEF Sound, Good
<1>2. /\ s[r].revisions \in Seq(Payloads)
      /\ Append(s[r].revisions, p) \in Seq(Payloads)
      /\ Append(s[r].revisions, p) # <<>>
      /\ Append(s[r].revisions, p)[Len(Append(s[r].revisions, p))] = p
  BY <1>1 DEF Document
<1>3. d \in Document /\ d.payload = p /\ d.revisions = Append(s[r].revisions, p)
      /\ d.status = s[r].status /\ d.verified_by = s[r].verified_by
      /\ d.approved_by = s[r].approved_by /\ d.is_voided = s[r].is_voided
  BY <1>1, <1>2 DEF Document
<1>4. Good(d)
  BY <1>1, <1>2, <1>3 DEF Good, Controlled, Trailed
<1>5. Corrected(s, r, p) = [s EXCEPT ![r] = d]
  BY DEF Corrected, Sound, Streams
<1> QED
  BY <1>3, <1>4, <1>5 DEF Sound, Streams

\* Voiding and attaching leave the controlled fields and the trail alone.
LEMMA VoidSound ==
  ASSUME NEW s, Sound(s), NEW r \in Records, Good(s[r])
  PROVE  Sound(Voided(s, r))
<1> DEFINE d == [s[r] EXCEPT !.is_voided = TRUE, !.status = "VOIDED"]
<1>1. s[r] \in Document /\ Good(s[r])
  BY DEF Sound, Good
<1>2. d \in Document /\ Good(d)
  BY <1>1 DEF Document, Statuses, Good, Controlled, Trailed, Immutable
<1>3. Voided(s, r) = [s EXCEPT ![r] = d]
  BY DEF Voided, Sound, Streams
<1> QED
  BY <1>2, <1>3 DEF Sound, Streams

LEMMA AttachSound ==
  ASSUME NEW s, Sound(s), NEW r \in Records, Good(s[r])
  PROVE  Sound(Attached(s, r))
<1> DEFINE d == [s[r] EXCEPT !.documents = @ + 1]
<1>1. s[r] \in Document /\ Good(s[r])
  BY DEF Sound, Good
<1>2. d \in Document /\ Good(d)
  BY <1>1 DEF Document, Good, Controlled, Trailed
<1>3. Attached(s, r) = [s EXCEPT ![r] = d]
  BY DEF Attached, Sound, Streams
<1> QED
  BY <1>2, <1>3 DEF Sound, Streams

\* A transition to APPROVED finds a verifier and stamps somebody else.
LEMMA TransitionSound ==
  ASSUME NEW s, Sound(s), NEW r \in Records, Good(s[r]),
         NEW target \in DOMAIN AllowedFrom, NEW a \in Actors,
         CanTransition(s, r, target, a)
  PROVE  Sound(Transitioned(s, r, target, a))
<1> DEFINE d == [s[r] EXCEPT
                   !.status = target,
                   !.verified_by = IF target = "VERIFIED" THEN a ELSE @,
                   !.approved_by = IF target = "APPROVED" THEN a ELSE @]
<1>1. s[r] \in Document /\ Good(s[r])
  BY DEF Sound, Good
<1>2. target \in {"SUBMITTED", "VERIFIED", "APPROVED", "LOCKED"}
  BY DEF AllowedFrom
<1>3. /\ target = "APPROVED" => s[r].status = "VERIFIED" /\ s[r].verified_by # a
      /\ target = "LOCKED" => s[r].status = "APPROVED"
  BY DEF CanTransition, AllowedFrom
<1>4. d \in Document
  BY <1>1, <1>2 DEF Document, Statuses
<1>5. Controlled(d)
  BY <1>1, <1>2, <1>3 DEF Document, Good, Controlled, Immutable
<1>6. Trailed(d)
  BY <1>1 DEF Document, Good, Trailed
<1>7. Transitioned(s, r, target, a) = [s EXCEPT ![r] = d]
  BY DEF Transitioned, Sound, Streams
<1> QED
  BY <1>4, <1>5, <1>6, <1>7 DEF Sound, Streams, Good

\* Numbering the records of a load changes nothing but their sequence.
LEMMA LoadSound ==
  ASSUME NEW s \in Loaded, Sound(records)
  PROVE  Sound(s) /\ \A r \in Records : records[r] # Absent => Good(s[r])
<1>1. PICK n \in Numberings(records) : s = Numbered(records, n)
  BY DEF Loaded
<1>2. \A r \in Records : records[r] # Absent => n[r] \in Nat
  BY <1>1, PresentFinite DEF Numberings, Present
<1>3. ASSUME NEW r \in Records, records[r] # Absent
      PROVE  s[r] \in Document /\ Good(s[r])
  <2>1. s[r] = [records[r] EXCEPT !.sequence = n[r]]
    BY <1>1, <1>3 DEF Numbered
  <2>2. records[r] \in Document /\ Good(records[r])
    BY <1>3 DEF Sound, Good
  <2> QED
    BY <2>1, <2>2, <1>2, <1>3 DEF Document, Good, Controlled, Trailed
<1>4. \A r \in Records : records[r] = Absent => s[r] = Absent
  BY <1>1 DEF Numbered
<1> QED
  BY <1>1, <1>3, <1>4 DEF Sound, Streams, Numbered

-------------------------------------------------------------------------------
(* Every step keeps it. *)

LEMMA InitIInv == Init => IInv
BY DEF Init, IInv, Sound, Streams

\* A handler that has accepted holds a sound stream.
LEMMA AcceptStep ==
  ASSUME IInv, NEW c \in Callers, NEW command, NEW r \in Records, NEW s, Sound(s),
         Accept(c, command, r, s)
  PROVE  IInv'
BY DEF Accept, IInv, Sound

\* A request that is done holds no stream.
LEMMA DoneStep ==
  ASSUME IInv, NEW c \in Callers, Done(c), Sound(records)'
  PROVE  IInv'
<1>1. Sound([r \in Records |-> Absent])
  BY DEF Sound, Streams
<1> QED
  BY <1>1 DEF Done, IInv, Sound

LEMMA FinishStep ==
  ASSUME IInv, NEW c \in Callers, Finish(c), Sound(records)'
  PROVE  IInv'
<1>1. CASE AfterPersist(c) = "idle"
  BY <1>1, DoneStep DEF Finish
<1>2. CASE AfterPersist(c) # "idle"
  BY <1>2 DEF Finish, IInv, Sound
<1> QED
  BY <1>1, <1>2

LEMMA HandleStep ==
  ASSUME IInv, NEW c \in Callers, Handle(c)
  PROVE  IInv'
<1> USE DEF IInv
<1>1. ASSUME NEW r \in Records, NEW p \in Payloads, HandleRecord(c, r, p) PROVE IInv'
  BY <1>1, LoadSound, RecordSound, AcceptStep DEF HandleRecord
<1>2. ASSUME NEW r \in Records, NEW p \in Payloads, HandleCorrect(c, r, p) PROVE IInv'
  BY <1>2, LoadSound, CorrectSound, AcceptStep DEF HandleCorrect
<1>3. ASSUME NEW r \in Records, HandleVoid(c, r) PROVE IInv'
  BY <1>3, LoadSound, VoidSound, AcceptStep DEF HandleVoid
<1>4. ASSUME NEW r \in Records, HandleAttach(c, r) PROVE IInv'
  BY <1>4, LoadSound, AttachSound, AcceptStep DEF HandleAttach
<1>5. ASSUME NEW r \in Records, NEW target \in DOMAIN AllowedFrom, NEW a \in Actors,
             HandleTransition(c, r, target, a)
      PROVE  IInv'
  BY <1>5, LoadSound, TransitionSound, AcceptStep DEF HandleTransition
<1> QED
  BY <1>1, <1>2, <1>3, <1>4, <1>5 DEF Handle

LEMMA StepIInv == IInv /\ [Next]_vars => IInv'
<1> SUFFICES ASSUME IInv, [Next]_vars PROVE IInv'
  OBVIOUS
<1>1. ASSUME NEW c \in Callers, Handle(c) PROVE IInv'
  BY <1>1, HandleStep
<1>2. ASSUME NEW c \in Callers, Commit(c) PROVE IInv'
  <2>1. Sound(records)'
    BY <1>2 DEF Commit, IInv, Sound, Streams
  <2> QED
    BY <1>2, <2>1, FinishStep DEF Commit
<1>3. ASSUME NEW c \in Callers, WriteCount(c) PROVE IInv'
  BY <1>3 DEF WriteCount, IInv, Sound
<1>4. ASSUME NEW c \in Callers, NEW r \in Records, WriteRecord(c, r) PROVE IInv'
  BY <1>4 DEF WriteRecord, IInv, Sound, Streams
<1>5. ASSUME NEW c \in Callers, AddEvent(c) PROVE IInv'
  BY <1>5, FinishStep DEF AddEvent, IInv, Sound
<1>6. ASSUME NEW c \in Callers, ReadSummary(c) PROVE IInv'
  BY <1>6 DEF ReadSummary, IInv, Sound
<1>7. ASSUME NEW c \in Callers, UpsertSummary(c) \/ CutOff(c) PROVE IInv'
  BY <1>7, DoneStep DEF UpsertSummary, CutOff, IInv, Sound
<1>8. CASE ProjectOpening \/ UNCHANGED vars
  BY <1>8 DEF ProjectOpening, vars, handlerVars, IInv, Sound
<1> QED
  BY <1>1, <1>2, <1>3, <1>4, <1>5, <1>6, <1>7, <1>8 DEF Next

\* No record is ever approved or locked by its own verifier or without one,
\* for any number of commands that overwrite each other's streams, whole or
\* record by record.
THEOREM DualControlHolds == Spec => []DualControl
<1>1. IInv => DualControl
  BY ActorsAssumption DEF IInv, Sound, Good, Controlled, DualControl, Present, Immutable
<1> QED
  BY <1>1, InitIInv, StepIInv, PTL DEF Spec

\* The last entry of the trail of a good record is what it says.
LEMMA TrailEnds ==
  ASSUME NEW d, Good(d)
  PROVE  LET trail == <<d.hashed>> \o d.revisions IN d.payload = trail[Len(trail)]
<1>1. d.revisions \in Seq(Payloads) /\ d.hashed \in Payloads
  BY DEF Good, Document
<1>2. CASE d.revisions = <<>>
  BY <1>1, <1>2 DEF Good, Trailed
<1>3. CASE d.revisions # <<>>
  <2>1. Len(d.revisions) \in Nat /\ Len(d.revisions) > 0
    BY <1>1, <1>3
  <2>2. Len(<<d.hashed>> \o d.revisions) = 1 + Len(d.revisions)
    BY <1>1
  <2>3. (<<d.hashed>> \o d.revisions)[1 + Len(d.revisions)] = d.revisions[Len(d.revisions)]
    BY <1>1, <2>1
  <2> QED
    BY <1>3, <2>2, <2>3 DEF Good, Trailed
<1> QED
  BY <1>2, <1>3

\* What a record says is always explained by its own revisions: a stale
\* write takes a correction and its revision back together.
THEOREM TrailHolds == Spec => []TrailExplainsPayload
<1>1. IInv => TrailExplainsPayload
  <2>1. SUFFICES ASSUME IInv, NEW r \in Present(records)
                 PROVE  LET trail == <<records[r].hashed>> \o records[r].revisions
                        IN  records[r].payload = trail[Len(trail)]
    BY DEF TrailExplainsPayload
  <2>2. Good(records[r])
    BY <2>1 DEF IInv, Sound, Present
  <2> QED
    BY <2>2, TrailEnds
<1> QED
  BY <1>1, InitIInv, StepIInv, PTL DEF Spec

-------------------------------------------------------------------------------
(* Types.  Beyond what IInv says of the records: a request at work has a   *)
(* record to work on, so the event it adds is an event of a record.        *)

TInv ==
  /\ TypeOK
  /\ IInv
  /\ \A c \in Callers : pc[c] # "idle" => task[c].record \in Records

LEMMA InitTInv == Init => TInv
<1> SUFFICES ASSUME Init PROVE TInv
  OBVIOUS
<1>1. IInv
  BY InitIInv
<1>2. NoSummary \in Summary
  BY DEF NoSummary, Summary
<1>3. NoTask \in [command : Commands, record : Records \cup {None}]
  BY DEF NoTask, Commands
<1>4. handled \in 0..MaxCommands /\ crashes \in 0..MaxCrashes /\ count \in Nat
  BY BoundsAssumption DEF Init
<1>5. TypeOK
  BY <1>2, <1>3, <1>4 DEF Init, TypeOK
<1> QED
  BY <1>1, <1>5 DEF TInv, Init

LEMMA AcceptTyped ==
  ASSUME TInv, IInv', NEW c \in Callers, NEW command \in Commands, NEW r \in Records, NEW s,
         Accept(c, command, r, s)
  PROVE  TInv'
<1>1. handled' \in 0..MaxCommands
  BY BoundsAssumption DEF Accept, TInv, TypeOK
<1>2. task' \in [Callers -> [command : Commands, record : Records \cup {None}]]
  BY DEF Accept, TInv, TypeOK
<1>3. pc' \in [Callers -> {"idle", "persist", "write", "project", "upsert"}]
  BY DEF Accept, TInv, TypeOK
<1>4. \A d \in Callers : pc'[d] # "idle" => task'[d].record \in Records
  BY DEF Accept, TInv, TypeOK
<1>5. stream' \in [Callers -> [Records -> Document \cup {Absent}]]
  BY DEF IInv, Streams
<1> QED
  BY <1>1, <1>2, <1>3, <1>4, <1>5 DEF Accept, TInv, TypeOK

LEMMA DoneTyped ==
  ASSUME TInv, NEW c \in Callers, Done(c), pc' = [pc EXCEPT ![c] = "idle"]
  PROVE  /\ pc' \in [Callers -> {"idle", "persist", "write", "project", "upsert"}]
         /\ task' \in [Callers -> [command : Commands, record : Records \cup {None}]]
         /\ written' \in [Callers -> Nat]
         /\ current' \in [Callers -> Summary]
         /\ \A d \in Callers : pc'[d] # "idle" => task'[d].record \in Records
<1>1. NoTask \in [command : Commands, record : Records \cup {None}]
  BY DEF NoTask, Commands
<1>2. NoSummary \in Summary
  BY DEF NoSummary, Summary
<1>3. /\ task' \in [Callers -> [command : Commands, record : Records \cup {None}]]
      /\ written' \in [Callers -> Nat]
      /\ current' \in [Callers -> Summary]
  BY <1>1, <1>2 DEF Done, TInv, TypeOK
<1>4. pc' \in [Callers -> {"idle", "persist", "write", "project", "upsert"}]
  BY DEF TInv, TypeOK
<1>5. \A d \in Callers : pc'[d] # "idle" => task'[d].record \in Records
  BY DEF Done, TInv, TypeOK
<1> QED
  BY <1>3, <1>4, <1>5

LEMMA FinishTyped ==
  ASSUME TInv, NEW c \in Callers, Finish(c), pc[c] # "idle"
  PROVE  /\ pc' \in [Callers -> {"idle", "persist", "write", "project", "upsert"}]
         /\ task' \in [Callers -> [command : Commands, record : Records \cup {None}]]
         /\ written' \in [Callers -> Nat]
         /\ current' \in [Callers -> Summary]
         /\ outbox' \subseteq Commands \X Records
         /\ \A d \in Callers : pc'[d] # "idle" => task'[d].record \in Records
<1>1. outbox' \subseteq Commands \X Records
  BY DEF Finish, TInv, TypeOK
<1>2. CASE AfterPersist(c) = "idle"
  BY <1>1, <1>2, DoneTyped DEF Finish
<1>3. CASE AfterPersist(c) # "idle"
  BY <1>1, <1>3 DEF Finish, AfterPersist, TInv, TypeOK
<1> QED
  BY <1>2, <1>3

LEMMA StepTInv == TInv /\ [Next]_vars => TInv'
<1> SUFFICES ASSUME TInv, [Next]_vars PROVE TInv'
  OBVIOUS
<1>0. IInv' /\ stream' \in [Callers -> [Records -> Document \cup {Absent}]]
      /\ records' \in [Records -> Document \cup {Absent}]
  BY StepIInv DEF TInv, IInv, Sound, Streams
<1>1. ASSUME NEW c \in Callers, Handle(c) PROVE TInv'
  <2>1. {"RECORD", "CORRECT", "VOID", "ATTACH"} \cup DOMAIN AllowedFrom \subseteq Commands
    BY DEF Commands
  <2>2. \E command \in Commands, r \in Records : \E s : Accept(c, command, r, s)
    BY <1>1, <2>1 DEF Handle, HandleRecord, HandleCorrect, HandleVoid, HandleAttach,
                      HandleTransition
  <2> QED
    BY <1>0, <2>2, AcceptTyped
<1>2. ASSUME NEW c \in Callers, Commit(c) PROVE TInv'
  <2>1. count' \in Nat
    BY <1>2, PresentFinite DEF Commit
  <2> QED
    BY <1>0, <1>2, <2>1, FinishTyped DEF Commit, TInv, TypeOK
<1>3. ASSUME NEW c \in Callers, WriteCount(c) PROVE TInv'
  <2>1. count' \in Nat
    BY <1>3, PresentFinite DEF WriteCount
  <2> QED
    BY <1>0, <1>3, <2>1 DEF WriteCount, TInv, TypeOK
<1>4. ASSUME NEW c \in Callers, NEW r \in Records, WriteRecord(c, r) PROVE TInv'
  BY <1>0, <1>4 DEF WriteRecord, TInv, TypeOK
<1>5. ASSUME NEW c \in Callers, AddEvent(c) PROVE TInv'
  BY <1>0, <1>5, FinishTyped DEF AddEvent, TInv, TypeOK
<1>6. ASSUME NEW c \in Callers, ReadSummary(c) PROVE TInv'
  BY <1>0, <1>6 DEF ReadSummary, TInv, TypeOK
<1>7. ASSUME NEW c \in Callers, UpsertSummary(c) PROVE TInv'
  <2>1. summary' \in Summary
    BY <1>7 DEF UpsertSummary, StatusAfter, Summary, TInv, TypeOK
  <2> QED
    BY <1>0, <1>7, <2>1, DoneTyped DEF UpsertSummary, TInv, TypeOK
<1>8. ASSUME NEW c \in Callers, CutOff(c) PROVE TInv'
  <2>1. crashes' \in 0..MaxCrashes
    BY <1>8, BoundsAssumption DEF CutOff, TInv, TypeOK
  <2> QED
    BY <1>0, <1>8, <2>1, DoneTyped DEF CutOff, TInv, TypeOK
<1>9. CASE ProjectOpening
  <2>1. summary' \in Summary /\ reopened' \in BOOLEAN
    BY <1>9 DEF ProjectOpening, Summary, TInv, TypeOK
  <2> QED
    BY <1>0, <1>9, <2>1 DEF ProjectOpening, handlerVars, TInv, TypeOK
<1>10. CASE UNCHANGED vars
  BY <1>0, <1>10 DEF vars, handlerVars, TInv, TypeOK
<1> QED
  BY <1>1, <1>2, <1>3, <1>4, <1>5, <1>6, <1>7, <1>8, <1>9, <1>10 DEF Next

\* Every variable keeps its type for any number of requests that overwrite
\* each other's streams; in particular every event names a record.
THEOREM TypeCorrect == Spec => []TypeOK
<1>1. TInv => TypeOK
  BY DEF TInv
<1> QED
  BY <1>1, InitTInv, StepTInv, PTL DEF Spec

-------------------------------------------------------------------------------
(* Handled one at a time, commands leave approved records alone: what a    *)
(* handler is about to write agrees with every approved record it finds.   *)

OneAtATime == \A c, d \in Callers : c = d

Kept(d, e) ==
  /\ e.status \in {d.status, "LOCKED"}
  /\ e.payload = d.payload
  /\ e.documents = d.documents
  /\ e.previous = d.previous

Approved(s, r) == s[r] # Absent /\ s[r].status \in Immutable

Phases == {"idle", "persist", "write", "project", "upsert"}

KInv ==
  /\ pc \in [Callers -> Phases]
  /\ \A c \in Callers : pc[c] \in {"persist", "write"} =>
       \A r \in Records : Approved(records, r) =>
         stream[c][r] # Absent /\ Kept(records[r], stream[c][r])

LEMMA LoadKeeps ==
  ASSUME NEW s \in Loaded, Sound(records), NEW r \in Records, records[r] # Absent
  PROVE  /\ s[r] # Absent
         /\ s[r].status = records[r].status
         /\ Kept(records[r], s[r])
<1>1. PICK n : s = Numbered(records, n)
  BY DEF Loaded
<1>2. s[r] = [records[r] EXCEPT !.sequence = n[r]]
  BY <1>1 DEF Numbered
<1>3. s[r] # Absent
  BY LoadSound, AbsentAssumption DEF Good
<1> QED
  BY <1>2, <1>3 DEF Sound, Good, Document, Kept

\* The guards of the aggregate keep the operations away from it.
Keeps(s) ==
  \A r \in Records : Approved(records, r) => s[r] # Absent /\ Kept(records[r], s[r])

LEMMA AcceptKeeps ==
  ASSUME OneAtATime, IInv, KInv, NEW c \in Callers, NEW command, NEW r \in Records,
         NEW s, Accept(c, command, r, s), Keeps(s)
  PROVE  KInv'
BY DEF OneAtATime, Accept, KInv, IInv, Approved, Keeps, Phases

\* An operation on a record that is not approved.
LEMMA OtherKeeps ==
  ASSUME Sound(records), NEW s \in Loaded, NEW t, NEW r \in Records,
         ~Approved(records, r), \A q \in Records \ {r} : t[q] = s[q]
  PROVE  Keeps(t)
BY LoadKeeps DEF Approved, Keeps

LEMMA HandleKeeps ==
  ASSUME OneAtATime, IInv, KInv, NEW c \in Callers, Handle(c)
  PROVE  KInv'
<1>0. Sound(records)
  BY DEF IInv
<1>1. \A s \in Loaded : s \in Streams
  BY <1>0, LoadSound DEF Sound
<1>2. \A s \in Loaded, r \in Records : records[r] # Absent => s[r].status = records[r].status
  BY <1>0, LoadKeeps
<1>3. ASSUME NEW r \in Records, NEW p \in Payloads, HandleRecord(c, r, p) PROVE KInv'
  BY <1>0, <1>1, <1>3, OtherKeeps, AcceptKeeps DEF HandleRecord, Recorded, Streams, Approved
<1>4. ASSUME NEW r \in Records, NEW p \in Payloads, HandleCorrect(c, r, p) PROVE KInv'
  BY <1>0, <1>1, <1>2, <1>4, OtherKeeps, AcceptKeeps
     DEF HandleCorrect, CanCorrect, Corrected, Streams, Approved
<1>5. ASSUME NEW r \in Records, HandleVoid(c, r) PROVE KInv'
  BY <1>0, <1>1, <1>2, <1>5, OtherKeeps, AcceptKeeps
     DEF HandleVoid, CanVoid, Voided, Streams, Approved
<1>6. ASSUME NEW r \in Records, HandleAttach(c, r) PROVE KInv'
  BY <1>0, <1>1, <1>2, <1>6, OtherKeeps, AcceptKeeps
     DEF HandleAttach, CanAttach, Attached, Streams, Approved
<1>7. ASSUME NEW r \in Records, NEW target \in DOMAIN AllowedFrom, NEW a \in Actors,
             HandleTransition(c, r, target, a)
      PROVE  KInv'
  <2>1. PICK s \in Loaded : /\ records[r] # Absent
                            /\ CanTransition(s, r, target, a)
                            /\ Accept(c, target, r, Transitioned(s, r, target, a))
    BY <1>7 DEF HandleTransition
  <2>2. CASE ~Approved(records, r)
    BY <1>0, <1>1, <2>1, <2>2, OtherKeeps, AcceptKeeps DEF Transitioned, Streams
  <2>3. CASE Approved(records, r)
    <3>1. target = "LOCKED"
      BY <1>2, <2>1, <2>3 DEF CanTransition, AllowedFrom, Approved, Immutable
    <3>2. Good(s[r]) /\ Kept(records[r], s[r])
      BY <1>0, <2>1, LoadSound, LoadKeeps
    <3>3. \A q \in Records : Approved(records, q) => s[q] # Absent /\ Kept(records[q], s[q])
      BY <1>0, <2>1, LoadKeeps DEF Approved
    <3>4. Keeps(Transitioned(s, r, target, a))
      <4>1. ASSUME NEW q \in Records \ {r}, Approved(records, q)
            PROVE  Transitioned(s, r, target, a)[q] = s[q]
        BY <1>1 DEF Transitioned, Streams
      <4>2. LET e == Transitioned(s, r, target, a)[r]
            IN  e \in Document /\ Kept(records[r], e)
        <5>1. Transitioned(s, r, target, a)[r] =
                [s[r] EXCEPT !.status = target,
                             !.verified_by = IF target = "VERIFIED" THEN a ELSE @,
                             !.approved_by = IF target = "APPROVED" THEN a ELSE @]
          BY <1>1 DEF Transitioned, Streams
        <5>2. s[r] \in Document
          BY <3>2 DEF Good
        <5> QED
          BY <3>1, <3>2, <5>1, <5>2 DEF Document, Kept, Statuses
      <4>3. Transitioned(s, r, target, a)[r] # Absent
        BY <4>2, AbsentAssumption
      <4> QED
        BY <3>3, <4>1, <4>2, <4>3 DEF Keeps
    <3> QED
      BY <2>1, <3>4, AcceptKeeps
  <2> QED
    BY <2>2, <2>3
<1> QED
  BY <1>3, <1>4, <1>5, <1>6, <1>7 DEF Handle

\* A request that is done has nothing left to write.
LEMMA FinishKeeps ==
  ASSUME OneAtATime, KInv, NEW c \in Callers, Finish(c)
  PROVE  KInv'
BY DEF OneAtATime, Finish, AfterPersist, KInv, Phases

LEMMA StepKInv ==
  ASSUME OneAtATime, IInv, KInv, [Next]_vars
  PROVE  KInv'
<1>1. ASSUME NEW c \in Callers, Handle(c) PROVE KInv'
  BY <1>1, HandleKeeps
<1>2. ASSUME NEW c \in Callers, Commit(c) \/ AddEvent(c) PROVE KInv'
  BY <1>2, FinishKeeps DEF Commit, AddEvent
<1>3. ASSUME NEW c \in Callers, WriteCount(c) PROVE KInv'
  BY <1>3 DEF WriteCount, OneAtATime, KInv, Approved, Phases
<1>4. ASSUME NEW c \in Callers, NEW r \in Records, WriteRecord(c, r) PROVE KInv'
  <2>1. records' \in Streams /\ records \in Streams
    BY <1>4 DEF WriteRecord, IInv, Sound, Streams
  <2>2. stream' = stream /\ pc' = pc /\ pc[c] = "write" /\ stream[c][r] # Absent
        /\ records' = [records EXCEPT ![r] = stream[c][r]]
    BY <1>4 DEF WriteRecord
  <2>3. ASSUME NEW q \in Records, Approved(records', q)
        PROVE  stream[c][q] # Absent /\ Kept(records'[q], stream[c][q])
    BY <2>1, <2>2, <2>3 DEF KInv, Approved, Kept, Streams
  <2> QED
    BY <2>2, <2>3 DEF KInv, OneAtATime, Approved
<1>5. ASSUME NEW c \in Callers, ReadSummary(c) \/ UpsertSummary(c) \/ CutOff(c) PROVE KInv'
  BY <1>5 DEF ReadSummary, UpsertSummary, CutOff, OneAtATime, KInv, Phases
<1>6. CASE ProjectOpening \/ UNCHANGED vars
  BY <1>6 DEF ProjectOpening, vars, handlerVars, KInv, Approved
<1> QED
  BY <1>1, <1>2, <1>3, <1>4, <1>5, <1>6 DEF Next

\* What the step itself does to an approved record.
StepKeeps ==
  \A r \in Records : Approved(records, r) => Kept(records[r], records'[r])

LEMMA StepImmutable ==
  ASSUME IInv, KInv, [Next]_vars
  PROVE  StepKeeps
<1>1. ASSUME NEW c \in Callers, Commit(c) PROVE StepKeeps
  BY <1>1 DEF Commit, KInv, StepKeeps, Approved
<1>2. ASSUME NEW c \in Callers, NEW r \in Records, WriteRecord(c, r) PROVE StepKeeps
  <2>1. ASSUME NEW q \in Records, Approved(records, q)
        PROVE  records'[q] = IF q = r THEN stream[c][q] ELSE records[q]
    BY <1>2 DEF WriteRecord, IInv, Sound, Streams
  <2>2. ASSUME NEW q \in Records, Approved(records, q)
        PROVE  Kept(records[q], stream[c][q])
    BY <1>2, <2>2 DEF WriteRecord, KInv
  <2> QED
    BY <2>1, <2>2 DEF StepKeeps, Kept
<1>3. ASSUME UNCHANGED records PROVE StepKeeps
  BY <1>3 DEF StepKeeps, Kept
<1>4. ASSUME NEW c \in Callers,
             \/ Handle(c) \/ WriteCount(c) \/ AddEvent(c)
             \/ ReadSummary(c) \/ UpsertSummary(c) \/ CutOff(c)
      PROVE  UNCHANGED records
  BY <1>4 DEF Handle, HandleRecord, HandleCorrect, HandleVoid, HandleAttach, HandleTransition,
              Accept, WriteCount, AddEvent, ReadSummary, UpsertSummary, CutOff
<1>5. CASE ProjectOpening \/ UNCHANGED vars
  BY <1>3, <1>5 DEF ProjectOpening, vars
<1> QED
  BY <1>1, <1>2, <1>3, <1>4, <1>5 DEF Next

\* Handled one at a time, whatever step the handlers are cut off after, the
\* commands never change what an approved record says.  (The run Records_lost
\* shows two requests that do.)
THEOREM ImmutableOneAtATime ==
  ASSUME OneAtATime
  PROVE  Spec => ApprovedImmutable
<1>1. Init => KInv
  BY DEF Init, KInv, Phases
<1>2. IInv /\ KInv /\ [Next]_vars => KInv'
  BY StepKInv
<1>3. IInv /\ KInv /\ [Next]_vars =>
        [\A r \in Records :
           records[r] # Absent /\ records[r].status \in Immutable =>
             /\ records'[r].status \in {records[r].status, "LOCKED"}
             /\ records'[r].payload = records[r].payload
             /\ records'[r].documents = records[r].documents
             /\ records'[r].previous = records[r].previous]_vars
  BY StepImmutable DEF StepKeeps, Approved, Kept
<1> QED
  BY <1>1, <1>2, <1>3, InitIInv, StepIInv, PTL DEF Spec, ApprovedImmutable

-------------------------------------------------------------------------------
(* The references never form a cycle.  The reference of a record is taken  *)
(* once, from the load its request works from, and no later write changes  *)
(* it: a record that is not in the database yet is in the stream of the    *)
(* one request that records it, and every other copy agrees with it.       *)

\* Every reference is to a record that is there, and following them ends.
Grounded(db) ==
  /\ \A r \in Present(db) : db[r].previous \in Present(db) \cup {None}
  /\ \A S \in SUBSET Present(db) : S # {} => \E r \in S : db[r].previous \notin S

\* A copy of r in a stream agrees with the one in the database, or the
\* request that holds it is the one that records r.
Referred(db, c, r) ==
  stream[c][r] # Absent =>
    IF db[r] # Absent
      THEN stream[c][r].previous = db[r].previous
      ELSE /\ pc[c] \in {"persist", "write"}
           /\ task[c] = [command |-> "RECORD", record |-> r]
           /\ stream[c][r].previous \in Present(db) \cup {None}

\* One request at most records r.
RecordedOnce ==
  \A c, d \in Callers :
    pc[c] # "idle" /\ pc[d] # "idle" /\ task[c].command = "RECORD" /\ task[c] = task[d] => c = d

GInv ==
  /\ TInv
  /\ Grounded(records)
  /\ \A c \in Callers, r \in Records : Referred(records, c, r)
  /\ RecordedOnce

LEMMA InitGInv == Init => GInv
BY InitTInv DEF Init, GInv, Grounded, Present, Referred, RecordedOnce, NoTask, TInv

\* A record that refers to one that is there can be added.
LEMMA AddGrounded ==
  ASSUME NEW s \in Streams, NEW t \in Streams, NEW r \in Records,
         Grounded(s), s[r] = Absent,
         t[r] # Absent => t[r].previous \in Present(s) \cup {None},
         \A q \in Records \ {r} :
           /\ t[q] = Absent <=> s[q] = Absent
           /\ s[q] # Absent => t[q].previous = s[q].previous
  PROVE  Grounded(t)
<1>1. Present(s) \subseteq Present(t) /\ Present(t) \subseteq Present(s) \cup {r}
  BY DEF Present
<1>2. r \notin Present(s) /\ r # None
  BY RecordsAssumption DEF Present
<1>3. \A q \in Present(s) : t[q].previous = s[q].previous
                            /\ t[q].previous \in Present(s) \cup {None} /\ t[q].previous # r
  BY <1>2 DEF Grounded, Present
<1>4. ASSUME NEW q \in Present(t) PROVE t[q].previous \in Present(t) \cup {None}
  BY <1>1, <1>3 DEF Present
<1>5. ASSUME NEW S \in SUBSET Present(t), S # {} PROVE \E q \in S : t[q].previous \notin S
  <2>1. CASE S \subseteq {r}
    BY <1>2, <1>5, <2>1 DEF Present
  <2>2. CASE ~(S \subseteq {r})
    <3>1. S \ {r} \in SUBSET Present(s) /\ S \ {r} # {}
      BY <1>1, <2>2
    <3>2. PICK q \in S \ {r} : s[q].previous \notin S \ {r}
      BY <3>1 DEF Grounded
    <3> QED
      BY <1>3, <3>1, <3>2
  <2> QED
    BY <2>1, <2>2
<1> QED
  BY <1>4, <1>5 DEF Grounded

\* The other operations leave the references, the places and the set of
\* records alone; a load leaves the references and the set alone.
SameReferences(s, t) ==
  \A r \in Records :
    /\ t[r] = Absent <=> s[r] = Absent
    /\ s[r] # Absent => t[r].previous = s[r].previous

SamePlaces(s, t) ==
  /\ SameReferences(s, t)
  /\ \A r \in Records : s[r] # Absent => t[r].sequence = s[r].sequence

LEMMA OperationReferences ==
  ASSUME NEW s, Sound(s), NEW r \in Records, Good(s[r]), NEW t,
         \/ \E p \in Payloads : t = Corrected(s, r, p)
         \/ t = Voided(s, r)
         \/ t = Attached(s, r)
         \/ \E target \in DOMAIN AllowedFrom, a \in Actors :
              CanTransition(s, r, target, a) /\ t = Transitioned(s, r, target, a)
  PROVE  SamePlaces(s, t)
<1>1. Sound(t)
  BY CorrectSound, VoidSound, AttachSound, TransitionSound
<1>2. s[r] \in Document /\ s[r] # Absent /\ s \in Streams
  BY AbsentAssumption DEF Good, Sound
<1>3. \A q \in Records \ {r} : t[q] = s[q]
  BY <1>2 DEF Corrected, Voided, Attached, Transitioned, Streams
<1>4. t[r] \in Document /\ t[r].previous = s[r].previous /\ t[r].sequence = s[r].sequence
  <2>1. CASE \E p \in Payloads : t = Corrected(s, r, p)
    <3>1. PICK p \in Payloads : t = Corrected(s, r, p)
      BY <2>1
    <3>2. t[r] = [s[r] EXCEPT !.payload = p, !.revisions = Append(@, p)]
      BY <1>2, <3>1 DEF Corrected, Streams
    <3>3. Append(s[r].revisions, p) \in Seq(Payloads)
      BY <1>2 DEF Document
    <3> QED
      BY <1>2, <3>2, <3>3 DEF Document
  <2>2. CASE t = Voided(s, r)
    <3>1. t[r] = [s[r] EXCEPT !.is_voided = TRUE, !.status = "VOIDED"]
      BY <1>2, <2>2 DEF Voided, Streams
    <3> QED
      BY <1>2, <3>1 DEF Document, Statuses
  <2>3. CASE t = Attached(s, r)
    <3>1. t[r] = [s[r] EXCEPT !.documents = @ + 1]
      BY <1>2, <2>3 DEF Attached, Streams
    <3> QED
      BY <1>2, <3>1 DEF Document
  <2>4. ASSUME NEW target \in DOMAIN AllowedFrom, NEW a \in Actors,
               t = Transitioned(s, r, target, a)
        PROVE  /\ t[r] \in Document
               /\ t[r].previous = s[r].previous /\ t[r].sequence = s[r].sequence
    <3>1. t[r] = [s[r] EXCEPT !.status = target,
                              !.verified_by = IF target = "VERIFIED" THEN a ELSE @,
                              !.approved_by = IF target = "APPROVED" THEN a ELSE @]
      BY <1>2, <2>4 DEF Transitioned, Streams
    <3>2. target \in Statuses
      BY DEF AllowedFrom, Statuses
    <3> QED
      BY <1>2, <3>1, <3>2 DEF Document
  <2> QED
    BY <2>1, <2>2, <2>3, <2>4
<1> QED
  BY <1>2, <1>3, <1>4, AbsentAssumption DEF SameReferences, SamePlaces

LEMMA LoadReferences ==
  ASSUME NEW s \in Loaded, Sound(records)
  PROVE  SameReferences(records, s)
<1>1. PICK n : s = Numbered(records, n)
  BY DEF Loaded
<1>2. \A r \in Records : records[r] # Absent => s[r] # Absent /\ s[r].previous = records[r].previous
  BY LoadKeeps DEF Kept
<1>3. \A r \in Records : records[r] = Absent => s[r] = Absent
  BY <1>1 DEF Numbered
<1> QED
  BY <1>2, <1>3 DEF SameReferences

LEMMA AcceptOther ==
  ASSUME GInv, TInv', NEW c \in Callers, NEW command, command # "RECORD",
         NEW r \in Records, NEW s, Accept(c, command, r, s), SameReferences(records, s)
  PROVE  GInv'
<1>1. task \in [Callers -> [command : Commands, record : Records \cup {None}]]
      /\ pc \in [Callers -> {"idle", "persist", "write", "project", "upsert"}]
      /\ stream \in [Callers -> Streams]
  BY DEF GInv, TInv, TypeOK, IInv
<1>2. ASSUME NEW d \in Callers, NEW q \in Records PROVE Referred(records, d, q)'
  <2>1. CASE d = c
    BY <1>1, <2>1 DEF Accept, Referred, SameReferences
  <2>2. CASE d # c
    BY <1>1, <2>2 DEF Accept, Referred, GInv, Present
  <2> QED
    BY <2>1, <2>2
<1>3. RecordedOnce'
  BY <1>1 DEF Accept, RecordedOnce, GInv
<1>4. Grounded(records)'
  BY DEF Accept, GInv, Grounded, Present
<1> QED
  BY <1>2, <1>3, <1>4 DEF GInv

\* A new record refers to one of its load: to one that is in the database.
LEMMA AcceptRecord ==
  ASSUME GInv, TInv', NEW c \in Callers, NEW r \in Records, NEW p \in Payloads,
         HandleRecord(c, r, p)
  PROVE  GInv'
<1>0. Sound(records)
  BY DEF GInv, TInv, IInv
<1>1. task \in [Callers -> [command : Commands, record : Records \cup {None}]]
      /\ pc \in [Callers -> {"idle", "persist", "write", "project", "upsert"}]
      /\ stream \in [Callers -> Streams]
  BY DEF GInv, TInv, TypeOK, IInv
<1>2. PICK s \in Loaded : Accept(c, "RECORD", r, Recorded(s, r, p))
  BY DEF HandleRecord
<1>3. SameReferences(records, s) /\ s \in Streams
  BY <1>0, LoadReferences, LoadSound DEF Sound
<1>4. records[r] = Absent
  BY DEF HandleRecord
<1>5. Last(s) \in Present(records) \cup {None}
  BY <1>3 DEF Last, SameReferences, Present
<1>6. Recorded(s, r, p)[r].previous = Last(s)
      /\ \A q \in Records \ {r} : Recorded(s, r, p)[q] = s[q]
  BY <1>3 DEF Recorded, Streams
<1>7. ASSUME NEW d \in Callers, NEW q \in Records PROVE Referred(records, d, q)'
  <2>1. CASE d = c
    <3>1. stream'[d] = Recorded(s, r, p) /\ records' = records
          /\ task'[d] = [command |-> "RECORD", record |-> r] /\ pc'[d] = "persist"
      BY <1>1, <1>2, <2>1 DEF Accept
    <3>2. CASE q = r
      BY <3>1, <3>2, <1>4, <1>5, <1>6 DEF Referred
    <3>3. CASE q # r
      BY <3>1, <3>3, <1>3, <1>6 DEF Referred, SameReferences
    <3> QED
      BY <3>2, <3>3
  <2>2. CASE d # c
    BY <1>1, <1>2, <2>2 DEF Accept, Referred, GInv, Present
  <2> QED
    BY <2>1, <2>2
<1>8. RecordedOnce'
  <2>1. \A d \in Callers : pc[d] # "idle" => task[d].record # r \/ task[d].command # "RECORD"
    BY DEF HandleRecord
  <2>2. /\ task'[c].record = r
        /\ \A d \in Callers \ {c} : pc'[d] = pc[d] /\ task'[d] = task[d]
    BY <1>1, <1>2 DEF Accept
  <2> QED
    BY <2>1, <2>2 DEF RecordedOnce, GInv
<1>9. Grounded(records)'
  BY <1>2 DEF Accept, GInv, Grounded, Present
<1> QED
  BY <1>7, <1>8, <1>9 DEF GInv

\* What a request writes, the whole of its stream or a part of it.
LEMMA MergeReferred ==
  ASSUME GInv, NEW c \in Callers, pc[c] \in {"persist", "write"}, NEW t \in Streams,
         \A q \in Records : t[q] = records[q] \/ (stream[c][q] # Absent /\ t[q] = stream[c][q])
  PROVE  Grounded(t) /\ \A d \in Callers, q \in Records : Referred(t, d, q)
<1>1. ASSUME NEW q \in Records, records[q] # Absent
      PROVE  t[q] # Absent /\ t[q].previous = records[q].previous
  <2>1. Referred(records, c, q)
    BY DEF GInv
  <2> QED
    BY <1>1, <2>1 DEF Referred
<1>2. ASSUME NEW q \in Records, records[q] = Absent, t[q] # Absent
      PROVE  /\ task[c] = [command |-> "RECORD", record |-> q]
             /\ task[c].record = q
             /\ t[q] = stream[c][q] /\ stream[c][q] # Absent
             /\ t[q].previous \in Present(records) \cup {None}
  <2>1. Referred(records, c, q)
    BY DEF GInv
  <2> QED
    BY <1>2, <2>1 DEF Referred
<1>3. Present(records) \subseteq Present(t)
  BY <1>1 DEF Present
<1>4. records \in Streams
  BY DEF GInv, TInv, IInv, Sound
<1>5. Grounded(t)
  <2>1. CASE \E r \in Records : records[r] = Absent /\ t[r] # Absent
    <3>1. PICK r \in Records : records[r] = Absent /\ t[r] # Absent
      BY <2>1
    <3>2. \A q \in Records \ {r} : records[q] = Absent => t[q] = Absent
      <4>1. ASSUME NEW q \in Records \ {r}, records[q] = Absent, t[q] # Absent PROVE FALSE
        <5>1. task[c].record = q
          BY <1>2, <4>1
        <5>2. task[c].record = r
          BY <1>2, <3>1
        <5> QED
          BY <5>1, <5>2
      <4> QED
        BY <4>1
    <3>3. t[r].previous \in Present(records) \cup {None}
      BY <1>2, <3>1
    <3> QED
      BY <1>1, <1>4, <3>1, <3>2, <3>3, AddGrounded DEF GInv
  <2>2. CASE \A r \in Records : records[r] = Absent => t[r] = Absent
    <3>1. Present(t) = Present(records)
      BY <1>3, <2>2 DEF Present
    <3>2. \A q \in Present(t) : t[q].previous = records[q].previous
      BY <1>1, <3>1 DEF Present
    <3> QED
      BY <3>1, <3>2 DEF Grounded, GInv
  <2> QED
    BY <2>1, <2>2
<1>6. ASSUME NEW d \in Callers, NEW q \in Records PROVE Referred(t, d, q)
  <2>1. SUFFICES ASSUME stream[d][q] # Absent PROVE Referred(t, d, q)
    BY DEF Referred
  <2>2. CASE records[q] # Absent
    BY <1>1, <2>1, <2>2 DEF GInv, Referred
  <2>3. CASE records[q] = Absent
    <3>1. /\ pc[d] \in {"persist", "write"}
          /\ task[d] = [command |-> "RECORD", record |-> q]
          /\ stream[d][q].previous \in Present(records) \cup {None}
      BY <2>1, <2>3 DEF GInv, Referred
    <3>2. CASE t[q] = Absent
      BY <1>3, <3>1, <3>2 DEF Referred
    <3>3. CASE t[q] # Absent
      <4>1. c = d
        BY <1>2, <2>3, <3>1, <3>3 DEF GInv, RecordedOnce
      <4> QED
        BY <1>2, <2>3, <3>3, <4>1 DEF Referred
    <3> QED
      BY <3>2, <3>3
  <2> QED
    BY <2>2, <2>3
<1> QED
  BY <1>5, <1>6

LEMMA FinishReferred ==
  ASSUME GInv, TInv', NEW c \in Callers, Finish(c), pc[c] \in {"persist", "write"},
         Grounded(records'), \A d \in Callers, q \in Records : Referred(records', d, q)
  PROVE  GInv'
<1>1. task \in [Callers -> [command : Commands, record : Records \cup {None}]]
      /\ pc \in [Callers -> {"idle", "persist", "write", "project", "upsert"}]
      /\ stream \in [Callers -> Streams]
  BY DEF GInv, TInv, TypeOK, IInv
<1>2. \A d \in Callers \ {c} : pc'[d] = pc[d] /\ task'[d] = task[d] /\ stream'[d] = stream[d]
  BY <1>1 DEF Finish, Done
<1>3. ASSUME NEW d \in Callers, NEW q \in Records PROVE Referred(records, d, q)'
  <2>1. CASE d # c
    BY <1>2, <2>1 DEF Referred
  <2>2. CASE d = c /\ AfterPersist(c) = "idle"
    BY <1>1, <2>2 DEF Finish, Done, Referred
  <2>3. CASE d = c /\ AfterPersist(c) # "idle"
    <3>1. task[c].command # "RECORD"
      BY <2>3 DEF AfterPersist
    <3>2. stream' = stream
      BY <2>3 DEF Finish
    <3> QED
      BY <2>3, <3>1, <3>2 DEF Referred
  <2> QED
    BY <2>1, <2>2, <2>3
<1>4. RecordedOnce'
  <2>1. pc'[c] = "idle" \/ task' = task
    BY <1>1 DEF Finish
  <2>2. pc[c] # "idle"
    OBVIOUS
  <2> QED
    BY <1>2, <2>1, <2>2 DEF RecordedOnce, GInv
<1>5. Grounded(records)'
  BY DEF Grounded, Present
<1> QED
  BY <1>3, <1>4, <1>5 DEF GInv

\* A request that is cut off or done holds nothing.
LEMMA DoneReferred ==
  ASSUME GInv, TInv', NEW c \in Callers, Done(c), pc' = [pc EXCEPT ![c] = "idle"],
         UNCHANGED records
  PROVE  GInv'
<1>1. task \in [Callers -> [command : Commands, record : Records \cup {None}]]
      /\ pc \in [Callers -> {"idle", "persist", "write", "project", "upsert"}]
      /\ stream \in [Callers -> Streams]
  BY DEF GInv, TInv, TypeOK, IInv
<1>2. ASSUME NEW d \in Callers, NEW q \in Records PROVE Referred(records, d, q)'
  <2>1. CASE d = c
    BY <1>1, <2>1 DEF Done, Referred
  <2>2. CASE d # c
    BY <1>1, <2>2 DEF Done, Referred, GInv, Present
  <2> QED
    BY <2>1, <2>2
<1>3. RecordedOnce'
  BY <1>1 DEF Done, RecordedOnce, GInv
<1>4. Grounded(records)'
  BY DEF GInv, Grounded, Present
<1> QED
  BY <1>2, <1>3, <1>4 DEF GInv

LEMMA HandleReferred ==
  ASSUME GInv, TInv', NEW c \in Callers, Handle(c)
  PROVE  GInv'
<1>0. Sound(records)
  BY DEF GInv, TInv, IInv
<1>1. ASSUME NEW r \in Records, NEW p \in Payloads, HandleRecord(c, r, p) PROVE GInv'
  BY <1>1, AcceptRecord
<1>2. ASSUME NEW r \in Records, records[r] # Absent, NEW command, command # "RECORD",
             NEW s \in Loaded, NEW t, Accept(c, command, r, t),
             \/ \E p \in Payloads : t = Corrected(s, r, p)
             \/ t = Voided(s, r)
             \/ t = Attached(s, r)
             \/ \E target \in DOMAIN AllowedFrom, a \in Actors :
                  CanTransition(s, r, target, a) /\ t = Transitioned(s, r, target, a)
      PROVE  GInv'
  <2>1. Sound(s) /\ Good(s[r]) /\ SameReferences(records, s)
    BY <1>0, <1>2, LoadSound, LoadReferences
  <2>2. SameReferences(s, t)
    BY <1>2, <2>1, OperationReferences DEF SamePlaces
  <2>3. SameReferences(records, t)
    BY <2>1, <2>2 DEF SameReferences
  <2> QED
    BY <1>2, <2>3, AcceptOther
<1>3. ASSUME NEW r \in Records, NEW p \in Payloads, HandleCorrect(c, r, p) PROVE GInv'
  BY <1>2, <1>3 DEF HandleCorrect
<1>4. ASSUME NEW r \in Records, HandleVoid(c, r) PROVE GInv'
  BY <1>2, <1>4 DEF HandleVoid
<1>5. ASSUME NEW r \in Records, HandleAttach(c, r) PROVE GInv'
  BY <1>2, <1>5 DEF HandleAttach
<1>6. ASSUME NEW r \in Records, NEW target \in DOMAIN AllowedFrom, NEW a \in Actors,
             HandleTransition(c, r, target, a)
      PROVE  GInv'
  <2>1. target # "RECORD"
    BY DEF AllowedFrom
  <2> QED
    BY <1>2, <1>6, <2>1 DEF HandleTransition
<1> QED
  BY <1>1, <1>3, <1>4, <1>5, <1>6 DEF Handle

\* A request that goes on without writing records keeps what it holds.
LEMMA SteadyReferred ==
  ASSUME GInv, TInv', UNCHANGED <<records, task, stream>>,
         \A d \in Callers : pc'[d] # "idle" => pc[d] # "idle",
         \A d \in Callers : pc[d] \in {"persist", "write"} => pc'[d] \in {"persist", "write"}
  PROVE  GInv'
<1>1. ASSUME NEW d \in Callers, NEW q \in Records PROVE Referred(records, d, q)'
  <2>1. Referred(records, d, q)
    BY DEF GInv
  <2>2. Present(records') = Present(records)
    BY DEF Present
  <2> QED
    BY <2>1, <2>2 DEF Referred
<1>2. RecordedOnce'
  <2> SUFFICES ASSUME NEW d \in Callers, NEW e \in Callers,
                      pc'[d] # "idle", pc'[e] # "idle",
                      task'[d].command = "RECORD", task'[d] = task'[e]
               PROVE  d = e
    BY DEF RecordedOnce
  <2>1. task' = task /\ pc[d] # "idle" /\ pc[e] # "idle"
    OBVIOUS
  <2> QED
    BY <2>1 DEF RecordedOnce, GInv
<1>3. Grounded(records)'
  BY DEF GInv, Grounded, Present
<1> QED
  BY <1>1, <1>2, <1>3 DEF GInv

LEMMA StepGInv == GInv /\ [Next]_vars => GInv'
<1> SUFFICES ASSUME GInv, [Next]_vars PROVE GInv'
  OBVIOUS
<1>0. TInv'
  BY StepTInv DEF GInv
<1>1. ASSUME NEW c \in Callers, Handle(c) PROVE GInv'
  BY <1>0, <1>1, HandleReferred
<1>2. ASSUME NEW c \in Callers, Commit(c) PROVE GInv'
  <2>1. records' \in Streams
    BY <1>0 DEF TInv, IInv, Sound
  <2>2. \A q \in Records : records'[q] = records[q]
                           \/ (stream[c][q] # Absent /\ records'[q] = stream[c][q])
    BY <1>2 DEF Commit
  <2>3. pc[c] \in {"persist", "write"} /\ Finish(c)
    BY <1>2 DEF Commit
  <2> QED
    BY <1>0, <2>1, <2>2, <2>3, MergeReferred, FinishReferred
<1>3. ASSUME NEW c \in Callers, WriteCount(c) PROVE GInv'
  BY <1>0, <1>3, SteadyReferred DEF WriteCount, GInv, TInv, TypeOK
<1>4. ASSUME NEW c \in Callers, NEW r \in Records, WriteRecord(c, r) PROVE GInv'
  <2>1. records' \in Streams /\ records \in Streams
    BY <1>0 DEF GInv, TInv, IInv, Sound
  <2>2. \A q \in Records : records'[q] = records[q]
                           \/ (stream[c][q] # Absent /\ records'[q] = stream[c][q])
    BY <1>4, <2>1 DEF WriteRecord, Streams
  <2>3. pc[c] \in {"persist", "write"}
    BY <1>4 DEF WriteRecord
  <2>4. Grounded(records') /\ \A d \in Callers, q \in Records : Referred(records', d, q)
    BY <2>1, <2>2, <2>3, MergeReferred
  <2>5. UNCHANGED <<pc, task, stream>>
    BY <1>4 DEF WriteRecord
  <2>6. \A d \in Callers, q \in Records : Referred(records, d, q)'
    BY <2>4, <2>5 DEF Referred
  <2>7. Grounded(records)'
    BY <2>4 DEF Grounded, Present
  <2>8. RecordedOnce'
    <3>1. RecordedOnce /\ task' = task /\ pc' = pc
      BY <2>5 DEF GInv
    <3> QED
      BY <3>1 DEF RecordedOnce
  <2> QED
    BY <1>0, <2>6, <2>7, <2>8 DEF GInv
<1>5. ASSUME NEW c \in Callers, AddEvent(c) PROVE GInv'
  <2>1. records' = records /\ pc[c] \in {"persist", "write"} /\ Finish(c)
    BY <1>5 DEF AddEvent
  <2> QED
    BY <1>0, <2>1, FinishReferred DEF GInv
<1>6. ASSUME NEW c \in Callers, ReadSummary(c) PROVE GInv'
  BY <1>0, <1>6, SteadyReferred DEF ReadSummary, GInv, TInv, TypeOK
<1>7. ASSUME NEW c \in Callers, UpsertSummary(c) \/ CutOff(c) PROVE GInv'
  BY <1>0, <1>7, DoneReferred DEF UpsertSummary, CutOff
<1>8. CASE ProjectOpening \/ UNCHANGED vars
  BY <1>0, <1>8, SteadyReferred DEF ProjectOpening, vars, handlerVars
<1> QED
  BY <1>1, <1>2, <1>3, <1>4, <1>5, <1>6, <1>7, <1>8 DEF Next

\* However the handlers overwrite each other's streams, every hash refers to a
\* record that is there and the references never form a cycle.  (They may
\* fork: two requests may record behind the same record.)
THEOREM ChainGroundedHolds == Spec => []ChainGrounded
<1>1. GInv => ChainGrounded
  BY DEF GInv, Grounded, ChainGrounded
<1> QED
  BY <1>1, InitGInv, StepGInv, PTL DEF Spec

-------------------------------------------------------------------------------
(* Handled one at a time, the records form one chain, the summary follows  *)
(* the posted records and the commands implement ServiceLedger.  A load    *)
(* then changes nothing, because the sequences already are the places; so  *)
(* what a request is going to write is one operation away from what is in  *)
(* the database, and the write of that one record is the step that counts. *)

Linear(s) ==
  LET P == Present(s) IN
  /\ \A r \in P : s[r].sequence \in 1..Cardinality(P)
  /\ \A q, r \in P : s[q].sequence = s[r].sequence => q = r
  /\ \A r \in P :
       IF s[r].sequence = 1
         THEN s[r].previous = None
         ELSE s[r].previous \in P /\ s[s[r].previous].sequence + 1 = s[r].sequence

LEMMA LinearChains == Linear(records) => ChainLinear
<1> SUFFICES ASSUME Linear(records), NEW r \in Present(records)
             PROVE  /\ IF records[r].sequence = 1
                         THEN records[r].previous = None
                         ELSE \E q \in Present(records) :
                                /\ q = records[r].previous
                                /\ records[q].sequence + 1 = records[r].sequence
                    /\ \A q \in Present(records) :
                         records[q].previous = records[r].previous => q = r
  BY DEF ChainLinear
<1>1. None \notin Present(records)
  BY RecordsAssumption DEF Present
<1>2. \A q \in Present(records) : records[q].sequence \in Nat
  BY PresentFinite DEF Linear
<1> QED
  BY <1>1, <1>2 DEF Linear

\* A numbering without gaps reaches every place, and a record's place is the
\* number of records that are not behind it.
LEMMA Ranks ==
  ASSUME NEW P, IsFiniteSet(P), NEW f \in [P -> 1..Cardinality(P)],
         \A q, r \in P : f[q] = f[r] => q = r
  PROVE  /\ \A i \in 1..Cardinality(P) : \E r \in P : f[r] = i
         /\ \A r \in P : Cardinality({q \in P : f[q] <= f[r]}) = f[r]
<1> DEFINE N == Cardinality(P)
<1>1. N \in Nat
  BY FS_CardinalityType
<1>2. IsFiniteSet(1..N) /\ Cardinality(1..N) = N
  BY <1>1, FS_Interval
<1>3. f \in Injection(P, 1..N)
  BY DEF Injection, IsInjective
<1>4. f \in Surjection(P, 1..N)
  BY <1>2, <1>3, FS_Injection
<1>5. \A i \in 1..N : \E r \in P : f[r] = i
  BY <1>4 DEF Surjection
<1>6. ASSUME NEW r \in P PROVE Cardinality({q \in P : f[q] <= f[r]}) = f[r]
  <2> DEFINE Q == {q \in P : f[q] <= f[r]}
             g == [q \in Q |-> f[q]]
  <2>1. f[r] \in 1..N /\ f[r] \in Nat
    BY <1>1
  <2>2. IsFiniteSet(Q)
    BY FS_Subset
  <2>3. g \in [Q -> 1..f[r]]
    BY <1>1, <2>1
  <2>4. g \in Injection(Q, 1..f[r])
    BY <2>3 DEF Injection, IsInjective
  <2>5. \A i \in 1..f[r] : \E q \in Q : g[q] = i
    BY <1>1, <1>5, <2>1
  <2>6. g \in Surjection(Q, 1..f[r])
    BY <2>3, <2>5 DEF Surjection
  <2>7. ExistsBijection(Q, 1..f[r])
    BY <2>4, <2>6 DEF ExistsBijection, Bijection
  <2>8. Cardinality(1..f[r]) = Cardinality(Q)
    BY <2>2, <2>7, FS_Bijection
  <2>9. Cardinality(1..f[r]) = f[r]
    BY <2>1, FS_Interval
  <2> QED
    BY <2>8, <2>9
<1> QED
  BY <1>5, <1>6

LEMMA PlacesFilled ==
  ASSUME NEW s \in Streams, Linear(s), NEW i \in 1..Cardinality(Present(s))
  PROVE  \E r \in Present(s) : s[r].sequence = i
<1> DEFINE f == [r \in Present(s) |-> s[r].sequence]
<1>1. f \in [Present(s) -> 1..Cardinality(Present(s))]
  BY DEF Linear
<1>2. \A q, r \in Present(s) : f[q] = f[r] => q = r
  BY DEF Linear
<1>3. \A r \in Present(s) : f[r] = s[r].sequence
  OBVIOUS
<1> HIDE DEF f
<1>4. \E r \in Present(s) : f[r] = i
  BY <1>1, <1>2, Ranks, PresentFinite
<1> QED
  BY <1>3, <1>4

\* A load numbers the records as they are.
LEMMA LoadLinear ==
  ASSUME Sound(records), Linear(records), NEW s \in Loaded
  PROVE  s = records
<1> DEFINE P == Present(records)
           f == [r \in P |-> records[r].sequence]
<1>1. PICK n \in Numberings(records) : s = Numbered(records, n)
  BY DEF Loaded
<1>2. IsFiniteSet(P) /\ Cardinality(P) \in Nat
  BY PresentFinite
<1>3. n \in [P -> 1..Cardinality(P)]
  BY <1>1 DEF Numberings
<1>4. \A q, r \in P : n[q] = n[r] => q = r
  BY <1>1 DEF Numberings
<1>5. f \in [P -> 1..Cardinality(P)] /\ \A q, r \in P : f[q] = f[r] => q = r
  BY DEF Linear
<1>6. \A q, r \in P : q # r /\ records[q].sequence < records[r].sequence => n[q] < n[r]
  BY <1>1 DEF Numberings
<1>7. \A q, r \in P : n[q] <= n[r] <=> f[q] <= f[r]
  <2> SUFFICES ASSUME NEW q \in P, NEW r \in P PROVE n[q] <= n[r] <=> f[q] <= f[r]
    OBVIOUS
  <2>1. n[q] \in Nat /\ n[r] \in Nat /\ f[q] \in Nat /\ f[r] \in Nat
    BY <1>2, <1>3, <1>5
  <2>2. f[q] = records[q].sequence /\ f[r] = records[r].sequence
    OBVIOUS
  <2>3. CASE q = r
    BY <2>1, <2>3
  <2>4. CASE q # r /\ f[q] < f[r]
    BY <1>6, <2>1, <2>2, <2>4
  <2>5. CASE q # r /\ f[r] < f[q]
    BY <1>6, <2>1, <2>2, <2>5
  <2> QED
    BY <1>5, <2>1, <2>3, <2>4, <2>5
<1>8. ASSUME NEW r \in P PROVE n[r] = records[r].sequence
  <2>0. f[r] = records[r].sequence
    OBVIOUS
  <2> HIDE DEF f
  <2>1. {q \in P : n[q] <= n[r]} = {q \in P : f[q] <= f[r]}
    BY <1>7
  <2>2. Cardinality({q \in P : n[q] <= n[r]}) = n[r]
    BY <1>2, <1>3, <1>4, Ranks
  <2>3. Cardinality({q \in P : f[q] <= f[r]}) = f[r]
    BY <1>2, <1>5, Ranks
  <2> QED
    BY <2>0, <2>1, <2>2, <2>3
<1>9. ASSUME NEW r \in Records PROVE s[r] = records[r]
  <2>1. CASE records[r] = Absent
    BY <1>1, <2>1 DEF Numbered
  <2>2. CASE records[r] # Absent
    <3>1. s[r] = [records[r] EXCEPT !.sequence = n[r]]
      BY <1>1, <2>2 DEF Numbered
    <3>2. records[r] \in Document
      BY <2>2 DEF Sound, Good
    <3>3. n[r] = records[r].sequence
      BY <1>8, <2>2 DEF Present
    <3> QED
      BY <3>1, <3>2, <3>3 DEF Document
  <2> QED
    BY <2>1, <2>2
<1> QED
  BY <1>1, <1>9 DEF Numbered, Sound, Streams

\* The operation of the command on record r.
Operated(s, command, r, t) ==
  \/ command = "RECORD" /\ CanRecord(s, r) /\ \E p \in Payloads : t = Recorded(s, r, p)
  \/ /\ s[r] # Absent
     /\ \/ command = "CORRECT" /\ CanCorrect(s, r) /\ \E p \in Payloads : t = Corrected(s, r, p)
        \/ command = "VOID" /\ CanVoid(s, r) /\ t = Voided(s, r)
        \/ command = "ATTACH" /\ CanAttach(s, r) /\ t = Attached(s, r)
        \/ /\ command \in DOMAIN AllowedFrom
           /\ \E a \in Actors : /\ CanTransition(s, r, command, a)
                                /\ t = Transitioned(s, r, command, a)

\* Recording puts the new record behind the last one.
LEMMA LastOf ==
  ASSUME NEW s \in Streams, Linear(s)
  PROVE  IF Present(s) = {}
           THEN Last(s) = None
           ELSE Last(s) \in Present(s) /\ s[Last(s)].sequence = Cardinality(Present(s))
<1> DEFINE N == Cardinality(Present(s))
           Ends == {r \in Present(s) : \A q \in Present(s) : s[q].sequence <= s[r].sequence}
<1>1. N \in Nat /\ IsFiniteSet(Present(s))
  BY PresentFinite
<1>2. CASE Present(s) = {}
  BY <1>2 DEF Last
<1>3. CASE Present(s) # {}
  <2>1. N \in 1..N
    BY <1>1, <1>3, FS_EmptySet
  <2>2. PICK e \in Present(s) : s[e].sequence = N
    BY <2>1, PlacesFilled
  <2>3. \A r \in Present(s) : s[r].sequence \in Nat /\ s[r].sequence <= N
    BY <1>1 DEF Linear
  <2>4. e \in Ends
    BY <2>2, <2>3
  <2>5. \A r \in Ends : r \in Present(s) /\ s[r].sequence = N
    BY <1>1, <2>2, <2>3
  <2>6. Last(s) \in Ends
    BY <2>4 DEF Last
  <2> QED
    BY <1>3, <2>5, <2>6
<1> QED
  BY <1>2, <1>3

LEMMA RecordLinear ==
  ASSUME NEW s, Sound(s), Linear(s), NEW r \in Records, s[r] = Absent, NEW p \in Payloads
  PROVE  /\ Linear(Recorded(s, r, p))
         /\ Present(Recorded(s, r, p)) = Present(s) \cup {r}
         /\ Cardinality(Present(Recorded(s, r, p))) = Cardinality(Present(s)) + 1
         /\ Recorded(s, r, p)[r].sequence = Cardinality(Present(s)) + 1
<1> DEFINE t == Recorded(s, r, p)
           N == Cardinality(Present(s))
<1>0. s \in Streams /\ N \in Nat /\ IsFiniteSet(Present(s))
  BY PresentFinite DEF Sound
<1>1. t[r].previous = Last(s) /\ t[r].sequence = N + 1
  BY <1>0 DEF Recorded, Streams
<1>2. \A q \in Records \ {r} : t[q] = s[q]
  BY <1>0 DEF Recorded, Streams
<1>3. t[r] # Absent
  <2>1. Sound(t)
    BY RecordSound
  <2>2. t[r] = [status |-> "DRAFT", is_voided |-> FALSE, payload |-> p,
                hashed |-> p, revisions |-> <<>>, documents |-> 0,
                verified_by |-> None, approved_by |-> None,
                previous |-> Last(s), sequence |-> N + 1]
    BY <1>0 DEF Recorded, Streams
  <2>3. Last(s) \in Records \cup {None}
    BY DEF Last, Present
  <2>4. t[r] \in Document
    BY <1>0, <2>2, <2>3 DEF Document, Statuses
  <2> QED
    BY <2>4, AbsentAssumption
<1>4. Present(t) = Present(s) \cup {r} /\ r \notin Present(s)
  BY <1>2, <1>3 DEF Present
<1>5. Cardinality(Present(t)) = N + 1
  BY <1>0, <1>4, FS_AddElement
<1>6. \A q \in Present(s) : t[q] = s[q]
  BY <1>2, <1>4 DEF Present
<1>7. \A q \in Present(s) : s[q].sequence \in Nat /\ 1 <= s[q].sequence /\ s[q].sequence <= N
  BY <1>0 DEF Linear
<1>8. IF t[r].sequence = 1
        THEN t[r].previous = None
        ELSE t[r].previous \in Present(t) /\ t[t[r].previous].sequence + 1 = t[r].sequence
  <2>1. N = 0 <=> Present(s) = {}
    BY <1>0, FS_EmptySet
  <2> QED
    BY <1>0, <1>1, <1>4, <1>6, <2>1, LastOf
<1>9. \A q \in Present(t) : t[q].sequence \in 1..Cardinality(Present(t))
  BY <1>0, <1>1, <1>4, <1>5, <1>6, <1>7
<1>10. \A q, e \in Present(t) : t[q].sequence = t[e].sequence => q = e
  BY <1>0, <1>1, <1>4, <1>6, <1>7 DEF Linear
<1>11. \A q \in Present(s) :
         IF t[q].sequence = 1
           THEN t[q].previous = None
           ELSE t[q].previous \in Present(t) /\ t[t[q].previous].sequence + 1 = t[q].sequence
  BY <1>4, <1>6 DEF Linear
<1>12. Linear(t)
  BY <1>4, <1>8, <1>9, <1>10, <1>11 DEF Linear
<1> QED
  BY <1>1, <1>4, <1>5, <1>12

LEMMA PlacesLinear ==
  ASSUME NEW s, NEW t, Linear(s), SamePlaces(s, t)
  PROVE  Linear(t) /\ Present(t) = Present(s)
<1>1. Present(t) = Present(s)
  BY DEF SamePlaces, SameReferences, Present
<1>2. \A r \in Present(s) : t[r].sequence = s[r].sequence /\ t[r].previous = s[r].previous
  BY DEF SamePlaces, SameReferences, Present
<1> QED
  BY <1>1, <1>2 DEF Linear

\* An operation works on one record and leaves the chain linear.
LEMMA OperatedLinear ==
  ASSUME NEW s, Sound(s), Linear(s), NEW command, NEW r \in Records, NEW t,
         Operated(s, command, r, t)
  PROVE  /\ Linear(t) /\ Sound(t)
         /\ t[r] # Absent
         /\ \A q \in Records \ {r} : t[q] = s[q]
<1>0. s \in Streams
  BY DEF Sound
<1>1. \A q \in Records \ {r} : t[q] = s[q]
  BY <1>0 DEF Operated, Recorded, Corrected, Voided, Attached, Transitioned, Streams
<1>2. CASE command = "RECORD" /\ CanRecord(s, r) /\ \E p \in Payloads : t = Recorded(s, r, p)
  <2>1. PICK p \in Payloads : t = Recorded(s, r, p)
    BY <1>2
  <2>2. Linear(t) /\ r \in Present(t)
    BY <1>2, <2>1, RecordLinear DEF CanRecord
  <2> QED
    BY <1>1, <2>1, <2>2, RecordSound DEF Present
<1>3. CASE s[r] # Absent /\
           \/ \E p \in Payloads : t = Corrected(s, r, p)
           \/ t = Voided(s, r)
           \/ t = Attached(s, r)
           \/ \E target \in DOMAIN AllowedFrom, a \in Actors :
                CanTransition(s, r, target, a) /\ t = Transitioned(s, r, target, a)
  <2>1. Good(s[r])
    BY <1>3 DEF Sound
  <2>2. SamePlaces(s, t)
    BY <1>3, <2>1, OperationReferences
  <2>3. Sound(t)
    BY <1>3, <2>1, CorrectSound, VoidSound, AttachSound, TransitionSound
  <2>4. t[r] # Absent
    BY <1>3, <2>2 DEF SamePlaces, SameReferences
  <2> QED
    BY <1>1, <2>2, <2>3, <2>4, PlacesLinear
<1> QED
  BY <1>2, <1>3 DEF Operated

\* What a request is going to write is the operation of its command on the
\* database, unless it is there already.
Pending(db, command, r, t) ==
  /\ db # t => Operated(db, command, r, t)
  /\ Linear(t)
  /\ t[r] # Absent
  /\ \A q \in Records \ {r} : t[q] = db[q]

LInv ==
  /\ TInv
  /\ Linear(records)
  /\ \A c \in Callers : pc[c] \in {"persist", "write"} =>
       Pending(records, task[c].command, task[c].record, stream[c])
  /\ \A c \in Callers : pc[c] \in {"idle", "persist"} => written[c] = 0
  /\ \A c \in Callers :
       pc[c] = "write" /\ stream[c][task[c].record].sequence <= written[c] => records = stream[c]

LEMMA InitLInv == Init => LInv
<1> SUFFICES ASSUME Init PROVE LInv
  OBVIOUS
<1>1. Present(records) = {}
  BY DEF Init, Present
<1>2. Linear(records)
  BY <1>1 DEF Linear
<1> QED
  BY <1>2, InitTInv DEF Init, LInv

\* The writes of one request.
LEMMA CommitWrites ==
  ASSUME LInv, NEW c \in Callers, Commit(c)
  PROVE  records' = stream[c]
<1>1. Pending(records, task[c].command, task[c].record, stream[c])
  BY DEF Commit, LInv
<1>2. stream[c] \in Streams /\ task[c].record \in Records
  BY DEF Commit, LInv, TInv, IInv
<1>3. \A q \in Records : stream[c][q] = Absent => records[q] = stream[c][q]
  BY <1>1, <1>2 DEF Pending
<1>4. records' = [r \in Records |-> IF stream[c][r] = Absent THEN records[r] ELSE stream[c][r]]
  BY DEF Commit
<1> QED
  BY <1>2, <1>3, <1>4 DEF Streams

LEMMA RecordWrites ==
  ASSUME LInv, NEW c \in Callers, NEW r \in Records, WriteRecord(c, r)
  PROVE  IF r = task[c].record THEN records' = stream[c] ELSE records' = records
<1>1. Pending(records, task[c].command, task[c].record, stream[c])
  BY DEF WriteRecord, LInv
<1>2. stream[c] \in Streams /\ records \in Streams
  BY DEF LInv, TInv, IInv, Sound
<1>3. records' = [records EXCEPT ![r] = stream[c][r]]
  BY DEF WriteRecord
<1>4. CASE r = task[c].record
  <2>1. \A q \in Records : records'[q] = stream[c][q]
    BY <1>1, <1>2, <1>3, <1>4 DEF Pending, Streams
  <2>2. records' \in Streams
    BY <1>2, <1>3 DEF Streams
  <2> QED
    BY <1>2, <1>4, <2>1, <2>2 DEF Streams
<1>5. CASE r # task[c].record
  <2>1. stream[c][r] = records[r]
    BY <1>1, <1>5 DEF Pending
  <2> QED
    BY <1>2, <1>3, <1>5, <2>1 DEF Streams
<1> QED
  BY <1>4, <1>5

\* When as many records as there are have been written, the one of the
\* command is among them.
LEMMA AddFinds ==
  ASSUME LInv, NEW c \in Callers, AddEvent(c)
  PROVE  records = stream[c]
<1>1. Pending(records, task[c].command, task[c].record, stream[c])
  BY DEF AddEvent, LInv
<1>2. task[c].record \in Present(stream[c])
  BY <1>1 DEF AddEvent, LInv, TInv, Pending, Present
<1>3. stream[c][task[c].record].sequence <= written[c]
  BY <1>1, <1>2, PresentFinite DEF AddEvent, Pending, Linear
<1> QED
  BY <1>3 DEF AddEvent, LInv

LEMMA AcceptLinear ==
  ASSUME OneAtATime, LInv, TInv', NEW c \in Callers, NEW command, NEW r \in Records, NEW t,
         pc[c] = "idle", Accept(c, command, r, t), Operated(records, command, r, t)
  PROVE  LInv'
<1>1. Pending(records, command, r, t)
  BY OperatedLinear DEF LInv, TInv, IInv, Pending
<1>2. \A d \in Callers : d = c
  BY DEF OneAtATime
<1>3. /\ pc'[c] = "persist" /\ stream'[c] = t /\ records' = records /\ written'[c] = 0
      /\ task'[c].command = command /\ task'[c].record = r
  BY DEF Accept, LInv, TInv, TypeOK
<1>4. Linear(records)'
  BY DEF LInv, Accept, Linear, Present
<1> QED
  BY <1>1, <1>2, <1>3, <1>4 DEF LInv

LEMMA FinishLinear ==
  ASSUME OneAtATime, LInv, TInv', NEW c \in Callers, Finish(c), Linear(records')
  PROVE  LInv'
<1>1. \A d \in Callers : d = c
  BY DEF OneAtATime
<1>2. pc'[c] \in {"idle", "project"} /\ (pc'[c] = "idle" => written'[c] = 0)
  BY DEF Finish, AfterPersist, Done, LInv, TInv, TypeOK
<1>3. Linear(records)'
  BY DEF Linear, Present
<1> QED
  BY <1>1, <1>2, <1>3 DEF LInv

LEMMA HandleOperates ==
  ASSUME LInv, NEW c \in Callers, Handle(c)
  PROVE  /\ pc[c] = "idle"
         /\ \E command \in Commands, r \in Records :
              \E t : Accept(c, command, r, t) /\ Operated(records, command, r, t)
<1>1. \A s \in Loaded : s = records
  BY LoadLinear DEF LInv, TInv, IInv
<1>2. {"RECORD", "CORRECT", "VOID", "ATTACH"} \cup DOMAIN AllowedFrom \subseteq Commands
  BY DEF Commands
<1>3. CASE \E r \in Records, p \in Payloads : HandleRecord(c, r, p)
  BY <1>1, <1>2, <1>3 DEF HandleRecord, Operated
<1>4. CASE \E r \in Records, p \in Payloads : HandleCorrect(c, r, p)
  BY <1>1, <1>2, <1>4 DEF HandleCorrect, Operated
<1>5. CASE \E r \in Records : HandleVoid(c, r)
  BY <1>1, <1>2, <1>5 DEF HandleVoid, Operated
<1>6. CASE \E r \in Records : HandleAttach(c, r)
  BY <1>1, <1>2, <1>6 DEF HandleAttach, Operated
<1>7. CASE \E r \in Records, target \in DOMAIN AllowedFrom, a \in Actors :
             HandleTransition(c, r, target, a)
  BY <1>1, <1>2, <1>7 DEF HandleTransition, Operated
<1> QED
  BY <1>3, <1>4, <1>5, <1>6, <1>7 DEF Handle

LEMMA StepLInv ==
  ASSUME OneAtATime, LInv, [Next]_vars
  PROVE  LInv'
<1>0. TInv'
  BY StepTInv DEF LInv
<1>1. ASSUME NEW c \in Callers, Handle(c) PROVE LInv'
  BY <1>0, <1>1, HandleOperates, AcceptLinear
<1>2. ASSUME NEW c \in Callers, Commit(c) PROVE LInv'
  <2>1. Linear(records')
    BY <1>2, CommitWrites DEF Commit, LInv, Pending
  <2> QED
    BY <1>0, <1>2, <2>1, FinishLinear DEF Commit
<1>3. ASSUME NEW c \in Callers, WriteCount(c) PROVE LInv'
  <2>1. \A d \in Callers : d = c
    BY DEF OneAtATime
  <2>2. Pending(records, task[c].command, task[c].record, stream[c]) /\ written[c] = 0
    BY <1>3 DEF WriteCount, LInv
  <2>3. pc'[c] = "write" /\ UNCHANGED <<records, task, stream, written>>
    BY <1>3 DEF WriteCount, LInv, TInv, TypeOK
  <2>4. ~(stream[c][task[c].record].sequence <= 0)
    <3>1. task[c].record \in Present(stream[c])
      BY <1>3, <2>2 DEF WriteCount, LInv, TInv, Pending, Present
    <3> QED
      BY <2>2, <3>1, PresentFinite DEF Pending, Linear
  <2>5. Linear(records)'
    BY <2>3 DEF LInv, Linear, Present
  <2> QED
    BY <1>0, <2>1, <2>2, <2>3, <2>4, <2>5 DEF LInv
<1>4. ASSUME NEW c \in Callers, NEW r \in Records, WriteRecord(c, r) PROVE LInv'
  <2>1. \A d \in Callers : d = c
    BY DEF OneAtATime
  <2>2. Pending(records, task[c].command, task[c].record, stream[c])
    BY <1>4 DEF WriteRecord, LInv
  <2>3. /\ pc[c] = "write" /\ UNCHANGED <<pc, task, stream>>
        /\ stream[c][r] # Absent /\ stream[c][r].sequence = written[c] + 1
        /\ written'[c] = written[c] + 1 /\ written[c] \in Nat
    BY <1>4 DEF WriteRecord, LInv, TInv, TypeOK
  <2>4. CASE r = task[c].record
    <3>1. records' = stream[c]
      BY <1>4, <2>4, RecordWrites
    <3>2. Linear(records') /\ Pending(records', task[c].command, task[c].record, stream[c])
      BY <2>2, <3>1 DEF Pending
    <3>3. Linear(records)'
      BY <3>2 DEF Linear, Present
    <3> QED
      BY <1>0, <2>1, <2>3, <3>1, <3>2, <3>3 DEF LInv
  <2>5. CASE r # task[c].record
    <3>1. records' = records
      BY <1>4, <2>5, RecordWrites
    <3>2. stream[c][task[c].record].sequence <= written[c] + 1
            => stream[c][task[c].record].sequence <= written[c]
      <4>1. r \in Present(stream[c]) /\ task[c].record \in Present(stream[c])
        BY <1>4, <2>2, <2>3 DEF LInv, TInv, Pending, Present
      <4>2. stream[c][task[c].record].sequence # stream[c][r].sequence
        BY <2>2, <2>5, <4>1 DEF Pending, Linear
      <4>3. stream[c][task[c].record].sequence \in Nat
        BY <2>2, <4>1, PresentFinite DEF Pending, Linear
      <4> QED
        BY <2>3, <4>2, <4>3
    <3>3. stream[c][task[c].record].sequence <= written[c] => records = stream[c]
      BY <2>3 DEF LInv
    <3>4. Linear(records)'
      BY <3>1 DEF LInv, Linear, Present
    <3> QED
      BY <1>0, <2>1, <2>2, <2>3, <3>1, <3>2, <3>3, <3>4 DEF LInv
  <2> QED
    BY <2>4, <2>5
<1>5. ASSUME NEW c \in Callers, AddEvent(c) PROVE LInv'
  BY <1>0, <1>5, FinishLinear DEF AddEvent, LInv
<1>6. ASSUME NEW c \in Callers, ReadSummary(c) \/ UpsertSummary(c) \/ CutOff(c) PROVE LInv'
  <2>1. \A d \in Callers : d = c
    BY DEF OneAtATime
  <2>2. pc'[c] \in {"idle", "upsert"} /\ (pc'[c] = "idle" => written'[c] = 0)
        /\ records' = records
    BY <1>6 DEF ReadSummary, UpsertSummary, CutOff, Done, LInv, TInv, TypeOK
  <2>3. Linear(records)'
    BY <2>2 DEF LInv, Linear, Present
  <2> QED
    BY <1>0, <2>1, <2>2, <2>3 DEF LInv
<1>7. CASE ProjectOpening \/ UNCHANGED vars
  <2>1. UNCHANGED <<records, pc, task, stream, written>>
    BY <1>7 DEF ProjectOpening, vars, handlerVars
  <2>2. Linear(records)'
    BY <2>1 DEF LInv, Linear, Present
  <2>3. \A c \in Callers : pc'[c] = pc[c] /\ task'[c] = task[c] /\ stream'[c] = stream[c]
                           /\ written'[c] = written[c]
    BY <2>1
  <2> QED
    BY <1>0, <2>1, <2>2, <2>3 DEF LInv
<1> QED
  BY <1>1, <1>2, <1>3, <1>4, <1>5, <1>6, <1>7 DEF Next

\* Handled one at a time, whatever write of the fallback the handlers are cut
\* off after, the hashes form one chain in the order of the stream.
THEOREM ChainLinearOneAtATime ==
  ASSUME OneAtATime
  PROVE  Spec => []ChainLinear
<1>1. LInv => ChainLinear
  BY LinearChains DEF LInv
<1>2. LInv /\ [Next]_vars => LInv'
  BY StepLInv
<1> QED
  BY <1>1, <1>2, InitLInv, PTL DEF Spec

\* A record is posted by the command that locks it, and stays posted.
Posted(s, r) == s[r] # Absent /\ s[r].status = "LOCKED"

LEMMA OperatedPosts ==
  ASSUME NEW s, Sound(s), NEW command, NEW r \in Records, NEW t, Operated(s, command, r, t)
  PROVE  /\ \A q \in Records : Posted(s, q) /\ t[q] # Absent => Posted(t, q)
         /\ \A q \in Records : Posted(t, q) /\ ~Posted(s, q) => q = r /\ command = "LOCKED"
         /\ command = "LOCKED" => t[r].status = "LOCKED"
<1>0. s \in Streams
  BY DEF Sound
<1>1. \A q \in Records \ {r} : t[q] = s[q]
  BY <1>0 DEF Operated, Recorded, Corrected, Voided, Attached, Transitioned, Streams
<1>2. CASE command = "RECORD" /\ CanRecord(s, r) /\ \E p \in Payloads : t = Recorded(s, r, p)
  <2>1. t[r].status = "DRAFT" /\ ~Posted(s, r)
    BY <1>0, <1>2 DEF Recorded, Streams, CanRecord, Posted
  <2> QED
    BY <1>1, <1>2, <2>1 DEF Posted
<1>3. CASE s[r] # Absent /\ command = "CORRECT" /\ CanCorrect(s, r)
           /\ \E p \in Payloads : t = Corrected(s, r, p)
  <2>1. PICK p \in Payloads : t = Corrected(s, r, p)
    BY <1>3
  <2>2. s[r] \in Document
    BY <1>3 DEF Sound, Good
  <2>3. t[r] = [s[r] EXCEPT !.payload = p, !.revisions = Append(@, p)]
    BY <1>0, <2>1 DEF Corrected, Streams
  <2>4. t[r].status = s[r].status
    BY <2>2, <2>3 DEF Document
  <2> QED
    BY <1>1, <1>3, <2>4 DEF Posted, CanCorrect, Immutable
<1>4. CASE s[r] # Absent /\ command = "VOID" /\ CanVoid(s, r) /\ t = Voided(s, r)
  <2>1. s[r] \in Document
    BY <1>4 DEF Sound, Good
  <2>2. t[r] = [s[r] EXCEPT !.is_voided = TRUE, !.status = "VOIDED"]
    BY <1>0, <1>4 DEF Voided, Streams
  <2>3. t[r].status = "VOIDED"
    BY <2>1, <2>2 DEF Document
  <2> QED
    BY <1>1, <1>4, <2>3 DEF Posted, CanVoid, Immutable
<1>5. CASE s[r] # Absent /\ command = "ATTACH" /\ CanAttach(s, r) /\ t = Attached(s, r)
  <2>1. s[r] \in Document
    BY <1>5 DEF Sound, Good
  <2>2. t[r] = [s[r] EXCEPT !.documents = @ + 1]
    BY <1>0, <1>5 DEF Attached, Streams
  <2>3. t[r].status = s[r].status
    BY <2>1, <2>2 DEF Document
  <2> QED
    BY <1>1, <1>5, <2>3 DEF Posted, CanAttach, Immutable
<1>6. ASSUME s[r] # Absent, command \in DOMAIN AllowedFrom, NEW a \in Actors,
             CanTransition(s, r, command, a), t = Transitioned(s, r, command, a)
      PROVE  t[r].status = command /\ ~Posted(s, r)
  <2>1. s[r] \in Document
    BY <1>6 DEF Sound, Good
  <2>2. t[r] = [s[r] EXCEPT !.status = command,
                            !.verified_by = IF command = "VERIFIED" THEN a ELSE @,
                            !.approved_by = IF command = "APPROVED" THEN a ELSE @]
    BY <1>0, <1>6 DEF Transitioned, Streams
  <2>3. t[r].status = command
    BY <2>1, <2>2 DEF Document
  <2> QED
    BY <1>6, <2>3 DEF Posted, CanTransition, AllowedFrom
<1>7. CASE s[r] # Absent /\ command \in DOMAIN AllowedFrom
           /\ \E a \in Actors : CanTransition(s, r, command, a) /\ t = Transitioned(s, r, command, a)
  BY <1>1, <1>6, <1>7 DEF Posted
<1> QED
  BY <1>2, <1>3, <1>4, <1>5, <1>6, <1>7 DEF Operated

\* The request that has locked a record and not yet projected it.
Projecting(r) ==
  \E c \in Callers : pc[c] # "idle" /\ task[c].command = "LOCKED" /\ task[c].record = r

Unterminated == \A r \in Records : Posted(records, r) => KindOf[r] # "termination"

\* The summary says TERMINATED once a termination is posted and projected.
Told ==
  crashes = 0 /\ ~reopened /\ (\A r \in Records : Posted(records, r) => KindOf[r] # "regularisation") =>
    \A r \in Records :
      Posted(records, r) /\ KindOf[r] = "termination" /\ ~Projecting(r) =>
        summary.status = "TERMINATED"

PInv ==
  /\ LInv
  /\ \A c \in Callers : pc[c] \in {"persist", "write"} /\ task[c].command = "LOCKED" =>
       stream[c][task[c].record].status = "LOCKED"
  /\ \A c \in Callers : pc[c] \in {"project", "upsert"} =>
       task[c].command = "LOCKED" /\ Posted(records, task[c].record)
  /\ ~reopened => \A c \in Callers : pc[c] = "upsert" => current[c] = summary \/ Unterminated
  /\ Told

LEMMA InitPInv == Init => PInv
BY InitLInv DEF Init, PInv, Told, Posted

LEMMA AcceptTold ==
  ASSUME OneAtATime, PInv, LInv', NEW c \in Callers, NEW command, NEW r \in Records, NEW t,
         pc[c] = "idle", Accept(c, command, r, t), Operated(records, command, r, t)
  PROVE  PInv'
<1>1. \A d \in Callers : d = c
  BY DEF OneAtATime
<1>2. /\ pc'[c] = "persist" /\ stream'[c] = t /\ task'[c].command = command
      /\ task'[c].record = r /\ UNCHANGED <<records, summary, current, crashes, reopened>>
  BY DEF Accept, PInv, LInv, TInv, TypeOK
<1>3. command = "LOCKED" => t[r].status = "LOCKED"
  <2>1. Sound(records)
    BY DEF PInv, LInv, TInv, IInv
  <2> QED
    BY <2>1, OperatedPosts
<1>4. \A q \in Records : ~Projecting(q)
  BY <1>1 DEF Projecting
<1>5. Told'
  BY <1>2, <1>4 DEF PInv, Told, Posted
<1> QED
  BY <1>1, <1>2, <1>3, <1>5 DEF PInv

\* What a write does to what is posted.
LEMMA WritePosts ==
  ASSUME PInv, NEW c \in Callers, pc[c] \in {"persist", "write"}, records' = stream[c]
  PROVE  /\ \A q \in Records : Posted(records, q) => Posted(records', q)
         /\ \A q \in Records : Posted(records', q) /\ ~Posted(records, q) => Projecting(q)
         /\ task[c].command = "LOCKED" => Posted(records', task[c].record)
<1> DEFINE r == task[c].record
<1>1. Pending(records, task[c].command, r, stream[c]) /\ r \in Records /\ Sound(records)
  BY DEF PInv, LInv, TInv, IInv
<1>2. task[c].command = "LOCKED" => Posted(records', r)
  BY <1>1 DEF PInv, Posted, Pending
<1>3. CASE records' = records
  BY <1>2, <1>3
<1>4. CASE records' # records
  <2>1. Operated(records, task[c].command, r, records')
    BY <1>1, <1>4 DEF Pending
  <2>2. \A q \in Records : Posted(records, q) => records'[q] # Absent
    BY <1>1 DEF Pending, Posted
  <2>3. \A q \in Records : Posted(records', q) /\ ~Posted(records, q)
                             => q = r /\ task[c].command = "LOCKED"
    BY <1>1, <2>1, OperatedPosts
  <2>4. \A q \in Records : Posted(records, q) => Posted(records', q)
    BY <1>1, <2>1, <2>2, OperatedPosts
  <2>5. task[c].command = "LOCKED" => Projecting(r)
    BY DEF Projecting
  <2> QED
    BY <1>2, <2>3, <2>4, <2>5
<1> QED
  BY <1>3, <1>4

\* A step that posts only what is being projected, and projects nothing.
LEMMA PostedTold ==
  ASSUME Told, UNCHANGED <<summary, reopened>>, crashes' = 0 => crashes = 0,
         \A q \in Records : Posted(records, q) => Posted(records', q),
         \A q \in Records : Posted(records', q) /\ ~Posted(records, q) => Projecting(q),
         crashes' = 0 => \A q \in Records : Projecting(q) /\ KindOf[q] = "termination" => Projecting(q)'
  PROVE  Told'
<1> SUFFICES ASSUME crashes' = 0, ~reopened',
                    \A r \in Records : Posted(records', r) => KindOf[r] # "regularisation",
                    NEW r \in Records, Posted(records', r), KindOf[r] = "termination",
                    ~Projecting(r)'
             PROVE  summary'.status = "TERMINATED"
  BY DEF Told, Posted
<1>1. \A q \in Records : Posted(records, q) => KindOf[q] # "regularisation"
  OBVIOUS
<1>2. ~Projecting(r)
  OBVIOUS
<1>3. Posted(records, r)
  BY <1>2
<1>4. summary.status = "TERMINATED"
  BY <1>1, <1>2, <1>3 DEF Told
<1> QED
  BY <1>4

LEMMA FinishTold ==
  ASSUME OneAtATime, PInv, LInv', NEW c \in Callers, pc[c] \in {"persist", "write"},
         Finish(c), records' = stream[c], UNCHANGED <<summary, crashes, reopened>>
  PROVE  PInv'
<1>1. \A d \in Callers : d = c
  BY DEF OneAtATime
<1>2. pc'[c] = AfterPersist(c)
  BY DEF Finish, PInv, LInv, TInv, TypeOK
<1>3. ASSUME NEW q \in Records, Projecting(q), KindOf[q] = "termination" PROVE Projecting(q)'
  <2>1. task[c].command = "LOCKED" /\ task[c].record = q
    BY <1>1, <1>3 DEF Projecting
  <2>2. AfterPersist(c) = "project"
    BY <1>3, <2>1 DEF AfterPersist, Projectable
  <2>3. pc'[c] = "project" /\ task' = task
    BY <1>2, <2>2 DEF Finish
  <2> QED
    BY <2>1, <2>3 DEF Projecting
<1>4. Told'
  BY <1>3, WritePosts, PostedTold DEF PInv
<1>5. AfterPersist(c) # "idle" => /\ AfterPersist(c) = "project" /\ task' = task
                                  /\ task[c].command = "LOCKED"
                                  /\ Posted(records', task[c].record)
  BY WritePosts DEF Finish, AfterPersist
<1>6. \A d \in Callers : pc'[d] \in {"project", "upsert"} =>
        task'[d].command = "LOCKED" /\ Posted(records, task[d].record)'
  BY <1>1, <1>2, <1>5 DEF Posted
<1>7. \A d \in Callers : pc'[d] \notin {"persist", "write", "upsert"}
  BY <1>1, <1>2 DEF AfterPersist
<1> QED
  BY <1>4, <1>6, <1>7 DEF PInv

LEMMA UpsertTold ==
  ASSUME OneAtATime, PInv, LInv', NEW c \in Callers, UpsertSummary(c)
  PROVE  PInv'
<1> DEFINE k == task[c].record
<1>1. \A d \in Callers : d = c
  BY DEF OneAtATime
<1>2. /\ pc'[c] = "idle" /\ UNCHANGED <<records, crashes, reopened>>
      /\ summary'.status = StatusAfter(KindOf[k], current[c].status)
      /\ Posted(records, k)
      /\ k \in Records
  BY DEF UpsertSummary, PInv, LInv, TInv, TypeOK
<1>3. Told'
  <2> SUFFICES ASSUME crashes = 0, ~reopened,
                      \A r \in Records : Posted(records, r) => KindOf[r] # "regularisation",
                      NEW r \in Records, Posted(records, r), KindOf[r] = "termination"
               PROVE  summary'.status = "TERMINATED"
    BY <1>2 DEF Told, Posted
  <2>1. CASE r = k
    BY <1>2, <2>1 DEF StatusAfter
  <2>2. CASE r # k
    <3>1. ~Projecting(r)
      BY <1>1, <2>2 DEF Projecting
    <3>2. summary.status = "TERMINATED" /\ current[c] = summary
      BY <3>1 DEF PInv, Told, Unterminated, UpsertSummary
    <3>3. KindOf[k] # "regularisation"
      BY <1>2
    <3>4. StatusAfter(KindOf[k], "TERMINATED") = "TERMINATED"
      BY <3>3, StatusAssumption DEF StatusAfter
    <3> QED
      BY <1>2, <3>2, <3>4
  <2> QED
    BY <2>1, <2>2
<1> QED
  BY <1>1, <1>2, <1>3 DEF PInv

LEMMA StepPInv ==
  ASSUME OneAtATime, PInv, [Next]_vars
  PROVE  PInv'
<1>0. LInv'
  BY StepLInv DEF PInv
<1>1. \A c, d \in Callers : c = d
  BY DEF OneAtATime
<1>2. ASSUME NEW c \in Callers, Handle(c) PROVE PInv'
  BY <1>0, <1>2, HandleOperates, AcceptTold DEF PInv
<1>3. ASSUME NEW c \in Callers, Commit(c) PROVE PInv'
  BY <1>0, <1>3, CommitWrites, FinishTold DEF Commit, PInv
<1>4. ASSUME NEW c \in Callers, AddEvent(c) PROVE PInv'
  BY <1>0, <1>4, AddFinds, FinishTold DEF AddEvent, PInv
<1>5. ASSUME NEW c \in Callers, WriteCount(c) PROVE PInv'
  <2>1. /\ pc[c] = "persist" /\ pc' = [pc EXCEPT ![c] = "write"]
        /\ UNCHANGED <<records, summary, task, stream, current, crashes, reopened>>
    BY <1>5 DEF WriteCount
  <2>2. pc'[c] = "write"
    BY <2>1 DEF PInv, LInv, TInv, TypeOK
  <2>3. \A q \in Records : Projecting(q) => Projecting(q)'
    BY <1>1, <2>1, <2>2 DEF Projecting
  <2>4. Told'
    BY <2>1, <2>3, PostedTold DEF PInv
  <2> QED
    BY <1>0, <1>1, <2>1, <2>2, <2>4 DEF PInv
<1>6. ASSUME NEW c \in Callers, NEW r \in Records, WriteRecord(c, r) PROVE PInv'
  <2>1. pc[c] = "write" /\ UNCHANGED <<summary, pc, task, stream, current, crashes, reopened>>
    BY <1>6 DEF WriteRecord
  <2>2. \A q \in Records : Projecting(q) => Projecting(q)'
    BY <2>1 DEF Projecting
  <2>3. records' = stream[c] \/ records' = records
    BY <1>6, RecordWrites DEF PInv
  <2>4. Told'
    <3>1. CASE records' = stream[c]
      BY <2>1, <2>2, <3>1, WritePosts, PostedTold DEF PInv
    <3>2. CASE records' = records
      BY <2>1, <2>2, <3>2, PostedTold DEF PInv
    <3> QED
      BY <2>3, <3>1, <3>2
  <2> QED
    BY <1>0, <1>1, <2>1, <2>4 DEF PInv
<1>7. ASSUME NEW c \in Callers, ReadSummary(c) PROVE PInv'
  <2>1. /\ pc[c] = "project" /\ pc' = [pc EXCEPT ![c] = "upsert"]
        /\ current' = [current EXCEPT ![c] = summary]
        /\ UNCHANGED <<records, summary, task, stream, crashes, reopened>>
    BY <1>7 DEF ReadSummary
  <2>2. pc'[c] = "upsert" /\ current'[c] = summary
    BY <2>1 DEF PInv, LInv, TInv, TypeOK
  <2>3. \A q \in Records : Projecting(q) => Projecting(q)'
    BY <1>1, <2>1, <2>2 DEF Projecting
  <2>4. Told'
    BY <2>1, <2>3, PostedTold DEF PInv
  <2>5. \A d \in Callers : Posted(records, task[d].record)' <=> Posted(records, task[d].record)
    BY <2>1 DEF Posted
  <2> QED
    BY <1>0, <1>1, <2>1, <2>2, <2>4, <2>5 DEF PInv
<1>8. ASSUME NEW c \in Callers, UpsertSummary(c) PROVE PInv'
  BY <1>0, <1>8, UpsertTold
<1>9. ASSUME NEW c \in Callers, CutOff(c) PROVE PInv'
  <2>1. pc'[c] = "idle" /\ crashes' # 0
    BY <1>9 DEF CutOff, PInv, LInv, TInv, TypeOK
  <2>2. Told'
    BY <2>1 DEF Told
  <2> QED
    BY <1>0, <1>1, <2>1, <2>2 DEF PInv
<1>10. CASE ProjectOpening
  <2>1. UNCHANGED <<records, pc, task, stream, current, crashes>>
    BY <1>10 DEF ProjectOpening, handlerVars
  <2>2. ~reopened' => Unterminated
    BY <1>10 DEF ProjectOpening, PostedRecords, Present, Posted, Unterminated
  <2>3. Unterminated' <=> Unterminated
    BY <2>1 DEF Unterminated, Posted
  <2>4. Told'
    BY <2>2, <2>3 DEF Told, Unterminated
  <2>5. \A d \in Callers : Posted(records, task[d].record)' <=> Posted(records, task[d].record)
    BY <2>1 DEF Posted
  <2> QED
    BY <1>0, <2>1, <2>2, <2>3, <2>4, <2>5 DEF PInv
<1>11. CASE UNCHANGED vars
  <2>1. UNCHANGED <<records, summary, pc, task, stream, current, crashes, reopened>>
    BY <1>11 DEF vars, handlerVars
  <2>2. Told'
    <3>1. \A q \in Records : Projecting(q) => Projecting(q)'
      BY <2>1 DEF Projecting
    <3> QED
      BY <2>1, <3>1, PostedTold DEF PInv
  <2>3. \A d \in Callers : Posted(records, task[d].record)' <=> Posted(records, task[d].record)
    BY <2>1 DEF Posted
  <2>4. Unterminated' <=> Unterminated
    BY <2>1 DEF Unterminated, Posted
  <2> QED
    BY <1>0, <2>1, <2>2, <2>3, <2>4 DEF PInv
<1> QED
  BY <1>2, <1>3, <1>4, <1>5, <1>6, <1>7, <1>8, <1>9, <1>10, <1>11 DEF Next

\* Handled one at a time and never cut off, commands leave a summary that says
\* TERMINATED once a termination was posted, no regularisation was, and no
\* opening was approved since: what an earlier opening or a later engagement
\* writes does not undo it.
THEOREM TerminationSticksOneAtATime ==
  ASSUME OneAtATime
  PROVE  Spec => []TerminationSticks
<1>1. PInv => TerminationSticks
  <2> SUFFICES ASSUME PInv, Quiet, crashes = 0, ~reopened,
                      PostedRecords("termination") # {}, PostedRecords("regularisation") = {}
               PROVE  summary.status = "TERMINATED"
    BY DEF TerminationSticks
  <2>1. \A r \in Records : Posted(records, r) => KindOf[r] # "regularisation"
    BY DEF Posted, Present, PostedRecords
  <2>2. PICK r \in Records : Posted(records, r) /\ KindOf[r] = "termination"
    BY DEF Posted, Present, PostedRecords
  <2>3. ~Projecting(r)
    BY DEF Projecting, Quiet
  <2> QED
    BY <2>1, <2>2, <2>3 DEF PInv, Told
<1>2. PInv /\ [Next]_vars => PInv'
  BY StepPInv
<1> QED
  BY <1>1, <1>2, InitPInv, PTL DEF Spec

-------------------------------------------------------------------------------
(* ServiceLedger, implemented: the ledger and its entries are functions of *)
(* the database, so only the write of the command's record is a step of    *)
(* the ledger; every other step is none.                                   *)

OrderOf(s) ==
  [i \in 1..Cardinality(Present(s)) |-> CHOOSE r \in Present(s) : s[r].sequence = i]

EntryFor(d) == [status |-> d.status, payload |-> d.payload, documents |-> d.documents]

EntriesOf(s) == [r \in Records |-> IF s[r] = Absent THEN Absent ELSE EntryFor(s[r])]

LEMMA OrderPlaces ==
  ASSUME NEW s \in Streams, Linear(s), NEW i \in 1..Cardinality(Present(s))
  PROVE  OrderOf(s)[i] \in Present(s) /\ s[OrderOf(s)[i]].sequence = i
<1>1. \E r \in Present(s) : s[r].sequence = i
  BY PlacesFilled
<1>2. OrderOf(s)[i] = CHOOSE r \in Present(s) : s[r].sequence = i
  BY DEF OrderOf
<1> QED
  BY <1>1, <1>2

LEMMA OrderSequence ==
  ASSUME NEW s \in Streams, Linear(s)
  PROVE  /\ OrderOf(s) \in Seq(Records)
         /\ Len(OrderOf(s)) = Cardinality(Present(s))
<1>1. \A i \in 1..Cardinality(Present(s)) : OrderOf(s)[i] \in Records
  BY OrderPlaces DEF Present
<1>2. OrderOf(s) \in [1..Cardinality(Present(s)) -> Records]
  BY <1>1 DEF OrderOf
<1> QED
  BY <1>2, PresentFinite

LEMMA SameOrder ==
  ASSUME NEW s \in Streams, NEW t \in Streams, Linear(s), SamePlaces(s, t)
  PROVE  OrderOf(t) = OrderOf(s)
<1>1. Linear(t) /\ Present(t) = Present(s)
  BY PlacesLinear
<1>2. \A r \in Present(s) : t[r].sequence = s[r].sequence
  BY DEF SamePlaces, SameReferences, Present
<1>3. ASSUME NEW i \in 1..Cardinality(Present(s)) PROVE OrderOf(t)[i] = OrderOf(s)[i]
  <2>1. OrderOf(s)[i] \in Present(s) /\ s[OrderOf(s)[i]].sequence = i
    BY OrderPlaces
  <2>2. OrderOf(t)[i] \in Present(s) /\ t[OrderOf(t)[i]].sequence = i
    BY <1>1, OrderPlaces
  <2>3. s[OrderOf(t)[i]].sequence = s[OrderOf(s)[i]].sequence
    BY <1>2, <2>1, <2>2
  <2> QED
    BY <2>1, <2>2, <2>3 DEF Linear
<1>4. /\ OrderOf(s) = [i \in 1..Cardinality(Present(s)) |-> OrderOf(s)[i]]
      /\ OrderOf(t) = [i \in 1..Cardinality(Present(s)) |-> OrderOf(t)[i]]
  BY <1>1 DEF OrderOf
<1> QED
  BY <1>3, <1>4

LEMMA RecordOrder ==
  ASSUME NEW s, Sound(s), Linear(s), NEW r \in Records, s[r] = Absent, NEW p \in Payloads
  PROVE  OrderOf(Recorded(s, r, p)) = Append(OrderOf(s), r)
<1> DEFINE t == Recorded(s, r, p)
           N == Cardinality(Present(s))
<1>0. s \in Streams /\ t \in Streams /\ N \in Nat
  BY RecordSound, PresentFinite DEF Sound
<1>1. /\ Linear(t)
      /\ Present(t) = Present(s) \cup {r}
      /\ Cardinality(Present(t)) = N + 1
      /\ t[r].sequence = N + 1
  BY RecordLinear
<1>2. \A q \in Present(s) : t[q] = s[q]
  BY <1>0 DEF Recorded, Streams, Present
<1>3. OrderOf(s) \in Seq(Records) /\ Len(OrderOf(s)) = N
  BY <1>0, OrderSequence
<1>4. OrderOf(t) \in Seq(Records) /\ Len(OrderOf(t)) = N + 1
  BY <1>0, <1>1, OrderSequence
<1>5. ASSUME NEW i \in 1..N PROVE OrderOf(t)[i] = OrderOf(s)[i]
  <2>1. OrderOf(s)[i] \in Present(s) /\ s[OrderOf(s)[i]].sequence = i
    BY <1>0, OrderPlaces
  <2>2. i \in 1..Cardinality(Present(t))
    BY <1>0, <1>1
  <2>3. OrderOf(t)[i] \in Present(t) /\ t[OrderOf(t)[i]].sequence = i
    BY <1>0, <1>1, <2>2, OrderPlaces
  <2>4. OrderOf(s)[i] \in Present(t) /\ t[OrderOf(s)[i]].sequence = i
    BY <1>1, <1>2, <2>1
  <2> QED
    BY <1>1, <2>3, <2>4 DEF Linear
<1>6. OrderOf(t)[N + 1] = r
  <2>1. N + 1 \in 1..Cardinality(Present(t))
    BY <1>0, <1>1
  <2>2. OrderOf(t)[N + 1] \in Present(t) /\ t[OrderOf(t)[N + 1]].sequence = N + 1
    BY <1>0, <1>1, <2>1, OrderPlaces
  <2> QED
    BY <1>1, <2>2 DEF Linear
<1> HIDE DEF t, N
<1>7. Append(OrderOf(s), r) \in Seq(Records) /\ Len(Append(OrderOf(s), r)) = N + 1
      /\ Append(OrderOf(s), r)[N + 1] = r
      /\ \A i \in 1..N : Append(OrderOf(s), r)[i] = OrderOf(s)[i]
  BY <1>0, <1>3
<1>8. \A i \in 1..(N + 1) : OrderOf(t)[i] = Append(OrderOf(s), r)[i]
  BY <1>0, <1>5, <1>6, <1>7
<1>9. OrderOf(t) = Append(OrderOf(s), r)
  BY <1>0, <1>4, <1>7, <1>8
<1> QED
  BY <1>9 DEF t

\* What the ledger tells of a record that an operation does not work on.
LEMMA OtherEntries ==
  ASSUME NEW s \in Streams, NEW t \in Streams, NEW r \in Records, t[r] # Absent,
         \A q \in Records \ {r} : t[q] = s[q]
  PROVE  EntriesOf(t) = [EntriesOf(s) EXCEPT ![r] = EntryFor(t[r])]
BY DEF EntriesOf

LEMMA EntryPresent ==
  ASSUME NEW s, Sound(s), NEW r \in Records, s[r] # Absent
  PROVE  /\ EntriesOf(s)[r] = EntryFor(s[r])
         /\ EntriesOf(s)[r] # Absent
         /\ EntriesOf(s)[r].status = s[r].status
         /\ s[r] \in Document
<1>1. s[r] \in Document
  BY DEF Sound, Good
<1>2. EntryFor(s[r]) \in Entry
  BY <1>1 DEF EntryFor, Entry, Document
<1> QED
  BY <1>1, <1>2, AbsentAssumption DEF EntriesOf, EntryFor

\* Every operation is a step of the ledger, except that what is voided may be
\* voided again.
LEMMA OperationSteps ==
  ASSUME Sound(records), Linear(records), NEW command, NEW r \in Records,
         Operated(records, command, r, records')
  PROVE  [Ledger!Next]_(Ledger!vars)
<1> DEFINE s == records
           t == records'
           e == EntriesOf(records)
<1>0. /\ s \in Streams /\ t \in Streams /\ Linear(t) /\ t[r] # Absent
      /\ \A q \in Records \ {r} : t[q] = s[q]
  BY OperatedLinear DEF Sound
<1>1. /\ LedgerOrder = OrderOf(s) /\ LedgerOrder' = OrderOf(t)
      /\ EntryOf = EntriesOf(s) /\ EntryOf' = EntriesOf(t)
  BY DEF LedgerOrder, OrderOf, EntryOf, EntriesOf, EntryFor, Present
<1>2. EntriesOf(t) = [e EXCEPT ![r] = EntryFor(t[r])]
  BY <1>0, OtherEntries
<1>3. ASSUME command = "RECORD", CanRecord(s, r), NEW p \in Payloads, t = Recorded(s, r, p)
      PROVE  Ledger!Enter(r)
  <2>1. OrderOf(t) = Append(OrderOf(s), r)
    BY <1>3, RecordOrder DEF CanRecord
  <2>2. EntryFor(t[r]) = [status |-> "DRAFT", payload |-> p, documents |-> 0]
    BY <1>0, <1>3 DEF Recorded, Streams, EntryFor
  <2>3. e[r] = Absent
    BY <1>3 DEF EntriesOf, CanRecord
  <2> QED
    BY <1>1, <1>2, <2>1, <2>2, <2>3 DEF Ledger!Enter, Ledger!Entered
<1>4. ASSUME s[r] # Absent
      PROVE  /\ e[r] = EntryFor(s[r]) /\ e[r] # Absent /\ e[r].status = s[r].status
             /\ s[r] \in Document /\ Good(s[r])
  BY <1>4, EntryPresent DEF Sound
<1>5. ASSUME s[r] # Absent,
             \/ \E p \in Payloads : t = Corrected(s, r, p)
             \/ t = Voided(s, r)
             \/ t = Attached(s, r)
             \/ \E target \in DOMAIN AllowedFrom, a \in Actors :
                  CanTransition(s, r, target, a) /\ t = Transitioned(s, r, target, a)
      PROVE  OrderOf(t) = OrderOf(s)
  BY <1>0, <1>4, <1>5, OperationReferences, SameOrder
<1>6. ASSUME s[r] # Absent, CanCorrect(s, r), NEW p \in Payloads, t = Corrected(s, r, p)
      PROVE  Ledger!Amend(r)
  <2>1. t[r] = [s[r] EXCEPT !.payload = p, !.revisions = Append(@, p)]
    BY <1>0, <1>6 DEF Corrected, Streams
  <2>2. s[r].status \in {"DRAFT", "SUBMITTED", "VERIFIED"}
    BY <1>4, <1>6 DEF CanCorrect, Immutable, Good, Controlled, Document, Statuses
  <2>3. EntryFor(t[r]) = [e[r] EXCEPT !.payload = p]
    BY <1>4, <1>6, <2>1 DEF EntryFor, Document
  <2>4. OrderOf(t) = OrderOf(s)
    BY <1>5, <1>6
  <2>5. e \in [Records -> Entry \cup {Absent}]
    BY EntryPresent DEF EntriesOf, EntryFor, Entry, Document
  <2> QED
    BY <1>1, <1>2, <1>4, <1>6, <2>2, <2>3, <2>4, <2>5
       DEF Ledger!Amend, Ledger!Status, Ledger!Entered
<1>7. ASSUME s[r] # Absent, CanAttach(s, r), t = Attached(s, r)
      PROVE  Ledger!Attach(r)
  <2>1. t[r] = [s[r] EXCEPT !.documents = @ + 1]
    BY <1>0, <1>7 DEF Attached, Streams
  <2>2. s[r].status \in {"DRAFT", "SUBMITTED", "VERIFIED", "VOIDED"}
    BY <1>4, <1>7 DEF CanAttach, Immutable, Document, Statuses
  <2>3. EntryFor(t[r]) = [e[r] EXCEPT !.documents = @ + 1]
    BY <1>4, <1>7, <2>1 DEF EntryFor, Document
  <2>4. OrderOf(t) = OrderOf(s)
    BY <1>5, <1>7
  <2> QED
    BY <1>1, <1>2, <1>4, <1>7, <2>2, <2>3, <2>4
       DEF Ledger!Attach, Ledger!Status, Ledger!Entered
<1>8. ASSUME s[r] # Absent, NEW from, NEW to, s[r].status \in from,
             EntryFor(t[r]) = [e[r] EXCEPT !.status = to], OrderOf(t) = OrderOf(s)
      PROVE  Ledger!Move(r, from, to)
  BY <1>1, <1>2, <1>4, <1>8 DEF Ledger!Move, Ledger!Status, Ledger!Entered
<1>9. ASSUME s[r] # Absent, CanVoid(s, r), t = Voided(s, r)
      PROVE  Ledger!Move(r, {"DRAFT", "SUBMITTED", "VERIFIED"}, "VOIDED")
             \/ UNCHANGED <<LedgerOrder, EntryOf>>
  <2>1. t[r] = [s[r] EXCEPT !.is_voided = TRUE, !.status = "VOIDED"]
    BY <1>0, <1>9 DEF Voided, Streams
  <2>2. EntryFor(t[r]) = [e[r] EXCEPT !.status = "VOIDED"]
    BY <1>4, <1>9, <2>1 DEF EntryFor, Document
  <2>3. OrderOf(t) = OrderOf(s)
    BY <1>5, <1>9
  <2>4. CASE s[r].status = "VOIDED"
    <3>1. EntryFor(t[r]) = e[r]
      BY <1>4, <1>9, <2>2, <2>4 DEF EntryFor
    <3>2. EntriesOf(t) = e
      BY <1>2, <3>1 DEF EntriesOf
    <3> QED
      BY <1>1, <2>3, <3>2
  <2>5. CASE s[r].status # "VOIDED"
    <3>1. s[r].status \in {"DRAFT", "SUBMITTED", "VERIFIED"}
      BY <1>4, <1>9, <2>5 DEF CanVoid, Immutable, Document, Statuses
    <3> QED
      BY <1>8, <1>9, <2>2, <2>3, <3>1
  <2> QED
    BY <2>4, <2>5
<1>10. ASSUME s[r] # Absent, NEW target \in DOMAIN AllowedFrom, NEW a \in Actors,
              CanTransition(s, r, target, a), t = Transitioned(s, r, target, a)
       PROVE  Ledger!Move(r, AllowedFrom[target], target)
  <2>1. t[r] = [s[r] EXCEPT !.status = target,
                            !.verified_by = IF target = "VERIFIED" THEN a ELSE @,
                            !.approved_by = IF target = "APPROVED" THEN a ELSE @]
    BY <1>0, <1>10 DEF Transitioned, Streams
  <2>2. EntryFor(t[r]) = [e[r] EXCEPT !.status = target]
    BY <1>4, <1>10, <2>1 DEF EntryFor, Document
  <2>3. OrderOf(t) = OrderOf(s)
    BY <1>5, <1>10
  <2>4. s[r].status \in AllowedFrom[target]
    BY <1>10 DEF CanTransition
  <2> QED
    BY <1>8, <1>10, <2>2, <2>3, <2>4
<1>11. ASSUME s[r] # Absent, NEW target \in DOMAIN AllowedFrom, NEW a \in Actors,
              CanTransition(s, r, target, a), t = Transitioned(s, r, target, a)
       PROVE  Ledger!Next
  <2>1. target \in {"SUBMITTED", "VERIFIED", "APPROVED", "LOCKED"}
        /\ Ledger!Move(r, AllowedFrom[target], target)
    BY <1>10, <1>11 DEF AllowedFrom
  <2> QED
    BY <2>1 DEF Ledger!Next, AllowedFrom
<1>12. Ledger!Next \/ UNCHANGED <<LedgerOrder, EntryOf>>
  BY <1>3, <1>6, <1>7, <1>9, <1>11 DEF Operated, Ledger!Next
<1> QED
  BY <1>12 DEF Ledger!vars

LEMMA StepLedger ==
  ASSUME OneAtATime, LInv, [Next]_vars
  PROVE  [Ledger!Next]_(Ledger!vars)
<1>0. Sound(records) /\ Linear(records)
  BY DEF LInv, TInv, IInv
<1>1. ASSUME records' = records PROVE UNCHANGED <<LedgerOrder, EntryOf>>
  BY <1>1 DEF LedgerOrder, EntryOf, Present
<1>2. ASSUME NEW c \in Callers, pc[c] \in {"persist", "write"}, records' = stream[c]
      PROVE  records' = records \/ \E command : \E r \in Records : Operated(records, command, r, records')
  BY <1>2 DEF LInv, TInv, Pending
<1>3. records' = records \/ \E command : \E r \in Records : Operated(records, command, r, records')
  <2>1. ASSUME NEW c \in Callers, Commit(c)
        PROVE  records' = stream[c] /\ pc[c] \in {"persist", "write"}
    BY <2>1, CommitWrites DEF Commit
  <2>2. ASSUME NEW c \in Callers, NEW r \in Records, WriteRecord(c, r)
        PROVE  records' = records \/ (records' = stream[c] /\ pc[c] \in {"persist", "write"})
    BY <2>2, RecordWrites DEF WriteRecord
  <2>3. ASSUME NEW c \in Callers,
               \/ Handle(c) \/ WriteCount(c) \/ AddEvent(c)
               \/ ReadSummary(c) \/ UpsertSummary(c) \/ CutOff(c)
        PROVE  records' = records
    BY <2>3 DEF Handle, HandleRecord, HandleCorrect, HandleVoid, HandleAttach, HandleTransition,
                Accept, WriteCount, AddEvent, ReadSummary, UpsertSummary, CutOff
  <2>4. CASE ProjectOpening \/ UNCHANGED vars
    BY <2>4 DEF ProjectOpening, vars
  <2> QED
    BY <1>2, <2>1, <2>2, <2>3, <2>4 DEF Next
<1>4. CASE records' = records
  BY <1>1, <1>4 DEF Ledger!vars
<1>5. CASE \E command : \E r \in Records : Operated(records, command, r, records')
  BY <1>0, <1>5, OperationSteps
<1> QED
  BY <1>3, <1>4, <1>5

LEMMA InitLedger == Init => Ledger!Init
<1> SUFFICES ASSUME Init PROVE Ledger!Init
  OBVIOUS
<1>1. Present(records) = {}
  BY DEF Init, Present
<1>2. Cardinality(Present(records)) = 0
  BY <1>1, FS_EmptySet
<1>3. LedgerOrder = <<>>
  BY <1>2 DEF LedgerOrder
<1>4. EntryOf = [r \in Records |-> Absent]
  BY DEF Init, EntryOf
<1> QED
  BY <1>3, <1>4 DEF Ledger!Init

\* Handled one at a time, with or without transactions and cut off after any
\* write, the commands keep the promises of ServiceLedger: records are entered
\* one behind the other and are only locked once they are approved.
THEOREM LedgerOneAtATime ==
  ASSUME OneAtATime
  PROVE  Spec => ImplementsLedger
<1>1. LInv /\ [Next]_vars => LInv'
  BY StepLInv
<1>2. LInv /\ [Next]_vars => [Ledger!Next]_(Ledger!vars)
  BY StepLedger
<1> QED
  BY <1>1, <1>2, InitLInv, InitLedger, PTL DEF Spec, ImplementsLedger, Ledger!Spec

===============================================================================
