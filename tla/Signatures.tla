------------------------------- MODULE Signatures -------------------------------
(***************************************************************************)
(* documents/application/signature_service: a document is signed by its    *)
(* signers in their order; the last signature locks the document and then  *)
(* completes the request.  Every operation reads the request, changes it   *)
(* in memory and writes all of it back, and several may be at work.        *)
(***************************************************************************)
EXTENDS Naturals, Sequences, SequencesExt

CONSTANTS
  Signers,     \* employees in the order they have to sign
  Callers,     \* operations that are handled at the same time
  None,        \* nothing, nobody
  Absent,      \* the request was not made yet
  MaxCommands  \* bound on the operations handled

VARIABLES
  request,    \* document_signature_requests
  stored,     \* the file is in the document storage
  sealed,     \* the document's row locks it for the request
  copied,     \* another document operation holds a copy of the row without the lock
  job,        \* Callers -> the operation and the request it read
  handled,    \* operations so far
  answered,   \* history: signers who were told that they have signed
  overlapped, \* history: two operations were at work on the request at once
  cut,        \* history: an operation was cut off after its lock
  undone      \* history: the lock was written over

vars == <<request, stored, sealed, copied, job, handled, answered, overlapped, cut, undone>>

Idle == [step |-> "idle", command |-> None, actor |-> None, read |-> Absent]

Init ==
  /\ request = Absent
  /\ stored = TRUE
  /\ sealed = FALSE /\ copied = FALSE
  /\ job = [c \in Callers |-> Idle]
  /\ handled = 0
  /\ answered = {} /\ overlapped = FALSE /\ cut = FALSE /\ undone = FALSE

NewRequest == [status |-> "PENDING", signed |-> {}, declined |-> {}]

\* current_signer_index
Turn(r) ==
  LET open == {i \in DOMAIN Signers : Signers[i] \notin r.signed \cup r.declined}
  IN  IF open = {} THEN None ELSE Signers[CHOOSE i \in open : \A k \in open : i <= k]

CreateRequest ==
  /\ request = Absent
  /\ stored
  /\ handled < MaxCommands
  /\ handled' = handled + 1
  /\ request' = NewRequest
  /\ UNCHANGED <<stored, sealed, copied, job, answered, overlapped, cut, undone>>

\* Mutant: whoever is among the signers may sign.
MaySignAnyTurn(r, u) == r.status = "PENDING" /\ u \in ToSet(Signers)

\* assert_can_sign
MaySign(r, u) == r.status = "PENDING" /\ u = Turn(r)

\* Reading and deciding; cancelling is for the issuer, in any turn.
Begin(c, command, u) ==
  /\ job[c] = Idle
  /\ request # Absent
  /\ handled < MaxCommands
  /\ IF command = "CANCEL" THEN request.status = "PENDING" ELSE MaySign(request, u)
  /\ LET read == CASE command = "SIGN" -> [request EXCEPT !.signed = @ \cup {u}]
                   [] command = "DECLINE" -> [request EXCEPT !.declined = @ \cup {u},
                                                             !.status = "DECLINED"]
                   [] command = "CANCEL" -> [request EXCEPT !.status = "CANCELLED"]
         last == command = "SIGN" /\ Turn(read) = None
     IN  job' = [job EXCEPT ![c] =
                   [step |-> IF last THEN "lock" ELSE "write", command |-> command, actor |-> u,
                    read |-> [read EXCEPT !.status = IF last THEN "COMPLETED" ELSE @]]]
  /\ handled' = handled + 1
  /\ overlapped' = (overlapped \/ \E d \in Callers \ {c} : job[d] # Idle)
  /\ UNCHANGED <<request, stored, sealed, copied, answered, cut, undone>>

\* Mutant: the request is completed without waiting for the lock.
FindNothing(c) ==
  /\ job[c].step = "lock"
  /\ job' = [job EXCEPT ![c].step = "write"]
  /\ UNCHANGED <<request, stored, sealed, copied, handled, answered, overlapped, cut, undone>>

\* lock_documents_for_approved_request passes over a file that is gone ...
FindDocument(c) ==
  /\ job[c].step = "lock"
  /\ job' = [job EXCEPT ![c].step = IF stored THEN "seal" ELSE "write"]
  /\ UNCHANGED <<request, stored, sealed, copied, handled, answered, overlapped, cut, undone>>

\* ... and writes the row of any other back with the lock in it.
WriteLock(c) ==
  /\ job[c].step = "seal"
  /\ sealed' = TRUE
  /\ job' = [job EXCEPT ![c].step = "write"]
  /\ UNCHANGED <<request, stored, copied, handled, answered, overlapped, cut, undone>>

\* apply_legal_hold and its like read the row, await, and write all of it back;
\* a copy that was read with the lock changes nothing here.
ReadRow ==
  /\ stored /\ ~sealed /\ ~copied
  /\ copied' = TRUE
  /\ UNCHANGED <<request, stored, sealed, job, handled, answered, overlapped, cut, undone>>

WriteRow ==
  /\ copied
  /\ copied' = FALSE
  /\ sealed' = FALSE
  /\ undone' = (undone \/ sealed)
  /\ UNCHANGED <<request, stored, job, handled, answered, overlapped, cut>>

Upsert(c) ==
  /\ job[c].step = "write"
  /\ request' = job[c].read
  /\ answered' = IF job[c].command = "SIGN" THEN answered \cup {job[c].actor} ELSE answered
  /\ job' = [job EXCEPT ![c] = Idle]
  /\ UNCHANGED <<stored, sealed, copied, handled, overlapped, cut, undone>>

CutOff(c) ==
  /\ job[c] # Idle
  /\ cut' = (cut \/ job[c].read.status = "COMPLETED")
  /\ job' = [job EXCEPT ![c] = Idle]
  /\ UNCHANGED <<request, stored, sealed, copied, handled, answered, overlapped, undone>>

\* The file is archived or deleted by another operation.
RemoveFile ==
  /\ stored
  /\ stored' = FALSE
  /\ UNCHANGED <<request, sealed, copied, job, handled, answered, overlapped, cut, undone>>

Next ==
  \/ CreateRequest
  \/ RemoveFile \/ ReadRow \/ WriteRow
  \/ \E c \in Callers :
       \/ \E u \in ToSet(Signers), command \in {"SIGN", "DECLINE"} : Begin(c, command, u)
       \/ Begin(c, "CANCEL", None)
       \/ FindDocument(c) \/ WriteLock(c) \/ Upsert(c) \/ CutOff(c)

Spec == Init /\ [][Next]_vars

-------------------------------------------------------------------------------
(* Properties. *)

Request ==
  [status : {"PENDING", "COMPLETED", "DECLINED", "CANCELLED"},
   signed : SUBSET ToSet(Signers), declined : SUBSET ToSet(Signers)]

\* Type invariant.
TypeOK ==
  /\ request \in Request \cup {Absent}
  /\ stored \in BOOLEAN /\ sealed \in BOOLEAN /\ copied \in BOOLEAN
  /\ \A c \in Callers : job[c] = Idle \/ job[c].read \in Request
  /\ handled \in 0..MaxCommands
  /\ answered \subseteq ToSet(Signers)
  /\ overlapped \in BOOLEAN /\ cut \in BOOLEAN /\ undone \in BOOLEAN

\* A completed request has every signature and, unless the file was gone or
\* the whole-row write of another operation took the lock back, its document
\* locked, whatever signing overlapped or was cut off.  A document is locked for
\* a request that is still open only while the last signature is written or when
\* that write was cut off, and nobody who was told that they have signed loses
\* the signature, unless two operations overlapped.
SignedMeansSealed ==
  /\ request # Absent /\ request.status = "COMPLETED" =>
       request.signed = ToSet(Signers) /\ (stored /\ ~undone => sealed)
  /\ ~overlapped =>
       /\ request # Absent => answered = request.signed
       /\ sealed /\ ~cut /\ request.status # "COMPLETED" =>
            \E c \in Callers : job[c].read # Absent /\ job[c].read.status = "COMPLETED"
       /\ \A i \in DOMAIN Signers : Signers[i] \in answered =>
            \A k \in 1..i : Signers[k] \in answered
===============================================================================
