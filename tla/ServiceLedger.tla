----------------------------- MODULE ServiceLedger -----------------------------
(***************************************************************************)
(* What an employee's Service Book promises its readers, without handlers, *)
(* snapshots or transactions: records are entered one behind the other and *)
(* never leave their place; a record may be amended until it is approved;  *)
(* it is approved only after it was verified, and from then on it is only  *)
(* locked.                                                                 *)
(***************************************************************************)
EXTENDS Sequences, Naturals

CONSTANTS Records, Payloads, Absent

VARIABLES
  ledger,   \* the records in the order they were entered
  entry     \* what each record says, and its status

vars == <<ledger, entry>>

Init ==
  /\ ledger = <<>>
  /\ entry = [r \in Records |-> Absent]

Entered(r) == entry[r] # Absent
Status(r, S) == Entered(r) /\ entry[r].status \in S

Enter(r) ==
  /\ ~Entered(r)
  /\ ledger' = Append(ledger, r)
  /\ \E p \in Payloads :
       entry' = [entry EXCEPT ![r] = [status |-> "DRAFT", payload |-> p, documents |-> 0]]

Amend(r) ==
  /\ Status(r, {"DRAFT", "SUBMITTED", "VERIFIED"})
  /\ \E p \in Payloads : entry' = [entry EXCEPT ![r].payload = p]
  /\ UNCHANGED ledger

Attach(r) ==
  /\ Status(r, {"DRAFT", "SUBMITTED", "VERIFIED", "VOIDED"})
  /\ entry' = [entry EXCEPT ![r].documents = @ + 1]
  /\ UNCHANGED ledger

Move(r, from, to) ==
  /\ Status(r, from)
  /\ entry' = [entry EXCEPT ![r].status = to]
  /\ UNCHANGED ledger

Next ==
  \E r \in Records :
    \/ Enter(r) \/ Amend(r) \/ Attach(r)
    \/ Move(r, {"DRAFT", "VERIFIED"}, "SUBMITTED")
    \/ Move(r, {"SUBMITTED"}, "VERIFIED")
    \/ Move(r, {"VERIFIED"}, "APPROVED")
    \/ Move(r, {"APPROVED"}, "LOCKED")
    \/ Move(r, {"DRAFT", "SUBMITTED", "VERIFIED"}, "VOIDED")

Spec == Init /\ [][Next]_vars

===============================================================================
