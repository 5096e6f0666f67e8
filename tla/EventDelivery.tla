----------------------------- MODULE EventDelivery -----------------------------
(***************************************************************************)
(* What the outbox promises the subscribers, without leases, batches,      *)
(* retries or processes: an event that was recorded is handed to the       *)
(* subscribers in the order they subscribed, possibly several times, until *)
(* all of them have handled it and it is done, or until it is given up.    *)
(* A settled event is never handed out again.                              *)
(***************************************************************************)
EXTENDS Naturals

CONSTANTS Events, Subscribers

VARIABLES
  outcome,    \* what became of each event
  delivered   \* pairs <<event, handler>> whose handler has taken effect

vars == <<outcome, delivered>>

Init ==
  /\ outcome = [e \in Events |-> "unrecorded"]
  /\ delivered = {}

\* A use case records the event with its business change.
Record(e) ==
  /\ outcome[e] = "unrecorded"
  /\ outcome' = [outcome EXCEPT ![e] = "open"]
  /\ UNCHANGED delivered

\* Handler k handles the event once those subscribed before it have.
Deliver(e, k) ==
  /\ outcome[e] = "open"
  /\ \A j \in 1..(k - 1) : <<e, j>> \in delivered
  /\ delivered' = delivered \cup {<<e, k>>}
  /\ UNCHANGED outcome

\* Every subscriber has handled the event.
Complete(e) ==
  /\ outcome[e] = "open"
  /\ \A k \in 1..Subscribers : <<e, k>> \in delivered
  /\ outcome' = [outcome EXCEPT ![e] = "done"]
  /\ UNCHANGED delivered

\* The event is given up: it keeps failing.
GiveUp(e) ==
  /\ outcome[e] = "open"
  /\ outcome' = [outcome EXCEPT ![e] = "dead"]
  /\ UNCHANGED delivered

Next ==
  \E e \in Events :
    \/ Record(e) \/ Complete(e) \/ GiveUp(e)
    \/ \E k \in 1..Subscribers : Deliver(e, k)

Spec == Init /\ [][Next]_vars

===============================================================================
