------------------------------- MODULE MCOutbox -------------------------------
(* Instances of Outbox for TLC.  Events 1 and 2 are independent; event 3   *)
(* repeats the idempotency key of event 1.                                 *)
EXTENDS Outbox, TLC

CONSTANTS d1, d2

MCEvents == {1, 2}
MCEventsWithKey == {1, 2, 3}
MCKeyOf == (1 :> "k") @@ (2 :> NoKey) @@ (3 :> "k")
OneDispatcher == {d1}
TwoDispatchers == {d1, d2}
Symmetry == Permutations({d1, d2})
===============================================================================
