-------------------------------- MODULE MCLeave --------------------------------
(* Instances of Leave for TLC. *)
EXTENDS Leave, TLC

CONSTANTS c1, c2, l1, l2, l3, employee, officer

OneCaller == {c1}
TwoCallers == {c1, c2}
TwoUsers == {employee, officer}

\* Two earned leaves that do not both fit, on overlapping dates.
TwoEarned == {l1, l2}
EarnedType == (l1 :> "EL") @@ (l2 :> "EL")
EarnedDays == (l1 :> 2) @@ (l2 :> 3)
EarnedAccrued == [EL |-> 4, HPL |-> 2]

\* Commuted and half-pay leave are paid from one balance, and a casual
\* leave overlaps one of them.
ThreeKinds == {l1, l2, l3}
KindsType == (l1 :> "CML") @@ (l2 :> "HPL") @@ (l3 :> "CL")
KindsDays == (l1 :> 2) @@ (l2 :> 1) @@ (l3 :> 1)
KindsAccrued == [EL |-> 1, HPL |-> 4]

LastTwoClash == {<<l2, l3>>, <<l3, l2>>}
NoClash == {}
OneAttached == {l1}
Caps == [CL |-> 2, LND |-> 3, CCL |-> 3]
===============================================================================
