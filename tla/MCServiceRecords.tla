--------------------------- MODULE MCServiceRecords ---------------------------
(* Instances of ServiceRecords for TLC. *)
EXTENDS ServiceRecords, TLC

CONSTANTS r1, r2, c1, c2, a1, a2, p1, p2

TwoRecords == {r1, r2}
OneCaller == {c1}
TwoCallers == {c1, c2}
TwoActors == {a1, a2}
OnePayload == {p1}
TwoPayloads == {p1, p2}

AllOther == [r \in {r1, r2} |-> "other"]
TerminationAndEngagement == (r1 :> "termination") @@ (r2 :> "engagement")

ActorSymmetry == Permutations({a1, a2})
SerialSymmetry == ActorSymmetry \cup Permutations({p1, p2})
Everything == SerialSymmetry \cup Permutations({r1, r2}) \cup Permutations({c1, c2})
===============================================================================
