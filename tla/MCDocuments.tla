------------------------------ MODULE MCDocuments ------------------------------
(* Instances of Documents for TLC. *)
EXTENDS Documents, TLC

CONSTANTS c1, d1, d2, d3

OneCaller == {c1}
TwoDocs == {d1, d2}
ThreeDocs == {d1, d2, d3}

\* No definition tells one filename from another.
Names == Permutations(ThreeDocs)
===============================================================================
