--------------------------- MODULE MCChangeRequests ---------------------------
\* Two requests for a change, two callers at work on them.
EXTENDS ChangeRequests, TLC

Symmetry == Permutations(Requests) \cup Permutations(Callers)
===============================================================================
