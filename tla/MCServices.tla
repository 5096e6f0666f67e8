------------------------------ MODULE MCServices ------------------------------
(* An instance of Services for TLC. *)
EXTENDS Services, TLC

CONSTANTS c1, c2, t1, o1, o2, clerk, u1, u2, u3, r1, r2

TwoCallers == {c1, c2}
OneTask == {t1}
OneClerk == {clerk}
Pair == {o1, o2}
ThreeOfficers == {u1, u2, u3}
TwoRankings == {r1, r2}
OneRole == {r1}
Approved == {"APPROVED"}
TwoFields == {"after_verification", "unrestricted"}

\* A draft that is not complete, and two whose parts and rows differ.
ThreeDrafts ==
  {[complete |-> FALSE, keys |-> {"summary", "part_i"}],
   [complete |-> TRUE, keys |-> {"summary", "part_i", "part_iia", "part_iib"}],
   [complete |-> TRUE, keys |-> {"summary", "part_i", "part_iia", "row_1", "total"}]}
SixKeys == <<"summary", "part_i", "part_iia", "part_iib", "row_1", "total">>

ThreeSigners == <<"first", "second", "third">>
TwoNames == {"PAY_REVISED", "APPROVED"}
OnePayName == {"PAY_REVISED"}
TwoParts == {"III", "VII"}

SmallBounds ==
  [workflow |-> 4, seniority |-> 6, profile |-> 4, change |-> 2, opening |-> 4,
   signatures |-> 6, accounts |-> 3, masters |-> 4, departments |-> 3, views |-> 1]

\* One initial state is enough of a component that does not run, and one
\* employee without an account of the one that does.
MCInit ==
  /\ component \in {"workflow", "seniority", "profile", "change", "opening", "signatures",
                    "accounts", "read_side", "masters", "departments"}
  /\ component # "profile" => identity = Absent
  /\ component # "change" =>
       /\ transactions = TRUE
       /\ requests = [r \in Requests |-> Absent]
       /\ values = [f \in Fields |-> Old]
  /\ component # "opening" => opening = Absent
  /\ component # "accounts" => users = [o \in People |-> Absent]
  /\ component # "read_side" => bookTransactions = TRUE
  /\ component # "masters" => indexed = TRUE
  /\ component # "departments" => accounts = [e \in Employees |-> Department!NewAccount]
  /\ Init
  /\ component = "departments" => Cardinality({e \in Employees : accounts[e] = Absent}) <= 1

MCSpec == MCInit /\ [][Next]_vars

Symmetry == Permutations(TwoCallers) \cup Permutations(Pair) \cup Permutations(ThreeOfficers)
===============================================================================
