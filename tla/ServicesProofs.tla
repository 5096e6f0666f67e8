----------------------------- MODULE ServicesProofs -----------------------------
(* What holds of all components side by side. *)
EXTENDS OfficeProofs, EmployeeProofs

\* Whatever runs, rows, documents, accounts and requests stay of their types:
\* no request writes back what it has not read, and none reads a document that
\* was never there, for any number of requests at a time.
THEOREM TypesHold == Spec => []TypeOK
<1>1. Spec => []Workflow!TypeOK
  BY SimulatesWorkflow, TasksDistinct, WorkTypeCorrect, PTL
<1>2. Spec => []Seniority!TypeOK
  BY SimulatesSeniority, ListsDistinct, SenTypeCorrect, PTL
<1>3. Spec => []Profile!TypeOK
  BY SimulatesProfile, ProfInvariance, ProfTypes, PTL
<1>4. Spec => []Change!TypeOK
  BY SimulatesChange, ChgInvariance, ChgTypes, PTL
<1>5. Spec => []Book!TypeOK
  BY SimulatesBook, OpnInvariance, OpnTypes, PTL
<1>6. Spec => []Signature!TypeOK
  BY SimulatesSignature, SignInvariance, SignTypes, PTL
<1>7. Spec => []Account!TypeOK
  BY SimulatesAccount, AccInvariance, AccTypes, PTL
<1>8. Spec => []ReadSide!TypeOK
  BY SimulatesReadSide, ReadInvariance, ReadTypes, PTL
<1>9. Spec => []Department!TypeOK
  BY SimulatesDepartment, DeptInvariance, DeptActiveTyped, DeptTypes, PTL
<1>10. ASSUME Workflow!TypeOK, Seniority!TypeOK, Profile!TypeOK, Change!TypeOK, Book!TypeOK,
              Signature!TypeOK, Account!TypeOK, ReadSide!TypeOK, Master!TypeOK, Department!TypeOK
       PROVE  TypeOK
  BY <1>10 DEF TypeOK, Running
<1> QED
  BY <1>1, <1>2, <1>3, <1>4, <1>5, <1>6, <1>7, <1>8, <1>9, <1>10, MasterTypes, PTL

\* A verified seniority list has another submitter and verifier, an approved
\* one a third approver, a promoted one an approved source, unless requests on
\* it overlapped; a profile and its identity were approved by a third person,
\* whatever is delivered, replayed or cut off between the service's writes.
THEOREM DutiesHold == Spec => []DutiesSeparated
<1>1. Seniority!DutiesSeparated /\ Seniority!FinalIsApproved /\ Profile!ApprovedByThird => DutiesSeparated
  BY DEF DutiesSeparated, Running
<1> QED
  BY SimulatesSeniority, ListsDistinct, SenDutiesHold, SenPromotionHolds, SimulatesProfile,
     ProfInvariance, ProfSeparated, <1>1, PTL

\* The read model shows what was applied once the pending events have been
\* delivered in order, although commits and refreshes write back what they have
\* composed before, unless a delivery came while a refresh had not seen its
\* update; an approved opening has the service book entries of its parts and
\* nothing else has, unless two requests met on it or one was cut off.
THEOREM ProjectionsHold == Spec => []ProjectionsCatchUp
<1>1. Change!ProjectionCatchesUp /\ Book!OpeningProjected => ProjectionsCatchUp
  BY DEF ProjectionsCatchUp, Running
<1> QED
  BY SimulatesChange, ChgInvariance, ChgCatchesUp, SimulatesBook, OpnInvariance, OpnProjects, <1>1, PTL
===============================================================================
