SPECIFICATION Spec
CONSTANTS
  c1 = c1
  c2 = c2
  l1 = l1
  l2 = l2
  l3 = l3
  employee = employee
  officer = officer
  Leaves <- ThreeKinds
  Callers <- TwoCallers
  Users <- TwoUsers
  Applicant = employee
  TypeOf <- KindsType
  DaysOf <- KindsDays
  Accrued <- KindsAccrued
  Clash <- NoClash
  Attached <- OneAttached
  Cap <- Caps
  ServiceStart = TRUE
  Seeded = TRUE
  Transactions = TRUE
  None = None
  Absent = Absent
  MaxCommands = 7
  MaxCrashes = 1
INVARIANT ReviewedByOthers
INVARIANT SanctionedIsDebited
CHECK_DEADLOCK FALSE
