SPECIFICATION Spec
CONSTANTS
  c1 = c1
  c2 = c2
  l1 = l1
  l2 = l2
  l3 = l3
  employee = employee
  officer = officer
  Leaves <- ThreeKinds
  Callers <- OneCaller
  Users <- TwoUsers
  Applicant = employee
  TypeOf <- KindsType
  DaysOf <- KindsDays
  Accrued <- KindsAccrued
  Clash <- LastTwoClash
  Attached <- OneAttached
  Cap <- Caps
  ServiceStart = TRUE
  Seeded = FALSE
  Transactions = FALSE
  None = None
  Absent = Absent
  MaxCommands = 9
  MaxCrashes = 1
INVARIANT TypeOK
INVARIANT WithinEntitlement
INVARIANT BalanceExplained
INVARIANT LockedAreDecided
CHECK_DEADLOCK FALSE
