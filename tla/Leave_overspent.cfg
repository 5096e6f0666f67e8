SPECIFICATION Spec
CONSTANTS
  c1 = c1
  c2 = c2
  l1 = l1
  l2 = l2
  l3 = l3
  employee = employee
  officer = officer
  Leaves <- TwoEarned
  Callers <- TwoCallers
  Users <- TwoUsers
  Applicant = employee
  TypeOf <- EarnedType
  DaysOf <- EarnedDays
  Accrued <- EarnedAccrued
  Clash <- NoClash
  Attached <- OneAttached
  Cap <- Caps
  ServiceStart = TRUE
  Seeded = TRUE
  Transactions = TRUE
  None = None
  Absent = Absent
  MaxCommands = 6
  MaxCrashes = 0
INVARIANT WithinEntitlement
CHECK_DEADLOCK FALSE
