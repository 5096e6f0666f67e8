SPECIFICATION Spec
CONSTANTS
  Requests = {q1, q2}
  Callers = {c1, c2}
  Fields = {"after_submission", "after_verification", "unrestricted"}
  FirstStages = {"APPROVED"}
  None = None
  Absent = Absent
  Old = Old
  MaxViews = 1
  MaxCommands = 2
SYMMETRY Symmetry
PROPERTIES LockedIsReadOnly
CHECK_DEADLOCK FALSE
