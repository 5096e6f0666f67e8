SPECIFICATION Spec
CONSTANTS
  r1 = r1
  r2 = r2
  c1 = c1
  c2 = c2
  a1 = a1
  a2 = a2
  p1 = p1
  p2 = p2
  None = None
  Absent = Absent
  Opening = Opening
  Records <- TwoRecords
  Callers <- TwoCallers
  Actors <- TwoActors
  Payloads <- OnePayload
  KindOf <- AllOther
  Transactions = TRUE
  MaxRevisions = 0
  MaxDocuments = 0
  MaxCommands = 7
  MaxCrashes = 0
PROPERTIES ApprovedImmutable
CHECK_DEADLOCK FALSE
