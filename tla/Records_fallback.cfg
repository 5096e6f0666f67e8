SPECIFICATION Spec
CONSTANTS
  r1 = r1
  r2 = r2
  c1 = c1
  c2 = c2
  a1 = a1
  a2 = a2
  p1 = p1
  p2 = p2
  None = None
  Absent = Absent
  Opening = Opening
  Records <- TwoRecords
  Callers <- OneCaller
  Actors <- TwoActors
  Payloads <- TwoPayloads
  KindOf <- TerminationAndEngagement
  Transactions = FALSE
  MaxRevisions = 1
  MaxDocuments = 0
  MaxCommands = 10
  MaxCrashes = 1
SYMMETRY SerialSymmetry
INVARIANTS TypeOK ChainLinear TerminationSticks
PROPERTIES ApprovedImmutable ImplementsLedger
CHECK_DEADLOCK FALSE
