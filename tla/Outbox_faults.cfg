\* Two application processes, leases that run out, crashes, database errors.
SPECIFICATION Spec
CONSTANTS
  d1 = d1
  d2 = d2
  NoKey = NoKey
  NoEvent = NoEvent
  Events <- MCEvents
  KeyOf <- MCKeyOf
  Dispatchers <- TwoDispatchers
  Subscribers = 2
  MaxAttempts = 2
  BatchSize = 2
  MayOverrun = TRUE
  FaultKinds = {"stop", "dberror"}
  MaxFaults = 2
SYMMETRY Symmetry
INVARIANTS TypeOK SentMeansDelivered ExclusivePublication RetryBudgetAgrees AttemptsBounded
CHECK_DEADLOCK FALSE
