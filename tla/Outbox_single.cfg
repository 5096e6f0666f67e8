SPECIFICATION FairSpec
CONSTANTS
  d1 = d1
  d2 = d2
  NoKey = NoKey
  NoEvent = NoEvent
  Events <- MCEventsWithKey
  KeyOf <- MCKeyOf
  Dispatchers <- OneDispatcher
  Subscribers = 2
  MaxAttempts = 2
  BatchSize = 2
  MayOverrun = TRUE
  FaultKinds = {"stop"}
  MaxFaults = 2
PROPERTIES ImplementsDelivery EmittedSettles
CHECK_DEADLOCK FALSE
