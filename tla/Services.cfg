SPECIFICATION MCSpec
CONSTANTS
  None = None
  Absent = Absent
  c1 = c1
  clerk = clerk
  o2 = o2
  o1 = o1
  t1 = t1
  c2 = c2
  u1 = u1
  u2 = u2
  u3 = u3
  r1 = r1
  r2 = r2
  Old = Old
  Keep = Keep
  Callers <- TwoCallers
  Bounds <- SmallBounds
  Tasks <- OneTask
  Clerks <- OneClerk
  Lists <- Pair
  Rankings <- TwoRankings
  Officers <- ThreeOfficers
  Requests <- Pair
  Fields <- TwoFields
  FirstStages <- Approved
  Papers <- OneTask
  Drafts <- ThreeDrafts
  KeyOrder <- SixKeys
  Signers <- ThreeSigners
  People <- Pair
  Roles <- OneRole
  HeadRole = clerk
  Names <- TwoNames
  PayNames <- OnePayName
  BookParts <- TwoParts
  PayPart = "VII"
  RequestKeys <- OneRole
  MaxEvents = 2
  MaxAttempts = 2
  Offices <- Pair
  Employees <- TwoCallers
  OfficeCallers <- OneClerk
SYMMETRY Symmetry
INVARIANTS TypeOK HistoryExplains DutiesSeparated DecisionsKnown
INVARIANTS OutcomeAgrees ProjectionsCatchUp SignedMeansSealed AuthoritiesAgree
INVARIANTS BookFollows VersionsInLine HeldAsNamed
CHECK_DEADLOCK FALSE
