SPECIFICATION Spec
CONSTANTS
  c1 = c1
  d1 = d1
  d2 = d2
  d3 = d3
  Docs <- TwoDocs
  Callers <- OneCaller
  None = None
  Absent = Absent
  MaxCommands = 4
  MaxFailures = 0
  MaxCrashes = 0
PROPERTIES SweepSparesProtected
CHECK_DEADLOCK FALSE
