SPECIFICATION Spec
CONSTANTS
  c1 = c1
  d1 = d1
  d2 = d2
  d3 = d3
  Docs <- ThreeDocs
  Callers <- OneCaller
  None = None
  Absent = Absent
  MaxCommands = 6
  MaxFailures = 1
  MaxCrashes = 1
INVARIANTS TypeOK StoresAgree SupersededRetired
PROPERTIES HoldRespected LockSticks HistoryKept
CHECK_DEADLOCK FALSE
SYMMETRY Names
