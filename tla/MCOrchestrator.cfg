CONSTANTS
  Services = {a}
  MaxReplicas = 2
  Callers = {c1,c2}
  Probes = {}
  Threshold = 2
  MaxCalls = 3
  MaxFaults = 1
  MaxCrashes = 1
  NoInfo = NoInfo
SPECIFICATION Spec
INVARIANTS TypeOK BooksAgree RotationInRange
PROPERTIES RollbackOnlyOwn
CHECK_DEADLOCK FALSE
