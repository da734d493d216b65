CONSTANTS
  Services = {a}
  MaxReplicas = 1
  Callers = {c1}
  Probes = {}
  Threshold = 2
  MaxCalls = 3
  MaxFaults = 0
  MaxCrashes = 0
  NoInfo = NoInfo
SPECIFICATION Spec
INVARIANTS DestroyLeavesNothing
CHECK_DEADLOCK FALSE
