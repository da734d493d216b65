CONSTANTS
  Services = {a}
  MaxReplicas = 1
  Callers = {c1}
  Probes = {"liveness","readiness"}
  Threshold = 2
  MaxCalls = 2
  MaxFaults = 1
  MaxCrashes = 0
  NoInfo = NoInfo
SPECIFICATION Spec
INVARIANTS StatesTracked
PROPERTIES StalledIsRevived CallsAnswered
CHECK_DEADLOCK FALSE
