SPECIFICATION Spec
CONSTANTS
  Names = {"size", "time"}
  Values = {v1, v2}
  MaxCalls = 3
  MaxFaults = 2
  None = None
INVARIANTS
  TypeOK
  PassIsEarned
  MetricsPrecedeResult
  SilentEndsHaveACause
PROPERTIES
  BothEndsLetGo
CHECK_DEADLOCK FALSE
