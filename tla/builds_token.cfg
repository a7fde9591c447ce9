SPECIFICATION Spec
CONSTANTS
  Names = {"size", "time"}
  Values = {v1, v2}
  MaxCalls = 3
  MaxFaults = 2
  None = None
INVARIANT ArtifactsAreTaken
CHECK_DEADLOCK FALSE
