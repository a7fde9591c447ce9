SPECIFICATION Spec
CONSTANTS
  v1 = v1
  Chunks = 4
  PipeCap = 2
  Viewers <- MCViewers
  MaxFaults = 0
INVARIANTS
  LiveTailIsWhole
CHECK_DEADLOCK FALSE
