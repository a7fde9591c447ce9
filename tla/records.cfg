SPECIFICATION Spec
CONSTANTS
  s1 = s1
  s2 = s2
  s3 = s3
  desktop = desktop
  board = board
  None = None
  Runs = {1}
  Sessions = {s1, s2, s3}
  MachineOf <- MCMachineOf
  FreqsOf <- MCFreqs
  Metrics <- MCMetrics
  Moments <- MCMoments
  MaxArtifacts = 1
  Wrap = 1000000000
INVARIANTS
  TypeOK
  ShownTimesAreReal
  DurationsReadBack
  OwnArtifactsAreShown
  MetricsKeepOrder
  SoleRunsReadRight
  HostRowsHold
CHECK_DEADLOCK FALSE
