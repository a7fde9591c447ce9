SPECIFICATION FairSpec
CONSTANTS
  v1 = v1
  Chunks = 4
  PipeCap = 2
  Viewers <- MCViewers
  MaxFaults = 2
INVARIANTS
  TypeOK
  CompleteIsWhole
PROPERTIES
  UploadsSettle
  OutputDrains
  TailsEnd
CHECK_DEADLOCK FALSE
