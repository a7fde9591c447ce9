SPECIFICATION FairSpec
CONSTANTS
  MaxRuns = 2
  Remotes = 2
  MaxFaults = 2
INVARIANTS
  TypeOK
  RecordedIsTold
  ToldOnce
  
  OnlyMailLosesResults
PROPERTIES
  ReportsAreRecorded
CHECK_DEADLOCK FALSE
