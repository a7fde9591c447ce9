SPECIFICATION Spec
CONSTANTS
  n1 = n1
  n2 = n2
  h1 = h1
  h2 = h2
  pushed = pushed
  unattributed = unattributed
  dev = dev
  s1 = s1
  s2 = s2
  None = None
  Retired = Retired
  Jobs = {pushed}
  RunsEverywhere = {pushed}
  Unready = {}
  Runners <- MCRunners
  Hosts <- MCHosts
  HostOf <- MCHostOf
  JobSource <- MCJobSource
  AcceptedSources <- MCAcceptedSources
  Sessions <- MCSessions
  Verdicts = {"pass", "fail"}
  MaxRuns = 1
  ChanCap = 1
  MaxFaults = 2
SYMMETRY SessionSymmetry
INVARIANTS
  NoMutualWait
PROPERTIES
  ReaperSparesHeldRuns
  ReapedIsFinal
  ImplementsLedger
