SPECIFICATION FairSpec
CONSTANTS
  n1 = n1
  n2 = n2
  h1 = h1
  h2 = h2
  pushed = pushed
  unattributed = unattributed
  dev = dev
  s1 = s1
  s2 = s2
  None = None
  Retired = Retired
  Jobs = {unattributed}
  RunsEverywhere = {}
  Unready = {}
  Runners = {n1}
  Hosts <- MCHosts
  HostOf <- MCHostOfOne
  JobSource <- MCJobSource
  AcceptedSources <- MCAcceptedSources
  Sessions <- MCSessions
  Verdicts = {"fail"}
  MaxRuns = 2
  ChanCap = 1
  MaxFaults = 1
PROPERTIES
  PendingIsTaken
  StartedIsSettled
