SPECIFICATION Spec
CONSTANTS
  p1 = p1
  p2 = p2
  p3 = p3
  p4 = p4
  p5 = p5
  c1 = c1
  a = a
  b = b
  main = main
  tag = tag
  dev = dev
  admin = admin
  None = None
  Pushes = {p1, p3}
  Creates = {}
  Registered = {p1, p3}
  ShaOf <- MCShaOf
  RefOf <- MCRefOf
  SourceOf <- MCSourceOf
  MaxReruns = 1
  MaxFaults = 0
INVARIANTS
  RerunsBuildTheirCommit
CHECK_DEADLOCK FALSE
