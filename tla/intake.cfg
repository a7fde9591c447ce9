SPECIFICATION Spec
CONSTANTS
  p1 = p1
  p2 = p2
  p3 = p3
  p4 = p4
  p5 = p5
  c1 = c1
  a = a
  b = b
  main = main
  tag = tag
  dev = dev
  admin = admin
  None = None
  Pushes = {p1, p2, p3, p4, p5}
  Creates = {c1}
  Registered = {p1, p2, p3, p4}
  ShaOf <- MCShaOf
  RefOf <- MCRefOf
  SourceOf <- MCSourceOf
  MaxReruns = 1
  MaxFaults = 1
INVARIANTS
  TypeOK
  OneJobPerCommit
  JobsBuildTheirPush
  PagesRender
  PushIsQueued
PROPERTIES
  ImplementsCommits
CHECK_DEADLOCK FALSE
