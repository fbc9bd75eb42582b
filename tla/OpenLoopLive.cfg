SPECIFICATION FairSpec
CONSTANTS
  Task = {s1, s2, s3, s4}
  User <- MCOneUser
  Cap <- MCNoCap
  Uncapped = Uncapped
  NoTask = NoTask
  C = 2
  Q = 1
  SessionOps = 2
  Warmup = FALSE
  MaxArrivals = 4
PROPERTIES
  RunEnds
  BoundedService
