SPECIFICATION Spec
CONSTANTS
  Task = {s1, s2, s3, s4}
  User <- MCUser
  Cap <- MCCap
  Uncapped = Uncapped
  NoTask = NoTask
  C = 1
  Q = 1
  SessionOps = 2
  Warmup = TRUE
  MaxArrivals = 5
SYMMETRY Sessions
INVARIANTS
  SlotInv
  AdmissionExact
  CongestionBound
  LanesExact
  ResultsAreMeasured
PROPERTIES
  RefusedOnlyWhenFull
  NoLateDispatch
