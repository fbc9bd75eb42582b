SPECIFICATION Spec
CONSTANTS
  c1 = c1
  c2 = c2
  Client = {c1, c2}
  Common = Common
  Batches = 2
  Retries = 1
  MaxFaults = 2
SYMMETRY Processes
INVARIANTS
  NotPulledAway
  CorpusLoaded
  ErrorsTrue
  FoundStays
  NothingLeft
