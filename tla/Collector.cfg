SPECIFICATION FairSpec
CONSTANTS
  Interval = 2
  Edges = {1, 3}
  Inf = 9
  MaxClock = 4
  MaxServed = 2
  MaxRestarts = 1
INVARIANTS
  SnapshotsSound
  DeltasSound
  QuantilesSound
PROPERTIES
  NoCatchUp
  EndReturns
