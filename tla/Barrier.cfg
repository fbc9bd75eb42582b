SPECIFICATION FairSpec
CONSTANTS
  Shard = {s1, s2}
  HooksMayFail = TRUE
  ShardsMayDie = TRUE
INVARIANTS
  WindowCovered
PROPERTIES
  WindowSpec
  ParentEnds
CHECK_DEADLOCK FALSE
