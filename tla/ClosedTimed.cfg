SPECIFICATION FairSpec
CONSTANTS
  t1 = t1
  t2 = t2
  t3 = t3
  Task <- MCTask
  PlanLength <- MCTwoEach
  NoTask = NoTask
  C = 1
  Ops = 3
  Timed = TRUE
  Warmup = TRUE
INVARIANTS
  BudgetRespected
PROPERTIES
  RunEnds
