SPECIFICATION FairSpec
CONSTANTS
  t1 = t1
  t2 = t2
  t3 = t3
  Task <- MCTask
  PlanLength <- MCShortAndLong
  NoTask = NoTask
  C = 2
  Ops = 4
  Timed = FALSE
  Warmup = TRUE
INVARIANTS
  ReservationsKept
  ExactlyOps
PROPERTIES
  BudgetSpec
