SPECIFICATION Spec
CONSTANTS
  MaxUsers = 2
  MaxBudget = 2
  Parts = 1
INVARIANTS
  CapKept
