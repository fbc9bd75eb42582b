SPECIFICATION Spec
CONSTANTS
  MaxUsers = 4
  MaxBudget = 3
  Parts = 3
INVARIANTS
  LoadDivided
  GroupsExact
