SPECIFICATION Spec
CONSTANTS
  User = {1, 2}
  MaxPoints = 2
  MaxItems = 3
  Repetitions = 2
  MaxSweeps = 2
INVARIANTS
  ReportHonest
  Comparable
PROPERTIES
  NeverRewritten
