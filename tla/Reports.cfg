SPECIFICATION Spec
SYMMETRY Alike
CONSTANTS
  Shard = {s1, s2}
  s1 = s1
  s2 = s2
  Op = {add, search}
  add = add
  search = search
  MaxRequests = 2
  MaxClock = 3
  Interval = 2
  Known = {"timeout"}
  MaxCauses = 2
INVARIANTS
  RowsMatchSummary
  BacklogTrue
  SummaryTrue
