SPECIFICATION PlanningSpec
CONSTANTS
  r1 = r1
  r2 = r2
  p1 = p1
  f1 = f1
  f2 = f2
  b1 = b1
  b2 = b2
  i1 = i1
  i2 = i2
  None = None
  Requests = {r1, r2}
  Projects = {p1}
  Phases = {f1, f2}
  Budgets = {b1, b2}
  Items = {i1, i2}
  MinValue <- Debt
  MaxValue = 2
  Places = {1, 2}
  MaxList = 2
  Workloads <- Separate
  Meetings <- Harmless
SYMMETRY Alike
CHECK_DEADLOCK FALSE
INVARIANTS
  WithinTotal
PROPERTIES
  PlacesAsAsked
  StatusesFollowTables
  ReordersEnd
