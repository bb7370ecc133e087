SPECIFICATION Spec
CONSTANTS
  w1 = w1
  w2 = w2
  d1 = d1
  d2 = d2
  d3 = d3
  plan = plan
  Workers = {w1, w2}
  Docs = {d1, d2, d3}
  Names = {plan}
  Sessions = {"app", "legacy"}
  ServiceKey = TRUE
  MaxMishaps = 2
SYMMETRY Alike
CHECK_DEADLOCK FALSE
INVARIANTS
  FilesStay
  NoOrphans
