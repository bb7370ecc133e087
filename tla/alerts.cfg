SPECIFICATION Spec
CONSTANTS
  r1 = r1
  r2 = r2
  ann = ann
  s1 = s1
  Runs = {r1}
  Requests = {r2}
  Users = {ann}
  Subjects = {s1}
  MaxDay = 1
  Window = 1
  MaxDeaths = 1
INVARIANTS
  NoDuplicatePending
PROPERTIES
  Reminded
