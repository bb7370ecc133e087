SPECIFICATION AccountsSpec
CONSTANTS
  r1 = r1
  r2 = r2
  u1 = u1
  u2 = u2
  l1 = l1
  None = None
  Workers = {r1, r2}
  Usernames = {u1, u2}
  Links = {l1}
  MaxPasswords = 2
  MaxLogins = 1
  Channels = {"cookie"}
  Workloads <- Work
  Meetings <- Harmless
  Sharing <- Together
  MayDie <- BeforeSaving
SYMMETRY Alike
INVARIANTS
  OwnerRemains
  LinkWorksOnce
  TrailTellsRow
