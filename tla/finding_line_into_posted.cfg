SPECIFICATION Spec
CONSTANTS
  r1 = r1
  r2 = r2
  e1 = e1
  e2 = e2
  k1 = k1
  k2 = k2
  cash = cash
  cost = cost
  sales = sales
  s1 = s1
  s2 = s2
  s3 = s3
  None = None
  Requests = {r1, r2}
  Expenses = {e1}
  Entries = {k1, k2}
  Slots = {s1, s2, s3}
  Accounts = {cash, cost}
  Cash = cash
  BucketOf <- Types
  MaxAmount = 2
  Entered <- Pounds
  MoveInto = {"DRAFT", "POSTED"}
  Ops <- DraftAndMove
  Alone <- DraftAndMove
SYMMETRY Alike
INVARIANT PostedBalances
