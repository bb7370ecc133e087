SPECIFICATION Spec
CONSTANTS
  i1 = i1
  i2 = i2
  x1 = x1
  x2 = x2
  r1 = r1
  r2 = r2
  None = None
  Requests = {r1, r2}
  Invoices = {i1, i2}
  Items = {x1, x2}
  MaxAmount = 2
  Ops <- Everything
  Alone <- NotSideBySide
SYMMETRY Symmetry
INVARIANTS
  TotalsFollowItems
PROPERTIES
  SentItemsStay
