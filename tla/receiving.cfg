SPECIFICATION Spec
CONSTANTS
  o1 = o1
  l1 = l1
  l2 = l2
  m1 = m1
  w1 = w1
  w2 = w2
  r1 = r1
  r2 = r2
  None = None
  Requests = {r1, r2}
  OpsOf <- OneBuyer
  Orders = {o1}
  Lines = {l1, l2}
  Materials = {m1}
  Warehouses = {w1, w2}
  MaterialOf <- OneMaterial
  MaxQuantity = 2
  MaxBalance = 2
SYMMETRY Alike
INVARIANTS
  StockMatchesLedger
  NeverOverReceived
  StatusTellsReceipts
PROPERTIES
  ReceiptsReachStock
  TransfersConserve
  SubmittedLinesStay
