SPECIFICATION FairSpec
CONSTANTS
  i1 = i1
  i2 = i2
  p1 = p1
  p2 = p2
  r1 = r1
  r2 = r2
  acme = acme
  None = None
  Requests = {r1, r2}
  Invoices = {i1}
  Payments = {p1, p2}
  Parties = {acme}
  KindOf <- OneSupplier
  Ops <- PayAndVoid
  Alone <- Nothing
  MaxAmount = 2
  MinTotal <- Credit
  MaxDay = 1
INVARIANTS
  AtMostOneLiveEntry
  CashWithinPayment
  ReadIsCurrent
PROPERTIES
  AllocationFitsInvoice
  JournalIsLedger
  AllocationsFinish
