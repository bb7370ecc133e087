SPECIFICATION Spec
CONSTANTS
  i1 = i1
  i2 = i2
  p1 = p1
  p2 = p2
  r1 = r1
  r2 = r2
  acme = acme
  None = None
  Requests = {r1, r2}
  Invoices = {i1, i2}
  Payments = {p1}
  Parties = {acme}
  KindOf <- OneClient
  Ops <- NoHandVoid
  Alone <- Unprotected
  MaxAmount = 2
  MinTotal <- Credit
  MaxDay = 2
SYMMETRY Workers
INVARIANTS
  PaymentNeverOverspent
  LedgerAgrees
  PaymentJournalMirrors
  SentIsBooked
  StatusTellsBalance
  CancelledIsClear
