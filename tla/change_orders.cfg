SPECIFICATION Spec
CONSTANTS
  r1 = r1
  r2 = r2
  p1 = p1
  p2 = p2
  c1 = c1
  c2 = c2
  None = None
  Requests = {r1, r2}
  Sent <- TwoDesks
  Projects = {p1, p2}
  Orders = {c1, c2}
  Numbers = {1, 2}
  Amounts <- FewAmounts
  Values <- FewValues
INVARIANTS
  ContractAgrees
  NumbersUnique
PROPERTIES
  DecisionsStick
