SPECIFICATION PricingSpec
CONSTANTS
  n1 = n1
  n2 = n2
  t1 = t1
  Null = Null
  Lines = {n1, n2}
  Taxes = {t1}
  Quantities <- HalvesAndWholes
  Prices = {1, 3}
  Discounts = {0, 2}
  Charges = {0, 1, 3}
  Rates = {0, 50}
SYMMETRY Alike
CHECK_DEADLOCK FALSE
INVARIANTS
  HeaderAddsUp
  BillsAreBooked
