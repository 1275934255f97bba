SPECIFICATION Spec
CONSTANTS
  p1 = p1
  p2 = p2
  NoProduct = NoProduct
  Products = {p1, p2}
  Jobs = 2
  MaxRounds = 6
  Surprises = 2
SYMMETRY Symmetry
INVARIANTS
  TypeOK
  OrdersKept
PROPERTIES
  ImplementsOrdering
CHECK_DEADLOCK FALSE
