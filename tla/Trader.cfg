CONSTANTS
  a = a
  b = b
  Requests = {a, b}
  Size <- MCSize
  MaxOrders = 2
  Rates = {low, high}
  NoRate = NoRate
  Capacities = {2, 3}
  Requirements = {1, 2}
  MaxReserve = 2
  MaxChanges = 2
  MaxExtra = 1
  MaxComing = 2
SPECIFICATION Spec
CONSTRAINT Instances
INVARIANTS HoldsAreExact QuoteIsBacked SpentOnlyOnOwed
CHECK_DEADLOCK FALSE
SYMMETRY Interchangeable
