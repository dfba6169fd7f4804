SPECIFICATION BillingSpec
CONSTANTS
  Visitors = {v1}
  MinQueueDwell = 2
  PosWindow = 4
  Away = Away
  Gaps = {1}
  MaxTime = 8
  MaxSales = 1
SYMMETRY Symmetric
CHECK_DEADLOCK FALSE
INVARIANT PaidIsNoAbandon
