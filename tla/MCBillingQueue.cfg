SPECIFICATION BillingSpec
CONSTANTS
  Visitors = {v1, v2}
  MinQueueDwell = 2
  PosWindow = 3
  Away = Away
  Gaps = {1}
  MaxTime = 7
  MaxSales = 1
SYMMETRY Symmetric
CHECK_DEADLOCK FALSE
INVARIANT QueueEventsMatchFrames
INVARIANT CandidatesFlushed
