\* The ingest endpoint with POS correlation: every order, batching and
\* repetition of a customer's visit and a cashier's queue event.
SPECIFICATION ApiSpec
CONSTANTS
  s1 = s1
  s2 = s2
  v1 = v1
  v2 = v2
  zBilling = zBilling
  zFloor = zFloor
  Stores <- MCStores
  Visitors <- MCVisitors
  Zones <- MCZones
  BillingZones <- MCBillingZones
  BillingQueue = zBilling
  BillingWindow = 300
  PosTimes <- MCPosTimes
  Unparsed = Unparsed
  NoZone = NoZone
  NoTime = NoTime
  Malformed = Malformed
  Events <- MCEvents
  Requests <- MCRequests
  Skewed <- NoEvents
  Raising <- NoEvents
INVARIANT ConvertedJustified
INVARIANT CandidateJustified
INVARIANT FunnelNarrows
INVARIANT CorrelationSettled
PROPERTY ClosedOnlyPromoted
PROPERTY ResendChangesNothing
