\* A visit with re-entries, delivered in every order with repetitions.
SPECIFICATION FairSpec
CONSTANTS
  s1 = s1
  s2 = s2
  v1 = v1
  v2 = v2
  zBilling = zBilling
  zFloor = zFloor
  Stores <- MCStores
  Visitors <- MCVisitors
  Zones <- MCZones
  BillingQueue = zBilling
  NoZone = NoZone
  NoTime = NoTime
  Malformed = Malformed
  Events <- MCEvents
  Requests <- MCRequests
  Skewed <- MCSkewed
  Raising <- MCRaising
INVARIANT TypeOK
INVARIANT ActiveMatchesOpen
INVARIANT ReentryLedger
INVARIANT SessionsMatchLog
INVARIANT StoredOnce
PROPERTY PartialSuccess
PROPERTY SessionizerRefined
