\* Live requests, crashes, replays of the file and of the in-memory store.
SPECIFICATION MCReplaySpec
CONSTANTS
  s1 = s1
  s2 = s2
  s3 = s3
  v1 = v1
  v2 = v2
  zBilling = zBilling
  zFloor = zFloor
  Stores <- MCStores
  Visitors <- MCVisitors
  Zones <- MCZones
  BillingZones <- MCBillingZones
  BillingQueue = zBilling
  BillingWindow = 300
  PosTimes <- MCPosTimes
  Unparsed = Unparsed
  NoZone = NoZone
  NoTime = NoTime
  Malformed = Malformed
  NoResult = NoResult
  Events <- MCEvents
  Requests <- MCRequests
  File <- MCFile
  Skewed <- NoEvents
  Raising <- NoEvents
INVARIANT ReplayRebuildsSessions
INVARIANT ConsistentAcrossResets
PROPERTY ReplayReproducible
