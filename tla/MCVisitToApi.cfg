SPECIFICATION VisitSpec
CONSTANTS
  v1 = v1
  t1 = t1
  t2 = t2
  s1 = s1
  Stores = {s1}
  Store = s1
  Visitors = {v1}
  Zones <- MCZones
  BillingQueue = "queue"
  QueueZone = "queue"
  NoZone = NoZone
  NoTime = NoTime
  Away = Away
  Events = {}
  Tracks = {t1, t2}
  TrackOwner <- MCOwner
  MinCrossFrames = 2
  MinQueueDwell = 1
  DwellInterval = 2
  PosWindow = 3
  CameraOrder <- MCOrder
  EntryCamera = "entry"
  BillingCamera = "billing"
  Places <- MCPlaces
  View <- MCView
  Hidden = Hidden
  Adjacent <- MCAdjacent
  Paths <- MCPaths
  Outside = "street"
  Missable = {v1}
  StaffFlags = {FALSE}
  MaxTime = 6
SYMMETRY MCSymmetry
CHECK_DEADLOCK FALSE
INVARIANT ClockMatchesZone
INVARIANT VisitMatchesSession
INVARIANT NoDwellLost
INVARIANT ReentriesFollowExits
