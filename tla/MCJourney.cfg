SPECIFICATION JourneySpec
CONSTANTS
  v1 = v1
  t1 = t1
  Visitors = {v1}
  Tracks = {t1}
  TrackOwner <- MCOwner
  Zones <- MCZones
  NoZone = NoZone
  QueueZone = "queue"
  BillingQueue = "queue"
  Role <- MCRole
  CameraOrder <- MCOrder
  EntryCamera = "entry"
  BillingCamera = "billing"
  Away = Away
  Hidden = Hidden
  MinCrossFrames = 2
  MinQueueDwell = 1
  PosWindow = 1
  DwellInterval = 2
  MinBrowseDwell = 1
  Clothing = {0, 54, 80}
  ScoreWindow = 3
  FewFrames = 2
  BlackShare = 55
  Threshold = 65
  Weight <- MCWeight
  ManyFrames = 4
  ManyZones = 2
  ManyCameras = 1
  ClothingEvery = 2
  Places <- MCPlaces
  View <- MCView
  Paths <- MCPaths
  Outside = "street"
  MaxTime = 5
CHECK_DEADLOCK FALSE
INVARIANT CrossingsAlternate
INVARIANT BehaviorFollowsVisitor
INVARIANT StaffVerdictSound
PROPERTY DebouncedOnLine
