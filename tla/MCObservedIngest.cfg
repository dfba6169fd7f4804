SPECIFICATION WatchSpec
CONSTANTS
  Stores = {"s1", "s2"}
  Visitors = {"v", "w"}
  Zones = {"shelf", "queue"}
  BillingQueue = "queue"
  NoZone = NoZone
  NoTime = NoTime
  Events <- MCEvents
  Cameras = {"door", "floor", "queue"}
  Detail <- MCDetail
  NoValue = NoValue
  CamNumber <- MCCamNumber
  EntryCameras = {"door"}
  StaffMin = 2
  WarningCap = 3
  NoSight = NoSight
  CalibrateEvery = 2
  Window <- MCWindow
  Needed <- MCNeeded
  MaxReplays = 1
CHECK_DEADLOCK FALSE
INVARIANT WatchConsistent
INVARIANT WarningsFollowLog
INVARIANT TimelineTellsLog
PROPERTY TrustIsCautious
