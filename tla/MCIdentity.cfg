SPECIFICATION IdentitySpec
CONSTANTS
  Zones = {"shelf"}
  NoZone = NoZone
  ProductZones = {"shelf"}
  Looks <- MCPeople
  NoLook = NoLook
  Similarity <- MCSimilarity
  ZoneTransition <- MCZoneTransition
  CameraTransition <- MCCameraTransition
  Bell <- MCBell
  Retain <- MCRetain
  CameraOrder <- MCOrder
  EntryCamera = "door"
  Adjacent <- MCAdjacent
  Spot <- MCSpot
  People <- MCPeople
  LookOf <- MCLookOf
  MaxTrack = 2
  MaxVisitor = 3
  MaxRound = 3
  Step = 5
  PurgeEvery = 2
  GhostMax = 2
  EvidenceMax = 2
  MaxExits = 2
  NoPassport = NoPassport
  NoOne = NoOne
CHECK_DEADLOCK FALSE
INVARIANT IdentityConsistent
INVARIANT ExitsRemembered
PROPERTY RecognisedSafely
PROPERTY KeepsLedger
