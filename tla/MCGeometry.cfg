SPECIFICATION GeometrySpec
CONSTANTS
  Input <- MCInput
  QuantUnit = 4
  Jobs <- MCJobs
  NoLine <- MCNoLine
  Pending = Pending
  NoMapping = NoMapping
  Null = Null
  NoCode = NoCode
  OutsideWGS84 = OutsideWGS84
  maxRouteZoom = 3
  maxRouteRadius = 1
  DefaultRouteSyncMaxTiles = 16
  tileExtent = 4
INVARIANTS
  CorridorFollowsRoute
  RingsUseEveryWay
  BoundaryKeepsItsArea
  MembersAreAccounted
  TerritoriesCoverTheirMembers
  OverlapsAreFound
  SignatureIdentifiesRing
  CommandsDrawTheFeature
PROPERTY
  ImplementsGeneralization
CHECK_DEADLOCK FALSE
