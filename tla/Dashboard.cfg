SPECIFICATION DashSpec
CONSTANTS
  ReportIds = {1, 2, 3, 4}
  CapturedAt <- MCCapturedAt
  PageSize = 2
  Cap = 3
  NoCursor = NoCursor
  Keys <- MCKeys
  Snake <- MCSnake
  Unsafe = {"9lives"}
  Reserved = {"fid", "geom"}
  Prefixed <- MCPrefixed
  Stable = {"electricity", "health_services", "pressing_needs"}
  Fixed <- MCFixed
  Keywords = {"order"}
  Longitude <- MCLongitude
  Tier <- MCTier
  PlaceOf <- MCPlaceOf
  NoPlace = NoPlace
  Cell <- MCCell
  BuildingOf <- MCBuildingOf
  NoBuilding = NoBuilding
  Started = 0
  Clocks = {1, 14, 48, 49, 800}
  RecentSize = 2
  PinCap = 2
  MaxChanges = 3
INVARIANTS
  EachOnce
  WalkComplete
  QuietPagesComplete
  WholeFileIsOneMoment
  ColumnsFit
  ContainerWholeOrRefused
  OverviewAddsUp
  MapAgrees
