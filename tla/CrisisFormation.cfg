SPECIFICATION MCSpec
CONSTANTS
  ReportIds = {1, 2, 3}
  s1 = s1
  s2 = s2
  s3 = s3
  a1 = a1
  a2 = a2
  b1 = b1
  c0 = c0
  e1 = e1
  e2 = e2
  e3 = e3
  Submitters = {s1, s2, s3}
  NoSubmitter = NoSubmitter
  NoSpot = NoSpot
  Areas = {a1, a2}
  NoArea = NoArea
  Buildings = {b1}
  NoBuilding = NoBuilding
  Declared = {c0}
  Emergent = {e1, e2, e3}
  NoCrisis = NoCrisis
  NoRow = NoRow
  Never = Never
  Drafts <- MCDrafts
  Boards <- MCBoards
  MinReports = 2
  Radius = 2
  Window = 4
  Grace = 1
  PinSlack = 1
  Workers = {w1, w2}
  MaxFaults = 1
  MaxChanges = 2
SYMMETRY Symm
INVARIANTS
  UndisturbedFormation
  ReleasedStaysReleased
  ScopeHasReport
  NoClusterMissed
