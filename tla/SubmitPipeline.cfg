SPECIFICATION Spec
CONSTANTS
  ReportIds = {1, 2, 3}
  Keys = {1, 2, 3}
  d1 = d1
  d2 = d2
  Devices = {d1, d2}
  NoDevice = NoDevice
  NoSpot = NoSpot
  NoRow = NoRow
  NoReport = NoReport
  Drafts <- MCDrafts
  Workers = {w1, w2}
  BurstMax = 1
  BurstWindow = 0
  SustainedMax = 2
  SustainedWindow = 1
  DedupRadius = 2
  DedupWindow = 2
  MaxNow = 1
  MaxFaults = 1
SYMMETRY Symm
INVARIANTS
  RateOvershootBounded
  ReplaysRecognised
  NearDuplicatesBounded
