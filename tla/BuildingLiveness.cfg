SPECIFICATION MCSpec
CONSTANTS
  ReportIds = {1, 2}
  q1 = q1
  q2 = q2
  b1 = b1
  b2 = b2
  Buildings = {b1, b2}
  Keys = {1, 2}
  Damages = {1, 2}
  Drafts <- MCDrafts
  NoBuilding = NoBuilding
  NoReport = NoReport
  NoRow = NoRow
  NoDamage = NoDamage
  Requests = {q1, q2}
  Takedowns = {w1}
  Strangers = {}
  Files <- MCFiles
  BatchN = 2
  MaxLoads = 2
INVARIANT
  BatchBounded
PROPERTIES
  RequestsOutliveIngest
  IngestEnds
  LoadSpec
