SPECIFICATION Spec
CONSTANTS
  ReportIds = {1, 2, 3}
  b1 = b1
  b2 = b2
  Buildings = {b1, b2}
  Keys = {1, 2, 3}
  Damages = {1, 2, 3}
  Drafts <- MCDrafts
  NoBuilding = NoBuilding
  NoReport = NoReport
  NoRow = NoRow
  NoDamage = NoDamage
  Requests = {q1, q2, q3}
  Takedowns = {w1}
  Strangers = {}
INVARIANT
  DamageIsNewest
