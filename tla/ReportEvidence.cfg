SPECIFICATION Spec
CONSTANTS
  ReportIds = {r1, r2}
  NameOf <- SameName
  NoRow = NoRow
  Uploads = {u1, u2}
  Takedowns = {t1}
  Analysts = {a1, a2}
  MaxPosts <- Posts
  MaxDecisions <- Decisions
  MaxFaults = 1
SYMMETRY Symm
INVARIANTS
  AuditIsChained
  VerifiedHasPhoto
  NoOrphanPhoto
  RecordedPhotoIsWhole
