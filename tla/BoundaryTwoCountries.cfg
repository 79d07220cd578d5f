SPECIFICATION Spec
CONSTANTS
  c1 = c1
  c2 = c2
  p1 = p1
  p2 = p2
  p3 = p3
  r1 = r1
  r2 = r2
  r3 = r3
  ReportIds = {r1, r2, r3}
  Points = {p1, p2}
  Countries = {c1, c2}
  NoCountry = NoCountry
  Atlas <- Border
  At <- TwoAndOne
  Worlds <- IsPublished
  Boot = Boot
  MaxFaults = 0
CHECK_DEADLOCK FALSE
INVARIANT
  AreasUpToDate
