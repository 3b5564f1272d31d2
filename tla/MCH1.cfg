SPECIFICATION SpecH1
CONSTANTS
  Tools = {"handoff", "case"}
  Absent = Absent
  None = None
  s1 = s1
  s2 = s2
  p1 = p1
  p2 = p2
  c1 = c1
  c2 = c2
  r1 = r1
  r2 = r2
  t1 = t1
  t2 = t2
  v1 = v1
  v2 = v2
  Edited = Edited
  Junk = Junk
  Unfilled = Unfilled
  NoLeaf = NoLeaf
  Processes = {c1, c2}
  Versions = {v1, v2}
  Original = v1
  Replies = {r1, r2}
  MaxEdits <- CaseEdits
  Strategies <- HandoffStrategies
  Portfolios <- HandoffPortfolios
  AsOf <- HandoffAsOf
  Dated <- HandoffDated
  Texts = {t1, t2}
  FreshDays = 1
  StaleDays = 2
  LastDay = 3
  MaxPrepared = 2
SYMMETRY Symmetry
INVARIANTS
  ClaimSound
  ClaimWithinPeriod
  CaseSound
PROPERTIES
  ClaimSpec
