SPECIFICATION SpecReview
CONSTANTS
  Tools = {"v1", "replacement", "shadow"}
  None = None
  voo = voo
  smh = smh
  ext = ext
  v1 = v1
  v2 = v2
  bad = bad
  p1 = p1
  p2 = p2
  p3 = p3
  Commands = {p1, p2, p3}
  SourceVersions = {v1, v2, bad}
  Invalid = {bad}
  Original = v1
  Memos = {m1}
  Blank = Blank
  Absent = Absent
  MaxEdits = 2
  Publishers = {p1, p2}
  Texts = {t1}
  MaxAnswers = 3
  Parts = 20
  Cent = 4000
  Core = {voo}
  Satellite = {smh}
  Others = {ext}
  Priority <- ReviewPriority
  Strategies <- ReviewStrategies
  Portfolios <- ReviewPortfolios
  Ceilings <- ReviewCeilings
  Fractions <- ReviewFractions
  Close <- ReviewClose
  Unresolved = "UNRESOLVED"
  MaxPublished = 1
INVARIANTS
  ReviewSound
  GenerationsSound
  ShadowSound
