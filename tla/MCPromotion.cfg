SPECIFICATION SpecPromotion
CONSTANTS
  Tools = {"chain", "availability", "readiness", "step2"}
  a1 = a1
  a2 = a2
  None = None
  Blocked = Blocked
  e1 = e1
  e2 = e2
  q1 = q1
  q2 = q2
  b1 = b1
  h1 = h1
  h2 = h2
  Malformed = Malformed
  Other = Other
  Junk = Junk
  Partial = Partial
  Anchors <- ChainAnchors
  Registries <- ChainRegistries
  Memos <- ChainMemos
  LastDay = 2
  DayLimit = 3
  FreshDays = 0
  StaleDays = 1
  Universes = {1, 2}
  NoUniverse = 0
  Choices <- AvailChoices
  Compilations = {h1, h2}
  Facts <- H1Facts
  MaxEdits = 3
  LastReadyDay = 2
  PromotedHandoffs = {h1, h2}
  Packs = {1, 2}
  Buyable = {1}
  MaxRewrites = 3
  Entries = {e1, e2}
  Published <- Lh2Published
  Payloads = {q1, q2}
  Evidence <- Lh2Evidence
  Answers = {b1}
  Cites <- Lh2Cites
  MaxAgeDays = 0
  LastH1Day = 1
  NoFile = NoFile
  MaxRuns = 2
  MaxFaults = 1
SYMMETRY Symmetry
INVARIANTS
  PointerBacked
  CleanParseCurrent
  AuditNeedsThisStep2
  DecisionSound
  ReadinessSound
  H1ReportSound
PROPERTIES
  PromotedSpec
