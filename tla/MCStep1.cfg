SPECIFICATION SpecStep1
CONSTANTS
  Tools = {"render", "grounding", "capture"}
  Versions = {v1, v2}
  NoFile = NoFile
  Torn = Torn
  Unusable = Unusable
  NoRead = NoRead
  None = None
  x1 = x1
  x2 = x2
  a1 = a1
  a2 = a2
  f1 = f1
  f2 = f2
  d1 = d1
  d2 = d2
  chunk1 = chunk1
  chunk2 = chunk2
  Absent = Absent
  Link = Link
  Special = Special
  Marker = Marker
  Dirs = {d1, d2}
  Files = {f1, f2}
  Chunks = {chunk1, chunk2}
  MaximumBytes = 2
  MaxLength = 2
  MaxEdits = 3
  AnchorTexts <- AnchorFiles
  ApprovalTexts <- ApprovalFiles
  NoText = NoText
  CutShort = CutShort
  LastDay = 2
  MaxParses = 2
  MaxFileEdits = 1
  MaxFailures = 2
INVARIANTS
  CommitmentSound
  NoStaleReport
  ReportSound
  GroundingSound
  CaptureSound
