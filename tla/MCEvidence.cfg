SPECIFICATION SpecEvidence
CONSTANTS
  p1 = p1
  p2 = p2
  first = first
  second = second
  nameless = nameless
  broken = broken
  id = id
  None = None
  Procs = {p1, p2}
  Sources = {first, second, nameless, broken}
  Malformed = {broken}
  Quarantined = {second}
  IdOf <- ArchiveIds
  Replacements = 1
SYMMETRY Symmetry
INVARIANTS
  ArchiveSound
PROPERTIES
  OutcomeHonest
  CleanSound
  StoreSpec
