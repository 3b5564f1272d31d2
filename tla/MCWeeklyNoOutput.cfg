\* Checks the claim of the runbook on research without output alone.
SPECIFICATION SpecWeekly
CONSTANTS
  Tools = {"week"}
  Versions = {v1, v2}
  MaxBlocks = 0
  None = None
  t1 = t1
  t2 = t2
  Start <- DayStart
  Editable <- DayInputs
  Markets <- DayMarkets
  Answers <- DayAnswers
  MaxWrites = 2
  MaxCommands = 2
  LastDay = 2
  MaxChanges = 2
  Missing = Missing
  Torn = Torn
  Blank = Blank
INVARIANTS
  NoOutputFailsClosed
