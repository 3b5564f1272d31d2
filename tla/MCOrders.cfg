SPECIFICATION SpecOrders
CONSTANTS
  Tools = {"publish", "validator", "text", "response", "object", "approval", "statement"}
  Texts = {t1, t2, t3}
  None = None
  Torn = Torn
  r = r
  a = a
  b = b
  Damaged = Damaged
  Absent = Absent
  Tickers = {a, b}
  Base = {a}
  Extended = {b}
  Settings <- SettingsChoices
  PlanChoices <- Plans2
  RowChoices <- Rows2
  BudgetChoices = {3}
  MaxPlans = 2
  MaxRows = 2
  MaxOpen = 4
  Tolerance = 1
  Leaf = Leaf
  Odd = Odd
  Raws <- StatementInputs
  OtherRaws <- OtherStatements
  MaxBytes = 3
  Documents <- ApprovalInputs
  OtherDocuments <- OtherApprovals
  LowerCase <- LowerCases
  SourceIds = {"a", "b"}
  MaxAliases = 2
  MaxPermissions = 2
INVARIANTS
  PublicationSound
  OpenSound
  TextsMeetGrammar
  ResponseSound
  ObjectSound
  ApprovalSound
  StatementSound
PROPERTIES
  StoreSpec
  NewMoneyBounded
