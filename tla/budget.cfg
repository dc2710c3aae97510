SPECIFICATION Spec
CONSTANTS
  Handlers = {}
  NoHandler = NoHandler
  Configs <- BudgetedOnly
  Requests = {}
  InitialRows = {"present"}
  MaxStarts = 3
  DbMayFail = FALSE
INVARIANT BudgetKept
CHECK_DEADLOCK FALSE
