SPECIFICATION Spec
CONSTANTS
  Handlers = {h1}
  NoHandler = NoHandler
  Configs <- BudgetedOrDisabled
  Requests = {"Refresh"}
  InitialRows = {"present"}
  MaxStarts = 1
  DbMayFail = FALSE
INVARIANT RefreshLoadsUpdate
CHECK_DEADLOCK FALSE
