SPECIFICATION Spec
CONSTANTS
  Handlers = {h1}
  NoHandler = NoHandler
  Configs <- BudgetedOrDisabled
  Requests = {"Start", "Stop", "Restart", "Deleted", "Refresh"}
  InitialRows = {"present", "inserted"}
  MaxStarts = 1
  DbMayFail = FALSE
INVARIANTS TypeOK IdleSettled CrashNotSwallowed CleanupOnce
CHECK_DEADLOCK FALSE
