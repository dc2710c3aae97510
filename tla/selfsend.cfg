SPECIFICATION Spec
CONSTANTS
  Handlers = {h1}
  NoHandler = NoHandler
  Configs <- AlwaysOnly
  Requests = {"Stop", "Restart"}
  InitialRows = {"present"}
  MaxStarts = 1
  DbMayFail = FALSE
INVARIANT LoopDoesNotLockUp
CHECK_DEADLOCK FALSE
