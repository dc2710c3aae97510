SPECIFICATION FairSpec
CONSTANTS
  Handlers = {h1}
  NoHandler = NoHandler
  Configs <- DisabledOnly
  Requests = {"Start", "Stop", "Restart", "Deleted"}
  InitialRows = {"present"}
  MaxStarts = 1
  DbMayFail = FALSE
INVARIANT NoOrphanRunner
PROPERTIES RequestsServed StoppingEnds  DeletionEndsWork
CHECK_DEADLOCK FALSE
