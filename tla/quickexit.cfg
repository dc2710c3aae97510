SPECIFICATION FairSpec
CONSTANTS
  Handlers = {}
  NoHandler = NoHandler
  Configs <- AlwaysOnly
  Requests = {}
  InitialRows = {"present"}
  MaxStarts = 2
  DbMayFail = FALSE
PROPERTY CrashedWillRestart
CHECK_DEADLOCK FALSE
