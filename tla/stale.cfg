SPECIFICATION Spec
CONSTANTS
  Handlers = {h1}
  NoHandler = NoHandler
  Configs <- ManualOrDisabled
  Requests = {"Restart"}
  InitialRows = {"present"}
  MaxStarts = 2
  DbMayFail = FALSE
INVARIANT CrashedMeansNotRunning
CHECK_DEADLOCK FALSE
