SPECIFICATION FairSpec
CONSTANTS
  Handlers = {h1}
  NoHandler = NoHandler
  Configs <- ManualOrDisabled
  Requests = {"Stop", "Refresh"}
  InitialRows = {"present"}
  MaxStarts = 0
  DbMayFail = FALSE
PROPERTY StopReachesStopped
CHECK_DEADLOCK FALSE
