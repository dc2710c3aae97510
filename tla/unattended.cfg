SPECIFICATION FairSpec
CONSTANTS
  Handlers = {}
  NoHandler = NoHandler
  Configs <- AlwaysOrBudgeted
  Requests = {}
  InitialRows = {"present", "inserted"}
  MaxStarts = 3
  DbMayFail = FALSE
INVARIANTS SoleVerdict EndedMeansNotRunning
PROPERTY SeenRestartHappens
CHECK_DEADLOCK FALSE
