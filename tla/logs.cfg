SPECIFICATION FairLogSpec
CONSTANTS
  Work = Work
  Copiers = {c1}
  Span = 0
  MaxClock = 2
  MaxLines = 1
  MaxOverlaps = 2
  MaxFaults = 1
INVARIANTS LogTypeOK RowsAreEnded   DeletionRemovesFiles
  
CHECK_DEADLOCK FALSE
