SPECIFICATION PartsSpec
CONSTANTS
  Rotators = {r1, r2}
  Callers = {h1, h2}
  MaxConns = 4
  MaxLeaks = 1
  Clerks = {k1, k2}
  Names = {n1, n2}
  Members = {m1}
  MaxGroups = 2
  Lines = {a, b, c}
  Threshold = 2
  MaxFed = 6
  MaxClk = 3
  MaxEntries = 2
  MaxLogs = 1
  MaxLogLines = 1
  MaxPolls = 2
  MaxFrame = 1
  Limits = {1}
  Procs = {p1}
  Updaters = {u1, u2}
  Settings <- OneChat
  MaxCrashes = 2
  Posters = {s1, s2}
  StdInCap = 2
  MaxChildren = 3
  MaxAccepted = 4
  Pids <- ThreePids
  Root = 1
  MaxCpu = 1
  MaxWalks = 3
  ToolsMayFail = TRUE
INVARIANTS
  PoolTypeOK SomebodyGoesOn
  GroupsTypeOK NamesUnique
  RunIsCounted CopyIsUnderstood
   
  RunnerForRow  SettingsReadable SettingsSaved
  NoLineVanishes  
  KillLeavesNobody 
PROPERTIES
   PostsAreServed 
CHECK_DEADLOCK FALSE
