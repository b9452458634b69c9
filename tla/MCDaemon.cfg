SPECIFICATION FairSpec
CONSTANTS
  p1 = p1
  p2 = p2
  p3 = p3
  Pids <- ThreePids
  KillTries = 2
  Concurrent = TRUE
  Failures = TRUE
  Others = TRUE
  MaxCommands = 3
  MaxCrashes = 1
INVARIANTS
  TypeOK
  OneDaemon
  FileLeadsToDaemon
PROPERTIES
  OrderlyRefusal
  StopLeavesNone
  RestartRuns
CHECK_DEADLOCK FALSE
