SPECIFICATION Spec
CONSTANTS
  p1 = p1
  p2 = p2
  p3 = p3
  Pids <- ThreePids
  KillTries = 2
  Concurrent = TRUE
  Failures = FALSE
  Others = FALSE
  MaxCommands = 2
  MaxCrashes = 0
INVARIANTS
  AtMostOneDaemon
SYMMETRY Symmetry
CHECK_DEADLOCK FALSE
