SPECIFICATION Spec
CONSTANTS
  p1 = p1
  p2 = p2
  p3 = p3
  Pids <- ThreePids
  KillTries = 2
  Concurrent = FALSE
  Failures = FALSE
  Others = FALSE
  MaxCommands = 2
  MaxCrashes = 1
PROPERTIES
  RefusalMeansRunning
SYMMETRY Symmetry
CHECK_DEADLOCK FALSE
