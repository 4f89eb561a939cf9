\* A page may take more than 200 ms from its first paint to its load.
SPECIFICATION FairSpec
CONSTANTS
  Call = {c1, c2}
  Faults = {}
  MaxCrashes = 0
  Restarts = FALSE
  SlowLoads = TRUE
  FailureLimit = 2
PROPERTIES DesktopPetsArePolled
\* The application may quit.
CHECK_DEADLOCK FALSE
