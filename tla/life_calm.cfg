\* Two pets created, removed and closed in any order; opening a window may fail, the
\* backend may crash once and be restarted, requests fail only with it, and pages load
\* within the 200 ms before the first step.
SPECIFICATION FairSpec
CONSTANTS
  Call = {c1, c2}
  Faults = {"window"}
  MaxCrashes = 1
  Restarts = TRUE
  SlowLoads = FALSE
  FailureLimit = 2
INVARIANTS BackendPetsOwned WindowsShowStoredPets
PROPERTIES ShutdownClosesWindows LoadedPageCommits DesktopPetsArePolled LostPetsNotPolled
\* The application may quit.
CHECK_DEADLOCK FALSE
