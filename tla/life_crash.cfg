\* Every request may fail, and the backend crashes once and is restarted.
SPECIFICATION Spec
CONSTANTS
  Call = {c1, c2}
  Faults = {"step_pet", "window", "page", "remove_pet",
            "load_pet", "add_pet", "add_pet timeout"}
  MaxCrashes = 1
  Restarts = TRUE
  SlowLoads = TRUE
  FailureLimit = 2
INVARIANTS OpenWindowsRegistered TimersCancellable
SYMMETRY Symmetry
\* The application may quit.
CHECK_DEADLOCK FALSE
