\* A backend that may crash at any time, is restarted at most twice in a row,
\* and is stopped and started again twice.
SPECIFICATION FairSpec
CONSTANTS
  Slot = {s1, s2, s3}
  Child = {k1, k2, k3}
  None = None
  MaxRetries = 2
  MaxAttempts = 2
  MaxStops = 2
INVARIANTS TypeOK ChildrenTracked StopIsFinal
PROPERTIES RunningChildGetsItsRetries StartsSettle RestartConcludes KeepsPromise
\* The application may leave the backend stopped.
CHECK_DEADLOCK FALSE
