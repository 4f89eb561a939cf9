CONSTANTS
  Stream = {1, 2}
  Answer <- MCNothing
  Twice = {2}
  Fragile = {1}
  MaxAttempts = 1
  MaxTold = 2
  Diagnosing = TRUE
SPECIFICATION Spec
INVARIANTS PageFollows
CHECK_DEADLOCK FALSE
