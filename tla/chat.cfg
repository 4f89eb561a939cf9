CONSTANTS
  Stream = {1, 2}
  Answer <- MCAnswer
  Twice = {2}
  Fragile = {1}
  MaxAttempts = 1
  MaxTold = 1
  Diagnosing = FALSE
SPECIFICATION Spec
INVARIANTS InOrder AnswersWhole
PROPERTIES StreamsEnd
CHECK_DEADLOCK FALSE
