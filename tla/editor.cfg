\* Edits, undo, layout, loads and overlapping saves, and a crash.
SPECIFICATION Spec
CONSTANTS
  AnimationId = {1, 2, 3}
  Path = {"home", "named"}
  Home = "home"
  Resolved <- Beside
  Original <- Pair
  Torn = Torn
  NoDocument = NoDocument
  Subscribes = TRUE
  MaxEdits = 2
  MaxSaves = 2
  MaxInputs = 3
  MaxCrashes = 1
INVARIANTS HistoryHoldsDocument ReferencesResolve CleanMatchesFile FilesWhole
PROPERTIES EditsAreKept
\* The bounds run out, and the user may stop.
CHECK_DEADLOCK FALSE
