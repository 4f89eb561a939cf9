\* A pet with undefined, empty and missing animations.
SPECIFICATION Spec
CONSTANTS
  AnimId = {1, 2, 3, 4}
  Anim <- Broken
  DragAnim = 3
  FallAnim = 0
  Spawns <- OddSpawns
  Worlds <- TwoScreens
  FrameW = 2
  FrameH = 2
  Scales = {1, 2}
  GravityFactors = {1, 2}
  Coord <- Grid
  SentPositions <- Grabs
INVARIANTS TypeOK LoadedIsCurrent TriggersOnlyWithoutAnimation
PROPERTIES StepKeepsPetOnScreen
