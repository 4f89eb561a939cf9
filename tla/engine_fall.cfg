\* The documented interpolation of a fall.
SPECIFICATION Spec
CONSTANTS
  AnimId = {1, 2, 3, 4, 5}
  Anim <- Sheep
  DragAnim = 4
  FallAnim = 3
  Spawns <- BothSpawns
  Worlds <- OneScreen
  FrameW = 2
  FrameH = 2
  Scales = {1}
  GravityFactors = {1, 2}
  Coord <- Grid
  SentPositions <- Grabs
PROPERTIES FallProgresses
