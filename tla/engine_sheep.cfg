\* The shipped pets' skeleton, with drags, drops and rescaling; the step loop
\* keeps running.
SPECIFICATION FairSpec
CONSTANTS
  AnimId = {1, 2, 3, 4, 5}
  Anim <- Sheep
  DragAnim = 4
  FallAnim = 3
  Spawns <- BothSpawns
  Worlds <- OneScreen
  FrameW = 2
  FrameH = 2
  Scales = {1, 2}
  GravityFactors = {2, 3}
  Coord <- Grid
  SentPositions <- Grabs
INVARIANTS SequenceOverrunBounded
PROPERTIES LeftAlonePetLands
