\* Grabs may follow a drop at once, and the app may give up any request.
SPECIFICATION FairSpec
CONSTANTS
  Cells <- Line
  NoFrame = NoFrame
  MaxQueue = 4
  MaxLate = 1
INVARIANTS TypeOK DrainedQueueAgrees
PROPERTIES HeldWindowFollowsPointer FallsFromRelease ReleasedPetIsFree
