SPECIFICATION FairSpec
CONSTANTS
  Parts = 2
  Frames = 3
  MaxBoots = 2
INVARIANTS MapEndsWhole NoFrameStranded TrackerGetsFrames
PROPERTIES MapCatchesUp
CHECK_DEADLOCK FALSE
