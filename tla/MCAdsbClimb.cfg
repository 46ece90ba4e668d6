SPECIFICATION FairSpec
CONSTANTS
  None = None
  Ground = Ground
  MaxExtrapolation = 2
  MatchMaxPositionAge = 3
  DelayTol = 2
  DopplerTol = 2
  Near = 1
  CacheInterval = 1
  HttpTimeout = 2
  Scenes <- AllScenes
  Other <- Airliner
  Ages <- PairsOfAges
  Lag = 1
  Offset = 2
  MaxTime = 6
INVARIANTS ClimbIsShown
CHECK_DEADLOCK FALSE
