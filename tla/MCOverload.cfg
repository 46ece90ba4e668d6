SPECIFICATION FairSpec
CONSTANTS
  MaxOnsets = 1
  MaxRetunes = 1
INVARIANTS OneUpdateAtATime OnsetsCounted
PROPERTIES EventsAcked LevelIsAsLoaded
CHECK_DEADLOCK FALSE
