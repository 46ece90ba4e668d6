SPECIFICATION FairSpec
CONSTANTS
  Cpis = 3
  MaxRead = 2
  MaxRequests <- Overlapping
  MaxAnswers = 1
  MaxBoots <- Boots
  Gap = 4
  Window = 2
  NCpi = 2
INVARIANTS SeriesEndTogether TracesAreSeries
PROPERTIES WindowThinned FreshCpiIsTaken
CHECK_DEADLOCK FALSE
