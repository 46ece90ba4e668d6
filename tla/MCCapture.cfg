SPECIFICATION MCSpec
CONSTANTS
  n = 4
  U32 = 5
  Samples = {0, 1, 2}
  Zero = 0
  MaxEpisodes = 1
  MaxRestarts = 1
  None = None
  FullScale = 3
INVARIANTS TypeOK CopyAgrees ReportIsTrue NoPeakLost
PROPERTIES ImplementsFifo EpisodesAreReported
