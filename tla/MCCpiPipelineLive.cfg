SPECIFICATION FairSpec
CONSTANTS
  Slots = {s1, s2}
  NSamples = 2
  BufferSize = 3
  MaxBlock = 2
  MaxSamples = 5
  Fcs = {f1, f2}
  InitFc = f1
  NoFc = NoFc
  MaxRetunes = 1
  NoSlot = NoSlot
  Drained = 2
PROPERTIES
  ImplementsHandoff
  CallbackReturns
  FilteredIsAnnounced
