SPECIFICATION Spec
CONSTANTS
  Slots = {s1, s2}
  NSamples = 2
  BufferSize = 3
  MaxBlock = 2
  MaxSamples = 7
  Fcs = {f1, f2}
  InitFc = f1
  NoFc = NoFc
  MaxRetunes = 2
  NoSlot = NoSlot
  Drained = 2
SYMMETRY SlotSymmetry
INVARIANTS
  SlotsConserved
  ExactlyOnceInOrder
  ChannelsAligned
  RetuneNeverLost
  TimestampAfterData
  OneCpiPerReport
  NoLockCycle
