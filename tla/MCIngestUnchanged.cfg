SPECIFICATION Spec
CONSTANTS
  Parts = 2
  Frames = 3
  MaxBoots = 1
INVARIANTS ServedUnchanged
CHECK_DEADLOCK FALSE
