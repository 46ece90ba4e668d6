SPECIFICATION Spec
CONSTANTS
  Fcs = {f1, f2, half}
  Fractional = {half}
  Gains = {g1, g2}
  ConfigFc = f1
  ConfigGain = g1
  NoFc = NoFc
  None = None
  MaxAttempts = 3
  MaxRequests = 2
  MaxRestarts = 1
  MaxApiRestarts = 1
INVARIANTS CurrentFcIsApplied
CHECK_DEADLOCK FALSE
