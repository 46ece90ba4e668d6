SPECIFICATION Spec
CONSTANTS
  Grace = 1
  Stale = 1
  Period = 3
  LockTimeout = 4
  ResetFrom = 2
  MaxRestarts = 7
  MaxFaults = 3
  MaxGui = 3
  None = None
INVARIANTS GraceKept TroubleAttended ComesBack ResetsAreEarned
PROPERTIES CrashLoopFound
CHECK_DEADLOCK FALSE
