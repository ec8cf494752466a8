CONSTANTS
  Process = {p1, p2}
  Store = {s0, s1, s2, s3, s4, s5, s6, s7}
  configuredProcess = p2
  configuredStore = s0
  Configured <- MCConfigured
  Latest = 2
  Attempts = 2
  None = None
  CrashBound = 1
SPECIFICATION MCFairSpec
INVARIANTS
  TypeOK
  AppliedOnce
  RowBeforeClient
PROPERTY EveryBootEnds
CHECK_DEADLOCK FALSE
