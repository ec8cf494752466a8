CONSTANTS
  Process = {p1}
  Store = {s0, s1, s2, s3, s4, s5, s6, s7}
  configuredProcess = None
  configuredStore = s0
  Configured <- MCConfigured
  Latest = 2
  Attempts = 2
  None = None
  CrashBound = 1
SPECIFICATION MCSpec
PROPERTY StoreIsKept
CHECK_DEADLOCK FALSE
