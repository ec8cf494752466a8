CONSTANTS
  Process = {p1, p2}
  Store = {s0, s1, s2, s3, s4, s5, s6, s7}
  configuredProcess = None
  configuredStore = s0
  Configured <- MCConfigured
  Latest = 2
  Attempts = 2
  None = None
  CrashBound = 1
SPECIFICATION MCSpec
PROPERTY NoBootLosesRace
CHECK_DEADLOCK FALSE
