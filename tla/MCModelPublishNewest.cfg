CONSTANTS
  Request = {r1, r2}
  Invalid = {}
  Server = {s1}
  None = None
  CrashBound = 0
SPECIFICATION MCSpec
INVARIANT NewestIsCurrent
CHECK_DEADLOCK FALSE
