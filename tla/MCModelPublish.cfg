CONSTANTS
  Request = {r1, r2, r3}
  Invalid = {r3}
  Server = {s1, s2}
  None = None
  CrashBound = 1
SPECIFICATION MCFairSpec
INVARIANTS
  TypeOK
  PointerIsSet
  AcknowledgedIsDurable
  OrphansAreExplained
PROPERTIES
  ImplementsPublishedModel
  EveryPublishEnds
CHECK_DEADLOCK FALSE
