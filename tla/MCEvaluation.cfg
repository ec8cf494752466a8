CONSTANTS
  m1 = m1
  read = read
  write = write
  doc = doc
  Model = {m1, m2}
  Policy = {p1, p2}
  Permission = {read, write}
  ResourceType = {doc}
  Offers <- MCOffers
  Admin = {a1, a2}
  Evaluator = {e1}
  None = None
  Keep = Keep
SYMMETRY MCSymmetry
SPECIFICATION MCSpec
INVARIANTS
  TypeOK
  UniqueTargets
  TargetsWerePublished
  PoliciesAreRecorded
  UnknownRelationIsSkew
  DecisionUnderOneModel
PROPERTY OnlyEditsRetarget
CHECK_DEADLOCK FALSE
