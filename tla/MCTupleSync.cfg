CONSTANTS
  idp = idp
  k1 = k1
  k2 = k2
  r1 = r1
  r2 = r2
  r3 = r3
  r4 = r4
  add = add
  each = each
  remove = remove
  roles = roles
  role1 = role1
  role2 = role2
  t1 = t1
  t2 = t2
  added = added
  removed = removed
  key = key
  m1 = m1
  m2 = m2
  Connection = {k1, k2}
  Rule = {r1, r2, r3, r4}
  Provider = {idp}
  Produces <- MCProduces
  Secret = {key}
  Attribute = {roles}
  Template = {add, each, remove}
  UsesItem = {each}
  Priority = {1, 2}
  Editor = {a1}
  Blank = Blank
  Keep = Keep
  Gone = Gone
  None = None
  Model = {m1, m2}
  Accepts <- MCAccepts
  Event = {added, removed}
  From <- MCFrom
  Signed <- MCSigned
  Applicable <- MCApplicable
  Values <- MCValues
  Item = {role1, role2}
  Tuple = {t1, t2}
  Render <- MCRender
  Delivery = {d1}
  Request = {q1}
  FaultBound = 1
  EditBound = 2
SPECIFICATION MCFairSpec
INVARIANTS
  TypeOK
  RulesAreOwned
  UncheckedEditsAreLost
  GrantsFitPublished
  RecordsAreChanges
PROPERTIES
  NothingIsDroppedOnceBound
  EventIsAcknowledged
CHECK_DEADLOCK FALSE
