CONSTANTS
  base = base
  branch = branch
  joint = joint
  tip = tip
  crew = crew
  asker = asker
  Object = {base, branch, joint, tip}
  Group = {crew}
  User = asker
  Root = base
  Tuple <- MCTuple
  GrantedBy <- MCGrantedBy
  Inherits <- MCInherits
  MaxDepth = 2
  ChangeBound = 0
SPECIFICATION ExplainSpec
INVARIANT CleanWitnessIsFound
CHECK_DEADLOCK FALSE
