CONSTANTS
  base = base
  branch = branch
  joint = joint
  tip = tip
  crew = crew
  asker = asker
  Object = {base, branch, joint, tip}
  Group = {crew}
  User = asker
  Root = base
  Tuple <- MCTuple
  GrantedBy <- MCGrantedBy
  Inherits <- MCInherits
  MaxDepth = 2
  ChangeBound = 1
  ConditionDocs <- MCConditionDocs
  ParamLists <- MCParamLists
  BadIdent = {"if"}
  Rfc3339 = {"2026-01-01T00:00:00Z"}
  Cidr = {"10.0.0.0/8"}
  MaxSafeInt = 9
  Irs <- MCIrs
  Stored <- MCStored
  CanName <- MCCanName
  BadName = {"define", "a b", "none"}
  Malformed = {"a b", "none"}
  TooLong <- MCTooLong
  MaxTypes = 4
  NoIdent = {"a b"}
  BadId = {"*"}
  Fitting <- MCFitting
  Oversized <- MCOversized
  GrantIrs <- MCGrantIrs
  GrantRequests <- MCGrantRequests
  Grantable <- MCGrantable
  ListedIrs <- MCListedIrs
  Listings <- MCListings
  PageSize = 1
  PlaceBound = 3
  Token = {t1}
  Call = {c1, c2}
  Action <- MCAction
  Actor = {""}
  Queries <- MCQueries
  LimitParams <- MCLimitParams
  TimeBound = 2
  RecordBound = 3
  Specs <- MCSpecs
  Secrets <- MCSecrets
  Deliveries <- MCDeliveries
  Number <- MCNumber
  Now = 1000
  Arrivals <- MCArrivals
  Bodies <- MCBodies
  JsonValues <- MCJsonValues
  RuleSets <- MCRuleSets
  Placeholder <- MCPlaceholder
  Forbidden = {":", " "}
  NonWord <- MCNonWord
  Drafts <- MCDrafts
  DslTexts <- MCDslTexts
  NewTypes = {"doc", "page"}
  NewRoles = {"viewer", "member"}
  NewPermissions = {"view", "edit"}
  NewConditions = {"night", "day"}
  WholeNumbers = {"7"}
  EditsBound = 3
SPECIFICATION RequestsSpec
INVARIANTS
  RequestsTypeOK
  ExplanationNamesStoredTuples
  QuietDecisionIsExplained
  AcceptedConditionMeansItsTree
  ValidModelIsAccepted
  DiffTellsEveryChange
  
  ListingMissesNothing
  RevocationIsFinal
  PagingIsExact
  
  RenderedTupleSaysItsRule
  EditsLeaveNoOrphan
  ImportRestoresTheModel
PROPERTY EveryExplanationEnds
CHECK_DEADLOCK FALSE
