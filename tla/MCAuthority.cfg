SPECIFICATION Spec
CONSTANTS
  Member             <- MCPair
  BucketCount        = 2
  Group              = {g1}
  Publisher          = {p1}
  Boot               = {b1, b2}
  NoGroup            = NoGroup
  NoBoot             = NoBoot
  MinActive          = 2
  MaxMembersPerGroup = 2
  Path               <- MCPath
  PathOf             <- MCPairPaths
  Covers             <- MCCovers
  MultipathGroups    = {g1}
  SetContents        <- MCShrinkingSet
  Revocable          <- MCNobody
  MaxGroups          = 1
  MaxTotalMembers    = 2
  MaxPublishers      = 1
  MaxBatch           = 3
  MaxRebalanceMoves  = 3
  MaxEpoch           = 2
  MaxPathGeneration  = 1
  MaxPolicy          = 1
  GenerationCap      = 3
  AuthorityCap       = 3
SYMMETRY MCSymmetry
INVARIANTS
  PlanIsLive
  StaleEpochDisarms
  StateIsDerived
  AuthoritativeMapValid
PROPERTIES
  BindingIsLive
  RearmedMeansReobserved
CHECK_DEADLOCK FALSE
