SPECIFICATION Spec
CONSTANTS
  Member             <- MCPair
  BucketCount        = 2
  Group              = {g1}
  Publisher          = {p1}
  Boot               = {b1}
  NoGroup            = NoGroup
  NoBoot             = NoBoot
  MinActive          = 1
  MaxMembersPerGroup = 2
  Path               <- MCPath
  PathOf             <- MCPairPaths
  Covers             <- MCCovers
  MultipathGroups    <- MCDirect
  SetContents        <- MCStableSet
  Revocable          = {1}
  MaxGroups          = 1
  MaxTotalMembers    = 2
  MaxPublishers      = 1
  MaxBatch           = 1
  MaxRebalanceMoves  = 1
  MaxEpoch           = 1
  MaxPathGeneration  = 2
  MaxPolicy          = 1
  GenerationCap      = 3
  AuthorityCap       = 3
INVARIANTS
  IndexesAgree
  PlanPredicts
PROPERTIES
  NoticeTakesEffect
CHECK_DEADLOCK FALSE
