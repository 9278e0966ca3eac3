SPECIFICATION StoreSpec
CONSTANTS
  Member             <- MCPair
  BucketCount        = 1
  Group              = {g1}
  Publisher          = {p1}
  Boot               = {b1}
  NoGroup            = NoGroup
  NoBoot             = NoBoot
  MaxUnsaved         = 1
  MinActive          = 1
  MaxMembersPerGroup = 1
  Path               <- MCPath
  PathOf             <- MCPairPaths
  Covers             <- MCCovers
  MultipathGroups    <- MCDirect
  SetContents        <- MCStableSet
  Revocable          <- MCNobody
  MaxGroups          = 1
  MaxTotalMembers    = 1
  MaxPublishers      = 1
  MaxBatch           = 2
  MaxRebalanceMoves  = 3
  MaxEpoch           = 3
  MaxPathGeneration  = 1
  MaxPolicy          = 1
  GenerationCap      = 3
  AuthorityCap       = 7
INVARIANTS
  RestartSucceeds
CHECK_DEADLOCK FALSE
