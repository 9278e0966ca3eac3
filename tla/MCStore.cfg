SPECIFICATION StoreSpec
CONSTANTS
  Member             <- MCPair
  BucketCount        = 1
  Group              = {g1, g2}
  Publisher          = {p1}
  Boot               = {b1}
  NoGroup            = NoGroup
  NoBoot             = NoBoot
  MaxUnsaved         = 1
  MinActive          = 1
  MaxMembersPerGroup = 1
  Path               <- MCSingle
  PathOf             <- MCSamePath
  Covers             <- MCCovers
  MultipathGroups    <- MCDirect
  SetContents        <- MCStableSet
  Revocable          <- MCSingle
  MaxGroups          = 2
  MaxTotalMembers    = 1
  MaxPublishers      = 1
  MaxBatch           = 2
  MaxRebalanceMoves  = 3
  MaxEpoch           = 2
  MaxPathGeneration  = 1
  MaxPolicy          = 1
  GenerationCap      = 2
  AuthorityCap       = 4
INVARIANTS
  StoreTypeOK
  check_invariants
  AuthorityIsOfThisIncarnation
  AcknowledgedIsDurable
  OnlyAPlanSpoilsTheFile
PROPERTIES
  ServesInFreshEpoch
  ClosingIsDurable
CHECK_DEADLOCK FALSE
SYMMETRY MCSymmetry
