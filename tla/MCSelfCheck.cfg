SPECIFICATION Spec
CONSTANTS
  Member             <- MCSingle
  BucketCount        = 1
  Group              = {g1, g2, g3}
  Publisher          = {p1}
  Boot               = {b1}
  NoGroup            = NoGroup
  NoBoot             = NoBoot
  MinActive          = 1
  MaxMembersPerGroup = 1
  Path               <- MCSingle
  PathOf             <- MCSinglePath
  Covers             <- MCCovers
  MultipathGroups    <- MCDirect
  SetContents        <- MCStableSet
  Revocable          <- MCNobody
  MaxGroups          = 3
  MaxTotalMembers    = 2
  MaxPublishers      = 1
  MaxBatch           = 2
  MaxRebalanceMoves  = 3
  MaxEpoch           = 1
  MaxPathGeneration  = 1
  MaxPolicy          = 1
  GenerationCap      = 3
  AuthorityCap       = 3
SYMMETRY MCSymmetry
INVARIANTS
  check_invariants
CHECK_DEADLOCK FALSE
