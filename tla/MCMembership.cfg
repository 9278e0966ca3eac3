SPECIFICATION Spec
CONSTANTS
  Member             <- MCMember
  BucketCount        = 3
  Group              = {g1}
  Publisher          = {p1}
  Boot               = {b1}
  NoGroup            = NoGroup
  NoBoot             = NoBoot
  MinActive          = 2
  MaxMembersPerGroup = 2
  Path               <- MCPath
  PathOf             <- MCPathOf
  Covers             <- MCCovers
  MultipathGroups    <- MCDirect
  SetContents        <- MCStableSet
  Revocable          <- MCNobody
  MaxGroups          = 1
  MaxTotalMembers    = 2
  MaxPublishers      = 1
  MaxBatch           = 3
  MaxRebalanceMoves  = 2
  MaxEpoch           = 1
  MaxPathGeneration  = 1
  MaxPolicy          = 2
  GenerationCap      = 3
  AuthorityCap       = 3
INVARIANTS
  TypeOK
  EntriesAreBounded
  OwnersArePresent
PROPERTIES
  GenerationsNeverLie
  PlanFreezesMembership
CHECK_DEADLOCK FALSE
