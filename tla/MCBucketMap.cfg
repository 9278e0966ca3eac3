SPECIFICATION Spec
CONSTANTS
  Member      <- MCMember
  BucketCount = 6
INVARIANTS
  TypeOK
  MapIsValid
  Settled
PROPERTIES
  MinimumChurn
  BystandersKeepTheirBuckets
  MovesAreExplained
