SPECIFICATION ServerSpec
CONSTANTS
  Session       = {s1, s2}
  Publisher     = {p1}
  Boot          = {b1, b2}
  Attempt       = {a1, a2}
  Payload       = {x1, x2}
  NoSession     = NoSession
  NoBoot        = NoBoot
  NoIdentity    = NoIdentity
  NoRequest     = NoRequest
  MaxPublishers = 3
  MaxSessions   = 2
  Window        = 1
  MaxRequests   = 7
  MaxSilent     = 0
INVARIANTS
  ServerTypeOK
  AnswersAreTrue
  OneIncarnationAtATime
  NoOrphan
PROPERTIES
  AppliedAtMostOnce
CHECK_DEADLOCK FALSE
SYMMETRY MCServerSymmetry
