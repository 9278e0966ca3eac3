SPECIFICATION FairServerSpec
CONSTANTS
  Session       = {s1, s2}
  Publisher     = {p1}
  Boot          = {b1, b2}
  Attempt       = {a1}
  Payload       = {x1}
  NoSession     = NoSession
  NoBoot        = NoBoot
  NoIdentity    = NoIdentity
  NoRequest     = NoRequest
  MaxPublishers = 3
  MaxSessions   = 2
  Window        = 1
  MaxRequests   = 4
  MaxSilent     = 2
PROPERTIES
  LostWorkerIsFenced
  StopCompletes
CHECK_DEADLOCK FALSE
