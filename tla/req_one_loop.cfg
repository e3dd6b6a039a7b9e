SPECIFICATION FairSpec
CONSTANTS
  Requests = {r1, r2}
  NoRequest = NoRequest
  MaxId = 2
  MaxSends = 2
  OneLoop = TRUE
  Kinds <- KindNames
  Calls <- CallNames
  Faults <- LostChannels
CHECK_DEADLOCK FALSE
INVARIANTS RequestsAreSafe PendingIsOffline
PROPERTIES EveryRequestEnds
