SPECIFICATION FairSpec
CONSTANTS
  Requests = {r1, r2}
  NoRequest = NoRequest
  MaxId = 2
  MaxSends = 2
  OneLoop = TRUE
  Kinds <- AnsweredKinds
  Calls <- Closing
  Faults <- Hangups
CHECK_DEADLOCK FALSE
PROPERTIES CancelledByShutdown
