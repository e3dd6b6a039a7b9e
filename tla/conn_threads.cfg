SPECIFICATION Spec
CONSTANTS
  MaxConnects = 2
  MaxQueue = 1
  OneLoop = FALSE
  Calls <- OrdinaryCalls
  Faults <- RetriedFaults
CHECK_DEADLOCK FALSE
INVARIANTS RetryIsPending ChannelFitsState OneAttempt 
