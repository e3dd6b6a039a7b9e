SPECIFICATION FairSpec
CONSTANTS
  MaxConnects = 3
  MaxQueue = 2
  OneLoop = TRUE
  Calls <- OrdinaryCalls
  Faults <- RetriedFaults
CHECK_DEADLOCK FALSE
INVARIANTS NoInvalidAccess 
PROPERTIES ScheduledDisconnectCompletes 
