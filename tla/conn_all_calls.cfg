SPECIFICATION Spec
CONSTANTS
  MaxConnects = 2
  MaxQueue = 1
  OneLoop = TRUE
  Calls <- CallNames
  Faults <- FaultNames
CHECK_DEADLOCK FALSE
INVARIANTS LoopInvariant
PROPERTIES DisconnectIsFinal 
