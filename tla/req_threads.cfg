SPECIFICATION Spec
CONSTANTS
  Requests = {r1, r2, r3}
  NoRequest = NoRequest
  MaxId = 2
  MaxSends = 2
  OneLoop = FALSE
  Kinds <- DistinctKinds
  Calls <- CallNames
  Faults <- FaultNames
SYMMETRY RequestSymmetry
CHECK_DEADLOCK FALSE
INVARIANTS TableIsSound  
