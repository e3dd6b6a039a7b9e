SPECIFICATION FairSpec
CONSTANTS
  o = o
  i = i
  Out <- McOut
  In <- McIn
  Faults <- McFaults
  MaxChannels = 3
  MaxFlight = 3
CHECK_DEADLOCK FALSE
INVARIANTS  AtMostOnce
PROPERTY IncomingArrives
