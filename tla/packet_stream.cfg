SPECIFICATION FairSpec
CONSTANT Streams <- McStreams
INVARIANTS  LengthsRoundTrip
 
CHECK_DEADLOCK FALSE
