SPECIFICATION FairSpec
CONSTANTS
  BufferSize = 3
  CopyLimit = 2
  Room = 1
  StdinBytes = 4
  PeerBytes = 3
INVARIANTS EndMeansAll EveryByteOnce ReturnsWhenDone
PROPERTIES NothingAfterEnd DirectionsIndependent CopyEnds
CHECK_DEADLOCK FALSE
