SPECIFICATION FairSpec
CONSTANTS
  Capacity = 5
  StreamLen = 7
  NoByte = NoByte
  NoEof = NoEof
  End = End
INVARIANTS LoopMerges IntervalsOK StoredInPlace OutputIsPrefix
PROPERTIES ImplementsAssembly EventuallyEnds
CHECK_DEADLOCK FALSE
