SPECIFICATION FairSpec
CONSTANTS
  Frames <- MCFrameSet
  Lists <- MCLists
INVARIANTS WritesInOrder UnderstoodWhenWhole
PROPERTY WriteReturns
CHECK_DEADLOCK FALSE
