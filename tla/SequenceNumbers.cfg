SPECIFICATION Spec
CONSTANTS
  Mod = 8
  AbsMod = 32
INVARIANTS RoundTrip ClosestToCheckpoint
CHECK_DEADLOCK FALSE
