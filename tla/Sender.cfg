SPECIFICATION Spec
CONSTANTS
  Mod = 16
  AbsMod = 256
  SendCapacity = 3
  MaxPayload = 2
  RtTimeout = 2
  Isns = {0, 14}
  MaxWritten = 4
  Windows = {0, 1, 3, 5}
  MaxRetx = 2
INVARIANTS OutstandingOK TimerIffOutstanding BackoffMatchesCount NumbersMatchStream LoopsAgree
PROPERTY RespectsWindow
CHECK_DEADLOCK FALSE
