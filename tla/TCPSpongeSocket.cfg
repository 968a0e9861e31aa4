SPECIFICATION FairSpec
CONSTANTS
  Mod = 16
  AbsMod = 256
  Capacity = 3
  SendCapacity = 2
  MaxPayload = 2
  RtTimeout = 1
  MaxRetx = 2
  Linger = 5
  MaxWin = 15
  NoByte = NoByte
  NoEof = NoEof
  NoNumber = NoNumber
  PipeRoom = 2
  WriteLimit = 1
  OwnerBytes = 1
  PeerBytes = 2
  OwnIsn = 14
  PeerIsn = 3
INVARIANTS EndMeansAll NothingLeftBehind DiesOnlyOfReset
PROPERTIES OwnerIsDone
CHECK_DEADLOCK FALSE
