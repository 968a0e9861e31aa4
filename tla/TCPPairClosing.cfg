SPECIFICATION Spec
CONSTANTS
  Mod = 16
  AbsMod = 256
  Capacity = 2
  SendCapacity = 2
  MaxPayload = 1
  RtTimeout = 1
  MaxRetx = 8
  Linger = 10
  MaxWin = 15
  NoByte = NoByte
  NoEof = NoEof
  NoNumber = NoNumber
  a = a
  b = b
  EndPoint <- MCEndPoint
  Client = {a}
  Isn <- MCIsn
  Bytes <- MCBytes
  IsnA = 14
  IsnB = 3
  BytesA = 0
  BytesB = 0
  MaxFaults = 4
INVARIANTS ActiveWhileRunning
CHECK_DEADLOCK FALSE
