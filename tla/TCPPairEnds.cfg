SPECIFICATION FairSpec
CONSTANTS
  Mod = 16
  AbsMod = 256
  Capacity = 1
  SendCapacity = 2
  MaxPayload = 1
  RtTimeout = 1
  MaxRetx = 8
  Linger = 10
  MaxWin = 15
  NoByte = NoByte
  NoEof = NoEof
  NoNumber = NoNumber
  a = a
  b = b
  EndPoint <- MCEndPoint
  Client = {a, b}
  Isn <- MCIsn
  Bytes <- MCBytes
  IsnA = 14
  IsnB = 3
  BytesA = 2
  BytesB = 0
  MaxFaults = 1
PROPERTIES EverythingArrives BothClose
CHECK_DEADLOCK FALSE
