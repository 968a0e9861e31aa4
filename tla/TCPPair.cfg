SPECIFICATION Spec
CONSTANTS
  Mod = 16
  AbsMod = 256
  Capacity = 2
  SendCapacity = 3
  MaxPayload = 2
  RtTimeout = 1
  MaxRetx = 1
  Linger = 2
  MaxWin = 15
  NoByte = NoByte
  NoEof = NoEof
  NoNumber = NoNumber
  a = a
  b = b
  EndPoint <- MCEndPoint
  Client = {a}
  Isn <- MCIsn
  Bytes <- MCBytes
  IsnA = 14
  IsnB = 3
  BytesA = 4
  BytesB = 0
  MaxFaults = 1
INVARIANTS ReadsWhatWasWritten AckedWasReceived BuffersHold PassiveCloseIsComplete SomebodyLingers
PROPERTIES StatesAdvance
CHECK_DEADLOCK FALSE
