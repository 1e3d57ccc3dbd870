SPECIFICATION Safety
CONSTANTS
  ClientSource <- OneByte
  ServerSource <- OtherByte
  ClientISN = 30
  ServerISN = 31
  SendCapacity = 2
  RecvCapacity = 2
  Early = 1
  MaxLosses = 0
  Modulus = 32
  Modulus64 = 128
  MAX_PAYLOAD_SIZE = 1
  UINT16_MAX = 2
CHECK_DEADLOCK FALSE
INVARIANT NothingForgotten
PROPERTY ReliableSafety
