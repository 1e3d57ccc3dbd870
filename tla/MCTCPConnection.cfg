SPECIFICATION Spec
CONSTANTS
  ClientSource <- TwoBytes
  ServerSource <- Nothing
  ClientISN = 30
  ServerISN = 31
  SendCapacity = 2
  RecvCapacity = 1
  Early = 1
  MaxLosses = 1
  Modulus = 32
  Modulus64 = 128
  MAX_PAYLOAD_SIZE = 1
  UINT16_MAX = 2
CHECK_DEADLOCK FALSE
INVARIANT FinishedIsDone
PROPERTY Reliable
