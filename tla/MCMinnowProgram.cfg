SPECIFICATION Spec
CONSTANTS
  OwnerSource <- OneByte
  RemoteSource <- TwoBytes
  Capacity = 2
  Disturbances <- AnyDisturbance
  PipeCapacity = 1
  kReadBufferSize = 4
  OwnerISN = 30
  RemoteISN = 31
  Modulus = 32
  Modulus64 = 128
  MAX_PAYLOAD_SIZE = 1
  UINT16_MAX = 2
CHECK_DEADLOCK FALSE
INVARIANTS Integrity NoFault DoneIsComplete
PROPERTY Terminates
