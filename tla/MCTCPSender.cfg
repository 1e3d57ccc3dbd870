SPECIFICATION Spec
CONSTANTS
  Source <- MCSource
  Byte <- MCByte
  Capacity = 3
  Modulus = 32
  Modulus64 = 64
  ISN = 30
  MAX_PAYLOAD_SIZE = 2
  InitialRTO = 2
  MaxWindow = 4
  MaxTimeouts = 2
INVARIANTS TypeOK OutstandingOK NothingLost TimerRuns BackoffExact LoopsAgree
PROPERTIES WithinWindow LeftEdgeOK
