SPECIFICATION Spec
CONSTANTS
  Source <- MCSource
  Byte <- MCByte
  Capacity = 4
INVARIANTS TypeOK Accounting EndIsLast
PROPERTY Reliable
