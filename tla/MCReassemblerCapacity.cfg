SPECIFICATION Safety
CONSTANTS
  Source <- MCSource
  Byte <- MCByte
  Capacity = 4
  Modulus = 16
  Modulus64 = 256
INVARIANT WithinCapacity
