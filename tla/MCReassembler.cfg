SPECIFICATION Spec
CONSTANTS
  Source <- MCSource
  Byte <- MCByte
  Capacity = 5
  Modulus = 16
  Modulus64 = 256
INVARIANTS TypeOK Integrity BlocksOK PendingExact ClosesAtEnd LoopsAgree StoresWhatFits
PROPERTIES KeepsInWindow Reliable
