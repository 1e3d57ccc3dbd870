SPECIFICATION Spec
CONSTANTS
  Modulus = 8
  Modulus64 = 32
INVARIANT UnwrapIsClosest
PROPERTY NeverLosesTrack
