SPECIFICATION Spec
CONSTANTS
  v1 = v1
  v2 = v2
  v3 = v3
  k1 = k1
  k2 = k2
  weak = weak
  Calls = {v1, v2, v3}
  Tokens <- RotatedTokens
  KeySets <- Rotation
  Usable = {k1, k2}
  MinRefetchInterval = 2
  Timeout = 2
  MaxSkew = 1
  MaxTime = 3
SYMMETRY CallSymmetry
INVARIANTS
  CacheInv
PROPERTIES
  OlderOnlyWhenLate
  RotationIsSeen
  AcceptedIsValid
CHECK_DEADLOCK FALSE
