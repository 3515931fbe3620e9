SPECIFICATION Spec
CONSTANTS
  a = a
  b = b
  far = far
  Contents = {a, b, far}
  Sources = {vault}
  Distance <- MCDistance
  Threshold <- MCThreshold
  TopK <- MCTopK
  MaxCalls = 3
  MaxFaults = 1
INVARIANTS
  NearPairsMeet
  OneVerdict
PROPERTIES
  StoredIsCompared
CHECK_DEADLOCK FALSE
