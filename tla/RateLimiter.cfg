\* Three clients share two entries; a window is three units, a second two.
SPECIFICATION LimiterSpec
CONSTANTS
  Keys = {k1, k2, k3}
  Limit = 2
  Window = 3
  MaxKeys = 2
  MaxClock = 7
  Inspected = 1
  Second = 2
SYMMETRY Symmetry
INVARIANTS
  SlidingBound
  RetryIsEnough
PROPERTIES
  ForgetsLeastRecent
