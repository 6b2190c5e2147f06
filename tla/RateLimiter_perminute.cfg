\* One client and the limit of the issue endpoint: six a minute, in tens of seconds.
SPECIFICATION LimiterSpec
CONSTANTS
  Keys = {k1}
  Limit = 6
  Window = 6
  MaxKeys = 4096
  MaxClock = 12
  Inspected = 32
  Second = 1
INVARIANT
  LimitPerWindow
