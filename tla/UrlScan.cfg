\* Two scans; bodies shorter than the limit, as long, and longer.
SPECIFICATION FairSpec
CONSTANTS
  Targets = {t1, t2}
  Bad = Bad
  None = None
  HeaderChecks = {"tls"}
  BodyLimit = 1
  MaxBody = 2
  ScanLimit = 1
  AiLimit = 1
  MaxScans = 2
  MaxMoves = 5
INVARIANTS
  ShownIsOfField
  SentAsMeant
  CoverageIsTrue
PROPERTIES
  ScanEnds
\* The user may stop.
CHECK_DEADLOCK FALSE
