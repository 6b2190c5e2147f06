\* Three runs and two faults: two failed moves, or one and a killed process.
SPECIFICATION Spec
CONSTANTS
  Items <- TwoItems
  Subs <- TheirSubs
  Criteria = {"1-1"}
  Mapped <- OneCriterion
  None = None
  Files <- FourFiles
  Drafted <- Reports
  HistoryLimit = 1
  MaxRuns = 3
  MaxFaults = 2
INVARIANTS
  RenderedIsHonest
  TopIsWhole
  FailureIsUndone
  FoundIsKept
\* The runs are bounded, and a report that was swapped in may be the last.
CHECK_DEADLOCK FALSE
