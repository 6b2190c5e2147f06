\* Two calls in two processes, two policies; GitHub gives the URL to another repository
\* during a flight, and a process may die.
SPECIFICATION FairSpec
CONSTANTS
  Requests = {r1, r2}
  Instances = {i1, i2}
  Targets = {t1}
  Revisions = {v1, v2}
  Policies = {p1, p2}
  None = None
  MaxMoves = 1
  MaxCrashes = 1
INVARIANTS
  OneBadgePerSubject
  IssuedIsStored
  OneFlightCreates
  PassAnalysisHasBadge
  InFlightIsRunning
  IssuedAsAsked
PROPERTIES
  ImplementsRegistry
  EveryCallAnswered
\* Every call is answered once: a finite set of calls comes to an end.
CHECK_DEADLOCK FALSE
