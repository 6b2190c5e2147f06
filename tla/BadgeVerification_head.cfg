\* A request while branches, the default branch and the name change hands,
\* b2 is not stored.
SPECIFICATION Spec
CONSTANTS
  b1 = b1
  b2 = b2
  k1 = k1
  k2 = k2
  Calls = {c1}
  Badges = {b1, b2}
  Stored = {b1}
  Intact = {b1}
  Commits = {k1, k2}
  Branches = {main, next}
  Repos = {ours, theirs}
  Ours = ours
  Commit <- TwoCommits
  ExpiresAt <- OneExpires
  None = None
  MaxTime = 1
INVARIANTS
  HeadIsOfThisRequest
\* Every request is answered once: a finite set of requests comes to an end.
CHECK_DEADLOCK FALSE
