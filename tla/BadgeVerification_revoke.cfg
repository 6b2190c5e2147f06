\* Two requests about two badges: b1 expires, the proof of b2 does not match its
\* snapshot; the branch is pushed to.
SPECIFICATION FairSpec
CONSTANTS
  b1 = b1
  b2 = b2
  k1 = k1
  k2 = k2
  Calls = {c1, c2}
  Badges = {b1, b2}
  Stored = {b1, b2}
  Intact = {b1}
  Commits = {k1, k2}
  Branches = {main}
  Repos = {ours}
  Ours = ours
  Commit <- TwoCommits
  ExpiresAt <- OneExpires
  None = None
  MaxTime = 1
INVARIANTS
  OneRevocation
  RevokeAnswerIsFinal
PROPERTIES
  RevocationStands
  EveryRequestEnds
\* Every request is answered once: a finite set of requests comes to an end.
CHECK_DEADLOCK FALSE
