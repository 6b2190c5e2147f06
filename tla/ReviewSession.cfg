\* Two reviews of a repository of two chunks and a folder of one, in any order.
SPECIFICATION FairSpec
CONSTANTS
  draftable = draftable
  other = other
  byHand = byHand
  ours = ours
  folder = folder
  None = None
  Items = {draftable, other, byHand}
  Required = {draftable}
  Verifiable = {draftable, other}
  Features = {"sensitive", "lesson"}
  When <- ThreeItems
  Sensitive = {"sensitive"}
  Personal = {}
  Apps = {ours, folder}
  Pinned = {ours}
  ChunksOf <- TwoChunks
  Hits <- WaryOfFolder
  Offered = {"ok", "na"}
  Given <- TwoAnswers
  Seen <- OneFlag
  MaxReviews = 2
  MaxMoves = 2
INVARIANTS
  OnlyThisReview
  SavedIsCurrent
  CertificationIsOfThisRequest
  PassIsGrounded
PROPERTIES
  DraftsStand
  BusyEnds
\* A reviewer who has made the moves of the bound may be done.
CHECK_DEADLOCK FALSE
