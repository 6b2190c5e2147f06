\* The reviews of ReviewSession.cfg: what the screen tells of the calls of the AI.
SPECIFICATION Spec
CONSTANTS
  draftable = draftable
  other = other
  byHand = byHand
  ours = ours
  folder = folder
  None = None
  Items = {draftable, other, byHand}
  Required = {draftable}
  Verifiable = {draftable, other}
  Features = {"sensitive", "lesson"}
  When <- ThreeItems
  Sensitive = {"sensitive"}
  Personal = {}
  Apps = {ours, folder}
  Pinned = {ours}
  ChunksOf <- TwoChunks
  Hits <- WaryOfFolder
  Offered = {"ok", "na"}
  Given <- TwoAnswers
  Seen <- OneFlag
  MaxReviews = 2
  MaxMoves = 2
INVARIANT
  UsageIsBilled
\* A reviewer who has made the moves of the bound may be done.
CHECK_DEADLOCK FALSE
