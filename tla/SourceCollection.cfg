\* Commits at and beyond each limit: five entries, three files, three units of bytes, of
\* which two in a file, and two levels.
SPECIFICATION Spec
CONSTANTS
  Commits <- Contents
  Policies <- SomePolicies
  MaxDepth = 1
  MaxEntries = 5
  MaxFiles = 3
  MaxFileBytes = 2
  MaxTotalBytes = 3
  FetchConcurrency = 2
  MaxChanges = 2
  None = None
INVARIANTS
  PassIsClean
  FailIsGrounded
\* An analysis ends.
CHECK_DEADLOCK FALSE
