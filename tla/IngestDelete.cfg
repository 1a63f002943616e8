SPECIFICATION Spec
CONSTANTS
  Contents = {c1, c2}
  NoContent = NoContent
  Drains = {w1}
  MaxFileId = 2
  MaxJobId = 2
  PageCount = 1
  MaxRetries = 1
  MaxRequests = 3
  MaxCrashes = 1
  LiveTimeouts = FALSE
  Deletions = TRUE
SYMMETRY Symmetry
INVARIANT QueuedFileHasWork
CHECK_DEADLOCK FALSE
