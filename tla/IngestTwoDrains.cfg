SPECIFICATION Spec
CONSTANTS
  Contents = {c1}
  NoContent = NoContent
  Drains = {w1, w2}
  MaxFileId = 1
  MaxJobId = 2
  PageCount = 1
  MaxRetries = 1
  MaxRequests = 2
  MaxCrashes = 0
  LiveTimeouts = TRUE
  Deletions = FALSE
SYMMETRY Symmetry
INVARIANT QueuedFileHasWork
INVARIANT FirstAttemptIsExclusive
CHECK_DEADLOCK FALSE
