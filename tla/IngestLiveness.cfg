SPECIFICATION FairSpec
CONSTANTS
  Contents = {c1}
  NoContent = NoContent
  Drains = {w1}
  MaxFileId = 1
  MaxJobId = 2
  PageCount = 2
  MaxRetries = 1
  MaxRequests = 1
  MaxCrashes = 2
  LiveTimeouts = FALSE
  Deletions = FALSE
PROPERTY QueuedFileSettles
PROPERTY OpenJobSettles
CHECK_DEADLOCK FALSE
