SPECIFICATION Spec
CONSTANTS
  Contents = {c1, c2}
  NoContent = NoContent
  Drains = {w1}
  MaxFileId = 1
  MaxJobId = 3
  PageCount = 1
  MaxRetries = 1
  MaxRequests = 3
  MaxCrashes = 1
  LiveTimeouts = TRUE
  Deletions = TRUE
PROPERTY VanishedFileStopsJob
CHECK_DEADLOCK FALSE
