SPECIFICATION Spec
CONSTANTS
  Contents = {c1}
  NoContent = NoContent
  Drains = {w1, w2}
  MaxFileId = 1
  MaxJobId = 3
  PageCount = 1
  MaxRetries = 1
  MaxRequests = 1
  MaxCrashes = 1
  LiveTimeouts = TRUE
  Deletions = FALSE
PROPERTY ClaimYieldsToCompetitor
CHECK_DEADLOCK FALSE
