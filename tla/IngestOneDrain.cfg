SPECIFICATION Spec
CONSTANTS
  Contents = {c1}
  NoContent = NoContent
  Drains = {w1}
  MaxFileId = 1
  MaxJobId = 3
  PageCount = 2
  MaxRetries = 1
  MaxRequests = 2
  MaxCrashes = 1
  LiveTimeouts = TRUE
  Deletions = FALSE
INVARIANT TypeOK
INVARIANT CompletedIsWhole
 
PROPERTY FinishedJobStaysFinished
PROPERTY CompletedIsSettled
 
CHECK_DEADLOCK FALSE
