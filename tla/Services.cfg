SPECIFICATION Spec
CONSTANTS
  Ids = {p, q}
  Threads = {t1, t2}
  Indexer = t1
  MaxUpserts = 3
  MaxCrashes = 1
  Chunks = {p, q}
  BatchSize = 1
  MaxCalls = 3
  MaxFaults = 2
  Points = {p1, p2}
  Tagged = {p1}
  Writers = {t1}
  Reindexers = {r1, r2}
  NoAlias = NoAlias
  MaxRequestErrors = 1
  Asks = {a1}
  Streams = {p, q}
  Dialogues = {d1}
  NoDialogue = NoDialogue
  MaxTokens = 1
  MaxSetbacks = 1
  Adapters = {l1, l2}
  Peft = {l2}
  Default = l1
  NoAdapter = NoAdapter
  Workers = {w1, w2}
  MaxChanges = 2
  LoraFiles = {f1, f2}
  NoLora = NoLora
  Callers = {k1, k2}
  NoCaller = NoCaller
  MaxManaged = 4
  Interval = 3
  Timeout = 9
  PongDelay = 2
  MaxClock = 18
  MaxRequests = 2
  Corpus <- CorpusOfThree
  Seeds <- SeedsOfThree
  HopSize = 2
  MaxRows = 2
  MaxRuns = 3
  Members = {u1, u2}
  MaxPairs = 2
  MaxAttempts = 2
  MaxRestarts = 1
  MaxTries = 2
  MaxDownloads = 3
  SummaryAfter = 4
  MemoryWindow = 2
  MaxLegacyCalls = 3
  MaxLegacyFaults = 2
  DocIds = {d1, d2}
  MaxBackups = 1
  MaxRestores = 2
  Documents = {p, q}
  Extensions = {e1, e2}
  NoneYet = NoneYet
  HttpCalls = {r1, r2}
  Drain = Drain
  QueueLimit = 1
  MaxRetry = 1
  MaxJobRows = 3
  MaxApiCalls = 3
  MaxApiFaults = 1
SYMMETRY Symmetry
 
INVARIANT AcknowledgedIsStored
INVARIANT IndexedIsKept
 
 
INVARIANT ModelHasItsAdapter
INVARIANT PromptListenerIsKept
INVARIANT OneAnswerPerUnit
INVARIANT LogoutEndsSessions
INVARIANT ModelIsAccountedFor
INVARIANT LegacyStoresAgree
INVARIANT RestoreIsExactAndLosesNothing
INVARIANT ApiFilesAreBacked
INVARIANT TextIsKept
INVARIANT UploadsAreAsAccepted
 
 
INVARIANT DatasetsAreAsAsked
INVARIANT ReportsAgree
CHECK_DEADLOCK FALSE
