----------------------------- MODULE MCServices -----------------------------
(***************************************************************************)
(* One instance for TLC of the components that share nothing with the      *)
(* ingest pipeline or with one another, and of the functions of the code:  *)
(* the initial state chooses the scene, and only the variables of that     *)
(* component move.                                                         *)
(***************************************************************************)
EXTENDS Naturals, Sequences, TLC

CONSTANTS
  \* FaissStore; Threads also of VectorService
  Ids, Threads, Indexer, MaxUpserts, MaxCrashes,
  \* VectorService, QdrantStore
  Chunks, BatchSize, MaxCalls, MaxFaults,
  Points, Tagged, Writers, Reindexers, NoAlias, MaxRequestErrors,
  \* KbAsk
  Asks, Streams, Dialogues, NoDialogue, MaxTokens, MaxSetbacks,
  \* LoraAdapters, LlamaManager
  Adapters, Peft, Default, NoAdapter, Workers, MaxChanges,
  LoraFiles, NoLora, Callers, NoCaller, MaxManaged,
  \* ChatSocket
  Interval, Timeout, PongDelay, MaxClock, MaxRequests,
  \* DatasetRuns
  Corpus, Seeds, HopSize, MaxRows, MaxRuns,
  \* AuthSessions, ModelDownload
  Members, MaxPairs, MaxAttempts, MaxRestarts, MaxTries, MaxDownloads,
  \* LegacyKb, Archives
  SummaryAfter, MemoryWindow, MaxLegacyCalls, MaxLegacyFaults,
  DocIds, MaxBackups, MaxRestores,
  \* ApiIngest
  Documents, Extensions, NoneYet, HttpCalls, Drain, QueueLimit, MaxRetry,
  MaxJobRows, MaxApiCalls, MaxApiFaults

\* What the proofs about the components ask of their constants.
ASSUME ServicesAssumption ==
  /\ Indexer \in Threads
  /\ NoCaller \notin Callers
  \* _HEARTBEAT_TIMEOUT_SECONDS leaves a client that is pinged after an interval the time
  \* within which it is called prompt.
  /\ Interval \in Nat /\ Timeout \in Nat /\ PongDelay \in Nat
  /\ Interval + PongDelay < Timeout
  \* The collection of a reindex is named after the run.
  /\ {"kb", "kb_v1"} \cap Reindexers = {}
  /\ MaxLegacyCalls \in Nat
  \* main refuses a smaller --multi-hop-chunks.
  /\ HopSize \in Nat /\ HopSize >= 2
  /\ Corpus \in Seq(Nat) /\ Seeds \in Seq(Nat)
  \* A request is one to /ask or one to /ask/stream; the event loop's label is neither.
  /\ Asks \cap Streams = {} /\ "not_asking" \notin Streams

VARIABLES
  scene,   \* the component that runs
  payloads, ordered, index, payloadsFile, mappingFile, indexFile, op, acked, split,
  upserts, crashes,
  server, collection, points, fallback, degraded, gauge, vecOp, vecAcked, dropped,
  calls, faults,
  colls, aliasOf, writing, reindex, jobRows, requestErrors,
  dialogues, named, messages, ask, loop, setbacks,
  remote, present, modelFile, serving, cached, active, work, loadFailed, changes,
  lock, llama, adapter, call, broken, managed,
  clock, socket, since, lastPong, inbox, pinged, late, asked,
  script, dataFile, dataRun, dataRuns,
  accounts, tenantOn, pairs, registry, failures, refreshing, signedOut, restarts,
  hasUrl, hubHere, upstream, modelAt, tmpAt, manifest, download, downloads,
  files, indexed, fallbackIndex, exchanges, sinceSummary, memory, legacy, legacyCalls,
  legacyFaults,
  rowsHere, blobsHere, checkpointed, backupRun, archive, backups, owned, dbThere,
  blobsThere, asideThere, restoreRun, restores,
  arranged, shown, pathOf, blobs, jobTable, pending, hand, stranded, taken,
  apiCalls, apiFaults,
  theme, input

\* For TLC, a corpus of three chunks, the first of them the source of two seed questions.
CorpusOfThree == <<1, 2, 3>>
SeedsOfThree == <<1, 1, 2>>

\* Every thread is a process of its own; that of the ingest worker writes, and all search.
F == INSTANCE FaissStore WITH Procs <- Threads, ProcessOf <- [t \in Threads |-> t],
                              Writers <- {Indexer}
V == INSTANCE VectorService WITH op <- vecOp, acked <- vecAcked, registry <- degraded
Q == INSTANCE QdrantStore
K == INSTANCE KbAsk
L == INSTANCE LoraAdapters
G == INSTANCE LlamaManager
S == INSTANCE ChatSocket
D == INSTANCE DatasetRuns
A == INSTANCE AuthSessions
W == INSTANCE ModelDownload
Y == INSTANCE LegacyKb
R == INSTANCE Archives
I == INSTANCE ApiIngest
P == INSTANCE PureFunctions

faissVars == <<payloads, ordered, index, payloadsFile, mappingFile, indexFile, op,
               acked, split, upserts, crashes>>
vectorVars == <<server, collection, points, fallback, degraded, gauge, vecOp, vecAcked,
                dropped, calls, faults>>
qdrantVars == <<colls, aliasOf, writing, reindex, jobRows, requestErrors>>
askVars == <<dialogues, named, messages, ask, loop, setbacks>>
loraVars == <<remote, present, modelFile, serving, cached, active, work, loadFailed,
              changes>>
llamaVars == <<lock, llama, adapter, call, broken, managed>>
socketVars == <<clock, socket, since, lastPong, inbox, pinged, late, asked>>
datasetVars == <<script, dataFile, dataRun, dataRuns>>
authVars == <<accounts, tenantOn, pairs, registry, failures, refreshing, signedOut,
              restarts>>
downloadVars == <<hasUrl, hubHere, upstream, modelAt, tmpAt, manifest, download,
                  downloads>>
legacyVars == <<files, indexed, fallbackIndex, exchanges, sinceSummary, memory, legacy,
                legacyCalls, legacyFaults>>
archiveVars == <<rowsHere, blobsHere, checkpointed, backupRun, archive, backups, owned,
                 dbThere, blobsThere, asideThere, restoreRun, restores>>
apiIngestVars == <<arranged, shown, pathOf, blobs, jobTable, pending, hand, stranded,
                   taken, apiCalls, apiFaults>>
functionVars == <<theme, input>>

Scenes == {"faiss", "vector", "qdrant", "ask", "lora", "llama", "socket", "dataset",
           "auth", "download", "legacy", "archive", "ingest", "function"}

\* The variables of a component that is not in the scene.
Absent == "absent"

Init ==
  /\ scene \in Scenes
  /\ IF scene = "faiss" THEN F!Init ELSE
       /\ payloads = Absent /\ ordered = Absent /\ index = Absent
       /\ payloadsFile = Absent /\ mappingFile = Absent /\ indexFile = Absent
       /\ op = Absent /\ acked = Absent /\ split = Absent /\ upserts = Absent
       /\ crashes = Absent
  /\ IF scene = "vector" THEN V!Init ELSE
       /\ server = Absent /\ collection = Absent /\ points = Absent /\ fallback = Absent
       /\ degraded = Absent /\ gauge = Absent /\ vecOp = Absent /\ vecAcked = Absent
       /\ dropped = Absent /\ calls = Absent /\ faults = Absent
  /\ IF scene = "qdrant" THEN Q!QdInit ELSE
       /\ colls = Absent /\ aliasOf = Absent /\ writing = Absent /\ reindex = Absent
       /\ jobRows = Absent /\ requestErrors = Absent
  /\ IF scene = "ask" THEN K!Init ELSE
       /\ dialogues = Absent /\ named = Absent /\ messages = Absent /\ ask = Absent
       /\ loop = Absent /\ setbacks = Absent
  /\ IF scene = "lora" THEN L!LoraInit ELSE
       /\ remote = Absent /\ present = Absent /\ modelFile = Absent /\ serving = Absent
       /\ cached = Absent /\ active = Absent /\ work = Absent /\ loadFailed = Absent
       /\ changes = Absent
  /\ IF scene = "llama" THEN G!LlamaInit ELSE
       /\ lock = Absent /\ llama = Absent /\ adapter = Absent /\ call = Absent
       /\ broken = Absent /\ managed = Absent
  /\ IF scene = "socket" THEN S!SocketInit ELSE
       /\ clock = Absent /\ socket = Absent /\ since = Absent /\ lastPong = Absent
       /\ inbox = Absent /\ pinged = Absent /\ late = Absent /\ asked = Absent
  /\ IF scene = "dataset" THEN D!DataInit ELSE
       /\ script = Absent /\ dataFile = Absent /\ dataRun = Absent /\ dataRuns = Absent
  /\ IF scene = "auth" THEN A!AuthInit ELSE
       /\ accounts = Absent /\ tenantOn = Absent /\ pairs = Absent /\ registry = Absent
       /\ failures = Absent /\ refreshing = Absent /\ signedOut = Absent
       /\ restarts = Absent
  /\ IF scene = "download" THEN W!DownloadInit ELSE
       /\ hasUrl = Absent /\ hubHere = Absent /\ upstream = Absent /\ modelAt = Absent
       /\ tmpAt = Absent /\ manifest = Absent /\ download = Absent /\ downloads = Absent
  /\ IF scene = "legacy" THEN Y!LegacyInit ELSE
       /\ files = Absent /\ indexed = Absent /\ fallbackIndex = Absent
       /\ exchanges = Absent /\ sinceSummary = Absent /\ memory = Absent
       /\ legacy = Absent /\ legacyCalls = Absent /\ legacyFaults = Absent
  /\ IF scene = "archive" THEN R!ArchiveInit ELSE
       /\ rowsHere = Absent /\ blobsHere = Absent /\ checkpointed = Absent
       /\ backupRun = Absent /\ archive = Absent /\ backups = Absent /\ owned = Absent
       /\ dbThere = Absent /\ blobsThere = Absent /\ asideThere = Absent
       /\ restoreRun = Absent /\ restores = Absent
  /\ IF scene = "ingest" THEN I!ApiIngestInit ELSE
       /\ arranged = Absent /\ shown = Absent /\ pathOf = Absent /\ blobs = Absent
       /\ jobTable = Absent /\ pending = Absent /\ hand = Absent /\ stranded = Absent
       /\ taken = Absent /\ apiCalls = Absent /\ apiFaults = Absent
  /\ IF scene = "function" THEN P!Init ELSE theme = Absent /\ input = Absent

\* The scene stays, and so do the variables of every other component.
Apart(s) ==
  /\ scene = s /\ UNCHANGED scene
  /\ IF s = "faiss" THEN TRUE ELSE UNCHANGED faissVars
  /\ IF s = "vector" THEN TRUE ELSE UNCHANGED vectorVars
  /\ IF s = "qdrant" THEN TRUE ELSE UNCHANGED qdrantVars
  /\ IF s = "ask" THEN TRUE ELSE UNCHANGED askVars
  /\ IF s = "lora" THEN TRUE ELSE UNCHANGED loraVars
  /\ IF s = "llama" THEN TRUE ELSE UNCHANGED llamaVars
  /\ IF s = "socket" THEN TRUE ELSE UNCHANGED socketVars
  /\ IF s = "dataset" THEN TRUE ELSE UNCHANGED datasetVars
  /\ IF s = "auth" THEN TRUE ELSE UNCHANGED authVars
  /\ IF s = "download" THEN TRUE ELSE UNCHANGED downloadVars
  /\ IF s = "legacy" THEN TRUE ELSE UNCHANGED legacyVars
  /\ IF s = "archive" THEN TRUE ELSE UNCHANGED archiveVars
  /\ IF s = "ingest" THEN TRUE ELSE UNCHANGED apiIngestVars
  /\ IF s = "function" THEN TRUE ELSE UNCHANGED functionVars

Next ==
  \/ Apart("faiss") /\ F!Next
  \/ Apart("vector") /\ V!Next
  \/ Apart("qdrant") /\ Q!QdNext
  \/ Apart("ask") /\ K!Next
  \/ Apart("lora") /\ L!LoraNext
  \/ Apart("llama") /\ G!LlamaNext
  \/ Apart("socket") /\ S!SocketNext
  \/ Apart("dataset") /\ D!DataNext
  \/ Apart("auth") /\ A!AuthNext
  \/ Apart("download") /\ W!DownloadNext
  \/ Apart("legacy") /\ Y!LegacyNext
  \/ Apart("archive") /\ R!ArchiveNext
  \/ Apart("ingest") /\ I!ApiIngestNext
  \/ Apart("function") /\ P!Next

vars == <<scene, faissVars, vectorVars, qdrantVars, askVars, loraVars, llamaVars,
          socketVars, datasetVars, authVars, downloadVars, legacyVars, archiveVars,
          apiIngestVars, functionVars>>
Spec == Init /\ [][Next]_vars

\* The chunks are interchangeable, in both stores, and so are streams and contents.
Symmetry == Permutations(Chunks)

-----------------------------------------------------------------------------
(* Properties: each of the component whose scene it is. *)

\* FaissStore: no search returns the text of one chunk for the vector of another.
HitsAreOfTheirVectors == scene = "faiss" => F!HitsAreOfTheirVectors

\* FaissStore: no chunk of an upsert that returned is lost from files that can be read.
AcknowledgedIsStored == scene = "faiss" => F!AcknowledgedIsStored

\* VectorService: a chunk index_chunks returned for is in the collection or in the list.
IndexedIsKept == scene = "vector" => V!IndexedIsKept

\* QdrantStore: a reindex ends with its collection in place or leaves nothing behind.
ReindexIsAllOrNothing == scene = "qdrant" => Q!ReindexIsAllOrNothing

\* KbAsk: a conversation holds the turns that were answered, and each from one source.
ConversationsAreTrue == scene = "ask" => K!ConversationsAreTrue

\* LoraAdapters and LlamaManager: the model in use has the adapter it is said to have.
ModelHasItsAdapter ==
  /\ scene = "lora" => L!ServingModelIsWhole
  /\ scene = "llama" => G!StatusIsOfTheModel

\* ChatSocket: the heartbeat closes no client that listens and answers its pings.
PromptListenerIsKept == scene = "socket" => S!PromptListenerIsKept

\* DatasetRuns: killed and resumed, a run never asks again for what is on disk.
OneAnswerPerUnit == scene = "dataset" => D!OneAnswerPerUnit

\* AuthSessions: no session of a user is served after the logout of the user.
LogoutEndsSessions == scene = "auth" => A!LogoutEndsSessions

\* ModelDownload: the manifest names the file in place; a failed fetch changes nothing.
ModelIsAccountedFor == scene = "download" => W!ModelIsAccountedFor

\* LegacyKb: files and index, and conversation and memory, tell the same story.
LegacyStoresAgree == scene = "legacy" => Y!LegacyStoresAgree

\* Archives: restores lose no original, and a replacing one leaves its archive only.
RestoreIsExactAndLosesNothing == scene = "archive" => R!RestoreIsExactAndLosesNothing

\* ApiIngest: what the API shows of a file is backed by a row, a coroutine or a blob.
ApiFilesAreBacked == scene = "ingest" => I!ApiFilesAreBacked

\* TextWindows, DocumentText: no text is lost between a file and the prompt.
TextIsKept == scene = "function" => P!TextIsKept

\* UploadGate: what is stored or indexed is what was accepted; the rate limit holds.
UploadsAreAsAccepted == scene = "function" => P!UploadsAreAsAccepted

\* LlmChoice, SettingsEnv, DbEngine, KbSearch: what the operator named is what is used.
ChoicesAreTheOperators == scene = "function" => P!ChoicesAreTheOperators

\* Retrieval, KbSearch: a tenant finds its own chunks, and the best of them.
SearchesFindTheirOwn == scene = "function" => P!SearchesFindTheirOwn

\* KbSearch, DatasetShares, TrainingPairs: a training set holds what was asked for.
DatasetsAreAsAsked == scene = "function" => P!DatasetsAreAsAsked

\* RootApi, FileViews: what the probes, the chat and the lists report agrees.
ReportsAgree == scene = "function" => P!ReportsAgree
=============================================================================
