SPECIFICATION Spec
CONSTANTS
  Embedders = {hash, ollama}
  NoEmbedder = NoEmbedder
  Servers = {s1}
  Tools = {t1}
  NoTable = NoTable
  ChunkCount = 1
  MaxDocs = 2
  MaxCrashes = 0
  ConcurrentOpen = FALSE
  OnlineReindex = FALSE
PROPERTY RefusalMeansForeignVectors
