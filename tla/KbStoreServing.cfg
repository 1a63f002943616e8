SPECIFICATION Spec
CONSTANTS
  Embedders = {hash, ollama}
  NoEmbedder = NoEmbedder
  Servers = {s1, s2}
  Tools = {t1}
  NoTable = NoTable
  ChunkCount = 2
  MaxDocs = 2
  MaxCrashes = 2
  ConcurrentOpen = FALSE
  OnlineReindex = FALSE
SYMMETRY Symmetry
INVARIANT TypeOK
INVARIANT ServedVectorsComparable
INVARIANT AddedIsWhole
INVARIANT NoOrphanChunks
INVARIANT MarkedRowHasBlob
