------------------------------- MODULE KbStore -------------------------------
(***************************************************************************)
(* The store of the lightweight product: one SQLite file and a directory   *)
(* of blobs, opened by server processes (KnowledgeBaseStore behind the     *)
(* endpoints of kb_mvp/documents.py) and by `kb-cli reindex'.              *)
(*                                                                         *)
(* Connections are in autocommit mode (isolation_level=None), so every SQL *)
(* statement is a commit of its own, except in reindex, which begins its   *)
(* transactions itself.  An action is one commit or one effect on the file *)
(* system.  The lock of a store is an object of its process: it orders the *)
(* threads of one server and nobody else.                                  *)
(*                                                                         *)
(* An embedder stands for its signature "name:dimension", which is also    *)
(* what a chunk row records; an embedding is known by who computed it.     *)
(***************************************************************************)
EXTENDS Naturals

CONSTANTS
  Embedders,       \* the embedders a process can be configured with
  NoEmbedder,      \* there is no signature in kv_meta
  Servers,         \* server processes, each with one store instance
  Tools,           \* runs of `kb-cli reindex'
  NoTable,         \* kb_chunks_new does not exist
  ChunkCount,      \* chunks split_text makes of every document
  MaxDocs,         \* bound: documents ever inserted
  MaxCrashes,      \* bound: process crashes
  ConcurrentOpen,  \* may two servers open the store at the same time?
  OnlineReindex    \* does reindex run beside live servers?

ASSUME StoreAssumption ==
  /\ NoEmbedder \notin Embedders
  /\ ChunkCount \in Nat \ {0}
  /\ MaxDocs \in Nat /\ MaxCrashes \in Nat
  /\ ConcurrentOpen \in BOOLEAN /\ OnlineReindex \in BOOLEAN

VARIABLES
  docs,       \* table kb_documents: the ids in it
  marked,     \* ids whose row has has_original_file = 1
  nextId,     \* AUTOINCREMENT: an id is never given twice
  chunks,     \* table kb_chunks
  signature,  \* kv_meta['sig']
  staged,     \* table kb_chunks_new
  blobs,      \* ids d with a file kb_files/<d>.pdf
  server,     \* each server: its place in opening the store
  writer,     \* each server: the add or upload request in progress
  remover,    \* each server: the delete request in progress
  tool,       \* each reindex: its place and local variables
  added,      \* history: documents add_document returned
  unlinked,   \* history: documents whose blob a delete request unlinked
  reindexed,  \* history: has a reindex swapped the chunks?
  crashes     \* crashes so far

rows == <<docs, marked, nextId, chunks>>
requests == <<writer, remover>>
history == <<added, unlinked, reindexed, crashes>>
vars == <<docs, marked, nextId, chunks, signature, staged, blobs, server,
          writer, remover, tool, added, unlinked, reindexed, crashes>>

DocIds == 1 .. MaxDocs
Indexes == 1 .. ChunkCount
Places == [doc : DocIds, index : Indexes]

\* A chunk row.  Equal rows are one element.
Chunk == [doc : DocIds, index : Indexes, embedder : Embedders]
ChunkAt(p, e) == [doc |-> p.doc, index |-> p.index, embedder |-> e]
PlaceOf(c) == [doc |-> c.doc, index |-> c.index]

\* What reindex reads, and what it makes of it.
PlacesFrom(cs, from) == {PlaceOf(c) : c \in {k \in cs : k.doc >= from}}
Embedded(ps, e) == {ChunkAt(p, e) : p \in ps}

-----------------------------------------------------------------------------
(* Processes.                                                               *)

Opening == {"load", "probe", "backfill", "verify", "store"}
ServerState == [pc : Opening \cup {"down", "up", "refused"},
                embedder : Embedders \cup {NoEmbedder},
                found : Embedders \cup {NoEmbedder}]
WriterState == [pc : {"idle", "insert", "rename", "mark"},
                doc : 0 .. MaxDocs, next : 1 .. ChunkCount, pdf : BOOLEAN]
RemoverState == [pc : {"idle", "unlink", "drop"}, doc : 0 .. MaxDocs]
ToolState == [pc : {"idle", "planned", "created", "built"}, from : 0 .. MaxDocs,
              embedder : Embedders \cup {NoEmbedder}, places : SUBSET Places]

DownServer == [pc |-> "down", embedder |-> NoEmbedder, found |-> NoEmbedder]
IdleWriter == [pc |-> "idle", doc |-> 0, next |-> 1, pdf |-> FALSE]
IdleRemover == [pc |-> "idle", doc |-> 0]
IdleTool == [pc |-> "idle", from |-> 0, embedder |-> NoEmbedder, places |-> {}]

Up(s) == server[s].pc = "up"
AtRest(s) == server[s].pc \in {"down", "refused"}
NoToolRuns == \A t \in Tools : tool[t].pc = "idle"

ServerGoto(s, l) == server' = [server EXCEPT ![s].pc = l]
WriterGoto(s, l) == writer' = [writer EXCEPT ![s].pc = l]
WriterDone(s) == writer' = [writer EXCEPT ![s] = IdleWriter]
RemoverDone(s) == remover' = [remover EXCEPT ![s] = IdleRemover]
ToolGoto(t, l) == tool' = [tool EXCEPT ![t].pc = l]
ToolDone(t) == tool' = [tool EXCEPT ![t] = IdleTool]

\* A database of this build, or one an older build filled before kv_meta existed.
Init ==
  /\ \E old \in SUBSET {1}, e \in Embedders :
       /\ docs = old \cap DocIds
       /\ chunks = {[doc |-> d, index |-> i, embedder |-> e] : d \in docs, i \in Indexes}
       /\ nextId = IF docs = {} THEN 1 ELSE 2
  /\ marked = {} /\ blobs = {} /\ signature = NoEmbedder /\ staged = NoTable
  /\ server = [s \in Servers |-> DownServer]
  /\ writer = [s \in Servers |-> IdleWriter]
  /\ remover = [s \in Servers |-> IdleRemover]
  /\ tool = [t \in Tools |-> IdleTool]
  /\ added = docs /\ unlinked = {} /\ reindexed = FALSE /\ crashes = 0

-----------------------------------------------------------------------------
(* Opening the store: KnowledgeBaseStore.__init__.                          *)

openVars == <<rows, staged, blobs, requests, tool, history>>

\* A process starts with the embedder of its configuration; after a refusal
\* get_store() opens again at the next request.
StartServer(s, e) ==
  /\ AtRest(s)
  /\ ConcurrentOpen \/ \A r \in Servers : server[r].pc \notin Opening
  /\ OnlineReindex \/ NoToolRuns
  /\ server' = [server EXCEPT ![s] = [pc |-> "load", embedder |-> e, found |-> NoEmbedder]]
  /\ UNCHANGED <<signature, openVars>>

\* Mutant: a missing signature means a fresh index.
LoadAssumesFresh(s) ==
  /\ server[s].pc = "load"
  /\ ServerGoto(s, "verify")
  /\ UNCHANGED <<signature, openVars>>

LoadSignature(s) ==
  /\ server[s].pc = "load"
  /\ ServerGoto(s, IF signature = NoEmbedder THEN "probe" ELSE "verify")
  /\ UNCHANGED <<signature, openVars>>

\* SELECT embedder, dim FROM kb_chunks LIMIT 1: any row.
ProbeFinds(s) ==
  /\ server[s].pc = "probe"
  /\ \E c \in chunks :
       server' = [server EXCEPT ![s] = [pc |-> "backfill", embedder |-> server[s].embedder,
                                        found |-> c.embedder]]
  /\ UNCHANGED <<signature, openVars>>

ProbeEmpty(s) ==
  /\ server[s].pc = "probe"
  /\ chunks = {}
  /\ ServerGoto(s, "verify")
  /\ UNCHANGED <<signature, openVars>>

Backfill(s) ==
  /\ server[s].pc = "backfill"
  /\ signature' = server[s].found
  /\ ServerGoto(s, "verify")
  /\ UNCHANGED openVars

\* verify_or_store: the embedder of the process against the stored signature.
Verify(s) ==
  /\ server[s].pc = "verify"
  /\ ServerGoto(s, CASE signature = NoEmbedder -> "store"
                     [] signature = server[s].embedder -> "up"
                     [] OTHER -> "refused")
  /\ UNCHANGED <<signature, openVars>>

StoreSignature(s) ==
  /\ server[s].pc = "store"
  /\ signature' = server[s].embedder
  /\ ServerGoto(s, "up")
  /\ UNCHANGED openVars

\* A shutdown lets the requests in progress finish.
StopServer(s) ==
  /\ Up(s) /\ writer[s].pc = "idle" /\ remover[s].pc = "idle"
  /\ server' = [server EXCEPT ![s] = DownServer]
  /\ UNCHANGED <<signature, openVars>>

-----------------------------------------------------------------------------
(* create_document and upload_document.  The document row is visible from   *)
(* its INSERT on; the server's store lock is held until the last chunk.     *)

addVars == <<signature, staged, server, remover, tool, unlinked, reindexed, crashes>>

\* Embedding is done; INSERT INTO kb_documents.
InsertDocument(s, pdf) ==
  /\ Up(s) /\ writer[s].pc = "idle"
  /\ nextId \in DocIds
  /\ docs' = docs \cup {nextId}
  /\ nextId' = nextId + 1
  /\ writer' = [writer EXCEPT ![s] = [pc |-> "insert", doc |-> nextId, next |-> 1, pdf |-> pdf]]
  /\ UNCHANGED <<marked, chunks, blobs, added, addVars>>

\* Mutants: without PRAGMA foreign_keys=ON; the loop inserts one chunk too many.
InsertChunkUnchecked(s) ==
  LET w == writer[s] IN
  /\ w.pc = "insert"
  /\ chunks' = chunks \cup {[doc |-> w.doc, index |-> w.next, embedder |-> server[s].embedder]}
  /\ IF w.next < ChunkCount
     THEN /\ writer' = [writer EXCEPT ![s].next = @ + 1]
          /\ UNCHANGED added
     ELSE /\ WriterDone(s)
          /\ added' = added \cup {w.doc}
  /\ UNCHANGED <<docs, marked, nextId, blobs, addVars>>
InsertChunkOverruns(s) ==
  LET w == writer[s] IN
  /\ w.pc = "insert"
  /\ w.doc \in docs
  /\ chunks' = chunks \cup {[doc |-> w.doc, index |-> w.next, embedder |-> server[s].embedder]}
  /\ writer' = [writer EXCEPT ![s].next = @ + 1]
  /\ UNCHANGED <<docs, marked, nextId, blobs, added, addVars>>

\* INSERT INTO kb_chunks, with PRAGMA foreign_keys=ON.
InsertChunk(s) ==
  LET w == writer[s] IN
  /\ w.pc = "insert"
  /\ w.doc \in docs
  /\ chunks' = chunks \cup {[doc |-> w.doc, index |-> w.next, embedder |-> server[s].embedder]}
  /\ IF w.next < ChunkCount
     THEN /\ writer' = [writer EXCEPT ![s].next = @ + 1]
          /\ UNCHANGED added
     ELSE /\ IF w.pdf THEN WriterGoto(s, "rename") ELSE WriterDone(s)
          /\ added' = added \cup {w.doc}
  /\ UNCHANGED <<docs, marked, nextId, blobs, addVars>>

\* Mutant: an error of rename is swallowed, and the row is marked.
RenameErrorIgnored(s) ==
  /\ writer[s].pc = "rename"
  /\ blobs' \in {blobs, blobs \cup {writer[s].doc}}
  /\ WriterGoto(s, "mark")
  /\ UNCHANGED <<rows, added, addVars>>

\* tmp_blob.rename(final_blob)
RenameBlob(s) ==
  /\ writer[s].pc = "rename"
  /\ blobs' = blobs \cup {writer[s].doc}
  /\ WriterGoto(s, "mark")
  /\ UNCHANGED <<rows, added, addVars>>

\* update_file_metadata
MarkDocument(s) ==
  /\ writer[s].pc = "mark"
  /\ marked' = marked \cup ({writer[s].doc} \cap docs)
  /\ WriterDone(s)
  /\ UNCHANGED <<docs, nextId, chunks, blobs, added, addVars>>

\* An exception (the document is gone, "database is locked", no space for the
\* blob) ends the request; what it has committed stays.
WriterRaises(s) ==
  /\ writer[s].pc # "idle"
  /\ WriterDone(s)
  /\ UNCHANGED <<rows, blobs, added, addVars>>

-----------------------------------------------------------------------------
(* delete_document runs in a thread of the server.                          *)

deleteVars == <<nextId, signature, staged, server, writer, tool, added, reindexed, crashes>>

\* get_document
ReadForDelete(s, d) ==
  /\ Up(s) /\ remover[s].pc = "idle"
  /\ d \in docs
  /\ remover' = [remover EXCEPT ![s] = [pc |-> IF d \in marked THEN "unlink" ELSE "drop", doc |-> d]]
  /\ UNCHANGED <<docs, marked, chunks, blobs, unlinked, deleteVars>>

UnlinkBlob(s) ==
  /\ remover[s].pc = "unlink"
  /\ blobs' = blobs \ {remover[s].doc}
  /\ unlinked' = unlinked \cup {remover[s].doc}
  /\ remover' = [remover EXCEPT ![s].pc = "drop"]
  /\ UNCHANGED <<docs, marked, chunks, deleteVars>>

\* An OSError is logged, and the row is deleted all the same.
UnlinkFails(s) ==
  /\ remover[s].pc = "unlink"
  /\ remover' = [remover EXCEPT ![s].pc = "drop"]
  /\ UNCHANGED <<docs, marked, chunks, blobs, unlinked, deleteVars>>

\* DELETE FROM kb_documents, cascading to the chunks.
DropDocument(s) ==
  LET d == remover[s].doc IN
  /\ remover[s].pc = "drop"
  /\ writer[s].pc # "insert"
  /\ docs' = docs \ {d}
  /\ marked' = marked \ {d}
  /\ chunks' = {c \in chunks : c.doc # d}
  /\ RemoverDone(s)
  /\ UNCHANGED <<blobs, unlinked, deleteVars>>

RemoverRaises(s) ==
  /\ remover[s].pc # "idle"
  /\ RemoverDone(s)
  /\ UNCHANGED <<docs, marked, chunks, blobs, unlinked, deleteVars>>

ServerCrash(s) ==
  /\ ~ AtRest(s)
  /\ crashes < MaxCrashes
  /\ crashes' = crashes + 1
  /\ server' = [server EXCEPT ![s] = DownServer]
  /\ WriterDone(s) /\ RemoverDone(s)
  /\ UNCHANGED <<rows, signature, staged, blobs, tool, added, unlinked, reindexed>>

-----------------------------------------------------------------------------
(* kb-cli reindex --embedder e --from-document-id from                      *)

toolVars == <<docs, marked, nextId, signature, blobs, server, requests, added, unlinked>>

\* Read the chunks and ask for confirmation.
PlanReindex(t, e, from) ==
  /\ tool[t].pc = "idle"
  /\ OnlineReindex \/ \A s \in Servers : AtRest(s)
  /\ tool' = [tool EXCEPT ![t] = [pc |-> "planned", from |-> from, embedder |-> e,
                                  places |-> PlacesFrom(chunks, from)]]
  /\ UNCHANGED <<chunks, staged, reindexed, crashes, toolVars>>

\* --dry-run, "Aborted by user", or an embedder that is not configured.
AbortReindex(t) ==
  /\ tool[t].pc = "planned"
  /\ ToolDone(t)
  /\ UNCHANGED <<chunks, staged, reindexed, crashes, toolVars>>

\* DROP TABLE IF EXISTS kb_chunks_new; CREATE TABLE kb_chunks_new
CreateStaging(t) ==
  /\ tool[t].pc = "planned"
  /\ staged' = {}
  /\ ToolGoto(t, "created")
  /\ UNCHANGED <<chunks, reindexed, crashes, toolVars>>

\* One transaction inserts all the chunks embedded anew.
BuildStaging(t) ==
  /\ tool[t].pc = "created"
  /\ staged # NoTable
  /\ staged' = staged \cup Embedded(tool[t].places, tool[t].embedder)
  /\ ToolGoto(t, "built")
  /\ UNCHANGED <<chunks, reindexed, crashes, toolVars>>

\* Mutant: the DELETE forgets WHERE document_id >= ?.
SwapDeletesAll(t) ==
  /\ tool[t].pc = "built"
  /\ staged # NoTable
  /\ chunks' = staged
  /\ staged' = NoTable
  /\ ToolDone(t)
  /\ reindexed' = TRUE
  /\ UNCHANGED <<crashes, toolVars>>

\* One transaction swaps them in; foreign keys are not enforced here.
SwapChunks(t) ==
  /\ tool[t].pc = "built"
  /\ staged # NoTable
  /\ chunks' = {c \in chunks : c.doc < tool[t].from} \cup staged
  /\ staged' = NoTable
  /\ ToolDone(t)
  /\ reindexed' = TRUE
  /\ UNCHANGED <<crashes, toolVars>>

\* An exception in either transaction: rollback, and drop the staging table.
ReindexRaises(t) ==
  /\ tool[t].pc \in {"created", "built"}
  /\ staged' = NoTable
  /\ ToolDone(t)
  /\ UNCHANGED <<chunks, reindexed, crashes, toolVars>>

ToolCrash(t) ==
  /\ tool[t].pc # "idle"
  /\ crashes < MaxCrashes
  /\ crashes' = crashes + 1
  /\ ToolDone(t)
  /\ UNCHANGED <<chunks, staged, reindexed, toolVars>>

-----------------------------------------------------------------------------
Open(s) ==
  \/ \E e \in Embedders : StartServer(s, e)
  \/ LoadSignature(s) \/ ProbeFinds(s) \/ ProbeEmpty(s) \/ Backfill(s)
  \/ Verify(s) \/ StoreSignature(s) \/ StopServer(s)

Write(s) ==
  \/ \E pdf \in BOOLEAN : InsertDocument(s, pdf)
  \/ InsertChunk(s) \/ RenameBlob(s) \/ MarkDocument(s) \/ WriterRaises(s)

Remove(s) ==
  \/ \E d \in DocIds : ReadForDelete(s, d)
  \/ UnlinkBlob(s) \/ UnlinkFails(s) \/ DropDocument(s) \/ RemoverRaises(s)

Reindex(t) ==
  \/ \E e \in Embedders, from \in DocIds : PlanReindex(t, e, from)
  \/ AbortReindex(t) \/ CreateStaging(t) \/ BuildStaging(t) \/ SwapChunks(t)
  \/ ReindexRaises(t) \/ ToolCrash(t)

Next ==
  \/ \E s \in Servers : Open(s) \/ Write(s) \/ Remove(s) \/ ServerCrash(s)
  \/ \E t \in Tools : Reindex(t)

Spec == Init /\ [][Next]_vars

-----------------------------------------------------------------------------
(* Properties.                                                              *)

\* Every variable has its shape.
TypeOK ==
  /\ docs \subseteq DocIds /\ marked \subseteq DocIds /\ nextId \in 1 .. MaxDocs + 1
  /\ chunks \subseteq Chunk
  /\ signature \in Embedders \cup {NoEmbedder}
  /\ staged = NoTable \/ staged \subseteq Chunk
  /\ blobs \subseteq DocIds
  /\ server \in [Servers -> ServerState]
  /\ writer \in [Servers -> WriterState]
  /\ remover \in [Servers -> RemoverState]
  /\ tool \in [Tools -> ToolState]
  /\ added \subseteq DocIds /\ unlinked \subseteq DocIds
  /\ reindexed \in BOOLEAN /\ crashes \in 0 .. MaxCrashes

\* As long as no reindex has replaced chunks, a server that answers requests
\* compares its query vectors only with vectors of its own embedder: the purpose
\* of _verify_embedder_signature and verify_or_store, also for an index built
\* before signatures were kept, and however servers come and go.
ServedVectorsComparable ==
  ~ reindexed => \A s \in Servers, c \in chunks : Up(s) => c.embedder = server[s].embedder

\* A document that add_document returned has all its chunks until it is deleted,
\* whatever requests, crashes and reindexes (not beside live servers) do to others.
AddedIsWhole ==
  \A d \in added \cap docs, i \in Indexes : \E c \in chunks : c.doc = d /\ c.index = i

\* Every chunk belongs to a document in the table: a delete by another process
\* in the middle of add_document leaves no chunk behind.
NoOrphanChunks == \A c \in chunks : c.doc \in docs

\* A row with has_original_file = 1 has its blob, unless a delete request unlinked
\* the blob and did not come to delete the row.
MarkedRowHasBlob == \A d \in marked \cap docs : d \in blobs \cup unlinked

\* embedder_signature.py:47-50: to a server that is refused, `kb-cli reindex' is
\* named as the way out.  So a refusal means that some vector is of another
\* embedder (or that there is none).
RefusalMeansForeignVectors ==
  [][\A s \in Servers :
       server[s].pc = "verify" /\ server'[s].pc = "refused"
         => chunks = {} \/ \E c \in chunks : c.embedder # server[s].embedder]_vars
=============================================================================
