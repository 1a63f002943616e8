---------------------------- MODULE KbStoreProofs ----------------------------
(***************************************************************************)
(* Proofs about KbStore for every number of servers, embedders, documents, *)
(* chunks and crashes.                                                     *)
(*                                                                         *)
(* Three inductive invariants.  RequestInv holds in every deployment: only *)
(* a live server has requests, ids are given out in order, and a renamed   *)
(* blob is there when its row is marked.  IndexInv holds when servers open *)
(* the store one at a time: what the opening server has read is still so   *)
(* when it acts on it.  WholeInv holds when one reindex runs at a time and *)
(* not beside live servers: its plan is still the content of kb_chunks     *)
(* when it swaps.                                                          *)
(***************************************************************************)
EXTENDS KbStore, TLAPS

\* Only a server that is up has requests, and they are about ids given out.
RequestsOK ==
  \A s \in Servers :
    /\ writer[s].pc # "idle" => Up(s) /\ writer[s].doc \in DocIds /\ writer[s].doc < nextId
    /\ remover[s].pc # "idle" => Up(s) /\ remover[s].doc \in DocIds

\* A process at work knows its embedder.
NamesOK ==
  /\ \A s \in Servers : /\ server[s].pc # "down" => server[s].embedder \in Embedders
                        /\ server[s].pc = "backfill" => server[s].found \in Embedders
  /\ \A t \in Tools : tool[t].pc # "idle" => tool[t].embedder \in Embedders

\* Ids are given out in order, and only rows are marked.
IdsOK == (\A d \in docs \cup added : d < nextId) /\ marked \subseteq docs

\* A blob that was renamed is there when its row is marked.
RenamedOK == \A s \in Servers : writer[s].pc = "mark" => writer[s].doc \in blobs \cup unlinked

RequestInv == TypeOK /\ RequestsOK /\ NamesOK /\ IdsOK /\ RenamedOK /\ MarkedRowHasBlob

-----------------------------------------------------------------------------
\* The signature describes the index, and the one opening server knows it.
OneOpening == \A r, s \in Servers : server[r].pc \in Opening /\ server[s].pc \in Opening => r = s

ServedOK == \A s \in Servers : Up(s) => signature = server[s].embedder /\ signature # NoEmbedder

IndexOK ==
  /\ signature # NoEmbedder => \A c \in chunks : c.embedder = signature
  /\ \A c, k \in chunks : c.embedder = k.embedder
  /\ \A s \in Servers :
       /\ server[s].pc = "backfill" => \A c \in chunks : c.embedder = server[s].found
       /\ server[s].pc \in {"verify", "store"} /\ signature = NoEmbedder => chunks = {}

OpenerOK ==
  \A s \in Servers : server[s].pc \in {"probe", "backfill", "store"} => signature = NoEmbedder

IndexInv == OneOpening /\ ServedOK /\ OpenerOK /\ (~ reindexed => IndexOK)

-----------------------------------------------------------------------------
\* A reindex that runs finds the chunks as it read them.
ToolsOK ==
  \A t \in Tools :
    tool[t].pc # "idle" =>
      /\ \A s \in Servers : AtRest(s)
      /\ tool[t].places = PlacesFrom(chunks, tool[t].from)
      /\ tool[t].pc = "created" => staged = {}
      /\ tool[t].pc = "built" => staged = Embedded(tool[t].places, tool[t].embedder)

HasChunk(d, i) == \E c \in chunks : c.doc = d /\ c.index = i

\* An add in progress has inserted the chunks before its next one.
PrefixOK ==
  \A s \in Servers :
    writer[s].pc = "insert" /\ writer[s].doc \in docs =>
      \A i \in Indexes : i < writer[s].next => HasChunk(writer[s].doc, i)

WholeInv == ToolsOK /\ PrefixOK /\ AddedIsWhole /\ NoOrphanChunks

-----------------------------------------------------------------------------
(* Type correctness.                                                        *)

LEMMA IdleStates ==
  /\ DownServer \in ServerState
  /\ IdleWriter \in WriterState
  /\ IdleRemover \in RemoverState
  /\ IdleTool \in ToolState
  BY StoreAssumption DEF DownServer, ServerState, IdleWriter, WriterState, IdleRemover,
     RemoverState, IdleTool, ToolState

LEMMA TypeInit == Init => TypeOK
<1> SUFFICES ASSUME Init PROVE TypeOK
  OBVIOUS
<1>1. PICK old \in SUBSET {1}, e \in Embedders :
        /\ docs = old \cap DocIds
        /\ chunks = {[doc |-> d, index |-> i, embedder |-> e] : d \in docs, i \in Indexes}
        /\ nextId = IF docs = {} THEN 1 ELSE 2
  BY DEF Init
<1>2. docs \subseteq DocIds /\ nextId \in 1 .. MaxDocs + 1
  BY <1>1, StoreAssumption DEF DocIds
<1>3. chunks \subseteq Chunk
  BY <1>1, <1>2 DEF Chunk
<1>4. /\ server \in [Servers -> ServerState] /\ writer \in [Servers -> WriterState]
      /\ remover \in [Servers -> RemoverState] /\ tool \in [Tools -> ToolState]
  BY IdleStates DEF Init
<1>5. /\ marked \subseteq DocIds /\ signature \in Embedders \cup {NoEmbedder}
      /\ staged = NoTable /\ blobs \subseteq DocIds /\ added \subseteq DocIds
      /\ unlinked \subseteq DocIds /\ reindexed \in BOOLEAN
  BY <1>2 DEF Init
<1>6. crashes \in 0 .. MaxCrashes
  BY StoreAssumption DEF Init
<1> QED BY <1>2, <1>3, <1>4, <1>5, <1>6 DEF TypeOK

\* Every step keeps the shape of the variables.
LEMMA TypeNext == TypeOK /\ RequestsOK /\ NamesOK /\ [Next]_vars => TypeOK'
<1> SUFFICES ASSUME TypeOK, RequestsOK, NamesOK, [Next]_vars PROVE TypeOK'
  OBVIOUS
<1> USE StoreAssumption, IdleStates
<1>1. ASSUME NEW s \in Servers, Open(s) PROVE TypeOK'
  <2>0. UNCHANGED openVars
    BY <1>1 DEF Open, StartServer, LoadSignature, ProbeFinds, ProbeEmpty, Backfill, Verify,
       StoreSignature, StopServer
  <2>1. server' \in [Servers -> ServerState]
    <3>0. server[s] \in ServerState
      BY DEF TypeOK
    <3>1. ASSUME NEW l \in Opening \cup {"up", "refused"}, ServerGoto(s, l)
          PROVE  server' \in [Servers -> ServerState]
      <4>1. [server[s] EXCEPT !.pc = l] \in ServerState
        BY <3>0 DEF ServerState
      <4> QED BY <3>1, <4>1 DEF TypeOK, ServerGoto
    <3>2. ASSUME NEW e \in Embedders, StartServer(s, e) PROVE server' \in [Servers -> ServerState]
      <4>1. [pc |-> "load", embedder |-> e, found |-> NoEmbedder] \in ServerState
        BY DEF ServerState, Opening
      <4> QED BY <3>2, <4>1 DEF StartServer, TypeOK
    <3>3. CASE ProbeFinds(s)
      <4>1. PICK c \in chunks :
              server' = [server EXCEPT ![s] = [pc |-> "backfill", embedder |-> server[s].embedder,
                                               found |-> c.embedder]]
        BY <3>3 DEF ProbeFinds
      <4>2. [pc |-> "backfill", embedder |-> server[s].embedder, found |-> c.embedder] \in ServerState
        BY <3>0 DEF TypeOK, Chunk, ServerState, Opening
      <4> QED BY <4>1, <4>2 DEF TypeOK
    <3>4. CASE Verify(s)
      <4>1. \E l \in Opening \cup {"up", "refused"} : ServerGoto(s, l)
        BY <3>4, Zenon DEF Verify, Opening
      <4> QED BY <3>1, <4>1
    <3>5. CASE StopServer(s)
      BY <3>5 DEF StopServer, TypeOK
    <3>6. CASE LoadSignature(s) \/ ProbeEmpty(s) \/ Backfill(s) \/ StoreSignature(s)
      <4>1. \E l \in Opening \cup {"up", "refused"} : ServerGoto(s, l)
        BY <3>6 DEF LoadSignature, ProbeEmpty, Backfill, StoreSignature, Opening
      <4> QED BY <3>1, <4>1
    <3> QED BY <1>1, <3>2, <3>3, <3>4, <3>5, <3>6 DEF Open
  <2>2. signature' \in Embedders \cup {NoEmbedder}
    BY <1>1 DEF Open, StartServer, LoadSignature, ProbeFinds, ProbeEmpty, Backfill, Verify,
       StoreSignature, StopServer, TypeOK, ServerState
  <2> QED BY <2>0, <2>1, <2>2 DEF TypeOK, openVars, rows, requests, history
<1>2. ASSUME NEW s \in Servers, Write(s) PROVE TypeOK'
  <2>0. writer[s] \in WriterState
    BY DEF TypeOK
  <2>1. ASSUME NEW l \in {"rename", "mark"}, WriterGoto(s, l) PROVE writer' \in [Servers -> WriterState]
    <3>1. [writer[s] EXCEPT !.pc = l] \in WriterState
      BY <2>0 DEF WriterState
    <3> QED BY <2>1, <3>1 DEF TypeOK, WriterGoto
  <2>2. WriterDone(s) => writer' \in [Servers -> WriterState]
    BY DEF TypeOK, WriterDone
  <2>3. ASSUME NEW pdf \in BOOLEAN, InsertDocument(s, pdf) PROVE TypeOK'
    <3>1. [pc |-> "insert", doc |-> nextId, next |-> 1, pdf |-> pdf] \in WriterState
      BY <2>3 DEF InsertDocument, DocIds, WriterState
    <3>2. writer' \in [Servers -> WriterState]
      BY <2>3, <3>1 DEF InsertDocument, TypeOK
    <3>3. docs' \subseteq DocIds /\ nextId' \in 1 .. MaxDocs + 1
      BY <2>3 DEF InsertDocument, TypeOK, DocIds
    <3> QED BY <2>3, <3>2, <3>3 DEF InsertDocument, addVars, TypeOK
  <2>4. CASE InsertChunk(s)
    <3>1. writer[s].doc \in DocIds /\ writer[s].next \in Indexes /\ server[s].embedder \in Embedders
      BY <2>0, <2>4 DEF InsertChunk, TypeOK, WriterState, Indexes, RequestsOK, NamesOK, Up
    <3>2. chunks' \subseteq Chunk
      BY <2>4, <3>1 DEF InsertChunk, TypeOK, Chunk
    <3>3. added' \subseteq DocIds
      BY <2>4, <3>1 DEF InsertChunk, TypeOK
    <3>4. writer' \in [Servers -> WriterState]
      <4>1. CASE writer[s].next < ChunkCount
        <5>1. [writer[s] EXCEPT !.next = writer[s].next + 1] \in WriterState
          BY <2>0, <4>1 DEF WriterState
        <5> QED BY <2>4, <4>1, <5>1 DEF InsertChunk, TypeOK
      <4>2. CASE ~ (writer[s].next < ChunkCount)
        BY <2>1, <2>2, <2>4, <4>2 DEF InsertChunk
      <4> QED BY <4>1, <4>2
    <3> QED BY <2>4, <3>2, <3>3, <3>4 DEF InsertChunk, addVars, TypeOK
  <2>5. CASE RenameBlob(s)
    BY <2>5, <2>1 DEF RenameBlob, addVars, rows, TypeOK, RequestsOK
  <2>6. CASE MarkDocument(s)
    BY <2>6, <2>2 DEF MarkDocument, addVars, TypeOK
  <2>7. CASE WriterRaises(s)
    BY <2>7, <2>2 DEF WriterRaises, addVars, rows, TypeOK
  <2> QED BY <1>2, <2>3, <2>4, <2>5, <2>6, <2>7 DEF Write
<1>3. ASSUME NEW s \in Servers, Remove(s) PROVE TypeOK'
  <2>0. remover[s] \in RemoverState
    BY DEF TypeOK
  <2>1. ASSUME NEW d \in DocIds, ReadForDelete(s, d) PROVE TypeOK'
    <3>1. [pc |-> IF d \in marked THEN "unlink" ELSE "drop", doc |-> d] \in RemoverState
      BY StoreAssumption DEF RemoverState, DocIds
    <3>2. remover' \in [Servers -> RemoverState]
      BY <2>1, <3>1 DEF ReadForDelete, TypeOK
    <3> QED BY <2>1, <3>2 DEF ReadForDelete, deleteVars, TypeOK
  <2>2. remover[s].pc = "unlink" => [remover[s] EXCEPT !.pc = "drop"] \in RemoverState
    BY <2>0 DEF RemoverState
  <2>3. CASE UnlinkBlob(s)
    <3>1. remover' \in [Servers -> RemoverState]
      BY <2>2, <2>3 DEF UnlinkBlob, TypeOK
    <3>2. unlinked' \subseteq DocIds
      BY <2>0, <2>3 DEF UnlinkBlob, TypeOK, RequestsOK
    <3> QED BY <2>3, <3>1, <3>2 DEF UnlinkBlob, deleteVars, TypeOK
  <2>4. CASE UnlinkFails(s)
    BY <2>2, <2>4 DEF UnlinkFails, deleteVars, TypeOK
  <2>5. CASE DropDocument(s)
    BY <2>5 DEF DropDocument, RemoverDone, deleteVars, TypeOK
  <2>6. CASE RemoverRaises(s)
    BY <2>6 DEF RemoverRaises, RemoverDone, deleteVars, TypeOK
  <2> QED BY <1>3, <2>1, <2>3, <2>4, <2>5, <2>6 DEF Remove
<1>4. ASSUME NEW s \in Servers, ServerCrash(s) PROVE TypeOK'
  BY <1>4 DEF ServerCrash, WriterDone, RemoverDone, rows, TypeOK
<1>5. ASSUME NEW t \in Tools, Reindex(t) PROVE TypeOK'
  <2>0. tool[t] \in ToolState
    BY DEF TypeOK
  <2>1. ASSUME NEW l \in {"created", "built"}, ToolGoto(t, l) PROVE tool' \in [Tools -> ToolState]
    <3>1. [tool[t] EXCEPT !.pc = l] \in ToolState
      BY <2>0 DEF ToolState
    <3> QED BY <2>1, <3>1 DEF TypeOK, ToolGoto
  <2>2. ToolDone(t) => tool' \in [Tools -> ToolState]
    BY DEF TypeOK, ToolDone
  <2>3. ASSUME NEW e \in Embedders, NEW from \in DocIds, PlanReindex(t, e, from) PROVE TypeOK'
    <3>1. PlacesFrom(chunks, from) \in SUBSET Places
      BY DEF TypeOK, Chunk, PlacesFrom, PlaceOf, Places
    <3>2. [pc |-> "planned", from |-> from, embedder |-> e,
           places |-> PlacesFrom(chunks, from)] \in ToolState
      BY <3>1 DEF ToolState, DocIds
    <3>3. tool' \in [Tools -> ToolState]
      BY <2>3, <3>2 DEF PlanReindex, TypeOK
    <3> QED BY <2>3, <3>3 DEF PlanReindex, toolVars, requests, TypeOK
  <2>4. CASE AbortReindex(t)
    BY <2>2, <2>4 DEF AbortReindex, toolVars, requests, TypeOK
  <2>5. CASE CreateStaging(t)
    BY <2>1, <2>5 DEF CreateStaging, toolVars, requests, TypeOK
  <2>6. CASE BuildStaging(t)
    <3>1. tool[t].places \subseteq Places /\ tool[t].embedder \in Embedders
      BY <2>0, <2>6 DEF BuildStaging, ToolState, NamesOK
    <3>2. Embedded(tool[t].places, tool[t].embedder) \subseteq Chunk
      BY <3>1 DEF Embedded, ChunkAt, Places, Chunk
    <3> QED BY <2>1, <2>6, <3>2 DEF BuildStaging, toolVars, requests, TypeOK
  <2>7. CASE SwapChunks(t)
    BY <2>2, <2>7 DEF SwapChunks, toolVars, requests, TypeOK
  <2>8. CASE ReindexRaises(t) \/ ToolCrash(t)
    BY <2>2, <2>8 DEF ReindexRaises, ToolCrash, toolVars, requests, TypeOK
  <2> QED BY <1>5, <2>3, <2>4, <2>5, <2>6, <2>7, <2>8 DEF Reindex
<1>6. CASE UNCHANGED vars
  BY <1>6 DEF vars, TypeOK
<1> QED BY <1>1, <1>2, <1>3, <1>4, <1>5, <1>6 DEF Next

-----------------------------------------------------------------------------
(* RequestInv: every deployment.                                            *)

LEMMA RequestInit == Init => RequestInv
<1> SUFFICES ASSUME Init PROVE RequestInv
  OBVIOUS
<1>1. IdsOK
  BY DEF Init, IdsOK
<1>2. RequestsOK /\ NamesOK /\ RenamedOK
  BY DEF Init, RequestsOK, NamesOK, RenamedOK, DownServer, IdleWriter, IdleRemover, IdleTool
<1>3. MarkedRowHasBlob
  BY DEF Init, MarkedRowHasBlob
<1> QED BY <1>1, <1>2, <1>3, TypeInit DEF RequestInv

\* Opening the store touches no request.
LEMMA OpenKeepsRequests ==
  ASSUME RequestInv, NEW s \in Servers, Open(s)
  PROVE  RequestsOK' /\ NamesOK' /\ IdsOK' /\ RenamedOK' /\ MarkedRowHasBlob'
<1> USE DEF RequestInv
<1>0. UNCHANGED openVars
  BY DEF Open, StartServer, LoadSignature, ProbeFinds, ProbeEmpty, Backfill, Verify,
     StoreSignature, StopServer
<1>1. IdsOK' /\ RenamedOK' /\ MarkedRowHasBlob'
  BY <1>0 DEF openVars, rows, requests, history, IdsOK, RenamedOK, MarkedRowHasBlob
<1>2. \A r \in Servers : r # s => server'[r] = server[r]
  BY DEF Open, StartServer, LoadSignature, ProbeFinds, ProbeEmpty, Backfill, Verify,
     StoreSignature, StopServer, ServerGoto, TypeOK
<1>3. writer[s].pc # "idle" \/ remover[s].pc # "idle" => Up(s) /\ server'[s] = server[s]
  BY DEF RequestsOK, Open, StartServer, LoadSignature, ProbeFinds, ProbeEmpty, Backfill, Verify,
     StoreSignature, StopServer, ServerGoto, TypeOK, AtRest, Up
<1>4. RequestsOK'
  BY <1>0, <1>2, <1>3 DEF RequestsOK, openVars, rows, requests, Up
<1>5. server'[s].pc # "down" => server'[s].embedder \in Embedders
  BY DEF Open, StartServer, LoadSignature, ProbeFinds, ProbeEmpty, Backfill, Verify,
     StoreSignature, StopServer, ServerGoto, NamesOK, DownServer, TypeOK, ServerState
<1>6. server'[s].pc = "backfill" => server'[s].found \in Embedders
  <2>1. CASE ProbeFinds(s)
    BY <2>1 DEF ProbeFinds, TypeOK, Chunk
  <2>2. CASE ~ ProbeFinds(s)
    BY <2>2 DEF Open, StartServer, LoadSignature, ProbeEmpty, Backfill, Verify,
       StoreSignature, StopServer, ServerGoto, DownServer, TypeOK, ServerState
  <2> QED BY <2>1, <2>2
<1> QED BY <1>0, <1>1, <1>2, <1>4, <1>5, <1>6 DEF NamesOK, openVars

LEMMA WriteKeepsRequests ==
  ASSUME RequestInv, NEW s \in Servers, Write(s)
  PROVE  RequestsOK' /\ NamesOK' /\ IdsOK' /\ RenamedOK' /\ MarkedRowHasBlob'
<1> USE DEF RequestInv
<1>0. UNCHANGED addVars /\ \A r \in Servers : r # s => writer'[r] = writer[r]
  BY DEF Write, InsertDocument, InsertChunk, RenameBlob, MarkDocument, WriterRaises,
     WriterGoto, WriterDone, TypeOK
<1>1. NamesOK'
  BY <1>0 DEF addVars, NamesOK
<1>2. Up(s) /\ (nextId' = nextId \/ nextId' = nextId + 1) /\ nextId \in Nat
  BY DEF Write, InsertDocument, InsertChunk, RenameBlob, MarkDocument, WriterRaises, rows,
     RequestsOK, TypeOK
<1>3. writer'[s].pc # "idle" => writer'[s].doc \in DocIds /\ writer'[s].doc < nextId'
  <2>1. ASSUME NEW pdf \in BOOLEAN, InsertDocument(s, pdf)
        PROVE  writer'[s].doc \in DocIds /\ writer'[s].doc < nextId'
    BY <1>2, <2>1 DEF InsertDocument, TypeOK
  <2>2. CASE InsertChunk(s) \/ RenameBlob(s) \/ MarkDocument(s) \/ WriterRaises(s)
    <3>1. writer[s].pc # "idle" /\ nextId' = nextId
      BY <2>2 DEF InsertChunk, RenameBlob, MarkDocument, WriterRaises, rows
    <3>2. writer'[s].pc = "idle" \/ writer'[s].doc = writer[s].doc
      BY <2>2 DEF InsertChunk, RenameBlob, MarkDocument, WriterRaises, WriterGoto, WriterDone,
         IdleWriter, TypeOK, WriterState
    <3> QED BY <3>1, <3>2 DEF RequestsOK
  <2> QED BY <2>1, <2>2 DEF Write
<1>4. RequestsOK'
  <2>1. server' = server /\ remover' = remover
    BY <1>0 DEF addVars
  <2>2. ASSUME NEW r \in Servers, r # s, writer'[r].pc # "idle"
        PROVE  writer'[r].doc \in DocIds /\ writer'[r].doc < nextId' /\ Up(r)
    <3>1. writer[r].doc \in DocIds /\ writer[r].doc < nextId /\ Up(r)
      BY <1>0, <2>2 DEF RequestsOK
    <3> QED BY <1>0, <1>2, <2>2, <3>1 DEF DocIds
  <2> QED BY <1>2, <1>3, <2>1, <2>2 DEF RequestsOK, Up
<1>5. IdsOK'
  <2>1. docs' \subseteq docs \cup {nextId} /\ (docs' = docs \/ nextId' = nextId + 1)
    BY DEF Write, InsertDocument, InsertChunk, RenameBlob, MarkDocument, WriterRaises, rows
  <2>2. added' \subseteq added \cup {writer[s].doc}
    BY DEF Write, InsertDocument, InsertChunk, RenameBlob, MarkDocument, WriterRaises, rows
  <2>3. added' = added \/ writer[s].doc < nextId
    BY DEF Write, InsertDocument, InsertChunk, RenameBlob, MarkDocument, WriterRaises, RequestsOK
  <2>4. docs \cup added \subseteq Nat /\ writer[s].doc \in Nat
    BY DEF TypeOK, DocIds, WriterState
  <2>5. marked' \subseteq docs'
    BY DEF Write, InsertDocument, InsertChunk, RenameBlob, MarkDocument, WriterRaises, rows, IdsOK
  <2> QED BY <1>2, <2>1, <2>2, <2>3, <2>4, <2>5 DEF IdsOK
<1>6. RenamedOK' /\ MarkedRowHasBlob'
  <2>1. ASSUME NEW pdf \in BOOLEAN, InsertDocument(s, pdf) PROVE RenamedOK' /\ MarkedRowHasBlob'
    <3>1. marked' = marked /\ marked \subseteq docs
      BY <2>1 DEF InsertDocument, IdsOK
    <3> QED BY <1>0, <2>1, <3>1 DEF InsertDocument, addVars, RenamedOK, MarkedRowHasBlob, TypeOK
  <2>2. CASE InsertChunk(s)
    <3>1. writer'[s].pc # "mark"
      BY <2>2 DEF InsertChunk, WriterGoto, WriterDone, IdleWriter, TypeOK, WriterState
    <3> QED BY <1>0, <2>2, <3>1 DEF InsertChunk, addVars, RenamedOK, MarkedRowHasBlob
  <2>3. CASE RenameBlob(s)
    BY <1>0, <2>3 DEF RenameBlob, WriterGoto, addVars, rows, RenamedOK, MarkedRowHasBlob, TypeOK,
       WriterState
  <2>4. CASE MarkDocument(s)
    BY <1>0, <2>4 DEF MarkDocument, WriterDone, IdleWriter, addVars, RenamedOK, MarkedRowHasBlob,
       TypeOK
  <2>5. CASE WriterRaises(s)
    BY <1>0, <2>5 DEF WriterRaises, WriterDone, IdleWriter, addVars, rows, RenamedOK,
       MarkedRowHasBlob, TypeOK
  <2> QED BY <2>1, <2>2, <2>3, <2>4, <2>5 DEF Write
<1> QED BY <1>1, <1>4, <1>5, <1>6

LEMMA RemoveKeepsRequests ==
  ASSUME RequestInv, NEW s \in Servers, Remove(s)
  PROVE  RequestsOK' /\ NamesOK' /\ IdsOK' /\ RenamedOK' /\ MarkedRowHasBlob'
<1> USE DEF RequestInv
<1>0. UNCHANGED deleteVars /\ \A r \in Servers : r # s => remover'[r] = remover[r]
  BY DEF Remove, ReadForDelete, UnlinkBlob, UnlinkFails, DropDocument, RemoverRaises, RemoverDone,
     TypeOK
<1>1. NamesOK'
  BY <1>0 DEF deleteVars, NamesOK
<1>2. Up(s) /\ (remover'[s].pc # "idle" => remover'[s].doc \in DocIds)
  BY DEF Remove, ReadForDelete, UnlinkBlob, UnlinkFails, DropDocument, RemoverRaises, RemoverDone,
     IdleRemover, RequestsOK, TypeOK, RemoverState
<1>3. RequestsOK'
  BY <1>0, <1>2 DEF deleteVars, RequestsOK, Up
<1>4. /\ docs' \subseteq docs /\ marked' \subseteq marked /\ marked' \subseteq docs'
      /\ blobs \cup unlinked \subseteq blobs' \cup unlinked'
  BY DEF Remove, ReadForDelete, UnlinkBlob, UnlinkFails, DropDocument, RemoverRaises, IdsOK
<1> QED BY <1>0, <1>1, <1>3, <1>4 DEF deleteVars, IdsOK, RenamedOK, MarkedRowHasBlob

LEMMA CrashKeepsRequests ==
  ASSUME RequestInv, NEW s \in Servers, ServerCrash(s)
  PROVE  RequestsOK' /\ NamesOK' /\ IdsOK' /\ RenamedOK' /\ MarkedRowHasBlob'
<1> USE DEF RequestInv
<1>1. UNCHANGED <<rows, blobs, tool, added, unlinked>>
  BY DEF ServerCrash
<1>2. \A r \in Servers : r # s => UNCHANGED <<server[r], writer[r], remover[r]>>
  BY DEF ServerCrash, WriterDone, RemoverDone, TypeOK
<1>3. server'[s] = DownServer /\ writer'[s] = IdleWriter /\ remover'[s] = IdleRemover
  BY DEF ServerCrash, WriterDone, RemoverDone, TypeOK
<1>4. RequestsOK'
  BY <1>1, <1>2, <1>3 DEF RequestsOK, IdleWriter, IdleRemover, Up, rows
<1>5. NamesOK' /\ RenamedOK'
  BY <1>1, <1>2, <1>3 DEF NamesOK, RenamedOK, DownServer, IdleWriter
<1>6. IdsOK' /\ MarkedRowHasBlob'
  BY <1>1 DEF IdsOK, MarkedRowHasBlob, rows
<1> QED BY <1>4, <1>5, <1>6

LEMMA ReindexKeepsRequests ==
  ASSUME RequestInv, NEW t \in Tools, Reindex(t)
  PROVE  RequestsOK' /\ NamesOK' /\ IdsOK' /\ RenamedOK' /\ MarkedRowHasBlob'
<1> USE DEF RequestInv
<1>1. UNCHANGED toolVars
  BY DEF Reindex, PlanReindex, AbortReindex, CreateStaging, BuildStaging, SwapChunks,
     ReindexRaises, ToolCrash
<1>2. RequestsOK' /\ IdsOK' /\ RenamedOK' /\ MarkedRowHasBlob'
  BY <1>1 DEF toolVars, requests, RequestsOK, Up, IdsOK, RenamedOK, MarkedRowHasBlob
<1>3. \A u \in Tools : u # t => tool'[u] = tool[u]
  BY DEF Reindex, PlanReindex, AbortReindex, CreateStaging, BuildStaging, SwapChunks,
     ReindexRaises, ToolCrash, ToolGoto, ToolDone, TypeOK
<1>4. tool'[t].pc # "idle" => tool'[t].embedder \in Embedders
  BY DEF Reindex, PlanReindex, AbortReindex, CreateStaging, BuildStaging, SwapChunks,
     ReindexRaises, ToolCrash, ToolGoto, ToolDone, IdleTool, TypeOK, ToolState, NamesOK
<1> QED BY <1>1, <1>2, <1>3, <1>4 DEF NamesOK, toolVars

LEMMA RequestNext == RequestInv /\ [Next]_vars => RequestInv'
<1> SUFFICES ASSUME RequestInv, [Next]_vars PROVE RequestInv'
  OBVIOUS
<1>1. TypeOK'
  BY TypeNext DEF RequestInv
<1>2. CASE UNCHANGED vars
  BY <1>1, <1>2 DEF vars, RequestInv, RequestsOK, Up, NamesOK, IdsOK, RenamedOK, MarkedRowHasBlob
<1>3. CASE Next
  BY <1>1, <1>3, OpenKeepsRequests, WriteKeepsRequests, RemoveKeepsRequests, CrashKeepsRequests,
     ReindexKeepsRequests DEF Next, RequestInv
<1> QED BY <1>2, <1>3

\* Every reachable state satisfies the invariant of the requests.
LEMMA RequestsCorrect == Spec => []RequestInv
  BY RequestInit, RequestNext, PTL DEF Spec

\* Every variable keeps its shape.
THEOREM StoreTypeCorrect == Spec => []TypeOK
<1>1. RequestInv => TypeOK
  BY DEF RequestInv
<1> QED BY <1>1, RequestsCorrect, PTL

\* In every deployment a row that names a blob has it, or a delete request has
\* unlinked it: upload marks the row after the rename, and ids are not reused.
THEOREM MarkedRowsHaveBlobs == Spec => []MarkedRowHasBlob
<1>1. RequestInv => MarkedRowHasBlob
  BY DEF RequestInv
<1> QED BY <1>1, RequestsCorrect, PTL

-----------------------------------------------------------------------------
(* IndexInv: servers open the store one at a time.                          *)

LEMMA IndexInit == Init => IndexInv
<1> SUFFICES ASSUME Init PROVE IndexInv
  OBVIOUS
<1>1. \A s \in Servers : server[s].pc = "down"
  BY DEF Init, DownServer
<1>2. OneOpening /\ ServedOK /\ OpenerOK
  BY <1>1 DEF OneOpening, ServedOK, OpenerOK, Opening, Up
<1>3. \A c, k \in chunks : c.embedder = k.embedder
  BY DEF Init
<1>4. signature = NoEmbedder
  BY DEF Init
<1> QED BY <1>1, <1>2, <1>3, <1>4 DEF IndexInv, IndexOK

LEMMA OpenKeepsIndex ==
  ASSUME RequestInv, IndexInv, ConcurrentOpen = FALSE, NEW s \in Servers, Open(s)
  PROVE  IndexInv'
<1> USE DEF RequestInv, IndexInv
<1>0. UNCHANGED openVars
  BY DEF Open, StartServer, LoadSignature, ProbeFinds, ProbeEmpty, Backfill, Verify,
     StoreSignature, StopServer
<1>1. \A r \in Servers : r # s => server'[r] = server[r]
  BY DEF Open, StartServer, LoadSignature, ProbeFinds, ProbeEmpty, Backfill, Verify,
     StoreSignature, StopServer, ServerGoto, TypeOK
<1>2. OneOpening'
  <2>1. ASSUME server'[s].pc \in Opening, NEW r \in Servers, r # s PROVE server[r].pc \notin Opening
    BY <2>1 DEF Open, StartServer, LoadSignature, ProbeFinds, ProbeEmpty, Backfill, Verify,
       StoreSignature, StopServer, ServerGoto, OneOpening, Opening, TypeOK, DownServer
  <2> QED BY <1>1, <2>1 DEF OneOpening
<1>3. signature' = signature \/ (/\ signature = NoEmbedder
                                 /\ server[s].pc \in {"backfill", "store"}
                                 /\ signature' \in Embedders)
  BY DEF Open, StartServer, LoadSignature, ProbeFinds, ProbeEmpty, Backfill, Verify,
     StoreSignature, StopServer, OpenerOK, NamesOK
<1>4. ServedOK'
  <2>1. server'[s].pc = "up" => signature' = server'[s].embedder /\ signature' # NoEmbedder
    BY StoreAssumption DEF Open, StartServer, LoadSignature, ProbeFinds, ProbeEmpty, Backfill, Verify,
       StoreSignature, StopServer, ServerGoto, DownServer, TypeOK, ServerState, NamesOK
  <2> QED BY <1>1, <1>3, <2>1 DEF ServedOK, Up
<1>5. OpenerOK'
  <2>1. server'[s].pc \in {"probe", "backfill", "store"} => signature' = NoEmbedder
    BY DEF Open, StartServer, LoadSignature, ProbeFinds, ProbeEmpty, Backfill, Verify,
       StoreSignature, StopServer, ServerGoto, DownServer, TypeOK, ServerState, OpenerOK
  <2>2. signature' # signature => \A r \in Servers : r # s => server[r].pc \notin Opening
    BY <1>3 DEF OneOpening, Opening
  <2> QED BY <1>1, <2>1, <2>2 DEF OpenerOK, Opening
<1>6. ~ reindexed' => IndexOK'
  <2> SUFFICES ASSUME ~ reindexed' PROVE IndexOK'
    OBVIOUS
  <2>1. IndexOK /\ chunks' = chunks
    BY <1>0 DEF openVars, rows, history
  <2>2. signature' # NoEmbedder => \A c \in chunks : c.embedder = signature'
    BY <2>1 DEF IndexOK, Open, StartServer, LoadSignature, ProbeFinds, ProbeEmpty, Backfill, Verify,
       StoreSignature, StopServer, OpenerOK
  <2>3. server'[s].pc = "backfill" => \A c \in chunks : c.embedder = server'[s].found
    <3>1. CASE ProbeFinds(s)
      BY <2>1, <3>1 DEF ProbeFinds, IndexOK, TypeOK
    <3>2. CASE ~ ProbeFinds(s)
      BY <3>2 DEF Open, StartServer, LoadSignature, ProbeEmpty, Backfill, Verify,
         StoreSignature, StopServer, ServerGoto, DownServer, TypeOK, ServerState
    <3> QED BY <3>1, <3>2
  <2>4. server'[s].pc \in {"verify", "store"} /\ signature' = NoEmbedder => chunks = {}
    BY <2>1, StoreAssumption DEF IndexOK, Open, StartServer, LoadSignature, ProbeFinds, ProbeEmpty,
       Backfill, Verify, StoreSignature, StopServer, ServerGoto, DownServer, TypeOK, ServerState, NamesOK
  <2>5. ASSUME NEW r \in Servers, r # s, server'[r].pc \in {"verify", "store"}, signature' = NoEmbedder
        PROVE  chunks = {}
    BY <1>1, <1>3, <2>1, <2>5, StoreAssumption DEF IndexOK
  <2>6. ASSUME NEW r \in Servers, r # s, server'[r].pc = "backfill"
        PROVE  \A c \in chunks : c.embedder = server'[r].found
    BY <1>1, <2>1, <2>6 DEF IndexOK
  <2> QED BY <2>1, <2>2, <2>3, <2>4, <2>5, <2>6 DEF IndexOK
<1> QED BY <1>2, <1>4, <1>5, <1>6

\* No other step opens a store or touches the signature.
LEMMA OthersKeepIndex ==
  ASSUME RequestInv, IndexInv, [Next]_vars, ~ (\E s \in Servers : Open(s))
  PROVE  IndexInv'
<1> USE DEF RequestInv, IndexInv
<1>1. ASSUME NEW s \in Servers, Write(s) PROVE IndexInv'
  <2>1. UNCHANGED <<server, signature, reindexed>>
    BY <1>1 DEF Write, InsertDocument, InsertChunk, RenameBlob, MarkDocument, WriterRaises, addVars
  <2>2. OneOpening' /\ ServedOK' /\ OpenerOK'
    BY <2>1 DEF OneOpening, ServedOK, OpenerOK, Up
  <2>3. chunks' = chunks
          \/ /\ Up(s)
             /\ \E c \in Chunk : chunks' = chunks \cup {c} /\ c.embedder = server[s].embedder
    <3>1. CASE InsertChunk(s)
      <4>1. [doc |-> writer[s].doc, index |-> writer[s].next, embedder |-> server[s].embedder] \in Chunk
        BY <3>1 DEF InsertChunk, RequestsOK, NamesOK, Up, TypeOK, WriterState, Chunk, Indexes
      <4> QED BY <3>1, <4>1 DEF InsertChunk, RequestsOK
    <3>2. CASE ~ InsertChunk(s)
      BY <1>1, <3>2 DEF Write, InsertDocument, RenameBlob, MarkDocument, WriterRaises, rows
    <3> QED BY <3>1, <3>2
  <2>4. CASE chunks' = chunks
    BY <2>1, <2>2, <2>4 DEF IndexOK
  <2>5. ASSUME Up(s), NEW c \in Chunk, chunks' = chunks \cup {c}, c.embedder = server[s].embedder,
               ~ reindexed
        PROVE  IndexOK'
    <3>1. signature # NoEmbedder /\ signature = c.embedder
      BY <2>5 DEF ServedOK
    <3>2. \A k \in chunks' : k.embedder = signature
      BY <2>5, <3>1 DEF IndexOK
    <3>3. \A r \in Servers : server[r].pc # "backfill"
      BY <3>1 DEF OpenerOK
    <3> QED BY <2>1, <3>1, <3>2, <3>3 DEF IndexOK
  <2> QED BY <2>1, <2>2, <2>3, <2>4, <2>5
<1>2. ASSUME NEW s \in Servers, Remove(s) PROVE IndexInv'
  <2>1. UNCHANGED <<server, signature, reindexed>> /\ chunks' \subseteq chunks
    BY <1>2 DEF Remove, ReadForDelete, UnlinkBlob, UnlinkFails, DropDocument, RemoverRaises, deleteVars
  <2> QED BY <2>1 DEF OneOpening, ServedOK, OpenerOK, Up, IndexOK
<1>3. ASSUME NEW s \in Servers, ServerCrash(s) PROVE IndexInv'
  <2>1. UNCHANGED <<chunks, signature, reindexed>>
    BY <1>3 DEF ServerCrash, rows
  <2>2. server'[s].pc = "down" /\ \A r \in Servers : r # s => server'[r] = server[r]
    BY <1>3 DEF ServerCrash, DownServer, TypeOK
  <2>3. OneOpening' /\ ServedOK' /\ OpenerOK'
    BY <2>1, <2>2 DEF OneOpening, Opening, ServedOK, OpenerOK, Up
  <2>4. IndexOK => IndexOK'
    BY <2>1, <2>2 DEF IndexOK
  <2> QED BY <2>1, <2>3, <2>4
<1>4. ASSUME NEW t \in Tools, Reindex(t) PROVE IndexInv'
  <2>1. UNCHANGED toolVars /\ (UNCHANGED <<chunks, reindexed>> \/ reindexed')
    BY <1>4 DEF Reindex, PlanReindex, AbortReindex, CreateStaging, BuildStaging, SwapChunks,
       ReindexRaises, ToolCrash
  <2> QED BY <2>1 DEF toolVars, OneOpening, ServedOK, OpenerOK, Up, IndexOK
<1>5. CASE UNCHANGED vars
  BY <1>5 DEF vars, OneOpening, ServedOK, OpenerOK, Up, IndexOK
<1> QED BY <1>1, <1>2, <1>3, <1>4, <1>5 DEF Next

\* When servers open the store one at a time, a server whose start-up check
\* passed never meets a foreign vector, until a reindex replaces the chunks.
THEOREM ServedVectorsAreComparable ==
  ASSUME ConcurrentOpen = FALSE
  PROVE  Spec => []ServedVectorsComparable
<1>1. RequestInv /\ IndexInv /\ [Next]_vars => IndexInv'
  BY OpenKeepsIndex, OthersKeepIndex
<1>2. IndexInv => ServedVectorsComparable
  BY DEF IndexInv, ServedOK, IndexOK, ServedVectorsComparable, Up
<1> QED BY <1>1, <1>2, IndexInit, RequestsCorrect, PTL DEF Spec

-----------------------------------------------------------------------------
(* WholeInv: one reindex at a time, not beside live servers.                *)

OneTool == \A t, u \in Tools : t = u

LEMMA WholeInit == Init => WholeInv
<1> SUFFICES ASSUME Init PROVE WholeInv
  OBVIOUS
<1>1. PICK e \in Embedders :
        chunks = {[doc |-> d, index |-> i, embedder |-> e] : d \in docs, i \in Indexes}
  BY DEF Init
<1>2. AddedIsWhole
  <2>1. ASSUME NEW d \in added \cap docs, NEW i \in Indexes
        PROVE  \E c \in chunks : c.doc = d /\ c.index = i
    <3>1. [doc |-> d, index |-> i, embedder |-> e] \in chunks
      BY <1>1, <2>1
    <3> QED BY <3>1
  <2> QED BY <2>1 DEF AddedIsWhole
<1>3. NoOrphanChunks
  BY <1>1 DEF NoOrphanChunks
<1>4. ToolsOK /\ PrefixOK
  BY DEF Init, ToolsOK, PrefixOK, IdleTool, IdleWriter
<1> QED BY <1>2, <1>3, <1>4 DEF WholeInv

\* A server that opens the store finds no reindex at work.
LEMMA OpenKeepsWhole ==
  ASSUME RequestInv, WholeInv, OnlineReindex = FALSE, NEW s \in Servers, Open(s)
  PROVE  WholeInv'
<1> USE DEF RequestInv, WholeInv
<1>1. UNCHANGED openVars
  BY DEF Open, StartServer, LoadSignature, ProbeFinds, ProbeEmpty, Backfill, Verify,
     StoreSignature, StopServer
<1>2. PrefixOK' /\ AddedIsWhole' /\ NoOrphanChunks'
  BY <1>1 DEF openVars, rows, requests, history, PrefixOK, HasChunk, AddedIsWhole, NoOrphanChunks
<1>3. NoToolRuns
  BY DEF Open, StartServer, LoadSignature, ProbeFinds, ProbeEmpty, Backfill, Verify,
     StoreSignature, StopServer, ToolsOK, AtRest, Up, NoToolRuns
<1>4. ToolsOK'
  BY <1>1, <1>3 DEF openVars, NoToolRuns, ToolsOK
<1> QED BY <1>2, <1>4

\* A live server means that no reindex is at work.
LEMMA WriteKeepsWhole ==
  ASSUME RequestInv, WholeInv, NEW s \in Servers, Write(s)
  PROVE  WholeInv'
<1> USE DEF RequestInv, WholeInv
<1>1. UNCHANGED addVars /\ \A r \in Servers : r # s => writer'[r] = writer[r]
  BY DEF Write, InsertDocument, InsertChunk, RenameBlob, MarkDocument, WriterRaises,
     WriterGoto, WriterDone, TypeOK
<1>2. Up(s)
  BY DEF Write, InsertDocument, InsertChunk, RenameBlob, MarkDocument, WriterRaises, RequestsOK
<1>3. ToolsOK'
  BY <1>1, <1>2 DEF addVars, ToolsOK, AtRest, Up
<1>4. ASSUME NEW pdf \in BOOLEAN, InsertDocument(s, pdf)
      PROVE  PrefixOK' /\ AddedIsWhole' /\ NoOrphanChunks'
  <2>1. /\ docs' = docs \cup {nextId} /\ UNCHANGED <<chunks, added>>
        /\ writer'[s].doc = nextId /\ writer'[s].next = 1
    BY <1>4 DEF InsertDocument, TypeOK
  <2>2. nextId \in Nat /\ nextId \notin added
          /\ \A r \in Servers : writer[r].pc # "idle" => writer[r].doc # nextId
    BY DEF IdsOK, RequestsOK, TypeOK, DocIds
  <2>3. PrefixOK'
    BY <1>1, <2>1, <2>2 DEF PrefixOK, HasChunk, Indexes
  <2> QED BY <2>1, <2>2, <2>3 DEF AddedIsWhole, NoOrphanChunks
<1>5. CASE InsertChunk(s)
  <2>1. PICK c : /\ c = [doc |-> writer[s].doc, index |-> writer[s].next,
                         embedder |-> server[s].embedder]
                 /\ chunks' = chunks \cup {c}
    BY <1>5 DEF InsertChunk
  <2>2. docs' = docs /\ writer[s].doc \in docs /\ writer[s].pc = "insert"
    BY <1>5 DEF InsertChunk
  <2>3. writer[s].next \in Indexes
    BY DEF TypeOK, WriterState, Indexes
  <2>4. ASSUME NEW d, NEW i, \E k \in chunks : k.doc = d /\ k.index = i
        PROVE  \E k \in chunks' : k.doc = d /\ k.index = i
    BY <2>1, <2>4
  <2>5. \E k \in chunks' : k.doc = writer[s].doc /\ k.index = writer[s].next
    BY <2>1
  <2>6. \A i \in Indexes : i < writer[s].next \/ i = writer[s].next
          => \E k \in chunks' : k.doc = writer[s].doc /\ k.index = i
    BY <2>2, <2>4, <2>5 DEF PrefixOK, HasChunk
  <2>7. NoOrphanChunks'
    BY <2>1, <2>2 DEF NoOrphanChunks
  <2>8. ASSUME NEW r \in Servers, r # s, writer'[r].pc = "insert", writer'[r].doc \in docs',
               NEW i \in Indexes, i < writer'[r].next
        PROVE  \E k \in chunks' : k.doc = writer'[r].doc /\ k.index = i
    BY <1>1, <2>2, <2>4, <2>8 DEF PrefixOK, HasChunk
  <2>9. CASE writer[s].next < ChunkCount
    <3>1. writer'[s].doc = writer[s].doc /\ writer'[s].next = writer[s].next + 1 /\ added' = added
      BY <1>5, <2>9 DEF InsertChunk, TypeOK, WriterState
    <3>2. ASSUME NEW i \in Indexes, i < writer'[s].next
          PROVE  \E k \in chunks' : k.doc = writer'[s].doc /\ k.index = i
      <4>1. i < writer[s].next \/ i = writer[s].next
        BY <2>3, <3>1, <3>2 DEF Indexes
      <4> QED BY <2>6, <3>1, <4>1
    <3>3. PrefixOK'
      BY <2>8, <3>2 DEF PrefixOK, HasChunk
    <3>4. AddedIsWhole'
      BY <2>2, <2>4, <3>1 DEF AddedIsWhole
    <3> QED BY <2>7, <3>3, <3>4, <1>3
  <2>10. CASE ~ (writer[s].next < ChunkCount)
    <3>1. writer'[s].pc # "insert" /\ added' = added \cup {writer[s].doc}
      BY <1>5, <2>10 DEF InsertChunk, WriterGoto, WriterDone, IdleWriter, TypeOK, WriterState
    <3>2. \A i \in Indexes : i < writer[s].next \/ i = writer[s].next
      BY <2>3, <2>10, StoreAssumption DEF Indexes
    <3>3. ASSUME NEW d \in added' \cap docs', NEW i \in Indexes
          PROVE  \E k \in chunks' : k.doc = d /\ k.index = i
      <4>1. CASE d = writer[s].doc
        BY <2>6, <3>2, <4>1
      <4>2. CASE d # writer[s].doc
        BY <2>2, <2>4, <3>1, <3>3, <4>2 DEF AddedIsWhole
      <4> QED BY <4>1, <4>2
    <3>4. AddedIsWhole'
      BY <3>3 DEF AddedIsWhole
    <3>5. PrefixOK'
      BY <2>8, <3>1 DEF PrefixOK, HasChunk
    <3> QED BY <2>7, <3>4, <3>5, <1>3
  <2> QED BY <2>9, <2>10
<1>6. CASE RenameBlob(s) \/ MarkDocument(s) \/ WriterRaises(s)
  <2>1. UNCHANGED <<docs, chunks, added>> /\ writer'[s].pc # "insert"
    BY <1>6 DEF RenameBlob, MarkDocument, WriterRaises, rows, WriterGoto, WriterDone, IdleWriter,
       TypeOK, WriterState
  <2>2. ASSUME NEW r \in Servers, writer'[r].pc = "insert" PROVE writer'[r] = writer[r]
    BY <1>1, <2>1, <2>2
  <2>3. PrefixOK'
    BY <2>1, <2>2 DEF PrefixOK, HasChunk
  <2>4. AddedIsWhole' /\ NoOrphanChunks'
    BY <2>1 DEF AddedIsWhole, NoOrphanChunks
  <2> QED BY <1>3, <2>3, <2>4
<1> QED BY <1>1, <1>3, <1>4, <1>5, <1>6 DEF Write

LEMMA RemoveKeepsWhole ==
  ASSUME RequestInv, WholeInv, NEW s \in Servers, Remove(s)
  PROVE  WholeInv'
<1> USE DEF RequestInv, WholeInv
<1>1. UNCHANGED deleteVars
  BY DEF Remove, ReadForDelete, UnlinkBlob, UnlinkFails, DropDocument, RemoverRaises
<1>2. Up(s)
  BY DEF Remove, ReadForDelete, UnlinkBlob, UnlinkFails, DropDocument, RemoverRaises, RequestsOK
<1>3. ToolsOK'
  BY <1>1, <1>2 DEF deleteVars, ToolsOK, AtRest, Up
<1>4. CASE DropDocument(s)
  <2>1. PICK d : docs' = docs \ {d} /\ chunks' = {c \in chunks : c.doc # d}
    BY <1>4 DEF DropDocument
  <2>2. NoOrphanChunks'
    BY <2>1 DEF NoOrphanChunks
  <2>3. AddedIsWhole'
    BY <1>1, <2>1 DEF deleteVars, AddedIsWhole
  <2>4. PrefixOK'
    BY <1>1, <2>1 DEF deleteVars, PrefixOK, HasChunk
  <2> QED BY <1>3, <2>2, <2>3, <2>4
<1>5. CASE ~ DropDocument(s)
  <2>1. UNCHANGED <<docs, chunks>>
    BY <1>5 DEF Remove, ReadForDelete, UnlinkBlob, UnlinkFails, RemoverRaises
  <2>2. PrefixOK' /\ AddedIsWhole' /\ NoOrphanChunks'
    BY <1>1, <2>1 DEF deleteVars, PrefixOK, HasChunk, AddedIsWhole, NoOrphanChunks
  <2> QED BY <1>3, <2>2
<1> QED BY <1>4, <1>5

LEMMA CrashKeepsWhole ==
  ASSUME RequestInv, WholeInv, NEW s \in Servers, ServerCrash(s)
  PROVE  WholeInv'
<1> USE DEF RequestInv, WholeInv
<1>1. UNCHANGED <<docs, chunks, staged, tool, added>>
  BY DEF ServerCrash, rows
<1>2. ToolsOK'
  BY <1>1 DEF ServerCrash, ToolsOK
<1>3. writer'[s].pc = "idle" /\ \A r \in Servers : r # s => writer'[r] = writer[r]
  BY DEF ServerCrash, WriterDone, IdleWriter, TypeOK
<1>4. PrefixOK'
  BY <1>1, <1>3 DEF PrefixOK, HasChunk
<1>5. AddedIsWhole' /\ NoOrphanChunks'
  BY <1>1 DEF AddedIsWhole, NoOrphanChunks
<1> QED BY <1>2, <1>4, <1>5

\* A reindex that swaps replaces each chunk it read, and nobody has changed the
\* chunks since it read them.
LEMMA ReindexKeepsWhole ==
  ASSUME RequestInv, WholeInv, OneTool, OnlineReindex = FALSE, NEW t \in Tools, Reindex(t)
  PROVE  WholeInv'
<1> USE DEF RequestInv, WholeInv
<1>1. UNCHANGED toolVars
  BY DEF Reindex, PlanReindex, AbortReindex, CreateStaging, BuildStaging, SwapChunks,
     ReindexRaises, ToolCrash
<1>2. \A s \in Servers : AtRest(s) /\ writer[s].pc = "idle"
  <2>1. \A s \in Servers : AtRest(s)
    BY DEF Reindex, PlanReindex, AbortReindex, CreateStaging, BuildStaging, SwapChunks,
       ReindexRaises, ToolCrash, ToolsOK
  <2> QED BY <2>1 DEF AtRest, Up, RequestsOK
<1>3. PrefixOK'
  BY <1>1, <1>2 DEF toolVars, requests, PrefixOK
<1>4. \A s \in Servers : AtRest(s)'
  BY <1>1, <1>2 DEF toolVars, AtRest
<1>5. CASE SwapChunks(t)
  <2> DEFINE e == tool[t].embedder
             from == tool[t].from
  <2>1. /\ tool[t].places = PlacesFrom(chunks, from)
        /\ staged = Embedded(tool[t].places, e)
        /\ chunks' = {c \in chunks : c.doc < from} \cup staged
    BY <1>5 DEF SwapChunks, ToolsOK
  <2>2. ToolsOK'
    <3>1. tool'[t].pc = "idle"
      BY <1>5 DEF SwapChunks, ToolDone, IdleTool, TypeOK
    <3> QED BY <3>1 DEF OneTool, ToolsOK
  <2>3. NoOrphanChunks'
    <3>1. \A c \in staged : c.doc \in docs
      BY <2>1 DEF Embedded, PlacesFrom, ChunkAt, PlaceOf, NoOrphanChunks
    <3> QED BY <1>1, <2>1, <3>1 DEF toolVars, NoOrphanChunks
  <2>4. ASSUME NEW c \in chunks PROVE \E k \in chunks' : k.doc = c.doc /\ k.index = c.index
    <3>1. CASE c.doc < from
      BY <2>1, <3>1
    <3>2. CASE c.doc >= from
      <4>1. ChunkAt(PlaceOf(c), e) \in staged
        BY <2>1, <3>2 DEF Embedded, PlacesFrom
      <4>2. ChunkAt(PlaceOf(c), e).doc = c.doc /\ ChunkAt(PlaceOf(c), e).index = c.index
        BY DEF ChunkAt, PlaceOf
      <4> QED BY <2>1, <4>1, <4>2
    <3>3. c.doc \in Nat /\ from \in Nat
      BY DEF TypeOK, Chunk, DocIds, ToolState
    <3> QED BY <3>1, <3>2, <3>3
  <2>5. AddedIsWhole'
    BY <1>1, <2>4 DEF toolVars, AddedIsWhole
  <2> QED BY <1>3, <2>2, <2>3, <2>5
<1>6. CASE ~ SwapChunks(t)
  <2>1. chunks' = chunks
    BY <1>6 DEF Reindex, PlanReindex, AbortReindex, CreateStaging, BuildStaging, ReindexRaises, ToolCrash
  <2>2. AddedIsWhole' /\ NoOrphanChunks'
    BY <1>1, <2>1 DEF toolVars, AddedIsWhole, NoOrphanChunks
  <2>3. ASSUME NEW f \in DocIds, NEW e \in Embedders, PlanReindex(t, e, f) PROVE ToolsOK'
    <3>1. /\ tool'[t].pc = "planned" /\ tool'[t].from = f
          /\ tool'[t].places = PlacesFrom(chunks, f)
      BY <2>3 DEF PlanReindex, TypeOK
    <3> QED BY <1>4, <2>1, <3>1 DEF OneTool, ToolsOK
  <2>4. ASSUME CreateStaging(t) PROVE ToolsOK'
    <3>1. /\ staged' = {} /\ tool'[t].pc = "created" /\ tool[t].pc = "planned"
          /\ tool'[t].from = tool[t].from /\ tool'[t].places = tool[t].places
      BY <2>4 DEF CreateStaging, ToolGoto, TypeOK, ToolState
    <3>2. tool[t].places = PlacesFrom(chunks, tool[t].from)
      BY <3>1 DEF ToolsOK
    <3> QED BY <1>4, <2>1, <3>1, <3>2 DEF OneTool, ToolsOK
  <2>5. ASSUME BuildStaging(t) PROVE ToolsOK'
    <3>1. /\ tool'[t].pc = "built" /\ tool[t].pc = "created" /\ tool'[t].embedder = tool[t].embedder
          /\ tool'[t].from = tool[t].from /\ tool'[t].places = tool[t].places
          /\ staged' = staged \cup Embedded(tool[t].places, tool[t].embedder)
      BY <2>5 DEF BuildStaging, ToolGoto, TypeOK, ToolState
    <3>2. /\ tool[t].places = PlacesFrom(chunks, tool[t].from)
          /\ staged' = Embedded(tool[t].places, tool[t].embedder)
      <4>1. staged = {}
        BY <3>1 DEF ToolsOK
      <4> QED BY <3>1, <4>1 DEF ToolsOK
    <3> QED BY <1>4, <2>1, <3>1, <3>2 DEF OneTool, ToolsOK
  <2>6. ASSUME AbortReindex(t) \/ ReindexRaises(t) \/ ToolCrash(t) PROVE ToolsOK'
    <3>1. tool'[t].pc = "idle"
      BY <2>6 DEF AbortReindex, ReindexRaises, ToolCrash, ToolDone, IdleTool, TypeOK
    <3> QED BY <3>1 DEF OneTool, ToolsOK
  <2> QED BY <1>3, <1>6, <2>2, <2>3, <2>4, <2>5, <2>6 DEF Reindex
<1> QED BY <1>5, <1>6

LEMMA WholeNext ==
  ASSUME RequestInv, WholeInv, OneTool, OnlineReindex = FALSE, [Next]_vars
  PROVE  WholeInv'
<1>1. CASE UNCHANGED vars
  BY <1>1 DEF vars, WholeInv, ToolsOK, AtRest, PrefixOK, HasChunk, AddedIsWhole, NoOrphanChunks
<1>2. CASE Next
  BY <1>2, OpenKeepsWhole, WriteKeepsWhole, RemoveKeepsWhole, CrashKeepsWhole, ReindexKeepsWhole
  DEF Next
<1> QED BY <1>1, <1>2

\* When one reindex runs at a time and no server is live meanwhile, all of WholeInv holds,
\* through any requests of any servers, deletes in the middle of an add, and crashes.
LEMMA WholeAlways == ASSUME OneTool, OnlineReindex = FALSE PROVE Spec => []WholeInv
<1>1. RequestInv /\ WholeInv /\ [Next]_vars => WholeInv'
  BY WholeNext
<1> QED BY <1>1, WholeInit, RequestsCorrect, PTL DEF Spec

\* In that deployment a document that was added keeps all its chunks until it is deleted.
THEOREM AddedDocumentsAreWhole ==
  ASSUME OneTool, OnlineReindex = FALSE
  PROVE  Spec => []AddedIsWhole
<1>1. WholeInv => AddedIsWhole
  BY DEF WholeInv
<1> QED BY <1>1, WholeAlways, PTL

\* In that deployment no chunk outlives its document: neither a delete in the middle of
\* add_document nor a reindex whose chunks were read before leaves one behind.
THEOREM ChunksHaveTheirDocuments ==
  ASSUME OneTool, OnlineReindex = FALSE
  PROVE  Spec => []NoOrphanChunks
<1>1. WholeInv => NoOrphanChunks
  BY DEF WholeInv
<1> QED BY <1>1, WholeAlways, PTL
=============================================================================
