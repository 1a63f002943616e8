------------------------------ MODULE FaissStore ------------------------------
(***************************************************************************)
(* FaissVectorStore (app/retriever/faiss.py) as the worker and the API     *)
(* process use it: each process keeps the payloads, the mapping from       *)
(* vector positions to chunk ids and the index in memory, and all of them  *)
(* share three files that are overwritten in place, one after the other.   *)
(* A search finds a position in the index and looks the chunk up in the    *)
(* mapping, so the answer is right only while the two agree.               *)
(*                                                                         *)
(* An action is one access to a file or one assignment of a shared         *)
(* attribute.  write_text truncates the file before it writes: a process   *)
(* that reads or dies in between finds it torn.                            *)
(***************************************************************************)
EXTENDS Naturals, Sequences, Functions, Selections

CONSTANTS
  Ids,          \* chunk identifiers (sha256)
  Procs,        \* operating system processes that open the store
  Threads,      \* threads that call it
  ProcessOf,    \* the process of a thread
  Writers,      \* threads that upsert; all of them also search
  MaxUpserts,   \* bound: calls of upsert
  MaxCrashes    \* bound: process crashes

VARIABLES
  payloads,      \* process -> self._payloads, its keys in order
  ordered,       \* process -> self._ordered_ids
  index,         \* process -> self._index: the chunk each vector is of
  payloadsFile,  \* payloads.json
  mappingFile,   \* mapping.json
  indexFile,     \* index.faiss
  op,            \* thread -> the call it is in
  acked,         \* history: chunks of the upserts that returned
  split,         \* history: did a crash leave payloads.json ahead of mapping.json?
  upserts,       \* calls of upsert so far
  crashes        \* crashes so far

memory == <<payloads, ordered, index>>
storage == <<payloadsFile, mappingFile, indexFile>>
vars == <<memory, storage, op, acked, split, upserts, crashes>>

\* A file, and an index attribute, that has no content.
Missing == [kind |-> "missing", ids |-> <<>>]
Torn == [kind |-> "torn", ids |-> <<>>]
Content(s) == [kind |-> "content", ids |-> s]

Batches == {s \in [1..1 -> Ids] \cup [1..2 -> Ids] : IsInjective(s)}

\* merged: the batch of the upsert is in memory; a search has an empty batch.
Idle == [pc |-> "idle", batch |-> <<>>, buffer |-> <<>>, merged |-> FALSE]

Goto(t, label) == op' = [op EXCEPT ![t].pc = label]
At(t, label) == op[t].pc = label

\* The call raises one of _VECTOR_ERRORS: vectorstore.py serves it from memory.
Fail(t) == op' = [op EXCEPT ![t] = Idle]

Known(s, stored) == Selected(s, {n \in DOMAIN s : s[n] \in Range(stored)})
Fresh(batch, s) == Selected(batch, {n \in DOMAIN batch : batch[n] \notin Range(s)})
AppendNew(s, batch) == s \o Fresh(batch, s)

-----------------------------------------------------------------------------
(* ensure_ready, at the head of both calls: reload payloads and mapping,    *)
(* read the index only if this process has none.                            *)

StartUpsert(t, batch) ==
  /\ t \in Writers /\ upserts < MaxUpserts
  /\ At(t, "idle")
  /\ op' = [op EXCEPT ![t].pc = "payloads", ![t].batch = batch]
  /\ upserts' = upserts + 1
  /\ UNCHANGED <<memory, storage, acked, split, crashes>>

StartSearch(t) ==
  /\ At(t, "idle")
  /\ Goto(t, "payloads")
  /\ UNCHANGED <<memory, storage, acked, split, upserts, crashes>>

LoadPayloads(t) ==
  /\ At(t, "payloads")
  /\ IF payloadsFile = Torn
       THEN Fail(t) /\ UNCHANGED payloads
       ELSE /\ payloads' = [payloads EXCEPT ![ProcessOf[t]] = payloadsFile.ids]
            /\ Goto(t, "mapping")
  /\ UNCHANGED <<ordered, index, storage, acked, split, upserts, crashes>>

\* Positions whose payload is not there are dropped.
LoadMapping(t) ==
  LET p == ProcessOf[t]
  IN /\ At(t, "mapping")
     /\ IF mappingFile = Torn
          THEN Fail(t) /\ UNCHANGED ordered
          ELSE /\ ordered' = [ordered EXCEPT ![p] = IF mappingFile = Missing
                                                     THEN payloads[p]
                                                     ELSE Known(mappingFile.ids, payloads[p])]
               /\ Goto(t, "index")
     /\ UNCHANGED <<payloads, index, storage, acked, split, upserts, crashes>>

Loaded(t) == IF op[t].batch = <<>> THEN Goto(t, "search") ELSE Goto(t, "merge")

EnsureIndexLoaded(t) ==
  LET p == ProcessOf[t]
  IN /\ At(t, "index")
     /\ CASE index[p] # Missing -> Loaded(t) /\ UNCHANGED index
          [] index[p] = Missing /\ indexFile = Missing -> Goto(t, "rebuild") /\ UNCHANGED index
          [] index[p] = Missing /\ indexFile = Torn -> Fail(t) /\ UNCHANGED index
          [] OTHER -> index' = [index EXCEPT ![p] = indexFile] /\ Loaded(t)
     /\ UNCHANGED <<payloads, ordered, storage, acked, split, upserts, crashes>>

-----------------------------------------------------------------------------
(* upsert: merge the batch in memory, then _persist_payloads writes both    *)
(* JSON files and _rebuild_index encodes every text again.                  *)

\* Mutant: an updated chunk moves to the end of the mapping.
MergeMovesToEnd(t) ==
  LET p == ProcessOf[t]
  IN /\ At(t, "merge")
     /\ payloads' = [payloads EXCEPT ![p] = AppendNew(@, op[t].batch)]
     /\ ordered' = [ordered EXCEPT ![p] = Fresh(@, op[t].batch) \o op[t].batch]
     /\ op' = [op EXCEPT ![t].pc = "persist", ![t].merged = TRUE]
     /\ UNCHANGED <<index, storage, acked, split, upserts, crashes>>

\* Mutant: only a chunk without a payload gets a position.
MergeNewPayloadsOnly(t) ==
  LET p == ProcessOf[t]
  IN /\ At(t, "merge")
     /\ payloads' = [payloads EXCEPT ![p] = AppendNew(@, op[t].batch)]
     /\ ordered' = [ordered EXCEPT ![p] = @ \o Fresh(op[t].batch, payloads[p])]
     /\ op' = [op EXCEPT ![t].pc = "persist", ![t].merged = TRUE]
     /\ UNCHANGED <<index, storage, acked, split, upserts, crashes>>

Merge(t) ==
  LET p == ProcessOf[t]
  IN /\ At(t, "merge")
     /\ payloads' = [payloads EXCEPT ![p] = AppendNew(@, op[t].batch)]
     /\ ordered' = [ordered EXCEPT ![p] = AppendNew(@, op[t].batch)]
     /\ op' = [op EXCEPT ![t].pc = "persist", ![t].merged = TRUE]
     /\ UNCHANGED <<index, storage, acked, split, upserts, crashes>>

TruncatePayloads(t) ==
  /\ At(t, "persist")
  /\ payloadsFile' = Torn
  /\ op' = [op EXCEPT ![t].pc = "persisting", ![t].buffer = payloads[ProcessOf[t]]]
  /\ UNCHANGED <<memory, mappingFile, indexFile, acked, split, upserts, crashes>>

WritePayloads(t) ==
  /\ At(t, "persisting")
  /\ payloadsFile' = Content(op[t].buffer)
  /\ Goto(t, "map")
  /\ UNCHANGED <<memory, mappingFile, indexFile, acked, split, upserts, crashes>>

TruncateMapping(t) ==
  /\ At(t, "map")
  /\ mappingFile' = Torn
  /\ op' = [op EXCEPT ![t].pc = "mapping_out", ![t].buffer = ordered[ProcessOf[t]]]
  /\ UNCHANGED <<memory, payloadsFile, indexFile, acked, split, upserts, crashes>>

WriteMapping(t) ==
  /\ At(t, "mapping_out")
  /\ mappingFile' = Content(op[t].buffer)
  /\ Goto(t, "rebuild")
  /\ UNCHANGED <<memory, payloadsFile, indexFile, acked, split, upserts, crashes>>

\* The index is rebuilt: an upsert returns, ensure_ready goes on with its call.
Finish(t) ==
  IF op[t].merged
    THEN /\ acked' = acked \cup Range(op[t].batch)
         /\ op' = [op EXCEPT ![t] = Idle]
    ELSE Loaded(t) /\ UNCHANGED acked

\* The new index is empty until the texts are encoded.
RebuildEmpty(t) ==
  LET p == ProcessOf[t]
  IN /\ At(t, "rebuild")
     /\ index' = [index EXCEPT ![p] = Content(<<>>)]
     /\ IF ordered[p] = <<>>
          THEN indexFile' = Missing /\ Finish(t)
          ELSE /\ op' = [op EXCEPT ![t].pc = "encode", ![t].buffer = ordered[p]]
               /\ UNCHANGED <<indexFile, acked>>
     /\ UNCHANGED <<payloads, ordered, payloadsFile, mappingFile, split, upserts, crashes>>

EncodeAndAdd(t) ==
  LET p == ProcessOf[t]
  IN /\ At(t, "encode")
     /\ index' = [index EXCEPT ![p] = Content(@.ids \o op[t].buffer)]
     /\ Goto(t, "write")
     /\ UNCHANGED <<payloads, ordered, storage, acked, split, upserts, crashes>>

\* The embedding model raises, or has another dimension than configured.
EncodeFails(t) ==
  /\ At(t, "encode")
  /\ Fail(t)
  /\ UNCHANGED <<memory, storage, acked, split, upserts, crashes>>

TruncateIndex(t) ==
  /\ At(t, "write")
  /\ indexFile' = Torn
  /\ Goto(t, "writing")
  /\ UNCHANGED <<memory, payloadsFile, mappingFile, acked, split, upserts, crashes>>

WriteIndex(t) ==
  /\ At(t, "writing")
  /\ indexFile' = index[ProcessOf[t]]
  /\ Finish(t)
  /\ UNCHANGED <<memory, payloadsFile, mappingFile, split, upserts, crashes>>

-----------------------------------------------------------------------------
(* search: the nearest positions of the index, looked up in the mapping;    *)
(* positions past its end are skipped.                                      *)

Hits(p) == {n \in DOMAIN index[p].ids : n <= Len(ordered[p])}

Search(t) ==
  /\ At(t, "search")
  /\ op' = [op EXCEPT ![t] = Idle]
  /\ UNCHANGED <<memory, storage, acked, split, upserts, crashes>>

\* A process dies; a new one starts with nothing in memory.
Crash(p) ==
  /\ crashes < MaxCrashes /\ crashes' = crashes + 1
  /\ payloads' = [payloads EXCEPT ![p] = <<>>]
  /\ ordered' = [ordered EXCEPT ![p] = <<>>]
  /\ index' = [index EXCEPT ![p] = Missing]
  /\ op' = [t \in Threads |-> IF ProcessOf[t] = p THEN Idle ELSE op[t]]
  /\ split' = (split \/ \E t \in Threads : ProcessOf[t] = p /\ At(t, "map"))
  /\ UNCHANGED <<storage, acked, upserts>>

-----------------------------------------------------------------------------
Init ==
  /\ payloads = [p \in Procs |-> <<>>]
  /\ ordered = [p \in Procs |-> <<>>]
  /\ index = [p \in Procs |-> Missing]
  /\ payloadsFile = Missing /\ mappingFile = Missing /\ indexFile = Missing
  /\ op = [t \in Threads |-> Idle]
  /\ acked = {} /\ split = FALSE /\ upserts = 0 /\ crashes = 0

ThreadStep(t) ==
  \/ \E batch \in Batches : StartUpsert(t, batch)
  \/ StartSearch(t) \/ LoadPayloads(t) \/ LoadMapping(t) \/ EnsureIndexLoaded(t)
  \/ Merge(t) \/ TruncatePayloads(t) \/ WritePayloads(t) \/ TruncateMapping(t)
  \/ WriteMapping(t) \/ RebuildEmpty(t) \/ EncodeAndAdd(t) \/ EncodeFails(t)
  \/ TruncateIndex(t) \/ WriteIndex(t) \/ Search(t)

Next == (\E t \in Threads : ThreadStep(t)) \/ (\E p \in Procs : Crash(p))

Spec == Init /\ [][Next]_vars

-----------------------------------------------------------------------------
(* Properties, for one writing thread in a process of its own (kb_worker)   *)
(* and one searching thread in each other process.                          *)

\* A search never returns the text of one chunk for the vector of another, though
\* the API process keeps the index it read first while it reloads the mapping on
\* every search, reads the files while the worker overwrites them, and starts from
\* whatever a crash left on disk.  A crash between the two JSON files is excepted: a
\* chunk that got its position later than its payload can be at one position in the
\* mapping and at another in a mapping that was filtered by older payloads.
HitsAreOfTheirVectors ==
  ~split => \A t \in Threads : At(t, "search") =>
    LET p == ProcessOf[t] IN \A n \in Hits(p) : ordered[p][n] = index[p].ids[n]

\* A chunk whose upsert returned has its payload and its position on disk for as
\* long as the files can be read: neither a later upsert, an upsert of the same chunk
\* that failed or died between two files, nor a restart loses it.
AcknowledgedIsStored ==
  \A i \in acked : \A f \in {payloadsFile, mappingFile} : f # Torn => i \in Range(f.ids)
=============================================================================
