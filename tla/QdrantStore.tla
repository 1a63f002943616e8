---------------------------- MODULE QdrantStore ----------------------------
(***************************************************************************)
(* app/retriever/qdrant.py (collection set-up, upsert, the alias helpers)  *)
(* and app/services/reindex_service.py behind POST                         *)
(* /api/v1/documents/{id}/reindex: writers that store chunks and reindex   *)
(* runs that copy one document into a temporary collection and point the   *)
(* alias at it, over a Qdrant whose requests may fail or lose their reply. *)
(*                                                                         *)
(* Qdrant is external: a name is a collection or an alias, never both; a   *)
(* request that names the alias reaches the collection it points at.       *)
(***************************************************************************)
EXTENDS Naturals, FiniteSets

CONSTANTS
    Points,         \* chunks
    Tagged,         \* those whose payload names the document asked for; the application's own
                    \* writers name none, other writers of the collection may
    Writers,        \* threads that store a chunk
    Reindexers,     \* reindex requests
    NoAlias,        \* the alias name is free
    MaxRequestErrors \* bound: failed requests and lost replies

VARIABLES
    colls,      \* the collections and their points
    aliasOf,    \* the collection the alias points at, or NoAlias
    writing,    \* per thread: [pc, point]
    reindex,    \* per request: [pc, source, todo, copied, dryRun, switched, cleaned]
    jobRows,    \* committed job rows: [run, status]
    requestErrors \* failed requests so far

qdVars == <<colls, aliasOf, writing, reindex, jobRows, requestErrors>>
Main == "kb"        \* settings.qdrant_collection, a collection of that name or an alias
Older == "kb_v1"    \* the collection an operator put the alias on

Start == [pc |-> "idle", source |-> Main, todo |-> {}, copied |-> 0, dryRun |-> FALSE,
          switched |-> FALSE, cleaned |-> TRUE]

QdInit ==
    /\ \E points \in SUBSET Points :
         \/ colls = [n \in {} |-> {}] /\ aliasOf = NoAlias
         \/ colls = [n \in {Main} |-> points] /\ aliasOf = NoAlias
         \/ colls = [n \in {Older} |-> points] /\ aliasOf = Older
    /\ writing = [w \in Writers |-> [pc |-> "idle", point |-> CHOOSE p \in Points : TRUE]]
    /\ reindex = [r \in Reindexers |-> Start]
    /\ jobRows = {} /\ requestErrors = 0

Reached(name) == IF name = Main /\ aliasOf # NoAlias THEN aliasOf ELSE name
Exists(name) == Reached(name) \in DOMAIN colls
Without(name) == [n \in DOMAIN colls \ {name} |-> colls[n]]
Created(name) == [n \in DOMAIN colls \cup {name} |-> IF n = name THEN {} ELSE colls[n]]
PutPoint(name, p) == [colls EXCEPT ![Reached(name)] = @ \cup {p}]

RequestFails == requestErrors < MaxRequestErrors /\ requestErrors' = requestErrors + 1

(* Writers: upsert                                                         *)

WriterAt(w, here, there) == writing[w].pc = here /\ writing' = [writing EXCEPT ![w].pc = there]

\* _ensure_schema: an error answer reads as a missing collection.
CheckSchema(w) ==
    /\ writing[w].pc = "idle"
    /\ RequestFails \/ UNCHANGED requestErrors
    /\ \E p \in Points : writing' = [writing EXCEPT ![w] =
            [pc |-> IF requestErrors' = requestErrors /\ Exists(Main) THEN "store" ELSE "drop",
             point |-> p]]
    /\ UNCHANGED <<colls, aliasOf, reindex, jobRows>>

\* recreate_collection is a delete and a create; an alias of that name stops the create.
DropCollection(w) ==
    /\ WriterAt(w, "drop", "create")
    /\ colls' = Without(Main)
    /\ UNCHANGED <<aliasOf, reindex, jobRows, requestErrors>>

CreateCollection(w) ==
    /\ WriterAt(w, "create", IF Main \in DOMAIN colls \/ aliasOf # NoAlias THEN "idle" ELSE "store")
    /\ colls' = IF Main \in DOMAIN colls \/ aliasOf # NoAlias THEN colls ELSE Created(Main)
    /\ UNCHANGED <<aliasOf, reindex, jobRows, requestErrors>>

Store(w) ==
    /\ WriterAt(w, "store", "idle")
    /\ colls' = IF Exists(Main) THEN PutPoint(Main, writing[w].point) ELSE colls
    /\ UNCHANGED <<aliasOf, reindex, jobRows, requestErrors>>

(* Reindex requests: ReindexService.reindex_document                       *)

Moves(r, to) == reindex' = [reindex EXCEPT ![r] = to]
RunAt(r, pc) == reindex[r].pc = pc

\* resolve_collection_name falls back to the alias name on any error, and
\* create_collection_like, outside the try, fails if that is no collection.
Begin(r, dryRun) ==
    /\ RunAt(r, "idle")
    /\ RequestFails \/ UNCHANGED requestErrors
    /\ LET source == IF requestErrors' # requestErrors THEN Main ELSE Reached(Main)
       IN  /\ colls' = IF Exists(source) THEN Created(r) ELSE colls
           /\ Moves(r, [Start EXCEPT !.pc = IF Exists(source) THEN "scroll" ELSE "refused",
                                     !.source = source, !.dryRun = dryRun])
    /\ UNCHANGED <<aliasOf, writing, jobRows>>

\* export_payloads_from_collection, the payloads of the document kept.
Scroll(r) ==
    /\ RunAt(r, "scroll")
    /\ Moves(r, IF Exists(reindex[r].source)
                THEN [reindex[r] EXCEPT !.pc = "copy", !.todo = colls[Reached(reindex[r].source)] \cap Tagged]
                ELSE [reindex[r] EXCEPT !.pc = "rollback"])
    /\ UNCHANGED <<colls, aliasOf, writing, jobRows, requestErrors>>

CopyOne(r) ==
    /\ RunAt(r, "copy")
    /\ \E p \in reindex[r].todo :
         /\ colls' = [colls EXCEPT ![r] = @ \cup {p}]
         /\ Moves(r, [reindex[r] EXCEPT !.todo = @ \ {p}, !.copied = @ + 1])
    /\ UNCHANGED <<aliasOf, writing, jobRows, requestErrors>>

CopyFails(r) ==
    /\ RunAt(r, "copy") /\ RequestFails
    /\ Moves(r, [reindex[r] EXCEPT !.pc = "rollback"])
    /\ UNCHANGED <<colls, aliasOf, writing, jobRows>>

\* Mutant: the copy of a dry run is switched to as well.
VerifyIgnoresDryRun(r) ==
    /\ RunAt(r, "copy") /\ reindex[r].todo = {}
    /\ Moves(r, [reindex[r] EXCEPT !.pc = IF reindex[r].copied = 0 THEN "rollback" ELSE "switch"])
    /\ UNCHANGED <<colls, aliasOf, writing, jobRows, requestErrors>>

\* Nothing copied raises; a dry run deletes the copy and returns; else switch_alias.
Verify(r) ==
    /\ RunAt(r, "copy") /\ reindex[r].todo = {}
    /\ Moves(r, [reindex[r] EXCEPT !.pc = CASE reindex[r].copied = 0 -> "rollback"
                                            [] reindex[r].dryRun -> "discard"
                                            [] OTHER -> "switch"])
    /\ UNCHANGED <<colls, aliasOf, writing, jobRows, requestErrors>>

\* CreateAlias: refused where a collection has that name; the reply may be lost.
SwitchAlias(r) ==
    /\ RunAt(r, "switch")
    /\ \/ /\ Main \notin DOMAIN colls /\ aliasOf' = r /\ UNCHANGED requestErrors
          /\ Moves(r, [reindex[r] EXCEPT !.pc = "record", !.switched = TRUE])
       \/ /\ Main \in DOMAIN colls /\ UNCHANGED <<aliasOf, requestErrors>>
          /\ Moves(r, [reindex[r] EXCEPT !.pc = "rollback"])
       \/ /\ Main \notin DOMAIN colls /\ RequestFails /\ aliasOf' = r
          /\ Moves(r, [reindex[r] EXCEPT !.pc = "rollback"])
    /\ UNCHANGED <<colls, writing, jobRows>>

\* delete_collection_safe, which Qdrant carries to the alias that points there; its own
\* failure is only logged.
Cleanup(r) ==
    /\ reindex[r].pc \in {"rollback", "discard"}
    /\ \/ /\ colls' = Without(r) /\ aliasOf' = IF aliasOf = r THEN NoAlias ELSE aliasOf
          /\ Moves(r, [reindex[r] EXCEPT !.pc = IF @ = "discard" THEN "record" ELSE "failed"])
          /\ UNCHANGED requestErrors
       \/ /\ RequestFails /\ UNCHANGED <<colls, aliasOf>>
          /\ Moves(r, [reindex[r] EXCEPT !.pc = IF @ = "discard" THEN "record" ELSE "failed",
                                         !.cleaned = FALSE])
    /\ UNCHANGED <<writing, jobRows>>

\* The endpoint commits a job row for what is already done; a failed commit leaves none.
Record(r) ==
    /\ RunAt(r, "record")
    /\ \/ /\ jobRows' = jobRows \cup {[run |-> r, status |-> IF reindex[r].switched THEN "completed" ELSE "dry_run"]}
          /\ UNCHANGED requestErrors
       \/ RequestFails /\ UNCHANGED jobRows
    /\ Moves(r, [reindex[r] EXCEPT !.pc = "done"])
    /\ UNCHANGED <<colls, aliasOf, writing>>

QdNext ==
    \/ \E w \in Writers : CheckSchema(w) \/ DropCollection(w) \/ CreateCollection(w) \/ Store(w)
    \/ \E r \in Reindexers :
         \/ \E d \in BOOLEAN : Begin(r, d)
         \/ Scroll(r) \/ CopyOne(r) \/ CopyFails(r) \/ Verify(r)
         \/ SwitchAlias(r) \/ Cleanup(r) \/ Record(r)

-----------------------------------------------------------------------------
\* A reindex either ends with its collection in place and complete, or leaves nothing behind:
\* no temporary collection outlives a failed or dry run whose delete went through, a job row
\* never says completed of a collection that is gone or of a dry run
\* (reindex_service.py:65-110, documents.py:38-62).
ReindexIsAllOrNothing ==
    /\ \A r \in Reindexers : reindex[r].pc \in {"done", "failed"} =>
         IF reindex[r].switched
         THEN ~reindex[r].dryRun /\ r \in DOMAIN colls /\ colls[r] \cap Tagged # {}
         ELSE reindex[r].cleaned => r \notin DOMAIN colls
    /\ \A row \in jobRows : row.status = "completed" => row.run \in DOMAIN colls
=============================================================================
