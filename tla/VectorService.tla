---------------------------- MODULE VectorService ----------------------------
(***************************************************************************)
(* app/services/vectorstore.py over the Qdrant backend, with the health    *)
(* registry every search reports to.  Chunks that cannot be stored in the  *)
(* Qdrant server go to a list in the memory of the process, and a search   *)
(* that cannot ask the server greps that list.                             *)
(*                                                                         *)
(* The server may be down (the connection fails) or answer with an error   *)
(* status (UnexpectedResponse).  An action is one call to the server, or   *)
(* one critical section of the process.                                    *)
(***************************************************************************)
EXTENDS FiniteSets, Naturals

CONSTANTS
  Chunks,      \* chunk identifiers
  Threads,     \* threads of the process
  BatchSize,   \* qdrant_upsert_batch
  MaxCalls,    \* bound: calls of index_chunks and search
  MaxFaults    \* bound: changes of the server's condition and process restarts

VARIABLES
  server,      \* condition of the Qdrant server
  collection,  \* the collection: is it there, with the configured dimension?
  points,      \* chunks stored in it
  fallback,    \* _FALLBACK_STORAGE
  registry,    \* reasons recorded in retrieval_health._REGISTRY
  gauge,       \* reasons whose kb_retrieval_degraded gauge is 1
  op,          \* thread -> the call it is in
  acked,       \* history: chunks index_chunks returned for
  dropped,     \* history: chunks deleted with a collection or lost in a restart
  calls, faults

health == <<registry, gauge>>
stored == <<collection, points, fallback>>
vars == <<server, stored, health, op, acked, dropped, calls, faults>>

\* What the two searching paths of this module report.
Reasons == {"vector_backend_down", "hashing_embedder"}
Governed == Reasons

\* rounds: calls of _ensure_schema left, one in ensure_ready, one in upsert or search.
Idle == [pc |-> "idle", kind |-> "search", batch |-> {}, left |-> {}, rounds |-> 0,
         hits |-> {}, clean |-> TRUE]

At(t, label) == op[t].pc = label
Goto(t, label) == op' = [op EXCEPT ![t].pc = label]
Call == calls < MaxCalls /\ calls' = calls + 1

\* Mutant: index_chunks reports its batch as stored without keeping it.
ErrorKeepsNothing(t) ==
  IF op[t].kind = "index"
    THEN /\ acked' = acked \cup op[t].batch
         /\ op' = [op EXCEPT ![t] = Idle]
         /\ UNCHANGED fallback
    ELSE /\ op' = [op EXCEPT ![t].pc = "report", ![t].clean = FALSE]
         /\ UNCHANGED <<fallback, acked>>

\* An error of the server in the call of t: index_chunks keeps the whole batch in
\* memory, also what was stored before the error; search reports and greps.
Error(t) ==
  IF op[t].kind = "index"
    THEN /\ fallback' = fallback \cup op[t].batch
         /\ acked' = acked \cup op[t].batch
         /\ op' = [op EXCEPT ![t] = Idle]
    ELSE /\ op' = [op EXCEPT ![t].pc = "report", ![t].clean = FALSE]
         /\ UNCHANGED <<fallback, acked>>

-----------------------------------------------------------------------------
(* ensure_ready / _ensure_schema: look the collection up, and create it     *)
(* anew when the lookup fails with a status or shows another dimension.     *)

StartIndex(t, batch) ==
  /\ At(t, "idle") /\ Call
  /\ op' = [op EXCEPT ![t] = [Idle EXCEPT !.pc = "get", !.kind = "index", !.batch = batch,
                                          !.left = batch, !.rounds = 2]]
  /\ UNCHANGED <<server, stored, health, acked, dropped, faults>>

StartSearch(t) ==
  /\ At(t, "idle") /\ Call
  /\ op' = [op EXCEPT ![t] = [Idle EXCEPT !.pc = "get", !.rounds = 2]]
  /\ UNCHANGED <<server, stored, health, acked, dropped, faults>>

SchemaDone(t) ==
  LET work == IF op[t].kind = "index" THEN "upsert" ELSE "query"
  IN op' = [op EXCEPT ![t].pc = IF op[t].rounds = 2 THEN "get" ELSE work,
                      ![t].rounds = @ - 1]

GetCollection(t) ==
  /\ At(t, "get")
  /\ \/ server = "down" /\ Error(t)
     \/ /\ server = "up" /\ collection = "ready"
        /\ SchemaDone(t)
        /\ UNCHANGED <<fallback, acked>>
     \/ /\ server = "erroring" \/ (server = "up" /\ collection # "ready")
        /\ Goto(t, "recreate")
        /\ UNCHANGED <<fallback, acked>>
  /\ UNCHANGED <<server, collection, points, health, dropped, calls, faults>>

RecreateCollection(t) ==
  /\ At(t, "recreate")
  /\ IF server = "up"
       THEN /\ collection' = "ready"
            /\ points' = {}
            /\ dropped' = dropped \cup points
            /\ SchemaDone(t)
            /\ UNCHANGED <<fallback, acked>>
       ELSE /\ Error(t)
            /\ UNCHANGED <<collection, points, dropped>>
  /\ UNCHANGED <<server, health, calls, faults>>

-----------------------------------------------------------------------------
(* index_chunks: one request per qdrant_upsert_batch chunks.                *)

Flush(t, part) ==
  /\ At(t, "upsert")
  /\ part \subseteq op[t].left
  /\ Cardinality(part) = BatchSize \/ (part = op[t].left /\ Cardinality(part) <= BatchSize)
  /\ IF server = "up" /\ collection = "ready"
       THEN /\ points' = points \cup part
            /\ UNCHANGED fallback
            /\ IF part = op[t].left
                 THEN op' = [op EXCEPT ![t] = Idle] /\ acked' = acked \cup op[t].batch
                 ELSE op' = [op EXCEPT ![t].left = @ \ part] /\ UNCHANGED acked
       ELSE /\ Error(t)
            /\ UNCHANGED points
  /\ UNCHANGED <<server, collection, health, dropped, calls, faults>>

-----------------------------------------------------------------------------
(* search: ask the server, report the outcome, grep the list on an error.   *)

Query(t) ==
  /\ At(t, "query")
  /\ IF server = "up" /\ collection = "ready"
       THEN /\ op' = [op EXCEPT ![t].pc = "report", ![t].hits = points]
            /\ UNCHANGED <<fallback, acked>>
       ELSE Error(t)
  /\ UNCHANGED <<server, collection, points, health, dropped, calls, faults>>

\* retrieval_health.report: the registry changes under the lock ...
Report(t) ==
  LET active == IF op[t].clean THEN {} ELSE {"vector_backend_down"}
  IN /\ At(t, "report")
     /\ registry' = (registry \ Governed) \cup active
     /\ Goto(t, "gauge")
     /\ UNCHANGED <<server, stored, gauge, acked, dropped, calls, faults>>

\* ... the gauges after it is released.
SetGauges(t) ==
  LET active == IF op[t].clean THEN {} ELSE {"vector_backend_down"}
  IN /\ At(t, "gauge")
     /\ gauge' = (gauge \ Governed) \cup active
     /\ Goto(t, IF op[t].clean THEN "answered" ELSE "grep")
     /\ UNCHANGED <<server, stored, registry, acked, dropped, calls, faults>>

SearchFallback(t) ==
  /\ At(t, "grep")
  /\ op' = [op EXCEPT ![t].pc = "answered", ![t].hits = fallback]
  /\ UNCHANGED <<server, stored, health, acked, dropped, calls, faults>>

Answer(t) ==
  /\ At(t, "answered")
  /\ op' = [op EXCEPT ![t] = Idle]
  /\ UNCHANGED <<server, stored, health, acked, dropped, calls, faults>>

-----------------------------------------------------------------------------
(* Faults.                                                                  *)

ServerChanges(condition) ==
  /\ faults < MaxFaults /\ faults' = faults + 1
  /\ condition # server
  /\ server' = condition
  /\ UNCHANGED <<stored, health, op, acked, dropped, calls>>

\* The list lives and dies with the process; nothing replays it.
Restart ==
  /\ faults < MaxFaults /\ faults' = faults + 1
  /\ op' = [t \in Threads |-> Idle]
  /\ dropped' = dropped \cup fallback
  /\ fallback' = {} /\ registry' = {} /\ gauge' = {}
  /\ UNCHANGED <<server, collection, points, acked, calls>>

Init ==
  /\ server = "up"
  /\ collection \in {"absent", "foreign", "ready"}
  /\ points = {} /\ fallback = {} /\ registry = {} /\ gauge = {}
  /\ op = [t \in Threads |-> Idle]
  /\ acked = {} /\ dropped = {} /\ calls = 0 /\ faults = 0

ThreadStep(t) ==
  \/ \E batch \in (SUBSET Chunks) \ {{}} : StartIndex(t, batch)
  \/ StartSearch(t) \/ GetCollection(t) \/ RecreateCollection(t)
  \/ \E part \in (SUBSET Chunks) \ {{}} : Flush(t, part)
  \/ Query(t) \/ Report(t) \/ SetGauges(t) \/ SearchFallback(t) \/ Answer(t)

Next ==
  \/ \E t \in Threads : ThreadStep(t)
  \/ \E condition \in {"up", "down", "erroring"} : ServerChanges(condition)
  \/ Restart

Spec == Init /\ [][Next]_vars

-----------------------------------------------------------------------------
(* Properties.                                                              *)

\* A chunk index_chunks returned for is in the collection or in the list, whatever
\* part of its batch had reached the server when the call failed; only the deletion
\* of the collection or a restart of the process takes it away.
IndexedIsKept == acked \ dropped \subseteq points \cup fallback
=============================================================================
