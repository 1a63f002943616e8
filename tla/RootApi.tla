------------------------------ MODULE RootApi ------------------------------
(***************************************************************************)
(* The root endpoints of src/app/api/routes.py: /warmup, /ready and the    *)
(* question of /api/chat, as functions of the parts found in app.state.    *)
(* A part is what the code can tell about it by probing for its methods.   *)
(*                                                                         *)
(* parts.llm     "none", "bare" (no hook of its own but generate) or       *)
(*               "whole"; parts.adapter: ensure_adapter is "absent", "ok"  *)
(*               or "fails"; parts.model: does ensure_model succeed?       *)
(* parts.cached  get_cached_provider finds a provider for the settings     *)
(* parts.vector  "none", "filtered" (the production retrievers: search     *)
(*               insists on filters), "plain" (search takes a query and a  *)
(*               limit) or "partial" (no search or no ensure_ready)        *)
(* parts.chat    "none", "sqlite" (ChatStore), "other" (another backend)   *)
(*               or "partial" (some method is missing)                     *)
(* parts.up      the components that answer: "sqlite", "vector"            *)
(* parts.index   is there a fallback index with entries?                   *)
(***************************************************************************)
EXTENDS Naturals, Sequences, FiniteSetsExt

(* --------------------------- readiness probes --------------------------- *)

\* _check_sqlite_ready: another backend than SQLite is skipped, not checked.
SqliteReady(parts) == CASE parts.chat = "sqlite" -> IF "sqlite" \in parts.up THEN "ok" ELSE "error"
                        [] parts.chat = "other" -> "skipped"
                        [] OTHER -> "error"

\* _check_vector_store_ready: a store without ensure_ready is an error here.
VectorReady(parts) == IF parts.vector \in {"filtered", "plain"} /\ "vector" \in parts.up
                      THEN "ok" ELSE "error"

\* _check_llm_ready: a provider with no ensure_ready falls through to ensure_model.
LlmReady(parts) == IF parts.llm = "whole" /\ parts.model /\ parts.adapter # "fails"
                   THEN "ok" ELSE "error"

\* build_ready_payload: 503 as soon as one component is in error.
Ready(parts) ==
    IF "error" \in {SqliteReady(parts), VectorReady(parts), LlmReady(parts)} THEN 503 ELSE 200

\* warmup: every hook there is, none that is missing; a missing component is skipped.
WarmLlm(parts) == CASE parts.llm # "whole" -> "skipped"
                    [] parts.model /\ parts.adapter # "fails" -> "ok"
                    [] OTHER -> "error"

\* Mutant: a hook that is missing fails the warmup, while readiness goes on without it.
WarmupStrictAdapter(parts) ==
    IF WarmLlm(parts) = "error" \/ parts.adapter = "absent" THEN 503 ELSE 200

Warmup(parts) ==
    IF \/ WarmLlm(parts) = "error"
       \/ parts.vector \in {"filtered", "plain"} /\ "vector" \notin parts.up
    THEN 503 ELSE 200

(* ------------------------------- /api/chat ------------------------------ *)

\* The steps of a question, in order. A step that fails ends the request, but for those
\* whose failure is caught: reading and writing the long-term memory.
Steps == <<"store", "provider", "model", "vector", "conversation", "history", "search",
           "generate", "record", "summarize", "answer">>
Position(step) == CHOOSE i \in DOMAIN Steps : Steps[i] = step

\* _VectorStoreAdapter, put around a store that lacks a method, swallows its errors.
Adapted(parts) == parts.vector = "partial"

\* request.fault: the outside failure this request meets ("none", "search", "generate",
\* "summarize"); request.owned: the conversation is new or the user's own.
StepFails(parts, request, step) ==
    CASE step = "store" -> parts.chat = "none"
      [] step = "provider" -> parts.llm = "none" /\ ~parts.cached
      [] step = "model" -> parts.llm # "bare" /\ ~parts.model
      [] step = "vector" -> parts.vector \in {"filtered", "plain"} /\ "vector" \notin parts.up
      [] step = "conversation" -> ~request.owned \/ (parts.chat = "sqlite" /\ "sqlite" \notin parts.up)
      [] step = "search" -> \/ parts.vector = "filtered"
                            \/ parts.vector = "plain" /\ request.fault = "search"
      [] step = "generate" -> request.fault = "generate"
      [] step = "summarize" -> request.fault = "summarize" /\ request.due
      [] OTHER -> FALSE

\* Where the request ends: the step that fails, or the answer.
EndOfChat(parts, request) ==
    Min({i \in DOMAIN Steps : StepFails(parts, request, Steps[i])} \union {Len(Steps)})

\* _retrieve_hits: the store, then the fallback index, then invented hits when the store had
\* to be adapted (the adapter itself already falls back the same way).
HitsFrom(parts, request) ==
    CASE parts.vector = "plain" /\ request.found -> "store"
      [] parts.index -> "index"
      [] Adapted(parts) -> "synthetic"
      [] OTHER -> "nothing"

\* Mutant: the question is put into the history before its answer is generated.
ChatRecordsFirst(parts, request) ==
    LET end == EndOfChat(parts, request) IN
    [code     |-> IF end = Len(Steps) THEN 200 ELSE 500,
     recorded |-> end >= Position("generate"),
     counted  |-> IF end <= Position("conversation") THEN "none"
                  ELSE IF end = Len(Steps) THEN "success" ELSE "error",
     hits     |-> HitsFrom(parts, request)]

\* The reply, whether the exchange is in the chat store, and what record_chat_completion is
\* told. A refusal before the conversation is known is not counted at all.
Chat(parts, request) ==
    LET end == EndOfChat(parts, request) IN
    [code     |-> CASE end = Len(Steps) -> 200
                    [] end <= Position("model") -> 503
                    [] Steps[end] = "conversation" /\ ~request.owned -> 403
                    [] OTHER -> 500,
     recorded |-> end > Position("record"),
     counted  |-> IF end <= Position("conversation") THEN "none"
                  ELSE IF end = Len(Steps) THEN "success" ELSE "error",
     hits     |-> IF end > Position("search") THEN HitsFrom(parts, request) ELSE "nothing"]

(* ------------------------------ properties ------------------------------ *)

AppParts ==
    [llm : {"none", "bare", "whole"}, adapter : {"absent", "ok", "fails"}, model : BOOLEAN,
     cached : BOOLEAN, vector : {"none", "filtered", "plain", "partial"},
     chat : {"none", "sqlite", "other", "partial"}, up : SUBSET {"sqlite", "vector"},
     index : BOOLEAN]
Questions == [owned : BOOLEAN, found : BOOLEAN, due : BOOLEAN,
              fault : {"none", "search", "generate", "summarize"}]

\* A service that calls itself ready can be warmed up: the two endpoints probe the same parts
\* by different routes (one skips what is missing, the other reports it).
ReadyIsWarm(parts) == Ready(parts) = 200 => Warmup(parts) = 200

\* A ready service answers: every part /api/chat needs is one that /ready looks at. It is so
\* for stores whose search takes a bare query; the production retrievers refuse it (README).
ReadyAnswers(parts, request) ==
    Ready(parts) = 200 /\ parts.vector = "plain" /\ request.owned /\ request.fault = "none"
        => Chat(parts, request).code = 200

\* A question is in the history only together with an answer that was generated for it. When
\* the client is told of an error all the same, it was the summary that failed, and a client
\* that asks again has the exchange twice.
ErrorLeavesNoQuestion(parts, request) ==
    LET reply == Chat(parts, request) IN
    /\ reply.code = 200 => reply.recorded /\ reply.counted = "success"
    /\ reply.recorded /\ reply.code # 200 => request.fault = "summarize"
=============================================================================
