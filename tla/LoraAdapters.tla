---------------------------- MODULE LoraAdapters ----------------------------
(***************************************************************************)
(* LoRA adapters of the API process: the provider of the model that serves *)
(* chats (app.state.llm_provider), the provider the LoRA endpoints work on *)
(* (/api/v1/lora, /admin/lora), and the process-wide record of the active  *)
(* adapter that /ready shows.                                              *)
(*                                                                         *)
(* get_cached_provider(settings) makes a NEW provider on each call and     *)
(* drops the one before it, so an endpoint never works on the provider of  *)
(* the chats.  The body of an endpoint has no await and nobody else holds  *)
(* its provider: it is one step.  Chats and probes run in threads and      *)
(* share the serving provider, whose ensure_model takes no lock: their     *)
(* steps interleave.  An adapter is loaded into a model in one step.       *)
(***************************************************************************)
EXTENDS Naturals

CONSTANTS
  Adapters,       \* adapter files
  Peft,           \* those in a format llama.cpp cannot load
  Default,        \* LORA_ADAPTER_PATH, or NoAdapter
  NoAdapter,
  Workers,        \* threads, and the event loop, that use the serving provider
  MaxChanges      \* bound: files that come or go, and restarts

VARIABLES
  remote,       \* is the provider the HTTP API one (no model, no adapters)?
  present,      \* adapter files on disk
  modelFile,    \* is the GGUF file on disk and valid?
  serving,      \* app.state.llm_provider
  cached,       \* _cached_provider of app.llm.cache
  active,       \* _ACTIVE_ADAPTER of lora_runtime
  work,         \* worker -> where it is in its use of the serving provider
  loadFailed,   \* history: the serving model came up without its adapter
  changes

files == <<remote, present, modelFile, changes>>
loraVars == <<files, serving, cached, active, work, loadFailed>>

\* A provider: is there a Llama, the adapter in it, _active_adapter.
NewProvider == [model |-> FALSE, lora |-> NoAdapter, shown |-> NoAdapter]
Loaded(a) == [model |-> TRUE, lora |-> a, shown |-> a]

-----------------------------------------------------------------------------
(* The endpoints, on a provider of their own *)

\* ensure_model on a new provider: the file, then the configured adapter.
CanStart == remote \/ (modelFile /\ (Default # NoAdapter => Default \in present))

\* load_lora of an adapter; the API provider has none, llama.cpp no load_peft_adapter.
Loads(a) == CanStart /\ ~remote /\ a \notin Peft /\ a \in present

\* What is left of the endpoint's provider when loading fails.
Started == IF CanStart /\ ~remote THEN Loaded(Default)
           ELSE [NewProvider EXCEPT !.model = modelFile /\ ~remote]

\* POST /api/v1/lora/load: 404 and 409 before the provider is touched, 400 and 422
\* after; the provider of the previous call is dropped in any case.
LoadV1(a) ==
  /\ IF a \in present /\ active # a /\ Loads(a)
       THEN cached' = Loaded(a) /\ active' = a
       ELSE /\ cached' = IF a \in present /\ active # a THEN Started ELSE NewProvider
            /\ UNCHANGED active
  /\ UNCHANGED <<files, serving, work, loadFailed>>

\* POST /admin/lora/load of a registered adapter for this base model.  validScaling: LORA_SCALING is a
\* number; it is looked at after the adapter has been loaded.
LoadAdmin(a, validScaling) ==
  /\ a \in present
  /\ cached' = IF Loads(a) THEN Loaded(a) ELSE Started
  /\ active' = IF Loads(a) /\ validScaling THEN a ELSE active
  /\ UNCHANGED <<files, serving, work, loadFailed>>

\* POST /api/v1/lora/unload, of path a or of whatever is active: the model is started
\* on a new provider to take its own configured adapter out of it.
UnloadV1(a) ==
  /\ IF active # NoAdapter /\ a \in {active, NoAdapter} /\ CanStart
       THEN /\ cached' = IF remote THEN NewProvider ELSE Loaded(NoAdapter)
            /\ active' = NoAdapter
       ELSE cached' = NewProvider /\ UNCHANGED active
  /\ UNCHANGED <<files, serving, work, loadFailed>>

\* POST /admin/lora/unload: the new provider has nothing to unload.
UnloadAdmin(a) ==
  /\ active # NoAdapter /\ a \in {active, NoAdapter}
  /\ cached' = NewProvider /\ active' = NoAdapter
  /\ UNCHANGED <<files, serving, work, loadFailed>>

-----------------------------------------------------------------------------
(* The serving provider: chats, /ready and /warmup *)

Goto(w, label) == work' = [work EXCEPT ![w] = label]

\* ensure_model: nothing to do when there is a model, also one whose adapter failed.
Begin(w) ==
  /\ work[w] = "idle"
  /\ IF remote \/ serving.model THEN Goto(w, "ready")
     ELSE modelFile /\ Goto(w, "building")
  /\ UNCHANGED <<files, serving, cached, active, loadFailed>>

\* llama_cls(...): a second thread in here replaces the model of the first.
Build(w, fails) ==
  /\ work[w] = "building"
  /\ IF fails THEN Goto(w, "idle") /\ UNCHANGED serving
     ELSE /\ serving' = [serving EXCEPT !.model = TRUE, !.lora = NoAdapter]
          /\ Goto(w, IF Default = NoAdapter THEN "ready" ELSE "loading")
  /\ UNCHANGED <<files, cached, active, loadFailed>>

\* Mutant: the adapter is not loaded again when the provider says it is active.
LoadUnlessShown(w, fails) ==
  /\ work[w] = "loading"
  /\ IF serving.shown = Default
       THEN Goto(w, "ready") /\ UNCHANGED <<serving, loadFailed>>
       ELSE IF fails \/ Default \notin present
         THEN Goto(w, "idle") /\ loadFailed' = TRUE /\ UNCHANGED serving
         ELSE Goto(w, "ready") /\ serving' = Loaded(Default) /\ UNCHANGED loadFailed
  /\ UNCHANGED <<files, cached, active>>

\* The configured adapter: a failure is a 503 of this request, and the model stays.
LoadDefault(w, fails) ==
  /\ work[w] = "loading"
  /\ IF fails \/ Default \notin present
       THEN Goto(w, "idle") /\ loadFailed' = TRUE /\ UNCHANGED serving
       ELSE Goto(w, "ready") /\ serving' = Loaded(Default) /\ UNCHANGED loadFailed
  /\ UNCHANGED <<files, cached, active>>

\* A chat is answered by the model there is.
Generate(w) ==
  /\ work[w] = "ready"
  /\ Goto(w, "idle")
  /\ UNCHANGED <<files, serving, cached, active, loadFailed>>

\* ensure_adapter of /ready and /warmup: the configured adapter again, if not shown.
EnsureAdapter(w, fails) ==
  /\ work[w] = "ready" /\ ~remote
  /\ Default \notin {NoAdapter, serving.shown}
  /\ serving' = IF fails \/ Default \notin present THEN serving ELSE Loaded(Default)
  /\ Goto(w, "idle")
  /\ UNCHANGED <<files, cached, active, loadFailed>>

-----------------------------------------------------------------------------

\* create_app: a new serving provider; with USE_LORA also LORA_DEFAULT_ADAPTER, which
\* is loaded from the registry like any other, a failure being logged.
Create(a) ==
  /\ serving' = NewProvider /\ loadFailed' = FALSE
  /\ work' = [w \in Workers |-> "idle"]
  /\ IF a # NoAdapter /\ Loads(a) THEN cached' = Loaded(a) /\ active' = a
                                  ELSE cached' = NewProvider /\ active' = NoAdapter

Restart(a) ==
  /\ changes < MaxChanges /\ changes' = changes + 1
  /\ Create(a)
  /\ UNCHANGED <<remote, present, modelFile>>

FilesChange ==
  /\ changes < MaxChanges /\ changes' = changes + 1
  /\ \/ present' \in (SUBSET Adapters) \ {present} /\ UNCHANGED modelFile
     \/ modelFile' = ~modelFile /\ UNCHANGED present
  /\ UNCHANGED <<remote, serving, cached, active, work, loadFailed>>

LoraInit ==
  /\ remote \in BOOLEAN /\ present \in {{}, Adapters} /\ modelFile \in BOOLEAN
  /\ serving = NewProvider /\ cached = NewProvider /\ active = NoAdapter
  /\ work = [w \in Workers |-> "idle"]
  /\ loadFailed = FALSE /\ changes = 0

LoraNext ==
  \/ \E a \in Adapters : LoadV1(a)
  \/ \E a \in Adapters, validScaling \in BOOLEAN : LoadAdmin(a, validScaling)
  \/ \E a \in Adapters \cup {NoAdapter} : UnloadV1(a) \/ UnloadAdmin(a) \/ Restart(a)
  \/ \E w \in Workers : \/ Begin(w) \/ Generate(w)
                        \/ \E fails \in BOOLEAN : \/ Build(w, fails)
                                                  \/ LoadDefault(w, fails)
                                                  \/ EnsureAdapter(w, fails)
  \/ FilesChange

-----------------------------------------------------------------------------

\* Two first requests may both build the model, the second replacing the one the
\* first has already put the configured adapter into.  Once nobody is at it any more,
\* the model that serves has the adapter, unless loading it failed (that request was
\* answered 503, and the model stays without it).
ServingModelIsWhole ==
  (/\ serving.model /\ Default # NoAdapter /\ ~loadFailed
   /\ \A w \in Workers : work[w] \in {"idle", "ready"})
  => serving.lora = Default

=============================================================================
