---------------------------- MODULE LlamaManager ----------------------------
(***************************************************************************)
(* LlamaLoraManager (app/llm/manager.py): load_adapter, unload_adapter and *)
(* get_status are coroutines that share one llama_cpp.Llama.  Each takes   *)
(* an asyncio lock; the model is rebuilt in a thread (asyncio.to_thread),  *)
(* and while that is awaited the other coroutines run.                     *)
(***************************************************************************)
EXTENDS Naturals

CONSTANTS
  LoraFiles,      \* adapter files
  NoLora,
  Callers,        \* coroutines
  NoCaller,
  MaxManaged      \* bound: calls

VARIABLES
  lock,       \* who holds _lock
  llama,      \* _llama: is there one, and the adapter set in it
  adapter,    \* _adapter
  call,       \* coroutine -> its call
  broken,     \* history: a rebuild failed after the adapter had been taken out
  managed     \* calls so far

llamaVars == <<lock, llama, adapter, call, broken, managed>>

NoCall == [pc |-> "idle", kind |-> "status", file |-> NoLora]
NoLlama == [built |-> FALSE, lora |-> NoLora]

InCall(c, label) == call[c].pc = label
Move(c, label) == call' = [call EXCEPT ![c].pc = label]
Return(c) == call' = [call EXCEPT ![c] = NoCall]

\* load_adapter has checked the scaling factor and that the file is there.
Start(c, kind, file) ==
  /\ InCall(c, "idle") /\ managed < MaxManaged
  /\ kind = "load" => file # NoLora
  /\ managed' = managed + 1
  /\ call' = [call EXCEPT ![c] = [pc |-> "waiting", kind |-> kind, file |-> file]]
  /\ UNCHANGED <<lock, llama, adapter, broken>>

\* What is refused under the lock: a second load of the active file, an unload of
\* nothing or (expected_path given) of another file.
Refused(c) ==
  IF call[c].kind = "load" THEN adapter = call[c].file
  ELSE adapter = NoLora \/ call[c].file \notin {NoLora, adapter}

\* Mutant: the coroutines do not wait for one another.
EnterAnyway(c) ==
  /\ InCall(c, "waiting")
  /\ IF call[c].kind = "status" \/ Refused(c)
       THEN Return(c) /\ UNCHANGED <<lock, llama>>
       ELSE /\ lock' = c
            /\ Move(c, "building")
            /\ llama' = IF call[c].kind = "unload" THEN [llama EXCEPT !.lora = NoLora] ELSE llama
  /\ UNCHANGED <<adapter, broken, managed>>

\* async with self._lock, up to the rebuild that is awaited.  unload_adapter takes the
\* adapter out of the model first; get_status and a refusal return at once.
Enter(c) ==
  /\ InCall(c, "waiting") /\ lock = NoCaller
  /\ IF call[c].kind = "status" \/ Refused(c)
       THEN Return(c) /\ UNCHANGED <<lock, llama>>
       ELSE /\ lock' = c
            /\ Move(c, "building")
            /\ llama' = IF call[c].kind = "unload" THEN [llama EXCEPT !.lora = NoLora] ELSE llama
  /\ UNCHANGED <<adapter, broken, managed>>

\* The thread is done: a new model without an adapter takes the place of the old one,
\* or the constructor raised and the old one stays.
Rebuild(c, fails) ==
  /\ InCall(c, "building")
  /\ IF fails
       THEN /\ Return(c) /\ lock' = NoCaller
            /\ broken' = (broken \/ call[c].kind = "unload")
            /\ UNCHANGED <<llama, adapter>>
       ELSE /\ llama' = [built |-> TRUE, lora |-> NoLora]
            /\ adapter' = NoLora
            /\ Move(c, "built")
            /\ UNCHANGED <<lock, broken>>
  /\ UNCHANGED managed

\* After the await: load_adapter puts its file into the model (which may raise) and
\* records it; unload_adapter reports.
Complete(c, fails) ==
  /\ InCall(c, "built")
  /\ IF call[c].kind = "load" /\ ~fails
       THEN llama' = [llama EXCEPT !.lora = call[c].file] /\ adapter' = call[c].file
       ELSE UNCHANGED <<llama, adapter>>
  /\ Return(c) /\ lock' = NoCaller
  /\ UNCHANGED <<broken, managed>>

LlamaInit ==
  /\ lock = NoCaller /\ llama = NoLlama /\ adapter = NoLora
  /\ call = [c \in Callers |-> NoCall]
  /\ broken = FALSE /\ managed = 0

LlamaNext ==
  \E c \in Callers :
    \/ \E kind \in {"load", "unload", "status"}, file \in LoraFiles \cup {NoLora} :
         Start(c, kind, file)
    \/ Enter(c)
    \/ \E fails \in BOOLEAN : Rebuild(c, fails) \/ Complete(c, fails)

\* When nobody holds the lock the status names the adapter that is in the model, also
\* after loads that failed half way; only a rebuild that fails in unload_adapter leaves
\* the status of an adapter that has been taken out.
StatusIsOfTheModel ==
  lock = NoCaller /\ ~broken => adapter = llama.lora
=============================================================================
