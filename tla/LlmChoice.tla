------------------------------- MODULE LlmChoice -------------------------------
(***************************************************************************)
(* Which language model answers in the MVP application, and what becomes   *)
(* of its reply (app/services/kb_llm.py), and how the hosted provider of   *)
(* the v1 API repeats a request (app/llm/api_provider.py).                 *)
(* The environment is a record:                                            *)
(* explicit is KB_LLM_PROVIDER ("" when unset), keys and bases the presets *)
(* whose key and base URL variables are set, local whether                 *)
(* KB_LLM_LOCAL_FALLBACK leaves the bundled model on, gguf whether its     *)
(* file exists, httpx whether the client library is installed.             *)
(***************************************************************************)
EXTENDS Integers, Sequences, SequencesExt

NoProvider == "none"
Gguf == "gguf"

(* KNOWN_PRESETS and _AUTO_ORDER.                                          *)
NeedKey == {"deepseek", "groq", "openrouter", "openai"}
Presets == NeedKey \cup {"ollama", "custom"}
HaveDefaultBase == Presets \ {"custom"}
AutoOrder == <<"deepseek", "groq", "openrouter", "openai", "custom">>

(* _build_config and is_available: a base URL, and a key where one is      *)
(* needed.  A provider that cannot be built raises LLMUnavailable.         *)
Buildable(env, name) ==
    /\ name \in Presets
    /\ name \in HaveDefaultBase \cup env.bases
    /\ name \in NeedKey => name \in env.keys
    /\ env.httpx

(* _build_gguf_provider: the file has to exist, nothing is loaded yet.     *)
LocalModel(env) == IF env.gguf THEN Gguf ELSE NoProvider

(* select_provider: the named provider or none; else the first keyed       *)
(* preset that can be built; else the bundled model.  It runs on every     *)
(* question, so each of them builds a provider of its own.                 *)
Attempted(env) ==
    SelectSeq(AutoOrder, LAMBDA n : n \in env.keys \/ (n = "custom" /\ n \in env.bases))

\* Mutant: a named provider that cannot be built is replaced by another.
SelectWithoutRefusal(env) ==
    LET usable == SelectSeq(Attempted(env), LAMBDA n : Buildable(env, n))
    IN  IF env.explicit # "" /\ Buildable(env, env.explicit) THEN env.explicit
        ELSE IF usable # <<>> THEN Head(usable)
        ELSE IF env.local THEN LocalModel(env) ELSE NoProvider

SelectProvider(env) ==
    LET usable == SelectSeq(Attempted(env), LAMBDA n : Buildable(env, n))
    IN  IF env.explicit = Gguf THEN LocalModel(env)
        ELSE IF env.explicit # ""
        THEN IF Buildable(env, env.explicit) THEN env.explicit ELSE NoProvider
        ELSE IF usable # <<>> THEN Head(usable)
        ELSE IF env.local THEN LocalModel(env) ELSE NoProvider

(* provider_status: what GET /api/kb/health shows.                         *)
ProviderStatus(env) ==
    [configured |-> env.keys \cup env.bases \cup {"ollama"},
     selected |-> SelectProvider(env)]

(* generate_stream: the deltas of the data lines up to [DONE]; comments,   *)
(* empty lines and malformed chunks are skipped.  A stream that breaks off *)
(* gives what came before, then raises.                                    *)
\* Mutant: a malformed chunk ends the stream.
StreamUntilMalformed(lines, breaks) ==
    LET ends == {i \in DOMAIN lines : lines[i] \in {"done", "malformed"}}
        last == IF ends = {} THEN Len(lines) ELSE (CHOOSE i \in ends : \A j \in ends : i <= j) - 1
    IN  [tokens |-> SelectSeq(SubSeq(lines, 1, last), LAMBDA l : l \in {"a", "b"}),
         raised |-> breaks /\ ends = {}]

StreamTokens(lines, breaks) ==
    LET ends == {i \in DOMAIN lines : lines[i] = "done"}
        last == IF ends = {} THEN Len(lines) ELSE (CHOOSE i \in ends : \A j \in ends : i <= j) - 1
    IN  [tokens |-> SelectSeq(SubSeq(lines, 1, last), LAMBDA l : l \in {"a", "b"}),
         raised |-> breaks /\ ends = {}]

(* ApiProvider.generate: a reply that is JSON ends the loop, with or       *)
(* without an answer in it; a reply that is not, or an HTTP status other   *)
(* than 429 and 5xx, raises at once; a timeout, a busy server or a network *)
(* error is tried again, after a pause that doubles, LLM_API_RETRIES times *)
(* at most.  outcomes[n] is what the n-th request would meet; waited is    *)
(* the sum of the pauses in units of LLM_API_BACKOFF_SEC.                  *)
Passing == {"timeout", "busy", "network"}
Outcomes == Passing \cup {"answer", "empty", "not_json", "refused"}

\* Mutant: a reply that is not JSON is asked for again.
ApiGenerateAgain(outcomes, retries) ==
    LET settled == {n \in 1 .. (retries + 1) : outcomes[n] \notin Passing \cup {"not_json"}}
        last == IF settled = {} THEN retries + 1
                ELSE CHOOSE n \in settled : \A k \in settled : n <= k
    IN  [requests |-> last, waited |-> 2 ^ (last - 1) - 1, met |-> outcomes[last]]

ApiGenerate(outcomes, retries) ==
    LET settled == {n \in 1 .. (retries + 1) : outcomes[n] \notin Passing}
        last == IF settled = {} THEN retries + 1
                ELSE CHOOSE n \in settled : \A k \in settled : n <= k
    IN  [requests |-> last, waited |-> 2 ^ (last - 1) - 1, met |-> outcomes[last]]

-----------------------------------------------------------------------------
(* Inputs the runs enumerate.                                              *)
Environments ==
    [explicit : {"", Gguf, "other"} \cup Presets, keys : SUBSET (NeedKey \cup {"custom"}),
     bases : SUBSET {"ollama", "custom"}, local : BOOLEAN, gguf : BOOLEAN, httpx : BOOLEAN]

(* A question goes where the operator said: to the named provider or       *)
(* nowhere; with no name, to a service only when its key or its address is *)
(* set, the earliest usable one of the order; and never to a service that  *)
(* needs a key without one.                                                *)
QuestionGoesWhereSaid(env) ==
    LET chosen == SelectProvider(env)
        hosted(n) == Buildable(env, n) /\ n \in env.keys \cup (env.bases \cap {"custom"})
    IN  /\ env.explicit # "" => chosen \in {env.explicit, NoProvider}
        /\ chosen \in NeedKey => chosen \in env.keys
        /\ env.explicit = "" /\ chosen \in Presets => chosen \in env.keys \cup env.bases
        /\ env.explicit = "" /\ chosen \in {Gguf, NoProvider}
               => \A n \in Range(AutoOrder) : ~hosted(n)
        /\ env.explicit = "" /\ chosen \in Presets =>
               \A i, j \in DOMAIN AutoOrder :
                   AutoOrder[j] = chosen /\ hosted(AutoOrder[i]) => j <= i
        /\ chosen \in Presets /\ chosen # env.explicit
               => chosen \in ProviderStatus(env).configured

(* The tokens a stream gives are the text of its data lines, in order,     *)
(* however many lines of other kinds lie between them.                     *)
StreamKeepsTokens(lines, breaks) ==
    LET given == StreamTokens(lines, breaks)
        text == SelectSeq(lines, LAMBDA l : l \in {"a", "b", "done"})
    IN  /\ IsPrefix(given.tokens, text)
        /\ "done" \notin Range(lines) => given.tokens = text /\ given.raised = breaks
        /\ "done" \in Range(lines) => ~given.raised

(* A question to the hosted model is billed once and given up only for a   *)
(* reason: no request follows an answer or a refusal, a busy or silent     *)
(* service is asked until the retries are used up, and the caller learns   *)
(* the outcome of the last request made.                                   *)
RequestsEndWithTheirOutcome(outcomes, retries) ==
    LET call == ApiGenerate(outcomes, retries)
    IN  /\ \A n \in 1 .. (call.requests - 1) : outcomes[n] \in Passing
        /\ call.met \in Passing => call.requests = retries + 1
        /\ (\E n \in 1 .. (retries + 1) :
               outcomes[n] = "answer" /\ \A k \in 1 .. (n - 1) : outcomes[k] \in Passing)
               => call.met = "answer"
=============================================================================
