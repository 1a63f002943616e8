------------------------------ MODULE SettingsEnv ------------------------------
(***************************************************************************)
(* app/core/config.py: how Settings() is read from the environment.  Every *)
(* field probes its own name in upper case and then its aliases in order;  *)
(* a validator normalises the value or refuses the whole construction; two *)
(* model validators look at several fields.  pydantic-settings is in no    *)
(* requirements file, so the BaseModel shim is the one modelled, and it    *)
(* reads no .env file.  A raw value is a number or a word.                 *)
(***************************************************************************)
EXTENDS Integers, Sequences

Num(n) == [kind |-> "num", n |-> n, word |-> ""]
Word(w) == [kind |-> "word", n |-> 0, word |-> w]
Unset == Word("<unset>")

Good(n) == [ok |-> TRUE, n |-> n]
Refused == [ok |-> FALSE, n |-> 0]
None == 0               \* an optional number that is not set

(* The validators, by the kind of field they guard.                        *)
QueueSize(raw) ==
    IF raw.kind = "word" THEN IF raw.word \in {"unbounded", "none", "inf"} THEN Good(0) ELSE Refused
    ELSE IF raw.n < 0 THEN Refused ELSE Good(raw.n)

Positive(raw) == IF raw.kind = "num" /\ raw.n > 0 THEN Good(raw.n) ELSE Refused

AtLeastDpi(raw) ==
    IF raw.kind = "word" THEN Refused ELSE IF raw.n < 72 THEN Good(72) ELSE Good(raw.n)

OptionalPositive(raw) ==
    IF raw.kind = "word" THEN IF raw.word = "" THEN Good(None) ELSE Refused
    ELSE IF raw.n > 0 THEN Good(raw.n) ELSE Good(None)

OrSixty(raw) ==
    IF raw.kind = "word" THEN IF raw.word = "" THEN Good(60) ELSE Refused
    ELSE IF raw.n > 0 THEN Good(raw.n) ELSE Good(60)

NotNegative(raw) ==
    IF raw.kind = "word" THEN IF raw.word = "" THEN Good(0) ELSE Refused
    ELSE IF raw.n < 0 THEN Refused ELSE Good(raw.n)

OptionalInt(raw) ==
    IF raw.kind = "word" THEN IF raw.word = "" THEN Good(None) ELSE Refused ELSE Good(raw.n)

PlainInt(raw) == IF raw.kind = "word" THEN Refused ELSE Good(raw.n)

\* pydantic's own reading of a boolean.
Flag(raw) ==
    IF raw.kind = "num" THEN IF raw.n \in {0, 1} THEN Good(raw.n) ELSE Refused
    ELSE IF raw.word \in {"true", "yes", "on", "y"} THEN Good(1)
    ELSE IF raw.word \in {"false", "no", "off"} THEN Good(0) ELSE Refused

(* The names a field is read from, in order, its default, and its rule.    *)
Field(names, default, rule) == [names |-> names, default |-> default, rule |-> rule]

Fields ==
    [ingest_queue_size |-> Field(<<"INGEST_QUEUE_SIZE", "INGEST_MAX_QUEUE">>, 64, "queue"),
     ingest_worker_interval_seconds |->
        Field(<<"INGEST_WORKER_INTERVAL_SECONDS", "INGEST_POLL_INTERVAL">>, 1, "positive"),
     ingest_processing_timeout_seconds |->
        Field(<<"INGEST_PROCESSING_TIMEOUT_SECONDS", "INGEST_STUCK_PROCESSING_TIMEOUT_SECONDS">>,
              900, "positive"),
     ingest_job_retention_days |->
        Field(<<"INGEST_JOB_RETENTION_DAYS", "INGEST_RETENTION_DAYS">>, 7, "positive"),
     ocr_dpi |-> Field(<<"OCR_DPI">>, 300, "dpi"),
     ocr_page_limit |-> Field(<<"OCR_PAGE_LIMIT">>, None, "optional"),
     docling_timeout |-> Field(<<"DOCLING_TIMEOUT">>, 60, "sixty"),
     audit_log_retention_days |-> Field(<<"AUDIT_LOG_RETENTION_DAYS">>, 0, "natural"),
     retrieve_topk |-> Field(<<"RETRIEVE_TOPK">>, 10, "int"),
     rerank_topk |-> Field(<<"RERANK_TOPK", "RERANK_TOP_K">>, 50, "optional_int"),
     chat_min_citations |-> Field(<<"CHAT_MIN_CITATIONS">>, 3, "int"),
     chat_max_citations |-> Field(<<"CHAT_MAX_CITATIONS">>, 5, "int"),
     lora_train_fp16 |-> Field(<<"LORA_TRAIN_FP16", "LORA_FP16">>, 1, "flag"),
     lora_train_bf16 |-> Field(<<"LORA_TRAIN_BF16", "LORA_BF16">>, 0, "flag"),
     auth_disabled |-> Field(<<"AUTH_DISABLED", "DISABLE_AUTH", "AUTH_DISABLE", "KB_DISABLE_AUTH",
                               "AUTH_DISABLED_FOR_TESTS">>, 0, "flag")]

Rule(rule, raw) ==
    CASE rule = "queue" -> QueueSize(raw)
      [] rule = "positive" -> Positive(raw)
      [] rule = "dpi" -> AtLeastDpi(raw)
      [] rule = "optional" -> OptionalPositive(raw)
      [] rule = "sixty" -> OrSixty(raw)
      [] rule = "natural" -> NotNegative(raw)
      [] rule = "optional_int" -> OptionalInt(raw)
      [] rule = "int" -> PlainInt(raw)
      [] rule = "flag" -> Flag(raw)

(* _environment_overrides: the first name that is set.                     *)
SetAt(env, field) == {i \in DOMAIN field.names : env[field.names[i]] # Unset}

\* Mutant: the last name that is set.
ReadLast(env, field) ==
    IF SetAt(env, field) = {} THEN Num(field.default)
    ELSE env[field.names[CHOOSE i \in SetAt(env, field) :
                            \A j \in SetAt(env, field) : j <= i]]

Read(env, field) ==
    IF SetAt(env, field) = {} THEN Num(field.default)
    ELSE env[field.names[CHOOSE i \in SetAt(env, field) :
                            \A j \in SetAt(env, field) : i <= j]]

FieldValue(env, f) ==
    IF SetAt(env, Fields[f]) = {} THEN Good(Fields[f].default)
    ELSE Rule(Fields[f].rule, Read(env, Fields[f]))

(* _env_auth_disabled, which __init__ puts over the field's own value.     *)
Truthy(raw) == raw = Num(1) \/ (raw.kind = "word" /\ raw.word \in {"true", "yes", "on"})

\* Mutant: the field keeps the value of its first name.
AuthByField(env) == FieldValue(env, "auth_disabled").n = 1

AuthDisabled(env) ==
    \E i \in DOMAIN Fields.auth_disabled.names : Truthy(env[Fields.auth_disabled.names[i]])

(* The model validators: precision flags, and the secrets shipped with the *)
(* code in production.  A secret that is not set has its shipped default.  *)
Production(env) == env["APP_ENV"] \in {Word("production"), Word("prod")}

\* Mutant: only a secret that is set to the shipped value is refused.
SecretsOkIfUnset(env) ==
    Production(env) => /\ env["SECRET_KEY"] # Word("change-me")
                       /\ env["API_KEY_HASH_SALT"] # Word("kb-ai-salt")

SecretsOk(env) ==
    Production(env) => /\ env["SECRET_KEY"] \notin {Unset, Word("change-me")}
                       /\ env["API_KEY_HASH_SALT"] \notin {Unset, Word("kb-ai-salt")}

Accepted(env) ==
    /\ \A f \in DOMAIN Fields : FieldValue(env, f).ok
    /\ ~(FieldValue(env, "lora_train_fp16").n = 1 /\ FieldValue(env, "lora_train_bf16").n = 1)
    /\ SecretsOk(env)

Setting(env, f) == FieldValue(env, f).n

(* rerank_limit and citations_bounds.                                      *)
Larger(a, b) == IF a < b THEN b ELSE a
RerankLimit(topk, rerank) ==
    LET candidate == Larger(1, IF rerank = None THEN topk ELSE rerank)
    IN  IF topk < candidate THEN topk ELSE candidate

CitationsBounds(minimum, maximum) ==
    <<Larger(1, minimum), Larger(Larger(1, minimum), maximum)>>

Names == (UNION {{Fields[f].names[i] : i \in DOMAIN Fields[f].names} : f \in DOMAIN Fields})
         \cup {"APP_ENV", "SECRET_KEY", "API_KEY_HASH_SALT"}

(* Environments with values for the names of chosen.                       *)
With(chosen) == [n \in Names |-> IF n \in DOMAIN chosen THEN chosen[n] ELSE Unset]

--------------------------------------------------------------------------------
(* Settings the application starts with are ones its loops and slices can  *)
(* work with: waits and retentions are positive, the queue bound is not    *)
(* negative, the citation bounds are ordered and at least one, at most     *)
(* retrieve_topk hits are reranked; in production no shipped secret is     *)
(* left; and any of the five keys that switch authentication off does so,  *)
(* whatever the others say.                                                *)
StartsUsable(env) ==
    Accepted(env) =>
        LET bounds == CitationsBounds(Setting(env, "chat_min_citations"),
                                      Setting(env, "chat_max_citations"))
            topk == Setting(env, "retrieve_topk")
        IN  /\ Setting(env, "ingest_worker_interval_seconds") > 0
            /\ Setting(env, "ingest_processing_timeout_seconds") > 0
            /\ Setting(env, "ingest_job_retention_days") > 0
            /\ Setting(env, "ingest_queue_size") >= 0
            /\ Setting(env, "audit_log_retention_days") >= 0
            /\ Setting(env, "ocr_dpi") >= 72
            /\ Setting(env, "ocr_page_limit") >= 0
            /\ Setting(env, "docling_timeout") > 0
            /\ 1 <= bounds[1] /\ bounds[1] <= bounds[2]
            /\ RerankLimit(topk, Setting(env, "rerank_topk")) <= topk
            /\ env["APP_ENV"] = Word("production")
               => /\ env["SECRET_KEY"] # Unset /\ env["SECRET_KEY"].word # "change-me"
                  /\ env["API_KEY_HASH_SALT"] # Unset
                  /\ env["API_KEY_HASH_SALT"].word # "kb-ai-salt"
            /\ AuthDisabled(env) <=> \E n \in {"AUTH_DISABLED", "DISABLE_AUTH", "AUTH_DISABLE",
                                               "KB_DISABLE_AUTH", "AUTH_DISABLED_FOR_TESTS"} :
                                        Truthy(env[n])

(* An alias never masks the name it stands for: with both set, the second  *)
(* changes nothing.                                                        *)
AliasNeverMasks(env) ==
    \A f \in DOMAIN Fields \ {"auth_disabled"} :
        LET names == Fields[f].names
        IN  (Len(names) = 2 /\ env[names[1]] # Unset)
            => FieldValue(env, f) = FieldValue([env EXCEPT ![names[2]] = Unset], f)
================================================================================
