---------------------------- MODULE PureFunctions ----------------------------
(***************************************************************************)
(* The functions of the code on every input of a bounded set.  The initial *)
(* state chooses a theme, and its one action an input of that theme; the   *)
(* invariants are the properties of the functions at that input.           *)
(***************************************************************************)
EXTENDS Integers, Sequences, SequencesExt, FiniteSets

VARIABLES
  theme,   \* the function looked at
  input    \* its arguments, <<>> until they are chosen

vars == <<theme, input>>

W == INSTANCE TextWindows
P == INSTANCE DocumentText
U == INSTANCE UploadGate
L == INSTANCE LlmChoice
E == INSTANCE SettingsEnv
N == INSTANCE DbEngine
R == INSTANCE Retrieval
K == INSTANCE KbSearch
D == INSTANCE DatasetShares
T == INSTANCE TrainingPairs
A == INSTANCE RootApi
F == INSTANCE FileViews

Themes == {"cut", "context", "parse", "paragraphs", "stored", "upload", "docs", "rate",
           "provider", "stream", "generate", "settings", "aliases", "engine", "embedder",
           "filters", "postfilter", "citations", "scan", "rerank", "votes", "shares", "rag",
           "dpo", "offsets", "pairs", "validate", "probes", "chat", "views"}

\* The theme t has not been given its arguments.
Open(t) == theme = t /\ input = <<>> /\ UNCHANGED theme

-----------------------------------------------------------------------------
(* Inputs of the functions that cut and read texts.                         *)

GiveCut ==
  /\ Open("cut")
  /\ \E in \in W!CutInputs(8, 5) : W!IsText(in) /\ input' = <<in>>
GiveContext ==
  /\ Open("context")
  /\ \E lengths \in SeqOf(0..3, 3), limit \in 0..6 : input' = <<lengths, limit>>
GiveDocument ==
  /\ Open("parse")
  /\ \E in \in P!PdfInputs(2) \cup P!DoclingInputs(2) :
       /\ ~in.tesseract \/ in.ocrFault # "none" => in.ocrMisses = {} /\ in.ocrPages = 2
       /\ in.mupdf # 2 /\ in.layer # 2
       /\ input' = <<in>>
GiveParagraphs ==
  /\ Open("paragraphs")
  /\ \E sizes \in SeqOf(0..3, 4), limit \in 1..4 : input' = <<sizes, limit>>

\* The bytes of a text and the libraries of a rich file are looked at apart; PyMuPDF works
\* or is broken, and a page that OCR cannot read is left to GiveDocument.
GiveKbFile ==
  /\ Open("stored")
  /\ \E file \in P!KbFiles, in \in P!PdfInputs(2) \cup P!DoclingInputs(1) :
       /\ IF file.kind = "text" THEN in \in P!DoclingInputs(1) /\ in.installed = {} /\ in.doclingFails = {}
                                ELSE file.bytes = "ascii"
       /\ in.mupdf \in {0, 2} /\ in.layer \in {0, 2, 3}
       /\ in.ocrFault = "none" /\ in.ocrMisses = {}
       /\ input' = <<file, in>>

-----------------------------------------------------------------------------
(* Inputs of the upload endpoints.                                          *)

Limits == [max : {0, 2}, exts : {{"pdf", "md"}, {"pdf"}, {"exe"}}]
GiveUpload ==
  /\ Open("upload")
  /\ \E request \in U!Requests, limits \in Limits :
       U!ConsistentRequest(request) /\ input' = <<request, limits>>
GiveDocs ==
  /\ Open("docs")
  /\ \E request \in U!Requests, limits \in Limits, up \in BOOLEAN :
       U!ConsistentRequest(request) /\ input' = <<request, limits, up>>

\* Calls in the order of their times.
GiveCalls ==
  /\ Open("rate")
  /\ \E calls \in SeqOf(1..6, 4), window \in 1..3, limit \in 1..2 :
       /\ \A i \in 1..(Len(calls) - 1) : calls[i] <= calls[i + 1]
       /\ input' = <<calls, window, limit>>

-----------------------------------------------------------------------------
(* Inputs of what is decided once, from the environment and the database.   *)

GiveProvider ==
  /\ Open("provider")
  /\ \E env \in L!Environments : input' = <<env>>
GiveStream ==
  /\ Open("stream")
  /\ \E lines \in SeqOf({"a", "b", "done", "malformed"}, 4), breaks \in BOOLEAN :
       input' = <<lines, breaks>>
GiveOutcomes ==
  /\ Open("generate")
  /\ \E outcomes \in [1..3 -> L!Outcomes], retries \in 0..2 : input' = <<outcomes, retries>>

\* Fields that no model validator looks at are independent, so names are set in pairs: the
\* two of one field, or of the citation bounds, of the result limits and of the precision.
Raws == {E!Unset, E!Num(-1), E!Num(0), E!Num(1), E!Num(80), E!Word(""), E!Word("inf")}
Related ==
  {{E!Fields[f].names[i] : i \in DOMAIN E!Fields[f].names} : f \in DOMAIN E!Fields \ {"auth_disabled"}}
  \cup {{"CHAT_MIN_CITATIONS", "CHAT_MAX_CITATIONS"}, {"RETRIEVE_TOPK", "RERANK_TOPK"},
        {"LORA_TRAIN_FP16", "LORA_TRAIN_BF16"}}
AuthNames == {"AUTH_DISABLED", "DISABLE_AUTH", "AUTH_DISABLE", "KB_DISABLE_AUTH",
              "AUTH_DISABLED_FOR_TESTS"}
Secrets == {E!Unset, E!Word("change-me"), E!Word("kb-ai-salt"), E!Word("own")}

GiveSettings ==
  /\ Open("settings")
  /\ \/ \E names \in Related : \E chosen \in [names -> Raws] : input' = <<E!With(chosen)>>
     \/ \E chosen \in [AuthNames -> {E!Unset, E!Num(0), E!Num(1), E!Word("on")}] :
          input' = <<E!With(chosen)>>
     \/ \E app \in {E!Unset, E!Word("production"), E!Word("prod"), E!Word("dev")} :
          \E key, salt \in Secrets :
            input' = <<E!With([APP_ENV |-> app, SECRET_KEY |-> key,
                                 API_KEY_HASH_SALT |-> salt])>>
GiveAliases ==
  /\ Open("aliases")
  /\ \E names \in Related : \E chosen \in [names -> Raws] : input' = <<E!With(chosen)>>
GiveDatabase ==
  /\ Open("engine")
  /\ \E db \in N!Databases, meta \in N!Metadatas :
       /\ db.url # "sqlite" \/ db.driver
       /\ meta.facade \/ meta.kind = "metadata"
       /\ input' = <<db, meta>>
GiveEmbedder ==
  /\ Open("embedder")
  /\ \E env \in K!EmbedderEnvs : input' = <<env>>

-----------------------------------------------------------------------------
(* Inputs of the searches and of the training sets.                         *)

GiveFilters ==
  /\ Open("filters")
  /\ \E filters \in R!FilterValues, chunk \in R!ChunkValues :
       /\ filters.tags = {} \/ filters.attrs["issuer"] = ""
       /\ chunk.tags # {"X"} /\ chunk.attrs["issuer"] # "X"
       /\ input' = <<filters, chunk>>

\* Three chunks, owned, foreign and of no owner, and the filters of a tenant.
Ranked ==
  {[tenant |-> t, owner |-> "", tags |-> {}, attrs |-> [a \in R!Attrs |-> ""], active |-> v] :
     t \in {"", "acme", "other"}, v \in {"unset", "yes", "no"}}
TenantFilters ==
  {f \in R!FilterValues : f.tags = {} /\ f.owner # "other" /\ \A a \in R!Attrs : f.attrs[a] = ""}
GiveRanked ==
  /\ Open("postfilter")
  /\ \E chunks \in SeqOf(Ranked, 3), filters \in TenantFilters, topK, factor \in 1..2 :
       input' = <<[i \in DOMAIN chunks |-> R!Stored(chunks[i])], filters, topK, factor>>
GiveHits ==
  /\ Open("citations")
  /\ \E hits \in SeqOf([file : {1, 2}, page : {1, 2}], 3), limit \in 1..3, enabled \in BOOLEAN :
       \E score \in [DOMAIN hits -> 0..1], minimum, maximum \in 0..3 :
         input' = <<hits, score, limit, enabled, minimum, maximum>>
GiveScan ==
  /\ Open("scan")
  /\ \E rows \in SeqOf(K!Rows, 3), dim \in {1, 2}, cap \in 1..3, topK \in 1..4 :
       input' = <<rows, dim, cap, topK>>
GiveRerank ==
  /\ Open("rerank")
  /\ \E rows \in SeqOf(K!Rows, 3), topK \in 1..3, cross \in [1..3 -> 0..1] :
       \E config \in [enabled : BOOLEAN, candidates : 1..3, fails : BOOLEAN] :
         input' = <<rows, 1, 3, topK, config, cross>>
GiveVotes ==
  /\ Open("votes")
  /\ \E votes \in SeqOf(K!Votes, 3), user \in {0, 1} : input' = <<votes, user>>
GiveShares ==
  /\ Open("shares")
  /\ \E shares \in {D!RagShares, D!DpoShares, <<34, 33, 33>>, <<50, 50>>}, total \in 0..100 :
       input' = <<shares, total>>
GiveRagSeeds ==
  /\ Open("rag")
  /\ \E seeds \in SeqOf(D!RagSeeds, 3), total \in {1, 2, 3, 7}, document \in 0..2 :
       input' = <<seeds, total, document>>
GiveDpoSeeds ==
  /\ Open("dpo")
  /\ \E seeds \in SeqOf(D!DpoSeeds, 3), total \in {1, 2, 3, 7} : input' = <<seeds, total>>
GiveOffsets ==
  /\ Open("offsets")
  /\ \E n \in 0..8, stride \in 1..4 : input' = <<n, stride>>

\* One item of each kind that can be told apart, in the parts of one reply.
Items ==
  {[asks |-> TRUE, fits |-> TRUE, refuses |-> FALSE, words |-> {1, 2}],
   [asks |-> TRUE, fits |-> TRUE, refuses |-> FALSE, words |-> {2, 3}],
   [asks |-> TRUE, fits |-> TRUE, refuses |-> TRUE, words |-> {1, 2}],
   [asks |-> TRUE, fits |-> FALSE, refuses |-> FALSE, words |-> {3}],
   [asks |-> FALSE, fits |-> TRUE, refuses |-> FALSE, words |-> {1}],
   [asks |-> TRUE, fits |-> TRUE, refuses |-> FALSE, words |-> {}]}
Segments ==
  [kind : {"array"}, list : {TRUE}, items : SeqOf(Items, 2)]
  \cup [kind : {"object"}, list : BOOLEAN, items : {<<i>> : i \in Items}]
  \cup [kind : {"note"}, list : {TRUE}, items : {<<>>}]
Few == {s \in Segments : s.kind # "array" \/ Len(s.items) < 2}
GivePairs ==
  /\ Open("pairs")
  /\ \E prose \in BOOLEAN, s \in Segments, t, again \in Few, check \in BOOLEAN :
       \E parts \in {<<s>>, <<s, t>>} :
         /\ t.list /\ again.list /\ (check \/ again.kind = "note")
         /\ input' = <<[prose |-> prose, segments |-> parts],
                       [prose |-> FALSE, segments |-> <<again>>], check>>
GiveLines ==
  /\ Open("validate")
  /\ \E lines \in SeqOf([json : BOOLEAN, prompt : {"", "p", "q"}, context : {"", "c"}, tokens : 0..3], 2) :
       input' = <<lines, 3>>

-----------------------------------------------------------------------------
(* Inputs of the root endpoints and of the views of files.                  *)

GiveParts ==
  /\ Open("probes")
  /\ \E parts \in A!AppParts : input' = <<parts>>
GiveQuestion ==
  /\ Open("chat")
  /\ \E parts \in A!AppParts, question \in A!Questions :
       /\ parts.index /\ parts.adapter # "absent"
       /\ input' = <<parts, question>>
GiveFiles ==
  /\ Open("views")
  /\ \E files \in SeqOf(F!FileRows, 2), documents \in [{"d1"} -> {"queued", "completed"}] :
       input' = <<files, documents>>

-----------------------------------------------------------------------------
Init == theme \in Themes /\ input = <<>>

Next ==
  \/ GiveCut \/ GiveContext \/ GiveDocument \/ GiveParagraphs \/ GiveKbFile
  \/ GiveUpload \/ GiveDocs \/ GiveCalls
  \/ GiveProvider \/ GiveStream \/ GiveOutcomes
  \/ GiveSettings \/ GiveAliases \/ GiveDatabase \/ GiveEmbedder
  \/ GiveFilters \/ GiveRanked \/ GiveHits \/ GiveScan \/ GiveRerank \/ GiveVotes
  \/ GiveShares \/ GiveRagSeeds \/ GiveDpoSeeds \/ GiveOffsets \/ GivePairs \/ GiveLines
  \/ GiveParts \/ GiveQuestion \/ GiveFiles


-----------------------------------------------------------------------------
(* Properties: those of the function that the theme names.                  *)

Of(t) == theme = t /\ input # <<>>

\* Text and document functions: no text is lost between a file and the prompt, and every
\* piece keeps the page it is from.
TextIsKept ==
  /\ Of("cut") => W!IngestCutsKeepText(input[1]) /\ W!StoreCutsKeepText(input[1])
  /\ Of("context") => W!ContextKeepsBudget(input[1], input[2])
  /\ Of("parse") => P!PagesAreTheirs(input[1])
  /\ Of("paragraphs") => P!ParagraphsKeepOrder(input[1], input[2])
  /\ Of("stored") => P!StoredPagesKeepNumbers(input[1], input[2])

\* Upload endpoints: what is stored or indexed is what was accepted, and the rate limit
\* holds in every window.
UploadsAreAsAccepted ==
  /\ Of("upload") => U!StoredFileIsSupported(input[1], input[2])
  /\ Of("docs") => U!UploadIndexesItsFiles(input[1], input[2], input[3])
  /\ Of("rate") => U!RateIsKept(input[1], input[2], input[3])

\* Choices made from the environment and the database: what the operator named is what is
\* used, an unusable setting refuses the start, and a request ends with its outcome.
ChoicesAreTheOperators ==
  /\ Of("provider") => L!QuestionGoesWhereSaid(input[1])
  /\ Of("stream") => L!StreamKeepsTokens(input[1], input[2])
  /\ Of("generate") => L!RequestsEndWithTheirOutcome(input[1], input[2])
  /\ Of("settings") => E!StartsUsable(input[1])
  /\ Of("aliases") => E!AliasNeverMasks(input[1])
  /\ Of("engine") => N!SchemaIsWholeOrSaid(input[1], input[2])
  /\ Of("embedder") => K!NamedEmbedderOrHash(input[1])

\* Searches: a tenant finds its own chunks and the best of them, whichever store answers
\* and whichever stage fails, and the answer cites exactly those.
SearchesFindTheirOwn ==
  /\ Of("filters") => R!FiltersKeepTenant(input[1], input[2])
  /\ Of("postfilter") => R!PostFilterMissesOnlyBeyond(input[1], input[2], input[3], input[4])
  /\ Of("citations") => R!CitationsAreTheHits(input[1], input[2], input[3], input[4], input[5], input[6])
  /\ Of("scan") => K!UnreportedIsExact(input[1], input[2], input[3], input[4])
  /\ Of("rerank") => K!RerankCostsNoHit(input[1], input[2], input[3], input[4], input[5], input[6])

\* Training sets: the sizes add up, no sample cites what it is not shown, and no pair is
\* kept that the teacher did not write or the user did not mean.
DatasetsAreAsAsked ==
  /\ Of("votes") => K!PairsFollowTheLastVote(input[1], input[2])
  /\ Of("shares") => D!SharesAddUp(input[1], input[2])
  /\ Of("rag") => D!SamplesAreGrounded(input[1], input[2], input[3])
  /\ Of("dpo") => D!RejectedIsUngrounded(input[1], input[2])
  /\ Of("offsets") => D!OffsetsPartition(input[1], input[2])
  /\ Of("pairs") => T!PairsWereSaidTwice(input[1], input[2], input[3])
  /\ Of("validate") => T!PassedDatasetIsClean(input[1], input[2])

\* Root endpoints and views: what the probes, the chat and the lists report agrees.
ReportsAgree ==
  /\ Of("probes") => A!ReadyIsWarm(input[1])
  /\ Of("chat") => A!ReadyAnswers(input[1], input[2]) /\ A!ErrorLeavesNoQuestion(input[1], input[2])
  /\ Of("views") => F!SummaryIsOfTheList(input[1], input[2])
=============================================================================
