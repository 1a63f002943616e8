------------------------------- MODULE UploadGate ------------------------------
(***************************************************************************)
(* What the two upload endpoints accept: POST /api/v1/upload               *)
(* (app/api/v1/upload.py), which stores one file of a request, and POST    *)
(* /api/docs/upload (app/api/routes.py), which parses and indexes every    *)
(* file of a request before it answers.  A file of a request is a record   *)
(* [ext, type, size, content, text]: its extension, the declared content   *)
(* type, its size in units of the limit, the identity of its bytes and     *)
(* whether a parser finds text in it.  An outcome is a record with the     *)
(* status of the response.                                                 *)
(***************************************************************************)
EXTENDS Integers, Sequences, SequencesExt, FiniteSetsExt

(* Three extensions stand for the table: one with a type of its own, one   *)
(* that accepts two types, and one outside ALLOWED_EXTENSION_WHITELIST.    *)
Whitelist == {"pdf", "md"}
ContentTypes(ext) == CASE ext = "pdf" -> {"application/pdf"}
                       [] ext = "md" -> {"text/markdown", "text/plain"}
                       [] OTHER -> {}

(* UploadLimits and get_upload_limits: a limit that is not positive, or a  *)
(* list without a supported extension, raises ValueError.                  *)
LimitsValid(limits) == limits.max > 0 /\ limits.exts \cap Whitelist # {}
AllowedExts(limits) == limits.exts \cap Whitelist

(* _resolve_upload_limits of routes.py: a bad configuration is replaced by *)
(* the defaults, and the first result is kept for the life of the process. *)
DefaultLimits == [max |-> 2, exts |-> Whitelist]     \* bound: the default limit, in units
RootLimits(limits) == IF LimitsValid(limits) THEN limits ELSE DefaultLimits

(* evaluate_content_type and _enforce_content_type.                        *)
TypeFits(file) == file.type \in ContentTypes(file.ext)

(* validate_upload_request: the declared length of the whole body, then    *)
(* the type of every file, its extension apart; a file whose extension is  *)
(* not allowed is left to the handler.                                     *)
Refusal(request, limits) ==
    IF request.declared > limits.max THEN 413
    ELSE IF \E i \in DOMAIN request.files :
              /\ request.files[i].ext \in AllowedExts(limits) \cup {""}
              /\ request.files[i].type \notin UNION {ContentTypes(e) : e \in Whitelist}
         THEN 415
         ELSE 200

(* _read_file and _read_limited_upload, megabyte by megabyte: the size of  *)
(* the file itself is what counts, whatever the header declared.           *)
ReadStatus(file, limits) ==
    IF file.size > limits.max THEN 413 ELSE IF file.size = 0 THEN 400 ELSE 200

(* upload_file: of the files of a request, the first with an allowed       *)
(* extension; the others are dropped without a word.                       *)
Selected(request, limits) ==
    LET fit == {i \in DOMAIN request.files : request.files[i].ext \in AllowedExts(limits)}
    IN  IF fit = {} THEN 1 ELSE Min(fit)

\* Mutant: the type is checked by validate_upload_request only.
UploadAnyType(request, limits) ==
    IF ~LimitsValid(limits) THEN [status |-> 500, stored |-> 0]
    ELSE IF request.files = <<>> THEN [status |-> 400, stored |-> 0]
    ELSE IF Refusal(request, limits) # 200
    THEN [status |-> Refusal(request, limits), stored |-> 0]
    ELSE LET i == Selected(request, limits)
             file == request.files[i]
             status == IF file.ext \notin AllowedExts(limits) THEN 415
                       ELSE ReadStatus(file, limits)
         IN  [status |-> IF status = 200 THEN 201 ELSE status,
              stored |-> IF status = 200 THEN i ELSE 0]

UploadFile(request, limits) ==
    IF ~LimitsValid(limits) THEN [status |-> 500, stored |-> 0]
    ELSE IF request.files = <<>> THEN [status |-> 400, stored |-> 0]
    ELSE IF Refusal(request, limits) # 200
    THEN [status |-> Refusal(request, limits), stored |-> 0]
    ELSE LET i == Selected(request, limits)
             file == request.files[i]
             status == IF file.ext \notin AllowedExts(limits) \/ ~TypeFits(file) THEN 415
                       ELSE ReadStatus(file, limits)
         IN  [status |-> IF status = 200 THEN 201 ELSE status,
              stored |-> IF status = 200 THEN i ELSE 0]

-----------------------------------------------------------------------------
(* _index_chunks of routes.py: the vector store, or the process-local list *)
(* when it is missing or fails.  The store keeps one payload per chunk     *)
(* hash, the list appends whatever it is given.                            *)
IndexChunks(index, content, storeUp) ==
    IF storeUp THEN [index EXCEPT !.vector = @ \cup {content}]
    ELSE [index EXCEPT !.fallback = Append(@, content)]

(* One file of POST /api/docs/upload: the checks in their order, then the  *)
(* parse and the index; a file whose bytes the request already brought is  *)
(* skipped.                                                                *)
FileStatus(file, limits) ==
    IF file.ext \notin AllowedExts(limits) \/ ~TypeFits(file) THEN 415
    ELSE IF ReadStatus(file, limits) # 200 THEN ReadStatus(file, limits)
    ELSE IF ~file.text THEN 400 ELSE 200

\* Mutant: the digest of a file is not remembered.
TakeEvery(state, file, limits, storeUp) ==
    IF state.status # 200 THEN state
    ELSE IF FileStatus(file, limits) # 200
    THEN [state EXCEPT !.status = FileStatus(file, limits)]
    ELSE [state EXCEPT !.index = IndexChunks(@, file.content, storeUp),
                       !.files = Append(@, file)]

TakeFile(state, file, limits, storeUp) ==
    IF state.status # 200 THEN state
    ELSE IF file.content \in state.seen /\ FileStatus([file EXCEPT !.text = TRUE], limits) = 200
    THEN state
    ELSE IF FileStatus(file, limits) # 200
    THEN [state EXCEPT !.status = FileStatus(file, limits)]
    ELSE [state EXCEPT !.seen = @ \cup {file.content},
                       !.index = IndexChunks(@, file.content, storeUp),
                       !.files = Append(@, file)]

(* upload of routes.py; there is no rate limit and no owner.  What earlier *)
(* files of a refused request added to the index stays there.              *)
DocsUpload(request, rawLimits, index, storeUp) ==
    LET limits == RootLimits(rawLimits)
        start == [status |-> 200, seen |-> {}, index |-> index, files |-> <<>>]
        status == IF request.declared > limits.max THEN 413
                  ELSE IF request.files = <<>> THEN 400
                  ELSE Refusal(request, limits)
        end == FoldLeft(LAMBDA s, f : TakeFile(s, f, limits, storeUp), start, request.files)
    IN  IF status # 200 THEN [start EXCEPT !.status = status] ELSE end

-----------------------------------------------------------------------------
(* _check_rate_limit: at most limit accepted calls of one tenant and host  *)
(* in any window; a refused call does not count.  calls are the times of   *)
(* the calls in order, the result the times of those accepted.             *)
\* Mutant: the window is emptied one call too late.
RateLateEnd(calls, window, limit) ==
    FoldLeft(LAMBDA taken, now :
                 IF Cardinality({i \in DOMAIN taken : now - taken[i] < window}) > limit
                 THEN taken ELSE Append(taken, now),
             <<>>, calls)

RateAccepts(calls, window, limit) ==
    FoldLeft(LAMBDA taken, now :
                 IF Cardinality({i \in DOMAIN taken : now - taken[i] < window}) >= limit
                 THEN taken ELSE Append(taken, now),
             <<>>, calls)

-----------------------------------------------------------------------------
(* Inputs the runs enumerate.                                              *)
FilesOfARequest ==
    [ext : {"pdf", "md", "exe"}, type : {"application/pdf", "text/plain", "other"},
     size : {0, 1, 3}, content : 1 .. 2, text : BOOLEAN]

(* Content decides size and text: the same bytes are the same file.        *)
SameBytes(f, g) == f.content = g.content => f.size = g.size /\ f.text = g.text

Requests ==
    {[files |-> <<f, g>>, declared |-> 0] :
         f \in FilesOfARequest, g \in {h \in FilesOfARequest : h.size # 0}}
    \cup [files : {<<>>} \cup {<<f>> : f \in FilesOfARequest}, declared : {0, 3}]

ConsistentRequest(r) == \A i, j \in DOMAIN r.files : SameBytes(r.files[i], r.files[j])

(* What one upload stores is a supported file whose declared type belongs  *)
(* to its extension and whose size is within the limit, whatever the other *)
(* files of the request say; and of two files that both could be stored it *)
(* is the first.                                                           *)
StoredFileIsSupported(request, limits) ==
    LET result == UploadFile(request, limits)
    IN  /\ (result.status = 201) = (result.stored # 0)
        /\ result.stored # 0 =>
               LET file == request.files[result.stored]
               IN  /\ TypeFits(file) /\ file.size \in 1 .. limits.max
                   /\ \A i \in 1 .. (result.stored - 1) :
                          request.files[i].ext \notin AllowedExts(limits)

(* An accepted request has indexed the bytes of all its files, each once;  *)
(* a refused one has indexed exactly the files before the one it refuses,  *)
(* and none that is unsupported.                                           *)
UploadIndexesItsFiles(request, limits, storeUp) ==
    LET before == [vector |-> {}, fallback |-> <<>>]
        result == DocsUpload(request, limits, before, storeUp)
        indexed == result.index.vector \cup Range(result.index.fallback)
        bytes(last) == {request.files[i].content : i \in 1 .. last}
    IN  /\ result.status = 200 => indexed = bytes(Len(request.files))
        /\ result.status # 200 =>
               \/ indexed = {}
               \/ \E k \in 1 .. (Len(request.files) - 1) : indexed = bytes(k)
        /\ Cardinality(indexed) = Len(result.files)
        /\ Len(result.index.fallback) <= Cardinality(indexed)

(* However calls arrive, no window of a minute holds more accepted calls   *)
(* than the limit, and a refused caller is let in again once the oldest    *)
(* accepted call has left the window.                                      *)
RateIsKept(calls, window, limit) ==
    LET taken == RateAccepts(calls, window, limit)
    IN  /\ \A now \in Range(taken) :
               Cardinality({i \in DOMAIN taken : taken[i] \in now .. (now + window - 1)})
                   <= limit
        /\ \A i \in DOMAIN calls :
               (\A j \in DOMAIN calls : j < i => calls[i] - calls[j] >= window)
                   => calls[i] \in Range(taken)
=============================================================================
