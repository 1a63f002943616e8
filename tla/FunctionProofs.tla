--------------------------- MODULE FunctionProofs ---------------------------
(***************************************************************************)
(* Proofs about the pure functions that PureFunctions runs over bounded    *)
(* inputs: what seven of them compute holds for every input.  A function   *)
(* that takes the first of several (names, files, outcomes) chooses the    *)
(* least element of a set of positions, and FirstPosition says there is    *)
(* one.  Functions that fold over a sequence are not in here: the folds    *)
(* are defined with operators as parameters, which the provers refuse.     *)
(***************************************************************************)
EXTENDS Integers, Sequences, FiniteSetTheorems, TLAPS

TW == INSTANCE TextWindows
DS == INSTANCE DatasetShares
UG == INSTANCE UploadGate
LC == INSTANCE LlmChoice
RV == INSTANCE Retrieval
ES == INSTANCE SettingsEnv

-----------------------------------------------------------------------------
(* TextWindows: the windows of the ingest pipeline.                         *)

\* Among the numbers up to x there is a multiple of d that x is less than d beyond.
LEMMA MultipleBelow ==
  ASSUME NEW x \in Nat, NEW d \in Nat \ {0}
  PROVE  \E s \in 0 .. x : s % d = 0 /\ x - s < d
  <1>1. x % d \in 0 .. (d - 1)
    OBVIOUS
  <1>2. x \div d \in Nat
    OBVIOUS
  <1>3. x = (d * (x \div d)) + (x % d)
    OBVIOUS
  <1>4. ASSUME NEW k \in Nat PROVE (d * k) % d = 0 /\ d * k \in Nat
    OBVIOUS
  <1>5. PICK s \in Nat : s % d = 0 /\ x = s + (x % d)
    BY <1>2, <1>3, <1>4
  <1> QED BY <1>1, <1>5

\* The windows of a text of positive length, and the window of its tail.
LEMMA WindowsAre ==
  ASSUME NEW length \in Nat \ {0}, NEW window \in Nat \ {0}, NEW step \in 1 .. window
  PROVE  \E starts \in SUBSET (0 .. (length - window)), tail \in 0 .. length :
           /\ \A s \in 0 .. (length - window) : s % step = 0 => s \in starts
           /\ tail = IF window < length THEN length - window ELSE 0
           /\ TW!CollectWindows(length, window, step)
                = {<<s, s + window>> : s \in starts}
                  \cup IF \A s \in starts : tail > s THEN {<<tail, length>>} ELSE {}
  <1> DEFINE starts == {s \in 0 .. (length - window) : s % step = 0}
             tail == TW!Greater(length - window, 0)
  <1>1. tail \in 0 .. length /\ tail = IF window < length THEN length - window ELSE 0
    BY DEF TW!Greater
  <1>2. starts \in SUBSET (0 .. (length - window))
    OBVIOUS
  <1>3. TW!CollectWindows(length, window, step)
          = {<<s, s + window>> : s \in starts}
            \cup IF \A s \in starts : tail > s THEN {<<tail, length>>} ELSE {}
    BY DEF TW!CollectWindows, TW!TailWindow
  <1>4. \A s \in 0 .. (length - window) : s % step = 0 => s \in starts
    OBVIOUS
  <1> HIDE DEF starts, tail
  <1> QED BY <1>1, <1>2, <1>3, <1>4

\* Every position is in a window, no window is larger than asked for, and none is within
\* another.
LEMMA WindowsCover ==
  ASSUME NEW length \in Nat, NEW window \in Nat \ {0}, NEW step \in 1 .. window,
         NEW pieces, pieces = TW!CollectWindows(length, window, step)
  PROVE  /\ TW!Covered(pieces) = 0 .. (length - 1)
         /\ \A p \in pieces : p[1] < p[2] /\ p[2] - p[1] <= window
         /\ \A p, q \in pieces : p # q => p[1] # q[1] /\ p[2] # q[2]
  <1>1. CASE length = 0
    <2>1. pieces = {}
      BY <1>1 DEF TW!CollectWindows
    <2> QED BY <1>1, <2>1 DEF TW!Covered
  <1>2. CASE length # 0
    <2>0. length \in Nat \ {0}
      BY <1>2
    <2>1. PICK starts \in SUBSET (0 .. (length - window)), tail \in 0 .. length :
           /\ \A s \in 0 .. (length - window) : s % step = 0 => s \in starts
           /\ tail = IF window < length THEN length - window ELSE 0
           /\ pieces = {<<s, s + window>> : s \in starts}
                       \cup IF \A s \in starts : tail > s THEN {<<tail, length>>} ELSE {}
      BY <2>0, WindowsAre
    <2> DEFINE cut(p) == \E s \in starts : p = <<s, s + window>>
               rest(p) == p = <<tail, length>> /\ \A s \in starts : tail > s
    <2>2. \A p : p \in pieces <=> cut(p) \/ rest(p)
      BY <2>1
    <2>3. \A p \in pieces : /\ p = <<p[1], p[2]>> /\ p[1] \in Nat /\ p[2] \in Nat
                            /\ p[2] <= length /\ p[1] < p[2] /\ p[2] - p[1] <= window
      BY <1>2, <2>1, <2>2
    <2>4. \A p, q \in pieces : p # q => p[1] # q[1] /\ p[2] # q[2]
      <3> SUFFICES ASSUME NEW p \in pieces, NEW q \in pieces, p # q
                   PROVE  p[1] # q[1] /\ p[2] # q[2]
        OBVIOUS
      <3>1. CASE cut(p) /\ cut(q)
        BY <2>1, <3>1
      <3>2. CASE cut(p) /\ rest(q)
        BY <1>2, <2>1, <3>2
      <3>3. CASE rest(p) /\ cut(q)
        BY <1>2, <2>1, <3>3
      <3>4. CASE rest(p) /\ rest(q)
        BY <3>4
      <3> QED BY <2>2, <3>1, <3>2, <3>3, <3>4
    <2>5. TW!Covered(pieces) \subseteq 0 .. (length - 1)
      <3> SUFFICES ASSUME NEW p \in pieces, NEW x \in p[1] .. (p[2] - 1)
                   PROVE  x \in 0 .. (length - 1)
        BY DEF TW!Covered
      <3>1. p[1] \in Nat /\ p[2] \in Nat /\ p[2] <= length
        BY <2>3
      <3> QED BY <3>1
    <2>6. ASSUME NEW x \in 0 .. (length - 1)
          PROVE  \E p \in pieces : x \in p[1] .. (p[2] - 1)
      <3>1. CASE x < length - window
        <4>0. step \in Nat \ {0} /\ x \in Nat
          OBVIOUS
        <4>1. PICK s \in 0 .. x : s % step = 0 /\ x - s < step
          BY <4>0, MultipleBelow
        <4>2. s \in 0 .. (length - window)
          BY <3>1
        <4>3. <<s, s + window>> \in pieces
          BY <2>1, <4>1, <4>2
        <4>4. x \in s .. (s + window - 1)
          BY <4>1, <4>2
        <4> QED BY <4>3, <4>4
      <3>2. CASE ~(x < length - window) /\ \A s \in starts : tail > s
        <4>1. <<tail, length>> \in pieces
          BY <2>1, <3>2
        <4>2. x \in tail .. (length - 1)
          BY <2>1, <3>2
        <4> QED BY <4>1, <4>2
      <3>3. CASE ~(x < length - window) /\ ~ \A s \in starts : tail > s
        <4>1. PICK s \in starts : ~(tail > s)
          BY <3>3
        <4>2. <<s, s + window>> \in pieces
          BY <2>1
        <4>3. s = length - window
          BY <2>1, <4>1
        <4>4. x \in s .. (s + window - 1)
          BY <3>3, <4>3
        <4> QED BY <4>2, <4>4
      <3> QED BY <3>1, <3>2, <3>3
    <2>7. 0 .. (length - 1) \subseteq TW!Covered(pieces)
      BY <2>6 DEF TW!Covered
    <2> QED BY <2>3, <2>4, <2>5, <2>7
  <1> QED BY <1>1, <1>2

\* No text is lost between windows (app/ingest/chunking.py _window_and_step, _collect_windows,
\* _chunk): for a text of any length and any chunk size and overlap, negative ones too, every
\* token or character is in a window, none is larger than asked for, none within another.
THEOREM WindowsKeepText ==
  ASSUME NEW in, in.length \in Nat, in.extra \in Nat, in.size \in Int, in.overlap \in Int
  PROVE  TW!IngestCutsKeepText(in)
  <1> DEFINE window == TW!WindowOf(in.size)
             step == TW!StepOf(in.size, in.overlap)
             characters == in.length + in.extra
             pieces == TW!Chunk(in.length, characters, in.size, in.overlap)
             Kept == /\ \/ TW!Covered(pieces) = 0 .. (in.length - 1)
                        \/ TW!Covered(pieces) = 0 .. (characters - 1)
                     /\ \A p \in pieces : p[1] < p[2] /\ p[2] - p[1] <= window
                     /\ \A p, q \in pieces : p # q => p[1] # q[1] /\ p[2] # q[2]
  <1>1. window \in Nat \ {0} /\ step \in 1 .. window /\ characters \in Nat
    BY DEF TW!WindowOf, TW!StepOf, TW!Greater, TW!Lesser
  <1> HIDE DEF Kept
  <1>0. SUFFICES Kept
    BY DEF Kept, TW!IngestCutsKeepText
  <1> USE DEF Kept
  <1>2. CASE window = 1
    <2>1. pieces = {<<i, i + 1>> : i \in 0 .. (characters - 1)}
      BY <1>2 DEF TW!Chunk
    <2>2. TW!Covered(pieces) = 0 .. (characters - 1)
      <3> HIDE DEF pieces, window, step, characters
      <3>1. TW!Covered(pieces) \subseteq 0 .. (characters - 1)
        BY <1>1, <2>1 DEF TW!Covered
      <3>2. ASSUME NEW i \in 0 .. (characters - 1) PROVE i \in TW!Covered(pieces)
        <4>1. <<i, i + 1>> \in pieces
          BY <2>1
        <4>2. i \in i .. (i + 1 - 1)
          BY <1>1
        <4> QED BY <4>1, <4>2 DEF TW!Covered
      <3> QED BY <3>1, <3>2
    <2> HIDE DEF pieces, window, step, characters
    <2> QED BY <1>1, <1>2, <2>1, <2>2
  <1>3. CASE window # 1 /\ pieces = TW!CollectWindows(in.length, window, step)
    <2> HIDE DEF pieces, window, step, characters
    <2> QED BY <1>1, <1>3, WindowsCover
  <1>4. CASE window # 1 /\ pieces = TW!CollectWindows(characters, window, step)
    <2> HIDE DEF pieces, window, step, characters
    <2> QED BY <1>1, <1>4, WindowsCover
  <1>5. window # 1 => \/ pieces = TW!CollectWindows(in.length, window, step)
                      \/ pieces = TW!CollectWindows(characters, window, step)
    BY DEF TW!Chunk
  <1> HIDE DEF Kept, pieces, window, step, characters
  <1> QED BY <1>2, <1>3, <1>4, <1>5

-----------------------------------------------------------------------------
(* DatasetShares: the offsets of a stride.                                  *)

\* What a number and its remainder are, and that they are this number's alone.
LEMMA Divided ==
  ASSUME NEW d \in Nat \ {0}, NEW x \in Nat
  PROVE  /\ x % d \in 0 .. (d - 1) /\ x \div d \in Nat
         /\ x = (d * (x \div d)) + (x % d)
  OBVIOUS
LEMMA Undivided ==
  ASSUME NEW d \in Nat \ {0}, NEW q \in Nat, NEW r \in 0 .. (d - 1), NEW x \in Nat,
         x = (d * q) + r
  PROVE  x % d = r /\ x \div d = q
  OBVIOUS

\* A chunk is in the sample of an offset when its position has that remainder.
LEMMA SampledAre ==
  ASSUME NEW n \in Nat, NEW stride \in Nat \ {0}, NEW a \in 0 .. (stride - 1)
  PROVE  DS!SelectChunks(n, stride, a, 0) = {c \in 0 .. (n - 1) : c % stride = a}
  <1>1. ASSUME NEW c \in a .. (n - 1), (c - a) % stride = 0 PROVE c % stride = a
    <2> DEFINE q == (c - a) \div stride
    <2>1. c - a \in Nat /\ c \in Nat
      OBVIOUS
    <2>2. q \in Nat /\ c - a = (stride * q) + 0
      BY <1>1, <2>1, Divided
    <2> HIDE DEF q
    <2>3. c = (stride * q) + a
      BY <2>1, <2>2
    <2> QED BY <2>1, <2>2, <2>3, Undivided
  <1>2. ASSUME NEW c \in 0 .. (n - 1), c % stride = a
        PROVE  c \in a .. (n - 1) /\ (c - a) % stride = 0
    <2> DEFINE q == c \div stride
    <2>1. c \in Nat
      OBVIOUS
    <2>2. q \in Nat /\ c = (stride * q) + a
      BY <1>2, <2>1, Divided
    <2> HIDE DEF q
    <2>3. stride * q \in Nat
      BY <2>2
    <2>4. c - a = (stride * q) + 0 /\ c - a \in Nat /\ 0 \in 0 .. (stride - 1)
      BY <2>2, <2>3
    <2>5. (c - a) % stride = 0
      BY <2>2, <2>4, Undivided
    <2> QED BY <2>4, <2>5
  <1> QED BY <1>1, <1>2 DEF DS!SelectChunks

\* A limit takes at most as many.
LEMMA LimitsHold ==
  ASSUME NEW n \in Nat, NEW stride \in Nat \ {0}, NEW a \in 0 .. (stride - 1),
         NEW limit \in 1 .. n
  PROVE  /\ DS!SelectChunks(n, stride, a, limit) \subseteq DS!SelectChunks(n, stride, a, 0)
         /\ Cardinality(DS!SelectChunks(n, stride, a, limit)) <= limit
  <1> DEFINE sampled == {c \in a .. (n - 1) : (c - a) % stride = 0}
             taken == {c \in sampled : (c - a) \div stride < limit}
             nth == [c \in taken |-> (c - a) \div stride]
  <1>1. /\ DS!SelectChunks(n, stride, a, limit) = taken
        /\ DS!SelectChunks(n, stride, a, 0) = sampled
    BY DEF DS!SelectChunks
  <1>2. ASSUME NEW c \in taken
        PROVE  /\ (c - a) \div stride \in 0 .. (limit - 1)
               /\ c = (stride * ((c - a) \div stride)) + a
    <2>1. c - a \in Nat /\ (c - a) % stride = 0 /\ (c - a) \div stride < limit
      OBVIOUS
    <2>2. (c - a) \div stride \in Nat /\ c - a = (stride * ((c - a) \div stride)) + 0
      BY <2>1, Divided
    <2> QED BY <2>1, <2>2
  <1>3. nth \in Injection(taken, 0 .. (limit - 1))
    <2>1. nth \in [taken -> 0 .. (limit - 1)]
      BY <1>2
    <2>2. ASSUME NEW c \in taken, NEW e \in taken, nth[c] = nth[e] PROVE c = e
      BY <1>2, <2>2
    <2> QED BY <2>1, <2>2 DEF Injection, IsInjective
  <1>4. IsFiniteSet(0 .. (limit - 1)) /\ Cardinality(0 .. (limit - 1)) = limit
    BY FS_Interval
  <1> HIDE DEF taken, nth
  <1>5. Cardinality(taken) <= limit
    BY <1>3, <1>4, FS_Injection
  <1> QED BY <1>1, <1>5 DEF taken

\* Successive rerank runs divide the corpus (scripts/build_rerank_dataset.py select_chunks): the
\* offsets of a stride take every chunk, each once, for a corpus and a stride of any size, and
\* a limit only takes less.
THEOREM OffsetsShareTheCorpus ==
  ASSUME NEW n \in Nat, NEW stride \in Nat \ {0}
  PROVE  DS!OffsetsPartition(n, stride)
  <1>1. \A a \in 0 .. (stride - 1) :
          DS!SelectChunks(n, stride, a, 0) = {c \in 0 .. (n - 1) : c % stride = a}
    BY SampledAre
  <1>2. \A a, b \in 0 .. (stride - 1) :
          a # b => DS!SelectChunks(n, stride, a, 0) \cap DS!SelectChunks(n, stride, b, 0) = {}
    BY <1>1
  <1>3. UNION {DS!SelectChunks(n, stride, a, 0) : a \in 0 .. (stride - 1)} = 0 .. (n - 1)
    <2>1. \A c \in 0 .. (n - 1) : c % stride \in 0 .. (stride - 1)
      BY Divided
    <2> QED BY <1>1, <2>1
  <1>4. ASSUME NEW a \in 0 .. (stride - 1), NEW limit \in 1 .. n
        PROVE  /\ DS!SelectChunks(n, stride, a, limit) \subseteq DS!SelectChunks(n, stride, a, 0)
               /\ DS!Cardinality(DS!SelectChunks(n, stride, a, limit)) <= limit
    BY LimitsHold DEF Cardinality, DS!Cardinality
  <1> QED BY <1>2, <1>3, <1>4 DEF DS!OffsetsPartition

-----------------------------------------------------------------------------
(* The first of several.                                                    *)

\* A set of positions has a first one: of the beginnings of it that end with a member, one
\* is smallest.
LEMMA FirstPosition ==
  ASSUME NEW len \in Nat, NEW at \in SUBSET (1 .. len), at # {}
  PROVE  \E i \in at : \A j \in at : i <= j
  <1> DEFINE upTo(i) == {j \in at : j <= i}
             beginnings == {upTo(i) : i \in at}
  <1>0. 1 \in Int /\ len \in Int /\ at \subseteq Int
    OBVIOUS
  <1>1. IsFiniteSet(at)
    <2>1. IsFiniteSet(1 .. len)
      BY <1>0, FS_Interval
    <2> QED BY <2>1, FS_Subset
  <1>2. IsWellFoundedOn(StrictSubsetOrdering(at), SUBSET at)
    BY <1>1, FS_FiniteSubsetsOfFinite, FS_StrictSubsetOrderingWellFounded
  <1>3. beginnings \subseteq SUBSET at /\ beginnings # {}
    OBVIOUS
  <1> HIDE DEF beginnings
  <1>4. PICK least \in beginnings :
          \A some \in beginnings : <<some, least>> \notin StrictSubsetOrdering(at)
    BY <1>2, <1>3, WFMin
  <1>5. PICK i \in at : least = upTo(i)
    BY <1>4 DEF beginnings
  <1>6. ASSUME NEW j \in at, j < i PROVE FALSE
    <2>1. upTo(j) \in beginnings
      BY DEF beginnings
    <2>2. i \in Int /\ j \in Int /\ ~(i <= j) /\ i <= i
      BY <1>0, <1>6
    <2>3. i \in upTo(i) /\ i \notin upTo(j)
      BY <2>2
    <2>4. \A k \in at : k <= j => k <= i
      BY <1>0, <1>6, <2>2
    <2>5. upTo(j) \subseteq upTo(i)
      BY <2>4
    <2> HIDE DEF upTo
    <2>6. upTo(j) \in SUBSET at /\ upTo(i) \in SUBSET at
      BY DEF upTo
    <2>7. <<upTo(j), upTo(i)>> \in StrictSubsetOrdering(at)
      BY <2>3, <2>5, <2>6 DEF StrictSubsetOrdering
    <2> QED BY <1>4, <1>5, <2>1, <2>7
  <1> QED BY <1>0, <1>6

-----------------------------------------------------------------------------
(* UploadGate: the file that is stored.                                     *)

\* The files of a request and the limits the operator set.
UploadedFiles == [ext : STRING, type : STRING, size : Nat]

\* Of a request with any number of files, under any limits, what is stored is the first file
\* with an allowed extension, of a type that fits it and within the size limit; a status other
\* than 201 stores nothing (app/api/v1/upload.py upload_file).
THEOREM StoredFilesAreSupported ==
  ASSUME NEW request, NEW limits, request.declared \in Int, limits.max \in Int,
         request.files \in Seq(UploadedFiles)
  PROVE  UG!StoredFileIsSupported(request, limits)
  <1> DEFINE files == request.files
             allowed == UG!AllowedExts(limits)
             fit == {i \in DOMAIN files : files[i].ext \in allowed}
             chosen == UG!Selected(request, limits)
             file == files[chosen]
             status == IF file.ext \notin allowed \/ ~UG!TypeFits(file) THEN 415
                       ELSE UG!ReadStatus(file, limits)
             result == UG!UploadFile(request, limits)
  <1>1. /\ files \in Seq(UploadedFiles) /\ Len(files) \in Nat
        /\ fit \in SUBSET (1 .. Len(files))
    OBVIOUS
  <1>2. chosen = IF fit = {} THEN 1 ELSE CHOOSE i \in fit : \A j \in fit : i <= j
    BY DEF UG!Selected, UG!Min
  <1>3. fit # {} => chosen \in fit /\ \A j \in fit : chosen <= j
    BY <1>1, <1>2, FirstPosition
  <1>4. \/ result.stored = 0 /\ result.status \in {400, 500}
        \/ result.stored = 0 /\ result.status = UG!Refusal(request, limits) /\ files # <<>>
           /\ UG!Refusal(request, limits) # 200
        \/ /\ files # <<>>
           /\ result = [status |-> IF status = 200 THEN 201 ELSE status,
                        stored |-> IF status = 200 THEN chosen ELSE 0]
    BY DEF UG!UploadFile
  <1>5. UG!Refusal(request, limits) \in {413, 415, 200}
    BY DEF UG!Refusal
  <1>6. status \in {415, 413, 400, 200}
    BY DEF UG!ReadStatus
  <1>7. files # <<>> => chosen \in DOMAIN files /\ file.size \in Nat
    <2>1. ASSUME files # <<>> PROVE chosen \in 1 .. Len(files)
      <3> HIDE DEF fit, chosen, files
      <3>1. Len(files) # 0
        BY <1>1, <2>1
      <3>2. CASE fit = {}
        BY <1>1, <1>2, <3>1, <3>2
      <3>3. CASE fit # {}
        BY <1>1, <1>3, <3>3
      <3> QED BY <3>2, <3>3
    <2> HIDE DEF chosen, files
    <2>2. ASSUME files # <<>> PROVE file \in UploadedFiles
      BY <1>1, <2>1, <2>2
    <2>3. \A f \in UploadedFiles : f.size \in Nat
      BY DEF UploadedFiles
    <2>4. DOMAIN files = 1 .. Len(files)
      BY <1>1
    <2> QED BY <2>1, <2>2, <2>3, <2>4
  <1>8. ASSUME files # <<>>, status = 200
        PROVE  /\ file.ext \in allowed /\ UG!TypeFits(file) /\ file.size \in 1 .. limits.max
               /\ chosen \in 1 .. Len(files)
               /\ \A i \in 1 .. (chosen - 1) : files[i].ext \notin allowed
    <2>1. file.ext \in allowed /\ UG!TypeFits(file) /\ UG!ReadStatus(file, limits) = 200
      BY <1>8
    <2>2. file.size \in 1 .. limits.max
      BY <1>7, <1>8, <2>1 DEF UG!ReadStatus
    <2>3. chosen \in fit /\ chosen \in 1 .. Len(files)
      BY <1>1, <1>7, <1>8, <2>1
    <2>4. ASSUME NEW i \in 1 .. (chosen - 1), files[i].ext \in allowed PROVE FALSE
      <3>1. i \in fit
        BY <1>1, <2>3, <2>4
      <3> QED BY <1>3, <2>3, <3>1
    <2> QED BY <2>1, <2>2, <2>3, <2>4
  <1> HIDE DEF fit, chosen, status, result, allowed
  <1>9. (result.status = 201) <=> (result.stored # 0)
    BY <1>4, <1>5, <1>6, <1>8
  <1>10. result.stored # 0 => result.stored = chosen /\ files # <<>> /\ status = 200
    BY <1>4
  <1>11. CASE result.stored # 0
    BY <1>8, <1>9, <1>10, <1>11 DEF UG!StoredFileIsSupported, result, allowed
  <1>12. CASE result.stored = 0
    BY <1>9, <1>12 DEF UG!StoredFileIsSupported, result
  <1> QED BY <1>11, <1>12

-----------------------------------------------------------------------------
(* LlmChoice: the request that ends a question.                             *)

\* Whatever number of retries is set (app/llm/api_provider.py generate): no request follows an
\* answer or a refusal, a service that stays busy is asked until the retries are used up, and
\* an answer that comes in time is returned.
THEOREM RequestsEndAsTheyShould ==
  ASSUME NEW retries \in Nat, NEW outcomes \in [1 .. (retries + 1) -> LC!Outcomes]
  PROVE  LC!RequestsEndWithTheirOutcome(outcomes, retries)
  <1> DEFINE settled == {n \in 1 .. (retries + 1) : outcomes[n] \notin LC!Passing}
             last == IF settled = {} THEN retries + 1
                     ELSE CHOOSE n \in settled : \A k \in settled : n <= k
  <1>1. LC!ApiGenerate(outcomes, retries)
          = [requests |-> last, waited |-> 2 ^ (last - 1) - 1, met |-> outcomes[last]]
    BY DEF LC!ApiGenerate
  <1>2. /\ settled = {} => last = retries + 1
        /\ settled # {} => last \in settled /\ \A k \in settled : last <= k
    <2>1. retries + 1 \in Nat /\ settled \in SUBSET (1 .. (retries + 1))
      OBVIOUS
    <2> QED BY <2>1, FirstPosition
  <1>3. "answer" \notin LC!Passing
    BY DEF LC!Passing
  <1>4. \A n \in 1 .. (retries + 1) : n \in settled <=> outcomes[n] \notin LC!Passing
    OBVIOUS
  <1> DEFINE call == LC!ApiGenerate(outcomes, retries)
  <1>5. call.requests = last /\ call.met = outcomes[last]
    BY <1>1
  <1> HIDE DEF settled, last, call
  <1>6. last \in 1 .. (retries + 1)
    BY <1>2 DEF settled
  <1>7. \A n \in 1 .. (last - 1) : outcomes[n] \in LC!Passing
    <2> SUFFICES ASSUME NEW n \in 1 .. (last - 1), outcomes[n] \notin LC!Passing PROVE FALSE
      OBVIOUS
    <2>1. n \in settled /\ n < last
      BY <1>4, <1>6
    <2> QED BY <1>2, <1>6, <2>1
  <1>8. outcomes[last] \in LC!Passing => last = retries + 1
    BY <1>2, <1>4, <1>6
  <1>9. ASSUME NEW n \in 1 .. (retries + 1), outcomes[n] = "answer",
               \A k \in 1 .. (n - 1) : outcomes[k] \in LC!Passing
        PROVE  outcomes[last] = "answer"
    <2>1. n \in settled
      BY <1>3, <1>4, <1>9
    <2>2. last \in settled /\ last <= n
      BY <1>2, <2>1
    <2>3. ~(last < n)
      BY <1>4, <1>6, <1>9, <2>2
    <2> QED BY <1>6, <1>9, <2>2, <2>3
  <1> QED BY <1>5, <1>7, <1>8, <1>9 DEF LC!RequestsEndWithTheirOutcome, call

-----------------------------------------------------------------------------
(* Retrieval: the filters of a tenant.                                      *)

\* A tenant finds its own chunks whichever backend answers (app/retriever/qdrant.py, faiss.py,
\* app/services/vectorstore.py): for a chunk with any values and any filters, what passes in
\* Qdrant passes in FAISS and in the fallback list, and only chunks of the tenant pass there.
THEOREM TenantsAreKeptApart ==
  ASSUME NEW filters, NEW chunk,
         filters.tenant = "acme", filters.mode \in {"current", "historical"},
         chunk.active \in {"unset", "yes", "no"},
         chunk = [tenant |-> chunk.tenant, owner |-> chunk.owner, tags |-> chunk.tags,
                  attrs |-> chunk.attrs, active |-> chunk.active]
  PROVE  RV!FiltersKeepTenant(filters, chunk)
  <1> DEFINE payload == RV!Stored(chunk)
  <1>1. /\ payload.tenant = IF chunk.tenant # "" THEN chunk.tenant ELSE chunk.owner
        /\ payload.active = chunk.active
    BY DEF RV!Stored
  <1>2. RV!Fold("acme") = "acme"
    BY DEF RV!Fold
  <1> HIDE DEF payload
  <1>3. RV!QdrantPasses(filters, payload) => RV!FoldedPasses(filters, payload)
    BY <1>1 DEF RV!QdrantPasses, RV!FoldedPasses, RV!Folded
  <1>4. RV!FoldedPasses(filters, payload)
          => "acme" \in {RV!Fold(chunk.tenant), RV!Fold(chunk.owner)}
    BY <1>1, <1>2 DEF RV!FoldedPasses
  <1>5. RV!FoldedPasses(filters, payload) /\ chunk.active # "unset"
          => (chunk.active = "yes") = (filters.mode = "current")
    BY <1>1 DEF RV!FoldedPasses
  <1> QED BY <1>3, <1>4, <1>5 DEF RV!FiltersKeepTenant, payload

-----------------------------------------------------------------------------
(* SettingsEnv: what a start with any environment leaves.                   *)

\* What a variable of the environment can hold: a number or a word.
RawValues == {ES!Num(n) : n \in Int} \cup {ES!Word(w) : w \in STRING}

\* What the two results of a rule are.
LEMMA Results ==
  /\ \A n : ES!Good(n).ok /\ ES!Good(n).n = n
  /\ ~ES!Refused.ok /\ ES!None = 0
  BY DEF ES!Good, ES!Refused, ES!None

\* A raw value has a number, be it that of a word.
LEMMA RawsAre ==
  ASSUME NEW raw \in RawValues
  PROVE  raw.n \in Int
  <1>1. \A n : ES!Num(n).n = n
    BY DEF ES!Num
  <1>2. \A w : ES!Word(w).n = 0
    BY DEF ES!Word
  <1> HIDE DEF ES!Num, ES!Word
  <1> QED BY <1>1, <1>2 DEF RawValues

\* Of the raw values only a word is not the empty word.
LEMMA WordsAre ==
  ASSUME NEW raw \in RawValues
  PROVE  /\ raw.word = "change-me" => raw = ES!Word("change-me")
         /\ raw.word = "kb-ai-salt" => raw = ES!Word("kb-ai-salt")
  <1>1. \A n : ES!Num(n).word = ""
    BY Zenon DEF ES!Num
  <1>2. \A w : ES!Word(w).word = w
    BY DEF ES!Word
  <1>3. "" # "change-me" /\ "" # "kb-ai-salt"
    BY Zenon
  <1> HIDE DEF ES!Num, ES!Word
  <1>4. \/ \E n \in Int : raw = ES!Num(n)
        \/ \E w \in STRING : raw = ES!Word(w)
    BY DEF RawValues
  <1> QED BY <1>1, <1>2, <1>3, <1>4, Zenon

\* A setting read from any raw value is refused, or what its rule allows.
LEMMA RulesHold ==
  ASSUME NEW raw \in RawValues
  PROVE  /\ ES!QueueSize(raw).ok => ES!QueueSize(raw).n >= 0
         /\ ES!Positive(raw).ok => ES!Positive(raw).n > 0
         /\ ES!AtLeastDpi(raw).ok => ES!AtLeastDpi(raw).n >= 72
         /\ ES!OptionalPositive(raw).ok => ES!OptionalPositive(raw).n >= 0
         /\ ES!OrSixty(raw).ok => ES!OrSixty(raw).n > 0
         /\ ES!NotNegative(raw).ok => ES!NotNegative(raw).n >= 0
         /\ ES!PlainInt(raw).ok => ES!PlainInt(raw).n \in Int
         /\ ES!OptionalInt(raw).ok => ES!OptionalInt(raw).n \in Int
  <1>0. raw.n \in Int
    BY RawsAre
  <1> HIDE DEF ES!Good, ES!Refused, ES!None
  <1>1. ES!QueueSize(raw).ok => ES!QueueSize(raw).n >= 0
    BY <1>0, Results DEF ES!QueueSize
  <1>2. ES!Positive(raw).ok => ES!Positive(raw).n > 0
    BY <1>0, Results DEF ES!Positive
  <1>3. ES!AtLeastDpi(raw).ok => ES!AtLeastDpi(raw).n >= 72
    BY <1>0, Results DEF ES!AtLeastDpi
  <1>4. ES!OptionalPositive(raw).ok => ES!OptionalPositive(raw).n >= 0
    <2>1. \/ ES!OptionalPositive(raw) = ES!Good(ES!None)
          \/ ES!OptionalPositive(raw) = ES!Refused
          \/ raw.n > 0 /\ ES!OptionalPositive(raw) = ES!Good(raw.n)
      BY Zenon DEF ES!OptionalPositive
    <2> QED BY <1>0, <2>1, Results
  <1>5. ES!OrSixty(raw).ok => ES!OrSixty(raw).n > 0
    <2>1. \/ ES!OrSixty(raw) = ES!Good(60)
          \/ ES!OrSixty(raw) = ES!Refused
          \/ raw.n > 0 /\ ES!OrSixty(raw) = ES!Good(raw.n)
      BY Zenon DEF ES!OrSixty
    <2> QED BY <1>0, <2>1, Results
  <1>6. ES!NotNegative(raw).ok => ES!NotNegative(raw).n >= 0
    <2>1. \/ ES!NotNegative(raw) = ES!Good(0)
          \/ ES!NotNegative(raw) = ES!Refused
          \/ ~(raw.n < 0) /\ ES!NotNegative(raw) = ES!Good(raw.n)
      BY Zenon DEF ES!NotNegative
    <2> QED BY <1>0, <2>1, Results
  <1>7. ES!PlainInt(raw).ok => ES!PlainInt(raw).n \in Int
    BY <1>0, Results DEF ES!PlainInt
  <1>8. ES!OptionalInt(raw).ok => ES!OptionalInt(raw).n \in Int
    <2>1. \/ ES!OptionalInt(raw) = ES!Good(ES!None)
          \/ ES!OptionalInt(raw) = ES!Refused
          \/ ES!OptionalInt(raw) = ES!Good(raw.n)
      BY Zenon DEF ES!OptionalInt
    <2> QED BY <1>0, <2>1, Results
  <1> QED BY <1>1, <1>2, <1>3, <1>4, <1>5, <1>6, <1>7, <1>8

\* The field f has its default, or what its rule makes of a raw value.
IsRead(env, f, default, rule) ==
  \/ ES!FieldValue(env, f) = ES!Good(default)
  \/ \E raw \in RawValues : ES!FieldValue(env, f) = ES!Rule(rule, raw)

Listed(names) == \E len \in Nat : DOMAIN names = 1 .. len

\* The first of the names of a field that is set gives its value.
LEMMA ValueOf ==
  ASSUME NEW env \in [ES!Names -> RawValues], NEW f \in DOMAIN ES!Fields,
         NEW names, NEW default, NEW rule, Listed(names),
         ES!Fields[f] = ES!Field(names, default, rule)
  PROVE  IsRead(env, f, default, rule)
  <1> DEFINE set == ES!SetAt(env, ES!Fields[f])
             first == CHOOSE i \in set : \A j \in set : i <= j
  <1>1. /\ ES!Fields[f].names = names /\ ES!Fields[f].default = default
        /\ ES!Fields[f].rule = rule
    BY DEF ES!Field
  <1>2. PICK len \in Nat : DOMAIN names = 1 .. len
    BY DEF Listed
  <1>3. \A i \in DOMAIN names : names[i] \in ES!Names
    <2>1. {ES!Fields[f].names[i] : i \in DOMAIN ES!Fields[f].names} \subseteq ES!Names
      BY DEF ES!Names
    <2> HIDE DEF ES!Fields
    <2> QED BY <1>1, <2>1
  <1>4. set \in SUBSET (1 .. len)
    BY <1>1, <1>2 DEF ES!SetAt
  <1>5. set # {} => first \in set
    BY <1>4, FirstPosition
  <1>6. set # {} => ES!Read(env, ES!Fields[f]) = env[names[first]]
    BY <1>1 DEF ES!Read
  <1> HIDE DEF set, first
  <1>7. set # {} => env[names[first]] \in RawValues
    <2>1. set # {} => names[first] \in ES!Names
      BY <1>2, <1>3, <1>4, <1>5
    <2> QED BY <2>1
  <1> USE DEF set
  <1> QED BY <1>1, <1>6, <1>7 DEF ES!FieldValue, IsRead

\* The fields with their names, defaults and rules.
LEMMA FieldsAre ==
  /\ ES!Fields["ingest_queue_size"] =
       ES!Field(<<"INGEST_QUEUE_SIZE", "INGEST_MAX_QUEUE">>, 64, "queue")
  /\ ES!Fields["ingest_worker_interval_seconds"] =
       ES!Field(<<"INGEST_WORKER_INTERVAL_SECONDS", "INGEST_POLL_INTERVAL">>, 1, "positive")
  /\ ES!Fields["ingest_processing_timeout_seconds"] =
       ES!Field(<<"INGEST_PROCESSING_TIMEOUT_SECONDS", "INGEST_STUCK_PROCESSING_TIMEOUT_SECONDS">>,
                900, "positive")
  /\ ES!Fields["ingest_job_retention_days"] =
       ES!Field(<<"INGEST_JOB_RETENTION_DAYS", "INGEST_RETENTION_DAYS">>, 7, "positive")
  /\ ES!Fields["ocr_dpi"] =
       ES!Field(<<"OCR_DPI">>, 300, "dpi")
  /\ ES!Fields["ocr_page_limit"] =
       ES!Field(<<"OCR_PAGE_LIMIT">>, ES!None, "optional")
  /\ ES!Fields["docling_timeout"] =
       ES!Field(<<"DOCLING_TIMEOUT">>, 60, "sixty")
  /\ ES!Fields["audit_log_retention_days"] =
       ES!Field(<<"AUDIT_LOG_RETENTION_DAYS">>, 0, "natural")
  /\ ES!Fields["retrieve_topk"] =
       ES!Field(<<"RETRIEVE_TOPK">>, 10, "int")
  /\ ES!Fields["rerank_topk"] =
       ES!Field(<<"RERANK_TOPK", "RERANK_TOP_K">>, 50, "optional_int")
  /\ ES!Fields["chat_min_citations"] =
       ES!Field(<<"CHAT_MIN_CITATIONS">>, 3, "int")
  /\ ES!Fields["chat_max_citations"] =
       ES!Field(<<"CHAT_MAX_CITATIONS">>, 5, "int")
  /\ ES!Fields["lora_train_fp16"] =
       ES!Field(<<"LORA_TRAIN_FP16", "LORA_FP16">>, 1, "flag")
  /\ ES!Fields["lora_train_bf16"] =
       ES!Field(<<"LORA_TRAIN_BF16", "LORA_BF16">>, 0, "flag")
  BY DEF ES!Fields

\* All the fields there are.
LEMMA FieldNames ==
  {"ingest_queue_size",
   "ingest_worker_interval_seconds",
   "ingest_processing_timeout_seconds",
   "ingest_job_retention_days",
   "ocr_dpi",
   "ocr_page_limit",
   "docling_timeout",
   "audit_log_retention_days",
   "retrieve_topk",
   "rerank_topk",
   "chat_min_citations",
   "chat_max_citations",
   "lora_train_fp16",
   "lora_train_bf16",
   "auth_disabled"} = DOMAIN ES!Fields
  BY DEF ES!Fields

\* A field of two names has two that differ.
LEMMA TwoNames ==
  ASSUME NEW f \in DOMAIN ES!Fields \ {"auth_disabled"}, Len(ES!Fields[f].names) = 2
  PROVE  DOMAIN ES!Fields[f].names = 1 .. 2 /\ ES!Fields[f].names[1] # ES!Fields[f].names[2]
  BY FieldNames, FieldsAre DEF ES!Field

\* The names that switch authentication off.
LEMMA AuthNames ==
  LET names == ES!Fields.auth_disabled.names
  IN  /\ \A i \in DOMAIN names :
            names[i] \in {"AUTH_DISABLED", "DISABLE_AUTH", "AUTH_DISABLE", "KB_DISABLE_AUTH",
                         "AUTH_DISABLED_FOR_TESTS"}
      /\ \A n \in {"AUTH_DISABLED", "DISABLE_AUTH", "AUTH_DISABLE", "KB_DISABLE_AUTH",
                   "AUTH_DISABLED_FOR_TESTS"} : \E i \in DOMAIN names : names[i] = n
  <1> DEFINE names == <<"AUTH_DISABLED", "DISABLE_AUTH", "AUTH_DISABLE", "KB_DISABLE_AUTH",
                        "AUTH_DISABLED_FOR_TESTS">>
  <1>1. ES!Fields.auth_disabled.names = names
    BY DEF ES!Fields, ES!Field
  <1>2. /\ DOMAIN names = 1 .. 5 /\ 1 \in 1 .. 5 /\ 2 \in 1 .. 5 /\ 3 \in 1 .. 5
        /\ 4 \in 1 .. 5 /\ 5 \in 1 .. 5
    OBVIOUS
  <1>3. /\ names[1] = "AUTH_DISABLED" /\ names[2] = "DISABLE_AUTH"
        /\ names[3] = "AUTH_DISABLE" /\ names[4] = "KB_DISABLE_AUTH"
        /\ names[5] = "AUTH_DISABLED_FOR_TESTS"
    OBVIOUS
  <1>4. \A i \in 1 .. 5 : i = 1 \/ i = 2 \/ i = 3 \/ i = 4 \/ i = 5
    OBVIOUS
  <1> HIDE DEF names
  <1> QED BY <1>1, <1>2, <1>3, <1>4

\* The rules by their names.
LEMMA RulesAre ==
  ASSUME NEW raw
  PROVE  /\ ES!Rule("queue", raw) = ES!QueueSize(raw)
         /\ ES!Rule("positive", raw) = ES!Positive(raw)
         /\ ES!Rule("dpi", raw) = ES!AtLeastDpi(raw)
         /\ ES!Rule("optional", raw) = ES!OptionalPositive(raw)
         /\ ES!Rule("sixty", raw) = ES!OrSixty(raw)
         /\ ES!Rule("natural", raw) = ES!NotNegative(raw)
         /\ ES!Rule("int", raw) = ES!PlainInt(raw)
         /\ ES!Rule("optional_int", raw) = ES!OptionalInt(raw)
  BY DEF ES!Rule

\* A field with a value that is not refused.
LEMMA SettingsAre ==
  ASSUME NEW env \in [ES!Names -> RawValues], ES!Accepted(env)
  PROVE  /\ ES!Setting(env, "ingest_queue_size") >= 0
         /\ ES!Setting(env, "ingest_worker_interval_seconds") > 0
         /\ ES!Setting(env, "ingest_processing_timeout_seconds") > 0
         /\ ES!Setting(env, "ingest_job_retention_days") > 0
         /\ ES!Setting(env, "ocr_dpi") >= 72
         /\ ES!Setting(env, "ocr_page_limit") >= 0
         /\ ES!Setting(env, "docling_timeout") > 0
         /\ ES!Setting(env, "audit_log_retention_days") >= 0
         /\ ES!Setting(env, "retrieve_topk") \in Int
         /\ ES!Setting(env, "rerank_topk") \in Int
         /\ ES!Setting(env, "chat_min_citations") \in Int
         /\ ES!Setting(env, "chat_max_citations") \in Int
  <1>0. \A f \in DOMAIN ES!Fields : ES!FieldValue(env, f).ok
    BY DEF ES!Accepted
  <1>1. ES!Setting(env, "ingest_queue_size") >= 0
    <2> DEFINE names == <<"INGEST_QUEUE_SIZE", "INGEST_MAX_QUEUE">>
    <2>1. Listed(names)
      <3>1. 2 \in Nat /\ DOMAIN names = 1 .. 2
        OBVIOUS
      <3> QED BY <3>1 DEF Listed
    <2>2. "ingest_queue_size" \in DOMAIN ES!Fields
      BY FieldNames
    <2>3. ES!Fields["ingest_queue_size"] = ES!Field(names, 64, "queue")
      BY FieldsAre
    <2> HIDE DEF names
    <2>4. IsRead(env, "ingest_queue_size", 64, "queue")
      BY <2>1, <2>2, <2>3, ValueOf
    <2> QED BY <1>0, <2>2, <2>4, Results, RulesAre, RulesHold DEF ES!Setting, IsRead
  <1>2. ES!Setting(env, "ingest_worker_interval_seconds") > 0
    <2> DEFINE names == <<"INGEST_WORKER_INTERVAL_SECONDS", "INGEST_POLL_INTERVAL">>
    <2>1. Listed(names)
      <3>1. 2 \in Nat /\ DOMAIN names = 1 .. 2
        OBVIOUS
      <3> QED BY <3>1 DEF Listed
    <2>2. "ingest_worker_interval_seconds" \in DOMAIN ES!Fields
      BY FieldNames
    <2>3. ES!Fields["ingest_worker_interval_seconds"] = ES!Field(names, 1, "positive")
      BY FieldsAre
    <2> HIDE DEF names
    <2>4. IsRead(env, "ingest_worker_interval_seconds", 1, "positive")
      BY <2>1, <2>2, <2>3, ValueOf
    <2> QED BY <1>0, <2>2, <2>4, Results, RulesAre, RulesHold DEF ES!Setting, IsRead
  <1>3. ES!Setting(env, "ingest_processing_timeout_seconds") > 0
    <2> DEFINE names == <<"INGEST_PROCESSING_TIMEOUT_SECONDS",
                          "INGEST_STUCK_PROCESSING_TIMEOUT_SECONDS">>
    <2>1. Listed(names)
      <3>1. 2 \in Nat /\ DOMAIN names = 1 .. 2
        OBVIOUS
      <3> QED BY <3>1 DEF Listed
    <2>2. "ingest_processing_timeout_seconds" \in DOMAIN ES!Fields
      BY FieldNames
    <2>3. ES!Fields["ingest_processing_timeout_seconds"] = ES!Field(names, 900, "positive")
      BY FieldsAre
    <2> HIDE DEF names
    <2>4. IsRead(env, "ingest_processing_timeout_seconds", 900, "positive")
      BY <2>1, <2>2, <2>3, ValueOf
    <2> QED BY <1>0, <2>2, <2>4, Results, RulesAre, RulesHold DEF ES!Setting, IsRead
  <1>4. ES!Setting(env, "ingest_job_retention_days") > 0
    <2> DEFINE names == <<"INGEST_JOB_RETENTION_DAYS", "INGEST_RETENTION_DAYS">>
    <2>1. Listed(names)
      <3>1. 2 \in Nat /\ DOMAIN names = 1 .. 2
        OBVIOUS
      <3> QED BY <3>1 DEF Listed
    <2>2. "ingest_job_retention_days" \in DOMAIN ES!Fields
      BY FieldNames
    <2>3. ES!Fields["ingest_job_retention_days"] = ES!Field(names, 7, "positive")
      BY FieldsAre
    <2> HIDE DEF names
    <2>4. IsRead(env, "ingest_job_retention_days", 7, "positive")
      BY <2>1, <2>2, <2>3, ValueOf
    <2> QED BY <1>0, <2>2, <2>4, Results, RulesAre, RulesHold DEF ES!Setting, IsRead
  <1>5. ES!Setting(env, "ocr_dpi") >= 72
    <2> DEFINE names == <<"OCR_DPI">>
    <2>1. Listed(names)
      <3>1. 1 \in Nat /\ DOMAIN names = 1 .. 1
        OBVIOUS
      <3> QED BY <3>1 DEF Listed
    <2>2. "ocr_dpi" \in DOMAIN ES!Fields
      BY FieldNames
    <2>3. ES!Fields["ocr_dpi"] = ES!Field(names, 300, "dpi")
      BY FieldsAre
    <2> HIDE DEF names
    <2>4. IsRead(env, "ocr_dpi", 300, "dpi")
      BY <2>1, <2>2, <2>3, ValueOf
    <2> QED BY <1>0, <2>2, <2>4, Results, RulesAre, RulesHold DEF ES!Setting, IsRead
  <1>6. ES!Setting(env, "ocr_page_limit") >= 0
    <2> DEFINE names == <<"OCR_PAGE_LIMIT">>
    <2>1. Listed(names)
      <3>1. 1 \in Nat /\ DOMAIN names = 1 .. 1
        OBVIOUS
      <3> QED BY <3>1 DEF Listed
    <2>2. "ocr_page_limit" \in DOMAIN ES!Fields
      BY FieldNames
    <2>3. ES!Fields["ocr_page_limit"] = ES!Field(names, ES!None, "optional")
      BY FieldsAre
    <2> HIDE DEF names
    <2>4. IsRead(env, "ocr_page_limit", ES!None, "optional")
      BY <2>1, <2>2, <2>3, ValueOf
    <2> QED BY <1>0, <2>2, <2>4, Results, RulesAre, RulesHold DEF ES!Setting, IsRead
  <1>7. ES!Setting(env, "docling_timeout") > 0
    <2> DEFINE names == <<"DOCLING_TIMEOUT">>
    <2>1. Listed(names)
      <3>1. 1 \in Nat /\ DOMAIN names = 1 .. 1
        OBVIOUS
      <3> QED BY <3>1 DEF Listed
    <2>2. "docling_timeout" \in DOMAIN ES!Fields
      BY FieldNames
    <2>3. ES!Fields["docling_timeout"] = ES!Field(names, 60, "sixty")
      BY FieldsAre
    <2> HIDE DEF names
    <2>4. IsRead(env, "docling_timeout", 60, "sixty")
      BY <2>1, <2>2, <2>3, ValueOf
    <2> QED BY <1>0, <2>2, <2>4, Results, RulesAre, RulesHold DEF ES!Setting, IsRead
  <1>8. ES!Setting(env, "audit_log_retention_days") >= 0
    <2> DEFINE names == <<"AUDIT_LOG_RETENTION_DAYS">>
    <2>1. Listed(names)
      <3>1. 1 \in Nat /\ DOMAIN names = 1 .. 1
        OBVIOUS
      <3> QED BY <3>1 DEF Listed
    <2>2. "audit_log_retention_days" \in DOMAIN ES!Fields
      BY FieldNames
    <2>3. ES!Fields["audit_log_retention_days"] = ES!Field(names, 0, "natural")
      BY FieldsAre
    <2> HIDE DEF names
    <2>4. IsRead(env, "audit_log_retention_days", 0, "natural")
      BY <2>1, <2>2, <2>3, ValueOf
    <2> QED BY <1>0, <2>2, <2>4, Results, RulesAre, RulesHold DEF ES!Setting, IsRead
  <1>9. ES!Setting(env, "retrieve_topk") \in Int
    <2> DEFINE names == <<"RETRIEVE_TOPK">>
    <2>1. Listed(names)
      <3>1. 1 \in Nat /\ DOMAIN names = 1 .. 1
        OBVIOUS
      <3> QED BY <3>1 DEF Listed
    <2>2. "retrieve_topk" \in DOMAIN ES!Fields
      BY FieldNames
    <2>3. ES!Fields["retrieve_topk"] = ES!Field(names, 10, "int")
      BY FieldsAre
    <2> HIDE DEF names
    <2>4. IsRead(env, "retrieve_topk", 10, "int")
      BY <2>1, <2>2, <2>3, ValueOf
    <2> QED BY <1>0, <2>2, <2>4, Results, RulesAre, RulesHold DEF ES!Setting, IsRead
  <1>10. ES!Setting(env, "rerank_topk") \in Int
    <2> DEFINE names == <<"RERANK_TOPK", "RERANK_TOP_K">>
    <2>1. Listed(names)
      <3>1. 2 \in Nat /\ DOMAIN names = 1 .. 2
        OBVIOUS
      <3> QED BY <3>1 DEF Listed
    <2>2. "rerank_topk" \in DOMAIN ES!Fields
      BY FieldNames
    <2>3. ES!Fields["rerank_topk"] = ES!Field(names, 50, "optional_int")
      BY FieldsAre
    <2> HIDE DEF names
    <2>4. IsRead(env, "rerank_topk", 50, "optional_int")
      BY <2>1, <2>2, <2>3, ValueOf
    <2> QED BY <1>0, <2>2, <2>4, Results, RulesAre, RulesHold DEF ES!Setting, IsRead
  <1>11. ES!Setting(env, "chat_min_citations") \in Int
    <2> DEFINE names == <<"CHAT_MIN_CITATIONS">>
    <2>1. Listed(names)
      <3>1. 1 \in Nat /\ DOMAIN names = 1 .. 1
        OBVIOUS
      <3> QED BY <3>1 DEF Listed
    <2>2. "chat_min_citations" \in DOMAIN ES!Fields
      BY FieldNames
    <2>3. ES!Fields["chat_min_citations"] = ES!Field(names, 3, "int")
      BY FieldsAre
    <2> HIDE DEF names
    <2>4. IsRead(env, "chat_min_citations", 3, "int")
      BY <2>1, <2>2, <2>3, ValueOf
    <2> QED BY <1>0, <2>2, <2>4, Results, RulesAre, RulesHold DEF ES!Setting, IsRead
  <1>12. ES!Setting(env, "chat_max_citations") \in Int
    <2> DEFINE names == <<"CHAT_MAX_CITATIONS">>
    <2>1. Listed(names)
      <3>1. 1 \in Nat /\ DOMAIN names = 1 .. 1
        OBVIOUS
      <3> QED BY <3>1 DEF Listed
    <2>2. "chat_max_citations" \in DOMAIN ES!Fields
      BY FieldNames
    <2>3. ES!Fields["chat_max_citations"] = ES!Field(names, 5, "int")
      BY FieldsAre
    <2> HIDE DEF names
    <2>4. IsRead(env, "chat_max_citations", 5, "int")
      BY <2>1, <2>2, <2>3, ValueOf
    <2> QED BY <1>0, <2>2, <2>4, Results, RulesAre, RulesHold DEF ES!Setting, IsRead
  <1> QED BY <1>1, <1>2, <1>3, <1>4, <1>5, <1>6, <1>7, <1>8, <1>9, <1>10, <1>11, <1>12

\* Settings the application starts with are usable (app/core/config.py): whatever numbers and
\* words the environment holds in all its names together, a Settings() that is not refused has
\* waits, bounds and citation limits the loops can work with, and no shipped secret in
\* production.
THEOREM AcceptedSettingsAreUsable ==
  ASSUME NEW env \in [ES!Names -> RawValues]
  PROVE  ES!StartsUsable(env)
  <1> SUFFICES ASSUME ES!Accepted(env) PROVE ES!StartsUsable(env)
    BY DEF ES!StartsUsable
  <1> DEFINE low == ES!Setting(env, "chat_min_citations")
             high == ES!Setting(env, "chat_max_citations")
             topk == ES!Setting(env, "retrieve_topk")
             rerank == ES!Setting(env, "rerank_topk")
             Secret(name) == env[name] # ES!Unset /\ env[name].word # "change-me"
             Salted(name) == env[name] # ES!Unset /\ env[name].word # "kb-ai-salt"
  <1>1. low \in Int /\ high \in Int /\ topk \in Int /\ rerank \in Int
    BY SettingsAre
  <1>2. ES!CitationsBounds(low, high)
          = <<ES!Larger(1, low), ES!Larger(ES!Larger(1, low), high)>>
    BY DEF ES!CitationsBounds
  <1>3. 1 <= ES!Larger(1, low) /\ ES!Larger(1, low) <= ES!Larger(ES!Larger(1, low), high)
    BY <1>1 DEF ES!Larger
  <1>4. ES!RerankLimit(topk, rerank) <= topk
    BY <1>1 DEF ES!RerankLimit, ES!Larger, ES!None
  <1>5. ASSUME env["APP_ENV"] = ES!Word("production")
        PROVE  Secret("SECRET_KEY") /\ Salted("API_KEY_HASH_SALT")
    <2>1. /\ env["SECRET_KEY"] \notin {ES!Unset, ES!Word("change-me")}
          /\ env["API_KEY_HASH_SALT"] \notin {ES!Unset, ES!Word("kb-ai-salt")}
      BY <1>5 DEF ES!Accepted, ES!SecretsOk, ES!Production
    <2>2. env["SECRET_KEY"] \in RawValues /\ env["API_KEY_HASH_SALT"] \in RawValues
      BY DEF ES!Names
    <2>3. \A raw \in RawValues : raw.word = "change-me" => raw = ES!Word("change-me")
      BY WordsAre
    <2>4. \A raw \in RawValues : raw.word = "kb-ai-salt" => raw = ES!Word("kb-ai-salt")
      BY WordsAre
    <2> QED BY <2>1, <2>2, <2>3, <2>4
  <1>6. ES!AuthDisabled(env) <=>
          \E n \in {"AUTH_DISABLED", "DISABLE_AUTH", "AUTH_DISABLE", "KB_DISABLE_AUTH",
                    "AUTH_DISABLED_FOR_TESTS"} : ES!Truthy(env[n])
    BY AuthNames DEF ES!AuthDisabled
  <1> HIDE DEF low, high, topk, rerank
  <1>7. LET bounds == ES!CitationsBounds(low, high)
        IN  1 <= bounds[1] /\ bounds[1] <= bounds[2]
    BY <1>2, <1>3
  <1> QED BY <1>4, <1>5, <1>6, <1>7, SettingsAre DEF ES!StartsUsable, low, high, topk, rerank

\* A name a field is called by outranks its alias in every environment
\* (app/core/config.py _environment_overrides).
THEOREM AliasesMaskNothing ==
  ASSUME NEW env \in [ES!Names -> RawValues]
  PROVE  ES!AliasNeverMasks(env)
  <1> SUFFICES ASSUME NEW f \in DOMAIN ES!Fields \ {"auth_disabled"},
                      Len(ES!Fields[f].names) = 2, env[ES!Fields[f].names[1]] # ES!Unset
               PROVE  ES!FieldValue(env, f)
                        = ES!FieldValue([env EXCEPT ![ES!Fields[f].names[2]] = ES!Unset], f)
    BY DEF ES!AliasNeverMasks
  <1> DEFINE names == ES!Fields[f].names
             alone == [env EXCEPT ![names[2]] = ES!Unset]
             FirstOf(e) == CHOOSE i \in ES!SetAt(e, ES!Fields[f]) :
                             \A j \in ES!SetAt(e, ES!Fields[f]) : i <= j
  <1>1. DOMAIN names = 1 .. 2 /\ names[1] # names[2]
    BY TwoNames
  <1>2. names[1] \in ES!Names
    <2>1. {ES!Fields[f].names[i] : i \in DOMAIN ES!Fields[f].names} \subseteq ES!Names
      BY DEF ES!Names
    <2> QED BY <1>1, <2>1
  <1>3. alone[names[1]] = env[names[1]]
    BY <1>1, <1>2
  <1> HIDE DEF alone, names
  <1>4. ASSUME NEW e, e[names[1]] = env[names[1]]
        PROVE  ES!FieldValue(e, f) = ES!Rule(ES!Fields[f].rule, env[names[1]])
    <2> DEFINE set == ES!SetAt(e, ES!Fields[f])
    <2>1. set \in SUBSET (1 .. 2) /\ 1 \in set
      BY <1>1, <1>4 DEF ES!SetAt, names
    <2>2. ES!Read(e, ES!Fields[f]) = e[names[CHOOSE i \in set : \A j \in set : i <= j]]
      BY <2>1 DEF ES!Read, names
    <2> HIDE DEF set
    <2>3. (CHOOSE i \in set : \A j \in set : i <= j) = 1
      BY <2>1
    <2> QED BY <1>4, <2>1, <2>2, <2>3 DEF ES!FieldValue, set
  <1> QED BY <1>3, <1>4 DEF alone, names
=============================================================================
