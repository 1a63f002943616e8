------------------------------ MODULE TextWindows ------------------------------
(***************************************************************************)
(* How text is cut: the token windows of the ingest pipeline               *)
(* (app/ingest/chunking.py), the word-preserving windows of the MVP store  *)
(* (app/services/kb_store.py) and the token budget of the prompt           *)
(* (app/rag/context.py).  A text is abstracted to its length and to the    *)
(* positions of its spaces; a piece is the half-open interval it covers.   *)
(***************************************************************************)
EXTENDS Integers, Sequences, FiniteSetsExt, Functions

Lesser(a, b) == IF a < b THEN a ELSE b
Greater(a, b) == IF a < b THEN b ELSE a

Covered(pieces) == UNION {p[1] .. (p[2] - 1) : p \in pieces}

(* _window_and_step: whatever the settings say, the window is at least one *)
(* token and the next window starts at least one token later.              *)
WindowOf(chunk) == Greater(chunk, 1)
StepOf(chunk, overlap) ==
    WindowOf(chunk) - Greater(0, Lesser(overlap, WindowOf(chunk) - 1))

(* The tail of the text when the regular windows stop before it.           *)
\* Mutant: the tail window is anchored only when there is no window at all.
TailNever(length, window, starts) ==
    IF starts = {} THEN {<<Greater(length - window, 0), length>>} ELSE {}

TailWindow(length, window, starts) ==
    LET start == Greater(length - window, 0)
    IN  IF \A s \in starts : start > s THEN {<<start, length>>} ELSE {}

(* _collect_windows over [0, length).                                      *)
CollectWindows(length, window, step) ==
    LET starts == {s \in 0 .. (length - window) : s % step = 0}
    IN  IF length <= 0 THEN {}
        ELSE {<<s, s + window>> : s \in starts} \cup TailWindow(length, window, starts)

(* _chunk: one character per piece when the window is one; otherwise the   *)
(* windows of the tokens, unless the text fits the window in tokens but    *)
(* not in characters: then the windows of its characters.                  *)
Chunk(tokens, characters, chunk, overlap) ==
    LET window == WindowOf(chunk)
    IN  IF window = 1
        THEN {<<i, i + 1>> : i \in 0 .. (characters - 1)}
        ELSE IF tokens > window \/ characters <= window
        THEN CollectWindows(tokens, window, StepOf(chunk, overlap))
        ELSE CollectWindows(characters, window, StepOf(chunk, overlap))

(* split_text: the end of a window moves back to its last space when that  *)
(* space lies in its second half.  spaces is the set of their positions.   *)
EndOfSegment(start, length, spaces, size) ==
    LET end == Lesser(start + size, length)
        back == {p \in spaces : p >= start /\ p < end}
    IN  IF end < length /\ back # {} /\ Max(back) - start > size \div 2
        THEN Max(back)
        ELSE end

OverlapOfSplit(overlap, size) ==
    IF overlap < 0 THEN 0 ELSE IF overlap >= size THEN size \div 4 ELSE overlap

\* Mutant: the next window starts a whole window further, back or not.
NextFromWindow(start, end, overlap, size) == Greater(start + size - overlap, start + 1)

NextStart(start, end, overlap, size) == Greater(end - overlap, start + 1)

SplitText(length, spaces, size, overlap) ==
    LET from[start \in 0 .. length] ==
            LET end == EndOfSegment(start, length, spaces, size)
            IN  {<<start, end>>} \cup
                IF end >= length THEN {}
                ELSE from[NextStart(start, end, OverlapOfSplit(overlap, size), size)]
    IN  IF length = 0 THEN {}
        ELSE IF length <= size THEN {<<0, length>>}
        ELSE from[0]

(* build_context: the tokens of each non-empty hit, separated by two       *)
(* characters, until the limit; the result is how many tokens of each hit  *)
(* are taken and what is left of the limit.                                *)
Separator == 2

TakeHit(state, tokens) ==
    LET gap == IF state.first THEN 0 ELSE Lesser(Separator, state.remaining)
        left == state.remaining - gap
        take == Lesser(tokens, left)
    IN  IF tokens = 0 \/ state.full THEN [state EXCEPT !.taken = Append(@, 0)]
        ELSE IF gap > 0 /\ left <= 0
        THEN [state EXCEPT !.taken = Append(@, 0), !.remaining = left, !.full = TRUE]
        ELSE [state EXCEPT !.taken = Append(@, take), !.remaining = left - take,
                           !.full = left - take <= 0, !.first = FALSE]

BuildContext(lengths, limit) ==
    LET after[i \in 0 .. Len(lengths)] ==
            IF i = 0
            THEN [taken |-> <<>>, remaining |-> limit, full |-> FALSE, first |-> TRUE]
            ELSE TakeHit(after[i - 1], lengths[i])
    IN  after[Len(lengths)].taken

-----------------------------------------------------------------------------
(* Inputs the runs enumerate.                                              *)
CutInputs(MaxLength, MaxSize) ==
    [length : 0 .. MaxLength, extra : 0 .. 2, size : 1 .. MaxSize,
     overlap : -1 .. MaxSize, spaces : SUBSET (1 .. (MaxLength - 2))]

(* A text without spaces at its ends: what str.strip() leaves.             *)
IsText(in) == \A p \in in.spaces : p < in.length - 1

(* A search finds every part of a document: whatever the chunk size and    *)
(* the overlap of the settings, each character or token of a page is in a  *)
(* piece, no piece is larger than the window and none lies within another  *)
(* one, in the ingest pipeline and in the MVP store alike.                 *)
IngestCutsKeepText(in) ==
    LET window == WindowOf(in.size)
        pieces == Chunk(in.length, in.length + in.extra, in.size, in.overlap)
    IN  /\ \/ Covered(pieces) = 0 .. (in.length - 1)
           \/ Covered(pieces) = 0 .. (in.length + in.extra - 1)
        /\ \A p \in pieces : p[1] < p[2] /\ p[2] - p[1] <= window
        /\ \A p, q \in pieces : p # q => p[1] # q[1] /\ p[2] # q[2]

StoreCutsKeepText(in) ==
    LET pieces == SplitText(in.length, in.spaces, in.size, in.overlap)
    IN  /\ 0 .. (in.length - 1) \subseteq Covered(pieces) \cup in.spaces
        /\ \A p \in pieces : p[1] < p[2] /\ p[2] - p[1] <= in.size

(* The prompt keeps its budget and its order: hits enter whole until one   *)
(* is cut by the limit, and nothing follows that one.                      *)
ContextKeepsBudget(lengths, limit) ==
    LET taken == BuildContext(lengths, limit)
        used == {i \in DOMAIN lengths : taken[i] > 0}
    IN  /\ FoldFunction(+, 0, taken) <= limit
        /\ \A i, j \in DOMAIN lengths :
               i < j /\ taken[j] > 0 => taken[i] = lengths[i]
        /\ used = {} => \A i \in DOMAIN lengths : lengths[i] = 0 \/ limit = 0
=============================================================================
