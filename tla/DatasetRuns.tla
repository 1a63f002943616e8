------------------------------ MODULE DatasetRuns ------------------------------
(***************************************************************************)
(* The scripts that grow a training set over many interrupted runs:        *)
(* scripts/generate_synthetic_qa.py (single chunks and multi-hop batches), *)
(* scripts/build_rerank_dataset.py, and scripts/generate_rag_dataset.py    *)
(* and generate_dpo_pairs.py, which share their resume.  Each run reads    *)
(* the rows on disk, skips the source chunks it finds there and appends.   *)
(* A run may be killed at any moment.                                      *)
(***************************************************************************)
EXTENDS Integers, Sequences, Functions, Selections

CONSTANTS
    Corpus,     \* the chunk ids of the corpus, in order
    Seeds,      \* the source chunk of each seed question, in the order of the seed file
    HopSize,    \* chunks of a multi-hop batch (--multi-hop-chunks)
    MaxRows,    \* bound: rows one teacher answer can give
    MaxRuns     \* bound: runs of the script

VARIABLES
    script,     \* the script, constant through a behaviour
    dataFile,   \* rows of the output file
    dataRun,    \* the run under way: units still to do and rows not yet on disk
    dataRuns    \* runs started, and answers given so far

dataVars == <<script, dataFile, dataRun, dataRuns>>

Scripts == {"qa", "hops", "rerank", "rag"}
NoRun == [on |-> FALSE, todo |-> <<>>, rows |-> <<>>]

(* A unit of work is the sequence of positions in the input it is made     *)
(* from; the rows of its answer are recorded under its first chunk.        *)
Items == IF script = "rag" THEN Seeds ELSE Corpus
Source(unit) == Items[unit[1]]

(* _select_chunk_batches: a trailing batch of one chunk is left out.       *)
Units(positions) ==
    IF script # "hops" THEN [k \in DOMAIN positions |-> <<positions[k]>>]
    ELSE LET batches == [k \in DOMAIN positions |->
                           SubSeq(positions, (k - 1) * HopSize + 1,
                                  IF k * HopSize > Len(positions) THEN Len(positions)
                                  ELSE k * HopSize)]
         IN  Selected(batches, {k \in DOMAIN batches : Len(batches[k]) >= 2})

(* load_processed_chunk_ids, completed_source_keys, _resume_seed_ids: the  *)
(* sources of the lines that parse.                                        *)
\* Mutant: only the last line is looked at.
DoneByLastLine(file) ==
    IF file = <<>> \/ ~file[Len(file)].whole THEN {} ELSE {file[Len(file)].source}

Done(file) == {row.source : row \in {r \in Range(file) : r.whole}}

(* One line appended: it joins a last line that has no line end, and the   *)
(* two no longer parse.                                                    *)
AppendLine(file, row) ==
    IF file # <<>> /\ ~file[Len(file)].ended
    THEN [file EXCEPT ![Len(file)].whole = FALSE, ![Len(file)].ended = row.ended]
    ELSE Append(file, row)

(* Lines appended together: all but the last of them have their line end.   *)
AppendLines(file, rows) ==
    IF rows = <<>> THEN file ELSE AppendLine(file, Head(rows)) \o Tail(rows)

DataInit ==
    /\ script \in Scripts
    /\ dataFile = <<>>
    /\ dataRun = NoRun
    /\ dataRuns = [started |-> 0, answers |-> 0]

(* main up to its loop: without --resume the file is truncated; when       *)
(* nothing remains the run ends before it opens the file.                  *)
Start(resume) ==
    LET done == IF resume THEN Done(dataFile) ELSE {}
        remaining == Selected([p \in DOMAIN Items |-> p],
                              {p \in DOMAIN Items : Items[p] \notin done})
    IN  /\ ~dataRun.on
        /\ dataRuns.started < MaxRuns
        /\ dataRuns' = [dataRuns EXCEPT !.started = @ + 1]
        /\ dataFile' = IF resume THEN dataFile ELSE <<>>
        /\ dataRun' = IF remaining = <<>> THEN NoRun
                      ELSE [on |-> TRUE, todo |-> Units(remaining), rows |-> <<>>]
        /\ UNCHANGED script

(* The teacher's answer for the next unit, parsed and filtered to n rows;  *)
(* a seed gives at most one sample.                                        *)
Answer(n) ==
    LET unit == Head(dataRun.todo)
        row == [unit |-> unit[1], source |-> Source(unit), answer |-> dataRuns.answers + 1,
                whole |-> TRUE, ended |-> TRUE]
    IN  /\ dataRun.on /\ dataRun.rows = <<>> /\ dataRun.todo # <<>>
        /\ script = "rag" => n <= 1
        /\ dataRun' = [dataRun EXCEPT !.todo = Tail(@), !.rows = [k \in 1 .. n |-> row]]
        /\ dataRuns' = [dataRuns EXCEPT !.answers = @ + 1]
        /\ UNCHANGED <<script, dataFile>>

(* The teacher fails: the question generator goes on with the next batch,  *)
(* the other scripts end.                                                  *)
AnswerFails ==
    /\ dataRun.on /\ dataRun.rows = <<>> /\ dataRun.todo # <<>>
    /\ dataRun' = IF script \in {"qa", "hops"} THEN [dataRun EXCEPT !.todo = Tail(@)] ELSE NoRun
    /\ UNCHANGED <<script, dataFile, dataRuns>>

(* Rows reach the file one by one, except those of the rerank script,      *)
(* which writes all the rows of a chunk and flushes them together.         *)
WriteRows ==
    LET count == IF script = "rerank" THEN Len(dataRun.rows) ELSE 1
    IN  /\ dataRun.on /\ dataRun.rows # <<>>
        /\ dataFile' = AppendLines(dataFile, SubSeq(dataRun.rows, 1, count))
        /\ dataRun' = [dataRun EXCEPT !.rows = SubSeq(@, count + 1, Len(@))]
        /\ UNCHANGED <<script, dataRuns>>

Finish ==
    /\ dataRun.on /\ dataRun.rows = <<>> /\ dataRun.todo = <<>>
    /\ dataRun' = NoRun
    /\ UNCHANGED <<script, dataFile, dataRuns>>

(* The process is killed: what it was writing is on disk in part: some     *)
(* whole lines and then perhaps a line cut inside, or before its line end. *)
Kill ==
    /\ dataRun.on
    /\ \E kept \in 0 .. Len(dataRun.rows), cut \in {"none", "inside", "end"} :
          LET torn == [dataRun.rows[kept + 1] EXCEPT !.whole = cut = "end", !.ended = FALSE]
              whole == AppendLines(dataFile, SubSeq(dataRun.rows, 1, kept))
          IN  /\ script # "rerank" => kept = 0
              /\ cut # "none" => kept < Len(dataRun.rows)
              /\ dataFile' = IF cut = "none" THEN whole ELSE AppendLine(whole, torn)
    /\ dataRun' = NoRun
    /\ UNCHANGED <<script, dataRuns>>

DataNext ==
    \/ \E resume \in BOOLEAN : Start(resume)
    \/ \E n \in 0 .. MaxRows : Answer(n)
    \/ AnswerFails
    \/ WriteRows
    \/ Finish
    \/ Kill

--------------------------------------------------------------------------------
(* However often the script is killed and resumed, the file never holds    *)
(* rows of two different answers for the same chunk or seed: the work on   *)
(* disk is not done, and paid for, a second time.  Resume logic of the     *)
(* dataset scripts.                                                        *)
OneAnswerPerUnit ==
    \A r, s \in Range(dataFile) :
        r.whole /\ s.whole /\ r.unit = s.unit => r.answer = s.answer
================================================================================
