--------------------------- MODULE TrainingPairs ---------------------------
(***************************************************************************)
(* What becomes a training pair and which dataset is fit to train on: the  *)
(* teacher's reply parsed, filtered and checked against a second reply     *)
(* (app/services/synthetic_qa.py), and the checks of                       *)
(* scripts/validate_dataset.py.                                            *)
(*                                                                         *)
(* A reply is prose or not, around segments: an "array" or an "object" of  *)
(* items, or a "note" in square brackets; an object may hold a list. An    *)
(* item is [asks, fits, refuses, words]: it has an instruction, is within  *)
(* the length bounds, reads as a refusal, and the words of its output.     *)
(***************************************************************************)
EXTENDS Naturals, Sequences, FiniteSets

(* parse_qa_response                                                       *)

\* json.loads of the reply without its fence: it is one payload and nothing else.
IsJson(reply) == ~reply.prose /\ Len(reply.segments) = 1 /\ reply.segments[1].kind # "note"

\* _extract_first_json_payload looks for "[" in the whole reply before it looks for "{": a note
\* or the list inside an object goes before the object, and neither holds an item.
Extracted(segments) ==
    LET bracketed == SelectSeq(segments, LAMBDA s : s.kind # "object" \/ s.list)
    IN  IF bracketed # <<>>
        THEN IF Head(bracketed).kind = "array" THEN Head(bracketed).items ELSE <<>>
        ELSE IF segments = <<>> THEN <<>> ELSE Head(segments).items

Parsed(reply) ==
    SelectSeq(IF IsJson(reply) THEN reply.segments[1].items ELSE Extracted(reply.segments),
              LAMBDA item : item.asks /\ item.words # {})

(* SyntheticQAGenerator.generate_for_chunk                                 *)

\* The Jaccard similarity of the outputs is at least the threshold, 2 of 5.
SelfConsistent(a, b) == 5 * Cardinality(a.words \cap b.words) >= 2 * Cardinality(a.words \cup b.words)

\* Mutant: a second reply that does not parse lets the candidates pass.
GenerateFailOpen(first, second, check) ==
    LET candidates == SelectSeq(Parsed(first), LAMBDA item : ~item.refuses /\ item.fits)
    IN  IF ~check \/ Parsed(second) = <<>> THEN candidates
        ELSE SelectSeq(candidates, LAMBDA item :
                 \E k \in DOMAIN Parsed(second) : SelfConsistent(item, Parsed(second)[k]))
\* Refusals and pairs out of bounds go; the rest must agree with some pair of the second reply.
GenerateForChunk(first, second, check) ==
    LET candidates == SelectSeq(Parsed(first), LAMBDA item : ~item.refuses /\ item.fits)
    IN  IF ~check THEN candidates
        ELSE SelectSeq(candidates, LAMBDA item :
                 \E k \in DOMAIN Parsed(second) : SelfConsistent(item, Parsed(second)[k]))

\* A pair reaches the dataset only if the teacher wrote it, whole, within bounds and not as a
\* refusal, and, where the check is on, said much the same when asked again: a second reply that
\* is no JSON keeps nothing (synthetic_qa.py:433-464).
PairsWereSaidTwice(first, second, check) ==
    LET kept == GenerateForChunk(first, second, check)
        Said(reply) == UNION {{reply.segments[i].items[k] : k \in DOMAIN reply.segments[i].items} :
                              i \in DOMAIN reply.segments}
    IN  \A k \in DOMAIN kept :
          /\ kept[k] \in Said(first) /\ kept[k].asks /\ kept[k].fits /\ ~kept[k].refuses
          /\ check => \E other \in Said(second) : SelfConsistent(kept[k], other)

-----------------------------------------------------------------------------
(* validate_dataset.py: a line is [json, prompt, context, tokens]; 0       *)
(* tokens is a missing output, "" a missing text.                          *)

Loads(lines) == lines # <<>> /\ \A i \in DOMAIN lines :
    lines[i].json /\ lines[i].prompt # "" /\ lines[i].tokens > 0

\* Rows whose prompt, instruction and context, came before.
Duplicates(lines) == {i \in DOMAIN lines : \E j \in 1..(i - 1) :
    lines[j].prompt = lines[i].prompt /\ lines[j].context = lines[i].context}
\* Tokens of the formatted row: the instruction frame, the context, the output.
TotalTokens(line) == 1 + (IF line.context = "" THEN 0 ELSE 1) + line.tokens
Overlong(lines, limit) == {i \in DOMAIN lines : TotalTokens(lines[i]) > limit}

\* Mutant: duplicates are reported and do not block.
ExitOverlooksDuplicates(lines, limit) ==
    IF ~Loads(lines) THEN 2 ELSE IF Overlong(lines, limit) # {} THEN 1 ELSE 0
\* main: 2 for rows that cannot be loaded, 1 for blocking issues; short and long outputs only
\* add to the report.
ExitCode(lines, limit) ==
    IF ~Loads(lines) THEN 2
    ELSE IF Duplicates(lines) # {} \/ Overlong(lines, limit) # {} THEN 1 ELSE 0

\* A dataset the script passes can be trained on: each row asks and answers, none is cut at the
\* sequence length, and no prompt is answered twice (validate_dataset.py:95-123, 164-205, 318-342).
PassedDatasetIsClean(lines, limit) ==
    ExitCode(lines, limit) = 0 =>
      /\ Cardinality({<<lines[i].prompt, lines[i].context>> : i \in DOMAIN lines}) = Len(lines)
      /\ \A i \in DOMAIN lines : lines[i].tokens \in 1..(limit - 1) /\ lines[i].prompt # ""
=============================================================================
