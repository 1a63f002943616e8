----------------------------- MODULE DatasetShares -----------------------------
(***************************************************************************)
(* How the training sets are composed: the shares of the sample variants   *)
(* (app/services/rag_dataset.py apportion_counts), the assembly of one     *)
(* sample or preference pair per seed question (RAGSampleBuilder and       *)
(* DPOPairBuilder of app/services/dpo_dataset.py), and the subsets of the  *)
(* corpus successive rerank runs take (scripts/build_rerank_dataset.py).   *)
(* Texts are abstracted to the chunks they cite and are grounded in.       *)
(***************************************************************************)
EXTENDS Integers, Sequences, FiniteSets, Functions, SequencesExt

SumOf(counts) == FoldLeft(LAMBDA a, b : a + b, 0, counts)

(* apportion_counts: largest remainders, ties by the order of the shares.  *)
(* The shares are percentages.                                             *)
Floors(shares, total) == [i \in DOMAIN shares |-> (shares[i] * total) \div 100]

Ahead(shares, total, i) ==
    {j \in DOMAIN shares :
        LET mine == (shares[i] * total) % 100
            other == (shares[j] * total) % 100
        IN  other > mine \/ (other = mine /\ j < i)}

\* Mutant: every share with a remainder is rounded up.
ApportionUp(shares, total) ==
    [i \in DOMAIN shares |-> (shares[i] * total + 99) \div 100]

Apportion(shares, total) ==
    LET floors == Floors(shares, total)
        leftover == total - SumOf(floors)
    IN  [i \in DOMAIN shares |->
            floors[i] + (IF Cardinality(Ahead(shares, total, i)) < leftover THEN 1 ELSE 0)]

(* build: each seed gives at most one sample, of the first variant that    *)
(* still has room and can be built from it.  can[s] is the set of variants *)
(* seed s allows.                                                          *)
CountOf(samples, v) == Cardinality({k \in DOMAIN samples : samples[k].variant = v})

\* Mutant: a seed the first variant refuses is given up.
PlaceFirstOnly(samples, seed, can, quota, total) ==
    LET open == {v \in DOMAIN quota : CountOf(samples, v) < quota[v]}
        first == CHOOSE v \in open : \A w \in open : v <= w
    IN  IF open = {} \/ first \notin can THEN samples
        ELSE Append(samples, [seed |-> seed, variant |-> first])

Place(samples, seed, can, quota, total) ==
    LET open == {v \in can : CountOf(samples, v) < quota[v]}
    IN  IF Len(samples) >= total \/ open = {} THEN samples
        ELSE Append(samples, [seed |-> seed,
                              variant |-> CHOOSE v \in open : \A w \in open : v <= w])

BuildSamples(can, shares, total) ==
    FoldLeft(LAMBDA samples, s : Place(samples, s, can[s], Apportion(shares, total), total),
             <<>>, [s \in DOMAIN can |-> s])

(* The variants of the RAG set in the order build tries them, and what the *)
(* retriever must have found for each.                                     *)
RagShares == <<70, 15, 10, 5>>
Relevant == 1
Irrelevant == 2
Partial == 3
Empty == 4

RagCan(seed) ==
    {Irrelevant, Empty} \cup
    (IF seed.chunk \in Range(seed.hits) THEN {Relevant, Partial} ELSE {})

(* _negative_pool as main calls it: the chunks of --negative-document-id   *)
(* if it is given, and otherwise of every document.                        *)
NegativePool(corpus, document) ==
    SelectSeq(corpus, LAMBDA c : document = 0 \/ c.document = document)

PoolIds(corpus, document) == [k \in DOMAIN NegativePool(corpus, document) |->
                                 NegativePool(corpus, document)[k].id]

RagContext(sample, seeds, pool) ==
    LET seed == seeds[sample.seed]
    IN  CASE sample.variant = Relevant -> seed.hits
          [] sample.variant = Irrelevant -> pool
          [] sample.variant = Partial -> <<seed.chunk>> \o pool
          [] sample.variant = Empty -> <<>>

\* The chunks the expected answer cites: a refusal and an uncited answer cite none.
RagCites(sample, seeds) ==
    IF sample.variant \in {Relevant, Partial} THEN {seeds[sample.seed].chunk} ELSE {}

RagSamples(seeds, total) ==
    BuildSamples([s \in DOMAIN seeds |-> RagCan(seeds[s])], RagShares, total)

(* DPO: the strategies, and the citations of the rejected answer.  A       *)
(* teacher's reply is the sequence of its citations, "real" for a number   *)
(* below 900; the answer "none" stands for an empty reply.                 *)
DpoShares == <<40, 30, 30>>
NoCitation == 1
Generic == 2
Hallucination == 3

DpoCan(seed) ==
    (IF seed.cites THEN {NoCitation} ELSE {}) \cup
    (IF seed.teacher # <<"none">> THEN {Generic, Hallucination} ELSE {})

\* Mutant: a reply without a citation is rejected as it is.
RejectedUncited(sample, seed) ==
    IF sample.variant # Hallucination THEN <<>> ELSE seed.teacher

Rejected(sample, seed) ==
    IF sample.variant # Hallucination THEN <<>>
    ELSE IF seed.teacher = <<>> THEN <<"fake">>
    ELSE [seed.teacher EXCEPT ![1] = "fake"]

DpoPairs(seeds, total) ==
    BuildSamples([s \in DOMAIN seeds |-> DpoCan(seeds[s])], DpoShares, total)

(* select_chunks over chunks 0 .. n-1; a limit of 0 is none.               *)
\* Mutant: the offset is taken from the sampled chunks, not before sampling.
SelectThenSkip(n, stride, offset, limit) ==
    {c \in 0 .. (n - 1) : c % stride = 0 /\ c \div stride >= offset}

SelectChunks(n, stride, offset, limit) ==
    LET sampled == {c \in offset .. (n - 1) : (c - offset) % stride = 0}
    IN  IF limit = 0 THEN sampled
        ELSE {c \in sampled : (c - offset) \div stride < limit}

(* The hallucination branch of the seeds and documents the checks range    *)
(* over.                                                                   *)
TwoDocuments == <<[id |-> 1, document |-> 1], [id |-> 2, document |-> 2]>>
RagSeeds == {[chunk |-> c, hits |-> h] : c \in {1, 2}, h \in {<<>>, <<1>>, <<2>>, <<2, 1>>}}
DpoSeeds == {[cites |-> c, teacher |-> t] :
                c \in BOOLEAN, t \in {<<"none">>, <<>>, <<"real">>, <<"fake">>, <<"real", "real">>}}

--------------------------------------------------------------------------------
(* Counts of the variants add up to the size asked for, and each is within *)
(* one of its exact share: apportion_counts.                               *)
SharesAddUp(shares, total) ==
    LET counts == Apportion(shares, total)
    IN  /\ SumOf(counts) = total
        /\ \A i \in DOMAIN shares :
              /\ counts[i] * 100 > shares[i] * total - 100
              /\ counts[i] * 100 < shares[i] * total + 100

(* The RAG set never asks the model to cite a chunk that is not in the     *)
(* context it is shown, never uses a seed twice, and is as large as asked  *)
(* for, in the documented shares, whenever there are that many seeds and   *)
(* the retriever finds their chunks.                                       *)
SamplesAreGrounded(seeds, total, document) ==
    LET samples == RagSamples(seeds, total)
        pool == PoolIds(TwoDocuments, document)
    IN  /\ \A k \in DOMAIN samples :
              RagCites(samples[k], seeds) \subseteq Range(RagContext(samples[k], seeds, pool))
        /\ \A j, k \in DOMAIN samples : samples[j].seed = samples[k].seed => j = k
        /\ (/\ Len(seeds) >= total
            /\ \A s \in DOMAIN seeds : seeds[s].chunk \in Range(seeds[s].hits))
           => \A v \in DOMAIN RagShares :
                 CountOf(samples, v) = Apportion(RagShares, total)[v]
        /\ Len(samples) < total
           => \A s \in DOMAIN seeds :
                 \/ \E k \in DOMAIN samples : samples[k].seed = s
                 \/ \A v \in RagCan(seeds[s]) :
                       CountOf(samples, v) = Apportion(RagShares, total)[v]

(* A rejected answer of the hallucination strategy names an invented       *)
(* chunk, and a rejected answer of the other strategies names none.        *)
RejectedIsUngrounded(seeds, total) ==
    LET pairs == DpoPairs(seeds, total)
    IN  \A k \in DOMAIN pairs :
            LET rejected == Rejected(pairs[k], seeds[pairs[k].seed])
            IN  IF pairs[k].variant = Hallucination
                THEN "fake" \in Range(rejected)
                ELSE rejected = <<>>

(* Runs with the same stride and different offsets take disjoint chunks    *)
(* and together every chunk: select_chunks.                                *)
OffsetsPartition(n, stride) ==
    /\ \A a, b \in 0 .. (stride - 1) :
          a # b => SelectChunks(n, stride, a, 0) \cap SelectChunks(n, stride, b, 0) = {}
    /\ UNION {SelectChunks(n, stride, a, 0) : a \in 0 .. (stride - 1)} = 0 .. (n - 1)
    /\ \A a \in 0 .. (stride - 1), limit \in 1 .. n :
          /\ SelectChunks(n, stride, a, limit) \subseteq SelectChunks(n, stride, a, 0)
          /\ Cardinality(SelectChunks(n, stride, a, limit)) <= limit
================================================================================
