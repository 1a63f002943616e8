-------------------------------- MODULE Retrieval ------------------------------
(***************************************************************************)
(* What a search may return: the filters of the three backends, Qdrant     *)
(* (app/retriever/qdrant.py), FAISS (app/retriever/faiss.py) and the       *)
(* process-local list searched when the backend is down                    *)
(* (app/services/vectorstore.py); then the rerank and the citations made   *)
(* of the hits (app/retriever/rerank.py, app/rag/context.py,               *)
(* app/api/routes.py).  "x" and "X" are two values that differ in case     *)
(* only, "" is an absent value.                                            *)
(***************************************************************************)
EXTENDS Integers, Sequences, SequencesExt, FiniteSetsExt

Fold(value) == CASE value = "X" -> "x" [] value = "ACME" -> "acme" [] OTHER -> value
Folded(values) == {Fold(v) : v \in values}

(* What upsert stores of a chunk; "active" is TRUE, FALSE or unset, and    *)
(* is unset for every chunk whose document has no legal metadata.          *)
Stored(chunk) ==
    [chunk EXCEPT !.tenant = IF chunk.tenant # "" THEN chunk.tenant ELSE chunk.owner]

(* _to_qdrant_filter: every condition is an exact match on the payload;    *)
(* an unset payload field matches nothing.                                 *)
QdrantPasses(filters, payload) ==
    /\ payload.tenant = filters.tenant
    /\ filters.owner # "" => payload.owner = filters.owner
    /\ filters.tags \subseteq payload.tags
    /\ \A a \in DOMAIN filters.attrs :
           filters.attrs[a] # "" => payload.attrs[a] = filters.attrs[a]
    /\ filters.active # "unset" => payload.active = filters.active
    /\ filters.mode = "current" => payload.active = "yes"
    /\ filters.mode = "historical" => payload.active = "no"

(* The post-filter of FaissVectorStore.search; _search_fallback is the     *)
(* same filter over the chunks themselves.  Case is ignored, and a chunk   *)
(* with no is_active counts as active.                                     *)
\* Mutant: an unset owner of the chunk matches every tenant.
FoldedPassesUnowned(filters, payload) ==
    /\ Fold(payload.tenant) \in {Fold(filters.tenant), ""}
    /\ filters.owner # "" => Fold(payload.owner) = Fold(filters.owner)
    /\ Folded(filters.tags) \subseteq Folded(payload.tags)
    /\ \A a \in DOMAIN filters.attrs :
           filters.attrs[a] # "" => Fold(payload.attrs[a]) = Fold(filters.attrs[a])
    /\ filters.active = "yes" => payload.active # "no"
    /\ filters.active = "no" => payload.active = "no"
    /\ filters.mode = "current" => payload.active # "no"
    /\ filters.mode = "historical" => payload.active # "yes"

FoldedPasses(filters, payload) ==
    /\ Fold(payload.tenant) = Fold(filters.tenant)
    /\ filters.owner # "" => Fold(payload.owner) = Fold(filters.owner)
    /\ Folded(filters.tags) \subseteq Folded(payload.tags)
    /\ \A a \in DOMAIN filters.attrs :
           filters.attrs[a] # "" => Fold(payload.attrs[a]) = Fold(filters.attrs[a])
    /\ filters.active = "yes" => payload.active # "no"
    /\ filters.active = "no" => payload.active = "no"
    /\ filters.mode = "current" => payload.active # "no"
    /\ filters.mode = "historical" => payload.active # "yes"

Upto(seq, n) == SubSeq(seq, 1, IF n < Len(seq) THEN n ELSE Len(seq))

(* The searches over chunks in the order of their similarity.  Qdrant      *)
(* filters first; FAISS takes factor * top_k candidates and filters those. *)
QdrantSearch(ranked, filters, topK) ==
    Upto(SelectSeq(ranked, LAMBDA c : QdrantPasses(filters, Stored(c))), topK)

\* Mutant: the candidates are cut to top_k before the filter.
FaissSearchNarrow(ranked, filters, topK, factor) ==
    SelectSeq(Upto(ranked, topK), LAMBDA c : FoldedPasses(filters, Stored(c)))

FaissSearch(ranked, filters, topK, factor) ==
    Upto(SelectSeq(Upto(ranked, topK * factor),
                   LAMBDA c : FoldedPasses(filters, Stored(c))), topK)

FallbackSearch(found, filters, topK) ==
    Upto(SelectSeq(found, LAMBDA c : FoldedPasses(filters, Stored(c))), topK)

-----------------------------------------------------------------------------
(* CrossEncoderReranker.rerank and apply_rerank: the best scores first,    *)
(* ties in the order of the hits; without a reranker the order is kept.    *)
(* A limit that is not positive is no limit; at least one hit is kept.     *)
RerankLimit(hits, limit) ==
    IF limit <= 0 THEN Len(hits) ELSE IF limit < Len(hits) THEN limit ELSE Len(hits)

Better(score, i, j) == score[i] > score[j] \/ (score[i] = score[j] /\ i < j)

ApplyRerank(hits, score, limit, enabled) ==
    LET place(i) == 1 + Cardinality({j \in DOMAIN hits : Better(score, j, i)})
        order == IF enabled THEN [p \in DOMAIN hits |-> CHOOSE i \in DOMAIN hits : place(i) = p]
                 ELSE [p \in DOMAIN hits |-> p]
    IN  [p \in 1 .. RerankLimit(hits, limit) |-> hits[order[p]]]

(* select_citations and _select_citations: the first hit of every file     *)
(* and page, up to the maximum; the answer says when there are fewer than  *)
(* the minimum.  The endpoint's copy raises the maximum to the minimum.    *)
\* Mutant: the page is not part of the key.
CitationKeyOfFile(hit) == <<hit.file>>

CitationKey(hit) == <<hit.file, hit.page>>

SelectCitations(hits, minimum, maximum) ==
    LET max == IF maximum < minimum THEN minimum ELSE maximum
        Add(taken, hit) ==
            IF Len(taken) >= max \/ \E i \in DOMAIN taken : CitationKey(taken[i]) = CitationKey(hit)
            THEN taken ELSE Append(taken, hit)
        unique == FoldLeft(Add, <<>>, hits)
    IN  [citations |-> unique, insufficient |-> Len(unique) < minimum]

-----------------------------------------------------------------------------
(* Inputs the runs enumerate.                                              *)
Attrs == {"act_type", "issuer"}
ChunkValues ==
    [tenant : {"", "acme", "ACME", "other"}, owner : {"", "acme"}, tags : SUBSET {"x", "X"},
     attrs : [Attrs -> {"", "x", "X"}], active : {"unset", "yes", "no"}]
FilterValues ==
    [tenant : {"acme"}, owner : {"", "acme", "other"}, tags : {{}, {"x"}, {"x", "X"}},
     attrs : [Attrs -> {"", "x"}], active : {"unset", "yes", "no"},
     mode : {"current", "historical"}]

(* A tenant searches its own chunks whichever backend answers, and losing  *)
(* Qdrant never hides a chunk it would have returned: what its filter      *)
(* lets through, the filters of FAISS and of the fallback list let through *)
(* as well; and each keeps to the tenant, letter case apart.               *)
FiltersKeepTenant(filters, chunk) ==
    LET payload == Stored(chunk)
    IN  /\ QdrantPasses(filters, payload) => FoldedPasses(filters, payload)
        /\ FoldedPasses(filters, payload)
               => "acme" \in {Fold(chunk.tenant), Fold(chunk.owner)}
        /\ FoldedPasses(filters, payload) /\ chunk.active # "unset"
               => (chunk.active = "yes") = (filters.mode = "current")

(* FAISS filters after it has chosen its candidates: its hits are the best *)
(* that pass, and it misses none unless the collection is larger than the  *)
(* candidates it takes.                                                    *)
PostFilterMissesOnlyBeyond(ranked, filters, topK, factor) ==
    LET hits == FaissSearch(ranked, filters, topK, factor)
        all == FallbackSearch(ranked, filters, topK)
    IN  /\ IsPrefix(hits, all)
        /\ Len(ranked) <= topK * factor => hits = all
        /\ Len(ranked) <= topK * factor =>
               Len(QdrantSearch(ranked, filters, topK)) <= Len(hits)

(* An answer cites each page once, in the order of its hits, as many as    *)
(* allowed, and only says the citations are insufficient when the hits     *)
(* hold fewer distinct pages than the minimum.                             *)
CitationsAreTheHits(hits, score, limit, enabled, minimum, maximum) ==
    LET kept == ApplyRerank(hits, score, limit, enabled)
        pages == {<<kept[i].file, kept[i].page>> : i \in DOMAIN kept}
        answer == SelectCitations(kept, minimum, maximum)
        max == IF maximum < minimum THEN minimum ELSE maximum
    IN  /\ Len(answer.citations)
               = IF Cardinality(pages) < max THEN Cardinality(pages) ELSE max
        /\ \A i, j \in DOMAIN answer.citations :
               i # j => answer.citations[i] # answer.citations[j]
        /\ answer.insufficient = (Cardinality(pages) < minimum)
        /\ Len(hits) > 0 => Len(kept) > 0 /\ kept[1] \in Range(hits)
        /\ enabled => \A i \in DOMAIN kept : \E p \in DOMAIN hits :
               hits[p] = kept[i]
               /\ Cardinality({j \in DOMAIN hits : score[j] > score[p]}) < i
=============================================================================
