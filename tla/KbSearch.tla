------------------------------ MODULE KbSearch ------------------------------
(***************************************************************************)
(* Search over the MVP store as functions: the embedder the environment    *)
(* selects (src/app/services/kb_embeddings.py), the scan and its warnings  *)
(* (kb_store.search), the two-stage retrieval (api/kb_mvp/rag.py with      *)
(* services/kb_rerank.py), and the preference pairs made of the votes on   *)
(* the answers (kb_store.iter_feedback_pairs).                             *)
(*                                                                         *)
(* A store is a sequence of rows [dim, score] in the order SQLite scans    *)
(* them, the score being the cosine to the question; a hit is a position.  *)
(***************************************************************************)
EXTENDS Integers, Sequences, SequencesExt, FiniteSetsExt

(* ------------------------------- embedder ------------------------------- *)

\* env.explicit is KB_EMBEDDINGS_BACKEND ("" unset), env.has the backends whose own settings
\* are present ("ollama": a model, "api": a base URL) or, for "st", that can be loaded here.
\* Mutant: an explicit backend without its settings takes the next implicit one.
SelectImplicitly(env) ==
    CASE env.explicit = "st" -> "st"
      [] "ollama" \in env.has -> "ollama"
      [] "api" \in env.has -> "api"
      [] "st" \in env.has -> "st"
      [] OTHER -> "hash"

\* _build_from_env: an explicit "st" is taken without a probe, any other explicit backend only
\* with its settings; without one the order is ollama, api, st, hash.
SelectEmbedder(env) ==
    CASE env.explicit = "st" -> "st"
      [] env.explicit \in {"ollama", "api"} /\ env.explicit \in env.has -> env.explicit
      [] env.explicit # "" -> "hash"
      [] "ollama" \in env.has -> "ollama"
      [] "api" \in env.has -> "api"
      [] "st" \in env.has -> "st"
      [] OTHER -> "hash"

(* --------------------------------- scan --------------------------------- *)

\* The rows the statement returns: those of the question's dimension, as the cap allows.
Scanned(rows, dim, cap) ==
    LET same == SelectSeq([i \in DOMAIN rows |-> i], LAMBDA i : rows[i].dim = dim)
    IN  SubSeq(same, 1, IF Len(same) < cap THEN Len(same) ELSE cap)

\* Mutant: the cap is reported only when rows were left out.
ReasonsPastCap(rows, dim, cap) ==
    (IF Scanned(rows, dim, cap) = <<>> /\ rows # <<>> THEN {"dim_mismatch"} ELSE {})
    \union (IF Len(Scanned(rows, dim, cap)) > cap THEN {"truncated"} ELSE {})

Reasons(rows, dim, cap) ==
    (IF Scanned(rows, dim, cap) = <<>> /\ rows # <<>> THEN {"dim_mismatch"} ELSE {})
    \union (IF Len(Scanned(rows, dim, cap)) >= cap THEN {"truncated"} ELSE {})

MostHits == 3       \* the code's 50, in units of these stores

\* Positive scores only, best first (a stable sort), at most MostHits.
Search(rows, dim, cap, topK) ==
    LET scored == SelectSeq(Scanned(rows, dim, cap), LAMBDA i : rows[i].score > 0)
        best   == SortSeq(scored, LAMBDA i, j : rows[i].score > rows[j].score
                                                \/ (rows[i].score = rows[j].score /\ i < j))
        limit  == IF topK < MostHits THEN topK ELSE MostHits
    IN  SubSeq(best, 1, IF Len(best) < limit THEN Len(best) ELSE limit)

(* ---------------------------- two-stage search --------------------------- *)

\* rerank_hits over a shortlist: cross is the cross-encoder's score of each row.
RerankHits(shortlist, cross, topK, fails) ==
    LET first  == IF topK < 1 THEN 1 ELSE topK
        order  == IF fails THEN shortlist
                  ELSE SortSeq(shortlist, LAMBDA i, j : \/ cross[i] > cross[j]
                                                        \/ /\ cross[i] = cross[j]
                                                           /\ \E m, n \in DOMAIN shortlist :
                                                                 /\ m < n
                                                                 /\ <<i, j>> = <<shortlist[m], shortlist[n]>>)
    IN  SubSeq(order, 1, IF Len(order) < first THEN Len(order) ELSE first)

\* Mutant: the shortlist is always of the configured size, also when more hits are asked for.
RetrieveCandidates(rows, dim, cap, topK, config, cross) ==
    IF config.enabled
    THEN RerankHits(Search(rows, dim, cap, config.candidates), cross, topK, config.fails)
    ELSE Search(rows, dim, cap, topK)

\* _retrieve_with_rerank: a larger shortlist, of which the cross-encoder picks the hits.
Retrieve(rows, dim, cap, topK, config, cross) ==
    IF config.enabled
    THEN RerankHits(Search(rows, dim, cap, Max({topK, config.candidates})), cross, topK,
                    config.fails)
    ELSE Search(rows, dim, cap, topK)

(* ------------------------------- feedback ------------------------------- *)

\* votes: rows [user, rating, alt] on one assistant message, in the order they were cast
\* (created_at); user 0 is "no user id", which SQL and the grouping take for one user.
NoVote == 0
OfUser(votes, user) == SelectSeq([i \in DOMAIN votes |-> i], LAMBDA i : votes[i].user = user)

\* Mutant: the first vote of a user decides.
EarliestVote(votes, user) == IF OfUser(votes, user) = <<>> THEN NoVote ELSE OfUser(votes, user)[1]
LatestVote(votes, user) ==
    IF OfUser(votes, user) = <<>> THEN NoVote
    ELSE OfUser(votes, user)[Len(OfUser(votes, user))]

\* The alternative of the user's latest earlier downvote that had one.
EarlierDownvote(votes, user) ==
    Max({NoVote} \union {i \in ToSet(OfUser(votes, user)) :
                            i < LatestVote(votes, user) /\ votes[i].rating = -1 /\ votes[i].alt})

\* iter_feedback_pairs for one message: per user, which text is preferred to which. "answer"
\* is the assistant's, a number the alternative given with that vote.
PairOf(votes, user, asked) ==
    LET last == LatestVote(votes, user)
        down == EarlierDownvote(votes, user)
    IN  CASE last = NoVote \/ ~asked -> {}
          [] votes[last].alt -> {[chosen |-> last, rejected |-> 0]}
          [] votes[last].rating = 1 /\ down # NoVote -> {[chosen |-> 0, rejected |-> down]}
          [] OTHER -> {}

(* ------------------------------ properties ------------------------------ *)

EmbedderEnvs == [explicit : {"", "hash", "ollama", "api", "st", "openai"},
                 has : SUBSET {"ollama", "api", "st"}]
Rows == [dim : {1, 2}, score : {-1, 1, 2}]
Votes == [user : {0, 1}, rating : {-1, 1}, alt : BOOLEAN]

\* A named backend is never swapped for another real one: vectors of a model nobody asked for
\* would fill the store, and look right. What is missing ends in the hashing embedder.
NamedEmbedderOrHash(env) ==
    env.explicit # "" => SelectEmbedder(env) \in {env.explicit, "hash"}

\* A search that reports nothing is exact for its dimension: no row with a better score than
\* a returned hit, and no row at all while there is room, was left out by the cap.
UnreportedIsExact(rows, dim, cap, topK) ==
    LET hits == Search(rows, dim, cap, topK) IN
    Reasons(rows, dim, cap) = {} =>
        \A i \in DOMAIN rows : rows[i].dim = dim /\ rows[i].score > 0 =>
            \/ i \in ToSet(hits)
            \/ Len(hits) >= (IF topK < MostHits THEN topK ELSE MostHits)
               /\ \A h \in ToSet(hits) : rows[h].score >= rows[i].score

\* Turning the reranker on never makes a search worse off when it cannot run: its fallback is
\* exactly the search without it, and when it runs it never returns fewer hits.
RerankCostsNoHit(rows, dim, cap, topK, config, cross) ==
    LET plain == Search(rows, dim, cap, topK)
        hits  == Retrieve(rows, dim, cap, topK, config, cross)
    IN  /\ config.fails \/ ~config.enabled => hits = plain
        /\ Len(hits) = Len(plain)
        /\ IsInjective(hits)

\* A pair trains the model towards what the user thinks last: after a downvote the answer is
\* never the preferred text, after an upvote without an alternative never the rejected one.
PairsFollowTheLastVote(votes, user) ==
    \A pair \in PairOf(votes, user, TRUE) :
        LET own  == {i \in DOMAIN votes : votes[i].user = user}
            last == Max(own)
        IN  /\ pair.chosen = 0 => votes[last].rating = 1
            /\ pair.rejected = 0 => votes[last].alt
            /\ \A i \in {pair.chosen, pair.rejected} \ {0} : i \in own /\ votes[i].alt
=============================================================================
