-------------------------------- MODULE SearchRanking --------------------------------
(***************************************************************************)
(* How a search turns what the indexes hold into at most k hits              *)
(* (services/search.py): every index ranks its chunks and keeps one per       *)
(* document and one per text; a strategy merges the rankings of its indexes   *)
(* by reciprocal rank and does the same again.  Three limits cut the way: the *)
(* candidates of a lexical index, the hits fetched from every index, and the  *)
(* merged hits that are looked at.  A score is an input; what the code does   *)
(* with it is modelled.                                                       *)
(***************************************************************************)
EXTENDS Integers, FiniteSetsExt, SequencesExt

CONSTANTS Uris, Texts,
          Names,             \* of the indexes a strategy may mention
          NoName,
          MaxImplicit,       \* MAX_IMPLICIT_SEMANTIC_EMBEDDINGS
          CandidatesPerHit, CandidatesMin, CandidatesMax  \* of _lexical_candidate_limit

\* What the parameters must be; Ranking assumes it.
SearchParameters ==
    /\ NoName \notin Names
    /\ MaxImplicit \in Nat
    /\ {CandidatesPerHit, CandidatesMin, CandidatesMax} \subseteq Nat \ {0}

\* A chunk of an index as a query finds it: its score, and how many words of the
\* query its text (in a lexical index) or its path (in a semantic one) has.
Row == [uri : Uris, chunk : Nat, text : Texts, score : Int, words : Nat]

\* An index of the configuration.  `pictures` is embedding_mode image_text_combo;
\* one that is broken raises when it is searched.  A lexical index lists its rows
\* in the order of the database's own text search, which knows stems and parts of
\* words: a row may be listed and share no word with the query.
Index == [kind : {"absent", "lexical", "semantic"}, pictures : BOOLEAN, broken : BOOLEAN,
          rows : Seq(Row)]

Request == [query : BOOLEAN, image : BOOLEAN, index : Names \cup {NoName},
            strategy : {"none", "known", "unknown"}, k : Nat \ {0}]

RrfK      == 60
OverFetch == 3

AtMost(s, n) == SubSeq(s, 1, Min({n, Len(s)}))

-----------------------------------------------------------------------------
(* Ranking *)

\* sorted(..., reverse=True): what scores the same keeps its order.
Ranked(s, score) ==
    LET above(i, j) == score[i] > score[j] \/ (score[i] = score[j] /\ i < j)
        order == SetToSortSeq(DOMAIN s, above)
    IN  [i \in DOMAIN s |-> s[order[i]]]

Doubles(g, h) == g.uri = h.uri \/ g.text = h.text
DoubledIn(h, s) == \E i \in DOMAIN s : Doubles(s[i], h)

\* One hit per document and one per text, the best of each, k in all.
DedupeHits(hits, k) ==
    FoldLeft(LAMBDA kept, h : IF Len(kept) >= k \/ DoubledIn(h, kept) THEN kept
                              ELSE Append(kept, h),
             <<>>, hits)

\* Every word of the query in the path raises the cosine by a fifth.
RankSemantic(ix, req, k) ==
    LET boosted == [i \in DOMAIN ix.rows |->
                      ix.rows[i].score * (5 + IF req.query THEN ix.rows[i].words ELSE 0)]
    IN  DedupeHits(Ranked(ix.rows, boosted), k)

LexicalCandidateLimit(k) ==
    Min({Max({k * CandidatesPerHit, CandidatesMin}), CandidatesMax})

RankLexical(rows, k) ==
    LET score == [i \in DOMAIN rows |-> rows[i].score]
    IN  DedupeHits(SelectSeq(Ranked(rows, score), LAMBDA r : r.words > 0), k)

-----------------------------------------------------------------------------
(* One index *)

Failure(kind) == [success |-> FALSE, kind |-> kind, hits |-> <<>>, warned |-> {}]
Found(hits)   == [success |-> TRUE, kind |-> "ok", hits |-> hits, warned |-> {}]

\* A text model takes words and nothing else, a combined one either.
Embeddable(ix, req) ==
    ~ix.broken /\ (ix.pictures \/ (req.query /\ ~req.image))

SearchSemantic(ix, req, k) ==
    CASE ix.rows = <<>>         -> Failure("not_found")
      [] ~Embeddable(ix, req)   -> Failure("runtime")
      [] OTHER                  -> Found(RankSemantic(ix, req, k))

SearchLexical(ix, req, k) ==
    CASE req.image      -> Failure("validation")
      [] ~req.query     -> Found(<<>>)
      [] ix.broken      -> Failure("runtime")
      [] ix.rows = <<>> -> Failure("not_found")
      [] OTHER -> Found(RankLexical(AtMost(ix.rows, LexicalCandidateLimit(k)), k))

SearchIndex(ix, req, k) ==
    CASE ix.kind = "absent"   -> Failure("not_found")
      [] ix.kind = "semantic" -> SearchSemantic(ix, req, k)
      [] ix.kind = "lexical"  -> SearchLexical(ix, req, k)

-----------------------------------------------------------------------------
(* A strategy *)

\* 1 / (rrf_k + rank), in millionths, of every list the chunk is in.
Weight(rank) == 1000000 \div (RrfK + rank)

Key(h) == <<h.uri, h.chunk>>
RrfScore(lists, key) ==
    MapThenSumSet(LAMBDA p : Weight(p[2] - 1),
        {p \in UNION {{l} \X DOMAIN lists[l] : l \in DOMAIN lists} : Key(lists[p[1]][p[2]]) = key})

\* A chunk is shown as the first list that has it shows it.
FirstOfKey(hits) ==
    FoldLeft(LAMBDA s, h : IF \E i \in DOMAIN s : Key(s[i]) = Key(h) THEN s ELSE Append(s, h),
             <<>>, hits)

Merged(lists) ==
    LET hits == FirstOfKey(FlattenSeq(lists))
    IN  Ranked(hits, [i \in DOMAIN hits |-> RrfScore(lists, Key(hits[i]))])

\* MUTANT: no more is kept than is asked for.
RrfMergeOnlyK(lists, k) == AtMost(Merged(lists), k)
\* More is kept than is asked for, as some of it will double.
RrfMerge(lists, k) == AtMost(Merged(lists), OverFetch * k)

\* Too large for a search that has not asked for it by name.
TooLarge(ix, req) ==
    /\ ix.kind = "semantic"
    /\ req.strategy = "none" /\ ~req.image
    /\ Len(ix.rows) > MaxImplicit

\* What the strategy hears from an index: its hits, a warning, or, from a lexical
\* index asked about a picture alone, nothing.  The picture is not passed on to it.
Hears(ix, req) ==
    CASE TooLarge(ix, req) -> Failure("skipped")
      [] ix.kind = "lexical" /\ ~req.query -> Found(<<>>)
      [] ix.kind = "lexical" -> SearchLexical(ix, [req EXCEPT !.image = FALSE], OverFetch * req.k)
      [] OTHER -> SearchIndex(ix, req, OverFetch * req.k)

\* No index answering is no failure.
SearchStrategy(indexes, order, req) ==
    LET heard == [i \in DOMAIN order |-> Hears(indexes[order[i]], req)]
        lists == FoldLeft(LAMBDA s, r : IF r.success THEN Append(s, r.hits) ELSE s, <<>>, heard)
    IN  [success |-> TRUE, kind |-> "ok",
         hits    |-> DedupeHits(RrfMerge(lists, req.k), req.k),
         warned  |-> {order[i] : i \in {j \in DOMAIN order : ~heard[j].success}}]

-----------------------------------------------------------------------------
(* search_documents.  `setup` is the configuration: whether it has an index        *)
(* section and a default strategy, its default index, and the indexes of the one   *)
(* strategy, in order.                                                             *)

ByStrategy(setup, req) ==
    req.strategy # "none" \/ (req.index = NoName /\ setup.byDefault)

SearchDocuments(setup, indexes, req) ==
    CASE ~setup.configured                             -> Failure("config")
      [] ~req.query /\ ~req.image                      -> Failure("validation")
      [] req.index # NoName /\ req.strategy # "none"   -> Failure("validation")
      [] req.strategy = "unknown"                      -> Failure("not_found")
      [] ByStrategy(setup, req)                        -> SearchStrategy(indexes, setup.order, req)
      [] OTHER -> SearchIndex(indexes[IF req.index # NoName THEN req.index ELSE setup.default],
                              req, req.k)

-----------------------------------------------------------------------------
\* All that an index has for the query, without any limit.
Everything(ix, req) ==
    IF ix.kind = "semantic" THEN RankSemantic(ix, req, Len(ix.rows))
    ELSE IF req.query THEN RankLexical(ix.rows, Len(ix.rows)) ELSE <<>>

\* "dedupe fills k from ranked candidates": the hits are of different documents and
\* different texts, and when there are fewer than k of them, nothing that could have
\* been one more was left out.  Every index of the strategy is then named in a
\* warning, or has no hit that does not double one in the answer; of a strategy of
\* two indexes, whatever the limits cut off, unless a lexical index lists more
\* candidates than are looked at.  For k above 20 this needs indexes that agree on the
\* text of a chunk (README).
Complete(setup, indexes, req, response) ==
    LET hits  == response.hits
        asked == IF ByStrategy(setup, req) THEN ToSet(setup.order)
                 ELSE {IF req.index # NoName THEN req.index ELSE setup.default}
        fetch == IF ByStrategy(setup, req) THEN OverFetch * req.k ELSE req.k
        cut(ix) == ix.kind = "lexical" /\ Len(ix.rows) > LexicalCandidateLimit(fetch)
    IN  response.success =>
          /\ Len(hits) <= req.k
          /\ \A i, j \in DOMAIN hits : i # j => ~Doubles(hits[i], hits[j])
          /\ Len(hits) < req.k =>
               \A n \in asked \ response.warned :
                 \/ cut(indexes[n])
                 \/ LET all == Everything(indexes[n], req)
                    IN  \A i \in DOMAIN all : DoubledIn(all[i], hits)
=============================================================================
