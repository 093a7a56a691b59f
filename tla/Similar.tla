------------------------------------ MODULE Similar ------------------------------------
(***************************************************************************)
(* `wksc similar`: the documents most like one of them (api/similar).  The    *)
(* chunks of the query document vote for documents by the rank they give      *)
(* them; the documents with most votes are compared chunk by chunk, labelled,  *)
(* and listed.  Similarities and ratios are ten-thousandths; the similarity of *)
(* two texts, of two file names and of two paths is an input.                  *)
(***************************************************************************)
EXTENDS Integers, FiniteSetsExt, SequencesExt

CONSTANTS Docs,        \* the other documents
          Self,        \* the document asked about
          Texts,
          Cosine,      \* [Texts \X Texts -> Int]
          Stem,        \* [Docs -> 0..10000]: how alike the names are
          Path         \* [Docs -> 0..10000]: how alike the paths are

One == 10000

\* What the parameters must be; Ranking assumes it.
SimilarParameters ==
    /\ Self \notin Docs
    /\ Cosine \in [Texts \X Texts -> Int]
    /\ \A t \in Texts : Cosine[t, t] = One
    /\ Stem \in [Docs -> 0..One] /\ Path \in [Docs -> 0..One]

\* query: the chunks of the document.  rows: the chunks of every document that the
\* index holds, Self among them, perhaps of an older version.  copies: those whose
\* file is, byte for byte, that of the query now.
Request == [top : Nat \ {0}, perChunk : Nat \ {0}, candidates : Nat \ {0}]

\* The defaults of SimilarConfig.
MatchThreshold == 8000
RrfK           == 60
Near   == [matched |-> 2, query |-> 8000, candidate |-> 8000, mean |-> 8800, order |-> 8000]
Family == [query |-> 3500, max |-> 8800, stem |-> 7500, supportStem |-> 5000,
           supportPath |-> 3500]
Topic  == [matched |-> 1, query |-> 2000, mean |-> 7200, max |-> 8200]

Ratio(a, b) == (One * a) \div b

-----------------------------------------------------------------------------
(* _collect_candidate_scores *)

Best(rows, d, t) == Max({Cosine[t, rows[d][i]] : i \in DOMAIN rows[d]})
Alike(rows, t)   == {d \in Docs : rows[d] # <<>> /\ Best(rows, d, t) > 0}

\* The orders in which one chunk may list the documents: by the best of their chunks,
\* the document itself passed over.  argsort is not stable, ties fall anyhow.
Ballots(rows, t) ==
    {s \in SetToSeqs(Alike(rows, t)) :
        \A i, j \in DOMAIN s : i < j => Best(rows, s[i], t) >= Best(rows, s[j], t)}

\* MUTANT: the document itself takes a place.
CountedSelf(ballot, rows, t, n) ==
    SubSeq(ballot, 1, Min({Len(ballot), IF rows[Self] = <<>> \/ Best(rows, Self, t) <= 0
                                        THEN n ELSE n - 1}))
\* The first n of them count.
Counted(ballot, rows, t, n) == SubSeq(ballot, 1, Min({Len(ballot), n}))

Weight(rank) == 1000000 \div (RrfK + rank)
Votes(ballots, d) ==
    MapThenSumSet(LAMBDA p : Weight(p[2]),
        {p \in UNION {{c} \X DOMAIN ballots[c] : c \in DOMAIN ballots} : ballots[p[1]][p[2]] = d})

\* The first n by votes; who was listed first goes first among equals.
Candidates(ballots, n) ==
    LET named == ToSet(FlattenSeq(ballots))
        first(d) == SelectInSeq(FlattenSeq(ballots), LAMBDA e : e = d)
        above(d, e) == \/ Votes(ballots, d) > Votes(ballots, e)
                       \/ Votes(ballots, d) = Votes(ballots, e) /\ first(d) < first(e)
        order == SetToSortSeq(named, above)
    IN  SubSeq(order, 1, Min({Len(order), n}))

-----------------------------------------------------------------------------
(* _candidate_metrics *)

\* Pairs of chunks above the threshold, the most alike first, each chunk once.
GreedyMatches(query, chunks) ==
    LET sim(p)   == Cosine[query[p[1]], chunks[p[2]]]
        pairs    == {p \in (DOMAIN query) \X (DOMAIN chunks) : sim(p) >= MatchThreshold}
        above(p, q) == \/ sim(p) > sim(q)
                       \/ sim(p) = sim(q) /\ (p[1] < q[1] \/ (p[1] = q[1] /\ p[2] < q[2]))
    IN  FoldLeft(LAMBDA used, p : IF \E q \in used : q[1] = p[1] \/ q[2] = p[2] THEN used
                                  ELSE used \cup {p},
                 {}, SetToSortSeq(pairs, above))

OrderConsistency(matches) ==
    LET s == SetToSortSeq(matches, LAMBDA p, q : p[1] < q[1]) IN
    CASE s = <<>>    -> 0
      [] Len(s) = 1  -> One
      [] OTHER -> Ratio(Cardinality({i \in 1..Len(s) - 1 : s[i + 1][2] >= s[i][2]}), Len(s) - 1)

Metrics(query, chunks, d) ==
    LET matches == GreedyMatches(query, chunks)
        n       == Cardinality(matches)
        sims    == [p \in matches |-> Cosine[query[p[1]], chunks[p[2]]]]
    IN  [matched   |-> n,
         query     |-> Ratio(n, Len(query)),
         candidate |-> Ratio(n, Len(chunks)),
         mean      |-> IF n = 0 THEN 0 ELSE MapThenSumSet(LAMBDA p : sims[p], matches) \div n,
         max       |-> Max({sims[p] : p \in matches} \cup {0}),
         order     |-> OrderConsistency(matches),
         stem      |-> Stem[d],
         path      |-> Path[d]]

\* What the document is to the query: the first of four that fits.
Label(m, copy) ==
    CASE copy -> "exact_duplicate"
      [] /\ m.matched >= Near.matched
         /\ m.query >= Near.query /\ m.candidate >= Near.candidate
         /\ m.mean >= Near.mean /\ m.order >= Near.order -> "near_duplicate"
      [] /\ \/ m.stem >= Family.stem
            \/ m.stem >= Family.supportStem /\ m.path >= Family.supportPath
         /\ m.query >= Family.query /\ m.max >= Family.max -> "same_document_family"
      [] /\ m.matched >= Topic.matched /\ m.query >= Topic.query
         /\ (m.mean >= Topic.mean \/ m.max >= Topic.max) -> "topic_related"
      [] OTHER -> "none"

\* Only a copy is 1.
FinalScore(m, label, votes) ==
    LET seed == Min({(votes * 60) \div 100, One}) IN
    IF label = "exact_duplicate" THEN One
    ELSE Min({(35 * m.mean + 20 * m.query + 10 * m.candidate + 10 * m.order + 10 * m.stem
                 + 5 * m.path + 10 * seed) \div 100,
              9999})

-----------------------------------------------------------------------------
(* cmd *)

\* _resolve_semantic_index: the index asked for, or the one preferred, or "semantic",
\* or the default, or the first that is semantic.
Chosen(setup) ==
    LET is(n)  == \E i \in DOMAIN setup.specs : setup.specs[i].name = n /\ setup.specs[i].semantic
        asked  == IF setup.requested # "" THEN setup.requested ELSE setup.preferred
        usable == SelectSeq(setup.specs, LAMBDA x : x.semantic)
    IN  CASE ~setup.configured -> ""
          [] asked # ""        -> IF is(asked) THEN asked ELSE ""
          [] is("semantic")    -> "semantic"
          [] is(setup.default) -> setup.default
          [] usable # <<>>     -> usable[1].name
          [] OTHER             -> ""

\* Why there is no answer, if there is none, in the order it is found out.
Refusal(setup, asked) ==
    CASE Chosen(setup) = ""                        -> "no semantic index"
      [] \E i \in DOMAIN setup.specs :
           setup.specs[i].name = Chosen(setup) /\ setup.specs[i].pictures -> "not of texts"
      [] ~asked.exists                             -> "no document"
      [] ~asked.readable \/ asked.query = <<>>     -> "no text"
      [] \A d \in DOMAIN asked.rows : asked.rows[d] = <<>> -> "no embeddings"
      [] OTHER                                     -> "none"

\* The candidates that are something to the query, the most alike first.
Hits(asked, ballots, request) ==
    LET counted == [c \in DOMAIN ballots |->
                      Counted(ballots[c], asked.rows, asked.query[c], request.perChunk)]
        metrics(d) == Metrics(asked.query, asked.rows[d], d)
        hit(d) == LET label == Label(metrics(d), d \in asked.copies)
                  IN  [uri |-> d, label |-> label,
                       score |-> FinalScore(metrics(d), label, Votes(counted, d))]
        found == SelectSeq([i \in DOMAIN Candidates(counted, request.candidates) |->
                              hit(Candidates(counted, request.candidates)[i])],
                           LAMBDA h : h.label # "none")
        above(i, j) == \/ found[i].score > found[j].score
                       \/ found[i].score = found[j].score /\ i < j
        order == SetToSortSeq(DOMAIN found, above)
    IN  [i \in 1..Min({Len(order), request.top}) |-> found[order[i]]]

-----------------------------------------------------------------------------
\* A copy of the document that the index has indexed as it is leads the answer,
\* labelled as what it is, however many chunks the document or another has, and
\* whatever else is alike: if no more documents share a chunk of its text than are
\* counted for a chunk and compared, and no more than are listed.  What leads is a
\* copy as long as there is one in the answer.
CopiesFirst(asked, request, hits) ==
    LET sharing == {d \in Docs : \E t \in ToSet(asked.query) :
                      t \in ToSet(asked.rows[d]) \/ (d \in Alike(asked.rows, t)
                                                      /\ Best(asked.rows, d, t) >= One)}
    IN  /\ \A i, j \in DOMAIN hits :
             i < j /\ hits[j].uri \in asked.copies => hits[i].uri \in asked.copies
        /\ Cardinality(sharing) <= Min({request.perChunk, request.candidates, request.top}) =>
             \A d \in asked.copies : asked.rows[d] = asked.query =>
               \E i \in DOMAIN hits : hits[i].uri = d /\ hits[i].label = "exact_duplicate"
=============================================================================
