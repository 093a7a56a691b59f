---------------------------------- MODULE MCRanking ----------------------------------
(* Small families of questions for Ranking. *)
EXTENDS Ranking, FiniteSets

CONSTANTS a, b, x, y, z, words, both, self, none

MCNames == {words, both}

Rows(uris, texts, scores, found) ==
    [uri : uris, chunk : {0, 1}, text : texts, score : scores, words : found]
Lists(rows, n) ==
    UNION {{s \in [1..m -> rows] : \A i, j \in 1..m :
              i # j => <<s[i].uri, s[i].chunk>> # <<s[j].uri, s[j].chunk>>} : m \in 0..n}
Indexes(kinds, pictures, broken, lists) ==
    [kind : kinds, pictures : pictures, broken : broken, rows : lists]

Known == [configured : {TRUE}, byDefault : BOOLEAN, default : MCNames, order : {<<both, words>>}]
Setup == [configured |-> TRUE, byDefault |-> FALSE, default |-> words, order |-> <<both, words>>]
Ask(k) == [query |-> TRUE, image |-> FALSE, index |-> none, strategy |-> "known", k |-> k]

\* What two semantic indexes may hold: the rankings and their merger; the same with
\* lexical ones; what a pair of small indexes of any kind may be asked.
MCSearches ==
    {[setups |-> {Setup}, requests |-> {Ask(1), Ask(2)},
      indexes |-> Indexes({"semantic"}, {FALSE}, {FALSE},
                          Lists(Rows({a, b}, {x, y}, {1, 2}, {0}), 2))],
     [setups |-> {Setup}, requests |-> {Ask(1)},
      indexes |-> Indexes({"lexical", "semantic"}, {FALSE}, {FALSE},
                          Lists(Rows({a, b}, {x, y}, {1}, {0, 1}), 2))],
     [setups |-> Known \cup {[Setup EXCEPT !.configured = FALSE]},
      requests |-> [query : BOOLEAN, image : BOOLEAN, index : MCNames \cup {none},
                    strategy : {"none", "known", "unknown"}, k : {1}],
      indexes |-> Indexes({"absent", "lexical", "semantic"}, BOOLEAN, BOOLEAN,
                          {<<>>} \cup {<<r, [r EXCEPT !.chunk = 1, !.score = 3, !.words = 0]>> :
                                          r \in Rows({a}, {x}, {1}, {1})})]}

MCCosine == [p \in {x, y, z} \X {x, y, z} |->
               IF p[1] = p[2] THEN 10000 ELSE IF z \in {p[1], p[2]} THEN -1000 ELSE 8500]
MCDocs == {a, b}
MCStem == (a :> 8000 @@ b :> 0)
MCPath == (a :> 4000 @@ b :> 0)

Spec1(n, s, p) == [name |-> n, semantic |-> s, pictures |-> p]
SimilarSetup ==
    [configured |-> TRUE, requested |-> "", preferred |-> "", default |-> "main",
     specs |-> <<Spec1("main", FALSE, FALSE), Spec1("semantic", TRUE, FALSE)>>]
Want(top, perChunk, candidates) ==
    [top |-> top, perChunk |-> perChunk, candidates |-> candidates]
Texts2 == UNION {[1..n -> {x, y, z}] : n \in 0..2}

MCLikes ==
    {[setups |-> {SimilarSetup},
      requests |-> {Want(1, 1, 1), Want(1, 2, 1), Want(2, 1, 2), Want(2, 2, 2)},
      queries |-> Texts2 \ {<<>>}, rows |-> Texts2, copies |-> SUBSET MCDocs,
      own |-> {<<>>, <<x>>, <<z>>, <<x, y>>},
      ok |-> {<<TRUE, TRUE>>}],
     [setups |-> [configured : BOOLEAN, requested : {"", "main", "semantic"},
                  preferred : {"", "main"}, default : {"main", "semantic"},
                  specs : {<<Spec1("main", s, p), Spec1("semantic", t, FALSE)>> :
                             s \in BOOLEAN, p \in BOOLEAN, t \in BOOLEAN}],
      requests |-> {Want(1, 1, 1)},
      queries |-> {<<>>, <<x>>}, rows |-> {<<>>, <<x>>}, copies |-> {{a}},
      own |-> {<<>>, <<x>>},
      ok |-> BOOLEAN \X BOOLEAN]}
=============================================================================
