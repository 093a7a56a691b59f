----------------------------------- MODULE Ranking -----------------------------------
(***************************************************************************)
(* One question to the indexes, a search or a `similar`, and its answer.     *)
(* Both are computed from what the indexes hold when they are read; what a    *)
(* searching process keeps from one question to the next is IndexStore's.     *)
(***************************************************************************)
EXTENDS Integers, Sequences, TLC

CONSTANTS Uris, Texts, Names, NoName, MaxImplicit,
          CandidatesPerHit, CandidatesMin, CandidatesMax,
          Docs, Self, Cosine, Stem, Path,
          Searches,  \* families of searches: sets of setups, indexes and requests
          Likes      \* families of questions to `similar`

VARIABLES question, reply

vars == <<question, reply>>

Search  == INSTANCE SearchRanking
Similar == INSTANCE Similar

ASSUME RankingAssumption == Search!SearchParameters /\ Similar!SimilarParameters

None == [kind |-> "none"]

Init ==
    /\ reply = None
    /\ \/ \E f \in Searches : \E s \in f.setups, r \in f.requests, x \in [Names -> f.indexes] :
            question = [kind |-> "search", setup |-> s, request |-> r, indexes |-> x]
       \/ \E f \in Likes : \E s \in f.setups, r \in f.requests, q \in f.queries,
                             x \in [Docs -> f.rows], own \in f.own, c \in f.copies,
                             ok \in f.ok :
            question = [kind |-> "similar", setup |-> s, request |-> r,
                        asked |-> [query |-> q, rows |-> x @@ (Self :> own), copies |-> c,
                                   exists |-> ok[1], readable |-> ok[2]]]

AnswerSearch ==
    /\ reply = None /\ question.kind = "search"
    /\ reply' = [kind |-> "search",
                 is |-> Search!SearchDocuments(question.setup, question.indexes, question.request)]
    /\ UNCHANGED question

RefuseSimilar ==
    /\ reply = None /\ question.kind = "similar"
    /\ Similar!Refusal(question.setup, question.asked) # "none"
    /\ reply' = [kind |-> "refusal", is |-> Similar!Refusal(question.setup, question.asked)]
    /\ UNCHANGED question

AnswerSimilar ==
    /\ reply = None /\ question.kind = "similar"
    /\ Similar!Refusal(question.setup, question.asked) = "none"
    /\ LET q == question.asked.query
           ballots == [c \in DOMAIN q |-> Similar!Ballots(question.asked.rows, q[c])]
       IN  \E b \in [DOMAIN q -> UNION {ballots[c] : c \in DOMAIN q}] :
             /\ \A c \in DOMAIN q : b[c] \in ballots[c]
             /\ reply' = [kind |-> "similar",
                          is |-> Similar!Hits(question.asked, b, question.request)]
    /\ UNCHANGED question

Next == AnswerSearch \/ RefuseSimilar \/ AnswerSimilar

Spec == Init /\ [][Next]_vars

-----------------------------------------------------------------------------
\* The answer to a search leaves nothing out that it has room for (SearchRanking).
AnswersComplete ==
    reply.kind = "search" =>
        Search!Complete(question.setup, question.indexes, question.request, reply.is)

\* A copy of the document leads the answer of `similar` (Similar).
CopiesLead ==
    reply.kind = "similar" => Similar!CopiesFirst(question.asked, question.request, reply.is)
=============================================================================
