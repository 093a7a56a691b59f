---------------------------- MODULE MCIndexStore ----------------------------
(* Two documents, a text that leaves no chunk and two that leave one. *)
EXTENDS IndexStore, TLC

CONSTANTS d1, d2, blank, t1, t2, term, daemon, none

MCDocs    == {d1, d2}
MCTexts   == {blank, t1, t2}
Indexed   == (d1 :> t1) @@ (d2 :> t1)
MCClients == {term}
MCRanks   == {2}
Symmetric == Permutations(MCDocs)
=============================================================================
