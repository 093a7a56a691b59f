------------------------------- MODULE MCLinkGraph -------------------------------
(* Two documents, three places, a note in the vault and a note outside it. *)
EXTENDS LinkGraph, TLC

CONSTANTS d1, d2, p1, p2, p3, inside, outside

TwoDocs   == {d1, d2}
ThreeDirs == {p1, p2, p3}
TwoNotes  == {inside, outside}
SomeLinks == {<<inside, d1>>, <<inside, d2>>, <<outside, d1>>}
Apart     == (d1 :> p1) @@ (d2 :> p2)
=============================================================================
