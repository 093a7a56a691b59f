------------------------------- MODULE MCWatchLoop -------------------------------
(***************************************************************************)
(* Small instances of WatchLoop.                                            *)
(***************************************************************************)
EXTENDS WatchLoop

CONSTANTS p1, p2, p3

TwoPaths   == {p1, p2}
ThreePaths == {p1, p2, p3}

\* p1 is below the least priority the database takes, p2 the lowest above it
Graded   == [p \in Paths |-> CASE p = p1 -> 0 [] p = p2 -> 1 [] OTHER -> 2]
Ranked   == [p \in Paths |-> CASE p = p1 -> 1 [] p = p2 -> 2 [] OTHER -> 3]
=============================================================================
