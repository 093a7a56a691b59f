------------------------------- MODULE MCService -------------------------------
(***************************************************************************)
(* Small instances of Service.                                              *)
(***************************************************************************)
EXTENDS Service

CONSTANTS p1, p2

TwoPids == {p1, p2}

KeptOn(system) == [system |-> system, keeps |-> TRUE, atLoad |-> TRUE]
\* Both managers with the service always on, and a launchd job that is loaded only.
AllSetups == {KeptOn("linux"), KeptOn("darwin"),
              [system |-> "darwin", keeps |-> FALSE, atLoad |-> FALSE]}
=============================================================================
