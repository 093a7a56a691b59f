---------------------------- MODULE MCDaemonLifecycle ----------------------------
(***************************************************************************)
(* Small instances of DaemonLifecycle.                                      *)
(***************************************************************************)
EXTENDS DaemonLifecycle, TLC

CONSTANTS p1, p2, p3, c1, c2

TwoPids   == {p1, p2}
ThreePids == {p1, p2, p3}
OneClient  == {c1}
TwoClients == {c1, c2}

Background == {"start", "stop", "status", "clear"}
Everything == AllCommands
NoFaults   == {}

PidSymmetry == Permutations(Pids)
AllSymmetry == Permutations(Pids) \cup Permutations(Clients)
=============================================================================
