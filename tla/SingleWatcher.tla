------------------------------ MODULE SingleWatcher ------------------------------
(***************************************************************************)
(* What `wksc daemon start/stop` promises, without lock files, status       *)
(* files, signals or pid checks: at any moment at most one daemon process   *)
(* serves; a daemon that was told to stop, or that failed, is leaving, does *)
(* not come back, and is gone in the end.  A new daemon may start while an  *)
(* old one is still leaving.                                                *)
(***************************************************************************)
CONSTANT Pids

VARIABLES serving,   \* the daemon that watches the file system: {} or {p}
          leaving    \* the daemons that still run but only to finish

vars == <<serving, leaving>>

Init == serving = {} /\ leaving = {}

Start(p) ==
    /\ serving = {}
    /\ p \notin leaving
    /\ serving' = {p}
    /\ UNCHANGED leaving

\* The daemon is told to stop, or gives up by itself: it has work to finish.
Dismiss(p) ==
    /\ p \in serving
    /\ serving' = serving \ {p}
    /\ leaving' = leaving \cup {p}

\* The daemon dies at once (killed, crashed, or failed before it had begun).
Die(p) ==
    /\ p \in serving
    /\ serving' = serving \ {p}
    /\ UNCHANGED leaving

Leave(p) ==
    /\ p \in leaving
    /\ leaving' = leaving \ {p}
    /\ UNCHANGED serving

Next == \E p \in Pids : Start(p) \/ Dismiss(p) \/ Die(p) \/ Leave(p)

Safety == Init /\ [][Next]_vars

Spec == Safety /\ \A p \in Pids : WF_vars(Leave(p))
=============================================================================
