-------------------------------- MODULE WksHome --------------------------------
(***************************************************************************)
(* Two files of a WKS home that many processes read, change and write anew  *)
(* as a whole: the log, in place, and the configuration, through a          *)
(* temporary file.  They have nothing to do with each other, so a behaviour *)
(* has the traffic on one of them; every property is of one file.           *)
(***************************************************************************)
EXTENDS LogFile, ConfigFile

VARIABLE busy   \* which of the two files

vars == <<logVars, configVars, busy>>

Init == LogInit /\ ConfigInit /\ busy \in {"log", "config"}

Next ==
    \/ busy = "log" /\ LogNext /\ UNCHANGED <<configVars, busy>>
    \/ busy = "config" /\ ConfigNext /\ UNCHANGED <<logVars, busy>>

\* The daemon comes round, and a rewriting that has begun is finished.
Fairness ==
    /\ WF_vars(busy = "log" /\ (DaemonRound \/ Rewrite(Daemon)) /\ UNCHANGED <<configVars, busy>>)
    /\ \A c \in LogClients :
         WF_vars(busy = "log" /\ (Rewrite(c) \/ ClearWipes(c)) /\ UNCHANGED <<configVars, busy>>)

Spec == Init /\ [][Next]_vars /\ Fairness

TypeOK == LogTypeOK /\ ConfigTypeOK /\ busy \in {"log", "config"}
=============================================================================
