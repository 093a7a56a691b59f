------------------------------ MODULE LocalMongod ------------------------------
(***************************************************************************)
(* The local mongod.  Every process that needs a collection opens a block   *)
(* `with Database(...)`.  With database.data.local the block first tries    *)
(* the port; if nobody answers it starts a mongod of its own, and whoever   *)
(* has started one stops it at the end of the block, whether or not others  *)
(* use it.  Two mongods cannot hold one port and one data directory.        *)
(*                                                                         *)
(* Source: src/wks/api/database/_mongo/_Backend.py.                         *)
(***************************************************************************)
EXTENDS Naturals

CONSTANTS Users,    \* the processes that open blocks
          Nobody,   \* the starter of a mongod whose starter is not here (any more)
          Slow      \* may a mongod take longer than those who wait for it?

ASSUME UsersAssumption == Nobody \notin Users /\ Slow \in BOOLEAN

VARIABLES pc,      \* [Users -> where in its block a process is]
          own,     \* [Users -> its _mongod_proc]
          server,  \* the mongod that holds the port, and who started it
          strays,  \* mongods that are still booting, and whose starter has gone
          alone,   \* auxiliary: users whose block nothing else has come near
          failed,  \* auxiliary: users whose last block has raised an error
          astray   \* auxiliary: a starter has gone without stopping its mongod

mongod == <<pc, own, server, strays, alone, failed, astray>>

Free      == [state |-> "free", by |-> Nobody]
Answering == server.state = "up"                        \* _can_connect
Outside   == {u \in Users : pc[u] = "out"}

MongodInit ==
    /\ pc = [u \in Users |-> "out"]
    /\ own = [u \in Users |-> "none"]
    /\ server \in {Free, [state |-> "up", by |-> Nobody]}
    /\ strays = 0
    /\ alone = {} /\ failed = {}
    /\ astray = Answering

-----------------------------------------------------------------------------
(* __enter__ *)

\* Nobody in a block, no mongod that boots or shuts down without its starter.
Quiet == Outside = Users /\ strays = 0 /\ server.state # "stopping"

\* Mutant: the block takes it that a mongod runs.
EnterTrusts(u) ==
    /\ pc[u] = "out"
    /\ pc' = [pc EXCEPT ![u] = "connect"]
    /\ alone' = IF Quiet THEN {u} ELSE {}
    /\ failed' = failed \ {u}
    /\ UNCHANGED <<own, server, strays, astray>>

\* The block begins: does the port answer?
Enter(u) ==
    /\ pc[u] = "out"
    /\ pc' = [pc EXCEPT ![u] = IF Answering THEN "connect" ELSE "spawn"]
    /\ alone' = IF Quiet THEN {u} ELSE {}
    /\ failed' = failed \ {u}
    /\ UNCHANGED <<own, server, strays, astray>>

\* Popen.  _started_local is "own is not none".
Spawn(u) ==
    /\ pc[u] = "spawn"
    /\ pc' = [pc EXCEPT ![u] = "wait"]
    /\ own' = [own EXCEPT ![u] = "booting"]
    /\ UNCHANGED <<server, strays, alone, failed, astray>>

\* __enter__ raises: nobody calls __exit__, and a mongod of u's own goes on.
Raise(u) ==
    /\ pc' = [pc EXCEPT ![u] = "out"]
    /\ own' = [own EXCEPT ![u] = "none"]
    /\ failed' = failed \cup {u}
    /\ strays' = IF own[u] = "booting" THEN strays + 1 ELSE strays
    /\ server' = IF own[u] = "serving" THEN [server EXCEPT !.by = Nobody] ELSE server
    /\ astray' = (astray \/ own[u] \in {"booting", "serving"})

\* One round of the wait: first the process, then the port.
Poll(u) ==
    /\ pc[u] = "wait"
    /\ \/ own[u] = "exited" /\ Raise(u) /\ UNCHANGED alone
       \/ /\ own[u] # "exited" /\ Answering
          /\ pc' = [pc EXCEPT ![u] = "connect"]
          /\ UNCHANGED <<own, server, strays, alone, failed, astray>>

\* After 50 rounds the wait is given up.
GiveUp(u) ==
    /\ Slow
    /\ pc[u] = "wait" /\ own[u] = "booting" /\ ~Answering
    /\ Raise(u)
    /\ alone' = alone \ {u}

\* MongoClient(...).server_info() looks for a server for five seconds.
Connect(u) ==
    /\ pc[u] = "connect"
    /\ \/ Answering /\ pc' = [pc EXCEPT ![u] = "inside"]
                    /\ UNCHANGED <<own, server, strays, alone, failed, astray>>
       \/ ~Answering /\ (own[u] = "booting" => Slow)
                     /\ Raise(u) /\ alone' = (IF own[u] = "booting" THEN alone \ {u} ELSE alone)

-----------------------------------------------------------------------------
(* The body, and __exit__ *)

\* terminate() the mongod that u has started, if it is still there.
Terminated(u) == IF own[u] = "serving" THEN [server EXCEPT !.state = "stopping"] ELSE server

\* Mutant: the mongod is left to whoever needs it next.
ExitKeeps(u, ok) ==
    /\ pc' = [pc EXCEPT ![u] = "out"]
    /\ own' = [own EXCEPT ![u] = "none"]
    /\ server' = IF own[u] = "serving" THEN [server EXCEPT !.by = Nobody] ELSE server
    /\ failed' = IF ok THEN failed ELSE failed \cup {u}
    /\ UNCHANGED <<strays, alone, astray>>

\* __exit__: a mongod that still boots dies of the signal at once.
Exit(u, ok) ==
    /\ pc' = [pc EXCEPT ![u] = IF own[u] = "serving" THEN "stopping" ELSE "out"]
    /\ own' = [own EXCEPT ![u] = IF @ = "serving" THEN @ ELSE "none"]
    /\ server' = Terminated(u)
    /\ failed' = IF ok THEN failed ELSE failed \cup {u}
    /\ UNCHANGED <<strays, alone, astray>>

\* The operations of the body all succeed, or one finds no server.
Leave(u)   == pc[u] = "inside" /\ Answering /\ Exit(u, TRUE)
CutOff(u)  == pc[u] = "inside" /\ ~Answering /\ Exit(u, FALSE)

\* wait(timeout=5), an exception of which is suppressed.
Stopped(u) ==
    /\ pc[u] = "stopping"
    /\ own[u] = "exited" \/ Slow
    /\ pc' = [pc EXCEPT ![u] = "out"]
    /\ own' = [own EXCEPT ![u] = "none"]
    /\ server' = IF own[u] = "exited" THEN server ELSE [server EXCEPT !.by = Nobody]
    /\ UNCHANGED <<strays, alone, failed, astray>>

\* The process dies inside its block: __exit__ does not run.
Die(u) ==
    /\ pc' = [pc EXCEPT ![u] = "out"]
    /\ own' = [own EXCEPT ![u] = "none"]
    /\ strays' = IF own[u] = "booting" THEN strays + 1 ELSE strays
    /\ server' = IF own[u] = "serving" THEN [server EXCEPT !.by = Nobody] ELSE server
    /\ astray' = (astray \/ own[u] \in {"booting", "serving"})
    /\ alone' = alone \ {u}
    /\ UNCHANGED failed

-----------------------------------------------------------------------------
(* mongod *)

\* A mongod that has booted takes the port, or exits with 48 or 100.
Booted(u) ==
    /\ own[u] = "booting"
    /\ IF server = Free
         THEN /\ own' = [own EXCEPT ![u] = "serving"]
              /\ server' = [state |-> "up", by |-> u]
         ELSE own' = [own EXCEPT ![u] = "exited"] /\ UNCHANGED server
    /\ UNCHANGED <<pc, strays, alone, failed, astray>>

StrayBooted ==
    /\ strays > 0
    /\ strays' = strays - 1
    /\ server' = IF server = Free THEN [state |-> "up", by |-> Nobody] ELSE server
    /\ UNCHANGED <<pc, own, alone, failed, astray>>

\* A mongod that has been told to stop is gone.
ShutDown ==
    /\ server.state = "stopping"
    /\ server' = Free
    /\ own' = IF server.by = Nobody THEN own ELSE [own EXCEPT ![server.by] = "exited"]
    /\ UNCHANGED <<pc, strays, alone, failed, astray>>

Mongod == (\E u \in Users : Booted(u)) \/ StrayBooted \/ ShutDown

\* What a process does by itself once its block has begun.
Block(u) ==
    Spawn(u) \/ Poll(u) \/ GiveUp(u) \/ Connect(u) \/ Leave(u) \/ CutOff(u) \/ Stopped(u)

-----------------------------------------------------------------------------
MongodTypeOK ==
    /\ pc \in [Users -> {"out", "spawn", "wait", "connect", "inside", "stopping"}]
    /\ own \in [Users -> {"none", "booting", "serving", "exited"}]
    /\ server \in [state : {"free", "up", "stopping"}, by : Users \cup {Nobody}]
    /\ strays \in Nat
    /\ alone \subseteq Users /\ failed \subseteq Users
    /\ astray \in BOOLEAN

\* A block that nothing else has come near does not fail for want of a server.
AloneIsServed == alone \cap failed = {}

\* When everybody has left no mongod stays, unless its starter was killed or had
\* given up waiting for it (or the mongod was never ours).
NoServerLeft == Outside = Users /\ ~astray => server.state # "up" /\ strays = 0
=============================================================================
