---------------------------- MODULE McpStackProofs ----------------------------
(***************************************************************************)
(* What McpStack and the LocalMongod in it guarantee for all sets of        *)
(* proxies, sessions and other processes, and any number of moves.          *)
(***************************************************************************)
EXTENDS McpStack, TLAPS

-----------------------------------------------------------------------------
(* The local mongod, whoever uses it *)

\* The mongod at the port has its starter, as far as that has not left it.
StarterKnown ==
    /\ server.state = "free" => server.by = Nobody
    /\ \A u \in Users : own[u] = "serving" => server.by = u
    /\ server.by # Nobody => own[server.by] = "serving"
    /\ \A u \in Users : own[u] = "serving" /\ pc[u] # "stopping" => server.state = "up"
    /\ \A u \in Users : own[u] = "serving" /\ pc[u] = "stopping" => server.state = "stopping"

\* What a process in its block has of a mongod.
OwnFollows ==
    \A u \in Users :
      /\ pc[u] \in {"out", "spawn"} => own[u] = "none"
      /\ pc[u] = "wait" => own[u] # "none"
      /\ pc[u] = "stopping" => own[u] \in {"serving", "exited"}

\* Only a starter that has left its mongod leaves one without a starter.
AstrayTold == astray \/ (strays = 0 /\ (server.state = "up" => server.by # Nobody))

\* A block that nothing else has come near: nobody else is in one, and the mongod it
\* has found or has started is there when the block looks for it.
AloneInPeace ==
    \A u \in alone :
      /\ u \notin failed
      /\ pc[u] # "out" => strays = 0 /\ \A v \in Users \ {u} : pc[v] = "out"
      /\ pc[u] = "spawn" \/ own[u] = "booting" => server = Free
      /\ pc[u] = "wait" => own[u] # "exited"
      /\ pc[u] \in {"connect", "inside"} => Answering /\ own[u] \in {"none", "serving"}

MongodInv == MongodTypeOK /\ StarterKnown /\ OwnFollows /\ AstrayTold /\ AloneInPeace

\* Every step of the composition is one of these for the database.
MongodStep ==
    \/ \E u \in Users : Enter(u) \/ Block(u) \/ (pc[u] # "out" /\ Die(u))
    \/ Mongod

LEMMA MongodInitially == ASSUME MongodInit PROVE MongodInv
<1> USE UsersAssumption DEF MongodInit, Free, Answering
<1>1. MongodTypeOK
  BY DEF MongodTypeOK
<1>2. StarterKnown /\ OwnFollows
  BY DEF StarterKnown, OwnFollows
<1>3. AstrayTold
  <2>1. CASE server.state = "up"
    BY <2>1 DEF AstrayTold
  <2>2. CASE server.state # "up"
    BY <2>2 DEF AstrayTold
  <2> QED
    BY <2>1, <2>2
<1>4. AloneInPeace
  BY DEF AloneInPeace
<1> QED
  BY <1>1, <1>2, <1>3, <1>4 DEF MongodInv

LEMMA EnterKeeps == ASSUME MongodInv, NEW u \in Users, Enter(u) PROVE MongodInv'
<1> USE UsersAssumption DEF MongodInv
<1>1. MongodTypeOK'
  BY DEF MongodTypeOK, Enter
<1>2. StarterKnown' /\ OwnFollows' /\ AstrayTold'
  BY DEF MongodTypeOK, Enter, StarterKnown, OwnFollows, AstrayTold
<1>3. AloneInPeace'
  BY DEF MongodTypeOK, Enter, StarterKnown, OwnFollows, AloneInPeace, Quiet, Outside,
         Answering, Free
<1> QED
  BY <1>1, <1>2, <1>3

\* A process leaves its block without __exit__, since that or __enter__ was cut short.
Abandons(u) ==
    /\ pc' = [pc EXCEPT ![u] = "out"]
    /\ own' = [own EXCEPT ![u] = "none"]
    /\ strays' = IF own[u] = "booting" THEN strays + 1 ELSE strays
    /\ server' = IF own[u] = "serving" THEN [server EXCEPT !.by = Nobody] ELSE server
    /\ astray' = (astray \/ own[u] \in {"booting", "serving"})

LEMMA AbandonedKeeps ==
  ASSUME MongodTypeOK, StarterKnown, OwnFollows, AstrayTold, NEW u \in Users, Abandons(u)
  PROVE  StarterKnown' /\ OwnFollows' /\ AstrayTold'
<1> USE UsersAssumption DEF MongodTypeOK, Abandons
<1>1. CASE own[u] = "serving"
  <2>1. server' = [state |-> server.state, by |-> Nobody]
    BY <1>1
  <2>2. StarterKnown'
    BY <1>1, <2>1 DEF StarterKnown
  <2>3. OwnFollows'
    BY DEF OwnFollows
  <2>4. astray'
    BY <1>1
  <2> QED
    BY <2>2, <2>3, <2>4 DEF AstrayTold
<1>2. CASE own[u] = "booting"
  <2>1. server' = server
    BY <1>2
  <2>2. StarterKnown'
    BY <1>2, <2>1 DEF StarterKnown
  <2>3. OwnFollows'
    BY DEF OwnFollows
  <2>4. astray'
    BY <1>2
  <2> QED
    BY <2>2, <2>3, <2>4 DEF AstrayTold
<1>3. CASE own[u] \in {"none", "exited"}
  <2>1. server' = server /\ strays' = strays
    BY <1>3
  <2>2. StarterKnown'
    BY <1>3, <2>1 DEF StarterKnown
  <2>3. OwnFollows'
    BY DEF OwnFollows
  <2>4. CASE astray
    BY <2>2, <2>3, <2>4 DEF AstrayTold
  <2>5. CASE ~astray
    BY <2>1, <2>2, <2>3, <2>5 DEF AstrayTold
  <2> QED
    BY <2>4, <2>5
<1> QED
  BY <1>1, <1>2, <1>3

LEMMA DieKeeps ==
  ASSUME MongodInv, NEW u \in Users, pc[u] # "out", Die(u) PROVE MongodInv'
<1> USE UsersAssumption DEF MongodInv
<1>1. MongodTypeOK'
  BY DEF MongodTypeOK, Die
<1>2. StarterKnown' /\ OwnFollows' /\ AstrayTold'
  BY AbandonedKeeps DEF Die, Abandons
<1>3. AloneInPeace'
  BY DEF MongodTypeOK, Die, OwnFollows, AloneInPeace, Answering, Free
<1> QED
  BY <1>1, <1>2, <1>3

LEMMA WaitKeeps ==
  ASSUME MongodInv, NEW u \in Users, Spawn(u) \/ Poll(u) \/ GiveUp(u) PROVE MongodInv'
<1> USE UsersAssumption DEF MongodInv
<1>1. CASE Spawn(u)
  <2>1. MongodTypeOK'
    BY <1>1 DEF MongodTypeOK, Spawn
  <2>2. StarterKnown' /\ OwnFollows' /\ AstrayTold'
    BY <1>1 DEF MongodTypeOK, Spawn, StarterKnown, OwnFollows, AstrayTold
  <2>3. AloneInPeace'
    BY <1>1 DEF MongodTypeOK, Spawn, OwnFollows, AloneInPeace, Answering, Free
  <2> QED
    BY <2>1, <2>2, <2>3
<1>2. CASE pc[u] = "wait" /\ own[u] # "exited" /\ Answering /\ Poll(u)
  <2> USE <1>2 DEF Poll
  <2>1. MongodTypeOK'
    BY DEF MongodTypeOK
  <2>2. StarterKnown' /\ OwnFollows' /\ AstrayTold'
    BY DEF MongodTypeOK, StarterKnown, OwnFollows, AstrayTold
  <2>3. AloneInPeace'
    BY DEF MongodTypeOK, OwnFollows, AloneInPeace, Answering, Free
  <2> QED
    BY <2>1, <2>2, <2>3
<1>3. CASE pc[u] = "wait" /\ own[u] = "exited" /\ Raise(u) /\ UNCHANGED alone
  <2>1. u \notin alone
    BY <1>3 DEF AloneInPeace
  <2>2. MongodTypeOK'
    BY <1>3 DEF MongodTypeOK, Raise
  <2>3. StarterKnown' /\ OwnFollows' /\ AstrayTold'
    BY <1>3, AbandonedKeeps DEF Raise, Abandons
  <2>4. AloneInPeace'
    BY <1>3, <2>1 DEF MongodTypeOK, Raise, OwnFollows, AloneInPeace, Answering, Free
  <2> QED
    BY <2>2, <2>3, <2>4
<1>4. CASE GiveUp(u)
  <2>1. MongodTypeOK'
    BY <1>4 DEF MongodTypeOK, GiveUp, Raise
  <2>2. StarterKnown' /\ OwnFollows' /\ AstrayTold'
    BY <1>4, AbandonedKeeps DEF GiveUp, Raise, Abandons
  <2>3. AloneInPeace'
    BY <1>4 DEF MongodTypeOK, GiveUp, Raise, OwnFollows, AloneInPeace, Answering, Free
  <2> QED
    BY <2>1, <2>2, <2>3
<1> QED
  BY <1>1, <1>2, <1>3, <1>4 DEF Poll

LEMMA ConnectKeeps ==
  ASSUME MongodInv, NEW u \in Users, Connect(u) PROVE MongodInv'
<1> USE UsersAssumption DEF MongodInv
<1>1. CASE Answering
  <2>1. pc[u] = "connect" /\ pc' = [pc EXCEPT ![u] = "inside"]
        /\ UNCHANGED <<own, server, strays, alone, failed, astray>>
    BY <1>1 DEF Connect
  <2>2. MongodTypeOK'
    BY <2>1 DEF MongodTypeOK
  <2>3. StarterKnown' /\ OwnFollows' /\ AstrayTold'
    BY <2>1 DEF MongodTypeOK, StarterKnown, OwnFollows, AstrayTold
  <2>4. AloneInPeace'
    BY <2>1 DEF MongodTypeOK, OwnFollows, AloneInPeace, Answering, Free
  <2> QED
    BY <2>2, <2>3, <2>4
<1>2. CASE ~Answering
  <2>1. pc[u] = "connect" /\ Raise(u) /\ alone' \subseteq alone
    BY <1>2 DEF Connect
  <2>2. u \notin alone
    BY <1>2, <2>1 DEF AloneInPeace
  <2>3. MongodTypeOK'
    BY <2>1 DEF MongodTypeOK, Raise
  <2>4. StarterKnown' /\ OwnFollows' /\ AstrayTold'
    BY <2>1, AbandonedKeeps DEF Raise, Abandons
  <2>5. AloneInPeace'
    BY <2>1, <2>2 DEF MongodTypeOK, Raise, OwnFollows, AloneInPeace, Answering, Free
  <2> QED
    BY <2>3, <2>4, <2>5
<1> QED
  BY <1>1, <1>2

\* __exit__ at the end of the body: the user is alone only if the port still answers.
LEMMA LeaveKeeps ==
  ASSUME MongodInv, NEW u \in Users, Leave(u) \/ CutOff(u) PROVE MongodInv'
<1> USE UsersAssumption DEF MongodInv
<1>1. PICK ok \in BOOLEAN : pc[u] = "inside" /\ Exit(u, ok) /\ (ok <=> Answering)
  BY DEF Leave, CutOff
<1>2. u \in alone => ok
  BY <1>1 DEF AloneInPeace
<1>3. MongodTypeOK'
  BY <1>1 DEF MongodTypeOK, Exit, Terminated
<1>4. CASE own[u] = "serving"
  <2>1. /\ pc' = [pc EXCEPT ![u] = "stopping"]
        /\ own' = own
        /\ server' = [state |-> "stopping", by |-> u]
        /\ UNCHANGED <<strays, alone, astray>>
        /\ failed' \subseteq failed \cup {u}
    BY <1>1, <1>4 DEF Exit, Terminated, MongodTypeOK, StarterKnown
  <2>2. u \in alone => failed' = failed
    BY <1>1, <1>2 DEF Exit
  <2>3. StarterKnown' /\ OwnFollows' /\ AstrayTold'
    BY <1>1, <1>4, <2>1 DEF MongodTypeOK, StarterKnown, OwnFollows, AstrayTold
  <2>4. AloneInPeace'
    BY <1>1, <1>4, <2>1, <2>2 DEF MongodTypeOK, OwnFollows, AloneInPeace, Answering, Free
  <2> QED
    BY <1>3, <2>3, <2>4
<1>5. CASE own[u] # "serving"
  <2>1. /\ pc' = [pc EXCEPT ![u] = "out"]
        /\ own' = [own EXCEPT ![u] = "none"]
        /\ server' = server
        /\ UNCHANGED <<strays, alone, astray>>
        /\ failed' \subseteq failed \cup {u}
    BY <1>1, <1>5 DEF Exit, Terminated, MongodTypeOK
  <2>2. u \in alone => failed' = failed
    BY <1>1, <1>2 DEF Exit
  <2>3. StarterKnown' /\ OwnFollows' /\ AstrayTold'
    BY <1>1, <1>5, <2>1 DEF MongodTypeOK, StarterKnown, OwnFollows, AstrayTold
  <2>4. AloneInPeace'
    BY <1>1, <1>5, <2>1, <2>2 DEF MongodTypeOK, OwnFollows, AloneInPeace, Answering, Free
  <2> QED
    BY <1>3, <2>3, <2>4
<1> QED
  BY <1>4, <1>5

LEMMA StoppedKeeps ==
  ASSUME MongodInv, NEW u \in Users, Stopped(u) PROVE MongodInv'
<1> USE UsersAssumption DEF MongodInv
<1>1. MongodTypeOK'
  BY DEF MongodTypeOK, Stopped
<1>2. CASE own[u] = "exited"
  <2>1. server' = server
    BY <1>2 DEF Stopped
  <2>2. StarterKnown' /\ OwnFollows' /\ AstrayTold'
    BY <1>2, <2>1 DEF Stopped, MongodTypeOK, StarterKnown, OwnFollows, AstrayTold
  <2>3. AloneInPeace'
    BY <1>2, <2>1 DEF Stopped, MongodTypeOK, OwnFollows, AloneInPeace, Answering, Free
  <2> QED
    BY <1>1, <2>2, <2>3
<1>3. CASE own[u] = "serving"
  <2>1. server' = [state |-> "stopping", by |-> Nobody]
    BY <1>3 DEF Stopped, MongodTypeOK, StarterKnown
  <2>2. StarterKnown' /\ OwnFollows' /\ AstrayTold'
    BY <1>3, <2>1 DEF Stopped, MongodTypeOK, StarterKnown, OwnFollows, AstrayTold
  <2>3. AloneInPeace'
    BY <1>3, <2>1 DEF Stopped, MongodTypeOK, OwnFollows, AloneInPeace, Answering, Free
  <2> QED
    BY <1>1, <2>2, <2>3
<1> QED
  BY <1>2, <1>3 DEF Stopped, OwnFollows

LEMMA MongodMoves == ASSUME MongodInv, Mongod PROVE MongodInv'
<1> USE UsersAssumption DEF MongodInv
<1>1. ASSUME NEW u \in Users, Booted(u), server = Free PROVE MongodInv'
  <2>1. /\ own' = [own EXCEPT ![u] = "serving"]
        /\ server' = [state |-> "up", by |-> u]
        /\ UNCHANGED <<pc, strays, alone, failed, astray>>
        /\ own[u] = "booting"
    BY <1>1 DEF Booted
  <2>2. MongodTypeOK'
    BY <2>1 DEF MongodTypeOK
  <2>3. StarterKnown' /\ OwnFollows' /\ AstrayTold'
    BY <1>1, <2>1 DEF MongodTypeOK, StarterKnown, OwnFollows, AstrayTold, Free
  <2>4. AloneInPeace'
    BY <1>1, <2>1 DEF MongodTypeOK, OwnFollows, AloneInPeace, Answering, Free
  <2> QED
    BY <2>2, <2>3, <2>4
<1>2. ASSUME NEW u \in Users, Booted(u), server # Free PROVE MongodInv'
  <2>1. /\ own' = [own EXCEPT ![u] = "exited"]
        /\ UNCHANGED <<server, pc, strays, alone, failed, astray>>
        /\ own[u] = "booting"
    BY <1>2 DEF Booted
  <2>2. MongodTypeOK'
    BY <2>1 DEF MongodTypeOK
  <2>3. StarterKnown' /\ OwnFollows' /\ AstrayTold'
    BY <2>1 DEF MongodTypeOK, StarterKnown, OwnFollows, AstrayTold
  <2>4. AloneInPeace'
    BY <1>2, <2>1 DEF MongodTypeOK, OwnFollows, AloneInPeace, Answering, Free
  <2> QED
    BY <2>2, <2>3, <2>4
<1>3. CASE StrayBooted
  <2>1. MongodTypeOK'
    BY <1>3 DEF StrayBooted, MongodTypeOK
  <2>2. astray /\ UNCHANGED astray
    BY <1>3 DEF StrayBooted, MongodTypeOK, AstrayTold
  <2>3. StarterKnown' /\ OwnFollows'
    BY <1>3 DEF StrayBooted, MongodTypeOK, StarterKnown, OwnFollows, Free
  <2>4. AstrayTold'
    BY <2>2 DEF AstrayTold
  <2>5. AloneInPeace'
    BY <1>3 DEF StrayBooted, MongodTypeOK, OwnFollows, AloneInPeace, Answering, Free
  <2> QED
    BY <2>1, <2>3, <2>4, <2>5
<1>4. CASE ShutDown
  <2>1. /\ server.state = "stopping" /\ server' = Free
        /\ UNCHANGED <<pc, strays, alone, failed, astray>>
    BY <1>4 DEF ShutDown
  <2>2. \/ server.by = Nobody /\ own' = own
        \/ server.by \in Users /\ own' = [own EXCEPT ![server.by] = "exited"]
    BY <1>4 DEF ShutDown, MongodTypeOK
  <2>3. MongodTypeOK'
    BY <2>1, <2>2 DEF MongodTypeOK, Free
  <2>4. StarterKnown' /\ OwnFollows' /\ AstrayTold'
    BY <2>1, <2>2 DEF MongodTypeOK, StarterKnown, OwnFollows, AstrayTold, Free
  <2>5. AloneInPeace'
    BY <2>1, <2>2 DEF MongodTypeOK, StarterKnown, OwnFollows, AloneInPeace, Answering, Free
  <2> QED
    BY <2>3, <2>4, <2>5
<1> QED
  BY <1>1, <1>2, <1>3, <1>4 DEF Mongod

LEMMA MongodStepKeeps == ASSUME MongodInv, MongodStep PROVE MongodInv'
<1>1. ASSUME NEW u \in Users, Block(u) PROVE MongodInv'
  BY <1>1, WaitKeeps, ConnectKeeps, LeaveKeeps, StoppedKeeps DEF Block
<1> QED
  BY <1>1, EnterKeeps, DieKeeps, MongodMoves DEF MongodStep

LEMMA MongodStutter == ASSUME MongodInv, UNCHANGED mongod PROVE MongodInv'
  BY DEF mongod, MongodInv, MongodTypeOK, StarterKnown, OwnFollows, AstrayTold, AloneInPeace,
     Answering, Free

LEMMA StackStep == ASSUME [Next]_vars PROVE MongodStep \/ UNCHANGED mongod
<1> USE StackAssumption
<1>1. ASSUME NEW ACTION step, WithKills(step) PROVE MongodStep \/ UNCHANGED mongod
  BY <1>1 DEF WithKills, Dead, MongodStep
<1>2. CASE Environment
  BY <1>2 DEF Environment, OtherMoves, MongodStep
<1>3. CASE Runtime
  <2>1. ASSUME NEW p \in Proxies, ProxyRuns(p) PROVE MongodStep \/ UNCHANGED mongod
    BY <1>1, <2>1 DEF ProxyRuns
  <2>2. ASSUME NEW s \in Sessions, Handles(s) PROVE MongodStep \/ UNCHANGED mongod
    BY <1>1, <2>2 DEF Handles
  <2>3. ASSUME NEW s \in Sessions, Serves(s) PROVE MongodStep \/ UNCHANGED mongod
    BY <2>3 DEF Serves, Calls, MongodStep
  <2>4. ASSUME NEW s \in Sessions, WithKills(Cancelled(s)) PROVE MongodStep \/ UNCHANGED mongod
    BY <1>1, <2>4
  <2>5. ASSUME NEW u \in Users, Works(u) PROVE MongodStep \/ UNCHANGED mongod
    BY <2>5 DEF Works, MongodStep
  <2>6. CASE Mongod /\ UNCHANGED proxyVars
    BY <2>6 DEF MongodStep
  <2> QED
    BY <1>3, <2>1, <2>2, <2>3, <2>4, <2>5, <2>6 DEF Runtime, StopsOn
<1> QED
  BY <1>2, <1>3 DEF Next, vars

LEMMA MongodInvariant == Spec => []MongodInv
<1>1. Init => MongodInv
  BY MongodInitially DEF Init
<1>2. MongodInv /\ [Next]_vars => MongodInv'
  BY MongodStepKeeps, MongodStutter, StackStep
<1> QED
  BY <1>1, <1>2, PTL DEF Spec

\* A database block that no other process, no death and no slow start has come near
\* finds a server: whoever else uses the database before and after.
THEOREM AloneServed == Spec => []AloneIsServed
<1>1. MongodInv => AloneIsServed
  BY DEF MongodInv, AloneInPeace, AloneIsServed
<1> QED
  BY <1>1, MongodInvariant, PTL

\* When every block has been left, no mongod of theirs runs or boots any more, unless
\* one was left without its __exit__.
THEOREM NoServerStays == Spec => []NoServerLeft
<1>1. MongodInv => NoServerLeft
  BY UsersAssumption DEF MongodInv, MongodTypeOK, StarterKnown, OwnFollows, AstrayTold,
     NoServerLeft, Outside
<1> QED
  BY <1>1, MongodInvariant, PTL

-----------------------------------------------------------------------------
(* The proxy *)

ProxyTypes ==
    /\ proxy \in [Proxies -> {"none", "spawned", "named", "serving", "closing",
                              "cancelling", "last", "gone"}]
    /\ pidFile \in Proxies \cup {NoPid}
    /\ command \in [kind : {"none", "kill", "remove"}, pid : Proxies \cup {NoPid}]
    /\ session \in [Sessions -> [at : {"none", "spawn", "register", "endpoint", "relay",
                                       "cleanup", "wait", "broken", "done"},
                                 of : Proxies \cup {NoPid}, client : BOOLEAN]]
    /\ listed \subseteq Sessions
    /\ child \in [Sessions -> {"none", "idle", "busy", "exited", "reaped"}]
    /\ stdin \in [Sessions -> Seq({"call", "note", "garbage"})]
    /\ answers \in [Sessions -> Nat] /\ spoken \in [Sessions -> Nat]
    /\ ending \in [Proxies -> [todo : SUBSET Sessions, on : SUBSET Sessions]]
    /\ moves \in 0..MaxMoves
    /\ unnamed \subseteq Proxies

\* A stop that has signalled a proxy removes the file when that serves no more.
CommandKnows ==
    /\ command.kind # "none" => command.pid \in Proxies /\ proxy[command.pid] # "none"
    /\ command.kind = "remove" =>
         proxy[command.pid] \notin {"none", "spawned", "named", "serving"}

\* The pid file names a proxy from the moment it has written it, not only from the
\* moment it serves.
NamedSinceWritten ==
    \A p \in Proxies : proxy[p] \in {"named", "serving"} => pidFile = p \/ p \in unnamed

\* A session has no server before its handler has started one.
FreshHasNoServer ==
    \A s \in Sessions : session[s].at \in {"none", "spawn"} => child[s] = "none"

\* c counts the calls among the lines of a pipe, from each of them to the last.
CallsFrom(c, lines) ==
    /\ c \in [1..(Len(lines) + 1) -> Nat]
    /\ c[Len(lines) + 1] = 0
    /\ \A i \in 1..Len(lines) : c[i] = c[i + 1] + IF lines[i] = "call" THEN 1 ELSE 0

\* A server owes an answer to the call it handles and to those in its pipe.
Owes ==
    \A s \in Sessions :
      /\ child[s] = "none" => stdin[s] = <<>> /\ spoken[s] = 0
      /\ Lives(s) => \E c : /\ CallsFrom(c, stdin[s])
                            /\ spoken[s] = c[1] + IF child[s] = "busy" THEN 1 ELSE 0

ProxyInv == ProxyTypes /\ CommandKnows /\ NamedSinceWritten /\ FreshHasNoServer /\ Owes

\* The steps of the composition, as the proxy, its sessions and their servers see them.
Commands == (\E b \in BOOLEAN : Start(b)) \/ StopRead \/ StopKill \/ StopRemove
ProxyMoves(p) ==
    \/ WritePid(p) \/ Bind(p) \/ Last(p) \/ ProxyDies(p)
    \/ ShutdownNext(p) \/ ShutdownWaited(p) \/ ShutdownEnds(p) \/ LoopEnds(p)
HandlerMoves(s) ==
    \/ Connects(s) \/ Disconnects(s) \/ Spawns(s) \/ Registers(s) \/ Announces(s)
    \/ Relays(s) \/ SeesEnd(s) \/ Heartbeat(s) \/ CleansUp(s) \/ Ends(s) \/ Cancelled(s)
ServerMoves(s) ==
    \/ \E b \in {"call", "note", "garbage"} : Posts(s, b)
    \/ Takes(s) \/ Answers(s) \/ GivesUp(s) \/ Reaps(s)
OtherMove == Move /\ UNCHANGED <<proxy, names, handlers, pipes>>

LEMMA CallsAppended ==
  ASSUME NEW lines \in Seq({"call", "note", "garbage"}), NEW c, CallsFrom(c, lines),
         NEW line \in {"call", "note", "garbage"}
  PROVE  \E d : /\ CallsFrom(d, Append(lines, line))
                /\ d[1] = c[1] + IF line = "call" THEN 1 ELSE 0
<1> DEFINE more == IF line = "call" THEN 1 ELSE 0
           n == Len(lines)
           d == [i \in 1..(n + 2) |-> IF i = n + 2 THEN 0 ELSE c[i] + more]
<1>1. n \in Nat /\ Len(Append(lines, line)) = n + 1
  OBVIOUS
<1>2. more \in Nat
  OBVIOUS
<1>3. d \in [1..(n + 1 + 1) -> Nat] /\ d[n + 1 + 1] = 0
  BY <1>1, <1>2 DEF CallsFrom
<1>4. ASSUME NEW i \in 1..n PROVE d[i] = d[i + 1] + IF Append(lines, line)[i] = "call" THEN 1 ELSE 0
  <2>1. Append(lines, line)[i] = lines[i]
    BY <1>1
  <2>2. d[i] = c[i] + more /\ d[i + 1] = c[i + 1] + more
    BY <1>1
  <2>3. c[i] = c[i + 1] + IF lines[i] = "call" THEN 1 ELSE 0
    BY DEF CallsFrom
  <2>4. c[i] \in Nat /\ c[i + 1] \in Nat
    BY <1>1 DEF CallsFrom
  <2> QED
    BY <2>1, <2>2, <2>3, <2>4, <1>2
<1>5. d[n + 1] = d[n + 2] + more /\ Append(lines, line)[n + 1] = line
  BY <1>1, <1>2 DEF CallsFrom
<1>6. CallsFrom(d, Append(lines, line))
  <2>1. \A i \in 1..(n + 1) : d[i] = d[i + 1] + IF Append(lines, line)[i] = "call" THEN 1 ELSE 0
    <3> SUFFICES ASSUME NEW i \in 1..(n + 1)
                 PROVE  d[i] = d[i + 1] + IF Append(lines, line)[i] = "call" THEN 1 ELSE 0
      OBVIOUS
    <3> HIDE DEF d
    <3>1. CASE i \in 1..n
      BY <1>4, <3>1
    <3>2. CASE i = n + 1
      BY <1>1, <1>5, <3>2
    <3> QED
      BY <1>1, <3>1, <3>2
  <2> HIDE DEF d
  <2> QED
    BY <1>1, <1>3, <2>1 DEF CallsFrom
<1>7. d[1] = c[1] + more
  BY <1>1
<1> QED
  BY <1>6, <1>7

LEMMA CallsTaken ==
  ASSUME NEW lines \in Seq({"call", "note", "garbage"}), lines # <<>>,
         NEW c, CallsFrom(c, lines)
  PROVE  \E d : /\ CallsFrom(d, Tail(lines))
                /\ c[1] = d[1] + IF Head(lines) = "call" THEN 1 ELSE 0
<1> DEFINE n == Len(lines)
           d == [i \in 1..n |-> c[i + 1]]
<1>1. n \in Nat \ {0} /\ Len(Tail(lines)) = n - 1 /\ Head(lines) = lines[1]
  OBVIOUS
<1>2. d \in [1..(n - 1 + 1) -> Nat] /\ d[n - 1 + 1] = 0
  BY <1>1 DEF CallsFrom
<1>3. ASSUME NEW i \in 1..(n - 1) PROVE d[i] = d[i + 1] + IF Tail(lines)[i] = "call" THEN 1 ELSE 0
  <2>1. Tail(lines)[i] = lines[i + 1]
    BY <1>1
  <2>2. d[i] = c[i + 1] /\ d[i + 1] = c[(i + 1) + 1]
    BY <1>1
  <2> QED
    BY <1>1, <2>1, <2>2 DEF CallsFrom
<1>4. CallsFrom(d, Tail(lines))
  BY <1>1, <1>2, <1>3 DEF CallsFrom
<1>5. c[1] = d[1] + IF Head(lines) = "call" THEN 1 ELSE 0
  BY <1>1 DEF CallsFrom
<1> QED
  BY <1>4, <1>5

LEMMA ProxyInitially == ASSUME ProxyInit PROVE ProxyInv
<1> USE ProxyAssumption DEF ProxyInit, NoCommand, NoSession, NoEnding
<1>1. pidFile \in Proxies \cup {NoPid}
  OBVIOUS
<1>2. ProxyTypes
  BY <1>1 DEF ProxyTypes
<1>3. CommandKnows /\ NamedSinceWritten /\ FreshHasNoServer /\ Owes
  BY <1>1 DEF CommandKnows, NamedSinceWritten, FreshHasNoServer, Owes, Lives
<1> QED
  BY <1>2, <1>3 DEF ProxyInv

LEMMA EndingTypes ==
  ASSUME NEW p \in Proxies, NEW todo \in SUBSET Sessions, NEW on \in SUBSET Sessions,
         ending \in [Proxies -> [todo : SUBSET Sessions, on : SUBSET Sessions]]
  PROVE  [ending EXCEPT ![p] = [todo |-> todo, on |-> on]]
           \in [Proxies -> [todo : SUBSET Sessions, on : SUBSET Sessions]]
<1> DEFINE E == [todo : SUBSET Sessions, on : SUBSET Sessions]
           e == [todo |-> todo, on |-> on]
<1>1. e \in E /\ ending \in [Proxies -> E]
  OBVIOUS
<1> HIDE DEF E, e
<1>2. [ending EXCEPT ![p] = e] \in [Proxies -> E]
  BY <1>1
<1> QED
  BY <1>2 DEF E, e

LEMMA CommandsKeep == ASSUME ProxyInv, Commands PROVE ProxyInv'
<1> USE ProxyAssumption DEF ProxyInv, names, handlers, pipes
<1>1. UNCHANGED <<session, listed, child, stdin, answers, spoken>>
  BY DEF Commands, Start, StopRead, StopKill, StopRemove
<1>2. FreshHasNoServer' /\ Owes'
  BY <1>1 DEF FreshHasNoServer, Owes, Lives
<1>3. ASSUME NEW b \in BOOLEAN, Start(b) PROVE ProxyInv'
  <2>1. ProxyTypes'
    BY <1>3 DEF Start, Move, ProxyTypes
  <2>2. CommandKnows' /\ NamedSinceWritten'
    BY <1>3 DEF Start, ProxyTypes, CommandKnows, NamedSinceWritten
  <2> QED
    BY <1>2, <2>1, <2>2
<1>4. CASE StopRead
  <2>1. ProxyTypes'
    BY <1>4 DEF StopRead, Move, ReadPid, ProxyTypes
  <2>2. CommandKnows' /\ NamedSinceWritten'
    BY <1>4 DEF StopRead, ReadPid, Alive, ProxyTypes, CommandKnows, NamedSinceWritten
  <2> QED
    BY <1>2, <2>1, <2>2
<1>5. CASE StopKill
  <2> DEFINE p == command.pid
  <2>1. p \in Proxies
    BY <1>5 DEF StopKill, CommandKnows
  <2>2. /\ proxy' = [proxy EXCEPT ![p] = Signalled(p)]
        /\ command' = [kind |-> "remove", pid |-> p]
        /\ UNCHANGED <<pidFile, unnamed, session, listed, pipes, moves>>
    BY <1>5 DEF StopKill, ProxyTypes
  <2>3. ending' \in [Proxies -> [todo : SUBSET Sessions, on : SUBSET Sessions]]
    <3> DEFINE rest == listed \cap Of(p)
    <3>1. rest \in SUBSET Sessions /\ ending[p].on \in SUBSET Sessions
      BY <2>1 DEF ProxyTypes
    <3>2. ending' = ending \/ ending' = [ending EXCEPT ![p].todo = rest]
      BY <1>5 DEF StopKill
    <3> HIDE DEF rest
    <3>3. ending' = ending \/ ending' = [ending EXCEPT ![p] = [todo |-> rest, on |-> ending[p].on]]
      BY <2>1, <3>2 DEF ProxyTypes
    <3> HIDE DEF p
    <3>4. ending \in [Proxies -> [todo : SUBSET Sessions, on : SUBSET Sessions]]
      BY DEF ProxyTypes
    <3>5. [ending EXCEPT ![p] = [todo |-> rest, on |-> ending[p].on]]
            \in [Proxies -> [todo : SUBSET Sessions, on : SUBSET Sessions]]
      BY <2>1, <3>1, <3>4, EndingTypes
    <3> QED
      BY <3>3, <3>4, <3>5
  <2>4. ProxyTypes'
    BY <2>1, <2>2, <2>3 DEF ProxyTypes, Signalled
  <2>5. CommandKnows' /\ NamedSinceWritten'
    BY <1>5, <2>1, <2>2 DEF StopKill, Signalled, ProxyTypes, CommandKnows, NamedSinceWritten
  <2> QED
    BY <1>2, <2>4, <2>5
<1>6. CASE StopRemove
  <2>1. ProxyTypes'
    BY <1>6 DEF StopRemove, NoCommand, ProxyTypes
  <2>2. CommandKnows' /\ NamedSinceWritten'
    BY <1>6 DEF StopRemove, NoCommand, ProxyTypes, CommandKnows, NamedSinceWritten
  <2> QED
    BY <1>2, <2>1, <2>2
<1> QED
  BY <1>3, <1>4, <1>5, <1>6 DEF Commands

\* A signal ends a server that lives and does nothing else.
LEMMA KilledKeeps ==
  ASSUME ProxyTypes, Owes, NEW s \in Sessions, Killed(s) \/ UNCHANGED child,
         UNCHANGED <<stdin, spoken>>
  PROVE  /\ child' \in [Sessions -> {"none", "idle", "busy", "exited", "reaped"}]
         /\ \A t \in Sessions : child[t] = "none" <=> child'[t] = "none"
         /\ Owes'
<1>1. child' \in [Sessions -> {"none", "idle", "busy", "exited", "reaped"}]
  BY DEF Killed, ProxyTypes
<1>2. \A t \in Sessions : child[t] = "none" <=> child'[t] = "none"
  BY DEF Killed, Lives, ProxyTypes
<1>3. \A t \in Sessions : child'[t] \in {"idle", "busy"} => child'[t] = child[t]
  BY DEF Killed, ProxyTypes
<1> QED
  BY <1>1, <1>2, <1>3 DEF Owes, Lives

LEMMA ProxyMovesKeep == ASSUME ProxyInv, NEW p \in Proxies, ProxyMoves(p) PROVE ProxyInv'
<1> USE ProxyAssumption DEF ProxyInv, names, handlers, pipes
<1>1. CASE ShutdownNext(p)
  <2>1. PICK s \in Sessions : Killed(s) \/ UNCHANGED child
    BY <1>1 DEF ShutdownNext, ProxyTypes
  <2>2. /\ UNCHANGED <<pidFile, command, unnamed, session, listed, stdin, answers, spoken, moves>>
        /\ proxy[p] = "closing"
        /\ proxy' \in {proxy, [proxy EXCEPT ![p] = "cancelling"]}
    BY <1>1 DEF ShutdownNext
  <2>3. ending' \in [Proxies -> [todo : SUBSET Sessions, on : SUBSET Sessions]]
    <3>1. PICK t \in ending[p].todo :
            \/ ending' = [ending EXCEPT ![p] = NoEnding]
            \/ ending' = [ending EXCEPT ![p] = [todo |-> ending[p].todo \ {t}, on |-> {t}]]
      BY <1>1 DEF ShutdownNext
    <3> DEFINE rest == ending[p].todo \ {t}
    <3>2. rest \in SUBSET Sessions /\ {t} \in SUBSET Sessions /\ {} \in SUBSET Sessions
      BY DEF ProxyTypes
    <3> HIDE DEF rest
    <3>3. \/ ending' = [ending EXCEPT ![p] = [todo |-> {}, on |-> {}]]
          \/ ending' = [ending EXCEPT ![p] = [todo |-> rest, on |-> {t}]]
      BY <3>1 DEF NoEnding, rest
    <3>4. ending \in [Proxies -> [todo : SUBSET Sessions, on : SUBSET Sessions]]
      BY DEF ProxyTypes
    <3>5. [ending EXCEPT ![p] = [todo |-> {}, on |-> {}]]
            \in [Proxies -> [todo : SUBSET Sessions, on : SUBSET Sessions]]
      BY <3>2, <3>4, EndingTypes
    <3>6. [ending EXCEPT ![p] = [todo |-> rest, on |-> {t}]]
            \in [Proxies -> [todo : SUBSET Sessions, on : SUBSET Sessions]]
      BY <3>2, <3>4, EndingTypes
    <3> QED
      BY <3>3, <3>5, <3>6
  <2>4. ProxyTypes' /\ Owes' /\ FreshHasNoServer'
    BY <2>1, <2>2, <2>3, KilledKeeps DEF ProxyTypes, FreshHasNoServer
  <2>5. CommandKnows' /\ NamedSinceWritten'
    BY <2>2 DEF ProxyTypes, CommandKnows, NamedSinceWritten
  <2> QED
    BY <2>4, <2>5
<1>2. CASE ~ShutdownNext(p)
  <2>1. UNCHANGED <<session, child, stdin, answers, spoken, command>>
    BY <1>2 DEF ProxyMoves, WritePid, Bind, Last, ProxyDies, ShutdownWaited, ShutdownEnds, LoopEnds
  <2>2. FreshHasNoServer' /\ Owes'
    BY <2>1 DEF FreshHasNoServer, Owes, Lives
  <2>3. CASE WritePid(p)
    <3>1. ProxyTypes'
      BY <2>3 DEF WritePid, ProxyTypes
    <3>2. CommandKnows'
      BY <2>3 DEF WritePid, ProxyTypes, CommandKnows
    <3>3. NamedSinceWritten'
      BY <2>3 DEF WritePid, Alive, ProxyTypes, NamedSinceWritten
    <3> QED
      BY <2>2, <3>1, <3>2, <3>3
  <2>4. CASE Bind(p)
    <3>1. UNCHANGED <<pidFile, unnamed, listed, ending, moves, command>> /\ proxy[p] = "named"
          /\ proxy' \in {[proxy EXCEPT ![p] = "last"], [proxy EXCEPT ![p] = "serving"]}
      BY <2>4 DEF Bind
    <3>2. ProxyTypes'
      BY <2>1, <3>1 DEF ProxyTypes
    <3>3. CommandKnows' /\ NamedSinceWritten'
      BY <3>1 DEF ProxyTypes, CommandKnows, NamedSinceWritten
    <3> QED
      BY <2>2, <3>2, <3>3
  <2>5. CASE Last(p)
    <3>1. ProxyTypes'
      BY <2>5 DEF Last, ProxyTypes
    <3>2. CommandKnows' /\ NamedSinceWritten'
      BY <2>5 DEF Last, ProxyTypes, CommandKnows, NamedSinceWritten
    <3> QED
      BY <2>2, <3>1, <3>2
  <2>6. CASE ProxyDies(p) \/ LoopEnds(p) \/ ShutdownEnds(p)
    <3>1. /\ UNCHANGED <<pidFile, unnamed, ending, command>> /\ listed' \subseteq listed
          /\ proxy' \in {[proxy EXCEPT ![p] = "gone"], [proxy EXCEPT ![p] = "last"],
                         [proxy EXCEPT ![p] = "cancelling"]}
          /\ moves' \in 0..MaxMoves
      BY <2>6 DEF ProxyDies, LoopEnds, ShutdownEnds, Move, ProxyTypes
    <3>2. ProxyTypes'
      BY <2>1, <3>1 DEF ProxyTypes
    <3>3. CommandKnows' /\ NamedSinceWritten'
      BY <3>1 DEF ProxyTypes, CommandKnows, NamedSinceWritten
    <3> QED
      BY <2>2, <3>2, <3>3
  <2>7. CASE ShutdownWaited(p)
    <3>1. UNCHANGED <<proxy, pidFile, unnamed, listed, moves, command>>
          /\ ending' = [ending EXCEPT ![p].on = {}]
      BY <2>7 DEF ShutdownWaited
    <3>2. ProxyTypes'
      BY <2>1, <3>1 DEF ProxyTypes
    <3>3. CommandKnows' /\ NamedSinceWritten'
      BY <3>1 DEF CommandKnows, NamedSinceWritten
    <3> QED
      BY <2>2, <3>2, <3>3
  <2> QED
    BY <1>2, <2>3, <2>4, <2>5, <2>6, <2>7 DEF ProxyMoves
<1> QED
  BY <1>1, <1>2

\* What the handler of a session does to it, besides what it does to its server.
SessionAt(s, where) ==
    /\ session' \in [Sessions -> [at : {"none", "spawn", "register", "endpoint", "relay",
                                        "cleanup", "wait", "broken", "done"},
                                  of : Proxies \cup {NoPid}, client : BOOLEAN]]
    /\ session'[s].at = where
    /\ \A t \in Sessions \ {s} : session'[t] = session[t]

LEMMA SessionFields ==
  ASSUME NEW At, NEW Whose, NEW r \in [at : At, of : Whose, client : BOOLEAN], NEW x
  PROVE  /\ [r EXCEPT !.at = x] = [at |-> x, of |-> r.of, client |-> r.client]
         /\ [r EXCEPT !.client = x] = [at |-> r.at, of |-> r.of, client |-> x]
  OBVIOUS

LEMMA GotoTypes ==
  ASSUME ProxyTypes, NEW s \in Sessions,
         NEW where \in {"register", "endpoint", "relay", "cleanup", "wait", "broken", "done"},
         Goto(s, where)
  PROVE  SessionAt(s, where)
<1> DEFINE now == [at |-> where, of |-> session[s].of, client |-> session[s].client]
<1>1. session[s].of \in Proxies \cup {NoPid} /\ session[s].client \in BOOLEAN
  BY DEF ProxyTypes
<1>2. session' = [session EXCEPT ![s] = now]
  <2>1. session' = [session EXCEPT ![s] = [session[s] EXCEPT !.at = where]]
    BY DEF Goto
  <2>2. session[s] \in [at : {"none", "spawn", "register", "endpoint", "relay", "cleanup",
                              "wait", "broken", "done"},
                        of : Proxies \cup {NoPid}, client : BOOLEAN]
    BY DEF ProxyTypes
  <2>3. [session[s] EXCEPT !.at = where] = now
    BY <2>2, SessionFields
  <2> QED
    BY <2>1, <2>3
<1>3. now \in [at : {"none", "spawn", "register", "endpoint", "relay", "cleanup", "wait",
                     "broken", "done"},
               of : Proxies \cup {NoPid}, client : BOOLEAN]
  BY <1>1
<1>4. now.at = where
  OBVIOUS
<1> QED
  BY <1>2, <1>3, <1>4 DEF ProxyTypes, SessionAt

LEMMA HandlerMovesKeep == ASSUME ProxyInv, NEW s \in Sessions, HandlerMoves(s) PROVE ProxyInv'
<1> USE ProxyAssumption DEF ProxyInv, names, handlers, pipes
<1>1. UNCHANGED <<proxy, pidFile, command, unnamed, ending, stdin, spoken>>
  BY DEF HandlerMoves, Connects, Disconnects, Spawns, Registers, Announces, Relays, SeesEnd,
         Heartbeat, CleansUp, Ends, Cancelled
<1>2. CommandKnows' /\ NamedSinceWritten'
  BY <1>1 DEF CommandKnows, NamedSinceWritten
<1>3. listed' \subseteq Sessions /\ moves' \in 0..MaxMoves /\ answers' \in [Sessions -> Nat]
  <2>1. CASE Connects(s) \/ Disconnects(s)
    BY <2>1 DEF ProxyTypes, Move, Connects, Disconnects
  <2>2. CASE Relays(s)
    <3>1. answers[s] - 1 \in Nat /\ answers' = [answers EXCEPT ![s] = answers[s] - 1]
      BY <2>2 DEF Relays, ProxyTypes
    <3>2. UNCHANGED <<listed, moves>>
      BY <2>2 DEF Relays
    <3> QED
      BY <3>1, <3>2 DEF ProxyTypes
  <2>3. CASE ~(Connects(s) \/ Disconnects(s) \/ Relays(s))
    <3>1. UNCHANGED <<answers, moves>>
      BY <2>3 DEF HandlerMoves, Spawns, Registers, Announces, SeesEnd, Heartbeat, CleansUp,
                  Ends, Cancelled
    <3>2. listed' \subseteq Sessions
      BY <2>3 DEF ProxyTypes, HandlerMoves, Spawns, Registers, Announces, SeesEnd, Heartbeat,
                  CleansUp, Ends, Cancelled
    <3> QED
      BY <3>1, <3>2 DEF ProxyTypes
  <2> QED
    BY <2>1, <2>2, <2>3
<1>4. CASE Connects(s)
  <2>1. UNCHANGED child /\ session[s] = NoSession
    BY <1>4 DEF Connects
  <2>2. SessionAt(s, "spawn")
    BY <1>4 DEF Connects, ProxyTypes, SessionAt
  <2>3. ProxyTypes' /\ FreshHasNoServer' /\ Owes'
    BY <1>1, <1>3, <2>1, <2>2 DEF ProxyTypes, FreshHasNoServer, NoSession, SessionAt, Owes, Lives
  <2> QED
    BY <1>2, <2>3
<1>5. CASE Disconnects(s)
  <2>1. UNCHANGED child
    BY <1>5 DEF Disconnects
  <2>2. SessionAt(s, session[s].at)
    <3>0. PICK x \in BOOLEAN : session' = [session EXCEPT ![s].client = x]
      BY <1>5 DEF Disconnects
    <3> DEFINE now == [at |-> session[s].at, of |-> session[s].of, client |-> x]
    <3>1. session' = [session EXCEPT ![s] = now]
      <4>1. session' = [session EXCEPT ![s] = [session[s] EXCEPT !.client = x]]
        BY <3>0
      <4>2. session[s] \in [at : {"none", "spawn", "register", "endpoint", "relay", "cleanup",
                                  "wait", "broken", "done"},
                            of : Proxies \cup {NoPid}, client : BOOLEAN]
        BY DEF ProxyTypes
      <4>3. [session[s] EXCEPT !.client = x] = now
        BY <4>2, SessionFields
      <4> QED
        BY <4>1, <4>3
    <3>2. now \in [at : {"none", "spawn", "register", "endpoint", "relay", "cleanup", "wait",
                         "broken", "done"},
                   of : Proxies \cup {NoPid}, client : BOOLEAN]
      BY DEF ProxyTypes
    <3>3. now.at = session[s].at
      OBVIOUS
    <3> HIDE DEF now
    <3> QED
      BY <3>1, <3>2, <3>3 DEF ProxyTypes, SessionAt
  <2>3. ProxyTypes' /\ FreshHasNoServer' /\ Owes'
    BY <1>1, <1>3, <2>1, <2>2 DEF ProxyTypes, FreshHasNoServer, SessionAt, Owes, Lives
  <2> QED
    BY <1>2, <2>3
<1>6. CASE Spawns(s)
  <2>1. child' = [child EXCEPT ![s] = "idle"] /\ session[s].at = "spawn" /\ Goto(s, "register")
    BY <1>6 DEF Spawns
  <2>2. SessionAt(s, "register")
    BY <2>1, GotoTypes
  <2>3. ProxyTypes' /\ FreshHasNoServer'
    BY <1>1, <1>3, <2>1, <2>2 DEF ProxyTypes, FreshHasNoServer, SessionAt
  <2>4. stdin[s] = <<>> /\ spoken[s] = 0
    BY <2>1 DEF FreshHasNoServer, Owes
  <2>5. CallsFrom([i \in 1..1 |-> 0], stdin'[s])
    BY <1>1, <2>4 DEF CallsFrom
  <2>6. Owes'
    <3> SUFFICES ASSUME NEW t \in Sessions
                 PROVE  /\ child'[t] = "none" => stdin'[t] = <<>> /\ spoken'[t] = 0
                        /\ child'[t] \in {"idle", "busy"} =>
                             \E c : /\ CallsFrom(c, stdin'[t])
                                    /\ spoken'[t] = c[1] + IF child'[t] = "busy" THEN 1 ELSE 0
      BY DEF Owes, Lives
    <3>1. CASE t = s
      <4>1. child'[t] = "idle" /\ spoken'[t] = [i \in 1..1 |-> 0][1] + 0
        BY <1>1, <2>1, <2>4, <3>1 DEF ProxyTypes
      <4> QED
        BY <2>5, <3>1, <4>1
    <3>2. CASE t # s
      BY <1>1, <2>1, <3>2 DEF Owes, Lives, ProxyTypes
    <3> QED
      BY <3>1, <3>2
  <2> QED
    BY <1>2, <2>3, <2>6
<1>7. CASE Registers(s) \/ Announces(s) \/ Relays(s) \/ SeesEnd(s) \/ Heartbeat(s) \/ Ends(s)
  <2>1. PICK where \in {"register", "endpoint", "relay", "cleanup", "wait", "broken", "done"} :
          Goto(s, where) /\ UNCHANGED child
    BY <1>7 DEF Registers, Announces, Relays, SeesEnd, Heartbeat, Ends
  <2>2. SessionAt(s, where)
    BY <2>1, GotoTypes
  <2>3. ProxyTypes'
    BY <1>1, <1>3, <2>1, <2>2 DEF ProxyTypes, SessionAt
  <2>4. FreshHasNoServer' /\ Owes'
    BY <1>1, <2>1, <2>2 DEF FreshHasNoServer, SessionAt, Owes, Lives
  <2> QED
    BY <1>2, <2>3, <2>4
<1>8. CASE CleansUp(s) \/ Cancelled(s)
  <2>1. PICK where \in {"register", "endpoint", "relay", "cleanup", "wait", "broken", "done"} :
          where # "register" /\ Goto(s, where)
    BY <1>8 DEF CleansUp, Cancelled
  <2>2. Killed(s) \/ UNCHANGED child
    BY <1>8 DEF CleansUp, Cancelled
  <2>3. SessionAt(s, where)
    BY <2>1, GotoTypes
  <2>4. /\ child' \in [Sessions -> {"none", "idle", "busy", "exited", "reaped"}]
        /\ \A t \in Sessions : child[t] = "none" <=> child'[t] = "none"
        /\ Owes'
    BY <1>1, <2>2, KilledKeeps
  <2>5. ProxyTypes' /\ FreshHasNoServer'
    BY <1>1, <1>3, <2>1, <2>3, <2>4 DEF ProxyTypes, FreshHasNoServer, SessionAt
  <2> QED
    BY <1>2, <2>4, <2>5
<1> QED
  BY <1>4, <1>5, <1>6, <1>7, <1>8 DEF HandlerMoves

\* What a server owes when only its own pipe, or it itself, has changed.
LEMMA OwesStill ==
  ASSUME Owes, NEW s \in Sessions,
         \A t \in Sessions \ {s} :
           child'[t] = child[t] /\ stdin'[t] = stdin[t] /\ spoken'[t] = spoken[t],
         child'[s] # "none",
         child'[s] \in {"idle", "busy"} =>
           \E c : /\ CallsFrom(c, stdin'[s])
                  /\ spoken'[s] = c[1] + IF child'[s] = "busy" THEN 1 ELSE 0
  PROVE  Owes'
<1> SUFFICES ASSUME NEW t \in Sessions
             PROVE  /\ child'[t] = "none" => stdin'[t] = <<>> /\ spoken'[t] = 0
                    /\ child'[t] \in {"idle", "busy"} =>
                         \E c : /\ CallsFrom(c, stdin'[t])
                                /\ spoken'[t] = c[1] + IF child'[t] = "busy" THEN 1 ELSE 0
  BY DEF Owes, Lives
<1>1. CASE t = s
  BY <1>1
<1>2. CASE t # s
  BY <1>2 DEF Owes, Lives
<1> QED
  BY <1>1, <1>2

LEMMA ServerMovesKeep == ASSUME ProxyInv, NEW s \in Sessions, ServerMoves(s) PROVE ProxyInv'
<1> USE ProxyAssumption DEF ProxyInv, names, handlers, pipes
<1>1. UNCHANGED <<proxy, pidFile, command, unnamed, session, listed, ending>>
  BY DEF ServerMoves, Posts, Takes, Answers, GivesUp, Reaps
<1>2. CommandKnows' /\ NamedSinceWritten'
  BY <1>1 DEF CommandKnows, NamedSinceWritten
<1>3. ASSUME NEW b \in {"call", "note", "garbage"}, Posts(s, b) PROVE ProxyInv'
  <2>1. UNCHANGED <<child, answers>> /\ moves' \in 0..MaxMoves
    BY <1>3 DEF Posts, Move, ProxyTypes
  <2>2. FreshHasNoServer'
    BY <1>1, <2>1 DEF FreshHasNoServer
  <2>3. CASE ~Lives(s)
    <3>1. UNCHANGED <<stdin, spoken>>
      BY <1>3, <2>3 DEF Posts
    <3> QED
      BY <1>1, <1>2, <2>1, <2>2, <3>1 DEF ProxyTypes, Owes, Lives
  <2>4. CASE Lives(s)
    <3> DEFINE more == IF b = "call" THEN 1 ELSE 0
    <3>1. /\ stdin' = [stdin EXCEPT ![s] = Append(stdin[s], b)]
          /\ spoken' = [spoken EXCEPT ![s] = spoken[s] + more]
      BY <1>3, <2>4 DEF Posts
    <3>2. stdin[s] \in Seq({"call", "note", "garbage"}) /\ more \in Nat /\ spoken[s] \in Nat
      BY DEF ProxyTypes
    <3>3. Append(stdin[s], b) \in Seq({"call", "note", "garbage"})
      BY <3>2
    <3>4. ProxyTypes'
      BY <1>1, <2>1, <3>1, <3>2, <3>3 DEF ProxyTypes
    <3>5. PICK c : /\ CallsFrom(c, stdin[s])
                   /\ spoken[s] = c[1] + IF child[s] = "busy" THEN 1 ELSE 0
      BY <2>4 DEF Owes
    <3>6. PICK d : CallsFrom(d, Append(stdin[s], b)) /\ d[1] = c[1] + more
      BY <3>2, <3>5, CallsAppended
    <3>7. c[1] \in Nat
      BY <3>2, <3>5 DEF CallsFrom
    <3>8. stdin'[s] = Append(stdin[s], b) /\ spoken'[s] = spoken[s] + more
      BY <3>1 DEF ProxyTypes
    <3> HIDE DEF more
    <3>9. spoken'[s] = d[1] + IF child'[s] = "busy" THEN 1 ELSE 0
      BY <2>1, <3>2, <3>5, <3>6, <3>7, <3>8
    <3>10. \A t \in Sessions \ {s} :
             child'[t] = child[t] /\ stdin'[t] = stdin[t] /\ spoken'[t] = spoken[t]
      BY <2>1, <3>1 DEF ProxyTypes
    <3>11. CallsFrom(d, stdin'[s]) /\ child'[s] # "none"
      BY <2>1, <2>4, <3>6, <3>8 DEF Lives
    <3>12. Owes'
      BY <3>9, <3>10, <3>11, OwesStill
    <3> QED
      BY <1>2, <2>2, <3>4, <3>12
  <2> QED
    BY <2>3, <2>4
<1>4. CASE Takes(s)
  <2> DEFINE now == IF Head(stdin[s]) = "call" THEN "busy" ELSE "idle"
  <2>1. /\ child[s] = "idle" /\ stdin[s] # <<>>
        /\ stdin' = [stdin EXCEPT ![s] = Tail(stdin[s])]
        /\ child' = [child EXCEPT ![s] = now]
        /\ UNCHANGED <<answers, spoken, moves>>
    BY <1>4 DEF Takes
  <2>2. stdin[s] \in Seq({"call", "note", "garbage"}) /\ now \in {"busy", "idle"}
        /\ spoken[s] \in Nat
    BY DEF ProxyTypes
  <2>3. Tail(stdin[s]) \in Seq({"call", "note", "garbage"})
    BY <2>1, <2>2
  <2>4. ProxyTypes'
    BY <1>1, <2>1, <2>2, <2>3 DEF ProxyTypes
  <2>5. FreshHasNoServer'
    BY <1>1, <2>1, <2>2 DEF FreshHasNoServer, ProxyTypes
  <2>6. PICK c : CallsFrom(c, stdin[s]) /\ spoken[s] = c[1]
    <3>1. PICK c : CallsFrom(c, stdin[s]) /\ spoken[s] = c[1] + 0
      BY <2>1 DEF Owes, Lives
    <3>2. c[1] \in Nat
      BY <2>2, <3>1 DEF CallsFrom
    <3> QED
      BY <3>1, <3>2
  <2>7. PICK d : /\ CallsFrom(d, Tail(stdin[s]))
                 /\ c[1] = d[1] + IF Head(stdin[s]) = "call" THEN 1 ELSE 0
    BY <2>1, <2>2, <2>6, CallsTaken
  <2>8. /\ \A t \in Sessions \ {s} :
             child'[t] = child[t] /\ stdin'[t] = stdin[t] /\ spoken'[t] = spoken[t]
        /\ child'[s] = now /\ stdin'[s] = Tail(stdin[s]) /\ spoken'[s] = spoken[s]
    BY <2>1 DEF ProxyTypes
  <2>9. CallsFrom(d, stdin'[s]) /\ spoken'[s] = d[1] + IF child'[s] = "busy" THEN 1 ELSE 0
    BY <2>6, <2>7, <2>8
  <2>10. Owes'
    BY <2>2, <2>8, <2>9, OwesStill
  <2> QED
    BY <1>2, <2>4, <2>5, <2>10
<1>5. CASE Answers(s)
  <2>1. /\ child[s] = "busy"
        /\ child' = [child EXCEPT ![s] = "idle"]
        /\ answers' = [answers EXCEPT ![s] = answers[s] + 1]
        /\ spoken' = [spoken EXCEPT ![s] = spoken[s] - 1]
        /\ UNCHANGED <<stdin, moves>>
    BY <1>5 DEF Answers
  <2>2. stdin[s] \in Seq({"call", "note", "garbage"}) /\ spoken[s] \in Nat
    BY DEF ProxyTypes
  <2>3. PICK c : CallsFrom(c, stdin[s]) /\ spoken[s] = c[1] + 1
    BY <2>1 DEF Owes, Lives
  <2>4. c[1] \in Nat
    BY <2>2, <2>3 DEF CallsFrom
  <2>5. spoken[s] - 1 \in Nat /\ spoken[s] - 1 = c[1] + 0
    BY <2>2, <2>3, <2>4
  <2>6. ProxyTypes'
    BY <1>1, <2>1, <2>5 DEF ProxyTypes
  <2>7. FreshHasNoServer'
    BY <1>1, <2>1 DEF FreshHasNoServer, ProxyTypes
  <2>8. /\ \A t \in Sessions \ {s} :
             child'[t] = child[t] /\ stdin'[t] = stdin[t] /\ spoken'[t] = spoken[t]
        /\ child'[s] = "idle" /\ stdin'[s] = stdin[s] /\ spoken'[s] = spoken[s] - 1
    BY <2>1 DEF ProxyTypes
  <2>9. Owes'
    BY <2>3, <2>5, <2>8, OwesStill
  <2> QED
    BY <1>2, <2>6, <2>7, <2>9
<1>6. CASE GivesUp(s) \/ Reaps(s)
  <2>1. PICK now \in {"exited", "reaped"} : child' = [child EXCEPT ![s] = now]
    BY <1>6 DEF GivesUp, Reaps
  <2>2. UNCHANGED <<stdin, answers, spoken, moves>> /\ child[s] # "none"
    BY <1>6 DEF GivesUp, Reaps
  <2>3. ProxyTypes' /\ FreshHasNoServer'
    BY <1>1, <2>1, <2>2 DEF ProxyTypes, FreshHasNoServer
  <2>4. /\ \A t \in Sessions \ {s} :
             child'[t] = child[t] /\ stdin'[t] = stdin[t] /\ spoken'[t] = spoken[t]
        /\ child'[s] = now
    BY <2>1, <2>2 DEF ProxyTypes
  <2>5. Owes'
    BY <2>4, OwesStill
  <2> QED
    BY <1>2, <2>3, <2>5
<1> QED
  BY <1>3, <1>4, <1>5, <1>6 DEF ServerMoves

-----------------------------------------------------------------------------
(* The composition *)

\* A server stands inside a database block only while it handles a call.
InsideIsBusy == \A s \in Sessions : pc[s] # "out" => child[s] = "busy"

StackInv == MongodInv /\ ProxyInv /\ InsideIsBusy

\* Which part of the proxy a step of the composition is a step of.
ProxyStep ==
    \/ Commands
    \/ \E p \in Proxies : ProxyMoves(p)
    \/ \E s \in Sessions : HandlerMoves(s) \/ ServerMoves(s)
    \/ OtherMove
    \/ UNCHANGED proxyVars

LEMMA ProxySteps == ASSUME [Next]_vars PROVE ProxyStep
<1> USE DEF ProxyStep
<1>1. CASE Environment
  BY <1>1 DEF Environment, Commands, ProxyMoves, HandlerMoves, ServerMoves, OtherMoves, OtherMove
<1>2. ASSUME NEW p \in Proxies, ProxyRuns(p) PROVE ProxyStep
  BY <1>2 DEF ProxyRuns, WithKills, ProxyMoves
<1>3. ASSUME NEW s \in Sessions, Handles(s) \/ WithKills(Cancelled(s)) \/ Heartbeat(s)
      PROVE ProxyStep
  BY <1>3 DEF Handles, WithKills, HandlerMoves
<1>4. ASSUME NEW s \in Sessions, Serves(s) \/ Reaps(s) PROVE ProxyStep
  BY <1>4 DEF Serves, Calls, ServerMoves
<1>5. ASSUME NEW u \in Users, Works(u) PROVE ProxyStep
  BY <1>5 DEF Works
<1>6. CASE Runtime
  BY <1>2, <1>3, <1>4, <1>5, <1>6 DEF Runtime, StopsOn, Commands
<1>7. CASE UNCHANGED vars
  BY <1>7 DEF vars
<1> QED
  BY <1>1, <1>6, <1>7 DEF Next

LEMMA ProxyStepKeeps == ASSUME ProxyInv, ProxyStep PROVE ProxyInv'
<1>1. CASE OtherMove
  <2>1. /\ UNCHANGED <<proxy, pidFile, command, unnamed, session, listed, ending, child, stdin,
                       answers, spoken>>
        /\ moves' \in 0..MaxMoves
    BY <1>1, ProxyAssumption DEF OtherMove, Move, names, handlers, pipes, ProxyInv, ProxyTypes
  <2> QED
    BY <2>1 DEF ProxyInv, ProxyTypes, CommandKnows, NamedSinceWritten, FreshHasNoServer, Owes, Lives
<1>2. CASE UNCHANGED proxyVars
  BY <1>2 DEF proxyVars, names, handlers, pipes, ProxyInv, ProxyTypes, CommandKnows,
              NamedSinceWritten, FreshHasNoServer, Owes, Lives
<1> QED
  BY <1>1, <1>2, CommandsKeep, ProxyMovesKeep, HandlerMovesKeep, ServerMovesKeep DEF ProxyStep

\* Who dies of a signal inside its block leaves it, and no block begins without a call.
LEMMA InsideStaysBusy ==
  ASSUME StackInv, [Next]_vars
  PROVE  InsideIsBusy'
<1> USE StackAssumption DEF StackInv, InsideIsBusy
<1>1. ASSUME UNCHANGED <<pc, child>> PROVE InsideIsBusy'
  BY <1>1
<1>2. ASSUME NEW s \in Sessions, UNCHANGED pc, child' = [child EXCEPT ![s] = child'[s]],
             child[s] # "busy"
      PROVE  InsideIsBusy'
  BY <1>2 DEF ProxyInv, ProxyTypes
<1>3. ASSUME NEW u \in Users, UNCHANGED child, pc[u] # "out",
             \A v \in Users \ {u} : pc'[v] = pc[v]
      PROVE  InsideIsBusy'
  BY <1>3
<1>4. ASSUME NEW u \in Others, UNCHANGED child, \A v \in Users \ {u} : pc'[v] = pc[v]
      PROVE  InsideIsBusy'
  BY <1>4
<1>5. ASSUME NEW ACTION step, WithKills(step),
             \/ UNCHANGED child
             \/ \E s \in Sessions : Killed(s)
      PROVE  InsideIsBusy'
  <2>1. CASE \E s \in Sessions : Dead(s)
    <3>1. PICK s \in Sessions : Dead(s) /\ Die(s)
      BY <1>5, <2>1 DEF WithKills
    <3>2. pc' = [pc EXCEPT ![s] = "out"]
      BY <3>1 DEF Die
    <3>3. \A t \in Sessions \ {s} : child'[t] = child[t]
      BY <1>5, <3>1 DEF Dead, Killed, Lives, ProxyInv, ProxyTypes
    <3> QED
      BY <3>2, <3>3 DEF MongodInv, MongodTypeOK
  <2>2. CASE ~\E s \in Sessions : Dead(s)
    <3>1. UNCHANGED pc
      BY <1>5, <2>2 DEF WithKills, mongod
    <3>2. CASE UNCHANGED child
      BY <3>1, <3>2
    <3>3. ASSUME NEW s \in Sessions, Killed(s) PROVE InsideIsBusy'
      BY <2>2, <3>1, <3>3 DEF Killed, Dead, Lives, ProxyInv, ProxyTypes
    <3> QED
      BY <1>5, <3>2, <3>3
  <2> QED
    BY <2>1, <2>2
<1>6. CASE Environment
  <2>1. ASSUME NEW u \in Others, OtherMoves(u) PROVE InsideIsBusy'
    <3>1. UNCHANGED child /\ \A v \in Users \ {u} : pc'[v] = pc[v]
      BY <2>1 DEF OtherMoves, Enter, Die, pipes, MongodInv, MongodTypeOK
    <3> QED
      BY <3>1, <1>4
  <2>2. CASE ~\E u \in Others : OtherMoves(u)
    <3>1. UNCHANGED mongod
      BY <1>6, <2>2 DEF Environment
    <3>2. UNCHANGED child
      BY <1>6, <2>2 DEF Environment, Start, StopRead, ProxyDies, Connects, Disconnects, Posts, pipes
    <3> QED
      BY <3>1, <3>2, <1>1 DEF mongod
  <2> QED
    BY <2>1, <2>2
<1>7. ASSUME NEW p \in Proxies, ProxyRuns(p) PROVE InsideIsBusy'
  <2>1. CASE WithKills(ShutdownNext(p))
    <3>1. UNCHANGED child \/ \E s \in Sessions : Killed(s)
      BY <2>1 DEF WithKills, ShutdownNext, ProxyInv, ProxyTypes
    <3> QED
      BY <2>1, <3>1, <1>5
  <2>2. CASE ~WithKills(ShutdownNext(p))
    <3>1. UNCHANGED mongod
      BY <1>7, <2>2 DEF ProxyRuns
    <3>2. UNCHANGED child
      BY <1>7, <2>2 DEF ProxyRuns, WritePid, Bind, Last, ShutdownWaited, ShutdownEnds, LoopEnds, pipes
    <3> QED
      BY <3>1, <3>2, <1>1 DEF mongod
  <2> QED
    BY <2>1, <2>2
<1>8. ASSUME NEW s \in Sessions, Handles(s) \/ WithKills(Cancelled(s)) PROVE InsideIsBusy'
  <2>1. CASE WithKills(CleansUp(s)) \/ WithKills(Cancelled(s))
    <3>1. UNCHANGED child \/ Killed(s)
      BY <2>1 DEF WithKills, CleansUp, Cancelled
    <3> QED
      BY <2>1, <3>1, <1>5
  <2>2. CASE Spawns(s) /\ UNCHANGED mongod
    <3>1. child' = [child EXCEPT ![s] = "idle"] /\ child[s] = "none"
      BY <2>2 DEF Spawns, ProxyInv, FreshHasNoServer
    <3>2. UNCHANGED pc
      BY <2>2 DEF mongod
    <3> QED
      BY <3>1, <3>2, <1>2 DEF ProxyInv, ProxyTypes
  <2>3. CASE /\ Registers(s) \/ Announces(s) \/ Relays(s) \/ SeesEnd(s) \/ Ends(s)
             /\ UNCHANGED mongod
    <3>1. UNCHANGED child
      BY <2>3 DEF Registers, Announces, Relays, SeesEnd, Ends, pipes
    <3> QED
      BY <2>3, <3>1, <1>1 DEF mongod
  <2> QED
    BY <1>8, <2>1, <2>2, <2>3 DEF Handles
<1>9. ASSUME NEW s \in Sessions, Serves(s) PROVE InsideIsBusy'
  <2>1. CASE Calls(s)
    <3>1. child[s] = "idle" /\ child' = [child EXCEPT ![s] = child'[s]]
      BY <2>1 DEF Calls, Takes, ProxyInv, ProxyTypes
    <3>2. CASE UNCHANGED mongod
      BY <3>1, <3>2, <1>2 DEF mongod
    <3>3. CASE child'[s] = "busy" /\ Enter(s)
      <4>1. \A t \in Sessions \ {s} : child'[t] = child[t] /\ pc'[t] = pc[t]
        BY <3>1, <3>3 DEF Enter, ProxyInv, ProxyTypes, MongodInv, MongodTypeOK
      <4> QED
        BY <3>3, <4>1
    <3> QED
      BY <2>1, <3>2, <3>3 DEF Calls
  <2>2. CASE pc[s] = "out" /\ Answers(s) /\ UNCHANGED mongod
    BY <2>2 DEF Answers, mongod, ProxyInv, ProxyTypes
  <2>3. CASE GivesUp(s) /\ UNCHANGED mongod
    <3>1. child[s] = "idle" /\ child' = [child EXCEPT ![s] = "exited"]
      BY <2>3 DEF GivesUp
    <3> QED
      BY <2>3, <3>1 DEF mongod, ProxyInv, ProxyTypes
  <2> QED
    BY <1>9, <2>1, <2>2, <2>3 DEF Serves
<1>10. ASSUME NEW s \in Sessions, Heartbeat(s) \/ Reaps(s), UNCHANGED mongod PROVE InsideIsBusy'
  BY <1>10 DEF Heartbeat, Reaps, pipes, mongod, ProxyInv, ProxyTypes
<1>11. ASSUME NEW u \in Users, Works(u) PROVE InsideIsBusy'
  <2>1. /\ UNCHANGED child /\ pc[u] # "out"
        /\ \A v \in Users \ {u} : pc'[v] = pc[v]
    BY <1>11 DEF Works, Block, Spawn, Poll, GiveUp, Raise, Connect, Leave, CutOff, Exit, Stopped,
                 proxyVars, pipes, MongodInv, MongodTypeOK
  <2> QED
    BY <2>1, <1>3
<1>12. CASE (Mongod \/ UNCHANGED mongod) /\ UNCHANGED proxyVars
  BY <1>12, <1>1 DEF Mongod, Booted, StrayBooted, ShutDown, mongod, proxyVars, pipes
<1>13. CASE StopsOn
  BY <1>13, <1>1 DEF StopsOn, StopKill, StopRemove, pipes, mongod
<1>14. CASE Runtime
  BY <1>7, <1>8, <1>9, <1>10, <1>11, <1>12, <1>13, <1>14 DEF Runtime
<1> QED
  BY <1>6, <1>14, <1>12 DEF Next, vars

LEMMA StackInvariant == Spec => []StackInv
<1>1. Init => StackInv
  <2> SUFFICES ASSUME Init PROVE StackInv
    OBVIOUS
  <2>1. MongodInv /\ ProxyInv
    BY MongodInitially, ProxyInitially DEF Init
  <2>2. InsideIsBusy
    BY StackAssumption DEF Init, MongodInit, InsideIsBusy
  <2> QED
    BY <2>1, <2>2 DEF StackInv
<1>2. StackInv /\ [Next]_vars => StackInv'
  <2> SUFFICES ASSUME StackInv, [Next]_vars PROVE StackInv'
    OBVIOUS
  <2>1. MongodInv'
    BY MongodStepKeeps, MongodStutter, StackStep DEF StackInv
  <2>2. ProxyInv'
    BY ProxySteps, ProxyStepKeeps DEF StackInv
  <2> QED
    BY <2>1, <2>2, InsideStaysBusy DEF StackInv
<1> QED
  BY <1>1, <1>2, PTL DEF Spec

\* The variables keep their types; the count of unanswered requests never falls below
\* zero, and only a server that handles a call is inside a database block.
THEOREM TypeCorrect == Spec => []TypeOK
<1>1. StackInv => TypeOK
  BY DEF StackInv, MongodInv, ProxyInv, ProxyTypes, InsideIsBusy, TypeOK
<1> QED
  BY <1>1, StackInvariant, PTL

\* The pid file names every proxy that serves, unless another process has taken the
\* name away: for any number of proxies, stops, kills and starts at the same time.
THEOREM ProxyNamed == Spec => []PidFileNames
<1>1. StackInv => PidFileNames
  BY DEF StackInv, ProxyInv, NamedSinceWritten, PidFileNames, Serving
<1> QED
  BY <1>1, StackInvariant, PTL
=============================================================================
