------------------------------- MODULE McpStack -------------------------------
(***************************************************************************)
(* The SSE proxy and the database under it: an MCP server that handles a    *)
(* tools/call opens database blocks like any other wks process, and the     *)
(* proxy ends it with SIGTERM wherever it is.                               *)
(***************************************************************************)
EXTENDS McpProxy, LocalMongod

CONSTANT Others   \* processes beside the MCP servers: commands, the daemon

ASSUME StackAssumption == Users = Sessions \cup Others /\ Sessions \cap Others = {}

vars == <<proxyVars, mongod>>

Init == ProxyInit /\ MongodInit

\* A process that is told to terminate inside a block leaves it without __exit__.
Dead(s) == Lives(s) /\ child'[s] = "exited" /\ pc[s] # "out"

WithKills(step) ==
    /\ step
    /\ IF \E s \in Sessions : Dead(s) THEN \E s \in Sessions : Dead(s) /\ Die(s)
                                      ELSE UNCHANGED mongod

\* tools/call: some tools open a block, some do not.
Calls(s) ==
    /\ Takes(s)
    /\ \/ child'[s] = "busy" /\ Enter(s)
       \/ UNCHANGED mongod

\* The child of a session in the middle of a call, another process at work.
Works(u) == Block(u) /\ UNCHANGED proxyVars

OtherMoves(u) ==
    /\ Enter(u) \/ (pc[u] # "out" /\ Die(u))
    /\ Move
    /\ UNCHANGED <<proxy, names, handlers, pipes>>

ProxyRuns(p) ==
    \/ /\ \/ WritePid(p) \/ Bind(p) \/ Last(p)
          \/ ShutdownWaited(p) \/ ShutdownEnds(p) \/ LoopEnds(p)
       /\ UNCHANGED mongod
    \/ WithKills(ShutdownNext(p))

Handles(s) ==
    \/ /\ \/ Spawns(s) \/ Registers(s) \/ Announces(s)
          \/ Relays(s) \/ SeesEnd(s) \/ Ends(s)
       /\ UNCHANGED mongod
    \/ WithKills(CleansUp(s))

Serves(s) ==
    \/ Calls(s)
    \/ pc[s] = "out" /\ Answers(s) /\ UNCHANGED mongod
    \/ GivesUp(s) /\ UNCHANGED mongod

Environment ==
    \/ (\E b \in BOOLEAN : Start(b)) /\ UNCHANGED mongod
    \/ StopRead /\ UNCHANGED mongod
    \/ \E p \in Proxies : ProxyDies(p) /\ UNCHANGED mongod
    \/ \E s \in Sessions :
         /\ Connects(s) \/ Disconnects(s) \/ \E b \in {"call", "note", "garbage"} : Posts(s, b)
         /\ UNCHANGED mongod
    \/ \E u \in Others : OtherMoves(u)

StopsOn == (StopKill \/ StopRemove) /\ UNCHANGED mongod

\* What running processes do by themselves.
Runtime ==
    \/ StopsOn
    \/ \E p \in Proxies : ProxyRuns(p)
    \/ \E s \in Sessions : \/ Handles(s) \/ Serves(s)
                           \/ Heartbeat(s) /\ UNCHANGED mongod
                           \/ WithKills(Cancelled(s))
                           \/ Reaps(s) /\ UNCHANGED mongod
    \/ \E u \in Users : Works(u)
    \/ Mongod /\ UNCHANGED proxyVars

Next == Environment \/ Runtime

\* Whatever can go on goes on: the loop runs its coroutines, the heartbeat has its
\* timer, mongod boots and stops.  Clients, operators and crashes owe nothing.  One
\* condition is enough for all, since no running process repeats itself for ever.
Fairness == WF_vars(Runtime)

Spec == Init /\ [][Next]_vars /\ Fairness

-----------------------------------------------------------------------------
TypeOK ==
    /\ MongodTypeOK
    /\ proxy \in [Proxies -> {"none", "spawned", "named", "serving", "closing",
                              "cancelling", "last", "gone"}]
    /\ pidFile \in Proxies \cup {NoPid}
    /\ command \in [kind : {"none", "kill", "remove"}, pid : Proxies \cup {NoPid}]
    /\ session \in [Sessions -> [at : {"none", "spawn", "register", "endpoint", "relay",
                                       "cleanup", "wait", "broken", "done"},
                                 of : Proxies \cup {NoPid}, client : BOOLEAN]]
    /\ listed \subseteq Sessions
    /\ child \in [Sessions -> {"none", "idle", "busy", "exited", "reaped"}]
    /\ stdin \in [Sessions -> Seq({"call", "note", "garbage"})]
    /\ answers \in [Sessions -> Nat] /\ spoken \in [Sessions -> Nat]
    /\ ending \in [Proxies -> [todo : SUBSET Sessions, on : SUBSET Sessions]]
    /\ moves \in 0..MaxMoves
    /\ unnamed \subseteq Proxies
    /\ \A s \in Sessions : pc[s] # "out" => child[s] = "busy"

\* `proxy status` and `proxy stop` find the proxy that serves, unless another process
\* has overwritten or removed its pid: a second proxy that was started before the
\* first had written its own, or an older one that was still on its way out.
PidFileNames ==
    \A p \in Proxies : Serving(p) => pidFile = p \/ p \in unnamed

\* No MCP server stays when its client has gone, nor when its proxy has: the
\* heartbeat notices the one, the closed pipe the other.  The session whose first
\* write found no client keeps its server as long as the proxy runs.
ServerForSomebody(s) ==
    Lives(s) => \/ session[s].client /\ ~Closed(s)
                \/ session[s].at = "broken" /\ ~Closed(s)

\* Once clients and operators leave it alone, the stack comes to rest: no server
\* runs for nobody, a proxy told to stop has gone, every call has been answered or
\* its server has ended, and no process stays in __enter__ or __exit__.
Settled ==
    /\ \A s \in Sessions : ServerForSomebody(s) /\ (Lives(s) => spoken[s] = 0)
    /\ \A p \in Proxies : proxy[p] \in {"none", "serving", "gone"}
    /\ Outside = Users
Settles == <>[]Settled
=============================================================================
